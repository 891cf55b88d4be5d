---------------------------- MODULE CommandPath -----------------------------
(***************************************************************************)
(* A command on its way from SendCommand of the control plane              *)
(* (apps/api/internal/ws/hub.go) to the dispatcher of the agent:           *)
(* CommandChannel, which AgentHub implements, feeds the sockets of         *)
(* AgentLink.  The two share the sockets: a channel is up while the socket *)
(* is open, and what it delivers is what the agent's peer writes.          *)
(*                                                                         *)
(* Requests, the commands as SendCommand accepts them, are numbered in the *)
(* order of their acceptance.                                              *)
(***************************************************************************)
EXTENDS AgentLink

CONSTANT ChannelCapacity  \* capacity of AgentConn.send (256)

VARIABLES
  accepted,   \* connection |-> the requests SendCommand accepted for it
  delivered,  \* connection |-> those written to its socket
  origin      \* history: the n-th command of the link is the request at
              \*   position origin[n][2] of connection origin[n][1]

channels == <<accepted, delivered, origin>>
pathVars == <<vars, channels>>

Requests == 1..MaxCommands

ChannelState(c) ==
  CASE socket[c] = "none" -> "new"
    [] socket[c] = "open" -> "up"
    [] OTHER -> "down"

Channel == INSTANCE CommandChannel
           WITH up       <- [c \in Conns |-> ChannelState(c)],
                Commands <- Requests,
                Capacity <- ChannelCapacity

PathInit == Init /\ Channel!Init /\ origin = <<>>

\* Requests are numbered as they are accepted.
Newest(m) ==
  \A l \in 1..(m - 1) : \E x \in Conns : l \in Channel!Contents(accepted[x])

Accept(c, m) ==
  /\ UNCHANGED <<vars, origin>>
  /\ Newest(m)
  /\ Channel!Accept(c, m)

\* The control plane's write pump takes the next request of the channel and
\* writes it to the socket.
Transmit(c) ==
  /\ PeerWrites(c)
  /\ Channel!Deliver(c)
  /\ origin' = Append(origin, <<c, Len(delivered[c]) + 1>>)

PathNext ==
  /\ main # "exited"
  /\ \/ Step /\ UNCHANGED channels
     \/ \E c \in Conns : Transmit(c) \/ \E m \in Requests : Accept(c, m)

\* The channel need not deliver: the agent's promises do not depend on it.
PathSpec == PathInit /\ [][PathNext]_pathVars /\ Fairness

-----------------------------------------------------------------------------
(* Properties.                                                              *)

\* The request that the i-th arrived command carries.
Request(i) ==
  LET o == origin[Arrived[i][2]] IN accepted[o[1]][o[2]]

\* What comes to the agent's dispatcher was accepted by SendCommand, for the
\* connection it came over, and comes once.  On a connection with one reader no
\* request comes before all that were accepted for it earlier have come:
\* whether the channel or the dispatcher is slow, the connection is lost or
\* given up, or the agent stops, what the agent handles of a connection is an
\* initial part of what the portal was told is sent.
HandledInOrder ==
  \A i \in DOMAIN Arrived :
    LET c == Arrived[i][1] IN
    /\ \A j \in DOMAIN Arrived : j # i => Request(j) # Request(i)
    /\ \E p \in DOMAIN accepted[c] :
         /\ Request(i) = accepted[c][p]
         /\ ~Shared(c) =>
              \A q \in 1..(p - 1) : \E h \in 1..(i - 1) :
                Arrived[h][1] = c /\ Request(h) = accepted[c][q]
=============================================================================
