--------------------------- MODULE CommandChannel ---------------------------
(***************************************************************************)
(* What the control plane promises to a caller of SendCommand: every       *)
(* WebSocket of an agent is a bounded first-in-first-out channel.  A       *)
(* command is accepted by at most one channel and at most once; it is      *)
(* delivered in the order of acceptance, and certainly as long as the      *)
(* channel does not go down.  A channel that is down delivers nothing any  *)
(* more, though it may still accept commands: SendCommand cannot know.     *)
(*                                                                         *)
(* AgentHub implements this specification: see Channel there.              *)
(***************************************************************************)
EXTENDS Naturals, Sequences

CONSTANTS
  Conns,     \* the channels; each is used once
  Commands,  \* what is sent; each command once
  Capacity   \* how many accepted commands may wait for delivery

VARIABLES
  up,        \* channel |-> "new", "up" or "down"
  accepted,  \* channel |-> the commands it has accepted, oldest first
  delivered  \* channel |-> the commands the agent's socket has taken

vars == <<up, accepted, delivered>>

Init ==
  /\ up        = [c \in Conns |-> "new"]
  /\ accepted  = [c \in Conns |-> <<>>]
  /\ delivered = [c \in Conns |-> <<>>]

Contents(s) == {s[i] : i \in DOMAIN s}

Open(c) ==
  /\ up[c] = "new"
  /\ up' = [up EXCEPT ![c] = "up"]
  /\ UNCHANGED <<accepted, delivered>>

\* A channel that is up never holds more than its capacity.
Accept(c, m) ==
  /\ up[c] # "new"
  /\ \A x \in Conns : m \notin Contents(accepted[x])
  /\ up[c] = "up" => Len(accepted[c]) < Len(delivered[c]) + Capacity
  /\ accepted' = [accepted EXCEPT ![c] = Append(@, m)]
  /\ UNCHANGED <<up, delivered>>

Deliver(c) ==
  /\ up[c] = "up"
  /\ Len(delivered[c]) < Len(accepted[c])
  /\ delivered' = [delivered EXCEPT ![c] = Append(@, accepted[c][Len(@) + 1])]
  /\ UNCHANGED <<up, accepted>>

\* Connections fail one by one, or together when the API process ends.
Fail(S) ==
  /\ S # {}
  /\ \A c \in S : up[c] = "up"
  /\ up' = [c \in Conns |-> IF c \in S THEN "down" ELSE up[c]]
  /\ UNCHANGED <<accepted, delivered>>

Next ==
  \/ \E c \in Conns : Open(c) \/ Deliver(c)
  \/ \E c \in Conns, m \in Commands : Accept(c, m)
  \/ \E S \in SUBSET Conns : Fail(S)

Spec == Init /\ [][Next]_vars /\ \A c \in Conns : WF_vars(Deliver(c))
=============================================================================
