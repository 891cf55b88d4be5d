------------------------------ MODULE AgentLink -----------------------------
(***************************************************************************)
(* The agent's end of the WebSocket: apps/agent/internal/ws/hub.go with    *)
(* the start and the shutdown of the process in apps/agent/cmd/main.go.    *)
(*                                                                         *)
(* Hub.Run is a loop: it spawns a readPump, runs the writePump until that  *)
(* readPump ends, a write fails or the hub is stopped, and dials again.    *)
(* Nothing waits for the readPump of the connection that is given up, so   *)
(* readers of several connections may feed the receive channel at once.    *)
(***************************************************************************)
EXTENDS Naturals, Sequences

CONSTANTS
  MaxDials,     \* bound: connections the agent establishes
  MaxMessages,  \* bound: messages the agent sends
  MaxCommands,  \* bound: commands the control plane writes
  SendBuffer,   \* capacity of Hub.sendCh (64)
  RecvBuffer    \* capacity of Hub.recvCh (64)

ASSUME LinkAssumption ==
  /\ MaxDials \in Nat \ {0} /\ MaxMessages \in Nat \ {0} /\ MaxCommands \in Nat
  /\ SendBuffer \in Nat \ {0} /\ RecvBuffer \in Nat \ {0}

\* Connections are numbered as they are established; the n-th readPump is
\* the one Run spawns after the n-th.  Messages are numbered as Send is
\* called, commands as the control plane writes them.
Conns        == 1..MaxDials
NoConn       == 0
Registration == 1

VARIABLES
  main,     \* cmd/main.go: "connecting", "running", "stopping", "stopped", "exited"
  stop,     \* Hub.stopCh is closed
  run,      \* where Hub.Run stands
  conn,     \* Hub.conn
  dials,    \* number of connections established
  socket,   \* connection |-> "none", "open", "lost" (by the peer), "closed" (here)
  reader,   \* readPump |-> where it stands
  readOf,   \* readPump |-> the connection it reads
  held,     \* readPump |-> the command it is handing over
  inbox,    \* connection |-> commands the peer wrote that are not yet read
  recvCh,   \* <<connection, command>> the dispatcher has still to take
  sendCh,   \* messages the writePump has still to take
  sends,    \* number of Send calls
  commands, \* number of commands the peer wrote
  wire,     \* history: connection |-> messages written to it
  taken     \* history: <<connection, command>> the dispatcher took

readers  == <<reader, readOf, held>>
inbound  == <<inbox, recvCh, commands, taken>>
outbound == <<sendCh, sends, wire>>
vars == <<main, stop, run, conn, dials, socket, readers, inbound, outbound>>

Init ==
  /\ main = "connecting" /\ stop = FALSE /\ run = "none"
  /\ conn = NoConn /\ dials = 0
  /\ socket = [c \in Conns |-> "none"]
  /\ reader = [k \in Conns |-> "none"]
  /\ readOf = [k \in Conns |-> NoConn]
  /\ held   = [k \in Conns |-> 0]
  /\ inbox  = [c \in Conns |-> <<>>]
  /\ recvCh = <<>> /\ sendCh = <<>>
  /\ sends = 0 /\ commands = 0
  /\ wire = [c \in Conns |-> <<>>]
  /\ taken = <<>>

-----------------------------------------------------------------------------
(* Connect.                                                                 *)

Dialled ==
  /\ dials < MaxDials
  /\ dials' = dials + 1
  /\ conn' = dials + 1
  /\ socket' = [socket EXCEPT ![dials + 1] = "open"]

\* Agent.Connect, called once from main: dial until it works, then queue the
\* registration; the hub's and the agent's loops start.
InitialConnect ==
  /\ main = "connecting"
  /\ Dialled
  /\ main' = "running"
  /\ run' = "top"
  /\ sendCh' = <<Registration>> /\ sends' = Registration
  /\ UNCHANGED <<stop, readers, inbound, wire>>

\* Run dials itself: nothing is queued for the new connection.
Redial ==
  /\ run = "redialing"
  /\ ~stop
  /\ Dialled
  /\ run' = "top"
  /\ UNCHANGED <<main, stop, readers, inbound, outbound>>

\* A dial that fails changes nothing; the stop channel is looked at before
\* each attempt and during the backoff.
RedialStopped ==
  /\ run = "redialing"
  /\ stop
  /\ run' = "returned"
  /\ UNCHANGED <<main, stop, conn, dials, socket, readers, inbound, outbound>>

-----------------------------------------------------------------------------
(* Run.                                                                     *)

SpawnPumps ==
  /\ run = "top" /\ ~stop
  /\ reader' = [reader EXCEPT ![conn] = "starting"]
  /\ run' = "writing"
  /\ UNCHANGED <<main, stop, conn, dials, socket, readOf, held, inbound, outbound>>

closeConn ==
  /\ run = "top" /\ stop
  /\ socket' = [socket EXCEPT ![conn] = "closed"]
  /\ conn' = NoConn
  /\ run' = "returned"
  /\ UNCHANGED <<main, stop, dials, readers, inbound, outbound>>

\* Mutant: the loop ends with its first connection.
AfterPumpsOnce ==
  /\ run = "after"
  /\ run' = "returned"
  /\ UNCHANGED <<main, stop, conn, dials, socket, readers, inbound, outbound>>

\* The connection that is given up is not closed here.
AfterPumps ==
  /\ run = "after"
  /\ run' = IF stop THEN "returned" ELSE "redialing"
  /\ UNCHANGED <<main, stop, conn, dials, socket, readers, inbound, outbound>>

-----------------------------------------------------------------------------
(* writePump.  Its select takes any case that is ready.                     *)

PumpReturns ==
  /\ run = "writing"
  /\ run' = "after"
  /\ UNCHANGED <<main, stop, conn, dials, socket, readers, inbound>>

\* readDone is closed when this iteration's readPump has returned.
ReadDone == PumpReturns /\ reader[conn] = "exited" /\ UNCHANGED outbound

\* A close frame is written; what is left in the channel is not.
WriteClose == PumpReturns /\ stop /\ UNCHANGED outbound

\* A ping, like a message, is written within ten seconds or has failed: it may
\* fail on an open socket whose peer does not read.
PingFails == PumpReturns /\ UNCHANGED outbound

Written ==
  /\ wire' = [wire EXCEPT ![conn] = Append(@, Head(sendCh))]
  /\ UNCHANGED <<main, stop, run, conn, dials, socket, readers, inbound>>

\* To a peer that is gone the write may seem to succeed or fail.
Vanished ==
  /\ socket[conn] = "lost"
  /\ UNCHANGED <<main, stop, run, conn, dials, socket, readers, inbound, wire>>

\* Mutant: a write that times out is tried again on the next connection,
\* though its frame may have left.
WriteMessageRetried ==
  /\ run = "writing" /\ sendCh # <<>>
  /\ UNCHANGED sends
  /\ \/ socket[conn] = "open" /\ Written /\ sendCh' = Tail(sendCh)
     \/ Vanished /\ sendCh' = Tail(sendCh)
     \/ /\ PumpReturns /\ UNCHANGED sendCh
        /\ wire' = [wire EXCEPT ![conn] = Append(@, Head(sendCh))]

\* A message whose write fails is gone.
WriteMessage ==
  /\ run = "writing" /\ sendCh # <<>>
  /\ sendCh' = Tail(sendCh)
  /\ UNCHANGED sends
  /\ \/ socket[conn] = "open" /\ Written
     \/ Vanished
     \/ PumpReturns /\ UNCHANGED wire

-----------------------------------------------------------------------------
(* readPump.                                                                *)

ReaderExits(k) ==
  /\ reader' = [reader EXCEPT ![k] = "exited"]
  /\ socket' = [socket EXCEPT ![readOf[k]] = "closed"]
  /\ UNCHANGED <<main, stop, run, conn, dials, readOf, held, inbound, outbound>>

\* Mutant: nobody asks whether there is a connection.
StartReadingUnchecked(k) ==
  /\ reader[k] = "starting"
  /\ readOf' = [readOf EXCEPT ![k] = conn]
  /\ reader' = [reader EXCEPT ![k] = "reading"]
  /\ UNCHANGED <<main, stop, run, conn, dials, socket, held, inbound, outbound>>

\* The connection is looked up when the goroutine runs: it may by then be a
\* later one than the connection it was spawned for, or none.
StartReading(k) ==
  /\ reader[k] = "starting"
  /\ readOf' = [readOf EXCEPT ![k] = conn]
  /\ reader' = [reader EXCEPT ![k] = IF conn = NoConn THEN "exited" ELSE "reading"]
  /\ UNCHANGED <<main, stop, run, conn, dials, socket, held, inbound, outbound>>

\* The control plane sends what it has marshalled itself: that a frame which
\* cannot be parsed is skipped is left out.
ReadCommand(k) ==
  /\ reader[k] = "reading"
  /\ LET c == readOf[k] IN
     /\ socket[c] # "closed" /\ inbox[c] # <<>>
     /\ held'  = [held EXCEPT ![k] = Head(inbox[c])]
     /\ inbox' = [inbox EXCEPT ![c] = Tail(@)]
  /\ reader' = [reader EXCEPT ![k] = "holding"]
  /\ UNCHANGED <<main, stop, run, conn, dials, socket, readOf, recvCh, commands, taken, outbound>>

\* Mutant: a frame that cannot be parsed passes the previous command on again.
PushCommandAgain(k) ==
  /\ reader[k] = "holding"
  /\ Len(recvCh) < RecvBuffer
  /\ recvCh' = Append(recvCh, <<readOf[k], held[k]>>)
  /\ reader' \in {reader, [reader EXCEPT ![k] = "reading"]}
  /\ UNCHANGED <<main, stop, run, conn, dials, socket, readOf, held, inbox, commands, taken, outbound>>

PushCommand(k) ==
  /\ reader[k] = "holding"
  /\ Len(recvCh) < RecvBuffer
  /\ recvCh' = Append(recvCh, <<readOf[k], held[k]>>)
  /\ reader' = [reader EXCEPT ![k] = "reading"]
  /\ UNCHANGED <<main, stop, run, conn, dials, socket, readOf, held, inbox, commands, taken, outbound>>

\* Mutant: the reader goes on when the hub is stopped.
PushStoppedGoesOn(k) ==
  /\ reader[k] = "holding" /\ stop
  /\ reader' = [reader EXCEPT ![k] = "reading"]
  /\ UNCHANGED <<main, stop, run, conn, dials, socket, readOf, held, inbound, outbound>>

PushStopped(k) == reader[k] = "holding" /\ stop /\ ReaderExits(k)

\* Mutant: no read deadline is set.
ReadErrorUntimed(k) ==
  /\ reader[k] = "reading"
  /\ socket[readOf[k]] # "open"
  /\ ReaderExits(k)

\* The socket fails, or its read deadline passes: only pongs extend it, and
\* nothing pings a connection that is no longer Hub.conn.
ReadError(k) ==
  /\ reader[k] = "reading"
  /\ socket[readOf[k]] # "open" \/ readOf[k] # conn
  /\ ReaderExits(k)

-----------------------------------------------------------------------------
(* The agent: Send, its dispatcher and its shutdown.                        *)

\* Never blocks: a message that finds the channel full is dropped.
Send ==
  /\ main # "connecting"
  /\ sends < MaxMessages
  /\ sends' = sends + 1
  /\ sendCh' = IF Len(sendCh) < SendBuffer THEN Append(sendCh, sends + 1) ELSE sendCh
  /\ UNCHANGED <<main, stop, run, conn, dials, socket, readers, inbound, wire>>

\* Agent.Run takes a command; between shutdown and its notice it still may.
TakeCommand ==
  /\ main \in {"running", "stopping"}
  /\ recvCh # <<>>
  /\ taken' = Append(taken, Head(recvCh))
  /\ recvCh' = Tail(recvCh)
  /\ UNCHANGED <<main, stop, run, conn, dials, socket, readers, inbox, commands, outbound>>

\* SIGTERM or SIGINT: cancel the context, stop scanner and agent.  While main
\* is connecting the signal stays in its channel.
Shutdown ==
  /\ main = "running"
  /\ main' = "stopping"
  /\ UNCHANGED <<stop, run, conn, dials, socket, readers, inbound, outbound>>

\* Agent.Run sees it, stops the hub and returns.
StopHub ==
  /\ main = "stopping"
  /\ stop' = TRUE
  /\ main' = "stopped"
  /\ UNCHANGED <<run, conn, dials, socket, readers, inbound, outbound>>

\* main returns once Agent.Run has, or after five seconds.
Exit ==
  /\ main \in {"stopping", "stopped"}
  /\ main' = "exited"
  /\ UNCHANGED <<stop, run, conn, dials, socket, readers, inbound, outbound>>

-----------------------------------------------------------------------------
(* The control plane and the network.                                       *)

PeerWrites(c) ==
  /\ socket[c] = "open"
  /\ commands < MaxCommands
  /\ commands' = commands + 1
  /\ inbox' = [inbox EXCEPT ![c] = Append(@, commands + 1)]
  /\ UNCHANGED <<main, stop, run, conn, dials, socket, readers, recvCh, taken, outbound>>

LinkLost(c) ==
  /\ socket[c] = "open"
  /\ socket' = [socket EXCEPT ![c] = "lost"]
  /\ UNCHANGED <<main, stop, run, conn, dials, readers, inbound, outbound>>

-----------------------------------------------------------------------------
Pump == ReadDone \/ WriteClose \/ PingFails \/ WriteMessage

Reader(k) ==
  StartReading(k) \/ ReadCommand(k) \/ PushCommand(k) \/ PushStopped(k) \/ ReadError(k)

\* Everything but the control plane's commands.
Step ==
  \/ InitialConnect \/ Redial \/ RedialStopped
  \/ SpawnPumps \/ closeConn \/ AfterPumps \/ Pump
  \/ \E k \in Conns : Reader(k)
  \/ Send \/ TakeCommand \/ Shutdown \/ StopHub \/ Exit
  \/ \E c \in Conns : LinkLost(c)

Next == main # "exited" /\ (Step \/ \E c \in Conns : PeerWrites(c))

\* Goroutines that can run do, deadlines pass and tickers tick.  What is
\* buffered on a failed socket is finite, so its reader meets the error (SF).
\* Nothing obliges a dial to succeed or the process to be stopped.
Fairness ==
  /\ WF_vars(SpawnPumps) /\ WF_vars(AfterPumps)
  /\ WF_vars(TakeCommand)
  /\ \A k \in Conns :
       /\ WF_vars(StartReading(k)) /\ WF_vars(PushCommand(k))
       /\ SF_vars(ReadError(k))
  /\ WF_vars(WriteMessage) /\ WF_vars(ReadDone)
  /\ WF_vars(PingFails /\ socket[conn] # "open")

Spec == Init /\ [][Next]_vars /\ Fairness

-----------------------------------------------------------------------------
(* Properties.                                                              *)

TypeOK ==
  /\ main \in {"connecting", "running", "stopping", "stopped", "exited"}
  /\ stop \in BOOLEAN
  /\ run \in {"none", "top", "writing", "after", "redialing", "returned"}
  /\ conn \in Conns \cup {NoConn}
  /\ dials \in 0..MaxDials
  /\ socket \in [Conns -> {"none", "open", "lost", "closed"}]
  /\ reader \in [Conns -> {"none", "starting", "reading", "holding", "exited"}]
  /\ readOf \in [Conns -> Conns \cup {NoConn}]
  /\ \A k \in Conns : reader[k] \in {"reading", "holding"} => readOf[k] # NoConn
  /\ held \in [Conns -> 0..MaxCommands]
  /\ inbox \in [Conns -> Seq(1..MaxCommands)]
  /\ recvCh \in Seq(Conns \X (1..MaxCommands)) /\ Len(recvCh) <= RecvBuffer
  /\ sendCh \in Seq(1..MaxMessages) /\ Len(sendCh) <= SendBuffer
  /\ sends \in 0..MaxMessages
  /\ commands \in 0..MaxCommands
  /\ wire \in [Conns -> Seq(1..MaxMessages)]
  /\ taken \in Seq(Conns \X (1..MaxCommands))

\* Messages leave in the order of the Send calls and none is written twice,
\* across any number of reconnects: an old writePump never writes beside or
\* after a newer one.
OutboundOrder ==
  /\ \A c, d \in Conns : \A i \in DOMAIN wire[c], j \in DOMAIN wire[d] :
       c < d \/ (c = d /\ i < j) => wire[c][i] < wire[d][j]
  /\ \A c \in Conns : \A i \in DOMAIN wire[c], j \in DOMAIN sendCh : wire[c][i] < sendCh[j]
  /\ \A i, j \in DOMAIN sendCh : i < j => sendCh[i] < sendCh[j]

Arrived   == taken \o recvCh
Holding   == {k \in Conns : reader[k] = "holding"}
Shared(c) == \E k, l \in Conns : k # l /\ readOf[k] = c /\ readOf[l] = c

\* The dispatcher meets every command at most once, and the commands of one
\* connection in the order they were written, however many readPumps of older
\* connections still feed the channel.  (A readPump that starts late may come
\* to share a later connection: then its order is lost.)
InboundOnce ==
  /\ \A i, j \in DOMAIN Arrived : i < j =>
       /\ Arrived[i][2] # Arrived[j][2]
       /\ Arrived[i][1] = Arrived[j][1] /\ ~Shared(Arrived[i][1]) => Arrived[i][2] < Arrived[j][2]
  /\ \A k \in Holding : \A i \in DOMAIN Arrived : Arrived[i][2] # held[k]
  /\ \A k, l \in Holding : k # l => held[k] # held[l]

\* "Reconnect ... re-registers the agent with the control plane": the first
\* message on every connection is the registration.
RegistersFirst == \A c \in Conns : wire[c] # <<>> => Head(wire[c]) = Registration

ShuttingDown == main \in {"stopping", "stopped", "exited"}

\* A connection that is lost is given up and the agent dials again, whether
\* or not it has anything to send and however slow its dispatcher is.
LossNoticed ==
  run = "writing" /\ socket[conn] # "open" ~> run = "redialing" \/ ShuttingDown

\* The readPump of a connection that was given up ends, also when it holds a
\* command the dispatcher has no room for, and also when the peer keeps the
\* connection open.
ReadersReclaimed ==
  \A k \in Conns :
    reader[k] \in {"reading", "holding"} /\ readOf[k] # conn
      ~> reader[k] = "exited" \/ ShuttingDown
=============================================================================
