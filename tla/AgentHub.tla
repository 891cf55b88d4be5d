------------------------------ MODULE AgentHub ------------------------------
(***************************************************************************)
(* The control plane's registry of edge agents and the goroutines around   *)
(* it: apps/api/internal/ws/hub.go.                                        *)
(*                                                                         *)
(* Every WebSocket an agent opens is an AgentConn with its own command     *)
(* channel, served by two goroutines: the HTTP handler, which registers    *)
(* the connection and becomes its readPump, and the writePump.  API        *)
(* handlers call SendCommand concurrently.  A critical section of the      *)
(* hub's mutex is one step; what happens outside the mutex is a step of    *)
(* its own, so a command's lookup and its channel send are two.            *)
(***************************************************************************)
EXTENDS Naturals, Sequences

CONSTANTS
  Devices,     \* device identifiers (the keys of AgentHub.agents)
  Conns,       \* the WebSockets agents may open; each is used once
  NoConn,      \* no entry in the registry
  DeviceOf,    \* the X-Device-ID header a connection carries
  Commands,    \* SendCommand calls; each one sends one command, once
  SendBuffer   \* capacity of AgentConn.send (256 in the code)

ASSUME HubAssumption ==
  /\ NoConn \notin Conns
  /\ DeviceOf \in [Conns -> Devices]
  /\ SendBuffer \in Nat \ {0}

VARIABLES
  agents,    \* device |-> the connection commands for it are routed to
  handler,   \* connection |-> where its HTTP handler / readPump stands
  writer,    \* connection |-> its writePump: "none", "running" or "done"
  socket,    \* connection |-> "none", "open", "broken" (peer), "closed" (here)
  sendOpen,  \* the connections whose send channel is made and not closed
  queue,     \* connection |-> the commands buffered in its send channel
  status,    \* device |-> devices.status in the database, or "none": no row
  caller,    \* command |-> where its SendCommand stands or how it ended
  target,    \* command |-> the connection a pending SendCommand looked up
  accepted,  \* history: commands SendCommand put on each connection's channel
  wire,      \* history: commands writePump wrote to an open socket
  reported   \* history: the connections an event of which set the row online

connVars == <<handler, writer, socket, sendOpen, queue>>
callVars == <<caller, target>>
history  == <<accepted, wire>>
vars == <<agents, connVars, status, callVars, history, reported>>

HandlerStates == {"idle", "upgraded", "registered", "reading", "handling",
                  "leaving", "done"}
SocketStates  == {"none", "open", "broken", "closed"}
WriterStates  == {"none", "running", "done"}
CallerStates  == {"idle", "sending", "ended", "panic"}

\* The handler has called Register and has not called Unregister.
Serving == {"registered", "reading", "handling", "leaving"}

Init ==
  /\ agents   = [d \in Devices |-> NoConn]
  /\ handler  = [c \in Conns |-> "idle"]
  /\ writer   = [c \in Conns |-> "none"]
  /\ socket   = [c \in Conns |-> "none"]
  /\ sendOpen = {}
  /\ queue    = [c \in Conns |-> <<>>]
  /\ status   = [d \in Devices |-> "none"]
  /\ caller   = [m \in Commands |-> "idle"]
  /\ target   = [m \in Commands |-> NoConn]
  /\ accepted = [c \in Conns |-> <<>>]
  /\ wire     = [c \in Conns |-> <<>>]
  /\ reported = {}

-----------------------------------------------------------------------------
(* The database row of a device.  Errors are ignored by every caller.       *)

\* touchDevice is an UPDATE: without a row it changes nothing.
Touched(d, s) == [status EXCEPT ![d] = IF @ = "none" THEN @ ELSE s]

\* The UPDATE either succeeds or fails unnoticed.
touchDevice(d, s) == status' \in {status, Touched(d, s)}

-----------------------------------------------------------------------------
(* HandleAgentConnection.                                                   *)

\* The upgrade and ensureDeviceRecord, a lookup and an INSERT ... ON CONFLICT
\* DO NOTHING: a row that is there keeps its status; a failure is logged and
\* the connection goes on.
Upgrade(c) ==
  /\ handler[c] = "idle"
  /\ handler'  = [handler EXCEPT ![c] = "upgraded"]
  /\ socket'   = [socket EXCEPT ![c] = "open"]
  /\ sendOpen' = sendOpen \cup {c}
  /\ LET d == DeviceOf[c]
     IN  status' \in {status, [status EXCEPT ![d] = IF @ = "none" THEN "online" ELSE @]}
  /\ UNCHANGED <<agents, writer, queue, callVars, history, reported>>

\* Mutant: the replaced connection's channel stays open.
RegisterKeepsChannel(c) ==
  /\ handler[c] = "upgraded"
  /\ handler'  = [handler EXCEPT ![c] = "registered"]
  /\ agents'   = [agents EXCEPT ![DeviceOf[c]] = c]
  /\ UNCHANGED <<writer, socket, sendOpen, queue, status, callVars, history, reported>>

\* Under the write lock: a connection already registered for the device has
\* its channel closed and is replaced.
Register(c) ==
  /\ handler[c] = "upgraded"
  /\ handler'  = [handler EXCEPT ![c] = "registered"]
  /\ sendOpen' = sendOpen \ {agents[DeviceOf[c]]}
  /\ agents'   = [agents EXCEPT ![DeviceOf[c]] = c]
  /\ UNCHANGED <<writer, socket, queue, status, callVars, history, reported>>

\* Mutant: the go statement is missing.
StartPumpsWithoutWriter(c) ==
  /\ handler[c] = "registered"
  /\ handler' = [handler EXCEPT ![c] = "reading"]
  /\ UNCHANGED <<agents, writer, socket, sendOpen, queue, status, callVars, history, reported>>

\* go conn.writePump(cancel), then readPump on the handler's own goroutine.
StartPumps(c) ==
  /\ handler[c] = "registered"
  /\ handler' = [handler EXCEPT ![c] = "reading"]
  /\ writer'  = [writer EXCEPT ![c] = "running"]
  /\ UNCHANGED <<agents, socket, sendOpen, queue, status, callVars, history, reported>>

-----------------------------------------------------------------------------
(* readPump.  Acknowledgements and mbusd_*, session_* and unknown events    *)
(* are logged and change nothing: only status events are modelled.          *)

\* ReadMessage returns an event the agent sent; one that is already buffered
\* is returned whatever has become of the socket.
ReadStatusEvent(c) ==
  /\ handler[c] = "reading"
  /\ handler' = [handler EXCEPT ![c] = "handling"]
  /\ UNCHANGED <<agents, writer, socket, sendOpen, queue, status, callVars, history, reported>>

\* registration, heartbeat and inventory_update mark the device online; the
\* hub's mutex is not held.
handleAgentEvent(c) ==
  /\ handler[c] = "handling"
  /\ handler'  = [handler EXCEPT ![c] = "reading"]
  /\ touchDevice(DeviceOf[c], "online")
  /\ reported' = IF status'[DeviceOf[c]] = "online" THEN reported \cup {c} ELSE reported
  /\ UNCHANGED <<agents, writer, socket, sendOpen, queue, callVars, history>>

\* ReadMessage fails: read deadline, reset, close frame or closed here.
ReadError(c) ==
  /\ handler[c] = "reading"
  /\ socket[c] # "open"
  /\ handler' = [handler EXCEPT ![c] = "leaving"]
  /\ UNCHANGED <<agents, writer, socket, sendOpen, queue, status, callVars, history, reported>>

\* readPump's deferred function ends by closing the socket.
Closed(c) ==
  /\ handler' = [handler EXCEPT ![c] = "done"]
  /\ socket'  = [socket EXCEPT ![c] = "closed"]

\* Mutant: the connection ids are not compared.
UnregisterAnyConn(c) ==
  /\ handler[c] = "leaving"
  /\ Closed(c)
  /\ agents' = [agents EXCEPT ![DeviceOf[c]] = NoConn]
  /\ touchDevice(DeviceOf[c], "offline")
  /\ UNCHANGED <<writer, sendOpen, queue, callVars, history, reported>>

\* Mutant: the database write stands after the if statement.
UnregisterAlwaysOffline(c) ==
  /\ handler[c] = "leaving"
  /\ Closed(c)
  /\ agents' = [agents EXCEPT ![DeviceOf[c]] = IF @ = c THEN NoConn ELSE @]
  /\ touchDevice(DeviceOf[c], "offline")
  /\ UNCHANGED <<writer, sendOpen, queue, callVars, history, reported>>

\* Under the write lock, the database write included: only the connection the
\* registry still names removes its entry and marks the device offline.
Unregister(c) ==
  /\ handler[c] = "leaving"
  /\ Closed(c)
  /\ IF agents[DeviceOf[c]] = c
     THEN /\ agents' = [agents EXCEPT ![DeviceOf[c]] = NoConn]
          /\ touchDevice(DeviceOf[c], "offline")
     ELSE UNCHANGED <<agents, status>>
  /\ UNCHANGED <<writer, sendOpen, queue, callVars, history, reported>>

-----------------------------------------------------------------------------
(* writePump.  Every return closes the socket.                              *)

StopWriting(c) ==
  /\ writer' = [writer EXCEPT ![c] = "done"]
  /\ socket' = [socket EXCEPT ![c] = "closed"]

\* A closed channel still yields what is buffered in it.  On a socket the peer
\* has lost, the write may fail or vanish in the kernel's buffer.
WriteCommand(c) ==
  /\ writer[c] = "running"
  /\ queue[c] # <<>>
  /\ queue' = [queue EXCEPT ![c] = Tail(@)]
  /\ \/ /\ socket[c] = "open"
        /\ wire' = [wire EXCEPT ![c] = Append(@, Head(queue[c]))]
        /\ UNCHANGED <<writer, socket>>
     \/ /\ socket[c] = "broken"
        /\ UNCHANGED <<writer, socket, wire>>
     \/ /\ socket[c] # "open"
        /\ StopWriting(c)
        /\ UNCHANGED wire
  /\ UNCHANGED <<agents, handler, sendOpen, status, callVars, accepted, reported>>

\* The channel is closed and drained: a close frame is written.
WriteClose(c) ==
  /\ writer[c] = "running"
  /\ queue[c] = <<>> /\ c \notin sendOpen
  /\ StopWriting(c)
  /\ UNCHANGED <<agents, handler, sendOpen, queue, status, callVars, history, reported>>

\* The ping of the 54 s ticker fails.
PingError(c) ==
  /\ writer[c] = "running"
  /\ socket[c] # "open"
  /\ StopWriting(c)
  /\ UNCHANGED <<agents, handler, sendOpen, queue, status, callVars, history, reported>>

-----------------------------------------------------------------------------
(* SendCommand: the lookup holds the read lock, the channel send does not.  *)

\* Mutant: the second result of the lookup is not looked at.
SendLookupUnchecked(m, d) ==
  /\ caller[m] = "idle"
  /\ target' = [target EXCEPT ![m] = agents[d]]
  /\ caller' = [caller EXCEPT ![m] = "sending"]
  /\ UNCHANGED <<agents, connVars, status, history, reported>>

SendLookup(m, d) ==
  /\ caller[m] = "idle"
  /\ target' = [target EXCEPT ![m] = agents[d]]
  /\ caller' = [caller EXCEPT ![m] =
                  IF agents[d] = NoConn THEN "ended" ELSE "sending"]
  /\ UNCHANGED <<agents, connVars, status, history, reported>>

Ends(m, how) ==
  /\ caller' = [caller EXCEPT ![m] = how]
  /\ target' = [target EXCEPT ![m] = NoConn]

\* A send on a closed channel panics, in a select with a default too.
SendPanic(m) ==
  /\ caller[m] = "sending"
  /\ target[m] \notin sendOpen
  /\ Ends(m, "panic")
  /\ UNCHANGED <<agents, connVars, status, history, reported>>

\* Mutant: a full buffer drops the command and reports success.
SendPushDropsQuietly(m) ==
  /\ caller[m] = "sending"
  /\ target[m] \in sendOpen
  /\ IF Len(queue[target[m]]) < SendBuffer
     THEN queue' = [queue EXCEPT ![target[m]] = Append(@, m)]
     ELSE UNCHANGED queue
  /\ accepted' = [accepted EXCEPT ![target[m]] = Append(@, m)]
  /\ Ends(m, "ended")
  /\ UNCHANGED <<agents, handler, writer, socket, sendOpen, status, wire, reported>>


\* The command is buffered and nil returned, or the buffer is full and an
\* error returned: nothing blocks.
SendPush(m) ==
  /\ caller[m] = "sending"
  /\ target[m] \in sendOpen
  /\ IF Len(queue[target[m]]) < SendBuffer
     THEN /\ queue'    = [queue EXCEPT ![target[m]] = Append(@, m)]
          /\ accepted' = [accepted EXCEPT ![target[m]] = Append(@, m)]
     ELSE UNCHANGED <<queue, accepted>>
  /\ Ends(m, "ended")
  /\ UNCHANGED <<agents, handler, writer, socket, sendOpen, status, wire, reported>>

-----------------------------------------------------------------------------
(* The network and the API process.                                         *)

\* The peer closes, dies or becomes unreachable past the read deadline.
LinkLost(c) ==
  /\ socket[c] = "open"
  /\ socket' = [socket EXCEPT ![c] = "broken"]
  /\ UNCHANGED <<agents, handler, writer, sendOpen, queue, status, callVars, history, reported>>

\* The API process ends and starts again: the registry, the connections and
\* the calls under way are gone, the database row stays as it is.
Restart ==
  /\ \E c \in Conns : handler[c] \notin {"idle", "done"}
  /\ agents'   = [d \in Devices |-> NoConn]
  /\ handler'  = [c \in Conns |-> IF handler[c] = "idle" THEN "idle" ELSE "done"]
  /\ writer'   = [c \in Conns |-> IF handler[c] = "idle" THEN "none" ELSE "done"]
  /\ socket'   = [c \in Conns |-> IF handler[c] = "idle" THEN "none" ELSE "closed"]
  /\ sendOpen' = {}
  /\ queue'    = [c \in Conns |-> <<>>]
  /\ caller'   = [m \in Commands |-> IF caller[m] = "sending" THEN "ended" ELSE caller[m]]
  /\ target'   = [m \in Commands |-> NoConn]
  /\ UNCHANGED <<status, history, reported>>

-----------------------------------------------------------------------------
HandlerStep(c) ==
  \/ Upgrade(c) \/ Register(c) \/ StartPumps(c)
  \/ ReadStatusEvent(c) \/ handleAgentEvent(c) \/ ReadError(c)
  \/ Unregister(c)

WriterStep(c) == WriteCommand(c) \/ WriteClose(c) \/ PingError(c)

CallerStep(m) == (\E d \in Devices : SendLookup(m, d)) \/ SendPanic(m) \/ SendPush(m)

Next ==
  \/ \E c \in Conns : HandlerStep(c) \/ WriterStep(c) \/ LinkLost(c)
  \/ \E m \in Commands : CallerStep(m)
  \/ Restart

\* The Go scheduler runs every goroutine that can run.  What is buffered on a
\* failed socket is finite, so its reader meets the error in the end (SF).
\* Nothing obliges an agent to connect or to send, a caller to call, or the
\* process to restart.
Fairness ==
  \A c \in Conns :
    /\ WF_vars(Register(c)) /\ WF_vars(StartPumps(c))
    /\ WF_vars(handleAgentEvent(c)) /\ SF_vars(ReadError(c)) /\ WF_vars(Unregister(c))
    /\ WF_vars(WriteCommand(c)) /\ WF_vars(WriteClose(c)) /\ WF_vars(PingError(c))

Spec == Init /\ [][Next]_vars /\ Fairness

-----------------------------------------------------------------------------
(* Properties.                                                              *)

TypeOK ==
  /\ agents   \in [Devices -> Conns \cup {NoConn}]
  /\ handler  \in [Conns -> HandlerStates]
  /\ writer   \in [Conns -> WriterStates]
  /\ socket   \in [Conns -> SocketStates]
  /\ sendOpen \subseteq Conns
  /\ queue    \in [Conns -> Seq(Commands)]
  /\ \A c \in Conns : Len(queue[c]) <= SendBuffer
  /\ status   \in [Devices -> {"none", "online", "offline"}]
  /\ caller   \in [Commands -> CallerStates]
  /\ target   \in [Commands -> Conns \cup {NoConn}]
  /\ \A m \in Commands : caller[m] = "sending" => target[m] # NoConn
  /\ accepted \in [Conns -> Seq(Commands)]
  /\ wire     \in [Conns -> Seq(Commands)]
  /\ reported \subseteq Conns

\* A connection is registered under its own device and the channel commands
\* will be sent on is open (hence Register never closes a channel twice).
EntryUsable ==
  \A d \in Devices : agents[d] # NoConn =>
    /\ DeviceOf[agents[d]] = d
    /\ handler[agents[d]] \in Serving
    /\ agents[d] \in sendOpen

\* A connection that is being served and has not been replaced is the one the
\* registry names: no late Unregister of an older connection removes it.
ServedReachable ==
  \A c \in Conns : handler[c] \in Serving /\ c \in sendOpen => agents[DeviceOf[c]] = c

\* The registry names exactly the served, unreplaced connection of a device,
\* in every order of connects, replacements and disconnects.
RegistryExact == EntryUsable /\ ServedReachable

\* Once an event of the registered connection has been recorded, the database
\* says online for as long as the registry names that connection: the offline
\* mark of an older connection never lands after it.
OnlineWhileRegistered ==
  \A c \in Conns :
    agents[DeviceOf[c]] = c /\ c \in reported => status[DeviceOf[c]] = "online"

\* Commands reach a connection's socket in the order SendCommand accepted
\* them, and while the socket is open each accepted command is on the wire or
\* still in the channel, also after a newer connection has taken over.
CommandStream ==
  \A c \in Conns :
    /\ Len(wire[c]) <= Len(accepted[c])
    /\ wire[c] = SubSeq(accepted[c], 1, Len(wire[c]))
    /\ socket[c] \in {"none", "open"} => accepted[c] = wire[c] \o queue[c]

\* SendCommand returns nil or an error ("SendCommand serialises and sends a
\* command to the agent identified by deviceID"); it does not panic.
SendReturns == \A m \in Commands : caller[m] # "panic"

Live(c) == agents[DeviceOf[c]] = c /\ socket[c] = "open"

\* The goroutines of a connection that was replaced or lost its socket end:
\* none leaks, whatever is left in its channel.
ConnectionReclaimed ==
  \A c \in Conns :
    handler[c] \in Serving /\ ~Live(c) ~> handler[c] = "done" /\ writer[c] = "done"

\* What a connection is to the callers of SendCommand.
ChannelState(c) ==
  CASE socket[c] = "none" -> "new"
    [] socket[c] = "open" -> "up"
    [] OTHER -> "down"

Channel == INSTANCE CommandChannel
           WITH up        <- [c \in Conns |-> ChannelState(c)],
                delivered <- wire,
                Capacity  <- SendBuffer

\* Through registrations, replacements, failing sockets and restarts, every
\* connection is a bounded first-in-first-out channel: SendCommand accepts a
\* command once, for one connection, and it is written in its turn, certainly
\* unless the socket fails or is closed.
ImplementsChannel == Channel!Spec
=============================================================================
