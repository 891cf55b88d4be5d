--------------------------- MODULE AgentHubProofs ---------------------------
(***************************************************************************)
(* Type correctness of the hub, the exactness of its registry and the      *)
(* status of a registered device, for every set of devices, connections    *)
(* and callers and every channel capacity.                                 *)
(***************************************************************************)
EXTENDS AgentHub, TLAPS

\* A connection that has not registered has reported nothing: its first event
\* is read after Register.
NothingReportedYet ==
  \A c \in Conns : handler[c] \in {"idle", "upgraded"} => c \notin reported

\* A connection has a channel from its upgrade on, and nobody closes it before
\* it is registered.
OpenBeforeRegister ==
  \A c \in Conns : handler[c] = "upgraded" => c \in sendOpen

\* A pending SendCommand holds a connection of the registry's type.
TargetKnown == \A m \in Commands : caller[m] = "sending" => target[m] \in Conns

\* The inductive invariant.  RegistryExact alone is not inductive: Register
\* makes a connection current and needs its channel to be still open, and the
\* status clause needs a newly registered connection to have reported nothing.
IInv ==
  /\ TypeOK
  /\ RegistryExact
  /\ OnlineWhileRegistered
  /\ NothingReportedYet
  /\ OpenBeforeRegister
  /\ TargetKnown

\* The initial states satisfy the inductive invariant.
LEMMA InitIInv == Init => IInv
  BY HubAssumption
  DEF Init, IInv, TypeOK, RegistryExact, EntryUsable, ServedReachable,
      OnlineWhileRegistered, NothingReportedYet, OpenBeforeRegister, TargetKnown,
      HandlerStates, WriterStates, SocketStates, CallerStates, Serving

\* Marking a device online or offline leaves a status of the column's type.
LEMMA StatusTyped ==
  ASSUME status \in [Devices -> {"none", "online", "offline"}],
         NEW d, NEW s \in {"online", "offline"}, touchDevice(d, s)
  PROVE  status' \in [Devices -> {"none", "online", "offline"}]
  BY DEF touchDevice, Touched

\* Every step keeps the types.
LEMMA TypeStep == TypeOK /\ TargetKnown /\ [Next]_vars => TypeOK'
<1> SUFFICES ASSUME TypeOK, TargetKnown, [Next]_vars PROVE TypeOK'
  OBVIOUS
<1> USE HubAssumption DEF TypeOK, TargetKnown, HandlerStates, WriterStates, SocketStates, CallerStates
<1>1. ASSUME NEW c \in Conns, HandlerStep(c) PROVE TypeOK'
  <2>1. CASE Upgrade(c)            BY <2>1 DEF Upgrade, callVars, history
  <2>2. CASE Register(c)           BY <2>2 DEF Register, callVars, history
  <2>3. CASE StartPumps(c)         BY <2>3 DEF StartPumps, callVars, history
  <2>4. CASE ReadStatusEvent(c)    BY <2>4 DEF ReadStatusEvent, callVars, history
  <2>5. CASE handleAgentEvent(c)
    <3>1. touchDevice(DeviceOf[c], "online")
          /\ UNCHANGED <<agents, writer, sendOpen, queue, socket, caller, target, accepted, wire>>
      BY <2>5 DEF handleAgentEvent, callVars, history
    <3>2. handler' \in [Conns -> HandlerStates] /\ reported' \subseteq Conns
      BY <2>5 DEF handleAgentEvent
    <3>3. status' \in [Devices -> {"none", "online", "offline"}]
      BY <3>1, StatusTyped
    <3>4. QED BY <3>1, <3>2, <3>3
  <2>6. CASE ReadError(c)          BY <2>6 DEF ReadError, callVars, history
  <2>7. CASE Unregister(c)
    <3>1. UNCHANGED <<writer, sendOpen, queue, caller, target, accepted, wire, reported>>
      BY <2>7 DEF Unregister, callVars, history
    <3>2. handler' \in [Conns -> HandlerStates] /\ socket' \in [Conns -> SocketStates]
      BY <2>7 DEF Unregister, Closed
    <3>3. agents' \in [Devices -> Conns \cup {NoConn}]
      <4>1. agents' \in {agents, [agents EXCEPT ![DeviceOf[c]] = NoConn]}
        BY <2>7, Zenon DEF Unregister
      <4>2. QED BY <4>1
    <3>4. status' \in [Devices -> {"none", "online", "offline"}]
      <4>1. CASE touchDevice(DeviceOf[c], "offline")
        BY <4>1, StatusTyped
      <4>2. CASE status' = status
        BY <4>2
      <4>3. QED BY <2>7, <4>1, <4>2 DEF Unregister
    <3>5. QED BY <3>1, <3>2, <3>3, <3>4
  <2>8. QED BY <1>1, <2>1, <2>2, <2>3, <2>4, <2>5, <2>6, <2>7 DEF HandlerStep
<1>2. ASSUME NEW c \in Conns, WriterStep(c) PROVE TypeOK'
  <2>1. CASE WriteCommand(c)
    <3>1. /\ Head(queue[c]) \in Commands
          /\ Tail(queue[c]) \in Seq(Commands)
      BY <2>1 DEF WriteCommand
    <3>2. Append(wire[c], Head(queue[c])) \in Seq(Commands)
      BY <3>1
    <3>3. queue' \in [Conns -> Seq(Commands)]
      BY <2>1, <3>1 DEF WriteCommand
    <3>4. wire' \in [Conns -> Seq(Commands)]
      BY <2>1, <3>2 DEF WriteCommand
    <3>5. \/ UNCHANGED <<writer, socket>>
          \/ StopWriting(c)
      BY <2>1 DEF WriteCommand
    <3>6. /\ writer' \in [Conns -> WriterStates]
          /\ socket' \in [Conns -> SocketStates]
      BY <3>5 DEF StopWriting
    <3>7. UNCHANGED <<agents, handler, sendOpen, status, caller, target, accepted, reported>>
      BY <2>1 DEF WriteCommand, callVars
    <3>8. \A x \in Conns : Len(queue'[x]) <= SendBuffer
      <4>1. Len(Tail(queue[c])) <= Len(queue[c])
        BY <2>1 DEF WriteCommand
      <4>2. queue' = [queue EXCEPT ![c] = Tail(@)]
        BY <2>1 DEF WriteCommand
      <4>3. QED BY <3>1, <4>1, <4>2
    <3>9. QED BY <3>3, <3>4, <3>6, <3>7, <3>8
  <2>2. CASE WriteClose(c)         BY <2>2 DEF WriteClose, StopWriting, callVars, history
  <2>3. CASE PingError(c)          BY <2>3 DEF PingError, StopWriting, callVars, history
  <2>4. QED BY <1>2, <2>1, <2>2, <2>3 DEF WriterStep
<1>3. ASSUME NEW c \in Conns, LinkLost(c) PROVE TypeOK'
  BY <1>3 DEF LinkLost, callVars, history
<1>4. ASSUME NEW m \in Commands, CallerStep(m) PROVE TypeOK'
  <2>1. ASSUME NEW d \in Devices, SendLookup(m, d) PROVE TypeOK'
    BY <2>1 DEF SendLookup, connVars, history
  <2>2. CASE SendPanic(m)          BY <2>2 DEF SendPanic, Ends, connVars, history
  <2>3. CASE SendPush(m)
    <3>1. target[m] \in Conns
      BY <2>3 DEF SendPush
    <3>2. /\ Append(queue[target[m]], m) \in Seq(Commands)
          /\ Append(accepted[target[m]], m) \in Seq(Commands)
      BY <3>1
    <3>3. \/ UNCHANGED <<queue, accepted>>
          \/ /\ queue'    = [queue EXCEPT ![target[m]] = Append(@, m)]
             /\ accepted' = [accepted EXCEPT ![target[m]] = Append(@, m)]
      BY <2>3 DEF SendPush
    <3>4. /\ queue'    \in [Conns -> Seq(Commands)]
          /\ accepted' \in [Conns -> Seq(Commands)]
      <4>1. CASE UNCHANGED <<queue, accepted>>
        BY <4>1
      <4>2. CASE /\ queue'    = [queue EXCEPT ![target[m]] = Append(@, m)]
                 /\ accepted' = [accepted EXCEPT ![target[m]] = Append(@, m)]
        <5>1. queue' \in [Conns -> Seq(Commands)]
          BY <3>2, <4>2
        <5>2. accepted' \in [Conns -> Seq(Commands)]
          BY <3>2, <4>2
        <5>3. QED BY <5>1, <5>2
      <4>3. QED BY <3>3, <4>1, <4>2
    <3>5. \A x \in Conns : Len(queue'[x]) <= SendBuffer
      <4>1. CASE UNCHANGED queue
        BY <4>1
      <4>2. CASE /\ Len(queue[target[m]]) < SendBuffer
                 /\ queue' = [queue EXCEPT ![target[m]] = Append(@, m)]
        <5>1. Len(Append(queue[target[m]], m)) <= SendBuffer
          BY <3>1, <4>2
        <5>2. QED BY <3>1, <4>2, <5>1
      <4>3. QED BY <2>3, <4>1, <4>2 DEF SendPush
    <3>6. UNCHANGED <<agents, handler, writer, socket, sendOpen, status, wire, reported>>
      BY <2>3 DEF SendPush
    <3>7. /\ caller' \in [Commands -> CallerStates]
          /\ target' \in [Commands -> Conns \cup {NoConn}]
          /\ \A x \in Commands : caller'[x] = "sending" => target'[x] # NoConn
      BY <2>3 DEF SendPush, Ends
    <3>8. QED BY <3>4, <3>5, <3>6, <3>7
  <2>4. QED BY <1>4, <2>1, <2>2, <2>3 DEF CallerStep
<1>5. CASE Restart                 BY <1>5 DEF Restart, history
<1>6. CASE UNCHANGED vars          BY <1>6 DEF vars, connVars, callVars, history
<1>7. QED BY <1>1, <1>2, <1>3, <1>4, <1>5, <1>6 DEF Next

\* Only connections between Register and Unregister are in the registry.
LEMMA EntryIsServing ==
  ASSUME EntryUsable, NEW c \in Conns, handler[c] \notin Serving
  PROVE  \A d \in Devices : agents[d] # c
BY HubAssumption DEF EntryUsable

\* What Register, Unregister and Restart do to the registry keeps it exact,
\* and no other step touches what it depends on.
LEMMA RegistryStep == IInv /\ [Next]_vars => RegistryExact' /\ OpenBeforeRegister'
<1> SUFFICES ASSUME IInv, [Next]_vars PROVE RegistryExact' /\ OpenBeforeRegister'
  OBVIOUS
<1> USE HubAssumption DEF IInv, TypeOK, RegistryExact, EntryUsable, ServedReachable,
        OpenBeforeRegister, Serving
<1>1. ASSUME NEW c \in Conns, HandlerStep(c) PROVE RegistryExact' /\ OpenBeforeRegister'
  <2>1. CASE Upgrade(c)
    <3>1. \A d \in Devices : agents[d] # c
      <4>1. handler[c] \notin Serving
        BY <2>1 DEF Upgrade
      <4>2. QED BY <4>1, EntryIsServing
    <3>2. EntryUsable'             BY <2>1, <3>1 DEF Upgrade
    <3>3. ServedReachable'         BY <2>1, <3>1 DEF Upgrade
    <3>4. OpenBeforeRegister'      BY <2>1 DEF Upgrade
    <3>5. QED BY <3>2, <3>3, <3>4
  <2>2. CASE Register(c)
    <3>1. agents[DeviceOf[c]] # c
      <4>1. handler[c] \notin Serving
        BY <2>2 DEF Register
      <4>2. QED BY <4>1, EntryIsServing
    <3>2. EntryUsable'             BY <2>2, <3>1 DEF Register
    <3>3. ServedReachable'
      <4> SUFFICES ASSUME NEW x \in Conns, handler'[x] \in Serving, x \in sendOpen'
                   PROVE  agents'[DeviceOf[x]] = x
        BY DEF Serving
      <4>1. CASE x = c             BY <2>2, <4>1 DEF Register
      <4>2. CASE x # c
        BY <2>2, <4>2 DEF Register
      <4>3. QED BY <4>1, <4>2
    <3>4. OpenBeforeRegister'      BY <2>2 DEF Register
    <3>5. QED BY <3>2, <3>3, <3>4
  <2>3. CASE StartPumps(c)         BY <2>3 DEF StartPumps
  <2>4. CASE ReadStatusEvent(c)    BY <2>4 DEF ReadStatusEvent
  <2>5. CASE handleAgentEvent(c)   BY <2>5 DEF handleAgentEvent
  <2>6. CASE ReadError(c)          BY <2>6 DEF ReadError
  <2>7. CASE Unregister(c)
    <3>1. EntryUsable'
      <4> SUFFICES ASSUME NEW d \in Devices, agents'[d] # NoConn
                   PROVE  /\ DeviceOf[agents'[d]] = d
                          /\ handler'[agents'[d]] \in Serving
                          /\ agents'[d] \in sendOpen'
        BY DEF EntryUsable
      <4>1. agents'[d] = agents[d] /\ sendOpen' = sendOpen
        BY <2>7 DEF Unregister
      <4>2. agents[d] # c
        BY <2>7, <4>1 DEF Unregister
      <4>3. agents[d] \in Conns
        BY <4>1
      <4>4. handler'[agents[d]] = handler[agents[d]]
        BY <2>7, <4>2, <4>3 DEF Unregister, Closed
      <4>5. QED BY <4>1, <4>4
    <3>2. ServedReachable'
      <4> SUFFICES ASSUME NEW x \in Conns, handler'[x] \in Serving, x \in sendOpen'
                   PROVE  agents'[DeviceOf[x]] = x
        BY DEF Serving
      <4>1. x # c /\ handler[x] \in Serving /\ x \in sendOpen
        BY <2>7 DEF Unregister, Closed
      <4>2. agents[DeviceOf[x]] = x
        BY <4>1
      <4>3. QED BY <2>7, <4>1, <4>2 DEF Unregister
    <3>3. OpenBeforeRegister'      BY <2>7 DEF Unregister, Closed
    <3>4. QED BY <3>1, <3>2, <3>3
  <2>8. QED BY <1>1, <2>1, <2>2, <2>3, <2>4, <2>5, <2>6, <2>7 DEF HandlerStep
<1>2. ASSUME NEW c \in Conns, WriterStep(c) PROVE RegistryExact' /\ OpenBeforeRegister'
  BY <1>2 DEF WriterStep, WriteCommand, WriteClose, PingError, StopWriting
<1>3. ASSUME NEW c \in Conns, LinkLost(c) PROVE RegistryExact' /\ OpenBeforeRegister'
  BY <1>3 DEF LinkLost
<1>4. ASSUME NEW m \in Commands, CallerStep(m) PROVE RegistryExact' /\ OpenBeforeRegister'
  BY <1>4 DEF CallerStep, SendLookup, SendPanic, SendPush, connVars
<1>5. CASE Restart                 BY <1>5 DEF Restart
<1>6. CASE UNCHANGED vars          BY <1>6 DEF vars, connVars
<1>7. QED BY <1>1, <1>2, <1>3, <1>4, <1>5, <1>6 DEF Next

\* Only the registered connection's own Unregister writes "offline" for a
\* device, and it removes the entry in the same critical section.
LEMMA StatusStep == IInv /\ [Next]_vars => OnlineWhileRegistered' /\ NothingReportedYet'
<1> SUFFICES ASSUME IInv, [Next]_vars PROVE OnlineWhileRegistered' /\ NothingReportedYet'
  OBVIOUS
<1> USE HubAssumption DEF IInv, TypeOK, RegistryExact, EntryUsable, OnlineWhileRegistered,
        NothingReportedYet, Serving
<1>1. ASSUME NEW c \in Conns, HandlerStep(c) PROVE OnlineWhileRegistered' /\ NothingReportedYet'
  <2>1. CASE Upgrade(c)            BY <2>1 DEF Upgrade
  <2>2. CASE Register(c)           BY <2>2 DEF Register
  <2>3. CASE StartPumps(c)         BY <2>3 DEF StartPumps
  <2>4. CASE ReadStatusEvent(c)    BY <2>4 DEF ReadStatusEvent
  <2>5. CASE handleAgentEvent(c)   BY <2>5 DEF handleAgentEvent, touchDevice, Touched
  <2>6. CASE ReadError(c)          BY <2>6 DEF ReadError
  <2>7. CASE Unregister(c)
    BY <2>7 DEF Unregister, Closed, touchDevice, Touched
  <2>8. QED BY <1>1, <2>1, <2>2, <2>3, <2>4, <2>5, <2>6, <2>7 DEF HandlerStep
<1>2. ASSUME NEW c \in Conns, WriterStep(c) PROVE OnlineWhileRegistered' /\ NothingReportedYet'
  BY <1>2 DEF WriterStep, WriteCommand, WriteClose, PingError, StopWriting, history
<1>3. ASSUME NEW c \in Conns, LinkLost(c) PROVE OnlineWhileRegistered' /\ NothingReportedYet'
  BY <1>3 DEF LinkLost
<1>4. ASSUME NEW m \in Commands, CallerStep(m) PROVE OnlineWhileRegistered' /\ NothingReportedYet'
  BY <1>4 DEF CallerStep, SendLookup, SendPanic, SendPush, connVars
<1>5. CASE Restart                 BY <1>5 DEF Restart
<1>6. CASE UNCHANGED vars          BY <1>6 DEF vars, connVars
<1>7. QED BY <1>1, <1>2, <1>3, <1>4, <1>5, <1>6 DEF Next

\* A lookup that found no connection never becomes a pending send.
LEMMA TargetStep == TypeOK /\ TargetKnown /\ [Next]_vars => TargetKnown'
<1> SUFFICES ASSUME TypeOK, TargetKnown, [Next]_vars PROVE TargetKnown'
  OBVIOUS
<1> USE HubAssumption DEF TypeOK, TargetKnown
<1>1. ASSUME NEW c \in Conns, HandlerStep(c) \/ WriterStep(c) \/ LinkLost(c)
      PROVE  UNCHANGED callVars
  <2>1. CASE HandlerStep(c)
    BY <2>1 DEF HandlerStep, Upgrade, Register, StartPumps, ReadStatusEvent,
                handleAgentEvent, ReadError, Unregister
  <2>2. CASE WriterStep(c)
    BY <2>2 DEF WriterStep, WriteCommand, WriteClose, PingError
  <2>3. CASE LinkLost(c)
    BY <2>3 DEF LinkLost
  <2>4. QED BY <1>1, <2>1, <2>2, <2>3
<1>2. ASSUME NEW m \in Commands, CallerStep(m) PROVE TargetKnown'
  BY <1>2 DEF CallerStep, SendLookup, SendPanic, SendPush, Ends
<1>3. CASE Restart                 BY <1>3 DEF Restart
<1>4. CASE UNCHANGED vars          BY <1>4 DEF vars, callVars
<1>5. QED BY <1>1, <1>2, <1>3, <1>4 DEF Next, callVars

\* The inductive invariant holds in every reachable state.
THEOREM Invariance == Spec => []IInv
<1>1. Init => IInv
  BY InitIInv
<1>2. IInv /\ [Next]_vars => IInv'
  BY TypeStep, RegistryStep, StatusStep, TargetStep DEF IInv
<1>3. QED
  BY <1>1, <1>2, PTL DEF Spec

\* Every variable of the hub keeps its type.
THEOREM TypeCorrect == Spec => []TypeOK
<1>1. IInv => TypeOK
  BY DEF IInv
<1>2. QED
  BY <1>1, Invariance, PTL

\* The registry names exactly the connections that are served and have not been
\* replaced: a late Unregister of an older connection never removes a newer one
\* and no channel is closed twice.
THEOREM RegistryIsExact == Spec => []RegistryExact
<1>1. IInv => RegistryExact
  BY DEF IInv
<1>2. QED
  BY <1>1, Invariance, PTL

\* The database shows a registered device online from its first recorded event
\* until its own connection unregisters.
THEOREM StatusIsOnline == Spec => []OnlineWhileRegistered
<1>1. IInv => OnlineWhileRegistered
  BY DEF IInv
<1>2. QED
  BY <1>1, Invariance, PTL
=============================================================================
