---------------------------- MODULE ChannelProofs ----------------------------
(***************************************************************************)
(* The hub implements CommandChannel, for every set of devices,            *)
(* connections and commands and every channel capacity: its initial states *)
(* and its steps are those of the abstract specification.  Delivery under  *)
(* fairness is left to the model checker.                                  *)
(***************************************************************************)
EXTENDS AgentHubProofs, SequenceTheorems

\* The written commands are the first of the accepted ones.
PrefixOf(w, a) ==
  /\ Len(w) <= Len(a)
  /\ \A i \in 1..Len(w) : w[i] = a[i]

\* The accepted commands are the written ones followed by the buffered ones.
SplitAs(a, w, q) ==
  /\ Len(a) = Len(w) + Len(q)
  /\ \A i \in 1..Len(q) : q[i] = a[Len(w) + i]

\* Every command on a channel is a call of its own that has returned.
CallsEnded(a) == \A i \in 1..Len(a) : caller[a[i]] = "ended"

\* A connection that is not upgraded has no socket, no goroutine, no channel.
Untouched(c) ==
  /\ handler[c] = "idle" <=> socket[c] = "none"
  /\ handler[c] = "idle" =>
       writer[c] = "none" /\ c \notin sendOpen /\ accepted[c] = <<>> /\ wire[c] = <<>>

\* The inductive invariant of one connection.  CommandStream says nothing of a
\* command accepted on another connection; that a command is accepted once
\* needs the state of its call.
StreamOf(c) ==
  /\ PrefixOf(wire[c], accepted[c])
  /\ socket[c] \in {"none", "open"} => SplitAs(accepted[c], wire[c], queue[c])
  /\ CallsEnded(accepted[c])
  /\ Untouched(c)

StreamInv == \A c \in Conns : StreamOf(c)

\* Adding to both sides of an inequality.
LEMMA SumGrows == \A x, y, z \in Nat : y < z => x + y < x + z
  OBVIOUS

\* Writing the oldest buffered command keeps the order.
LEMMA PopKeepsOrder ==
  ASSUME NEW a \in Seq(Commands), NEW w \in Seq(Commands), NEW q \in Seq(Commands),
         q # <<>>, PrefixOf(w, a), SplitAs(a, w, q)
  PROVE  /\ PrefixOf(Append(w, Head(q)), a)
         /\ SplitAs(a, Append(w, Head(q)), Tail(q))
         /\ Head(q) = a[Len(w) + 1]
<1> DEFINE v == Append(w, Head(q))
<1>1. /\ Head(q) \in Commands /\ Tail(q) \in Seq(Commands)
      /\ Len(Tail(q)) = Len(q) - 1 /\ Len(q) \in Nat \ {0}
      /\ \A i \in 1..Len(Tail(q)) : Tail(q)[i] = q[i + 1]
  BY HeadTailProperties, EmptySeq
<1>2. /\ v \in Seq(Commands) /\ Len(v) = Len(w) + 1
      /\ \A i \in 1..Len(w) : v[i] = w[i]
      /\ v[Len(w) + 1] = Head(q)
  BY <1>1
<1>3. Head(q) = q[1]
  BY <1>1
<1>4. Head(q) = a[Len(w) + 1]
  BY <1>1, <1>3 DEF SplitAs
<1> HIDE DEF v
<1>5. PrefixOf(v, a)
  BY <1>1, <1>2, <1>4 DEF PrefixOf, SplitAs
<1>6. SplitAs(a, v, Tail(q))
  <2>1. Len(a) = Len(v) + Len(Tail(q))
    BY <1>1, <1>2 DEF SplitAs
  <2>2. ASSUME NEW i \in 1..Len(Tail(q)) PROVE Tail(q)[i] = a[Len(v) + i]
    <3>1. i + 1 \in 1..Len(q) /\ Len(w) + (i + 1) = Len(v) + i
      BY <1>1, <1>2
    <3>2. q[i + 1] = a[Len(w) + (i + 1)]
      BY <3>1 DEF SplitAs
    <3>3. QED BY <1>1, <3>1, <3>2
  <2>3. QED BY <2>1, <2>2 DEF SplitAs
<1>7. QED BY <1>4, <1>5, <1>6 DEF v

\* Buffering one more command keeps the order.
LEMMA PushKeepsOrder ==
  ASSUME NEW a \in Seq(Commands), NEW w \in Seq(Commands), NEW q \in Seq(Commands),
         NEW m \in Commands
  PROVE  /\ PrefixOf(w, a) => PrefixOf(w, Append(a, m))
         /\ SplitAs(a, w, q) => SplitAs(Append(a, m), w, Append(q, m))
<1> DEFINE b == Append(a, m)
           r == Append(q, m)
<1>1. /\ Len(b) = Len(a) + 1 /\ b[Len(a) + 1] = m
      /\ \A i \in 1..Len(a) : b[i] = a[i]
  OBVIOUS
<1>2. /\ Len(r) = Len(q) + 1 /\ r[Len(q) + 1] = m
      /\ \A i \in 1..Len(q) : r[i] = q[i]
  OBVIOUS
<1>3. Len(a) \in Nat /\ Len(w) \in Nat /\ Len(q) \in Nat
  OBVIOUS
<1> HIDE DEF b, r
<1>4. PrefixOf(w, a) => PrefixOf(w, b)
  BY <1>1, <1>3 DEF PrefixOf
<1>5. ASSUME SplitAs(a, w, q) PROVE SplitAs(b, w, r)
  <2>1. Len(b) = Len(w) + Len(r)
    BY <1>1, <1>2, <1>3, <1>5 DEF SplitAs
  <2>2. ASSUME NEW i \in 1..Len(r) PROVE r[i] = b[Len(w) + i]
    <3>1. CASE i \in 1..Len(q)
      BY <3>1, <1>1, <1>2, <1>3, <1>5 DEF SplitAs
    <3>2. CASE i = Len(q) + 1
      BY <3>2, <1>1, <1>2, <1>3, <1>5 DEF SplitAs
    <3>3. QED BY <1>2, <1>3, <3>1, <3>2
  <2>3. QED BY <2>1, <2>2 DEF SplitAs
<1>6. QED BY <1>4, <1>5 DEF b, r

\* The initial states have no commands anywhere.
LEMMA InitStream == Init => StreamInv
  BY DEF Init, StreamInv, StreamOf, PrefixOf, SplitAs, CallsEnded, Untouched

\* A connection nothing happened to keeps its part of the invariant; a call
\* that has ended stays ended.
LEMMA StreamFrame ==
  ASSUME NEW c \in Conns, StreamOf(c),
         UNCHANGED <<accepted[c], wire[c], queue[c], socket[c], handler[c], writer[c]>>,
         c \in sendOpen' => c \in sendOpen,
         \A m \in Commands : caller[m] = "ended" => caller'[m] = "ended",
         accepted[c] \in Seq(Commands)
  PROVE  StreamOf(c)'
<1>1. \A i \in 1..Len(accepted[c]) : accepted[c][i] \in Commands
  BY ElementOfSeq
<1>2. CallsEnded(accepted[c])'
  BY <1>1 DEF StreamOf, CallsEnded
<1>3. PrefixOf(wire[c], accepted[c])'
  BY DEF StreamOf, PrefixOf
<1>4. (socket[c] \in {"none", "open"} => SplitAs(accepted[c], wire[c], queue[c]))'
  BY DEF StreamOf, SplitAs
<1>5. Untouched(c)'
  BY DEF StreamOf, Untouched
<1>6. QED BY <1>2, <1>3, <1>4, <1>5 DEF StreamOf

\* A step that leaves the sequences alone and only moves c's goroutines or
\* takes its socket down keeps the invariant.
LEMMA StreamMoves ==
  ASSUME TypeOK, StreamInv, NEW c \in Conns, Untouched(c)',
         UNCHANGED <<accepted, wire, queue>>,
         socket[c]' \in {"none", "open"} => socket[c] \in {"none", "open"},
         \A x \in Conns : x # c =>
           /\ UNCHANGED <<socket[x], handler[x], writer[x]>>
           /\ x \in sendOpen' => x \in sendOpen,
         \A m \in Commands : caller[m] = "ended" => caller'[m] = "ended"
  PROVE  StreamInv'
<1>1. \A x \in Conns : accepted[x] \in Seq(Commands)
  BY DEF TypeOK
<1>2. ASSUME NEW x \in Conns, x # c PROVE StreamOf(x)'
  BY <1>1, <1>2, StreamFrame DEF StreamInv
<1>3. StreamOf(c)'
  <2>1. StreamOf(c)
    BY DEF StreamInv
  <2>2. \A i \in 1..Len(accepted[c]) : accepted[c][i] \in Commands
    BY <1>1, ElementOfSeq
  <2>3. CallsEnded(accepted[c])'
    BY <2>1, <2>2 DEF StreamOf, CallsEnded
  <2>4. PrefixOf(wire[c], accepted[c])'
    BY <2>1 DEF StreamOf, PrefixOf
  <2>5. (socket[c] \in {"none", "open"} => SplitAs(accepted[c], wire[c], queue[c]))'
    BY <2>1 DEF StreamOf, SplitAs
  <2>6. QED BY <2>3, <2>4, <2>5 DEF StreamOf
<1>4. QED BY <1>2, <1>3 DEF StreamInv

\* Only WriteCommand and SendPush touch the sequences of a connection that
\* goes on; Restart empties the buffers of those it ends.
LEMMA StreamStep == IInv /\ StreamInv /\ [Next]_vars => StreamInv'
<1> SUFFICES ASSUME IInv, StreamInv, [Next]_vars PROVE StreamInv'
  OBVIOUS
<1>0. TypeOK /\ TargetKnown
  BY DEF IInv
<1>1. ASSUME NEW c \in Conns, HandlerStep(c) PROVE StreamInv'
  <2>0. handler[c] = "idle" <=> socket[c] = "none"
    BY DEF StreamInv, StreamOf, Untouched
  <2>1. CASE Upgrade(c)
    BY <1>0, <2>0, <2>1, StreamMoves
    DEF Upgrade, TypeOK, Untouched, callVars, history
  <2>2. CASE Register(c)
    BY <1>0, <2>0, <2>2, StreamMoves DEF Register, TypeOK, Untouched, callVars, history
  <2>3. CASE StartPumps(c)
    BY <1>0, <2>0, <2>3, StreamMoves DEF StartPumps, TypeOK, Untouched, callVars, history
  <2>4. CASE ReadStatusEvent(c)
    BY <1>0, <2>0, <2>4, StreamMoves DEF ReadStatusEvent, TypeOK, Untouched, callVars, history
  <2>5. CASE handleAgentEvent(c)
    BY <1>0, <2>0, <2>5, StreamMoves DEF handleAgentEvent, TypeOK, Untouched, callVars, history
  <2>6. CASE ReadError(c)
    BY <1>0, <2>0, <2>6, StreamMoves DEF ReadError, TypeOK, Untouched, callVars, history
  <2>7. CASE Unregister(c)
    BY <1>0, <2>0, <2>7, StreamMoves DEF Unregister, Closed, TypeOK, Untouched, callVars, history
  <2>8. QED BY <1>1, <2>1, <2>2, <2>3, <2>4, <2>5, <2>6, <2>7 DEF HandlerStep
<1>2. ASSUME NEW c \in Conns, WriterStep(c) PROVE StreamInv'
  <2>0. Untouched(c) /\ writer[c] = "running"
    BY <1>2 DEF StreamInv, StreamOf, WriterStep, WriteCommand, WriteClose, PingError
  <2>1. CASE WriteCommand(c)
    <3>1. ASSUME NEW x \in Conns, x # c PROVE StreamOf(x)'
      <4>1. UNCHANGED <<accepted[x], wire[x], queue[x], socket[x], handler[x], writer[x]>>
        BY <1>0, <2>1, <3>1 DEF WriteCommand, StopWriting, TypeOK
      <4>2. UNCHANGED <<sendOpen, caller>>
        BY <2>1 DEF WriteCommand, callVars
      <4>3. QED BY <1>0, <4>1, <4>2, StreamFrame DEF StreamInv, TypeOK
    <3>2. StreamOf(c)'
      <4>1. /\ accepted[c] \in Seq(Commands) /\ wire[c] \in Seq(Commands)
            /\ queue[c] \in Seq(Commands) /\ queue[c] # <<>>
        BY <1>0, <2>1 DEF TypeOK, WriteCommand
      <4>2. StreamOf(c)
        BY DEF StreamInv
      <4>3. UNCHANGED <<accepted, sendOpen, handler, caller>>
        BY <2>1 DEF WriteCommand, callVars
      <4>4. CallsEnded(accepted[c])'
        BY <4>2, <4>3 DEF StreamOf, CallsEnded
      <4>5. CASE /\ socket[c] = "open"
                 /\ wire' = [wire EXCEPT ![c] = Append(@, Head(queue[c]))]
                 /\ UNCHANGED <<writer, socket>>
        <5>1. wire'[c] = Append(wire[c], Head(queue[c])) /\ queue'[c] = Tail(queue[c])
          BY <1>0, <2>1, <4>5 DEF WriteCommand, TypeOK
        <5>2. PrefixOf(wire'[c], accepted[c]) /\ SplitAs(accepted[c], wire'[c], queue'[c])
          BY <4>1, <4>2, <4>5, <5>1, PopKeepsOrder DEF StreamOf
        <5>3. PrefixOf(wire[c], accepted[c])' /\ SplitAs(accepted[c], wire[c], queue[c])'
          BY <4>3, <5>2 DEF PrefixOf, SplitAs
        <5>4. Untouched(c)'
          BY <2>0, <4>3, <4>5 DEF Untouched
        <5>5. QED BY <4>4, <5>3, <5>4 DEF StreamOf
      <4>6. CASE socket[c] # "open" /\ UNCHANGED wire
        <5>1. socket'[c] \in {"broken", "closed"} /\ handler[c] # "idle"
          BY <1>0, <2>0, <2>1, <4>6 DEF WriteCommand, StopWriting, TypeOK, Untouched, SocketStates
        <5>2. Untouched(c)'
          BY <4>3, <5>1 DEF Untouched
        <5>3. PrefixOf(wire[c], accepted[c])'
          BY <4>2, <4>3, <4>6 DEF StreamOf, PrefixOf
        <5>4. QED BY <4>4, <5>1, <5>2, <5>3 DEF StreamOf
      <4>7. QED BY <2>1, <4>5, <4>6 DEF WriteCommand
    <3>3. QED BY <3>1, <3>2 DEF StreamInv
  <2>2. CASE WriteClose(c)
    BY <1>0, <2>0, <2>2, StreamMoves
    DEF WriteClose, StopWriting, TypeOK, Untouched, callVars, history
  <2>3. CASE PingError(c)
    BY <1>0, <2>0, <2>3, StreamMoves
    DEF PingError, StopWriting, TypeOK, Untouched, callVars, history
  <2>4. QED BY <1>2, <2>1, <2>2, <2>3 DEF WriterStep
<1>3. ASSUME NEW c \in Conns, LinkLost(c) PROVE StreamInv'
  <2>0. Untouched(c)
    BY DEF StreamInv, StreamOf
  <2>1. QED BY <1>0, <1>3, <2>0, StreamMoves DEF LinkLost, TypeOK, Untouched, callVars, history
<1>4. ASSUME NEW m \in Commands, CallerStep(m) PROVE StreamInv'
  <2>1. ASSUME NEW d \in Devices, SendLookup(m, d) PROVE StreamInv'
    BY <1>0, <2>1, StreamFrame DEF SendLookup, StreamInv, TypeOK, connVars, history
  <2>2. CASE SendPanic(m)
    BY <1>0, <2>2, StreamFrame DEF SendPanic, Ends, StreamInv, TypeOK, connVars, history
  <2>3. CASE SendPush(m)
    <3>1. /\ target[m] \in Conns /\ target[m] \in sendOpen
          /\ UNCHANGED <<wire, socket, handler, writer, sendOpen>>
          /\ caller' = [caller EXCEPT ![m] = "ended"]
      BY <1>0, <2>3 DEF SendPush, Ends, TargetKnown
    <3>2. \A x \in Commands : caller[x] = "ended" => caller'[x] = "ended"
      BY <1>0, <3>1 DEF TypeOK
    <3>3. CASE UNCHANGED <<queue, accepted>>
      BY <1>0, <3>1, <3>2, <3>3, StreamFrame DEF StreamInv, TypeOK
    <3>4. CASE /\ queue'    = [queue EXCEPT ![target[m]] = Append(@, m)]
               /\ accepted' = [accepted EXCEPT ![target[m]] = Append(@, m)]
      <4>0. PICK c \in Conns : c = target[m]
        BY <3>1
      <4>1. ASSUME NEW x \in Conns, x # c PROVE StreamOf(x)'
        BY <1>0, <3>1, <3>2, <3>4, <4>0, <4>1, StreamFrame DEF StreamInv, TypeOK
      <4>2. StreamOf(c)'
        <5>1. /\ StreamOf(c)
              /\ accepted[c] \in Seq(Commands) /\ wire[c] \in Seq(Commands)
              /\ queue[c] \in Seq(Commands)
          BY <1>0 DEF StreamInv, TypeOK
        <5>2. /\ accepted'[c] = Append(accepted[c], m)
              /\ queue'[c] = Append(queue[c], m)
          BY <1>0, <3>4, <4>0 DEF TypeOK
        <5>3. PrefixOf(wire[c], accepted[c])'
          <6>1. PrefixOf(wire[c], accepted'[c])
            BY <5>1, <5>2, PushKeepsOrder DEF StreamOf
          <6>2. QED BY <3>1, <6>1 DEF PrefixOf
        <5>4. (socket[c] \in {"none", "open"} => SplitAs(accepted[c], wire[c], queue[c]))'
          <6>1. socket[c] \in {"none", "open"} => SplitAs(accepted'[c], wire[c], queue'[c])
            BY <5>1, <5>2, PushKeepsOrder DEF StreamOf
          <6>2. QED BY <3>1, <6>1 DEF SplitAs
        <5>5. CallsEnded(accepted[c])'
          <6>1. \A i \in 1..Len(accepted[c]) :
                   accepted[c][i] \in Commands /\ caller[accepted[c][i]] = "ended"
            BY <5>1, ElementOfSeq DEF StreamOf, CallsEnded
          <6>2. /\ Len(accepted'[c]) = Len(accepted[c]) + 1
                /\ accepted'[c][Len(accepted[c]) + 1] = m
                /\ \A i \in 1..Len(accepted[c]) : accepted'[c][i] = accepted[c][i]
            BY <5>1, <5>2
          <6>3. caller'[m] = "ended" /\ Len(accepted[c]) \in Nat
            BY <1>0, <3>1, <5>1 DEF TypeOK
          <6>4. ASSUME NEW i \in 1..Len(accepted'[c]) PROVE caller'[accepted'[c][i]] = "ended"
            <7>1. CASE i \in 1..Len(accepted[c])
              BY <3>2, <6>1, <6>2, <7>1
            <7>2. CASE i = Len(accepted[c]) + 1
              BY <6>2, <6>3, <7>2
            <7>3. QED BY <6>2, <6>3, <7>1, <7>2
          <6>5. QED BY <6>4 DEF CallsEnded
        <5>6. Untouched(c)'
          BY <3>1, <4>0, <5>1 DEF StreamOf, Untouched
        <5>7. QED BY <5>3, <5>4, <5>5, <5>6 DEF StreamOf
      <4>3. QED BY <4>1, <4>2 DEF StreamInv
    <3>5. QED BY <2>3, <3>3, <3>4 DEF SendPush
  <2>4. QED BY <1>4, <2>1, <2>2, <2>3 DEF CallerStep
<1>5. CASE Restart
  <2>1. \A m \in Commands : caller[m] = "ended" => caller'[m] = "ended"
    BY <1>5 DEF Restart
  <2>2. ASSUME NEW c \in Conns PROVE StreamOf(c)'
    <3>1. StreamOf(c) /\ accepted[c] \in Seq(Commands)
      BY <1>0 DEF StreamInv, TypeOK
    <3>2. /\ UNCHANGED <<accepted, wire>> /\ queue'[c] = <<>> /\ c \notin sendOpen'
          /\ handler'[c] = IF handler[c] = "idle" THEN "idle" ELSE "done"
          /\ writer'[c]  = IF handler[c] = "idle" THEN "none" ELSE "done"
          /\ socket'[c]  = IF handler[c] = "idle" THEN "none" ELSE "closed"
      BY <1>5 DEF Restart, history
    <3>3. CallsEnded(accepted[c])'
      BY <2>1, <3>1, <3>2, ElementOfSeq DEF StreamOf, CallsEnded
    <3>4. PrefixOf(wire[c], accepted[c])'
      BY <3>1, <3>2 DEF StreamOf, PrefixOf
    <3>5. Untouched(c)'
      BY <3>1, <3>2 DEF StreamOf, Untouched
    <3>6. (socket[c] \in {"none", "open"} => SplitAs(accepted[c], wire[c], queue[c]))'
      BY <3>1, <3>2 DEF StreamOf, Untouched, SplitAs
    <3>7. QED BY <3>3, <3>4, <3>5, <3>6 DEF StreamOf
  <2>3. QED BY <2>2 DEF StreamInv
<1>6. CASE UNCHANGED vars
  BY <1>0, <1>6, StreamFrame DEF StreamInv, TypeOK, vars, connVars, callVars, history
<1>7. QED BY <1>1, <1>2, <1>3, <1>4, <1>5, <1>6 DEF Next

\* The invariant of the streams holds in every reachable state.
LEMMA StreamInvariance == Spec => []StreamInv
<1>1. Init => StreamInv
  BY InitStream
<1>2. IInv /\ StreamInv /\ [Next]_vars => StreamInv'
  BY StreamStep
<1>3. QED BY <1>1, <1>2, Invariance, PTL DEF Spec

\* Commands reach a connection's socket in the order SendCommand accepted
\* them, and while the socket is open none is missing.
THEOREM StreamIsOrdered == Spec => []CommandStream
<1>1. TypeOK /\ StreamInv => CommandStream
  <2> SUFFICES ASSUME TypeOK, StreamInv, NEW c \in Conns
      PROVE  /\ Len(wire[c]) <= Len(accepted[c])
             /\ wire[c] = SubSeq(accepted[c], 1, Len(wire[c]))
             /\ socket[c] \in {"none", "open"} => accepted[c] = wire[c] \o queue[c]
    BY DEF CommandStream
  <2> DEFINE a == accepted[c]
             w == wire[c]
             q == queue[c]
  <2>1. /\ a \in Seq(Commands) /\ w \in Seq(Commands) /\ q \in Seq(Commands)
        /\ PrefixOf(w, a)
        /\ socket[c] \in {"none", "open"} => SplitAs(a, w, q)
    BY DEF TypeOK, StreamInv, StreamOf
  <2> HIDE DEF a, w, q
  <2>2. Len(a) \in Nat /\ Len(w) \in Nat /\ Len(q) \in Nat /\ Len(w) <= Len(a)
    BY <2>1 DEF PrefixOf
  <2>3. w = SubSeq(a, 1, Len(w))
    <3> DEFINE p == SubSeq(a, 1, Len(w))
    <3>1. \A i \in 1..Len(w) : a[i] \in Commands
      BY <2>1, <2>2, ElementOfSeq
    <3>2. /\ p \in Seq(Commands) /\ Len(p) = Len(w)
          /\ \A i \in 1..Len(w) : p[i] = a[i]
      BY <2>2, <3>1, SubSeqProperties
    <3> HIDE DEF p
    <3>3. w = p
      BY <2>1, <2>2, <3>2, SeqEqual DEF PrefixOf
    <3>4. QED BY <3>3 DEF p
  <2>4. ASSUME SplitAs(a, w, q) PROVE a = w \o q
    <3> DEFINE p == w \o q
    <3>1. /\ p \in Seq(Commands) /\ Len(p) = Len(w) + Len(q)
          /\ \A i \in 1..Len(w) + Len(q) : p[i] = IF i <= Len(w) THEN w[i] ELSE q[i - Len(w)]
      BY <2>1, ConcatProperties
    <3> HIDE DEF p
    <3>2. ASSUME NEW i \in 1..Len(a) PROVE a[i] = p[i]
      <4>1. CASE i <= Len(w)
        BY <2>1, <2>2, <2>4, <3>1, <4>1 DEF PrefixOf, SplitAs
      <4>2. CASE ~(i <= Len(w))
        <5>1. i - Len(w) \in 1..Len(q) /\ Len(w) + (i - Len(w)) = i
          BY <2>2, <2>4, <4>2 DEF SplitAs
        <5>2. q[i - Len(w)] = a[Len(w) + (i - Len(w))]
          BY <2>4, <5>1 DEF SplitAs
        <5>3. QED BY <2>2, <2>4, <3>1, <4>2, <5>1, <5>2 DEF SplitAs
      <4>3. QED BY <4>1, <4>2
    <3>3. a = p
      BY <2>1, <2>4, <3>1, <3>2, SeqEqual DEF SplitAs
    <3>4. QED BY <3>3 DEF p
  <2>5. QED BY <2>1, <2>2, <2>3, <2>4 DEF a, w, q
<1>2. QED BY <1>1, TypeCorrect, StreamInvariance, PTL

-----------------------------------------------------------------------------
\* The abstract variable "up" under the refinement mapping.
Up == [c \in Conns |-> ChannelState(c)]

\* A step that leaves the sequences and every connection's state alone is one
\* the abstract specification does not see.
LEMMA Stutters ==
  ASSUME UNCHANGED <<accepted, wire>>, \A c \in Conns : ChannelState(c)' = ChannelState(c)
  PROVE  UNCHANGED Channel!vars
BY DEF Channel!vars

\* A step that takes one connection's socket down is Fail or is not seen.
LEMMA TakesDown ==
  ASSUME NEW S \in SUBSET Conns, UNCHANGED <<accepted, wire>>,
         \A c \in S : ChannelState(c) # "new" /\ ChannelState(c)' = "down",
         \A c \in Conns \ S : ChannelState(c)' = ChannelState(c)
  PROVE  [Channel!Next]_(Channel!vars)
<1> DEFINE T == {c \in S : ChannelState(c) = "up"}
<1>1. \A c \in Conns : ChannelState(c) \in {"new", "up", "down"}
  BY DEF ChannelState
<1>2. Up' = [c \in Conns |-> IF c \in T THEN "down" ELSE ChannelState(c)]
  BY <1>1 DEF Up
<1>3. CASE T = {}
  <2>1. \A c \in Conns : ChannelState(c)' = ChannelState(c)
    BY <1>1, <1>3
  <2>2. QED BY <2>1, Stutters
<1>4. CASE T # {}
  <2>1. T \in SUBSET Conns
    OBVIOUS
  <2>2. Channel!Fail(T)
    BY <1>1, <1>4 DEF Channel!Fail
  <2>3. QED BY <2>1, <2>2 DEF Channel!Next
<1>5. QED BY <1>3, <1>4

\* A socket that is closed or breaks takes its channel down.
LEMMA SocketGone ==
  ASSUME TypeOK, NEW c \in Conns, socket[c] # "none", UNCHANGED <<accepted, wire>>,
         NEW gone \in {"closed", "broken"}, socket' = [socket EXCEPT ![c] = gone]
  PROVE  [Channel!Next]_(Channel!vars)
<1>1. /\ socket'[c] \in {"closed", "broken"}
      /\ \A x \in Conns \ {c} : socket'[x] = socket[x]
  BY DEF TypeOK
<1>2. ChannelState(c) # "new" /\ ChannelState(c)' = "down"
  BY <1>1 DEF ChannelState
<1>3. \A x \in Conns \ {c} : ChannelState(x)' = ChannelState(x)
  BY <1>1 DEF ChannelState
<1>4. QED
  <2>1. PICK S \in SUBSET Conns : S = {c}
    OBVIOUS
  <2>2. QED BY <1>2, <1>3, <2>1, TakesDown

\* Every step of the hub is a step of the abstract channel or is not seen by it.
LEMMA StepImplements == IInv /\ StreamInv /\ [Next]_vars => [Channel!Next]_(Channel!vars)
<1> SUFFICES ASSUME IInv, StreamInv, [Next]_vars PROVE [Channel!Next]_(Channel!vars)
  OBVIOUS
<1>0. TypeOK /\ TargetKnown
  BY DEF IInv
<1>1. ASSUME NEW c \in Conns, HandlerStep(c) PROVE [Channel!Next]_(Channel!vars)
  <2>0. handler[c] = "idle" <=> socket[c] = "none"
    BY DEF StreamInv, StreamOf, Untouched
  <2>1. CASE Upgrade(c)
    <3>1. Channel!Open(c)
      <4>1. socket[c] = "none" /\ socket' = [socket EXCEPT ![c] = "open"]
        BY <2>0, <2>1 DEF Upgrade
      <4>2. \A x \in Conns : ChannelState(x)' = IF x = c THEN "up" ELSE ChannelState(x)
        BY <1>0, <4>1 DEF ChannelState, TypeOK
      <4>3. ChannelState(c) = "new"
        BY <4>1 DEF ChannelState
      <4>4. UNCHANGED <<accepted, wire>>
        BY <2>1 DEF Upgrade, history
      <4>5. QED BY <4>2, <4>3, <4>4 DEF Channel!Open
    <3>2. QED BY <3>1 DEF Channel!Next
  <2>2. CASE Register(c) \/ StartPumps(c) \/ ReadStatusEvent(c) \/ handleAgentEvent(c) \/ ReadError(c)
    BY <2>2, Stutters
    DEF Register, StartPumps, ReadStatusEvent, handleAgentEvent, ReadError, ChannelState, history
  <2>3. CASE Unregister(c)
    <3>1. /\ UNCHANGED <<accepted, wire>> /\ socket[c] # "none"
          /\ socket' = [socket EXCEPT ![c] = "closed"]
      BY <2>0, <2>3 DEF Unregister, Closed, history
    <3>2. QED BY <1>0, <3>1, SocketGone
  <2>4. QED BY <1>1, <2>1, <2>2, <2>3 DEF HandlerStep
<1>2. ASSUME NEW c \in Conns, WriterStep(c) PROVE [Channel!Next]_(Channel!vars)
  <2>0. socket[c] # "none"
    BY <1>2 DEF StreamInv, StreamOf, Untouched, WriterStep, WriteCommand, WriteClose, PingError
  <2>1. ASSUME UNCHANGED <<accepted, wire>>, StopWriting(c) PROVE [Channel!Next]_(Channel!vars)
    <3>1. socket' = [socket EXCEPT ![c] = "closed"]
      BY <2>1 DEF StopWriting
    <3>2. QED BY <1>0, <2>0, <2>1, <3>1, SocketGone
  <2>2. CASE WriteCommand(c)
    <3>1. CASE /\ socket[c] = "open"
               /\ wire' = [wire EXCEPT ![c] = Append(@, Head(queue[c]))]
               /\ UNCHANGED <<writer, socket>>
      <4>1. /\ accepted[c] \in Seq(Commands) /\ wire[c] \in Seq(Commands)
            /\ queue[c] \in Seq(Commands) /\ queue[c] # <<>>
            /\ PrefixOf(wire[c], accepted[c]) /\ SplitAs(accepted[c], wire[c], queue[c])
        BY <1>0, <2>2, <3>1 DEF TypeOK, WriteCommand, StreamInv, StreamOf
      <4>2. /\ Head(queue[c]) = accepted[c][Len(wire[c]) + 1]
            /\ Len(wire[c]) < Len(accepted[c])
        <5>0. Len(queue[c]) \in Nat \ {0}
          BY <4>1, EmptySeq
        <5>1. 0 < Len(queue[c]) /\ Len(queue[c]) \in Nat /\ Len(wire[c]) \in Nat
          BY <4>1, <5>0
        <5>2. Head(queue[c]) = accepted[c][Len(wire[c]) + 1]
          BY <4>1, PopKeepsOrder
        <5>3. Len(wire[c]) + 0 < Len(wire[c]) + Len(queue[c])
          BY <5>1, SumGrows
        <5>6. Len(wire[c]) + 0 = Len(wire[c])
          BY <5>1
        <5>4. Len(accepted[c]) = Len(wire[c]) + Len(queue[c])
          BY <4>1 DEF SplitAs
        <5>5. QED BY <5>2, <5>3, <5>4, <5>6
      <4>3. \A x \in Conns : ChannelState(x)' = ChannelState(x)
        BY <3>1 DEF ChannelState
      <4>4. ChannelState(c) = "up" /\ UNCHANGED accepted
        BY <2>2, <3>1 DEF ChannelState, WriteCommand
      <4>5. Channel!Deliver(c)
        BY <3>1, <4>2, <4>3, <4>4 DEF Channel!Deliver
      <4>6. QED BY <4>5 DEF Channel!Next
    <3>2. CASE UNCHANGED <<writer, socket, wire>>
      BY <2>2, <3>2, Stutters DEF WriteCommand, ChannelState
    <3>3. CASE StopWriting(c) /\ UNCHANGED wire
      BY <2>1, <2>2, <3>3 DEF WriteCommand
    <3>4. QED BY <2>2, <3>1, <3>2, <3>3 DEF WriteCommand
  <2>3. CASE WriteClose(c) \/ PingError(c)
    BY <2>1, <2>3 DEF WriteClose, PingError, history
  <2>4. QED BY <1>2, <2>2, <2>3 DEF WriterStep
<1>3. ASSUME NEW c \in Conns, LinkLost(c) PROVE [Channel!Next]_(Channel!vars)
  BY <1>0, <1>3, SocketGone DEF LinkLost, history
<1>4. ASSUME NEW m \in Commands, CallerStep(m) PROVE [Channel!Next]_(Channel!vars)
  <2>1. ASSUME NEW d \in Devices, SendLookup(m, d) PROVE [Channel!Next]_(Channel!vars)
    BY <2>1, Stutters DEF SendLookup, connVars, history, ChannelState
  <2>2. CASE SendPanic(m)
    BY <2>2, Stutters DEF SendPanic, connVars, history, ChannelState
  <2>3. CASE SendPush(m)
    <3>0. \A x \in Conns : ChannelState(x)' = ChannelState(x)
      BY <2>3 DEF SendPush, ChannelState
    <3>1. CASE UNCHANGED <<queue, accepted>>
      BY <2>3, <3>0, <3>1, Stutters DEF SendPush
    <3>2. CASE /\ Len(queue[target[m]]) < SendBuffer
               /\ accepted' = [accepted EXCEPT ![target[m]] = Append(@, m)]
      <4>0. PICK c \in Conns : c = target[m]
        BY <1>0, <2>3 DEF SendPush, TargetKnown
      <4>1. ChannelState(c) # "new"
        BY <2>3, <4>0 DEF SendPush, StreamInv, StreamOf, Untouched, ChannelState
      <4>2. ASSUME NEW x \in Conns PROVE m \notin Channel!Contents(accepted[x])
        <5>1. accepted[x] \in Seq(Commands) /\ CallsEnded(accepted[x]) /\ caller[m] = "sending"
          BY <1>0, <2>3 DEF TypeOK, StreamInv, StreamOf, SendPush
        <5>2. \A i \in DOMAIN accepted[x] : accepted[x][i] # m
          BY <5>1 DEF CallsEnded
        <5>3. QED BY <5>2 DEF Channel!Contents
      <4>3. ChannelState(c) = "up" => Len(accepted[c]) < Len(wire[c]) + SendBuffer
        <5> SUFFICES ASSUME ChannelState(c) = "up" PROVE Len(accepted[c]) < Len(wire[c]) + SendBuffer
          OBVIOUS
        <5>1. socket[c] = "open"
          BY DEF ChannelState
        <5>2. Len(accepted[c]) = Len(wire[c]) + Len(queue[c])
          BY <5>1 DEF StreamInv, StreamOf, SplitAs
        <5>3. /\ Len(accepted[c]) \in Nat /\ Len(wire[c]) \in Nat /\ Len(queue[c]) \in Nat
              /\ Len(queue[c]) < SendBuffer /\ SendBuffer \in Nat
          BY <1>0, <3>2, <4>0, HubAssumption DEF TypeOK
        <5>4. Len(wire[c]) + Len(queue[c]) < Len(wire[c]) + SendBuffer
          BY <5>3, SumGrows
        <5>5. QED BY <5>2, <5>4
      <4>4. Up' = Up /\ UNCHANGED wire
        BY <2>3, <3>0 DEF SendPush, Up
      <4>5. Channel!Accept(c, m)
        BY <3>2, <4>0, <4>1, <4>2, <4>3, <4>4 DEF Channel!Accept, Up
      <4>6. QED BY <4>5 DEF Channel!Next
    <3>3. QED BY <2>3, <3>1, <3>2 DEF SendPush
  <2>4. QED BY <1>4, <2>1, <2>2, <2>3 DEF CallerStep
<1>5. CASE Restart
  <2> DEFINE S == {c \in Conns : handler[c] # "idle"}
  <2>1. S \in SUBSET Conns /\ UNCHANGED <<accepted, wire>>
    BY <1>5 DEF Restart, history
  <2>2. \A c \in S : ChannelState(c) # "new" /\ ChannelState(c)' = "down"
    BY <1>5 DEF Restart, StreamInv, StreamOf, Untouched, ChannelState
  <2>3. \A c \in Conns \ S : ChannelState(c)' = ChannelState(c)
    BY <1>5 DEF Restart, StreamInv, StreamOf, Untouched, ChannelState
  <2> HIDE DEF S
  <2>4. QED BY <2>1, <2>2, <2>3, TakesDown
<1>6. CASE UNCHANGED vars
  BY <1>6, Stutters DEF vars, connVars, history, ChannelState
<1>7. QED BY <1>1, <1>2, <1>3, <1>4, <1>5, <1>6 DEF Next

\* The hub implements the abstract channel, delivery under fairness apart.
THEOREM HubImplementsChannel == Spec => Channel!Init /\ [][Channel!Next]_(Channel!vars)
<1>1. Init => Channel!Init
  BY DEF Init, Channel!Init, ChannelState
<1>2. IInv /\ StreamInv /\ [Next]_vars => [Channel!Next]_(Channel!vars)
  BY StepImplements
<1>3. QED BY <1>1, <1>2, Invariance, StreamInvariance, PTL DEF Spec
=============================================================================
