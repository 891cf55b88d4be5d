-------------------------- MODULE AgentLinkProofs --------------------------
(***************************************************************************)
(* Messages leave the agent once and in order and commands reach it once   *)
(* and in the order of their connection, for any number of connections,    *)
(* messages and commands and every capacity of the two channels.           *)
(***************************************************************************)
EXTENDS AgentLink, SequenceTheorems, TLAPS

\* Hub.Run works on the newest connection, whose readPump it has not spawned
\* yet when it is back at the top of its loop.
RunOK ==
  /\ main = "connecting" <=> run = "none"
  /\ dials = 0 <=> run = "none"
  /\ run \in {"top", "writing"} => conn = dials
  /\ run = "top" => reader[dials] = "none"
  /\ \A k \in Conns : k > dials => reader[k] = "none"

\* A readPump has looked its connection up before it reads.
ReadersOK ==
  \A k \in Conns :
    /\ reader[k] \in {"none", "starting"} => readOf[k] = NoConn
    /\ reader[k] \in {"reading", "holding"} => readOf[k] \in Conns
    /\ reader[k] = "holding" => held[k] \in 1..commands

\* What is written or waits to be was sent, and only on a connection that has
\* been established.
SentOK ==
  /\ \A c \in Conns : \A i \in DOMAIN wire[c] : wire[c][i] <= sends
  /\ \A i \in DOMAIN sendCh : sendCh[i] <= sends
  /\ \A c \in Conns : c > dials => wire[c] = <<>>

\* A command is in one place: in the buffer of one socket, once, with a
\* readPump, or past it.
InboxOK ==
  /\ \A c \in Conns : \A i \in DOMAIN inbox[c] : inbox[c][i] <= commands
  /\ \A c \in Conns : \A i, j \in DOMAIN inbox[c] : i < j => inbox[c][i] < inbox[c][j]
  /\ \A c, d \in Conns : \A i \in DOMAIN inbox[c], j \in DOMAIN inbox[d] :
       c # d => inbox[c][i] # inbox[d][j]
  /\ \A c \in Conns, k \in Holding : \A i \in DOMAIN inbox[c] : inbox[c][i] # held[k]

\* A command that has arrived was written, came over a connection that has a
\* reader, and is in no socket any more.
ArrivedOK ==
  \A i \in DOMAIN Arrived :
    /\ Arrived[i][2] <= commands
    /\ \E k \in Conns : readOf[k] = Arrived[i][1]
    /\ \A c \in Conns : \A j \in DOMAIN inbox[c] : Arrived[i][2] # inbox[c][j]

\* A connection with one reader: what has arrived is older than what the
\* reader holds, and that older than what the socket buffers.
SoleReaderOrder ==
  \A c \in Conns : ~Shared(c) =>
    /\ \A i \in DOMAIN Arrived : Arrived[i][1] = c =>
         \A j \in DOMAIN inbox[c] : Arrived[i][2] < inbox[c][j]
    /\ \A k \in Holding : readOf[k] = c =>
         /\ \A j \in DOMAIN inbox[c] : held[k] < inbox[c][j]
         /\ \A i \in DOMAIN Arrived : Arrived[i][1] = c => Arrived[i][2] < held[k]

\* The inductive invariant.
IInv ==
  /\ TypeOK /\ RunOK /\ ReadersOK
  /\ SentOK /\ OutboundOrder
  /\ InboxOK /\ ArrivedOK /\ SoleReaderOrder /\ InboundOnce

-----------------------------------------------------------------------------
(* Sequences.                                                               *)

LEMMA Elements ==
  ASSUME NEW S, NEW s \in Seq(S)
  PROVE  \A i \in DOMAIN s : s[i] \in S
BY LenProperties

\* What Append and Tail leave where it was, in terms of domains.
LEMMA AppendDomain ==
  ASSUME NEW S, NEW s \in Seq(S), NEW e \in S
  PROVE  /\ DOMAIN s = 1..Len(s) /\ Len(s) \in Nat
         /\ Append(s, e) \in Seq(S) /\ Len(Append(s, e)) = Len(s) + 1
         /\ \A i \in DOMAIN s : i \in DOMAIN Append(s, e) /\ Append(s, e)[i] = s[i]
         /\ Append(s, e)[Len(s) + 1] = e
         /\ \A i \in DOMAIN Append(s, e) : i \in DOMAIN s \/ i = Len(s) + 1
         /\ \A i \in DOMAIN s : i < Len(s) + 1
<1>1. /\ DOMAIN s = 1..Len(s) /\ Len(s) \in Nat
      /\ Append(s, e) \in Seq(S) /\ Len(Append(s, e)) = Len(s) + 1
      /\ \A i \in 1..Len(s) : Append(s, e)[i] = s[i]
      /\ Append(s, e)[Len(s) + 1] = e
  BY LenProperties, AppendProperties
<1>2. DOMAIN Append(s, e) = 1..(Len(s) + 1)
  BY <1>1, LenProperties
<1>3. QED BY <1>1, <1>2

LEMMA TailDomain ==
  ASSUME NEW S, NEW s \in Seq(S), s # <<>>
  PROVE  /\ DOMAIN s = 1..Len(s) /\ Len(s) \in Nat \ {0}
         /\ Tail(s) \in Seq(S) /\ Len(Tail(s)) = Len(s) - 1
         /\ Head(s) = s[1] /\ 1 \in DOMAIN s /\ Head(s) \in S
         /\ \A i \in DOMAIN Tail(s) : i \in Nat /\ i + 1 \in DOMAIN s /\ 1 < i + 1 /\ Tail(s)[i] = s[i + 1]
<1>1. DOMAIN s = 1..Len(s) /\ Len(s) \in Nat \ {0}
  BY LenProperties, EmptySeq
<1>2. /\ Tail(s) \in Seq(S) /\ Len(Tail(s)) = Len(s) - 1
      /\ \A i \in 1..Len(Tail(s)) : Tail(s)[i] = s[i + 1]
      /\ Head(s) \in S
  BY HeadTailProperties
<1>3. DOMAIN Tail(s) = 1..(Len(s) - 1)
  BY <1>1, <1>2, LenProperties
<1>4. QED BY <1>1, <1>2, <1>3

-----------------------------------------------------------------------------
(* Types and control.                                                       *)

\* Every pump and reader step works on a connection that exists.
LEMMA Working ==
  ASSUME TypeOK, RunOK, run \in {"top", "writing"}
  PROVE  conn \in Conns /\ conn = dials /\ main # "connecting"
  BY LinkAssumption DEF TypeOK, RunOK, Conns, NoConn

\* A dial establishes a connection within the bound.
LEMMA DialStep ==
  ASSUME TypeOK, Dialled
  PROVE  /\ dials + 1 \in Conns /\ dials' = dials + 1 /\ conn' = dials + 1
         /\ conn' \in Conns \cup {NoConn} /\ dials' \in 0..MaxDials
         /\ socket' \in [Conns -> {"none", "open", "lost", "closed"}]
<1>1. dials + 1 \in 1..MaxDials /\ dials' \in 0..MaxDials
  BY LinkAssumption DEF TypeOK, Dialled
<1>2. QED BY <1>1 DEF TypeOK, Dialled, Conns

\* Each step keeps the types.
LEMMA TypeStep ==
  ASSUME TypeOK, RunOK, ReadersOK, [Next]_vars
  PROVE  TypeOK'
<1> USE LinkAssumption DEF TypeOK
<1>1. CASE InitialConnect
  <2>1. sends' \in 0..MaxMessages
    BY <1>1 DEF InitialConnect, Registration
  <2>2. sendCh' \in Seq(1..MaxMessages) /\ Len(sendCh') <= SendBuffer
    BY <1>1 DEF InitialConnect, Registration
  <2>3. QED BY <1>1, <2>1, <2>2, DialStep DEF InitialConnect, readers, inbound
<1>2. CASE Redial
  BY <1>2, DialStep DEF Redial, readers, inbound, outbound
<1>3. CASE RedialStopped \/ AfterPumps
  BY <1>3 DEF RedialStopped, AfterPumps, readers, inbound, outbound
<1>4. CASE SpawnPumps \/ closeConn
  BY <1>4, Working DEF SpawnPumps, closeConn, NoConn, readers, inbound, outbound
<1>5. CASE ReadDone \/ WriteClose \/ PingFails
  BY <1>5 DEF ReadDone, WriteClose, PingFails, PumpReturns, readers, inbound, outbound
<1>6. CASE WriteMessage
  <2>1. /\ conn \in Conns /\ Head(sendCh) \in 1..MaxMessages
        /\ sendCh' \in Seq(1..MaxMessages) /\ Len(sendCh') <= SendBuffer
    <3>1. sendCh \in Seq(1..MaxMessages) /\ sendCh # <<>> /\ sendCh' = Tail(sendCh)
      BY <1>6 DEF WriteMessage
    <3>2. /\ Len(sendCh) \in Nat \ {0} /\ Head(sendCh) \in 1..MaxMessages
          /\ sendCh' \in Seq(1..MaxMessages) /\ Len(sendCh') = Len(sendCh) - 1
      BY <3>1, TailDomain
    <3>3. QED BY <1>6, <3>2, Working DEF WriteMessage
  <2>2. CASE Written
    <3>1. wire'[conn] \in Seq(1..MaxMessages)
      BY <2>1, <2>2, AppendProperties DEF Written
    <3>2. QED BY <1>6, <2>1, <2>2, <3>1 DEF WriteMessage, Written, readers, inbound
  <2>3. CASE Vanished
    BY <1>6, <2>1, <2>3 DEF WriteMessage, Vanished, readers, inbound
  <2>4. CASE PumpReturns /\ UNCHANGED wire
    BY <1>6, <2>1, <2>4 DEF WriteMessage, PumpReturns, readers, inbound
  <2>5. QED BY <1>6, <2>2, <2>3, <2>4 DEF WriteMessage
<1>7. ASSUME NEW k \in Conns, Reader(k) PROVE TypeOK'
  <2>1. CASE StartReading(k)
    BY <2>1 DEF StartReading, inbound, outbound
  <2>2. CASE ReadCommand(k)
    <3>1. readOf[k] \in Conns /\ inbox[readOf[k]] \in Seq(1..MaxCommands) /\ inbox[readOf[k]] # <<>>
      BY <2>2 DEF ReadCommand, ReadersOK
    <3>2. Head(inbox[readOf[k]]) \in 1..MaxCommands /\ Tail(inbox[readOf[k]]) \in Seq(1..MaxCommands)
      BY <3>1, TailDomain
    <3>3. inbox' \in [Conns -> Seq(1..MaxCommands)]
      BY <2>2, <3>1, <3>2 DEF ReadCommand
    <3>4. held' \in [Conns -> 0..MaxCommands]
      <4>1. held' = [held EXCEPT ![k] = Head(inbox[readOf[k]])]
        BY <2>2 DEF ReadCommand
      <4>2. \A n \in 1..MaxCommands : n \in 0..MaxCommands
        OBVIOUS
      <4>3. Head(inbox[readOf[k]]) \in 0..MaxCommands
        BY <3>2, <4>2
      <4>4. QED BY <4>1, <4>3
    <3>5. reader' \in [Conns -> {"none", "starting", "reading", "holding", "exited"}]
      BY <2>2 DEF ReadCommand
    <3>6. QED BY <2>2, <3>3, <3>4, <3>5 DEF ReadCommand, outbound
  <2>3. CASE PushCommand(k)
    <3>1. <<readOf[k], held[k]>> \in Conns \X (1..MaxCommands)
      BY <2>3 DEF PushCommand, ReadersOK
    <3>2. recvCh' \in Seq(Conns \X (1..MaxCommands)) /\ Len(recvCh') <= RecvBuffer
      BY <2>3, <3>1, AppendDomain DEF PushCommand
    <3>3. QED BY <2>3, <3>2 DEF PushCommand, outbound
  <2>4. CASE PushStopped(k) \/ ReadError(k)
    BY <2>4 DEF PushStopped, ReadError, ReaderExits, inbound, outbound
  <2>5. QED BY <1>7, <2>1, <2>2, <2>3, <2>4 DEF Reader
<1>8. CASE Send
  <2>1. sends + 1 \in 1..MaxMessages
    BY <1>8 DEF Send
  <2>2. sendCh' \in Seq(1..MaxMessages) /\ Len(sendCh') <= SendBuffer
    <3>1. /\ Append(sendCh, sends + 1) \in Seq(1..MaxMessages)
          /\ Len(sendCh) \in Nat /\ Len(Append(sendCh, sends + 1)) = Len(sendCh) + 1
      BY <2>1, AppendDomain
    <3>2. /\ sendCh' = IF Len(sendCh) < SendBuffer THEN Append(sendCh, sends + 1) ELSE sendCh
          /\ sendCh \in Seq(1..MaxMessages) /\ Len(sendCh) <= SendBuffer /\ SendBuffer \in Nat
      BY <1>8 DEF Send
    <3>3. CASE Len(sendCh) < SendBuffer
      <4>1. sendCh' = Append(sendCh, sends + 1)
        BY <3>2, <3>3
      <4>2. Len(sendCh') = Len(sendCh) + 1
        BY <3>1, <4>1
      <4>3. QED BY <3>1, <3>2, <3>3, <4>1, <4>2
    <3>4. CASE ~(Len(sendCh) < SendBuffer)
      BY <3>2, <3>4
    <3>5. QED BY <3>3, <3>4
  <2>3. QED BY <1>8, <2>1, <2>2 DEF Send, readers, inbound
<1>9. CASE TakeCommand
  <2>1. /\ Head(recvCh) \in Conns \X (1..MaxCommands)
        /\ recvCh' \in Seq(Conns \X (1..MaxCommands)) /\ Len(recvCh') <= RecvBuffer
    <3>1. /\ Len(recvCh) \in Nat \ {0} /\ Head(recvCh) \in Conns \X (1..MaxCommands)
          /\ Tail(recvCh) \in Seq(Conns \X (1..MaxCommands)) /\ Len(Tail(recvCh)) = Len(recvCh) - 1
      BY <1>9, TailDomain DEF TakeCommand
    <3>2. recvCh' = Tail(recvCh) /\ Len(recvCh) <= RecvBuffer /\ RecvBuffer \in Nat
      BY <1>9 DEF TakeCommand
    <3> HIDE DEF TypeOK
    <3>3. QED BY <3>1, <3>2
  <2>2. taken' \in Seq(Conns \X (1..MaxCommands))
    BY <1>9, <2>1, AppendProperties DEF TakeCommand
  <2>3. QED BY <1>9, <2>1, <2>2 DEF TakeCommand, readers, outbound
<1>10. CASE Shutdown \/ StopHub \/ Exit
  BY <1>10 DEF Shutdown, StopHub, Exit, readers, inbound, outbound
<1>11. ASSUME NEW c \in Conns, PeerWrites(c) PROVE TypeOK'
  <2>1. commands + 1 \in 1..MaxCommands
    BY <1>11 DEF PeerWrites
  <2>2. inbox' \in [Conns -> Seq(1..MaxCommands)]
    BY <1>11, <2>1, AppendProperties DEF PeerWrites
  <2>3. commands' \in 0..MaxCommands
    BY <1>11, <2>1 DEF PeerWrites
  <2>4. UNCHANGED <<main, stop, run, conn, dials, socket, reader, readOf, held, recvCh, taken, sendCh, sends, wire>>
    BY <1>11 DEF PeerWrites, readers, outbound
  <2>5. QED BY <2>2, <2>3, <2>4
<1>12. ASSUME NEW c \in Conns, LinkLost(c) PROVE TypeOK'
  BY <1>12 DEF LinkLost, readers, inbound, outbound
<1>13. CASE UNCHANGED vars
  BY <1>13 DEF vars, readers, inbound, outbound
<1>14. QED
  BY <1>1, <1>2, <1>3, <1>4, <1>5, <1>6, <1>7, <1>8, <1>9, <1>10, <1>11, <1>12, <1>13 DEF Next, Step, Pump

\* The loop of Hub.Run and the readPumps keep to their connections.
LEMMA ControlStep ==
  ASSUME TypeOK, RunOK, ReadersOK, InboxOK, [Next]_vars
  PROVE  RunOK' /\ ReadersOK'
<1>0. /\ dials \in Nat /\ commands \in Nat /\ Conns = 1..MaxDials /\ MaxDials \in Nat
      /\ reader \in [Conns -> {"none", "starting", "reading", "holding", "exited"}]
      /\ readOf \in [Conns -> Conns \cup {NoConn}] /\ held \in [Conns -> 0..MaxCommands]
      /\ conn \in Conns \cup {NoConn}
      /\ \A c \in Conns : c # NoConn
  <2>1. Conns = 1..MaxDials /\ MaxDials \in Nat /\ \A c \in Conns : c # NoConn
    BY LinkAssumption DEF Conns, NoConn
  <2>2. dials \in Nat /\ commands \in Nat
    BY DEF TypeOK
  <2>3. /\ reader \in [Conns -> {"none", "starting", "reading", "holding", "exited"}]
        /\ readOf \in [Conns -> Conns \cup {NoConn}] /\ held \in [Conns -> 0..MaxCommands]
        /\ conn \in Conns \cup {NoConn}
    BY DEF TypeOK
  <2>4. QED BY <2>1, <2>2, <2>3
<1>1. CASE InitialConnect
  <2>1. /\ dials = 0 /\ dials' = 1 /\ conn' = 1 /\ main' = "running" /\ run' = "top"
        /\ UNCHANGED <<reader, readOf, held, commands>>
    <3>1. main = "connecting" /\ main' = "running" /\ run' = "top" /\ Dialled
      BY <1>1 DEF InitialConnect
    <3>2. dials = 0
      BY <3>1 DEF RunOK
    <3>3. dials' = 1 /\ conn' = 1
      BY <3>1, <3>2 DEF Dialled
    <3>4. QED BY <1>1, <3>1, <3>2, <3>3 DEF InitialConnect, readers, inbound
  <2>2. \A k \in Conns : k \in Nat /\ k > 0 /\ reader[k] = "none"
    BY <1>0, <1>1, <2>1 DEF InitialConnect, RunOK
  <2>3. 1 \in Conns
    BY <1>0, <1>1, <2>1 DEF InitialConnect, Dialled
  <2>4. RunOK'
    BY <2>1, <2>2, <2>3 DEF RunOK
  <2>5. ReadersOK'
    BY <2>1 DEF ReadersOK
  <2>6. QED BY <2>4, <2>5
<1>2. CASE Redial
  BY <1>0, <1>2 DEF Redial, Dialled, RunOK, ReadersOK, Holding, readers, inbound
<1>3. CASE RedialStopped \/ AfterPumps
  BY <1>0, <1>3 DEF RedialStopped, AfterPumps, RunOK, ReadersOK, readers, inbound
<1>4. CASE SpawnPumps
  <2>1. conn \in Conns /\ conn = dials /\ reader[conn] = "none"
    BY <1>4, Working DEF SpawnPumps, RunOK
  <2>2. reader' = [reader EXCEPT ![conn] = "starting"] /\ UNCHANGED <<main, conn, dials, readOf, held, commands>>
    BY <1>4 DEF SpawnPumps, inbound
  <2>3. RunOK'
    BY <1>0, <1>4, <2>1, <2>2 DEF SpawnPumps, RunOK
  <2>4. ReadersOK'
    BY <1>0, <2>1, <2>2 DEF ReadersOK
  <2>5. QED BY <2>3, <2>4
<1>5. CASE closeConn
  BY <1>0, <1>5 DEF closeConn, RunOK, ReadersOK, readers, inbound
<1>6. CASE Pump
  <2>1. /\ run = "writing" /\ run' \in {"writing", "after"}
        /\ UNCHANGED <<main, conn, dials, reader, readOf, held, commands>>
    BY <1>6 DEF Pump, ReadDone, WriteClose, PingFails, WriteMessage, PumpReturns, Written, Vanished,
                readers, inbound
  <2>2. QED BY <2>1 DEF RunOK, ReadersOK
<1>7. ASSUME NEW k \in Conns, Reader(k) PROVE RunOK' /\ ReadersOK'
  <2>1. /\ UNCHANGED <<main, run, conn, dials, commands>>
        /\ reader[k] \notin {"none", "exited"}
        /\ \E r \in {"reading", "holding", "exited"} : reader' = [reader EXCEPT ![k] = r]
    BY <1>7 DEF Reader, StartReading, ReadCommand, PushCommand, PushStopped, ReadError, ReaderExits, inbound
  <2>2. RunOK'
    BY <1>0, <2>1 DEF RunOK
  <2>3. CASE StartReading(k)
    <3>1. /\ readOf' = [readOf EXCEPT ![k] = conn] /\ held' = held
          /\ reader' = [reader EXCEPT ![k] = IF conn = NoConn THEN "exited" ELSE "reading"]
      BY <2>3 DEF StartReading
    <3>2. CASE conn = NoConn
      <4>1. reader' = [reader EXCEPT ![k] = "exited"] /\ commands' = commands
        BY <2>1, <3>1, <3>2
      <4>2. QED BY <1>0, <2>2, <3>1, <4>1 DEF ReadersOK
    <3>3. CASE conn \in Conns
      <4>1. reader' = [reader EXCEPT ![k] = "reading"] /\ commands' = commands
        BY <1>0, <2>1, <3>1, <3>3
      <4>2. QED BY <1>0, <2>2, <3>1, <3>3, <4>1 DEF ReadersOK
    <3>4. QED BY <1>0, <2>2, <3>2, <3>3
  <2>4. CASE ReadCommand(k)
    <3>1. readOf[k] \in Conns /\ inbox[readOf[k]] \in Seq(1..MaxCommands) /\ inbox[readOf[k]] # <<>>
      BY <2>4 DEF ReadCommand, ReadersOK, TypeOK
    <3>2. /\ Head(inbox[readOf[k]]) \in 1..MaxCommands
          /\ Head(inbox[readOf[k]]) = inbox[readOf[k]][1] /\ 1 \in DOMAIN inbox[readOf[k]]
      BY <3>1, TailDomain
    <3>3. Head(inbox[readOf[k]]) \in 1..commands
      BY <1>0, <3>1, <3>2 DEF InboxOK
    <3>4. /\ held' = [held EXCEPT ![k] = Head(inbox[readOf[k]])]
          /\ reader' = [reader EXCEPT ![k] = "holding"] /\ readOf' = readOf /\ commands' = commands
          /\ reader[k] = "reading"
      BY <2>4 DEF ReadCommand
    <3>5. QED BY <1>0, <2>2, <3>1, <3>3, <3>4 DEF ReadersOK
  <2>5. CASE PushCommand(k)
    BY <1>0, <2>2, <2>5 DEF PushCommand, ReadersOK
  <2>6. CASE PushStopped(k) \/ ReadError(k)
    BY <1>0, <2>2, <2>6 DEF PushStopped, ReadError, ReaderExits, ReadersOK, inbound
  <2>7. QED BY <1>7, <2>3, <2>4, <2>5, <2>6, <2>2 DEF Reader
<1>8. CASE Send \/ TakeCommand
  BY <1>8 DEF Send, TakeCommand, RunOK, ReadersOK, readers, inbound
<1>9. CASE Shutdown \/ StopHub \/ Exit
  BY <1>9 DEF Shutdown, StopHub, Exit, RunOK, ReadersOK, readers, inbound
<1>10. ASSUME NEW c \in Conns, PeerWrites(c) PROVE RunOK' /\ ReadersOK'
  BY <1>0, <1>10 DEF PeerWrites, RunOK, ReadersOK, readers
<1>11. ASSUME NEW c \in Conns, LinkLost(c) PROVE RunOK' /\ ReadersOK'
  BY <1>11 DEF LinkLost, RunOK, ReadersOK, readers, inbound
<1>12. CASE UNCHANGED vars
  BY <1>12 DEF vars, RunOK, ReadersOK, readers, inbound
<1>13. QED
  BY <1>1, <1>2, <1>3, <1>4, <1>5, <1>6, <1>7, <1>8, <1>9, <1>10, <1>11, <1>12 DEF Next, Step

-----------------------------------------------------------------------------
(* What leaves.                                                             *)

OutboundOK == SentOK /\ OutboundOrder

\* The steps that touch what is sent, as the channel and the wire see them.
LEMMA OutboundEffect ==
  ASSUME TypeOK, RunOK, [Next]_vars
  PROVE  \/ UNCHANGED <<outbound, dials>>
         \/ UNCHANGED outbound /\ dials' = dials + 1
         \/ InitialConnect
         \/ Send
         \/ WriteMessage
<1>1. CASE Pump
  BY <1>1 DEF Pump, ReadDone, WriteClose, PingFails, PumpReturns
<1>2. ASSUME NEW k \in Conns, Reader(k) PROVE UNCHANGED <<outbound, dials>>
  BY <1>2 DEF Reader, StartReading, ReadCommand, PushCommand, PushStopped, ReadError, ReaderExits
<1>3. QED
  BY <1>1, <1>2 DEF Next, Step, Redial, Dialled, RedialStopped, SpawnPumps, closeConn, AfterPumps,
     TakeCommand, Shutdown, StopHub, Exit, PeerWrites, LinkLost, vars

LEMMA OutboundStep ==
  ASSUME TypeOK, TypeOK', RunOK, OutboundOK, [Next]_vars
  PROVE  OutboundOK'
<1>1. /\ dials \in Nat /\ sends \in Nat /\ \A c \in Conns : c \in Nat
      /\ sendCh \in Seq(1..MaxMessages) /\ \A c \in Conns : wire[c] \in Seq(1..MaxMessages)
  <2>1. dials \in Nat /\ sends \in Nat /\ \A c \in Conns : c \in Nat
    BY LinkAssumption DEF TypeOK, Conns
  <2>2. sendCh \in Seq(1..MaxMessages) /\ \A c \in Conns : wire[c] \in Seq(1..MaxMessages)
    BY DEF TypeOK
  <2>3. QED BY <2>1, <2>2
<1>2. \A n \in 1..MaxMessages : n \in Nat
  OBVIOUS
<1>3. DOMAIN <<>> = {}
  OBVIOUS
<1>4. \A c \in Conns : \A i \in DOMAIN wire[c] : wire[c][i] \in Nat
  BY <1>1, <1>2, Elements, Zenon
<1>5. \A i \in DOMAIN sendCh : sendCh[i] \in Nat
  BY <1>1, <1>2, Elements, Zenon
<1>6. CASE UNCHANGED <<outbound, dials>>
  BY <1>6 DEF outbound, OutboundOK, SentOK, OutboundOrder
<1>7. CASE UNCHANGED outbound /\ dials' = dials + 1
  BY <1>1, <1>7 DEF outbound, OutboundOK, SentOK, OutboundOrder
<1>8. CASE InitialConnect
  <2>1. \A c \in Conns : wire'[c] = <<>>
    BY <1>1, <1>8, LinkAssumption DEF InitialConnect, RunOK, OutboundOK, SentOK, Conns
  <2>2. DOMAIN sendCh' = {1} /\ sendCh'[1] = 1 /\ sends' = 1
    BY <1>8 DEF InitialConnect, Registration
  <2>3. QED BY <1>1, <1>3, <2>1, <2>2 DEF OutboundOK, SentOK, OutboundOrder
<1>9. CASE Send
  <2>1. wire' = wire /\ dials' = dials /\ sends' = sends + 1 /\ sends + 1 \in 1..MaxMessages
    BY <1>1, <1>9 DEF Send, TypeOK
  <2>2. CASE sendCh' = sendCh
    BY <1>1, <1>4, <1>5, <2>1, <2>2 DEF OutboundOK, SentOK, OutboundOrder
  <2>3. CASE sendCh' = Append(sendCh, sends + 1)
    <3>1. /\ DOMAIN sendCh = 1..Len(sendCh) /\ Len(sendCh) \in Nat
          /\ \A i \in DOMAIN sendCh : sendCh'[i] = sendCh[i]
          /\ sendCh'[Len(sendCh) + 1] = sends + 1
          /\ \A i \in DOMAIN sendCh' : i \in DOMAIN sendCh \/ i = Len(sendCh) + 1
          /\ \A i \in DOMAIN sendCh : i < Len(sendCh) + 1
      <4>1. sendCh' = Append(sendCh, sends + 1) /\ sends + 1 \in 1..MaxMessages /\ sendCh \in Seq(1..MaxMessages)
        BY <1>1, <2>1, <2>3
      <4>2. QED BY <4>1, AppendDomain
    <3>3. SentOK'
      BY <1>1, <1>4, <1>5, <2>1, <3>1 DEF OutboundOK, SentOK
    <3>4. \A c \in Conns : \A i \in DOMAIN wire'[c], j \in DOMAIN sendCh' : wire'[c][i] < sendCh'[j]
      BY <1>1, <1>4, <1>5, <2>1, <3>1 DEF OutboundOK, SentOK, OutboundOrder
    <3>5. \A i, j \in DOMAIN sendCh' : i < j => sendCh'[i] < sendCh'[j]
      <4>1. SUFFICES ASSUME NEW i \in DOMAIN sendCh', NEW j \in DOMAIN sendCh', i < j
                     PROVE  sendCh'[i] < sendCh'[j]
        OBVIOUS
      <4>2. i \in DOMAIN sendCh
        BY <3>1, <4>1
      <4>3. QED BY <1>1, <1>5, <3>1, <4>1, <4>2 DEF OutboundOK, SentOK, OutboundOrder
    <3>6. QED BY <2>1, <3>3, <3>4, <3>5 DEF OutboundOK, OutboundOrder
  <2>4. QED BY <1>9, <2>2, <2>3 DEF Send
<1>10. CASE WriteMessage
  <2>1. /\ sendCh' = Tail(sendCh) /\ sendCh # <<>> /\ sends' = sends /\ dials' = dials
        /\ conn \in Conns /\ conn = dials
    BY <1>10, Working DEF WriteMessage, Written, Vanished, PumpReturns
  <2>2. /\ Head(sendCh) = sendCh[1] /\ 1 \in DOMAIN sendCh
        /\ \A i \in DOMAIN sendCh' :
             i \in Nat /\ i + 1 \in DOMAIN sendCh /\ 1 < i + 1 /\ sendCh'[i] = sendCh[i + 1]
    BY <1>1, <2>1, TailDomain
  <2>3. /\ \A i \in DOMAIN sendCh' : sendCh'[i] <= sends /\ Head(sendCh) < sendCh'[i]
        /\ \A i, j \in DOMAIN sendCh' : i < j => sendCh'[i] < sendCh'[j]
    BY <2>2 DEF OutboundOK, SentOK, OutboundOrder
  <2>4. CASE wire' = wire
    BY <2>1, <2>2, <2>3, <2>4 DEF OutboundOK, SentOK, OutboundOrder
  <2>5. CASE wire' = [wire EXCEPT ![conn] = Append(@, Head(sendCh))]
    <3>1. /\ \A c \in Conns : c # conn => wire'[c] = wire[c]
          /\ wire'[conn] = Append(wire[conn], Head(sendCh))
      BY <2>1, <2>5 DEF TypeOK
    <3>2. Head(sendCh) \in 1..MaxMessages
      BY <1>1, <2>1, TailDomain
    <3>3. PICK n \in Nat :
          /\ DOMAIN wire[conn] = 1..n
          /\ \A i \in DOMAIN wire[conn] : wire'[conn][i] = wire[conn][i]
          /\ wire'[conn][n + 1] = Head(sendCh)
          /\ \A i \in DOMAIN wire'[conn] : i \in DOMAIN wire[conn] \/ i = n + 1
          /\ \A i \in DOMAIN wire[conn] : i < n + 1
      <4>1. wire[conn] \in Seq(1..MaxMessages)
        BY <1>1, <2>1
      <4>2. QED BY <3>1, <3>2, <4>1, AppendDomain
    <3>4. \A c \in Conns : c > conn => wire[c] = <<>> /\ wire'[c] = <<>>
      BY <1>1, <2>1, <3>1 DEF OutboundOK, SentOK
    <3>6. \A c \in Conns : \A i \in DOMAIN wire'[c] :
            IF c = conn /\ i = n + 1 THEN wire'[c][i] = Head(sendCh)
                                     ELSE /\ i \in DOMAIN wire[c] /\ wire'[c][i] = wire[c][i]
                                          /\ wire[c][i] < Head(sendCh)
      BY <2>1, <2>2, <3>1, <3>3 DEF OutboundOK, OutboundOrder
    <3>5. SentOK'
      <4>1. Head(sendCh) <= sends /\ sends' = sends
        BY <2>1, <2>2 DEF OutboundOK, SentOK
      <4>2. \A c \in Conns : \A i \in DOMAIN wire'[c] : wire'[c][i] <= sends
        BY <3>6, <4>1 DEF OutboundOK, SentOK
      <4>3. \A i \in DOMAIN sendCh' : sendCh'[i] <= sends
        BY <2>3
      <4>4. \A c \in Conns : c > dials => wire'[c] = <<>>
        BY <2>1, <3>4
      <4>5. QED BY <2>1, <4>1, <4>2, <4>3, <4>4 DEF SentOK
    <3>7. \A c \in Conns : \A i \in DOMAIN wire'[c], j \in DOMAIN sendCh' : wire'[c][i] < sendCh'[j]
      BY <2>1, <2>2, <2>3, <3>2, <3>6 DEF OutboundOK, OutboundOrder
    <3>8. \A c, d \in Conns : \A i \in DOMAIN wire'[c], j \in DOMAIN wire'[d] :
            c < d \/ (c = d /\ i < j) => wire'[c][i] < wire'[d][j]
      <4>1. SUFFICES ASSUME NEW c \in Conns, NEW d \in Conns,
                            NEW i \in DOMAIN wire'[c], NEW j \in DOMAIN wire'[d],
                            c < d \/ (c = d /\ i < j)
                     PROVE  wire'[c][i] < wire'[d][j]
        OBVIOUS
      <4>2. ~(c = conn /\ i = n + 1)
        <5>1. CASE c < d
          <6>1. c = conn => wire'[d] = <<>>
            BY <3>4, <5>1
          <6>2. QED BY <4>1, <6>1
        <5>2. CASE c = d /\ i < j
          <6>1. c = conn /\ i = n + 1 => j \in DOMAIN wire[conn] \/ j = n + 1
            BY <3>3, <5>2
          <6>2. c = conn /\ i = n + 1 => i \in Nat /\ j \in Nat /\ j <= n + 1
            BY <3>3, <6>1
          <6>3. QED BY <3>3, <5>2, <6>2
        <5>3. QED BY <4>1, <5>1, <5>2
      <4>3. i \in DOMAIN wire[c] /\ wire'[c][i] = wire[c][i] /\ wire[c][i] < Head(sendCh)
        BY <3>6, <4>2
      <4>4. CASE d = conn /\ j = n + 1
        BY <3>6, <4>3, <4>4
      <4>5. CASE ~(d = conn /\ j = n + 1)
        <5>1. j \in DOMAIN wire[d] /\ wire'[d][j] = wire[d][j]
          BY <3>6, <4>5
        <5>2. QED BY <4>1, <4>3, <5>1 DEF OutboundOK, OutboundOrder
      <4>6. QED BY <4>4, <4>5
    <3>9. QED BY <2>3, <3>5, <3>7, <3>8 DEF OutboundOK, OutboundOrder
  <2>6. QED BY <1>10, <2>4, <2>5 DEF WriteMessage, Written, Vanished
<1>11. QED BY <1>6, <1>7, <1>8, <1>9, <1>10, OutboundEffect

-----------------------------------------------------------------------------
(* What arrives.                                                            *)

InboundOK == InboxOK /\ ArrivedOK /\ SoleReaderOrder /\ InboundOnce

Command == Conns \X (1..MaxCommands)

\* The values the inbound state holds.
LEMMA InboundTypes ==
  ASSUME TypeOK
  PROVE  /\ Arrived \in Seq(Command)
         /\ \A i \in DOMAIN Arrived : Arrived[i][1] \in Conns /\ Arrived[i][2] \in Nat
         /\ \A c \in Conns : inbox[c] \in Seq(1..MaxCommands) /\ \A i \in DOMAIN inbox[c] : inbox[c][i] \in Nat
         /\ \A k \in Conns : held[k] \in Nat
         /\ commands \in Nat
         /\ readOf \in [Conns -> Conns \cup {NoConn}] /\ NoConn \notin Conns
<1>1. taken \in Seq(Command) /\ recvCh \in Seq(Command)
  BY DEF TypeOK, Command
<1>2. Arrived \in Seq(Command)
  BY <1>1, ConcatProperties DEF Arrived
<1>3. \A i \in DOMAIN Arrived : Arrived[i] \in Command
  BY <1>2, Elements, Zenon
<1>4. \A e \in Command : e[1] \in Conns /\ e[2] \in Nat
  BY DEF Command
<1>5. \A c \in Conns : inbox[c] \in Seq(1..MaxCommands)
  BY DEF TypeOK
<1>6. \A n \in 1..MaxCommands : n \in Nat
  OBVIOUS
<1>7. \A c \in Conns : \A i \in DOMAIN inbox[c] : inbox[c][i] \in Nat
  BY <1>5, <1>6, Elements, Zenon
<1>8. (\A k \in Conns : held[k] \in Nat) /\ commands \in Nat
  BY LinkAssumption DEF TypeOK
<1>9. readOf \in [Conns -> Conns \cup {NoConn}] /\ NoConn \notin Conns
  BY DEF TypeOK, Conns, NoConn
<1>10. QED BY <1>2, <1>3, <1>4, <1>5, <1>7, <1>8, <1>9

\* The dispatcher moves a command from one end of what has arrived to the
\* other; only a readPump adds one.
LEMMA TakeKeepsArrived ==
  ASSUME TypeOK, TakeCommand
  PROVE  Arrived' = Arrived
<1>1. /\ taken \in Seq(Command) /\ recvCh \in Seq(Command) /\ recvCh # <<>>
      /\ taken' = Append(taken, Head(recvCh)) /\ recvCh' = Tail(recvCh)
  BY DEF TypeOK, TakeCommand, Command
<1>2. /\ Head(recvCh) \in Command /\ Head(recvCh) = recvCh[1]
      /\ Len(recvCh) \in Nat \ {0} /\ recvCh' \in Seq(Command) /\ Len(recvCh') = Len(recvCh) - 1
      /\ \A i \in 1..Len(recvCh') : recvCh'[i] = recvCh[i + 1]
  BY <1>1, HeadTailProperties, EmptySeq
<1>3. /\ taken' \in Seq(Command) /\ Len(taken) \in Nat /\ Len(taken') = Len(taken) + 1
      /\ \A i \in 1..Len(taken) : taken'[i] = taken[i]
      /\ taken'[Len(taken) + 1] = recvCh[1]
  BY <1>1, <1>2, AppendProperties, LenProperties
<1>4. /\ Arrived \in Seq(Command) /\ Len(Arrived) = Len(taken) + Len(recvCh)
      /\ \A i \in 1..(Len(taken) + Len(recvCh)) :
           Arrived[i] = IF i <= Len(taken) THEN taken[i] ELSE recvCh[i - Len(taken)]
  BY <1>1, ConcatProperties DEF Arrived
<1>5. /\ Arrived' \in Seq(Command) /\ Len(Arrived') = Len(taken') + Len(recvCh')
      /\ \A i \in 1..(Len(taken') + Len(recvCh')) :
           Arrived'[i] = IF i <= Len(taken') THEN taken'[i] ELSE recvCh'[i - Len(taken')]
  BY <1>2, <1>3, ConcatProperties DEF Arrived
<1>6. Len(Arrived') = Len(Arrived)
  BY <1>2, <1>3, <1>4, <1>5
<1>7. \A i \in 1..Len(Arrived') : Arrived'[i] = Arrived[i]
  <2>1. SUFFICES ASSUME NEW i \in 1..Len(Arrived') PROVE Arrived'[i] = Arrived[i]
    OBVIOUS
  <2>2. CASE i <= Len(taken)
    <3>1. Arrived'[i] = taken'[i]
      <4>1. i <= Len(taken') /\ i \in 1..(Len(taken') + Len(recvCh'))
        BY <1>3, <1>5, <2>2
      <4>2. QED BY <1>5, <4>1
    <3>2. Arrived[i] = taken[i]
      <4>1. i \in 1..(Len(taken) + Len(recvCh))
        BY <1>4, <1>6
      <4>2. QED BY <1>4, <2>2, <4>1
    <3>3. i \in 1..Len(taken)
      BY <1>3, <2>2, <1>2, <1>5
    <3>4. QED BY <1>3, <3>1, <3>2, <3>3
  <2>3. CASE i = Len(taken) + 1
    <3>1. Arrived'[i] = recvCh[1]
      BY <1>2, <1>3, <1>5, <2>3
    <3>2. Arrived[i] = recvCh[1]
      BY <1>2, <1>3, <1>4, <2>3
    <3>3. QED BY <3>1, <3>2
  <2>4. CASE i > Len(taken) + 1
    <3>1. i - Len(taken') \in 1..Len(recvCh') /\ i - Len(taken') + 1 = i - Len(taken)
      BY <1>2, <1>3, <1>5, <2>4
    <3>2. Arrived'[i] = recvCh'[i - Len(taken')]
      <4>1. ~(i <= Len(taken')) /\ i \in 1..(Len(taken') + Len(recvCh'))
        BY <1>2, <1>3, <1>5, <2>4
      <4>2. QED BY <1>5, <4>1
    <3>3. Arrived[i] = recvCh[i - Len(taken)]
      BY <1>2, <1>3, <1>4, <1>6, <2>4
    <3>4. QED BY <1>2, <3>1, <3>2, <3>3
  <2>5. QED BY <1>3, <1>5, <2>2, <2>3, <2>4, <1>2
<1>8. QED BY <1>4, <1>5, <1>6, <1>7, SeqEqual

LEMMA PushArrives ==
  ASSUME TypeOK, ReadersOK, NEW k \in Conns, PushCommand(k)
  PROVE  /\ <<readOf[k], held[k]>> \in Command
         /\ Arrived' = Append(Arrived, <<readOf[k], held[k]>>)
<1>1. /\ taken \in Seq(Command) /\ recvCh \in Seq(Command)
      /\ taken' = taken /\ recvCh' = Append(recvCh, <<readOf[k], held[k]>>)
  BY DEF TypeOK, PushCommand, Command
<1>2. <<readOf[k], held[k]>> \in Command
  <2>1. readOf[k] \in Conns /\ held[k] \in 1..MaxCommands
    BY LinkAssumption DEF PushCommand, ReadersOK, TypeOK
  <2>2. QED BY <2>1 DEF Command
<1>3. PICK e \in Command : e = <<readOf[k], held[k]>>
  BY <1>2
<1>4. <<e>> \in Seq(Command)
  OBVIOUS
<1>5. recvCh' = recvCh \o <<e>> /\ Arrived \in Seq(Command)
  BY <1>1, <1>3, AppendIsConcat, ConcatProperties DEF Arrived
<1>6. Arrived' = Arrived \o <<e>>
  <2>1. Arrived' = taken \o (recvCh \o <<e>>)
    BY <1>1, <1>5 DEF Arrived
  <2>2. taken \o (recvCh \o <<e>>) = (taken \o recvCh) \o <<e>>
    BY <1>1, <1>4, ConcatAssociative
  <2>3. QED BY <2>1, <2>2 DEF Arrived
<1>7. QED BY <1>2, <1>3, <1>5, <1>6, AppendIsConcat

\* A step that moves no command: a readPump that ends forgets the one it holds.
NoneMoves ==
  /\ UNCHANGED <<readOf, held, inbox, Arrived, commands>>
  /\ Holding' \subseteq Holding
  /\ \A k \in Conns : reader[k] = "exited" \/ k \in Holding \ Holding' => reader'[k] = "exited"

\* The steps of the agent and the network, as the commands see them.
LEMMA InboundEffect ==
  ASSUME TypeOK, RunOK, Step \/ UNCHANGED vars
  PROVE  NoneMoves \/ \E k \in Conns : StartReading(k) \/ ReadCommand(k) \/ PushCommand(k)
<1>1. ASSUME UNCHANGED <<readers, inbound>>
      PROVE  NoneMoves
  BY <1>1 DEF readers, inbound, Arrived, Holding, NoneMoves
<1>2. CASE InitialConnect \/ Redial \/ RedialStopped \/ closeConn \/ AfterPumps \/ Pump
  BY <1>1, <1>2 DEF InitialConnect, Redial, RedialStopped, closeConn, AfterPumps,
     Pump, ReadDone, WriteClose, PingFails, PumpReturns, WriteMessage, Written, Vanished
<1>3. CASE Send \/ Shutdown \/ StopHub \/ Exit \/ UNCHANGED vars
  BY <1>1, <1>3 DEF Send, Shutdown, StopHub, Exit, vars
<1>4. ASSUME NEW c \in Conns, LinkLost(c)
      PROVE  UNCHANGED <<readers, inbound>>
  BY <1>4 DEF LinkLost
<1>5. ASSUME NEW k \in Conns, NEW r \in {"starting", "exited"}, reader' = [reader EXCEPT ![k] = r],
             r = "starting" => reader[k] = "none",
             UNCHANGED <<readOf, held, inbound>>
      PROVE  NoneMoves
  BY <1>5 DEF inbound, Arrived, Holding, TypeOK, NoneMoves
<1>6. CASE SpawnPumps
  <2>1. reader[conn] = "none"
    BY <1>6, Working DEF SpawnPumps, RunOK
  <2>2. QED BY <1>5, <1>6, <2>1, Working DEF SpawnPumps
<1>7. ASSUME NEW k \in Conns, PushStopped(k) \/ ReadError(k)
      PROVE  NoneMoves
  BY <1>5, <1>7 DEF PushStopped, ReadError, ReaderExits
<1>8. CASE TakeCommand
  BY <1>8, TakeKeepsArrived DEF TakeCommand, readers, Holding, NoneMoves
<1>9. QED
  BY <1>1, <1>2, <1>3, <1>4, <1>6, <1>7, <1>8 DEF Step, Reader

\* A readPump that starts reads a connection no command has come over, or one
\* that is shared from now on.
LEMMA StartReadingKeeps ==
  ASSUME TypeOK, ReadersOK, InboundOK, NEW k \in Conns, StartReading(k)
  PROVE  InboundOK'
<1>1. /\ UNCHANGED <<held, inbox, Arrived, commands>> /\ readOf[k] = NoConn
      /\ \A l \in Conns : l # k => readOf'[l] = readOf[l]
      /\ Holding' = Holding /\ k \notin Holding
  BY DEF StartReading, ReadersOK, TypeOK, Holding, inbound, Arrived
<1>2. \A c \in Conns : Shared(c) => Shared(c)'
  BY <1>1, InboundTypes DEF Shared
<1>3. InboxOK'
  BY <1>1 DEF InboundOK, InboxOK
<1>4. ArrivedOK'
  <2>1. \A d, l \in Conns : readOf[l] = d => readOf'[l] = d
    BY <1>1 DEF Conns, NoConn
  <2>2. \A i \in DOMAIN Arrived : Arrived[i][1] \in Conns
    BY InboundTypes
  <2>3. \A i \in DOMAIN Arrived : \E l \in Conns : readOf'[l] = Arrived[i][1]
    BY <2>1, <2>2 DEF InboundOK, ArrivedOK
  <2>4. QED BY <1>1, <2>3 DEF InboundOK, ArrivedOK
<1>5. SoleReaderOrder'
  <2>1. Holding \subseteq Conns
    BY DEF Holding
  <2>2. QED BY <1>1, <1>2, <2>1 DEF InboundOK, SoleReaderOrder
<1>6. InboundOnce'
  BY <1>1, <1>2, InboundTypes DEF InboundOK, InboundOnce
<1>7. QED BY <1>3, <1>4, <1>5, <1>6 DEF InboundOK

\* The oldest command of a socket is with its reader, and in no socket.
LEMMA ReadCommandKeeps ==
  ASSUME TypeOK, ReadersOK, InboundOK, NEW k \in Conns, ReadCommand(k)
  PROVE  InboundOK'
<1>1. PICK c \in Conns : c = readOf[k]
  BY DEF ReadCommand, ReadersOK
<1>2. /\ inbox[c] \in Seq(1..MaxCommands) /\ inbox[c] # <<>>
      /\ inbox' = [inbox EXCEPT ![c] = Tail(@)]
      /\ held' = [held EXCEPT ![k] = Head(inbox[c])]
      /\ reader[k] = "reading" /\ reader' = [reader EXCEPT ![k] = "holding"]
      /\ UNCHANGED <<readOf, Arrived, commands>>
  BY <1>1 DEF ReadCommand, TypeOK, Arrived
<1>3. PICK h \in Nat : h = Head(inbox[c]) /\ h = inbox[c][1]
  <2>1. Head(inbox[c]) \in 1..MaxCommands /\ Head(inbox[c]) = inbox[c][1]
    BY <1>2, TailDomain
  <2>2. \A n \in 1..MaxCommands : n \in Nat
    OBVIOUS
  <2>3. QED BY <2>1, <2>2
<1>4. inbox'[c] = Tail(inbox[c])
  BY <1>2 DEF TypeOK
<1>5. /\ 1 \in DOMAIN inbox[c]
      /\ \A i \in DOMAIN inbox'[c] :
           i \in Nat /\ i + 1 \in DOMAIN inbox[c] /\ 1 < i + 1 /\ inbox'[c][i] = inbox[c][i + 1]
  <2>1. /\ 1 \in DOMAIN inbox[c]
        /\ \A i \in DOMAIN Tail(inbox[c]) :
             i \in Nat /\ i + 1 \in DOMAIN inbox[c] /\ 1 < i + 1 /\ Tail(inbox[c])[i] = inbox[c][i + 1]
    BY <1>2, TailDomain
  <2>2. QED BY <1>4, <2>1
<1>6. /\ \A d \in Conns : d # c => inbox'[d] = inbox[d]
      /\ held'[k] = h /\ \A l \in Conns : l # k => held'[l] = held[l]
      /\ Holding' = Holding \cup {k} /\ k \notin Holding /\ Holding \subseteq Conns
  BY <1>2, <1>3 DEF TypeOK, Holding
<1>7. \A d \in Conns : \A i \in DOMAIN inbox'[d] :
        \E j \in DOMAIN inbox[d] : /\ inbox'[d][i] = inbox[d][j]
                                   /\ d = c => i \in Nat /\ j = i + 1 /\ 1 < j
                                   /\ d # c => j = i
  <2>1. SUFFICES ASSUME NEW d \in Conns, NEW i \in DOMAIN inbox'[d]
                 PROVE  \E j \in DOMAIN inbox[d] : /\ inbox'[d][i] = inbox[d][j]
                                                   /\ d = c => i \in Nat /\ j = i + 1 /\ 1 < j
                                                   /\ d # c => j = i
    OBVIOUS
  <2>2. CASE d = c
    <3>1. i \in Nat /\ i + 1 \in DOMAIN inbox[d] /\ 1 < i + 1 /\ inbox'[d][i] = inbox[d][i + 1]
      BY <1>5, <2>1, <2>2
    <3>2. QED BY <2>2, <3>1
  <2>3. CASE d # c
    BY <1>6, <2>3
  <2>4. QED BY <2>2, <2>3
<1>8. \A d \in Conns : \A i \in DOMAIN inbox'[d] : inbox'[d][i] # h
  BY <1>3, <1>5, <1>6 DEF InboundOK, InboxOK
<1>9. \A i \in DOMAIN inbox'[c] : h < inbox'[c][i]
  BY <1>3, <1>5, <1>6 DEF InboundOK, InboxOK
<1>10. /\ \A l \in Holding : held[l] # h
      /\ \A i \in DOMAIN Arrived : Arrived[i][2] # h
  BY <1>3, <1>5, <1>6 DEF InboundOK, InboxOK, ArrivedOK
<1>11. InboxOK'
  <2>1. \A d \in Conns : \A i, j \in DOMAIN inbox'[d] : i < j => inbox'[d][i] < inbox'[d][j]
    BY <1>5, <1>6 DEF InboundOK, InboxOK
  <2>2. \A d, e \in Conns : \A i \in DOMAIN inbox'[d], j \in DOMAIN inbox'[e] :
          d # e => inbox'[d][i] # inbox'[e][j]
    BY <1>7 DEF InboundOK, InboxOK
  <2>3. \A d \in Conns, l \in Holding' : \A i \in DOMAIN inbox'[d] : inbox'[d][i] # held'[l]
    BY <1>6, <1>7, <1>8 DEF InboundOK, InboxOK
  <2>4. \A d \in Conns : \A i \in DOMAIN inbox'[d] : inbox'[d][i] <= commands'
    BY <1>2, <1>7 DEF InboundOK, InboxOK
  <2>5. QED BY <2>1, <2>2, <2>3, <2>4 DEF InboxOK
<1>12. ArrivedOK'
  BY <1>2, <1>7 DEF InboundOK, ArrivedOK
<1>13. SoleReaderOrder'
  <2>1. SUFFICES ASSUME NEW d \in Conns, ~Shared(d)'
                 PROVE  /\ \A i \in DOMAIN Arrived' : Arrived'[i][1] = d =>
                             \A j \in DOMAIN inbox'[d] : Arrived'[i][2] < inbox'[d][j]
                        /\ \A l \in Holding' : readOf'[l] = d =>
                             /\ \A j \in DOMAIN inbox'[d] : held'[l] < inbox'[d][j]
                             /\ \A i \in DOMAIN Arrived' : Arrived'[i][1] = d => Arrived'[i][2] < held'[l]
    BY DEF SoleReaderOrder
  <2>2. ~Shared(d)
    BY <1>2, <2>1 DEF Shared
  <2>3. \A i \in DOMAIN Arrived' : Arrived'[i][1] = d =>
          \A j \in DOMAIN inbox'[d] : Arrived'[i][2] < inbox'[d][j]
    BY <1>2, <1>7, <2>2 DEF InboundOK, SoleReaderOrder
  <2>4. ASSUME NEW l \in Holding', readOf'[l] = d, l # k
        PROVE  /\ \A j \in DOMAIN inbox'[d] : held'[l] < inbox'[d][j]
               /\ \A i \in DOMAIN Arrived' : Arrived'[i][1] = d => Arrived'[i][2] < held'[l]
    BY <1>2, <1>6, <1>7, <2>2, <2>4 DEF InboundOK, SoleReaderOrder
  <2>5. ASSUME readOf'[k] = d
        PROVE  /\ \A j \in DOMAIN inbox'[d] : held'[k] < inbox'[d][j]
               /\ \A i \in DOMAIN Arrived' : Arrived'[i][1] = d => Arrived'[i][2] < held'[k]
    <3>1. d = c /\ held'[k] = h
      BY <1>1, <1>2, <1>6, <2>5
    <3>2. QED BY <1>2, <1>3, <1>5, <1>9, <2>2, <3>1 DEF InboundOK, SoleReaderOrder
  <2>6. QED BY <2>3, <2>4, <2>5
<1>14. InboundOnce'
  <2>1. \A i, j \in DOMAIN Arrived' : i < j =>
          /\ Arrived'[i][2] # Arrived'[j][2]
          /\ Arrived'[i][1] = Arrived'[j][1] /\ ~Shared(Arrived[i][1])' => Arrived'[i][2] < Arrived'[j][2]
    BY <1>2 DEF InboundOK, InboundOnce, Shared
  <2>2. \A l \in Holding' : \A i \in DOMAIN Arrived' : Arrived'[i][2] # held'[l]
    BY <1>2, <1>6, <1>10 DEF InboundOK, InboundOnce
  <2>3. \A l, m \in Holding' : l # m => held'[l] # held'[m]
    BY <1>6, <1>10 DEF InboundOK, InboundOnce
  <2>4. QED BY <2>1, <2>2, <2>3 DEF InboundOnce
<1>15. QED BY <1>11, <1>12, <1>13, <1>14 DEF InboundOK

\* The command a reader holds arrives, and is held no more.
LEMMA PushCommandKeeps ==
  ASSUME TypeOK, ReadersOK, InboundOK, NEW k \in Conns, PushCommand(k)
  PROVE  InboundOK'
<1>1. /\ k \in Holding /\ Holding' \subseteq Holding /\ k \notin Holding' /\ Holding \subseteq Conns
      /\ UNCHANGED <<readOf, held, inbox, commands>>
  BY DEF PushCommand, Holding, TypeOK
<1>2. \A c \in Conns : Shared(c)' <=> Shared(c)
  BY <1>1 DEF Shared
<1>3. PICK c \in Conns : c = readOf[k]
  BY DEF PushCommand, ReadersOK
<1>4. PICK h \in Nat : h = held[k] /\ h <= commands
  BY DEF PushCommand, ReadersOK, TypeOK
<1>5. PICK n \in Nat :
        /\ DOMAIN Arrived = 1..n
        /\ \A i \in DOMAIN Arrived : i \in DOMAIN Arrived' /\ Arrived'[i] = Arrived[i] /\ i < n + 1
        /\ Arrived'[n + 1] = <<c, h>>
        /\ \A i \in DOMAIN Arrived' : i \in DOMAIN Arrived \/ i = n + 1
  <2>1. /\ Arrived \in Seq(Command) /\ <<c, h>> \in Command
        /\ Arrived' = Append(Arrived, <<c, h>>)
    BY <1>3, <1>4, PushArrives, InboundTypes
  <2>2. PICK e \in Command : e = <<c, h>>
    BY <2>1
  <2>3. Arrived' = Append(Arrived, e) /\ Arrived \in Seq(Command) /\ e \in Command
    BY <2>1, <2>2
  <2>4. /\ DOMAIN Arrived = 1..Len(Arrived) /\ Len(Arrived) \in Nat
        /\ \A i \in DOMAIN Arrived : i \in DOMAIN Arrived' /\ Arrived'[i] = Arrived[i]
        /\ Arrived'[Len(Arrived) + 1] = e
        /\ \A i \in DOMAIN Arrived' : i \in DOMAIN Arrived \/ i = Len(Arrived) + 1
        /\ \A i \in DOMAIN Arrived : i < Len(Arrived) + 1
    BY <2>3, AppendDomain
  <2>5. QED BY <2>2, <2>4
<1>6. Arrived'[n + 1][1] = c /\ Arrived'[n + 1][2] = h
  BY <1>5
<1>7. InboxOK'
  BY <1>1 DEF InboundOK, InboxOK
<1>8. \A i \in DOMAIN Arrived : Arrived[i][2] # h
  BY <1>1, <1>4 DEF InboundOK, InboundOnce
<1>9. ArrivedOK'
  <2>1. \A d \in Conns : \A j \in DOMAIN inbox[d] : h # inbox[d][j]
    BY <1>1, <1>4 DEF InboundOK, InboxOK
  <2>2. QED BY <1>1, <1>3, <1>4, <1>5, <1>6, <2>1 DEF InboundOK, ArrivedOK
<1>10. SoleReaderOrder'
  <2>1. SUFFICES ASSUME NEW d \in Conns, ~Shared(d)
                 PROVE  /\ \A i \in DOMAIN Arrived' : Arrived'[i][1] = d =>
                             \A j \in DOMAIN inbox[d] : Arrived'[i][2] < inbox[d][j]
                        /\ \A l \in Holding' : readOf[l] = d =>
                             /\ \A j \in DOMAIN inbox[d] : held[l] < inbox[d][j]
                             /\ \A i \in DOMAIN Arrived' : Arrived'[i][1] = d => Arrived'[i][2] < held[l]
    BY <1>1, <1>2 DEF SoleReaderOrder
  <2>2. \A i \in DOMAIN Arrived' : Arrived'[i][1] = d =>
          \A j \in DOMAIN inbox[d] : Arrived'[i][2] < inbox[d][j]
    BY <1>1, <1>3, <1>4, <1>5, <1>6, <2>1 DEF InboundOK, SoleReaderOrder
  <2>3. ASSUME NEW l \in Holding', readOf[l] = d
        PROVE  \A i \in DOMAIN Arrived' : Arrived'[i][1] = d => Arrived'[i][2] < held[l]
    <3>1. c # d
      BY <1>1, <1>3, <2>1, <2>3 DEF Shared
    <3>2. QED BY <1>1, <1>5, <1>6, <2>1, <2>3, <3>1 DEF InboundOK, SoleReaderOrder
  <2>4. QED BY <1>1, <2>1, <2>2, <2>3 DEF InboundOK, SoleReaderOrder
<1>11. InboundOnce'
  <2>1. SUFFICES ASSUME NEW i \in DOMAIN Arrived', NEW j \in DOMAIN Arrived', i < j
                 PROVE  /\ Arrived'[i][2] # Arrived'[j][2]
                        /\ Arrived'[i][1] = Arrived'[j][1] /\ ~Shared(Arrived[i][1])'
                             => Arrived'[i][2] < Arrived'[j][2]
    <3>1. \A l \in Holding' : \A m \in DOMAIN Arrived' : Arrived'[m][2] # held'[l]
      BY <1>1, <1>4, <1>5, <1>6 DEF InboundOK, InboundOnce
    <3>2. \A l, m \in Holding' : l # m => held'[l] # held'[m]
      BY <1>1 DEF InboundOK, InboundOnce
    <3>3. QED BY <3>1, <3>2, <2>1 DEF InboundOnce
  <2>2. i \in DOMAIN Arrived /\ Arrived'[i] = Arrived[i] /\ Arrived[i][1] \in Conns
    BY <1>5, <2>1, InboundTypes
  <2>3. Shared(Arrived[i][1])' <=> Shared(Arrived[i][1])
    BY <1>1, <2>2 DEF Shared
  <2>4. CASE j \in DOMAIN Arrived
    BY <1>5, <2>1, <2>2, <2>3, <2>4 DEF InboundOK, InboundOnce
  <2>5. CASE j = n + 1
    BY <1>1, <1>3, <1>4, <1>6, <1>8, <2>2, <2>3, <2>5 DEF InboundOK, SoleReaderOrder
  <2>6. QED BY <1>5, <2>4, <2>5
<1>12. QED BY <1>7, <1>9, <1>10, <1>11 DEF InboundOK

\* A command that is written is newer than every other.
LEMMA PeerWritesKeeps ==
  ASSUME TypeOK, ReadersOK, InboundOK, NEW c \in Conns, PeerWrites(c)
  PROVE  InboundOK'
<1>1. /\ UNCHANGED <<readOf, held, Arrived>> /\ Holding' = Holding /\ Holding \subseteq Conns
      /\ commands' = commands + 1 /\ commands \in Nat /\ commands + 1 \in 1..MaxCommands
      /\ inbox[c] \in Seq(1..MaxCommands)
      /\ inbox'[c] = Append(inbox[c], commands + 1)
      /\ \A d \in Conns : d # c => inbox'[d] = inbox[d]
  BY LinkAssumption DEF PeerWrites, readers, Arrived, Holding, TypeOK
<1>2. PICK n \in Nat :
        /\ DOMAIN inbox[c] = 1..n
        /\ \A i \in DOMAIN inbox[c] : inbox'[c][i] = inbox[c][i] /\ i < n + 1
        /\ inbox'[c][n + 1] = commands + 1
        /\ \A i \in DOMAIN inbox'[c] : i \in DOMAIN inbox[c] \/ i = n + 1
  BY <1>1, AppendDomain
<1>3. \A d \in Conns : \A i \in DOMAIN inbox'[d] :
        \/ i \in DOMAIN inbox[d] /\ inbox'[d][i] = inbox[d][i] /\ inbox[d][i] \in Nat /\ inbox[d][i] <= commands
        \/ d = c /\ i = n + 1 /\ inbox'[d][i] = commands + 1
  <2>1. \A d \in Conns : \A i \in DOMAIN inbox[d] : inbox[d][i] \in Nat /\ inbox[d][i] <= commands
    BY InboundTypes DEF InboundOK, InboxOK
  <2>2. QED BY <1>1, <1>2, <2>1
<1>4. \A l \in Holding : held[l] \in Nat /\ held[l] <= commands
  BY <1>1, InboundTypes DEF Holding, ReadersOK
<1>5. \A i \in DOMAIN Arrived : Arrived[i][2] \in Nat /\ Arrived[i][2] <= commands
  BY InboundTypes DEF InboundOK, ArrivedOK
<1>6. InboxOK'
  <2>1. \A d \in Conns : \A i \in DOMAIN inbox'[d] : inbox'[d][i] <= commands'
    BY <1>1, <1>3
  <2>2. \A d \in Conns : \A i, j \in DOMAIN inbox'[d] : i < j => inbox'[d][i] < inbox'[d][j]
    <3>1. SUFFICES ASSUME NEW d \in Conns, NEW i \in DOMAIN inbox'[d], NEW j \in DOMAIN inbox'[d], i < j
                   PROVE  inbox'[d][i] < inbox'[d][j]
      OBVIOUS
    <3>2. ~(d = c /\ i = n + 1)
      BY <1>2, <3>1
    <3>3. i \in DOMAIN inbox[d] /\ inbox'[d][i] = inbox[d][i] /\ inbox[d][i] \in Nat /\ inbox[d][i] <= commands
      BY <1>3, <3>2
    <3>4. CASE j \in DOMAIN inbox[d] /\ inbox'[d][j] = inbox[d][j]
      BY <3>1, <3>3, <3>4 DEF InboundOK, InboxOK
    <3>5. CASE inbox'[d][j] = commands + 1
      BY <1>1, <3>3, <3>5
    <3>6. QED BY <1>3, <3>4, <3>5
  <2>3. \A d, e \in Conns : \A i \in DOMAIN inbox'[d], j \in DOMAIN inbox'[e] :
          d # e => inbox'[d][i] # inbox'[e][j]
    BY <1>1, <1>3 DEF InboundOK, InboxOK
  <2>4. \A d \in Conns, l \in Holding' : \A i \in DOMAIN inbox'[d] : inbox'[d][i] # held'[l]
    BY <1>1, <1>3, <1>4 DEF InboundOK, InboxOK
  <2>5. QED BY <2>1, <2>2, <2>3, <2>4 DEF InboxOK
<1>7. ArrivedOK'
  BY <1>1, <1>3, <1>5 DEF InboundOK, ArrivedOK
<1>8. SoleReaderOrder'
  <2>1. \A d \in Conns : Shared(d)' <=> Shared(d)
    BY <1>1 DEF Shared
  <2>2. ASSUME NEW d \in Conns, ~Shared(d), NEW i \in DOMAIN Arrived, Arrived[i][1] = d,
               NEW j \in DOMAIN inbox'[d]
        PROVE  Arrived[i][2] < inbox'[d][j]
    BY <1>1, <1>3, <1>5, <2>2 DEF InboundOK, SoleReaderOrder
  <2>3. ASSUME NEW d \in Conns, ~Shared(d), NEW l \in Holding, readOf[l] = d,
               NEW j \in DOMAIN inbox'[d]
        PROVE  held[l] < inbox'[d][j]
    BY <1>1, <1>3, <1>4, <2>3 DEF InboundOK, SoleReaderOrder
  <2>4. \A d \in Conns : ~Shared(d) => \A l \in Holding : readOf[l] = d =>
          \A i \in DOMAIN Arrived : Arrived[i][1] = d => Arrived[i][2] < held[l]
    BY DEF InboundOK, SoleReaderOrder
  <2>5. QED BY <1>1, <2>1, <2>2, <2>3, <2>4 DEF SoleReaderOrder
<1>9. InboundOnce'
  BY <1>1 DEF InboundOK, InboundOnce, Shared
<1>10. QED BY <1>6, <1>7, <1>8, <1>9 DEF InboundOK

\* Nothing is reordered or repeated by a step that moves no command.
LEMMA InboundFrame ==
  ASSUME InboundOK, NoneMoves
  PROVE  InboundOK'
<1> USE DEF NoneMoves
<1>1. \A c : Shared(c)' <=> Shared(c)
  BY DEF Shared
<1>2. InboxOK' /\ ArrivedOK'
  BY DEF InboundOK, InboxOK, ArrivedOK
<1>3. SoleReaderOrder'
  BY <1>1 DEF InboundOK, SoleReaderOrder
<1>4. InboundOnce'
  BY <1>1 DEF InboundOK, InboundOnce
<1>5. QED BY <1>2, <1>3, <1>4 DEF InboundOK

-----------------------------------------------------------------------------
(* The invariant.                                                           *)

\* It holds at the start.
LEMMA InvariantInit == Init => IInv
<1>1. SUFFICES ASSUME Init PROVE IInv
  OBVIOUS
<1>2. DOMAIN <<>> = {} /\ <<>> \in Seq(1..MaxMessages) /\ <<>> \in Seq(1..MaxCommands)
      /\ <<>> \in Seq(Command) /\ Len(<<>>) = 0
  BY EmptySeq
<1>3. TypeOK
  <2>1. recvCh \in Seq(Command) /\ Len(recvCh) <= RecvBuffer /\ Len(sendCh) <= SendBuffer
    BY <1>1, <1>2, LinkAssumption DEF Init
  <2>2. /\ wire \in [Conns -> Seq(1..MaxMessages)] /\ inbox \in [Conns -> Seq(1..MaxCommands)]
        /\ sendCh \in Seq(1..MaxMessages) /\ taken \in Seq(Command)
    BY <1>1, <1>2 DEF Init
  <2>3. /\ dials \in 0..MaxDials /\ sends \in 0..MaxMessages /\ commands \in 0..MaxCommands
        /\ held \in [Conns -> 0..MaxCommands]
    BY <1>1, LinkAssumption DEF Init
  <2>4. /\ socket \in [Conns -> {"none", "open", "lost", "closed"}]
        /\ reader \in [Conns -> {"none", "starting", "reading", "holding", "exited"}]
        /\ readOf \in [Conns -> Conns \cup {NoConn}] /\ conn \in Conns \cup {NoConn}
        /\ \A k \in Conns : reader[k] = "none"
    BY <1>1 DEF Init
  <2>5. stop \in BOOLEAN /\ main = "connecting" /\ run = "none"
    BY <1>1 DEF Init
  <2>6. QED BY <2>1, <2>2, <2>3, <2>4, <2>5 DEF TypeOK, Command
<1>4. RunOK /\ ReadersOK
  BY <1>1 DEF Init, RunOK, ReadersOK
<1>5. SentOK /\ OutboundOrder
  BY <1>1, <1>2 DEF Init, SentOK, OutboundOrder
<1>6. Arrived = <<>> /\ Holding = {}
  BY <1>1, <1>2, ConcatEmptySeq DEF Init, Arrived, Holding
<1>7. InboxOK /\ ArrivedOK /\ SoleReaderOrder /\ InboundOnce
  BY <1>1, <1>2, <1>6 DEF Init, InboxOK, ArrivedOK, SoleReaderOrder, InboundOnce
<1>8. QED BY <1>3, <1>4, <1>5, <1>7 DEF IInv

\* Every step keeps it.
LEMMA InvariantStep == IInv /\ [Next]_vars => IInv'
<1>1. SUFFICES ASSUME IInv, [Next]_vars PROVE IInv'
  OBVIOUS
<1>2. TypeOK' /\ RunOK' /\ ReadersOK'
  BY <1>1, TypeStep, ControlStep DEF IInv
<1>3. SentOK' /\ OutboundOrder'
  BY <1>1, <1>2, OutboundStep DEF IInv, OutboundOK
<1>4. InboxOK' /\ ArrivedOK' /\ SoleReaderOrder' /\ InboundOnce'
  <2>1. CASE Step \/ UNCHANGED vars
    BY <1>1, <2>1, InboundEffect, InboundFrame, StartReadingKeeps, ReadCommandKeeps, PushCommandKeeps
       DEF IInv, InboundOK
  <2>2. ASSUME NEW c \in Conns, PeerWrites(c)
        PROVE  InboxOK' /\ ArrivedOK' /\ SoleReaderOrder' /\ InboundOnce'
    BY <1>1, <2>2, PeerWritesKeeps DEF IInv, InboundOK
  <2>3. QED BY <1>1, <2>1, <2>2 DEF Next
<1>5. QED BY <1>2, <1>3, <1>4 DEF IInv

LEMMA Invariance == Spec => []IInv
BY InvariantInit, InvariantStep, PTL DEF Spec

\* The variables keep their types and the channels their capacity.
THEOREM TypeCorrect == Spec => []TypeOK
BY Invariance, PTL DEF IInv

\* Messages leave in the order of the Send calls, none twice, across every
\* number of reconnects.
THEOREM OutboundInOrder == Spec => []OutboundOrder
BY Invariance, PTL DEF IInv

\* The dispatcher meets a command at most once, and those of a connection with
\* one reader in the order they were written.
THEOREM InboundArrivesOnce == Spec => []InboundOnce
BY Invariance, PTL DEF IInv
=============================================================================
