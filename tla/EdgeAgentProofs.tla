-------------------------- MODULE EdgeAgentProofs --------------------------
(***************************************************************************)
(* The registries, timers, processes and acknowledgements of the agent     *)
(* agree, for every set of sessions, bridges and commands, every capacity  *)
(* of the channels and every session cap.                                  *)
(***************************************************************************)
EXTENDS EdgeAgent, SequenceTheorems, TLAPS

\* Nothing has been done for a command that still waits.
Unhandled(c) ==
  /\ c # current
  /\ c \notin done
  /\ \A success \in BOOLEAN : <<c, success>> \notin acks

\* The commands that wait have been sent, each once, and nothing more.
QueueOK ==
  /\ \A i, j \in 1..Len(recv) : recv[i] = recv[j] => i = j
  /\ \A i \in 1..Len(recv) : recv[i] \in sent /\ Unhandled(recv[i])

\* What is recorded of a command is of one that has been sent.
HistoryOK ==
  /\ current # None => current \in sent
  /\ \A c \in Commands, success \in BOOLEAN : <<c, success>> \in acks => c \in sent

\* The dispatcher waits for the process of the bridge its command names, and
\* has told nobody that the command failed.
WaitingOK ==
  /\ step = "idle" <=> current = None
  /\ step = "replying" <=> replies # <<>>
  /\ step \in {"starting", "stopping"} => Subject \in Bridges /\ <<current, FALSE>> \notin acks
  /\ step = "starting" => Subject \notin bridges /\ proc[Subject] \in {"running", "exited"}
  /\ step = "stopping" => Subject \in bridges

\* The answer that is on its way is the truth.
RepliesTrue ==
  /\ replies \in {<<"ack">>, Accepted} => current \in done \/ KindOf[current] = "health_ping"
  /\ replies = <<"nack">> => current \notin done \/ current \in dropped

\* A registered bridge has a process that was not killed.
ProcessesOK ==
  /\ NoProcessForgotten
  /\ \A b \in bridges : proc[b] \in {"running", "exited", "terminating"}

\* The inductive invariant.
IInv ==
  /\ TypeOK /\ TimersMatchSessions /\ AckTruthful
  /\ QueueOK /\ HistoryOK /\ WaitingOK /\ RepliesTrue /\ ProcessesOK

\* The command that is taken from the channel is sent and unhandled, and is
\* not among those that stay.
Taken(c) ==
  /\ c \in Commands /\ c \in sent
  /\ Unhandled(c)
  /\ recv' \in Seq(Commands) /\ Len(recv') \in Nat /\ Len(recv') <= RecvBuffer
  /\ \A i, j \in 1..Len(recv') : recv'[i] = recv'[j] => i = j
  /\ \A i \in 1..Len(recv') : recv'[i] # c /\ recv'[i] \in sent /\ Unhandled(recv'[i])

LEMMA TakeNext ==
  ASSUME TypeOK, QueueOK, recv # <<>>, recv' = Tail(recv)
  PROVE  Taken(Head(recv))
<1>1. /\ recv \in Seq(Commands) /\ Len(recv) \in Nat /\ Len(recv) > 0
      /\ RecvBuffer \in Nat /\ Len(recv) <= RecvBuffer
  BY EmptySeq, AgentAssumption DEF TypeOK
<1>2. /\ Tail(recv) \in Seq(Commands) /\ Len(Tail(recv)) = Len(recv) - 1
      /\ \A i \in 1..Len(Tail(recv)) : Tail(recv)[i] = recv[i + 1]
      /\ Head(recv) = recv[1]
  BY <1>1, HeadTailProperties
<1>3. Head(recv) \in Commands
  BY <1>1, <1>2
<1>4. \A i \in 1..Len(recv') : i + 1 \in 1..Len(recv) /\ recv'[i] = recv[i + 1]
  BY <1>1, <1>2
<1>5. 1 \in 1..Len(recv)
  BY <1>1
<1>6. \A i \in 1..Len(recv') : recv'[i] # Head(recv) /\ recv'[i] \in sent /\ Unhandled(recv'[i])
  BY <1>1, <1>2, <1>4, <1>5 DEF QueueOK
<1>7. \A i, j \in 1..Len(recv') : recv'[i] = recv'[j] => i = j
  BY <1>1, <1>2, <1>4 DEF QueueOK
<1>8. Head(recv) \in sent /\ Unhandled(Head(recv))
  BY <1>2, <1>5 DEF QueueOK
<1>9. QED BY <1>1, <1>2, <1>3, <1>6, <1>7, <1>8 DEF Taken

\* Taking a command keeps the channel and the history in order, whether or not
\* the command is done at once.
LEMMA DispatchStep ==
  ASSUME IInv, NEW kind, Dispatch(kind), UNCHANGED <<sent, acks>>,
         UNCHANGED dropped,
         done' = done \/ done' = done \cup {Head(recv)}
  PROVE  /\ Taken(Head(recv)) /\ Head(recv) = current' /\ current' # None
         /\ KindOf[current'] = kind
         /\ replies = <<>> /\ <<>> # <<"nack">> /\ <<>> # <<"ack">> /\ <<>> # <<"event">> /\ <<>> # Accepted
         /\ QueueOK' /\ HistoryOK' /\ AckTruthful'
         /\ done' \subseteq sent' /\ done \subseteq sent
<1>1. Taken(Head(recv))
  BY TakeNext DEF IInv, Dispatch
<1>2. Head(recv) = current' /\ current' # None /\ KindOf[current'] = kind
  BY <1>1, AgentAssumption DEF Dispatch, Taken
<1>3. QueueOK'
  BY <1>1, <1>2 DEF QueueOK, Taken, Unhandled
<1>4. HistoryOK'
  BY <1>1, <1>2 DEF IInv, HistoryOK, Taken
<1>5. AckTruthful'
  <2>0. \A c \in Commands : c # Head(recv) => (c \in done' <=> c \in done)
    OBVIOUS
  <2>1. QED BY <1>1, <2>0 DEF IInv, AckTruthful, Taken, Unhandled
<1>6. replies = <<>>
  BY DEF IInv, WaitingOK, Dispatch
<1>7. <<>> # <<"nack">> /\ <<>> # <<"ack">> /\ <<>> # <<"event">> /\ <<>> # Accepted
  BY DEF Accepted
<1>8. done' \subseteq sent' /\ done \subseteq sent
  BY <1>1 DEF IInv, TypeOK, Taken
<1>9. QED BY <1>1, <1>2, <1>3, <1>4, <1>5, <1>6, <1>7, <1>8

\* The types of a state in which the dispatcher has just taken a command.
LEMMA TypesAfterDispatch ==
  ASSUME IInv, NEW kind, Dispatch(kind), Taken(Head(recv)), Head(recv) = current',
         UNCHANGED <<sent, acks, dropped, outbox, earlyExit>>,
         done' \subseteq sent', step' \in Steps,
         replies' \in {<<>>, <<"nack">>, <<"ack">>, <<"event">>, Accepted},
         sessions' \subseteq Sessions, bridges' \subseteq Bridges,
         ttl' \in [Sessions -> {"none", "waiting", "woken", "exited"}],
         proc' \in [Bridges -> ProcStates]
  PROVE  TypeOK'
  BY DEF IInv, TypeOK, Taken

\* Starting and stopping a session.
LEMMA SessionStep ==
  ASSUME IInv, handleStartSession \/ handleStopSession
  PROVE  IInv'
<1> DEFINE c == Head(recv)
           s == SubjectOf[c]
<1>1. PICK kind \in {"start_session", "stop_session"} : Dispatch(kind)
  BY DEF handleStartSession, handleStopSession
<1>2. /\ UNCHANGED <<sent, bridges, proc, answers, earlyExit>>
      /\ done' = done \/ done' = done \cup {c}
  BY DEF handleStartSession, handleStopSession
<1>3. /\ Taken(c) /\ c = current' /\ KindOf[c] = kind
      /\ QueueOK' /\ HistoryOK' /\ AckTruthful' /\ done' \subseteq sent'
      /\ replies = <<>> /\ current' # None
  BY <1>1, <1>2, DispatchStep DEF answers
<1>4. s \in Sessions
  BY <1>1, <1>3, AgentAssumption DEF Taken
<1>5. \/ /\ replies' = <<"nack">> /\ step' = "replying"
         /\ UNCHANGED <<sessions, ttl, done>>
      \/ /\ replies' = Accepted /\ step' = "replying" /\ c \in done'
         /\ sessions' = sessions \cup {s} /\ ttl' = [ttl EXCEPT ![s] = "waiting"]
      \/ /\ replies' = Accepted /\ step' = "replying" /\ c \in done'
         /\ sessions' = sessions \ {s}
         /\ ttl' = [ttl EXCEPT ![s] = IF @ = "waiting" THEN "woken" ELSE @]
  BY DEF handleStartSession, handleStopSession, Reply
<1>6. TypeOK'
  <2>1. sessions' \subseteq Sessions /\ ttl' \in [Sessions -> {"none", "waiting", "woken", "exited"}]
    BY <1>4, <1>5 DEF IInv, TypeOK
  <2>2. QED BY <1>1, <1>2, <1>3, <1>5, <2>1, TypesAfterDispatch DEF IInv, TypeOK, answers, Steps
<1>7. TimersMatchSessions'
  BY <1>4, <1>5 DEF IInv, TypeOK, TimersMatchSessions
<1>8. WaitingOK'
  <2>1. step' = "replying" /\ replies' # <<>>
    BY <1>5 DEF Accepted
  <2>2. QED BY <1>3, <2>1 DEF WaitingOK
<1>9. RepliesTrue'
  BY <1>2, <1>3, <1>5 DEF Taken, Unhandled, RepliesTrue, Accepted
<1>10. ProcessesOK'
  BY <1>1, <1>2, <1>5 DEF IInv, ProcessesOK, NoProcessForgotten, Dispatch
<1>11. QED BY <1>3, <1>6, <1>7, <1>8, <1>9, <1>10 DEF IInv

\* Starting and stopping a bridge, up to the wait for its process.
LEMMA BridgeStep ==
  ASSUME IInv, handleStartMBUSD \/ handleStopMBUSD
  PROVE  IInv'
<1> DEFINE c == Head(recv)
           b == SubjectOf[c]
<1>1. PICK kind \in {"start_mbusd", "stop_mbusd"} : Dispatch(kind)
  BY DEF handleStartMBUSD, handleStopMBUSD
<1>2. UNCHANGED <<sent, sessions, ttl, bridges, answers, done, earlyExit>>
  BY DEF handleStartMBUSD, handleStopMBUSD
<1>3. /\ Taken(c) /\ c = current' /\ current' # None /\ KindOf[c] = kind
      /\ QueueOK' /\ HistoryOK' /\ AckTruthful' /\ done' \subseteq sent'
      /\ replies = <<>>
  BY <1>1, <1>2, DispatchStep DEF answers
<1>4. b \in Bridges
  BY <1>1, <1>3, AgentAssumption DEF Taken
<1>5. step = "idle"
  BY <1>1 DEF Dispatch
<1>6. \/ /\ replies' = <<"nack">> /\ step' = "replying"
         /\ UNCHANGED proc
      \/ /\ step' = "starting" /\ UNCHANGED replies
         /\ b \notin bridges /\ proc' = [proc EXCEPT ![b] = "running"]
      \/ /\ step' = "stopping" /\ UNCHANGED replies
         /\ b \in bridges
         /\ proc' = [proc EXCEPT ![b] = IF @ = "running" THEN "terminating" ELSE @]
  BY DEF handleStartMBUSD, handleStopMBUSD, Reply
<1>7. TypeOK'
  <2>1. proc' \in [Bridges -> ProcStates]
    BY <1>4, <1>6 DEF IInv, TypeOK, ProcStates
  <2>2. QED
    BY <1>1, <1>2, <1>3, <1>6, <2>1, TypesAfterDispatch DEF IInv, TypeOK, answers, Steps
<1>8. TimersMatchSessions'
  BY <1>2 DEF IInv, TimersMatchSessions
<1>9. WaitingOK'
  <2>1. <<c, FALSE>> \notin acks'
    BY <1>2, <1>3 DEF Taken, Unhandled, answers
  <2>2. step' = "starting" => b \notin bridges' /\ proc'[b] \in {"running", "exited"}
    BY <1>2, <1>4, <1>6 DEF IInv, TypeOK
  <2>3. step' = "stopping" => b \in bridges'
    BY <1>2, <1>6
  <2>4. step' = "replying" <=> replies' # <<>>
    BY <1>3, <1>6
  <2>5. QED BY <1>3, <1>4, <1>6, <2>1, <2>2, <2>3, <2>4 DEF WaitingOK, Subject
<1>10. RepliesTrue'
  BY <1>2, <1>3, <1>6 DEF Taken, Unhandled, RepliesTrue, Accepted
<1>11. ProcessesOK'
  BY <1>2, <1>3, <1>4, <1>5, <1>6 DEF IInv, TypeOK, ProcessesOK, NoProcessForgotten, Subject
<1>12. QED BY <1>3, <1>7, <1>8, <1>9, <1>10, <1>11 DEF IInv

\* The commands that touch no registry.
LEMMA QueryStep ==
  ASSUME IInv, handleHealthPing \/ handleSyncInventory
  PROVE  IInv'
<1> DEFINE c == Head(recv)
<1>1. PICK kind \in {"health_ping", "sync_inventory"} : Dispatch(kind)
  BY DEF handleHealthPing, handleSyncInventory
<1>2. UNCHANGED <<sent, registries, answers, done, earlyExit>>
  BY DEF handleHealthPing, handleSyncInventory
<1>3. /\ Taken(c) /\ c = current' /\ current' # None /\ KindOf[c] = kind
      /\ QueueOK' /\ HistoryOK' /\ AckTruthful' /\ done' \subseteq sent'
  BY <1>1, <1>2, DispatchStep DEF answers
<1>4. /\ step' = "replying"
      /\ \/ replies' = <<"ack">> /\ KindOf[c] = "health_ping"
         \/ replies' \in {<<"event">>, <<"nack">>}
  BY <1>3 DEF handleHealthPing, handleSyncInventory, Reply, Dispatch
<1>5. TypeOK'
  BY <1>1, <1>2, <1>3, <1>4, TypesAfterDispatch DEF IInv, TypeOK, registries, answers, Steps
<1>6. TimersMatchSessions'
  BY <1>2 DEF IInv, TimersMatchSessions, registries
<1>7. WaitingOK'
  BY <1>3, <1>4 DEF WaitingOK
<1>8. RepliesTrue'
  BY <1>2, <1>3, <1>4 DEF Taken, Unhandled, RepliesTrue, Accepted
<1>9. ProcessesOK'
  BY <1>1, <1>2 DEF IInv, ProcessesOK, NoProcessForgotten, registries, Dispatch
<1>10. QED BY <1>3, <1>5, <1>6, <1>7, <1>8, <1>9 DEF IInv

\* A command of an unknown type.
LEMMA IgnoreStep ==
  ASSUME IInv, IgnoreUnknown
  PROVE  IInv'
<1>1. /\ Taken(Head(recv))
      /\ UNCHANGED <<sent, step, current, replies, registries, answers, done, earlyExit>>
  BY TakeNext DEF IInv, IgnoreUnknown
<1>2. TypeOK'
  BY <1>1 DEF IInv, TypeOK, Taken, registries, answers
<1>3. QueueOK' /\ HistoryOK'
  BY <1>1 DEF IInv, QueueOK, HistoryOK, Taken, Unhandled, answers
<1>4. TimersMatchSessions' /\ AckTruthful'
  BY <1>1 DEF IInv, TimersMatchSessions, AckTruthful, registries, answers
<1>5. WaitingOK' /\ RepliesTrue' /\ ProcessesOK'
  BY <1>1 DEF IInv, WaitingOK, RepliesTrue, ProcessesOK, NoProcessForgotten, Subject, registries, answers
<1>6. QED BY <1>2, <1>3, <1>4, <1>5 DEF IInv

\* The end of the two waits: the command is done, or its process has exited.
LEMMA WaitedStep ==
  ASSUME IInv, StartupWaited \/ StopWaited
  PROVE  IInv'
<1> DEFINE b == Subject
<1>1. /\ current \in Commands /\ current # None /\ current \in sent /\ b \in Bridges
      /\ \A i \in 1..Len(recv) : recv[i] # current
      /\ <<current, FALSE>> \notin acks
  BY DEF IInv, TypeOK, HistoryOK, WaitingOK, QueueOK, Unhandled, StartupWaited, StopWaited
<1>2. /\ UNCHANGED <<recv, sent, current, sessions, ttl, answers, earlyExit>>
      /\ step' = "replying"
  BY DEF StartupWaited, StopWaited, Reply
<1>3. \/ /\ step = "starting" /\ UNCHANGED proc
         /\ proc[b] \in {"running", "exited"}
         /\ replies' = Accepted /\ done' = done \cup {current} /\ bridges' = bridges \cup {b}
      \/ /\ step = "stopping" /\ bridges' = bridges \ {b}
         /\ proc' = [proc EXCEPT ![b] = IF @ = "exited" THEN "gone" ELSE "killed"]
         /\ replies' = Accepted /\ done' = done \cup {current}
  BY DEF IInv, WaitingOK, StartupWaited, StopWaited, IsRunning, Unreaped, Reply
<1>4. TypeOK'
  <2>1. bridges' \subseteq Bridges /\ proc' \in [Bridges -> ProcStates] /\ done' \subseteq sent'
    BY <1>1, <1>2, <1>3 DEF IInv, TypeOK, ProcStates
  <2>2. QED BY <1>2, <1>3, <2>1 DEF IInv, TypeOK, answers, Steps
<1>5. QueueOK' /\ HistoryOK'
  BY <1>1, <1>2, <1>3 DEF IInv, QueueOK, HistoryOK, Unhandled, answers
<1>6. TimersMatchSessions'
  BY <1>2 DEF IInv, TimersMatchSessions
<1>7. AckTruthful'
  BY <1>1, <1>2, <1>3 DEF IInv, AckTruthful, answers
<1>8. WaitingOK'
  <2>1. step' = "replying" /\ replies' = <<"ack", "event">> /\ current' = current /\ current # None
    BY <1>1, <1>2, <1>3 DEF Accepted, answers
  <2>2. replies' # <<>>
    BY <2>1
  <2>3. QED BY <2>1, <2>2 DEF WaitingOK
<1>9. RepliesTrue'
  BY <1>2, <1>3 DEF RepliesTrue, Accepted
<1>10. ProcessesOK'
  BY <1>1, <1>2, <1>3 DEF IInv, TypeOK, ProcessesOK, NoProcessForgotten, Subject
<1>11. QED BY <1>4, <1>5, <1>6, <1>7, <1>8, <1>9, <1>10 DEF IInv

\* The reply the dispatcher sends, and the ones that are left.
LEMMA RepliesLeft ==
  ASSUME TypeOK, WaitingOK, step = "replying"
  PROVE  \/ replies = <<"nack">> /\ Head(replies) = "nack" /\ Tail(replies) = <<>>
         \/ replies = <<"ack">> /\ Head(replies) = "ack" /\ Tail(replies) = <<>>
         \/ replies = <<"event">> /\ Head(replies) = "event" /\ Tail(replies) = <<>>
         \/ replies = Accepted /\ Head(replies) = "ack" /\ Tail(replies) = <<"event">>
<1>1. /\ Head(<<"nack">>) = "nack" /\ Tail(<<"nack">>) = <<>>
      /\ Head(<<"ack">>) = "ack" /\ Tail(<<"ack">>) = <<>>
      /\ Head(<<"event">>) = "event" /\ Tail(<<"event">>) = <<>>
  OBVIOUS
<1>2. Head(Accepted) = "ack" /\ Tail(Accepted) = <<"event">>
  BY DEF Accepted
<1>3. replies \in {<<"nack">>, <<"ack">>, <<"event">>, Accepted}
  BY DEF TypeOK, WaitingOK
<1>4. QED BY <1>1, <1>2, <1>3

\* An acknowledgement names one command and one outcome.
LEMMA AckEqual ==
  ASSUME NEW c, NEW e, NEW x \in BOOLEAN, NEW y \in BOOLEAN
  PROVE  <<c, x>> = <<e, y>> <=> c = e /\ x = y
  OBVIOUS

\* The dispatcher sends one of its replies.
LEMMA ReplyStep ==
  ASSUME IInv, SendReply
  PROVE  IInv'
<1> DEFINE m == Head(replies)
<1>1. /\ step = "replying" /\ current \in Commands /\ current # None /\ current \in sent
      /\ \A i \in 1..Len(recv) : recv[i] # current
      /\ UNCHANGED <<recv, sent, registries, done, earlyExit>>
  BY DEF IInv, TypeOK, HistoryOK, WaitingOK, QueueOK, Unhandled, SendReply
<1>2. \/ replies = <<"nack">> /\ m = "nack" /\ Tail(replies) = <<>>
      \/ replies = <<"ack">> /\ m = "ack" /\ Tail(replies) = <<>>
      \/ replies = <<"event">> /\ m = "event" /\ Tail(replies) = <<>>
      \/ replies = Accepted /\ m = "ack" /\ Tail(replies) = <<"event">>
  BY <1>1, RepliesLeft DEF IInv
<1>3. /\ dropped \subseteq dropped' /\ dropped' \subseteq sent'
      /\ outbox' \in 0..SendBuffer
  BY <1>1, AgentAssumption DEF IInv, TypeOK, SendReply
<1>4. \/ /\ acks' = acks
      \/ /\ m # "event"
         /\ acks' = acks \cup {<<current, m = "ack">>}
  BY DEF SendReply, ReplyRecorded
<1>5. \/ /\ replies' = <<>> /\ step' = "idle" /\ current' = None
      \/ /\ replies' \in {<<"event">>, <<"nack">>} /\ step' = "replying" /\ current' = current
         /\ replies' = <<"nack">> => current \in dropped'
  <2> DEFINE rest == IF outbox = SendBuffer /\ m = "event" THEN <<"nack">> ELSE Tail(replies)
  <2>1. /\ replies' = rest
        /\ step' = IF rest = <<>> THEN "idle" ELSE "replying"
        /\ current' = IF rest = <<>> THEN None ELSE current
        /\ ~(outbox < SendBuffer) => dropped' = dropped \cup {current}
    BY DEF SendReply
  <2>2. CASE outbox = SendBuffer /\ m = "event"
    BY <1>1, <2>1, <2>2, AgentAssumption
  <2>3. CASE ~(outbox = SendBuffer /\ m = "event")
    BY <1>2, <2>1, <2>3
  <2>4. QED BY <2>2, <2>3
<1>6. \/ acks' = acks
      \/ /\ acks' = acks \cup {<<current, TRUE>>}
         /\ current \in done \/ KindOf[current] = "health_ping"
      \/ /\ acks' = acks \cup {<<current, FALSE>>}
         /\ current \notin done \/ current \in dropped'
  BY <1>2, <1>3, <1>4 DEF IInv, RepliesTrue, Accepted
<1>7. TypeOK'
  <2>1. acks' \subseteq Commands \X BOOLEAN
    <3>1. <<current, TRUE>> \in Commands \X BOOLEAN /\ <<current, FALSE>> \in Commands \X BOOLEAN
      BY <1>1
    <3>2. QED BY <1>6, <3>1 DEF IInv, TypeOK
  <2>2. QED BY <1>1, <1>3, <1>5, <2>1, AgentAssumption DEF IInv, TypeOK, Steps, registries
<1>8. AckTruthful'
  <2>1. ASSUME NEW c \in Commands, <<c, TRUE>> \in acks'
        PROVE  c \in done \/ KindOf[c] = "health_ping"
    <3>1. <<c, TRUE>> # <<current, FALSE>>
      BY AckEqual
    <3>2. <<c, TRUE>> = <<current, TRUE>> => c = current
      BY AckEqual
    <3>3. CASE <<c, TRUE>> \in acks
      BY <3>3 DEF IInv, AckTruthful
    <3>4. CASE <<c, TRUE>> \notin acks
      BY <1>6, <2>1, <3>1, <3>2, <3>4
    <3>5. QED BY <3>3, <3>4
  <2>2. ASSUME NEW c \in Commands, <<c, FALSE>> \in acks'
        PROVE  c \notin done \/ c \in dropped'
    <3>1. <<c, FALSE>> # <<current, TRUE>>
      BY AckEqual
    <3>2. <<c, FALSE>> = <<current, FALSE>> => c = current
      BY AckEqual
    <3>3. CASE <<c, FALSE>> \in acks
      BY <1>3, <3>3 DEF IInv, AckTruthful
    <3>4. CASE <<c, FALSE>> \notin acks
      <4>1. /\ acks' = acks \cup {<<current, FALSE>>}
            /\ current \notin done \/ current \in dropped'
        <5>1. CASE acks' = acks
          BY <2>2, <3>4, <5>1
        <5>2. CASE acks' = acks \cup {<<current, TRUE>>}
          BY <2>2, <3>1, <3>4, <5>2
        <5>3. QED BY <1>6, <5>1, <5>2
      <4>2. <<c, FALSE>> = <<current, FALSE>>
        BY <2>2, <3>4, <4>1
      <4>3. c = current
        BY <3>2, <4>2
      <4>4. QED BY <1>3, <4>1, <4>3
    <3>5. QED BY <3>3, <3>4
  <2>3. QED BY <1>1, <2>1, <2>2 DEF AckTruthful
<1>9. QueueOK'
  <2>1. \A i \in 1..Len(recv) : recv[i] # None
    BY AgentAssumption DEF IInv, TypeOK
  <2>2. \A c : \A success \in BOOLEAN :
          <<c, success>> \in acks' => <<c, success>> \in acks \/ c = current
    BY <1>6, AckEqual
  <2>3. QED BY <1>1, <1>5, <2>1, <2>2 DEF IInv, QueueOK, Unhandled
<1>10. HistoryOK'
  BY <1>1, <1>5, <1>6 DEF IInv, HistoryOK
<1>11. TimersMatchSessions'
  BY <1>1 DEF IInv, TimersMatchSessions, registries
<1>12. WaitingOK'
  BY <1>1, <1>5 DEF WaitingOK
<1>13. RepliesTrue'
  BY <1>1, <1>5 DEF RepliesTrue, Accepted
<1>14. ProcessesOK'
  BY <1>1, <1>5 DEF IInv, ProcessesOK, NoProcessForgotten, registries
<1>15. QED BY <1>7, <1>8, <1>9, <1>10, <1>11, <1>12, <1>13, <1>14 DEF IInv

\* Timers, processes, heartbeats and the link: the dispatcher stands still.
LEMMA OutsideStep ==
  ASSUME IInv,
         \/ \E s \in Sessions : TTLElapses(s) \/ ExpireSession(s)
         \/ \E b \in Bridges : ProcessExits(b)
         \/ Heartbeat \/ Transmit \/ UNCHANGED vars
  PROVE  IInv'
<1>1. /\ UNCHANGED <<recv, sent, step, current, replies, bridges, acks, dropped, done>>
      /\ QueueOK' /\ HistoryOK' /\ AckTruthful' /\ RepliesTrue'
  <2>1. UNCHANGED <<recv, sent, step, current, replies, bridges, acks, dropped, done>>
    BY DEF TTLElapses, ExpireSession, ProcessExits, Heartbeat, Transmit, answers, registries, vars
  <2>2. QED BY <2>1 DEF IInv, QueueOK, HistoryOK, AckTruthful, RepliesTrue, Unhandled
<1>2. ASSUME NEW s \in Sessions, TTLElapses(s) \/ ExpireSession(s) PROVE IInv'
  <2>1. UNCHANGED <<proc, outbox, earlyExit>>
    BY <1>2 DEF TTLElapses, ExpireSession, answers
  <2>2. \/ /\ ttl[s] = "waiting" /\ ttl' = [ttl EXCEPT ![s] = "woken"] /\ UNCHANGED sessions
        \/ /\ ttl[s] = "woken" /\ ttl' = [ttl EXCEPT ![s] = "exited"]
           /\ sessions' = sessions \ {s}
    BY <1>2 DEF TTLElapses, ExpireSession
  <2>3. TypeOK' /\ TimersMatchSessions'
    BY <1>1, <2>1, <2>2 DEF IInv, TypeOK, TimersMatchSessions
  <2>4. WaitingOK' /\ ProcessesOK'
    BY <1>1, <2>1 DEF IInv, WaitingOK, ProcessesOK, NoProcessForgotten, Subject
  <2>5. QED BY <1>1, <2>3, <2>4 DEF IInv
<1>3. ASSUME NEW b \in Bridges, ProcessExits(b) PROVE IInv'
  <2>1. /\ UNCHANGED <<sessions, ttl, outbox>>
        /\ earlyExit' \in {earlyExit, earlyExit \cup {b}}
        /\ proc[b] \in {"running", "terminating", "killed"}
        /\ proc' = [proc EXCEPT ![b] = IF @ = "killed" THEN "gone" ELSE "exited"]
    BY <1>3 DEF ProcessExits, answers
  <2>2. TypeOK' /\ TimersMatchSessions'
    BY <1>1, <2>1 DEF IInv, TypeOK, TimersMatchSessions, ProcStates
  <2>3. WaitingOK' /\ ProcessesOK'
    BY <1>1, <2>1 DEF IInv, TypeOK, WaitingOK, ProcessesOK, NoProcessForgotten, Subject
  <2>4. QED BY <1>1, <2>2, <2>3 DEF IInv
<1>4. CASE Heartbeat \/ Transmit \/ UNCHANGED vars
  <2>1. UNCHANGED <<sessions, ttl, proc, earlyExit>> /\ outbox' \in 0..SendBuffer
    BY <1>4, AgentAssumption DEF IInv, TypeOK, Heartbeat, Transmit, answers, registries, vars
  <2>2. TypeOK' /\ TimersMatchSessions'
    BY <1>1, <2>1 DEF IInv, TypeOK, TimersMatchSessions
  <2>3. WaitingOK' /\ ProcessesOK'
    BY <1>1, <2>1 DEF IInv, WaitingOK, ProcessesOK, NoProcessForgotten, Subject
  <2>4. QED BY <1>1, <2>2, <2>3 DEF IInv
<1>5. QED BY <1>2, <1>3, <1>4

\* A command arrives.
LEMMA ReceiveStep ==
  ASSUME IInv, NEW c \in Commands, Receive(c)
  PROVE  IInv'
<1>1. /\ c \notin sent /\ sent' = sent \cup {c} /\ recv' = Append(recv, c)
      /\ Len(recv) < RecvBuffer /\ RecvBuffer \in Nat
      /\ recv \in Seq(Commands) /\ Len(recv) \in Nat
      /\ UNCHANGED <<step, current, replies, registries, answers, done, earlyExit>>
  BY AgentAssumption DEF IInv, TypeOK, Receive
<1>2. /\ recv' \in Seq(Commands) /\ Len(recv') = Len(recv) + 1
      /\ recv'[Len(recv) + 1] = c
      /\ \A i \in 1..Len(recv) : recv'[i] = recv[i]
  BY <1>1
<1>3. \A i \in 1..Len(recv') : i \in 1..Len(recv) \/ i = Len(recv) + 1
  BY <1>1, <1>2
<1>4. TypeOK'
  BY <1>1, <1>2 DEF IInv, TypeOK, registries, answers
<1>5. Unhandled(c)
  BY <1>1, AgentAssumption DEF IInv, TypeOK, HistoryOK, Unhandled
<1>6. \A i \in 1..Len(recv') : recv'[i] \in sent' /\ Unhandled(recv'[i])
  BY <1>1, <1>2, <1>3, <1>5 DEF IInv, QueueOK
<1>7. \A i, j \in 1..Len(recv') : recv'[i] = recv'[j] => i = j
  BY <1>1, <1>2, <1>3 DEF IInv, QueueOK
<1>8. QueueOK' /\ HistoryOK'
  BY <1>1, <1>6, <1>7 DEF IInv, QueueOK, HistoryOK, Unhandled, answers
<1>9. TimersMatchSessions' /\ AckTruthful' /\ RepliesTrue'
  BY <1>1 DEF IInv, TimersMatchSessions, AckTruthful, RepliesTrue, registries, answers
<1>10. WaitingOK' /\ ProcessesOK'
  BY <1>1 DEF IInv, WaitingOK, ProcessesOK, NoProcessForgotten, Subject, registries, answers
<1>11. QED BY <1>4, <1>8, <1>9, <1>10 DEF IInv

\* The agent starts again.
LEMMA RestartStep ==
  ASSUME IInv, Restart
  PROVE  IInv'
<1>1. /\ recv' = <<>> /\ step' = "idle" /\ current' = None /\ replies' = <<>>
      /\ sessions' = {} /\ bridges' = {} /\ outbox' = 0
      /\ ttl' = [s \in Sessions |-> IF ttl[s] = "none" THEN "none" ELSE "exited"]
      /\ proc' = [b \in Bridges |-> IF proc[b] = "none" THEN "none" ELSE "gone"]
      /\ dropped \subseteq dropped'
      /\ UNCHANGED <<sent, acks, done, earlyExit>>
  BY DEF Restart
<1>2. Len(recv') = 0
  BY <1>1
<1>3. dropped' \subseteq sent'
  BY AgentAssumption DEF IInv, TypeOK, HistoryOK, QueueOK, Restart
<1>4. TypeOK'
  BY <1>1, <1>2, <1>3, AgentAssumption DEF IInv, TypeOK, Steps, ProcStates
<1>5. QueueOK' /\ HistoryOK' /\ AckTruthful'
  <2>1. QueueOK'
    BY <1>1, <1>2 DEF QueueOK
  <2>2. HistoryOK'
    BY <1>1 DEF IInv, HistoryOK
  <2>3. AckTruthful'
    BY <1>1 DEF IInv, AckTruthful
  <2>4. QED BY <2>1, <2>2, <2>3
<1>6. TimersMatchSessions' /\ ProcessesOK'
  BY <1>1 DEF TimersMatchSessions, ProcessesOK, NoProcessForgotten
<1>7. WaitingOK' /\ RepliesTrue'
  BY <1>1 DEF WaitingOK, RepliesTrue, Accepted
<1>8. QED BY <1>4, <1>5, <1>6, <1>7 DEF IInv

-----------------------------------------------------------------------------
\* Every state satisfies the inductive invariant.
THEOREM Invariance == Spec => []IInv
<1>1. Init => IInv
  <2> SUFFICES ASSUME Init PROVE IInv
    OBVIOUS
  <2>1. TypeOK
    BY AgentAssumption DEF Init, TypeOK, Steps, ProcStates
  <2>2. QueueOK /\ HistoryOK /\ WaitingOK /\ RepliesTrue
    BY DEF Init, QueueOK, HistoryOK, WaitingOK, RepliesTrue, Accepted
  <2>3. TimersMatchSessions /\ AckTruthful /\ ProcessesOK
    BY DEF Init, TimersMatchSessions, AckTruthful, ProcessesOK, NoProcessForgotten
  <2>4. QED BY <2>1, <2>2, <2>3 DEF IInv
<1>2. IInv /\ [Next]_vars => IInv'
  BY SessionStep, BridgeStep, QueryStep, IgnoreStep, WaitedStep, ReplyStep, OutsideStep,
     ReceiveStep, RestartStep
  DEF Next, Handle
<1>3. QED BY <1>1, <1>2, PTL DEF Spec

\* Every variable of the agent keeps its type, and no channel overflows.
THEOREM TypeCorrect == Spec => []TypeOK
<1>1. IInv => TypeOK
  BY DEF IInv
<1>2. QED BY Invariance, <1>1, PTL

\* Every registered session has the goroutine that will remove it, through
\* expiry, stop commands and restarts.
THEOREM TimersAgree == Spec => []TimersMatchSessions
<1>1. IInv => TimersMatchSessions
  BY DEF IInv
<1>2. QED BY Invariance, <1>1, PTL

\* No mbusd process is forgotten, and the agent signals none that is not its own.
THEOREM ProcessesAreTracked == Spec => []ProcessesTracked
<1>1. IInv => ProcessesTracked
  BY DEF IInv, ProcessesOK, ProcessesTracked, RegisteredUnreaped, IsRunning, Unreaped
<1>2. QED BY Invariance, <1>1, PTL

\* An acknowledgement tells what happened to its command.
THEOREM AcksAreTrue == Spec => []AckTruthful
<1>1. IInv => AckTruthful
  BY DEF IInv
<1>2. QED BY Invariance, <1>1, PTL
=============================================================================
