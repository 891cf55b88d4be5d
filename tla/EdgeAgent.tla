----------------------------- MODULE EdgeAgent ------------------------------
(***************************************************************************)
(* The edge agent's command dispatcher, its session and bridge registries  *)
(* and the mbusd processes it runs: apps/agent/internal/agent/agent.go and *)
(* apps/agent/internal/mbusd/mbusd.go.                                     *)
(*                                                                         *)
(* One goroutine takes commands from the hub's receive channel and handles *)
(* them one after the other.  The handlers hold the agent's mutex while    *)
(* they work, wait for a process and send their answers; the goroutine of  *)
(* each session's TTL and the heartbeat need it too.  A handler's step     *)
(* ends where another goroutine or the mbusd process can be observed.      *)
(***************************************************************************)
EXTENDS Naturals, Sequences, FiniteSets

CONSTANTS
  Sessions,               \* session identifiers
  Bridges,                \* bridge identifiers
  Commands,               \* the commands the control plane sends, each once
  KindOf,                 \* command |-> its type
  SubjectOf,              \* command |-> the session or bridge it names
  MaxConcurrentSessions,  \* config.MaxConcurrentSessions
  RecvBuffer,             \* capacity of the hub's receive channel (64)
  SendBuffer,             \* capacity of the hub's send channel (64)
  MaxSent,                \* bound: commands that reach the agent
  None                    \* no command

Kinds == {"start_session", "stop_session", "start_mbusd", "stop_mbusd",
          "health_ping", "sync_inventory", "refresh_capabilities"}

\* Session and bridge identifiers are fresh UUIDs of the API: it starts each
\* at most once.  It may stop any of them, also one whose start was lost.
ASSUME AgentAssumption ==
  /\ MaxConcurrentSessions \in Nat
  /\ RecvBuffer \in Nat \ {0}
  /\ SendBuffer \in Nat \ {0}
  /\ MaxSent \in Nat
  /\ None \notin Commands
  /\ KindOf \in [Commands -> Kinds]
  /\ SubjectOf \in [Commands -> Sessions \cup Bridges]
  /\ \A c \in Commands :
       /\ KindOf[c] \in {"start_session", "stop_session"} => SubjectOf[c] \in Sessions
       /\ KindOf[c] \in {"start_mbusd", "stop_mbusd"} => SubjectOf[c] \in Bridges
  /\ \A c, e \in Commands :
       KindOf[c] = KindOf[e] /\ SubjectOf[c] = SubjectOf[e]
         /\ KindOf[c] \in {"start_session", "start_mbusd"} => c = e

VARIABLES
  recv,       \* the hub's receive channel: commands not yet dispatched
  sent,       \* history: the commands the control plane has sent
  step,       \* where the dispatcher stands
  current,    \* the command it handles, or None
  replies,    \* the messages it has still to send for that command
  sessions,   \* keys of Agent.sessions
  ttl,        \* session |-> its expiry goroutine: "none", "waiting" on the
              \* context, "woken" and about to lock, "exited"
  bridges,    \* keys of Agent.bridges
  proc,       \* bridge |-> its mbusd process
  outbox,     \* number of messages in the hub's send channel
  done,       \* history: commands that changed a registry
  acks,       \* history: <<command, success>> acknowledgements queued
  dropped,    \* history: commands a restart lost, or one of whose messages found
              \* the channel full
  earlyExit   \* history: bridges whose mbusd exited during the startup wait

registries == <<sessions, ttl, bridges, proc>>
answers    == <<outbox, acks, dropped>>
vars == <<recv, sent, step, current, replies, registries, answers, done, earlyExit>>

Steps == {"idle", "starting", "stopping", "replying"}
ProcStates == {"none", "running", "exited", "terminating", "killed", "gone"}

Init ==
  /\ recv = <<>> /\ sent = {}
  /\ step = "idle" /\ current = None /\ replies = <<>>
  /\ sessions = {} /\ ttl = [s \in Sessions |-> "none"]
  /\ bridges = {} /\ proc = [b \in Bridges |-> "none"]
  /\ outbox = 0 /\ acks = {} /\ dropped = {}
  /\ done = {} /\ earlyExit = {}

-----------------------------------------------------------------------------
\* A handler that fails returns its error to handleCommand, which sends it
\* after the mutex is released; a ping and a sync never take the mutex; every
\* other reply is sent with it held.
MutexFree ==
  \/ step = "idle"
  \/ /\ step = "replying"
     /\ replies = <<"nack">> \/ KindOf[current] \in {"health_ping", "sync_inventory"}

Subject == SubjectOf[current]

\* handleCommand takes the next command; `how` is what its handler does first.
Dispatch(kind) ==
  /\ step = "idle"
  /\ recv # <<>>
  /\ KindOf[Head(recv)] = kind
  /\ recv' = Tail(recv)
  /\ current' = Head(recv)

Reply(messages) ==
  /\ step' = "replying"
  /\ replies' = messages

Accepted == <<"ack", "event">>

-----------------------------------------------------------------------------
(* Sessions.                                                                *)

Free(s) == Cardinality(sessions) < MaxConcurrentSessions /\ s \notin sessions

\* Mutant: the session's context has no timeout.
handleStartSessionUntimed ==
  /\ Dispatch("start_session")
  /\ LET c == Head(recv) s == SubjectOf[c] IN
     \/ /\ Reply(<<"nack">>)
        /\ UNCHANGED <<sessions, done>>
     \/ /\ Free(s)
        /\ sessions' = sessions \cup {s}
        /\ done' = done \cup {c}
        /\ Reply(Accepted)
  /\ UNCHANGED <<sent, ttl, bridges, proc, answers, earlyExit>>

\* A payload that cannot be parsed is refused.  Then the capacity and the
\* existence check, the insertion and the start of the goroutine that waits for
\* the TTL.
handleStartSession ==
  /\ Dispatch("start_session")
  /\ LET c == Head(recv) s == SubjectOf[c] IN
     \/ /\ Reply(<<"nack">>)
        /\ UNCHANGED <<sessions, ttl, done>>
     \/ /\ Free(s)
        /\ sessions' = sessions \cup {s}
        /\ ttl' = [ttl EXCEPT ![s] = "waiting"]
        /\ done' = done \cup {c}
        /\ Reply(Accepted)
  /\ UNCHANGED <<sent, bridges, proc, answers, earlyExit>>

\* Mutant: the context is not cancelled.
handleStopSessionUncancelled ==
  /\ Dispatch("stop_session")
  /\ LET c == Head(recv) s == SubjectOf[c] IN
     \/ /\ Reply(<<"nack">>)
        /\ UNCHANGED <<sessions, done>>
     \/ /\ s \in sessions
        /\ sessions' = sessions \ {s}
        /\ done' = done \cup {c}
        /\ Reply(Accepted)
  /\ UNCHANGED <<sent, ttl, bridges, proc, answers, earlyExit>>

\* Mutant: the answer for a session that is not there does not end the handler.
handleStopSessionGoesOn ==
  /\ Dispatch("stop_session")
  /\ LET c == Head(recv) s == SubjectOf[c] IN
     /\ Reply(IF s \in sessions THEN Accepted ELSE <<"nack">> \o Accepted)
     /\ sessions' = sessions \ {s}
     /\ ttl' = [ttl EXCEPT ![s] = IF @ = "waiting" THEN "woken" ELSE @]
     /\ done' = done \cup {c}
  /\ UNCHANGED <<sent, bridges, proc, answers, earlyExit>>

\* Cancelling the context wakes the session's goroutine.
handleStopSession ==
  /\ Dispatch("stop_session")
  /\ LET c == Head(recv) s == SubjectOf[c] IN
     \/ /\ Reply(<<"nack">>)
        /\ UNCHANGED <<sessions, ttl, done>>
     \/ /\ s \in sessions
        /\ sessions' = sessions \ {s}
        /\ ttl' = [ttl EXCEPT ![s] = IF @ = "waiting" THEN "woken" ELSE @]
        /\ done' = done \cup {c}
        /\ Reply(Accepted)
  /\ UNCHANGED <<sent, bridges, proc, answers, earlyExit>>

TTLElapses(s) ==
  /\ ttl[s] = "waiting"
  /\ ttl' = [ttl EXCEPT ![s] = "woken"]
  /\ UNCHANGED <<recv, sent, step, current, replies, sessions, bridges, proc, answers, done, earlyExit>>

\* The woken goroutine takes the mutex and deletes the entry if it is there.
ExpireSession(s) ==
  /\ ttl[s] = "woken"
  /\ MutexFree
  /\ ttl' = [ttl EXCEPT ![s] = "exited"]
  /\ sessions' = sessions \ {s}
  /\ UNCHANGED <<recv, sent, step, current, replies, bridges, proc, answers, done, earlyExit>>

-----------------------------------------------------------------------------
(* Bridges.  A process that exited stays a zombie until Stop waits for it:  *)
(* nothing else calls Wait.                                                 *)

Unreaped == {"running", "exited", "terminating", "killed"}

\* IsRunning sends signal 0, which an unreaped child accepts.
IsRunning(b) == proc[b] \in Unreaped

\* The existence check, Validate and cmd.Start, which may fail: the binary or
\* the serial port is missing, the TCP port taken by another bridge or program.
handleStartMBUSD ==
  /\ Dispatch("start_mbusd")
  /\ LET b == SubjectOf[Head(recv)] IN
     \/ /\ Reply(<<"nack">>)
        /\ UNCHANGED proc
     \/ /\ b \notin bridges
        /\ proc' = [proc EXCEPT ![b] = "running"]
        /\ step' = "starting"
        /\ UNCHANGED replies
  /\ UNCHANGED <<sent, sessions, ttl, bridges, answers, done, earlyExit>>

\* Mutant: the caller does not look at Start's error, an early return away
\* from the insertion.
StartupWaitedUnregistered ==
  /\ step = "starting"
  /\ Reply(Accepted)
  /\ UNCHANGED <<recv, sent, current, registries, answers, done, earlyExit>>

\* After the startup wait: the IsRunning check and the insertion.
StartupWaited ==
  /\ step = "starting"
  /\ IF IsRunning(Subject)
     THEN /\ bridges' = bridges \cup {Subject}
          /\ done' = done \cup {current}
          /\ Reply(Accepted)
     ELSE /\ Reply(<<"nack">>)
          /\ UNCHANGED <<bridges, done>>
  /\ UNCHANGED <<recv, sent, current, sessions, ttl, proc, answers, earlyExit>>

\* Mutant: the entry is deleted before Stop is known to have worked.
handleStopMBUSDForgets ==
  /\ Dispatch("stop_mbusd")
  /\ LET b == SubjectOf[Head(recv)] IN
     \/ /\ Reply(<<"nack">>)
        /\ UNCHANGED proc
     \/ /\ b \in bridges /\ IsRunning(b)
        /\ proc' = [proc EXCEPT ![b] = IF @ = "running" THEN "terminating" ELSE @]
        /\ step' = "stopping"
        /\ UNCHANGED replies
  /\ bridges' = bridges \ {SubjectOf[Head(recv)]}
  /\ UNCHANGED <<sent, sessions, ttl, answers, done, earlyExit>>

\* The lookup and Stop up to its wait: SIGTERM to the process group, else kill;
\* if both fail the entry stays and the error is returned.
handleStopMBUSD ==
  /\ Dispatch("stop_mbusd")
  /\ LET b == SubjectOf[Head(recv)] IN
     \/ /\ Reply(<<"nack">>)
        /\ UNCHANGED proc
     \/ /\ b \in bridges /\ IsRunning(b)
        /\ proc' = [proc EXCEPT ![b] = IF @ = "running" THEN "terminating" ELSE @]
        /\ step' = "stopping"
        /\ UNCHANGED replies
  /\ UNCHANGED <<sent, sessions, ttl, bridges, answers, done, earlyExit>>

\* Mutant: Stop waits for the process without a time limit.
StopWaitedUnbounded ==
  /\ step = "stopping"
  /\ proc[Subject] = "exited"
  /\ proc' = [proc EXCEPT ![Subject] = "gone"]
  /\ bridges' = bridges \ {Subject}
  /\ done' = done \cup {current}
  /\ Reply(Accepted)
  /\ UNCHANGED <<recv, sent, current, sessions, ttl, answers, earlyExit>>

\* Wait has reaped the process, or five seconds have passed and it is killed:
\* either way Stop returns nil and the entry goes.
StopWaited ==
  /\ step = "stopping"
  /\ proc' = [proc EXCEPT ![Subject] = IF @ = "exited" THEN "gone" ELSE "killed"]
  /\ bridges' = bridges \ {Subject}
  /\ done' = done \cup {current}
  /\ Reply(Accepted)
  /\ UNCHANGED <<recv, sent, current, sessions, ttl, answers, earlyExit>>

\* mbusd ends: by itself, on SIGTERM, or on SIGKILL (then the goroutine still
\* in Wait reaps it).
ProcessExits(b) ==
  /\ proc[b] \in {"running", "terminating", "killed"}
  /\ proc' = [proc EXCEPT ![b] = IF @ = "killed" THEN "gone" ELSE "exited"]
  /\ earlyExit' = IF step = "starting" /\ Subject = b THEN earlyExit \cup {b} ELSE earlyExit
  /\ UNCHANGED <<recv, sent, step, current, replies, sessions, ttl, bridges, answers, done>>

-----------------------------------------------------------------------------
(* The commands that touch no registry.                                     *)

handleHealthPing ==
  /\ Dispatch("health_ping")
  /\ Reply(<<"ack">>)
  /\ UNCHANGED <<sent, registries, answers, done, earlyExit>>

\* A sync is answered by an inventory event and, unlike every other command,
\* by no acknowledgement; it fails while the scanner has no inventory yet.
handleSyncInventory ==
  /\ Dispatch("sync_inventory")
  /\ (Reply(<<"event">>) \/ Reply(<<"nack">>))
  /\ UNCHANGED <<sent, registries, answers, done, earlyExit>>

\* An unknown type is logged and not answered.
IgnoreUnknown ==
  /\ step = "idle"
  /\ recv # <<>>
  /\ KindOf[Head(recv)] = "refresh_capabilities"
  /\ recv' = Tail(recv)
  /\ UNCHANGED <<sent, step, current, replies, registries, answers, done, earlyExit>>

-----------------------------------------------------------------------------
(* Answers.  Send never blocks: a full channel drops the message.  A lost   *)
(* acknowledgement is only logged; a lost event is the handler's error, and *)
(* a negative acknowledgement follows.                                      *)

ReplyRecorded(message) ==
  acks' = IF message = "event" THEN acks ELSE acks \cup {<<current, message = "ack">>}

SendReply ==
  /\ step = "replying"
  /\ LET message == Head(replies)
         rest    == IF outbox = SendBuffer /\ message = "event" THEN <<"nack">> ELSE Tail(replies)
     IN  /\ IF outbox < SendBuffer
            THEN /\ outbox' = outbox + 1
                 /\ ReplyRecorded(message)
                 /\ UNCHANGED dropped
            ELSE /\ dropped' = dropped \cup {current}
                 /\ UNCHANGED <<outbox, acks>>
         /\ replies' = rest
         /\ step' = IF rest = <<>> THEN "idle" ELSE "replying"
         /\ current' = IF rest = <<>> THEN None ELSE current
  /\ UNCHANGED <<recv, sent, registries, done, earlyExit>>

\* The counters are read under the mutex, the message is sent after it.
Heartbeat ==
  /\ outbox < SendBuffer
  /\ outbox' = outbox + 1
  /\ UNCHANGED <<recv, sent, step, current, replies, registries, acks, dropped, done, earlyExit>>

-----------------------------------------------------------------------------
(* The environment: the hub's pumps.                                        *)

Receive(c) ==
  /\ c \notin sent /\ Cardinality(sent) < MaxSent
  /\ Len(recv) < RecvBuffer
  /\ sent' = sent \cup {c}
  /\ recv' = Append(recv, c)
  /\ UNCHANGED <<step, current, replies, registries, answers, done, earlyExit>>

Transmit ==
  /\ outbox > 0
  /\ outbox' = outbox - 1
  /\ UNCHANGED <<recv, sent, step, current, replies, registries, acks, dropped, done, earlyExit>>

-----------------------------------------------------------------------------
Handle ==
  \/ handleStartSession \/ handleStopSession \/ handleStartMBUSD \/ handleStopMBUSD
  \/ handleHealthPing \/ handleSyncInventory \/ IgnoreUnknown
  \/ StartupWaited \/ StopWaited \/ SendReply

\* The agent ends and its container starts again: the agent is the first process
\* of the container, so every mbusd is killed with it.
Restart ==
  /\ recv' = <<>>
  /\ step' = "idle" /\ current' = None /\ replies' = <<>>
  /\ sessions' = {} /\ ttl' = [s \in Sessions |-> IF ttl[s] = "none" THEN "none" ELSE "exited"]
  /\ bridges' = {} /\ proc' = [b \in Bridges |-> IF proc[b] = "none" THEN "none" ELSE "gone"]
  /\ outbox' = 0
  /\ dropped' = dropped \cup {c \in Commands : c = current \/ \E i \in 1..Len(recv) : recv[i] = c}
  /\ UNCHANGED <<sent, acks, done, earlyExit>>

Next ==
  \/ Handle \/ Restart
  \/ \E s \in Sessions : TTLElapses(s) \/ ExpireSession(s)
  \/ \E b \in Bridges : ProcessExits(b)
  \/ Heartbeat
  \/ \E c \in Commands : Receive(c)
  \/ Transmit

\* The dispatcher and the expiry goroutines are scheduled, timers fire, and a
\* killed process dies.  Locking: a goroutine waiting for a Go mutex is not
\* starved by the dispatcher, which takes and releases it again and again (SF).
\* Nothing obliges the link to drain the send channel or mbusd to exit.
Fairness ==
  /\ WF_vars(Handle)
  /\ \A s \in Sessions : WF_vars(TTLElapses(s)) /\ SF_vars(ExpireSession(s))

Spec == Init /\ [][Next]_vars /\ Fairness

-----------------------------------------------------------------------------
(* Properties.                                                              *)

TypeOK ==
  /\ recv \in Seq(Commands) /\ Len(recv) <= RecvBuffer
  /\ sent \subseteq Commands
  /\ step \in Steps
  /\ current \in Commands \cup {None}
  /\ replies \in {<<>>, <<"nack">>, <<"ack">>, <<"event">>, Accepted}
  /\ sessions \subseteq Sessions
  /\ ttl \in [Sessions -> {"none", "waiting", "woken", "exited"}]
  /\ bridges \subseteq Bridges
  /\ proc \in [Bridges -> ProcStates]
  /\ outbox \in 0..SendBuffer
  /\ acks \subseteq Commands \X BOOLEAN
  /\ dropped \subseteq sent
  /\ done \subseteq sent
  /\ earlyExit \subseteq Bridges

\* Every registered session has an expiry goroutine that will still remove it,
\* and no goroutine waits out the TTL of a session that was stopped.
TimersMatchSessions ==
  \A s \in Sessions :
    /\ s \in sessions => ttl[s] \in {"waiting", "woken"}
    /\ ttl[s] = "waiting" => s \in sessions

\* An mbusd process that lives without having been told to end is registered
\* or being registered: none is left behind by a start or stop that failed.
NoProcessForgotten ==
  \A b \in Bridges :
    proc[b] \in {"running", "terminating"} => b \in bridges \/ (step = "starting" /\ Subject = b)

\* A registered bridge has a child process that nobody has waited for, so Stop
\* signals a process of ours and never a reused process id.
RegisteredUnreaped == \A b \in bridges : IsRunning(b)

ProcessesTracked == NoProcessForgotten /\ RegisteredUnreaped

\* A positive acknowledgement means the command took effect, a negative one
\* that it did not, unless the channel was full between the two messages of
\* the command: then the control plane is told both.
AckTruthful ==
  \A c \in Commands :
    /\ <<c, TRUE>> \in acks => c \in done \/ KindOf[c] = "health_ping"
    /\ <<c, FALSE>> \in acks => c \notin done \/ c \in dropped

\* Start "is applied to detect immediate exits" of mbusd: a bridge whose process
\* ended during the startup wait is not registered and reported as started.
StartDetectsExit == bridges \cap earlyExit = {}

\* A session leaves the registry, whatever the control plane sends or fails to
\* send and however busy the dispatcher is.
SessionsEnd == \A s \in Sessions : s \in sessions ~> s \notin sessions

Answered(c) == c \in dropped \/ \E success \in BOOLEAN : <<c, success>> \in acks

\* Every command of a type that is acknowledged is answered, or it or one of its
\* messages was dropped: a bridge that does not stop delays the commands
\* behind it but blocks none.
CommandsAnswered ==
  \A c \in Commands :
    KindOf[c] \notin {"sync_inventory", "refresh_capabilities"} => c \in sent ~> Answered(c)
=============================================================================
