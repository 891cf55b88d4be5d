----------------------------- MODULE Telemetry -----------------------------
(***************************************************************************)
(* The state of an exported connection on its way from the helper's probes *)
(* to the session's row: the probe loop and updateProbeState of            *)
(* tools/windows-helper/internal/mapper.go, the reporter of                *)
(* cmd/commands/map.go, and UpdateSessionTelemetry of                      *)
(* apps/api/internal/session/handler.go, around the mapping of PortMapper. *)
(*                                                                         *)
(* Checks of the remote endpoint are numbered as they are dated.  A check  *)
(* is dated before its goroutine gets the mapper's lock.  What an update    *)
(* reads of the session's row does not change after its creation, but for  *)
(* the telemetry it replaces: reading and writing are one step.            *)
(***************************************************************************)
EXTENDS PortMapper

CONSTANTS
  NullReadable,  \* the driver can scan a NULL stop_reason into a string
  MaxChecks      \* bound: checks of the remote endpoint

ASSUME TelemetryAssumption ==
  NullReadable \in BOOLEAN /\ MaxChecks \in Nat

VARIABLES
  clock,     \* number of checks dated
  checked,   \* probe loop, connection |-> its check not yet noted, or Pending
  shown,     \* the mapping's LastCheckedAt
  request,   \* the reporter's request and one it has given up: report or None
  audit,     \* the telemetry in the session's audit document
  overtaken, \* history: a check was noted after one that is dated later
  abandoned  \* history: the reporter gave a request up that the API had

telemetry == <<clock, checked, shown, request, audit, overtaken, abandoned>>

Pending == 0
Prober  == "probeLoop"
Writers == {Prober} \cup Conns
Slots   == {"current", "stray"}
None    == MaxChecks + 1

TelemetryInit ==
  /\ Init
  /\ clock = 0
  /\ checked = [w \in Writers |-> Pending]
  /\ shown = Pending
  /\ request = [s \in Slots |-> None]
  /\ audit = Pending
  /\ overtaken = FALSE /\ abandoned = FALSE

-----------------------------------------------------------------------------
(* The probe loop and the dials.                                            *)

\* Mutant: the date is that of the next check, not of this one.
CheckScheduled(w) ==
  /\ clock < MaxChecks
  /\ checked[w] = Pending
  /\ clock' = clock + 1
  /\ checked' = [checked EXCEPT ![w] = clock + 2]
  /\ UNCHANGED <<shown, request, audit, overtaken, abandoned>>

\* The dial has ended and time.Now has been read.
Check(w) ==
  /\ clock < MaxChecks
  /\ checked[w] = Pending
  /\ clock' = clock + 1
  /\ checked' = [checked EXCEPT ![w] = clock + 1]
  /\ UNCHANGED <<shown, request, audit, overtaken, abandoned>>

\* Until the loop sees that the context has ended.
runProbe == Check(Prober) /\ UNCHANGED vars

\* forwardTCP could not connect.
DialRefused(c) == conn[c] = "dialing" /\ Check(c) /\ UNCHANGED vars

\* Under the lock, and only while the mapping is registered.
Notes(w) ==
  /\ checked[w] # Pending
  /\ checked' = [checked EXCEPT ![w] = Pending]
  /\ shown' = IF registered THEN checked[w] ELSE shown
  /\ overtaken' = (overtaken \/ (registered /\ checked[w] < shown))
  /\ UNCHANGED <<clock, request, audit, abandoned>>

updateProbeState == Notes(Prober) /\ UNCHANGED vars

\* The check of a dial that failed is noted and the connection closed.
NoteAndClose(c) == Notes(c) /\ DialError(c)

-----------------------------------------------------------------------------
(* The reporter, one request after the other until runMap stops it.         *)

Reporting == registered /\ at[Loop] = "waiting"

\* Mutant: the reporter does not wait for the answer.
SendSnapshotAsync ==
  /\ Reporting
  /\ request["stray"] = None
  /\ request' = [current |-> shown, stray |-> request["current"]]
  /\ UNCHANGED <<vars, clock, checked, shown, audit, overtaken, abandoned>>

sendTelemetrySnapshot ==
  /\ Reporting
  /\ request["current"] = None
  /\ request' = [request EXCEPT !["current"] = shown]
  /\ UNCHANGED <<vars, clock, checked, shown, audit, overtaken, abandoned>>

\* After 15 seconds the reporter goes on, and so may the API; at most one
\* request is left behind at a time.
TimeOut ==
  /\ request["current"] # None /\ request["stray"] = None
  /\ request' = [current |-> None, stray |-> request["current"]]
  /\ abandoned' = TRUE
  /\ UNCHANGED <<vars, clock, checked, shown, audit, overtaken>>

-----------------------------------------------------------------------------
(* UpdateSessionTelemetry.                                                  *)

\* The request is lost, or a statement fails.
RequestFails(s) ==
  /\ request[s] # None
  /\ request' = [request EXCEPT ![s] = None]
  /\ UNCHANGED <<vars, clock, checked, shown, audit, overtaken, abandoned>>

\* The session may have been stopped.  Without NullReadable the row of an
\* active one is never read.
UpdateSessionTelemetry(s) ==
  /\ NullReadable
  /\ request[s] # None
  /\ audit' = request[s]
  /\ request' = [request EXCEPT ![s] = None]
  /\ UNCHANGED <<vars, clock, checked, shown, overtaken, abandoned>>

-----------------------------------------------------------------------------
\* A dial that has been refused only notes it and closes.
Refused == {c \in Conns : checked[c] # Pending}

MappingStep ==
  /\ Step
  /\ \A c \in Refused : conn'[c] = conn[c]
  /\ UNCHANGED telemetry

\* The API goes on when the helper's process has ended.
TelemetryNext ==
  \/ /\ ~exited
     /\ \/ MappingStep
        \/ runProbe \/ updateProbeState
        \/ \E c \in Conns : DialRefused(c) \/ NoteAndClose(c)
        \/ sendTelemetrySnapshot \/ TimeOut
  \/ \E s \in Slots : RequestFails(s) \/ UpdateSessionTelemetry(s)

allVars == <<vars, telemetry>>

\* The goroutines of the mapping run; nothing is asked of the probes and the
\* reports.  How far off the deadline is, nobody knows.
TelemetryFairness ==
  /\ \A p \in Stoppers : WF_allVars(StopMapping(p) /\ UNCHANGED telemetry)
                         /\ WF_allVars(CancelAndClose(p) /\ UNCHANGED telemetry)
  /\ WF_allVars(Expired /\ UNCHANGED telemetry)
  /\ WF_allVars(watchExpiry /\ UNCHANGED telemetry)
  /\ WF_allVars((runMapInterrupted \/ runMapEnded) /\ UNCHANGED telemetry)
  /\ WF_allVars(StopSession /\ UNCHANGED telemetry)
  /\ WF_allVars(StopAll /\ UNCHANGED telemetry) /\ WF_allVars(Exit /\ UNCHANGED telemetry)

TelemetrySpec == TelemetryInit /\ [][TelemetryNext]_allVars /\ TelemetryFairness

-----------------------------------------------------------------------------
(* Properties.                                                              *)

TelemetryTypeOK ==
  /\ TypeOK
  /\ clock \in 0..MaxChecks
  /\ checked \in [Writers -> 0..clock]
  /\ shown \in 0..clock /\ audit \in 0..clock
  /\ request \in [Slots -> 0..clock \cup {None}]
  /\ overtaken \in BOOLEAN /\ abandoned \in BOOLEAN

\* The session's row goes back to an older check only if the reporter gave up a
\* request that the API still carried out, or the mapping itself went back
\* because a probe and a dial raced for the lock.  It says nothing while
\* NullReadable is FALSE: no report gets as far as the row then.
TelemetryInOrder == [][audit' < audit => overtaken \/ abandoned]_allVars
=============================================================================
