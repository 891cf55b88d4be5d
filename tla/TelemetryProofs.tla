-------------------------- MODULE TelemetryProofs --------------------------
(***************************************************************************)
(* The mapping of the laptop helper is released exactly once, and its      *)
(* telemetry replaces the session's in the order of the checks but for two *)
(* races, for every set of forwarded connections and any number of checks. *)
(***************************************************************************)
EXTENDS Telemetry, TLAPS

-----------------------------------------------------------------------------
(* The mapping by itself.                                                   *)

\* Whoever is about to cancel and close has removed the entry.
CloserRemovedEntry == \A p \in Stoppers : at[p] = "closing" => ~registered

\* The inductive invariant.  ReleasedOnce does not say who may be closing while
\* the entry is there, so StopMapping could add a second closer.
IInv == TypeOK /\ ReleasedOnce /\ CloserRemovedEntry

\* Every step keeps the types.
LEMMA TypeStep == TypeOK /\ [Next]_vars => TypeOK'
<1> SUFFICES ASSUME TypeOK, [Next]_vars PROVE TypeOK'
  OBVIOUS
<1> USE DEF TypeOK, Places, Goes
<1>1. ASSUME NEW p \in Stoppers, StopMapping(p) PROVE TypeOK'
  BY <1>1 DEF StopMapping
<1>2. ASSUME NEW p \in Stoppers, CancelAndClose(p) PROVE TypeOK'
  BY <1>2 DEF CancelAndClose
<1>3. CASE Deadline           BY <1>3 DEF Deadline
<1>4. CASE Expired            BY <1>4 DEF Expired
<1>5. CASE watchExpiry        BY <1>5 DEF watchExpiry
<1>6. CASE AcceptError        BY <1>6 DEF AcceptError
<1>7. ASSUME NEW c \in Conns, Accept(c) PROVE TypeOK'
  BY <1>7 DEF Accept
<1>8. ASSUME NEW c \in Conns, Forward(c) \/ DialError(c) PROVE TypeOK'
  BY <1>8 DEF Forward, DialRemote, DialError, PipeEnds, CloseOnDone, Turns
<1>9. CASE Signal             BY <1>9 DEF Signal
<1>10. CASE runMapInterrupted BY <1>10 DEF runMapInterrupted
<1>11. CASE runMapEnded       BY <1>11 DEF runMapEnded
<1>12. CASE StopSession       BY <1>12 DEF StopSession
<1>13. CASE StopAll           BY <1>13 DEF StopAll
<1>14. CASE Exit              BY <1>14 DEF Exit
<1>15. CASE UNCHANGED vars    BY <1>15 DEF vars
<1>16. QED
  BY <1>1, <1>2, <1>3, <1>4, <1>5, <1>6, <1>7, <1>8, <1>9, <1>10, <1>11, <1>12, <1>13,
     <1>14, <1>15 DEF Next, Step

\* Only StopMapping and CancelAndClose touch the entry or the listener; any
\* other step leaves both, and whoever is closing, alone.
OthersLeaveRelease ==
  /\ UNCHANGED <<registered, listener>>
  /\ \A p \in Stoppers : at'[p] = "closing" <=> at[p] = "closing"

LEMMA OtherStep ==
  ASSUME TypeOK, [Next]_vars,
         \A p \in Stoppers : ~StopMapping(p) /\ ~CancelAndClose(p)
  PROVE  OthersLeaveRelease
<1> USE DEF TypeOK, Places, Goes, OthersLeaveRelease
<1>1. CASE Deadline \/ AcceptError \/ Signal \/ Exit
  BY <1>1 DEF Deadline, AcceptError, Signal, Exit
<1>2. CASE Expired \/ watchExpiry
  BY <1>2 DEF Expired, watchExpiry
<1>3. CASE runMapInterrupted \/ runMapEnded \/ StopSession \/ StopAll
  BY <1>3 DEF runMapInterrupted, runMapEnded, StopSession, StopAll
<1>4. ASSUME NEW c \in Conns, Accept(c) \/ Forward(c) \/ DialError(c) PROVE OthersLeaveRelease
  BY <1>4 DEF Accept, Forward, DialRemote, DialError, PipeEnds, CloseOnDone, Turns
<1>5. CASE UNCHANGED vars
  BY <1>5 DEF vars
<1>6. QED BY <1>1, <1>2, <1>3, <1>4, <1>5 DEF Next, Step

\* Every step keeps the inductive invariant.
LEMMA InvariantStep == IInv /\ [Next]_vars => IInv'
<1> SUFFICES ASSUME IInv, [Next]_vars PROVE (ReleasedOnce /\ CloserRemovedEntry)'
  BY TypeStep DEF IInv
<1> USE DEF IInv, TypeOK, ReleasedOnce, CloserRemovedEntry
<1>1. ASSUME NEW p \in Stoppers, StopMapping(p) PROVE (ReleasedOnce /\ CloserRemovedEntry)'
  BY <1>1 DEF StopMapping, Goes
<1>2. ASSUME NEW p \in Stoppers, CancelAndClose(p) PROVE (ReleasedOnce /\ CloserRemovedEntry)'
  BY <1>2 DEF CancelAndClose, Goes
<1>3. CASE \A p \in Stoppers : ~StopMapping(p) /\ ~CancelAndClose(p)
  BY <1>3, OtherStep DEF OthersLeaveRelease
<1>4. QED BY <1>1, <1>2, <1>3

\* It holds when the mapping starts.
LEMMA InvariantInit == Init => IInv
  BY DEF Init, IInv, TypeOK, Places, ReleasedOnce, CloserRemovedEntry

\* Every state satisfies the inductive invariant.
THEOREM Invariance == Spec => []IInv
  BY InvariantInit, InvariantStep, PTL DEF Spec

\* Expiry, the map command and the shutdown hook may all stop the mapping: its
\* port stays bound exactly as long as it is registered or being closed, by one
\* of them only.
THEOREM ReleaseIsExact == Spec => []ReleasedOnce
<1>1. IInv => ReleasedOnce
  BY DEF IInv
<1>2. QED BY Invariance, <1>1, PTL

-----------------------------------------------------------------------------
(* The mapping with its telemetry.                                          *)

\* Every step of Telemetry is a step of the mapping, or leaves it alone.
LEMMA StepsOfMapping == [TelemetryNext]_allVars => [Next]_vars
<1> SUFFICES ASSUME [TelemetryNext]_allVars PROVE [Next]_vars
  OBVIOUS
<1>1. CASE ~exited /\ MappingStep
  BY <1>1 DEF MappingStep, Next
<1>2. CASE runProbe \/ updateProbeState \/ sendTelemetrySnapshot \/ TimeOut
  BY <1>2 DEF runProbe, updateProbeState, sendTelemetrySnapshot, TimeOut
<1>3. ASSUME NEW c \in Conns, DialRefused(c) PROVE [Next]_vars
  BY <1>3 DEF DialRefused
<1>4. ASSUME NEW c \in Conns, ~exited, NoteAndClose(c) PROVE [Next]_vars
  BY <1>4 DEF NoteAndClose, Next
<1>5. ASSUME NEW s \in Slots, RequestFails(s) \/ UpdateSessionTelemetry(s) PROVE [Next]_vars
  BY <1>5 DEF RequestFails, UpdateSessionTelemetry
<1>6. CASE UNCHANGED allVars
  BY <1>6 DEF allVars
<1>7. QED BY <1>1, <1>2, <1>3, <1>4, <1>5, <1>6 DEF TelemetryNext

\* The port is therefore released once in the presence of probes, failed dials
\* and reports too.
THEOREM ReleasedOnceWithTelemetry == TelemetrySpec => []ReleasedOnce
<1>1. TelemetryInit => Init
  BY DEF TelemetryInit
<1>2. IInv => ReleasedOnce
  BY DEF IInv
<1>3. QED BY <1>1, <1>2, StepsOfMapping, InvariantInit, InvariantStep, PTL DEF TelemetrySpec

-----------------------------------------------------------------------------
\* The variables of the reports have their types; a check is a number.
ReportTypes ==
  /\ clock \in Nat /\ shown \in Nat /\ audit \in Nat
  /\ checked \in [Writers -> Nat]
  /\ request \in [Slots -> Nat]

\* The inductive invariant.  Until one of the two races has happened, the row
\* is no newer than the report on its way, which is no newer than the mapping.
InOrder ==
  /\ ~abandoned => request["stray"] = None
  /\ ~overtaken /\ ~abandoned =>
       /\ audit <= shown
       /\ request["current"] # None =>
            audit <= request["current"] /\ request["current"] <= shown

ReportInv == ReportTypes /\ InOrder

\* Every step keeps the order of the reports.
LEMMA ReportStep == ReportInv /\ [TelemetryNext]_allVars => ReportInv'
<1> SUFFICES ASSUME ReportInv, [TelemetryNext]_allVars PROVE ReportInv'
  OBVIOUS
<1>0. None \in Nat
  BY TelemetryAssumption DEF None
<1> USE <1>0 DEF ReportInv, ReportTypes, InOrder, Slots, Pending
<1>1. CASE MappingStep
  BY <1>1 DEF MappingStep, telemetry
<1>2. ASSUME NEW w \in Writers, Check(w) PROVE ReportInv'
  BY <1>2 DEF Check
<1>3. ASSUME NEW w \in Writers, Notes(w) PROVE ReportInv'
  <2>1. ReportTypes'
    BY <1>3 DEF Notes
  <2>2. CASE registered /\ ~(checked[w] < shown)
    <3>1. shown <= shown' /\ UNCHANGED <<audit, request, abandoned>>
      BY <1>3, <2>2 DEF Notes
    <3>2. overtaken => overtaken'
      BY <1>3 DEF Notes
    <3>3. QED BY <2>1, <3>1, <3>2
  <2>3. CASE ~registered
    BY <1>3, <2>1, <2>3 DEF Notes
  <2>4. CASE registered /\ checked[w] < shown
    <3>1. overtaken'
      BY <1>3, <2>4 DEF Notes
    <3>2. QED BY <1>3, <2>1, <3>1 DEF Notes
  <2>5. QED BY <2>2, <2>3, <2>4
<1>4. CASE sendTelemetrySnapshot
  BY <1>4 DEF sendTelemetrySnapshot
<1>5. CASE TimeOut
  BY <1>5 DEF TimeOut
<1>6. ASSUME NEW s \in Slots, RequestFails(s) PROVE ReportInv'
  BY <1>6 DEF RequestFails
<1>7. ASSUME NEW s \in Slots, UpdateSessionTelemetry(s) PROVE ReportInv'
  BY <1>7 DEF UpdateSessionTelemetry
<1>8. CASE UNCHANGED allVars
  BY <1>8 DEF allVars, telemetry
<1>9. QED
  BY <1>1, <1>2, <1>3, <1>4, <1>5, <1>6, <1>7, <1>8
  DEF TelemetryNext, runProbe, updateProbeState, DialRefused, NoteAndClose, Writers

\* While neither race has happened, no update makes the row older.
LEMMA RowGrows ==
  ASSUME ReportInv, [TelemetryNext]_allVars
  PROVE  [audit' < audit => overtaken \/ abandoned]_allVars
<1> SUFFICES ASSUME ~overtaken, ~abandoned PROVE ~(audit' < audit)
  OBVIOUS
<1> USE DEF ReportInv, ReportTypes, InOrder, Slots
<1>1. CASE UNCHANGED audit
  BY <1>1
<1>2. ASSUME NEW s \in Slots, UpdateSessionTelemetry(s) PROVE ~(audit' < audit)
  BY <1>2 DEF UpdateSessionTelemetry
<1>3. QED
  BY <1>1, <1>2
  DEF TelemetryNext, MappingStep, telemetry, runProbe, updateProbeState, DialRefused, NoteAndClose,
      Check, Notes, sendTelemetrySnapshot, TimeOut, RequestFails, allVars

\* An older check replaces a newer one in the session's row only after a race
\* for the mapper's lock or a request that the reporter gave up.
THEOREM ReportsKeepOrder == TelemetrySpec => TelemetryInOrder
<1>1. TelemetryInit => ReportInv
  <2> SUFFICES ASSUME TelemetryInit PROVE ReportInv
    OBVIOUS
  <2>1. None \in Nat
    BY TelemetryAssumption DEF None
  <2>2. ReportTypes
    BY <2>1 DEF TelemetryInit, ReportTypes, Pending
  <2>3. InOrder
    BY DEF TelemetryInit, InOrder, Slots, Pending
  <2>4. QED BY <2>2, <2>3 DEF ReportInv
<1>2. QED BY <1>1, ReportStep, RowGrows, PTL DEF TelemetrySpec, TelemetryInOrder

-----------------------------------------------------------------------------
\* What is noted, shown, reported or stored is a check that has been dated.
Dated ==
  /\ clock \in 0..MaxChecks
  /\ checked \in [Writers -> 0..clock]
  /\ shown \in 0..clock /\ audit \in 0..clock
  /\ request \in [Slots -> 0..clock \cup {None}]
  /\ overtaken \in BOOLEAN /\ abandoned \in BOOLEAN

\* A check that is dated later than all before it leaves those as they are.
LEMMA CheckStep ==
  ASSUME Dated, NEW w \in Writers, Check(w)
  PROVE  Dated'
<1>1. MaxChecks \in Nat /\ clock \in Nat /\ clock' = clock + 1 /\ clock' \in 0..MaxChecks
  BY TelemetryAssumption DEF Dated, Check
<1>2. 0..clock \subseteq 0..clock' /\ clock + 1 \in 0..clock'
  BY <1>1
<1>3. checked' = [checked EXCEPT ![w] = clock + 1] /\ UNCHANGED <<shown, request, audit, overtaken, abandoned>>
  BY DEF Check
<1>4. checked' \in [Writers -> 0..clock']
  BY <1>2, <1>3 DEF Dated
<1>5. request' \in [Slots -> 0..clock' \cup {None}]
  BY <1>2, <1>3 DEF Dated
<1>6. QED BY <1>1, <1>2, <1>3, <1>4, <1>5 DEF Dated

LEMMA NotesStep ==
  ASSUME Dated, registered \in BOOLEAN, NEW w \in Writers, Notes(w)
  PROVE  Dated'
<1>1. /\ clock' = clock /\ checked' = [checked EXCEPT ![w] = Pending]
      /\ shown' \in {shown, checked[w]}
      /\ UNCHANGED <<request, audit, abandoned>>
  BY DEF Notes
<1>2. overtaken' \in BOOLEAN
  BY DEF Notes
<1>3. Pending \in 0..clock /\ checked[w] \in 0..clock
  BY TelemetryAssumption DEF Dated, Pending
<1>4. QED BY <1>1, <1>2, <1>3 DEF Dated

\* Every step keeps the types, those of the mapping included.
LEMMA TelemetryTypeStep == TelemetryTypeOK /\ [TelemetryNext]_allVars => TelemetryTypeOK'
<1> SUFFICES ASSUME TelemetryTypeOK, [TelemetryNext]_allVars PROVE TelemetryTypeOK'
  OBVIOUS
<1>1. Dated /\ TypeOK /\ registered \in BOOLEAN
  BY DEF TelemetryTypeOK, Dated, TypeOK
<1>2. TypeOK'
  BY <1>1, StepsOfMapping, TypeStep
<1>3. ASSUME MappingStep \/ UNCHANGED allVars PROVE Dated'
  BY <1>1, <1>3 DEF MappingStep, telemetry, allVars, Dated
<1>4. ASSUME NEW w \in Writers, Check(w) \/ Notes(w) PROVE Dated'
  BY <1>1, <1>4, CheckStep, NotesStep
<1>5. ASSUME sendTelemetrySnapshot \/ TimeOut PROVE Dated'
  <2>1. /\ UNCHANGED <<clock, checked, shown, audit, overtaken>> /\ abandoned' \in BOOLEAN
        /\ \/ request' = [request EXCEPT !["current"] = shown]
           \/ request' = [current |-> None, stray |-> request["current"]]
    BY <1>1, <1>5 DEF sendTelemetrySnapshot, TimeOut, Dated
  <2>2. request' \in [Slots -> 0..clock \cup {None}]
    BY <1>1, <2>1 DEF Dated, Slots
  <2>3. QED BY <1>1, <2>1, <2>2 DEF Dated
<1>6. ASSUME NEW s \in Slots, RequestFails(s) \/ UpdateSessionTelemetry(s) PROVE Dated'
  BY <1>1, <1>6 DEF RequestFails, UpdateSessionTelemetry, Dated, Slots
<1>7. Dated'
  BY <1>3, <1>4, <1>5, <1>6
  DEF TelemetryNext, runProbe, updateProbeState, DialRefused, NoteAndClose, Writers
<1>8. QED BY <1>2, <1>7 DEF TelemetryTypeOK, Dated

\* Nothing that is reported or stored is newer than the newest check, and the
\* mapping below keeps its types.
THEOREM TelemetryTypeCorrect == TelemetrySpec => []TelemetryTypeOK
<1>1. TelemetryInit => TelemetryTypeOK
  <2> SUFFICES ASSUME TelemetryInit PROVE TelemetryTypeOK
    OBVIOUS
  <2>1. TypeOK
    BY InvariantInit DEF TelemetryInit, IInv
  <2>2. Dated
    <3>1. clock = 0 /\ 0..clock = {0} /\ clock \in 0..MaxChecks
      BY TelemetryAssumption DEF TelemetryInit
    <3>2. QED BY <3>1 DEF TelemetryInit, Dated, Pending
  <2>3. QED BY <2>1, <2>2 DEF TelemetryTypeOK, Dated
<1>2. QED BY <1>1, TelemetryTypeStep, PTL DEF TelemetrySpec
=============================================================================
