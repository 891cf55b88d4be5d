---------------------------- MODULE PortalProofs ----------------------------
(***************************************************************************)
(* The three safety properties of the control plane's sessions and         *)
(* bridges, for every set of sessions, bridges, stop requests and ports,   *)
(* whether or not the driver can scan a NULL.                              *)
(***************************************************************************)
EXTENDS Portal, TLAPS

Checked(b) == starting[b] \in {"checked", "upserted"}

\* A row exists from the INSERT of its own request on, and not before.
RowsOfRequests ==
  /\ \A s \in Sessions :
       /\ creating[s] \in {"idle", "resolved"} => session[s] = "none"
       /\ creating[s] = "inserted" => session[s] # "none"
       /\ creating[s] # "idle" => endpoint[s] \in Ports
  /\ \A b \in Bridges :
       /\ starting[b] = "idle" \/ Checked(b) => bridge[b] = "none"
       /\ starting[b] = "inserted" => bridge[b] # "none"

\* What a stop request has done by the place it has reached.
StopsProgress ==
  \A r \in Stops :
    /\ stop[r] = "idle" => target[r] = None
    /\ stop[r] \in {"idle", "fetched", "stopped", "notified"} => victim[r] = None
    /\ target[r] \in Sessions => session[target[r]] # "none"
    /\ stop[r] \in {"fetched", "stopped", "notified"} => target[r] \in Sessions
    /\ stop[r] \in {"stopped", "notified"} => session[target[r]] = "stopped"
    /\ stop[r] \in {"found", "idled", "disabled"} => target[r] # None /\ victim[r] # None
    /\ victim[r] # None => bridge[victim[r]] # "none"
    /\ target[r] \in Bridges => victim[r] = target[r]
    /\ stop[r] \in {"idled", "disabled"} => bridge[victim[r]] = "idle" \/ r \in failed

\* Of two requests for one serial port that are past the check, or whose bridge
\* is active, each was past the check before the other had its row.
SerialPortClaims ==
  \A b, e \in Bridges :
    /\ b # e /\ SerialPort[b] = SerialPort[e]
    /\ Checked(b) \/ bridge[b] = "active"
    /\ Checked(e) \/ bridge[e] = "active"
    => {b, e} \in overlapped

\* The inductive invariant.  CommandsFollowRows needs to know what a request
\* that is about to send has written and that nobody writes it back;
\* OneBridgePerSerialPort has to speak of the requests that are still between
\* the check and the INSERT.
IInv ==
  /\ TypeOK
  /\ RowsOfRequests
  /\ StopsProgress
  /\ SerialPortClaims
  /\ CommandsFollowRows
  /\ StopsStayOnPort
\* The initial states satisfy the inductive invariant.
LEMMA InitIInv == Init => IInv
<1> SUFFICES ASSUME Init PROVE IInv
  OBVIOUS
<1> USE PortalAssumption DEF Init
<1>1. TypeOK              BY DEF TypeOK
<1>2. RowsOfRequests      BY DEF RowsOfRequests, Checked
<1>3. StopsProgress       BY DEF StopsProgress
<1>4. SerialPortClaims    BY DEF SerialPortClaims, Checked
<1>5. CommandsFollowRows  BY DEF CommandsFollowRows
<1>6. StopsStayOnPort     BY DEF StopsStayOnPort
<1>7. QED BY <1>1, <1>2, <1>3, <1>4, <1>5, <1>6 DEF IInv

\* CreateSession keeps the inductive invariant.
LEMMA CreateSessionStep ==
  ASSUME IInv, NEW s \in Sessions, CreateSession(s)
  PROVE  IInv'
<1> USE PortalAssumption DEF IInv, TypeOK, tables, requests, observed
<1>1. ASSUME NEW p \in Ports, ResolveEndpoint(s, p) PROVE IInv'
  <2>1. TypeOK'
    BY <1>1 DEF ResolveEndpoint, CreateAt
  <2>2. RowsOfRequests'
    BY <1>1 DEF ResolveEndpoint, CreateAt, RowsOfRequests, Checked
  <2>3. StopsProgress'
    BY <1>1 DEF ResolveEndpoint, CreateAt, StopsProgress
  <2>4. SerialPortClaims'
    BY <1>1 DEF ResolveEndpoint, CreateAt, SerialPortClaims, Checked
  <2>5. CommandsFollowRows'
    BY <1>1 DEF ResolveEndpoint, CreateAt, CommandsFollowRows
  <2>6. StopsStayOnPort'
    BY <1>1 DEF ResolveEndpoint, CreateAt, StopsStayOnPort, StopsProgress, RowsOfRequests, Checked
  <2>7. QED BY <2>1, <2>2, <2>3, <2>4, <2>5, <2>6
<1>2. ASSUME InsertSession(s) PROVE IInv'
  <2>1. TypeOK'
    BY <1>2 DEF InsertSession, CreateAt
  <2>2. RowsOfRequests'
    BY <1>2 DEF InsertSession, CreateAt, RowsOfRequests, Checked
  <2>3. StopsProgress'
    BY <1>2 DEF InsertSession, CreateAt, StopsProgress, RowsOfRequests, Checked
  <2>4. SerialPortClaims'
    BY <1>2 DEF InsertSession, CreateAt, SerialPortClaims, Checked
  <2>5. CommandsFollowRows'
    BY <1>2 DEF InsertSession, CreateAt, CommandsFollowRows, RowsOfRequests, Checked
  <2>6. StopsStayOnPort'
    BY <1>2 DEF InsertSession, CreateAt, StopsStayOnPort
  <2>7. QED BY <2>1, <2>2, <2>3, <2>4, <2>5, <2>6
<1>3. ASSUME SendStartSession(s) PROVE IInv'
  <2>1. TypeOK'
    BY <1>3 DEF SendStartSession, CreateAt, Send
  <2>2. RowsOfRequests'
    BY <1>3 DEF SendStartSession, CreateAt, Send, RowsOfRequests, Checked
  <2>3. StopsProgress'
    BY <1>3 DEF SendStartSession, CreateAt, Send, StopsProgress
  <2>4. SerialPortClaims'
    BY <1>3 DEF SendStartSession, CreateAt, Send, SerialPortClaims, Checked
  <2>5. CommandsFollowRows'
    BY <1>3 DEF SendStartSession, CreateAt, Send, CommandsFollowRows, RowsOfRequests, Checked
  <2>6. StopsStayOnPort'
    BY <1>3 DEF SendStartSession, CreateAt, Send, StopsStayOnPort
  <2>7. QED BY <2>1, <2>2, <2>3, <2>4, <2>5, <2>6
<1>4. QED BY <1>1, <1>2, <1>3 DEF CreateSession

\* StartModbusBridge keeps the inductive invariant.
LEMMA StartModbusBridgeStep ==
  ASSUME IInv, NEW b \in Bridges, StartModbusBridge(b)
  PROVE  IInv'
<1> USE PortalAssumption DEF IInv, TypeOK, tables, requests, observed
<1>1. ASSUME CheckSerialPort(b) PROVE IInv'
  <2>1. TypeOK'
    BY <1>1 DEF CheckSerialPort, StartAt, activeBridgeForSerialPort, BetweenCheckAndInsert
  <2>2. RowsOfRequests'
    BY <1>1 DEF CheckSerialPort, StartAt, activeBridgeForSerialPort, BetweenCheckAndInsert, RowsOfRequests, Checked
  <2>3. StopsProgress'
    BY <1>1 DEF CheckSerialPort, StartAt, activeBridgeForSerialPort, BetweenCheckAndInsert, StopsProgress
  <2>4. SerialPortClaims'
    BY <1>1 DEF CheckSerialPort, StartAt, activeBridgeForSerialPort, BetweenCheckAndInsert, SerialPortClaims, Checked
  <2>5. CommandsFollowRows'
    BY <1>1 DEF CheckSerialPort, StartAt, activeBridgeForSerialPort, BetweenCheckAndInsert, CommandsFollowRows
  <2>6. StopsStayOnPort'
    BY <1>1 DEF CheckSerialPort, StartAt, activeBridgeForSerialPort, BetweenCheckAndInsert, StopsStayOnPort
  <2>7. QED BY <2>1, <2>2, <2>3, <2>4, <2>5, <2>6
<1>2. ASSUME upsertBridgeEndpoint(b) PROVE IInv'
  <2>1. TypeOK'
    BY <1>2 DEF upsertBridgeEndpoint, StartAt
  <2>2. RowsOfRequests'
    BY <1>2 DEF upsertBridgeEndpoint, StartAt, RowsOfRequests, Checked
  <2>3. StopsProgress'
    BY <1>2 DEF upsertBridgeEndpoint, StartAt, StopsProgress
  <2>4. SerialPortClaims'
    BY <1>2 DEF upsertBridgeEndpoint, StartAt, SerialPortClaims, Checked
  <2>5. CommandsFollowRows'
    BY <1>2 DEF upsertBridgeEndpoint, StartAt, CommandsFollowRows
  <2>6. StopsStayOnPort'
    BY <1>2 DEF upsertBridgeEndpoint, StartAt, StopsStayOnPort
  <2>7. QED BY <2>1, <2>2, <2>3, <2>4, <2>5, <2>6
<1>3. ASSUME InsertBridge(b) PROVE IInv'
  <2>1. TypeOK'
    BY <1>3 DEF InsertBridge, StartAt
  <2>2. RowsOfRequests'
    BY <1>3 DEF InsertBridge, StartAt, RowsOfRequests, Checked
  <2>3. StopsProgress'
    BY <1>3 DEF InsertBridge, StartAt, StopsProgress, RowsOfRequests, Checked
  <2>4. SerialPortClaims'
    BY <1>3 DEF InsertBridge, StartAt, SerialPortClaims, Checked
  <2>5. CommandsFollowRows'
    BY <1>3 DEF InsertBridge, StartAt, CommandsFollowRows, RowsOfRequests, Checked
  <2>6. StopsStayOnPort'
    BY <1>3 DEF InsertBridge, StartAt, StopsStayOnPort
  <2>7. QED BY <2>1, <2>2, <2>3, <2>4, <2>5, <2>6
<1>4. ASSUME SendStartMBUSD(b) PROVE IInv'
  <2>1. TypeOK'
    BY <1>4 DEF SendStartMBUSD, StartAt, Send
  <2>2. RowsOfRequests'
    BY <1>4 DEF SendStartMBUSD, StartAt, Send, RowsOfRequests, Checked
  <2>3. StopsProgress'
    BY <1>4 DEF SendStartMBUSD, StartAt, Send, StopsProgress
  <2>4. SerialPortClaims'
    BY <1>4 DEF SendStartMBUSD, StartAt, Send, SerialPortClaims, Checked
  <2>5. CommandsFollowRows'
    BY <1>4 DEF SendStartMBUSD, StartAt, Send, CommandsFollowRows, RowsOfRequests, Checked
  <2>6. StopsStayOnPort'
    BY <1>4 DEF SendStartMBUSD, StartAt, Send, StopsStayOnPort
  <2>7. QED BY <2>1, <2>2, <2>3, <2>4, <2>5, <2>6
<1>5. QED BY <1>1, <1>2, <1>3, <1>4 DEF StartModbusBridge

\* StopSession and StopBridge keep the inductive invariant.
LEMMA StopRequestStep ==
  ASSUME IInv, NEW r \in Stops, StopRequest(r)
  PROVE  IInv'
<1> USE PortalAssumption DEF IInv, TypeOK, tables, requests, observed
<1>1. ASSUME NEW s \in Sessions, FetchSession(r, s) PROVE IInv'
  <2>1. TypeOK'
    BY <1>1 DEF FetchSession, StopAt
  <2>2. RowsOfRequests'
    BY <1>1 DEF FetchSession, StopAt, RowsOfRequests, Checked
  <2>3. StopsProgress'
    BY <1>1 DEF FetchSession, StopAt, StopsProgress
  <2>4. SerialPortClaims'
    BY <1>1 DEF FetchSession, StopAt, SerialPortClaims, Checked
  <2>5. CommandsFollowRows'
    BY <1>1 DEF FetchSession, StopAt, CommandsFollowRows
  <2>6. StopsStayOnPort'
    BY <1>1 DEF FetchSession, StopAt, StopsStayOnPort, StopsProgress
  <2>7. QED BY <2>1, <2>2, <2>3, <2>4, <2>5, <2>6
<1>2. ASSUME MarkStopped(r) PROVE IInv'
  <2>1. TypeOK'
    BY <1>2 DEF MarkStopped, StopAt, StopFails
  <2>2. RowsOfRequests'
    BY <1>2 DEF MarkStopped, StopAt, StopFails, RowsOfRequests, Checked, StopsProgress
  <2>3. StopsProgress'
    BY <1>2 DEF MarkStopped, StopAt, StopFails, StopsProgress
  <2>4. SerialPortClaims'
    BY <1>2 DEF MarkStopped, StopAt, StopFails, SerialPortClaims, Checked
  <2>5. CommandsFollowRows'
    BY <1>2 DEF MarkStopped, StopAt, StopFails, CommandsFollowRows
  <2>6. StopsStayOnPort'
    BY <1>2 DEF MarkStopped, StopAt, StopFails, StopsStayOnPort
  <2>7. QED BY <2>1, <2>2, <2>3, <2>4, <2>5, <2>6
<1>3. ASSUME RecordAndNotify(r) PROVE IInv'
  <2>1. TypeOK'
    BY <1>3 DEF RecordAndNotify, StopAt, Send, StopsProgress
  <2>2. RowsOfRequests'
    BY <1>3 DEF RecordAndNotify, StopAt, Send, RowsOfRequests, Checked
  <2>3. StopsProgress'
    BY <1>3 DEF RecordAndNotify, StopAt, Send, StopsProgress
  <2>4. SerialPortClaims'
    BY <1>3 DEF RecordAndNotify, StopAt, Send, SerialPortClaims, Checked
  <2>5. CommandsFollowRows'
    BY <1>3 DEF RecordAndNotify, StopAt, Send, CommandsFollowRows, StopsProgress
  <2>6. StopsStayOnPort'
    BY <1>3 DEF RecordAndNotify, StopAt, Send, StopsStayOnPort
  <2>7. QED BY <2>1, <2>2, <2>3, <2>4, <2>5, <2>6
<1>4. ASSUME lookupBridgeForSession(r) PROVE IInv'
  <2>1. TypeOK'
    BY <1>4 DEF lookupBridgeForSession, StopAt, BridgesAt
  <2>2. RowsOfRequests'
    BY <1>4 DEF lookupBridgeForSession, StopAt, BridgesAt, RowsOfRequests, Checked
  <2>3. StopsProgress'
    BY <1>4 DEF lookupBridgeForSession, StopAt, BridgesAt, StopsProgress
  <2>4. SerialPortClaims'
    BY <1>4 DEF lookupBridgeForSession, StopAt, BridgesAt, SerialPortClaims, Checked
  <2>5. CommandsFollowRows'
    BY <1>4 DEF lookupBridgeForSession, StopAt, BridgesAt, CommandsFollowRows, StopsProgress
  <2>6. StopsStayOnPort'
    BY <1>4 DEF lookupBridgeForSession, StopAt, BridgesAt, StopsStayOnPort
  <2>7. QED BY <2>1, <2>2, <2>3, <2>4, <2>5, <2>6
<1>5. ASSUME NEW b \in Bridges, FetchBridge(r, b) PROVE IInv'
  <2>1. TypeOK'
    BY <1>5 DEF FetchBridge, StopAt
  <2>2. RowsOfRequests'
    BY <1>5 DEF FetchBridge, StopAt, RowsOfRequests, Checked
  <2>3. StopsProgress'
    BY <1>5 DEF FetchBridge, StopAt, StopsProgress
  <2>4. SerialPortClaims'
    BY <1>5 DEF FetchBridge, StopAt, SerialPortClaims, Checked
  <2>5. CommandsFollowRows'
    BY <1>5 DEF FetchBridge, StopAt, CommandsFollowRows, StopsProgress
  <2>6. StopsStayOnPort'
    BY <1>5 DEF FetchBridge, StopAt, StopsStayOnPort
  <2>7. QED BY <2>1, <2>2, <2>3, <2>4, <2>5, <2>6
<1>6. ASSUME IdleBridge(r) PROVE IInv'
  <2>1. TypeOK'
    BY <1>6 DEF IdleBridge, StopAt, StopFails
  <2>2. RowsOfRequests'
    BY <1>6 DEF IdleBridge, StopAt, StopFails, RowsOfRequests, Checked, StopsProgress
  <2>3. StopsProgress'
    BY <1>6 DEF IdleBridge, StopAt, StopFails, StopsProgress
  <2>4. SerialPortClaims'
    BY <1>6 DEF IdleBridge, StopAt, StopFails, SerialPortClaims, Checked
  <2>5. CommandsFollowRows'
    BY <1>6 DEF IdleBridge, StopAt, StopFails, CommandsFollowRows
  <2>6. StopsStayOnPort'
    BY <1>6 DEF IdleBridge, StopAt, StopFails, StopsStayOnPort
  <2>7. QED BY <2>1, <2>2, <2>3, <2>4, <2>5, <2>6
<1>7. ASSUME DisableEndpoint(r) PROVE IInv'
  <2>1. TypeOK'
    BY <1>7 DEF DisableEndpoint, StopAt, EndpointToDisable
  <2>2. RowsOfRequests'
    BY <1>7 DEF DisableEndpoint, StopAt, EndpointToDisable, RowsOfRequests, Checked
  <2>3. StopsProgress'
    BY <1>7 DEF DisableEndpoint, StopAt, EndpointToDisable, StopsProgress
  <2>4. SerialPortClaims'
    BY <1>7 DEF DisableEndpoint, StopAt, EndpointToDisable, SerialPortClaims, Checked
  <2>5. CommandsFollowRows'
    BY <1>7 DEF DisableEndpoint, StopAt, EndpointToDisable, CommandsFollowRows
  <2>6. StopsStayOnPort'
    BY <1>7 DEF DisableEndpoint, StopAt, EndpointToDisable, StopsStayOnPort, StopsProgress
  <2>7. QED BY <2>1, <2>2, <2>3, <2>4, <2>5, <2>6
<1>8. ASSUME SendStopMBUSD(r) PROVE IInv'
  <2>1. TypeOK'
    BY <1>8 DEF SendStopMBUSD, StopAt, Send, StopsProgress
  <2>2. RowsOfRequests'
    BY <1>8 DEF SendStopMBUSD, StopAt, Send, RowsOfRequests, Checked
  <2>3. StopsProgress'
    BY <1>8 DEF SendStopMBUSD, StopAt, Send, StopsProgress
  <2>4. SerialPortClaims'
    BY <1>8 DEF SendStopMBUSD, StopAt, Send, SerialPortClaims, Checked
  <2>5. CommandsFollowRows'
    BY <1>8 DEF SendStopMBUSD, StopAt, Send, CommandsFollowRows, StopsProgress
  <2>6. StopsStayOnPort'
    BY <1>8 DEF SendStopMBUSD, StopAt, Send, StopsStayOnPort
  <2>7. QED BY <2>1, <2>2, <2>3, <2>4, <2>5, <2>6
<1>9. QED BY <1>1, <1>2, <1>3, <1>4, <1>5, <1>6, <1>7, <1>8 DEF StopRequest

\* An inventory report keeps the inductive invariant.
LEMMA InventoryStep ==
  ASSUME IInv, NEW p \in Services, persistInventory(p)
  PROVE  IInv'
<1> USE PortalAssumption DEF IInv, TypeOK, persistInventory, requests, observed
<1>1. TypeOK'              OBVIOUS
<1>2. RowsOfRequests'      BY DEF RowsOfRequests, Checked
<1>3. StopsProgress'       BY DEF StopsProgress
<1>4. SerialPortClaims'    BY DEF SerialPortClaims, Checked
<1>5. CommandsFollowRows'  BY DEF CommandsFollowRows
<1>6. StopsStayOnPort'     BY DEF StopsStayOnPort
<1>7. QED BY <1>1, <1>2, <1>3, <1>4, <1>5, <1>6

\* The connection appears in none of the conjuncts but the type.
LEMMA ConnectionStep == IInv /\ Connection => IInv'
  BY DEF IInv, Connection, TypeOK, tables, requests, observed, RowsOfRequests, StopsProgress,
         SerialPortClaims, Checked, CommandsFollowRows, StopsStayOnPort

\* Every state keeps the inductive invariant: the database rows, the commands
\* sent and the places of the requests agree.
THEOREM Invariance == Spec => []IInv
<1>1. IInv /\ [Next]_vars => IInv'
  <2> SUFFICES ASSUME IInv, [Next]_vars PROVE IInv'
    OBVIOUS
  <2>1. ASSUME NEW s \in Sessions, CreateSession(s) PROVE IInv'
    BY <2>1, CreateSessionStep
  <2>2. ASSUME NEW b \in Bridges, StartModbusBridge(b) PROVE IInv'
    BY <2>2, StartModbusBridgeStep
  <2>3. ASSUME NEW r \in Stops, StopRequest(r) PROVE IInv'
    BY <2>3, StopRequestStep
  <2>4. ASSUME NEW p \in Services, persistInventory(p) PROVE IInv'
    BY <2>4, InventoryStep
  <2>5. CASE Connection
    BY <2>5, ConnectionStep
  <2>6. CASE UNCHANGED vars
    BY <2>6 DEF vars, IInv, TypeOK, tables, requests, observed, RowsOfRequests, StopsProgress,
                SerialPortClaims, Checked, CommandsFollowRows, StopsStayOnPort
  <2>7. QED BY <2>1, <2>2, <2>3, <2>4, <2>5, <2>6 DEF Next
<1>2. QED BY InitIInv, <1>1, PTL DEF Spec

\* StartModbusBridge's check of the serial port is defeated by overlapping
\* requests only: not by failed statements, stop requests or inventory reports.
THEOREM SerialPortGuarded == Spec => []OneBridgePerSerialPort
<1>1. IInv => OneBridgePerSerialPort
  BY DEF IInv, SerialPortClaims, OneBridgePerSerialPort
<1>2. QED BY Invariance, <1>1, PTL

\* Handlers write the row before they send the command, and no other request
\* writes it back.
THEOREM RowsComeFirst == Spec => []CommandsFollowRows
<1>1. IInv => CommandsFollowRows
  BY DEF IInv
<1>2. QED BY Invariance, <1>1, PTL

\* StopSession and StopBridge disable the endpoint and stop the bridge of the
\* port they are about, and of no other.
THEOREM StopsAreLocal == Spec => []StopsStayOnPort
<1>1. IInv => StopsStayOnPort
  BY DEF IInv
<1>2. QED BY Invariance, <1>1, PTL
=============================================================================
