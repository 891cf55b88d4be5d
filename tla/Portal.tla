------------------------------- MODULE Portal -------------------------------
(***************************************************************************)
(* The control plane's sessions, endpoints and serial bridges of one       *)
(* device: apps/api/internal/session/handler.go,                           *)
(* apps/api/internal/bridge/handler.go and the inventory part of           *)
(* apps/api/internal/ws/hub.go.                                            *)
(*                                                                         *)
(* A handler is a sequence of SQL statements and SendCommand calls without *)
(* a transaction, so the steps of concurrent requests interleave and each  *)
(* statement can fail on its own.  Requests that are refused before they   *)
(* write anything take no step beyond their first.                         *)
(***************************************************************************)
EXTENDS Naturals

CONSTANTS
  Sessions,     \* session ids: each is made by one CreateSession request
  Bridges,      \* bridge ids: each is made by one StartModbusBridge request
  Stops,        \* StopSession and StopBridge requests
  Ports,        \* TCP ports of the device
  Services,     \* the ports an inventory report may list
  BridgePort,   \* bridge |-> the tcp_port of its request
  SerialPort,   \* bridge |-> the serial_port of its request
  NullReadable, \* the database driver scans a NULL into a Go string
  None

ASSUME PortalAssumption ==
  /\ Services \subseteq Ports
  /\ BridgePort \in [Bridges -> Ports]
  /\ DOMAIN SerialPort = Bridges
  /\ NullReadable \in BOOLEAN
  /\ None \notin Sessions \cup Bridges \cup Ports
  /\ Sessions \cap Bridges = {}

VARIABLES
  connected,  \* the hub has a connection of the device
  kind,       \* endpoints: port |-> "none" (no row), "SERVICE" or "BRIDGE"
  enabled,    \* endpoints: the ports whose row is enabled
  session,    \* sessions: id |-> "none", "active" or "stopped"
  endpoint,   \* sessions: id |-> the port of its endpoint, or None
  bridge,     \* bridge_profiles: id |-> "none", "active" or "idle"
  history,    \* export_history: <<request, session>>
  creating,   \* session id |-> where its CreateSession stands
  starting,   \* bridge id |-> where its StartModbusBridge stands
  stop,       \* stop request |-> where it stands
  target,     \* stop request |-> the session or bridge it names
  victim,     \* stop request |-> the bridge to be stopped, or None
  sent,       \* <<type, id>> of the commands handed to the hub
  failed,     \* history: stop requests one of whose statements failed
  refused,    \* history: stop requests answered with an internal error
  overlapped  \* history: {b, e}: both passed the check before either inserted

tables   == <<kind, enabled, session, endpoint, bridge, history>>
requests == <<creating, starting, stop, target, victim>>
observed == <<sent, failed, refused, overlapped>>
vars == <<connected, tables, requests, observed>>

Init ==
  /\ connected = FALSE
  /\ kind = [p \in Ports |-> "none"] /\ enabled = {}
  /\ session = [s \in Sessions |-> "none"]
  /\ endpoint = [s \in Sessions |-> None]
  /\ bridge = [b \in Bridges |-> "none"]
  /\ history = {}
  /\ creating = [s \in Sessions |-> "idle"]
  /\ starting = [b \in Bridges |-> "idle"]
  /\ stop = [r \in Stops |-> "idle"]
  /\ target = [r \in Stops |-> None]
  /\ victim = [r \in Stops |-> None]
  /\ sent = {} /\ failed = {} /\ refused = {} /\ overlapped = {}

-----------------------------------------------------------------------------
\* IsConnected, where it is asked, and SendCommand.  Without a connection or with
\* a full buffer nothing is sent; the error is logged or answered.
Send(type, id) ==
  \/ connected /\ sent' = sent \cup {<<type, id>>}
  \/ UNCHANGED sent

CreateAt(s, from, to) == creating[s] = from /\ creating' = [creating EXCEPT ![s] = to]
StartAt(b, from, to)  == starting[b] = from /\ starting' = [starting EXCEPT ![b] = to]
StopAt(r, from, to)   == stop[r] = from /\ stop' = [stop EXCEPT ![r] = to]

-----------------------------------------------------------------------------
(* CreateSession.                                                           *)

\* resolveDeviceAndEndpoint and the check of its enabled column.
ResolveEndpoint(s, p) ==
  /\ CreateAt(s, "idle", "resolved")
  /\ p \in enabled
  /\ endpoint' = [endpoint EXCEPT ![s] = p]
  /\ UNCHANGED <<connected, kind, enabled, session, bridge, history,
                 starting, stop, target, victim, observed>>

\* IsConnected and the INSERT; if either fails the request is refused.
InsertSession(s) ==
  /\ \/ /\ CreateAt(s, "resolved", "inserted")
        /\ connected
        /\ session' = [session EXCEPT ![s] = "active"]
     \/ CreateAt(s, "resolved", "done") /\ UNCHANGED session
  /\ UNCHANGED <<connected, kind, enabled, endpoint, bridge, history,
                 starting, stop, target, victim, observed>>

\* The session is answered as created whether or not the command was sent.
SendStartSession(s) ==
  /\ CreateAt(s, "inserted", "done")
  /\ Send("start_session", s)
  /\ UNCHANGED <<connected, tables, starting, stop, target, victim, failed, refused, overlapped>>

-----------------------------------------------------------------------------
(* StartModbusBridge.                                                       *)

\* Mutant: the lookup compares TCP ports instead of serial ports.
activeBridgeForTcpPort(b) ==
  \E e \in Bridges : bridge[e] = "active" /\ BridgePort[e] = BridgePort[b]

activeBridgeForSerialPort(b) ==
  \E e \in Bridges : bridge[e] = "active" /\ SerialPort[e] = SerialPort[b]

BetweenCheckAndInsert == {e \in Bridges : starting[e] \in {"checked", "upserted"}}

CheckSerialPort(b) ==
  /\ StartAt(b, "idle", "checked")
  /\ connected
  /\ ~activeBridgeForSerialPort(b)
  /\ overlapped' = overlapped \cup {{b, e} : e \in BetweenCheckAndInsert}
  /\ UNCHANGED <<connected, tables, creating, stop, target, victim, sent, failed, refused>>

upsertBridgeEndpoint(b) ==
  /\ \/ /\ StartAt(b, "checked", "upserted")
        /\ kind' = [kind EXCEPT ![BridgePort[b]] = "BRIDGE"]
        /\ enabled' = enabled \cup {BridgePort[b]}
     \/ StartAt(b, "checked", "done") /\ UNCHANGED <<kind, enabled>>
  /\ UNCHANGED <<connected, session, endpoint, bridge, history,
                 creating, stop, target, victim, observed>>

\* If it fails the endpoint stays as the upsert left it.
InsertBridge(b) ==
  /\ \/ /\ StartAt(b, "upserted", "inserted")
        /\ bridge' = [bridge EXCEPT ![b] = "active"]
     \/ StartAt(b, "upserted", "done") /\ UNCHANGED bridge
  /\ UNCHANGED <<connected, kind, enabled, session, endpoint, history,
                 creating, stop, target, victim, observed>>

\* If the command cannot be sent an error is answered; the rows stay.
SendStartMBUSD(b) ==
  /\ StartAt(b, "inserted", "done")
  /\ Send("start_mbusd", b)
  /\ UNCHANGED <<connected, tables, creating, stop, target, victim, failed, refused, overlapped>>

-----------------------------------------------------------------------------
(* StopSession.                                                             *)

\* Mutant: the agent is told before the row is updated.
FetchSessionNotifying(r, s) ==
  /\ session[s] = "active"
  /\ StopAt(r, "idle", "fetched")
  /\ target' = [target EXCEPT ![r] = s]
  /\ Send("stop_session", s)
  /\ UNCHANGED <<connected, tables, creating, starting, victim, failed, refused, overlapped>>

\* fetchSession scans stop_reason, NULL while a session is active, into a
\* string; a session that is not active is answered with a conflict.
FetchSession(r, s) ==
  /\ session[s] = "active"
  /\ IF NullReadable
     THEN StopAt(r, "idle", "fetched") /\ UNCHANGED refused
     ELSE StopAt(r, "idle", "done") /\ refused' = refused \cup {r}
  /\ target' = [target EXCEPT ![r] = s]
  /\ UNCHANGED <<connected, tables, creating, starting, victim, sent, failed, overlapped>>

\* A statement whose error ends the request.
StopFails(r) ==
  /\ stop' = [stop EXCEPT ![r] = "done"]
  /\ failed' = failed \cup {r}
  /\ refused' = refused \cup {r}

\* The UPDATE names the row by id alone: it may be stopped already.
MarkStopped(r) ==
  /\ stop[r] = "fetched"
  /\ \/ /\ StopAt(r, "fetched", "stopped")
        /\ session' = [session EXCEPT ![target[r]] = "stopped"]
        /\ UNCHANGED <<failed, refused>>
     \/ StopFails(r) /\ UNCHANGED session
  /\ UNCHANGED <<connected, kind, enabled, endpoint, bridge, history,
                 creating, starting, target, victim, sent, overlapped>>

\* recordHistory, whose failure is logged, and the stop_session command.
RecordAndNotify(r) ==
  /\ stop[r] = "stopped"
  /\ StopAt(r, "stopped", "notified")
  /\ Send("stop_session", target[r])
  /\ \/ history' = history \cup {<<r, target[r]>>} /\ UNCHANGED failed
     \/ failed' = failed \cup {r} /\ UNCHANGED history
  /\ UNCHANGED <<connected, kind, enabled, session, endpoint, bridge,
                 creating, starting, target, victim, refused, overlapped>>

\* Mutant: the join condition on the port is missing.
BridgesOfDevice(p) ==
  {b \in Bridges : kind[p] = "BRIDGE" /\ bridge[b] = "active"}

\* The rows of lookupBridgeForSession's query, of which it takes any one.
BridgesAt(p) ==
  {b \in Bridges : kind[p] = "BRIDGE" /\ bridge[b] = "active" /\ BridgePort[b] = p}

\* No row or an error ends the request, which is answered as a success.
lookupBridgeForSession(r) ==
  /\ stop[r] = "notified"
  /\ \/ /\ \E b \in BridgesAt(endpoint[target[r]]) : victim' = [victim EXCEPT ![r] = b]
        /\ StopAt(r, "notified", "found")
        /\ UNCHANGED failed
     \/ /\ StopAt(r, "notified", "done")
        /\ failed' = IF BridgesAt(endpoint[target[r]]) = {} THEN failed ELSE failed \cup {r}
        /\ UNCHANGED victim
  /\ UNCHANGED <<connected, tables, creating, starting, target, sent, refused, overlapped>>

-----------------------------------------------------------------------------
(* StopBridge, and the part of StopSession that stops a bridge.             *)

\* The bridge's status is not looked at.
FetchBridge(r, b) ==
  /\ bridge[b] # "none"
  /\ StopAt(r, "idle", "found")
  /\ target' = [target EXCEPT ![r] = b]
  /\ victim' = [victim EXCEPT ![r] = b]
  /\ UNCHANGED <<connected, tables, creating, starting, observed>>

\* StopBridge gives up when this fails; StopSession logs it and goes on.
IdleBridge(r) ==
  /\ stop[r] = "found"
  /\ \/ /\ StopAt(r, "found", "idled")
        /\ bridge' = [bridge EXCEPT ![victim[r]] = "idle"]
        /\ UNCHANGED <<failed, refused>>
     \/ /\ IF target[r] \in Bridges
           THEN StopFails(r)
           ELSE StopAt(r, "found", "idled") /\ failed' = failed \cup {r} /\ UNCHANGED refused
        /\ UNCHANGED bridge
  /\ UNCHANGED <<connected, kind, enabled, session, endpoint, history,
                 creating, starting, target, victim, sent, overlapped>>

\* StopSession disables the session's endpoint, StopBridge the one with the
\* bridge's port, whatever its type; a failure is only logged.
EndpointToDisable(r) ==
  IF target[r] \in Sessions THEN endpoint[target[r]] ELSE BridgePort[target[r]]

DisableEndpoint(r) ==
  /\ stop[r] = "idled"
  /\ StopAt(r, "idled", "disabled")
  /\ \/ enabled' = enabled \ {EndpointToDisable(r)} /\ UNCHANGED failed
     \/ failed' = failed \cup {r} /\ UNCHANGED enabled
  /\ UNCHANGED <<connected, kind, session, endpoint, bridge, history,
                 creating, starting, target, victim, sent, refused, overlapped>>

SendStopMBUSD(r) ==
  /\ StopAt(r, "disabled", "done")
  /\ Send("stop_mbusd", victim[r])
  /\ UNCHANGED <<connected, tables, creating, starting, target, victim, failed, refused, overlapped>>

-----------------------------------------------------------------------------
(* The device.                                                              *)

\* One upsert of persistInventory: a listening port becomes an enabled service
\* endpoint whatever its row said before.  The report may come from a connection
\* that has been replaced, so it does not need a registered one.  (The idle
\* profile ensureBridgeProfile adds for a serial port has no TCP port: no query
\* here selects it.)
persistInventory(p) ==
  /\ kind' = [kind EXCEPT ![p] = "SERVICE"]
  /\ enabled' = enabled \cup {p}
  /\ UNCHANGED <<connected, session, endpoint, bridge, history, requests, observed>>

Connection ==
  /\ connected' = ~connected
  /\ UNCHANGED <<tables, requests, observed>>

-----------------------------------------------------------------------------
CreateSession(s) ==
  (\E p \in Ports : ResolveEndpoint(s, p)) \/ InsertSession(s) \/ SendStartSession(s)

StartModbusBridge(b) ==
  CheckSerialPort(b) \/ upsertBridgeEndpoint(b) \/ InsertBridge(b) \/ SendStartMBUSD(b)

StopRequest(r) ==
  \/ \E s \in Sessions : FetchSession(r, s)
  \/ MarkStopped(r) \/ RecordAndNotify(r) \/ lookupBridgeForSession(r)
  \/ \E b \in Bridges : FetchBridge(r, b)
  \/ IdleBridge(r) \/ DisableEndpoint(r) \/ SendStopMBUSD(r)

Next ==
  \/ \E s \in Sessions : CreateSession(s)
  \/ \E b \in Bridges : StartModbusBridge(b)
  \/ \E r \in Stops : StopRequest(r)
  \/ \E p \in Services : persistInventory(p)
  \/ Connection

Spec == Init /\ [][Next]_vars

-----------------------------------------------------------------------------
(* Properties.                                                              *)

TypeOK ==
  /\ connected \in BOOLEAN
  /\ kind \in [Ports -> {"none", "SERVICE", "BRIDGE"}] /\ enabled \subseteq Ports
  /\ session \in [Sessions -> {"none", "active", "stopped"}]
  /\ endpoint \in [Sessions -> Ports \cup {None}]
  /\ bridge \in [Bridges -> {"none", "active", "idle"}]
  /\ history \subseteq Stops \X Sessions
  /\ creating \in [Sessions -> {"idle", "resolved", "inserted", "done"}]
  /\ starting \in [Bridges -> {"idle", "checked", "upserted", "inserted", "done"}]
  /\ stop \in [Stops -> {"idle", "fetched", "stopped", "notified", "found", "idled", "disabled", "done"}]
  /\ target \in [Stops -> Sessions \cup Bridges \cup {None}]
  /\ victim \in [Stops -> Bridges \cup {None}]
  /\ sent \subseteq ({"start_session", "stop_session"} \X Sessions)
                     \cup ({"start_mbusd", "stop_mbusd"} \X Bridges)
  /\ failed \subseteq Stops /\ refused \subseteq Stops
  /\ overlapped \subseteq SUBSET Bridges

\* Two bridges are active on one serial port only if their requests overlapped:
\* no failed statement, stop request, lost connection or inventory report
\* defeats the check.
OneBridgePerSerialPort ==
  \A b, e \in Bridges :
    b # e /\ bridge[b] = "active" /\ bridge[e] = "active" /\ SerialPort[b] = SerialPort[e]
      => {b, e} \in overlapped

\* No command runs ahead of the database: what the agent is told to start has
\* its row, and what it is told to stop is stopped in its row unless that very
\* statement failed, however the requests interleave.
CommandsFollowRows ==
  /\ \A s \in Sessions :
       /\ <<"start_session", s>> \in sent => session[s] # "none"
       /\ <<"stop_session", s>> \in sent => session[s] = "stopped"
  /\ \A b \in Bridges :
       /\ <<"start_mbusd", b>> \in sent => bridge[b] # "none"
       /\ <<"stop_mbusd", b>> \in sent => bridge[b] = "idle" \/ \E r \in failed : victim[r] = b

\* A stop reaches only the bridge of the port it is about: the endpoint of a
\* port that no bridge was started on is never disabled, and a stopped session
\* stops no bridge of another port.
StopsStayOnPort ==
  /\ \A p \in Ports : kind[p] # "none" /\ p \notin enabled => \E b \in Bridges : bridge[b] # "none" /\ BridgePort[b] = p
  /\ \A r \in Stops : target[r] \in Sessions /\ victim[r] # None
       => BridgePort[victim[r]] = endpoint[target[r]]

\* "a serial bridge is already active on this serial port" is a conflict: a
\* serial port never has two active bridges.
SerialPortExclusive ==
  \A b, e \in Bridges :
    bridge[b] = "active" /\ bridge[e] = "active" /\ SerialPort[b] = SerialPort[e] => b = e

\* "a session is explicitly stopped": the owner's request for an active session
\* is answered with an internal error only if the database failed.
ActiveSessionStoppable == refused \subseteq failed
=============================================================================
