------------------------------ MODULE Inventory ------------------------------
(***************************************************************************)
(* A device's inventory on its way from the scanner to the portal:         *)
(* apps/agent/internal/inventory/scanner.go, the inventory reports of      *)
(* apps/agent/internal/agent/agent.go, persistInventory in                 *)
(* apps/api/internal/ws/hub.go, and the inventory and scan requests of     *)
(* apps/api/internal/device/handler.go.                                    *)
(*                                                                         *)
(* The scanner's sweeps are numbered; a report is the number of the sweep  *)
(* it carries.  Each connection of the agent is read by a goroutine of the *)
(* API that persists one report after the other, one SQL statement at a    *)
(* time and without a transaction.  The goroutine of a replaced connection *)
(* goes on until it has read what had arrived.  The API may end and start  *)
(* again between any two statements.                                       *)
(***************************************************************************)
EXTENDS HostScan, FiniteSets

CONSTANTS
  Hosts,               \* what the host may look like when it is swept
  InterfaceLists,      \* what net.Interfaces() may return
  LocalIPOverride,     \* configuration: the device's address, or NoAddress
  PreferredInterface,  \* configuration: the LAN interface
  BridgePorts,         \* ports bridges have been started on
  SendBuffer,          \* capacity of the agent's send channel
  MaxScans,            \* bound: sweeps
  MaxConns,            \* bound: connections the agent opens
  MaxFailures          \* bound: SQL statements of reports that fail

ASSUME InventoryAssumption ==
  /\ SendBuffer \in Nat \ {0}
  /\ MaxScans \in Nat /\ MaxConns \in Nat \ {0} /\ MaxFailures \in Nat

\* The globs yield a list.
ASSUME HostsAssumption == \A host \in Hosts : host.serial \in Seq(ToSet(host.serial))

\* The operating system returns lists, and 127/8 is the loopback interface's.
ASSUME InterfacesAssumption ==
  /\ \A host \in Hosts : host.ifaces \in InterfaceLists
  /\ \A ifaces \in InterfaceLists :
       /\ ifaces \in Seq(ToSet(ifaces))
       /\ \A i \in ToSet(ifaces) :
            /\ i.class \in {"lan", "virtual", "other"}
            /\ i.addrs \in Seq(ToSet(i.addrs))
            /\ \A a \in ToSet(i.addrs) :
                 a.class \in AddressClasses /\ (a.class = "loopback" => i.loopback)

VARIABLES
  sweeps,     \* the scanner's snapshots; the last is Scanner.current
  conn,       \* the agent's connections so far; 0 before Agent.Connect
  linkUp,     \* its latest connection works
  outbox,     \* reports in the agent's send channel
  stream,     \* connection |-> reports that arrived and were not read
  syncs,      \* connection |-> sync_inventory commands not yet handled
  left,       \* connections whose readPump has returned
  work,       \* connection |-> the report being persisted and how far it is
  row,        \* devices: [date |-> inventory_updated_at, address |-> ip_address]
  enabled,    \* endpoints: the ports whose row is enabled
  profiles,   \* bridge_profiles: the serial port of each row, oldest first
              \* (a bridge that is started inserts one more, see Portal)
  request,    \* the portal's inventory request and what it has read
  scanAsked,  \* history: the accepted scan request, [conn, sweep], whether the
              \* inventory has been dated by that sweep or a later one since, and
              \* whether the agent refused it
  complete,   \* history: sweeps whose report had every statement succeed
  hidden,     \* history: ports a stop disabled after they were last upserted
  overlapped, \* history: two reports were being persisted at one time
  interrupted,\* history: the API ended between the date and the address of the
              \* report that dated the row
  failures    \* history: number of statements of reports that failed

agent    == <<conn, linkUp, outbox>>
wires    == <<stream, syncs>>
readers  == <<left, work>>
tables   == <<row, enabled, profiles>>
observed == <<scanAsked, complete, hidden, overlapped, interrupted, failures>>
vars == <<sweeps, agent, wires, readers, tables, request, observed>>

Conns == 1..MaxConns
Sweeps == 1..MaxScans

Never == 0   \* the date of a row that no report has dated (NULL)
defaultModbusSerialPort == "ttymxc5"
NotAsked == [conn |-> 0, sweep |-> 0, served |-> FALSE, refused |-> FALSE]

Idle == [at |-> "idle", sweep |-> 0, next |-> 0, clean |-> TRUE]
NoRequest == [at |-> "none"]

Init ==
  /\ sweeps = <<>>
  /\ conn = 0 /\ linkUp = FALSE /\ outbox = <<>>
  /\ stream = [c \in Conns |-> <<>>] /\ syncs = [c \in Conns |-> 0]
  /\ left = {} /\ work = [c \in Conns |-> Idle]
  /\ row = [date |-> Never, address |-> NoAddress]
  /\ enabled = {} /\ profiles = <<>>
  /\ request = NoRequest
  /\ scanAsked = NotAsked
  /\ complete = {} /\ hidden = {} /\ overlapped = FALSE /\ interrupted = FALSE /\ failures = 0

-----------------------------------------------------------------------------
(* The agent.                                                               *)

\* The sweep and the assignment of Scanner.current.
Scan ==
  /\ Len(sweeps) < MaxScans
  /\ \E host \in Hosts :
       sweeps' = Append(sweeps, scan(host, LocalIPOverride, PreferredInterface))
  /\ UNCHANGED <<agent, wires, readers, tables, request, observed>>

\* The cached snapshot, if there is one, goes into the channel, if it has room.
sendInventoryUpdate ==
  /\ sweeps # <<>> /\ Len(outbox) < SendBuffer
  /\ outbox' = Append(outbox, Len(sweeps))

\* Agent.Connect, while the scanner's first sweep may not be over.  Nothing but
\* the registration is in the channel then.
Connect ==
  /\ conn = 0
  /\ conn' = 1 /\ linkUp' = TRUE
  /\ sendInventoryUpdate \/ (sweeps = <<>> /\ UNCHANGED outbox)
  /\ UNCHANGED <<sweeps, wires, readers, tables, request, observed>>

\* The hub dials again; nothing is reported.
Redial ==
  /\ conn \in 1..(MaxConns - 1) /\ ~linkUp
  /\ conn' = conn + 1 /\ linkUp' = TRUE
  /\ UNCHANGED <<sweeps, outbox, wires, readers, tables, request, observed>>

\* The write pump takes a report from the channel; on a link that is down it
\* is dropped.
Transmit ==
  /\ conn > 0 /\ outbox # <<>>
  /\ outbox' = Tail(outbox)
  /\ stream' = IF linkUp THEN [stream EXCEPT ![conn] = Append(@, Head(outbox))] ELSE stream
  /\ UNCHANGED <<sweeps, conn, linkUp, syncs, readers, tables, request, observed>>

\* Mutant: a snapshot that looks like the one before is not sent.
handleSyncInventoryIfChanged ==
  /\ linkUp /\ syncs[conn] > 0
  /\ syncs' = [syncs EXCEPT ![conn] = @ - 1]
  /\ \/ sendInventoryUpdate /\ UNCHANGED scanAsked
     \/ UNCHANGED outbox /\ scanAsked' = [scanAsked EXCEPT !.refused = TRUE]
     \/ /\ Len(sweeps) > 1 /\ sweeps[Len(sweeps)] = sweeps[Len(sweeps) - 1]
        /\ UNCHANGED <<outbox, scanAsked>>
  /\ UNCHANGED <<sweeps, conn, linkUp, stream, readers, tables, request,
                 complete, hidden, overlapped, interrupted, failures>>

\* The dispatcher handles a sync: no sweep is made for it.  It is refused when
\* there is no snapshot yet, or the channel, which acknowledgements and
\* heartbeats share, is full.
handleSyncInventory ==
  /\ linkUp /\ syncs[conn] > 0
  /\ syncs' = [syncs EXCEPT ![conn] = @ - 1]
  /\ \/ sendInventoryUpdate /\ UNCHANGED scanAsked
     \/ UNCHANGED outbox /\ scanAsked' = [scanAsked EXCEPT !.refused = TRUE]
  /\ UNCHANGED <<sweeps, conn, linkUp, stream, readers, tables, request,
                 complete, hidden, overlapped, interrupted, failures>>

\* What had arrived can still be read; the rest, and the commands, are lost.
LinkLost ==
  /\ linkUp
  /\ linkUp' = FALSE
  /\ \E n \in 0..Len(stream[conn]) : stream' = [stream EXCEPT ![conn] = SubSeq(@, 1, n)]
  /\ syncs' = [syncs EXCEPT ![conn] = 0]
  /\ UNCHANGED <<sweeps, conn, outbox, readers, tables, request, observed>>

-----------------------------------------------------------------------------
(* readPump and persistInventory, of any connection.  A statement fails on  *)
(* its own and the report goes on.                                          *)

Goes(c, to) == work' = [work EXCEPT ![c] = to]

Fails == failures < MaxFailures /\ failures' = failures + 1

\* The device row gets the date of the sweep.
Dates(sweep) ==
  /\ row' = [row EXCEPT !.date = sweep]
  /\ interrupted' = FALSE
  /\ scanAsked' = [scanAsked EXCEPT !.served = @ \/ scanAsked.sweep \in 1..sweep]

Endpoints(c) == sweeps[work[c].sweep].endpoints

\* Mutant: every event is handled in a goroutine of its own, so a later one
\* may come first.
BeginReportAnyOrder(c) ==
  /\ work[c].at = "idle"
  /\ \E i \in 1..Len(stream[c]) :
       /\ stream' = [stream EXCEPT ![c] = RemoveAt(@, i)]
       /\ Dates(stream[c][i])
       /\ Goes(c, [Idle EXCEPT !.at = "address", !.sweep = stream[c][i]])
  /\ overlapped' = (overlapped \/ \E x \in Conns : work[x].at # "idle")
  /\ UNCHANGED <<sweeps, agent, syncs, left, enabled, profiles, request,
                 complete, hidden, failures>>

\* The lookup of the device, whose failure drops the report, and touchDevice,
\* whose failure goes unnoticed.
BeginReport(c) ==
  /\ work[c].at = "idle" /\ stream[c] # <<>>
  /\ stream' = [stream EXCEPT ![c] = Tail(@)]
  /\ LET report == [Idle EXCEPT !.at = "address", !.sweep = Head(stream[c])] IN
     \/ /\ Dates(Head(stream[c]))
        /\ Goes(c, report)
        /\ UNCHANGED failures
     \/ Fails /\ Goes(c, [report EXCEPT !.clean = FALSE]) /\ UNCHANGED <<row, scanAsked, interrupted>>
     \/ Fails /\ UNCHANGED <<row, scanAsked, interrupted, work>>
  /\ overlapped' = (overlapped \/ \E x \in Conns : work[x].at # "idle")
  /\ UNCHANGED <<sweeps, agent, syncs, left, enabled, profiles, request, complete, hidden>>

\* Where a report stands after its next endpoint, or at its end.
Reaches(c, next, clean) ==
  IF next <= Len(Endpoints(c))
  THEN /\ Goes(c, [work[c] EXCEPT !.at = "endpoint", !.next = next, !.clean = clean])
       /\ UNCHANGED complete
  ELSE /\ Goes(c, Idle)
       /\ complete' = IF clean THEN complete \cup {work[c].sweep} ELSE complete

\* Mutant: the first address a device reports is kept.
UpdateAddressOnce(c) ==
  /\ work[c].at = "address"
  /\ row' = [row EXCEPT !.address = IF @ = NoAddress THEN sweeps[work[c].sweep].address ELSE @]
  /\ Reaches(c, 1, work[c].clean)
  /\ UNCHANGED <<sweeps, agent, wires, left, enabled, profiles, request,
                 scanAsked, hidden, overlapped, interrupted, failures>>

\* An empty address leaves the column as it is.
UpdateAddress(c) ==
  /\ work[c].at = "address"
  /\ LET address == sweeps[work[c].sweep].address IN
     \/ /\ row' = IF address = NoAddress THEN row ELSE [row EXCEPT !.address = address]
        /\ Reaches(c, 1, work[c].clean)
        /\ UNCHANGED failures
     \/ /\ address # NoAddress /\ Fails
        /\ Reaches(c, 1, FALSE)
        /\ UNCHANGED row
  /\ UNCHANGED <<sweeps, agent, wires, left, enabled, profiles, request,
                 scanAsked, hidden, overlapped, interrupted>>

\* Where a report stands after a statement on its next endpoint.
NextEndpoint(c, clean) == Reaches(c, work[c].next + 1, work[c].clean /\ clean)

Port(c)       == Endpoints(c)[work[c].next].port
SerialPort(c) == Endpoints(c)[work[c].next].serial
AtService(c)  == work[c].at = "endpoint" /\ Endpoints(c)[work[c].next].type # EndpointTypeBridge
AtSerial(c)   == work[c].at = "endpoint" /\ Endpoints(c)[work[c].next].type = EndpointTypeBridge

\* Mutant: the conflict clause does not set enabled again.
UpsertEndpointKeepsDisabled(c) ==
  /\ AtService(c)
  /\ enabled' = IF Port(c) \in hidden THEN enabled ELSE enabled \cup {Port(c)}
  /\ hidden' = hidden \ {Port(c)}
  /\ NextEndpoint(c, TRUE)
  /\ UNCHANGED <<sweeps, agent, wires, left, row, profiles, request,
                 scanAsked, overlapped, interrupted, failures>>

\* INSERT ... ON CONFLICT (device_id, port) DO UPDATE SET enabled = true.
UpsertEndpoint(c) ==
  /\ AtService(c)
  /\ \/ /\ enabled' = enabled \cup {Port(c)}
        /\ hidden' = hidden \ {Port(c)}
        /\ NextEndpoint(c, TRUE)
        /\ UNCHANGED failures
     \/ /\ Fails
        /\ NextEndpoint(c, FALSE)
        /\ UNCHANGED <<enabled, hidden>>
  /\ UNCHANGED <<sweeps, agent, wires, left, row, profiles, request, scanAsked, overlapped, interrupted>>

\* Mutant: the row that was found is not looked at.
LookupProfileIgnored(c) ==
  /\ AtSerial(c)
  /\ Goes(c, [work[c] EXCEPT !.at = "insert"])
  /\ UNCHANGED <<sweeps, agent, wires, left, tables, request, observed>>

\* ensureBridgeProfile: any error of the lookup, not only "no rows", leads to
\* the INSERT.
LookupProfile(c) ==
  /\ AtSerial(c)
  /\ \/ /\ SerialPort(c) \in ToSet(profiles)
        /\ NextEndpoint(c, TRUE)
        /\ UNCHANGED failures
     \/ /\ SerialPort(c) \notin ToSet(profiles)
        /\ Goes(c, [work[c] EXCEPT !.at = "insert"])
        /\ UNCHANGED <<complete, failures>>
     \/ /\ Fails
        /\ Goes(c, [work[c] EXCEPT !.at = "insert"])
        /\ UNCHANGED complete
  /\ UNCHANGED <<sweeps, agent, wires, left, tables, request, scanAsked, hidden, overlapped, interrupted>>

InsertProfile(c) ==
  /\ work[c].at = "insert"
  /\ \/ /\ profiles' = Append(profiles, SerialPort(c))
        /\ NextEndpoint(c, TRUE)
        /\ UNCHANGED failures
     \/ /\ Fails
        /\ NextEndpoint(c, FALSE)
        /\ UNCHANGED profiles
  /\ UNCHANGED <<sweeps, agent, wires, left, row, enabled, request,
                 scanAsked, hidden, overlapped, interrupted>>

\* The read fails: the link is down, or the connection was replaced, whose
\* write pump then closes the socket on what was not read.
Leave(c) ==
  /\ c <= conn /\ c \notin left /\ work[c].at = "idle"
  /\ c < conn \/ (~linkUp /\ stream[c] = <<>>)
  /\ left' = left \cup {c}
  /\ stream' = [stream EXCEPT ![c] = <<>>]
  /\ UNCHANGED <<sweeps, agent, syncs, work, tables, request, observed>>

Read(c) ==
  \/ BeginReport(c) \/ UpdateAddress(c) \/ UpsertEndpoint(c)
  \/ LookupProfile(c) \/ InsertProfile(c) \/ Leave(c)

\* The API ends, without waiting for its WebSockets, and starts again: its
\* connections, the reports being persisted and the portal's request are gone.
Restart ==
  /\ left # 1..conn
  /\ linkUp' = FALSE
  /\ stream' = [c \in Conns |-> <<>>] /\ syncs' = [c \in Conns |-> 0]
  /\ left' = 1..conn /\ work' = [c \in Conns |-> Idle]
  /\ interrupted' = (interrupted \/ \E c \in Conns : work[c].at = "address")
  /\ request' = IF request.at = "answered" THEN request ELSE NoRequest
  /\ UNCHANGED <<sweeps, conn, outbox, tables, scanAsked, complete, hidden, overlapped, failures>>

-----------------------------------------------------------------------------
(* The requests of the portal: one scan and one inventory.                  *)

IsConnected == conn > 0 /\ conn \notin left

\* The command is accepted while the API believes the agent connected; on a
\* link that is down it gets lost.
ScanDevice ==
  /\ scanAsked = NotAsked
  /\ IsConnected
  /\ scanAsked' = [conn |-> conn, sweep |-> Len(sweeps), served |-> FALSE, refused |-> FALSE]
  /\ syncs' = IF linkUp THEN [syncs EXCEPT ![conn] = @ + 1] ELSE syncs
  /\ UNCHANGED <<sweeps, agent, stream, readers, tables, request,
                 complete, hidden, overlapped, interrupted, failures>>

\* GetInventory: the device row first, its date is the answer's lastScan.  A
\* date whose report is not complete promises nothing and is kept as Never.
FetchDevice ==
  /\ request = NoRequest
  /\ request' = [at |-> "device", date |-> IF row.date \in complete THEN row.date ELSE Never]
  /\ UNCHANGED <<sweeps, agent, wires, readers, tables, observed>>

\* Then the enabled endpoints.
FetchEndpoints ==
  /\ request.at = "device"
  /\ request' = [at |-> "endpoints", date |-> request.date, ports |-> enabled, hidden |-> hidden]
  /\ UNCHANGED <<sweeps, agent, wires, readers, tables, observed>>

\* An error there is the answer, and so is one of the lookup of the device,
\* which leaves nothing behind and is no step.
GetInventoryFails ==
  /\ request.at = "device"
  /\ request' = NoRequest
  /\ UNCHANGED <<sweeps, agent, wires, readers, tables, observed>>

\* fetchSerialPorts: newest first, each once.
distinctNewestFirst(ports) ==
  LET rows == Reverse(ports)
      seen[n \in 0..Len(ports)] ==
        IF n = 0 THEN <<>>
        ELSE IF rows[n] \in ToSet(seen[n - 1]) THEN seen[n - 1] ELSE Append(seen[n - 1], rows[n])
  IN  seen[Len(ports)]

Answer(serials, serialsRead) ==
  request' = [at |-> "answered",
              date |-> request.date, ports |-> request.ports, hidden |-> request.hidden,
              serials |-> IF serials = <<>> THEN <<defaultModbusSerialPort>> ELSE serials,
              serialsRead |-> serialsRead]

\* Then the serial ports, the default one if there is none.  An error is
\* logged, and the answer is the same as for a device without any.
FetchSerialPorts ==
  /\ request.at = "endpoints"
  /\ Answer(distinctNewestFirst(profiles), TRUE) \/ Answer(<<>>, FALSE)
  /\ UNCHANGED <<sweeps, agent, wires, readers, tables, observed>>

\* Stopping a session or a bridge disables the endpoint of the bridge's port,
\* which may be a port the device reports: mbusd listens on it.
DisableEndpoint(p) ==
  /\ p \in enabled
  /\ enabled' = enabled \ {p} /\ hidden' = hidden \cup {p}
  /\ UNCHANGED <<sweeps, agent, wires, readers, row, profiles, request,
                 scanAsked, complete, overlapped, interrupted, failures>>

-----------------------------------------------------------------------------
Next ==
  \/ Scan \/ Connect \/ Redial \/ Transmit \/ handleSyncInventory \/ LinkLost
  \/ \E c \in Conns : Read(c)
  \/ Restart
  \/ ScanDevice \/ FetchDevice \/ FetchEndpoints \/ FetchSerialPorts \/ GetInventoryFails
  \/ \E p \in BridgePorts : DisableEndpoint(p)

\* The agent's dispatcher and write pump and the API's read pumps are running
\* goroutines.  Nothing obliges the scanner's ticker, the network or a user.
Fairness ==
  /\ WF_vars(handleSyncInventory) /\ WF_vars(Transmit)
  /\ \A c \in Conns : WF_vars(Read(c))

Spec == Init /\ [][Next]_vars /\ Fairness

-----------------------------------------------------------------------------
(* Properties.                                                              *)

Addresses == {sweeps[k].address : k \in DOMAIN sweeps} \cup {NoAddress}

TypeOK ==
  /\ Len(sweeps) <= MaxScans
  /\ conn \in 0..MaxConns /\ linkUp \in BOOLEAN
  /\ outbox \in Seq(Sweeps) /\ Len(outbox) <= SendBuffer
  /\ stream \in [Conns -> Seq(Sweeps)] /\ syncs \in [Conns -> Nat]
  /\ left \subseteq 1..conn
  /\ work \in [Conns -> [at : {"idle", "address", "endpoint", "insert"},
                         sweep : Sweeps \cup {0}, next : Nat, clean : BOOLEAN]]
  /\ row \in [date : Sweeps \cup {Never}, address : Addresses]
  /\ hidden \cup enabled \subseteq DOMAIN wellKnownPorts
  /\ hidden \cap enabled = {}
  /\ request.at \in {"none", "device", "endpoints", "answered"}
  /\ scanAsked \in [conn : 0..MaxConns, sweep : Sweeps \cup {0}, served : BOOLEAN, refused : BOOLEAN]
  /\ complete \subseteq Sweeps /\ overlapped \in BOOLEAN /\ interrupted \in BOOLEAN
  /\ failures \in 0..MaxFailures

\* The date of a device's inventory goes back only at the hands of a
\* connection that has been replaced and still had a report to persist.
ReportsInOrder ==
  [][row'.date < row.date => \E c \in Conns : c < conn /\ work'[c] # work[c]]_vars

\* When the portal dates an inventory by a sweep whose report has been
\* persisted without an error, it shows every port of that sweep, but for those
\* a stop has disabled since, and, if it could read them, every serial port:
\* endpoints and profiles are read after the date and reports only add to them.
AnswerMatchesDate ==
  (request.at = "answered" /\ request.date # Never) =>
     LET listed == ToSet(sweeps[request.date].endpoints) IN
     /\ {e.port : e \in {x \in listed : x.type # EndpointTypeBridge}}
          \subseteq request.ports \cup request.hidden
     /\ request.serialsRead =>
          {e.serial : e \in {x \in listed : x.type = EndpointTypeBridge}} \subseteq ToSet(request.serials)

\* But for the moment between the two statements, the date and the address of
\* the device row are of one sweep, unless a statement failed, the connections
\* of the device persisted two reports at a time, or the API ended in that
\* moment and no report has dated the row since.
RowWhole ==
  \/ failures > 0 \/ overlapped \/ interrupted \/ row.date = Never
  \/ \E c \in Conns : work[c].at = "address"
  \/ sweeps[row.date].address \in {NoAddress, row.address}

\* Reports give a serial port a second bridge profile only when two of them are
\* persisted at a time, or a lookup fails: the table has no unique key.
ProfileOnce == overlapped \/ failures > 0 \/ Cardinality(ToSet(profiles)) = Len(profiles)

\* With no interface preferred, the enumeration of the interfaces yields the
\* address of the LAN if there is one: no sum of bonuses lets the address of a
\* container's interface or a link-local one through.  The lists do not depend
\* on the state, so the initial state is enough.
EnumerationSound == Init =>
  \A ifaces \in InterfaceLists :
    (\A i \in ToSet(ifaces) : i.lower # PreferredInterface.lower)
      => AddressSound(ifaces, PreferredInterface)

\* A scan request that the API has accepted is not forgotten: the inventory is
\* dated by a sweep the agent had made by then, or later, or the agent refuses
\* the command, or the connection it went to is lost, or a statement fails.
\* That the scan is a fresh one, as agent.go:192 says, is not true of the code:
\* what is reported is the last sweep that was over when the command came.
ScanAnswered ==
  scanAsked.sweep > 0 ~> \/ scanAsked.served \/ scanAsked.refused
                         \/ conn # scanAsked.conn \/ ~linkUp
                         \/ failures > 0
=============================================================================
