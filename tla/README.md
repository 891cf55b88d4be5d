# Formal models of the Nucleus remote-access platform

This directory holds TLA+ models of the platform's Go services, TLC
configurations that check them on small instances, and proofs checked by TLAPS
that hold for every instance. Source paths below are relative to the root of the
repository; every definition of a model is tied to its source lines in
`PROJECT.json` (`map`).

## 1. The system

An edge **agent** on a Nucleus device dials the **API** over a WebSocket. Users
of the portal ask the API for **sessions** (access to a TCP port of the device)
and for **serial bridges** (an `mbusd` process that serves a serial port over
TCP). A **helper** on the user's laptop forwards a local port to the session's
endpoint.

    web portal --HTTP--> API handlers --SQL--> PostgreSQL
                             |                     ^
                        SendCommand                | touchDevice, persistInventory
                             v                     |
                         AgentHub <==WebSocket==> agent link (ws.Hub)
                                                   |   ^
                                                recvCh sendCh
                                                   v   |
                                                 Agent -----> mbusd processes
    helper: port mapper --TCP--> device;  helper --HTTP--> API handlers

### Inventory

| Component | State it keeps | Operations | Hard behaviour | What makes it correct |
|---|---|---|---|---|
| `AgentHub` (`apps/api/internal/ws/hub.go`) | registry device -> connection; one bounded channel and two goroutines per connection; `devices.status` | Register, Unregister, SendCommand, readPump, writePump, handleAgentEvent | old and new connection of one device overlap; a channel is closed while another goroutine sends; the status write races the registry; restart of the API | the registry names exactly the served connection; commands reach it in order; goroutines end; status follows the registry |
| Agent core (`apps/agent/internal/agent/agent.go`) | session and bridge maps under one mutex, a timer per session | five command handlers, TTL expiry, heartbeat | timers race stops; a handler holds the mutex while it waits for a process; the send channel is full between two messages; a restart forgets everything | maps, timers, processes and answers agree; every session ends; every command is answered |
| mbusd manager (`apps/agent/internal/mbusd/mbusd.go`) | one child process | Start, Stop, IsRunning | the child exits at any moment, or never | no process forgotten, none signalled that is not ours |
| Agent link (`apps/agent/internal/ws/hub.go`, `cmd/main.go`) | current connection, send and receive channel, stop channel | Connect, Run, readPump, writePump, Send, Stop | readers of several connections alive at once; shutdown in the middle of a redial | order and uniqueness of messages; losses are noticed; readers end |
| Session and bridge handlers (`apps/api/internal/session`, `.../bridge`) | rows of `sessions`, `endpoints`, `bridge_profiles`, `export_history` | CreateSession, StopSession, UpdateSessionTelemetry, StartModbusBridge, StopBridge | several statements and commands per request, no transaction, each may fail, requests interleave | one active bridge per serial port; commands follow the rows; a stop touches only its own port |
| Inventory scanner (`apps/agent/internal/inventory/scanner.go`) | last snapshot | scan of ports, serial devices and addresses; LocalIP | bonuses and penalties of an address add up | the address is one of the LAN, if there is one |
| Inventory persistence (`AgentHub.persistInventory`) | `devices` row, `endpoints`, `bridge_profiles` | touchDevice, one upsert or lookup and insert per endpoint, no transaction | the readers of an old and a new connection persist at once; statements fail one by one; the API ends between two statements | dates do not go back; the row is of one scan; no profile twice |
| Device handlers (`apps/api/internal/device/handler.go`) | - | GetInventory (three reads), ScanDevice (a command) | the reads see a report half written, and one of them may fail unnoticed; the command goes to a dead connection or meets a full channel | what is dated by a scan shows that scan; a scan that was accepted is answered |
| Port mapper (`tools/windows-helper/internal/mapper.go`, `cmd/main.go`, `cmd/commands/map.go`) | mapping, listener, context, connections | StartMapping, StopMapping, expiry, forwarding, two signal handlers | three goroutines stop one mapping | released once; the command ends; the remote session is stopped (finding 4) |
| Telemetry (the same files, `internal/api_client.go`, `UpdateSessionTelemetry` of the session handlers) | the mapping's connection state, `sessions.audit_data` | probes and failed dials note a state, a reporter sends it every 15 seconds | two writers race for the lock; a request that was given up is still carried out | an older state does not replace a newer one; that states arrive is false of the code (finding 6) |
| SQL functions, audit and auth handlers, configuration, CLI commands, web UI, scripts | - | - | - | not modelled, see section 7 |

`PROJECT.json` lists the hazards of this code at their lines and the property
that covers each, or why none does.

## 2. Modules

| Module | Models | Kind |
|---|---|---|
| `AgentHub` | the API's registry and its goroutines | component |
| `MCAgentHub` | a device with two connections | instance |
| `CommandChannel` | what the API promises of a command: a bounded first-in-first-out channel per connection | abstract specification |
| `AgentHubProofs` | type correctness, registry, status | proofs |
| `ChannelProofs` | order of commands, `AgentHub` implements `CommandChannel` | proofs |
| `EdgeAgent` | the agent's dispatcher, registries, timers and mbusd processes | component |
| `MCEdgeAgent` | the commands of the instances | instance |
| `EdgeAgentProofs` | all four invariants of the agent | proofs |
| `AgentLink` | the agent's WebSocket client | component |
| `AgentLinkProofs` | order and uniqueness of messages and commands | proofs |
| `CommandPath` | a command from `SendCommand` to the agent's dispatcher | composition of `CommandChannel` and `AgentLink` |
| `CommandPathProofs` | order end to end; the path implements the channels | proofs |
| `PortMapper` | one mapping of the helper | component |
| `Telemetry` | the mapping with its probes, reports and the session's row | composition, extends `PortMapper` |
| `TelemetryProofs` | release of the mapping, alone and with telemetry; order of reports; types | proofs |
| `Portal` | sessions, bridges and endpoints in the database | component |
| `MCPortal` | two bridges on one serial port | instance |
| `PortalProofs` | the three safety properties of Portal | proofs |
| `HostScan` | the scanner's functions: ports, endpoints, address | operators |
| `Inventory` | a scan on its way to the portal: scanner, agent, connections, `persistInventory`, device handlers | composition |
| `MCInventory` | three hosts, and the lists of interfaces | instance |
| `InventoryProofs` | what a sweep lists and which address it finds; dates, rows, profiles and answers | proofs |

Modules without an MC module (`AgentLink`, `CommandPath`, `PortMapper`, `Telemetry`)
take plain numbers and sets, so their `.cfg` files give them directly. In the component
modules an operator marked "Mutant" is a deliberately broken variant of the definition
after it; it is used only to show that a property can fail.

### AgentHub

A connection (`Conns`) is one WebSocket; `handler[c]` is the place of its HTTP
handler (which becomes the read pump), `writer[c]` its write pump, `queue[c]`
the channel `AgentConn.send`, `sendOpen` the channels not yet closed. Critical
sections of the hub's mutex (`Register`, `Unregister`, the lookup of
`SendCommand`) are single steps; the channel send of `SendCommand` is outside
the mutex, hence a step of its own (`SendPush`, or `SendPanic` on a closed
channel). `Unregister` updates the database inside the mutex, as the code does;
the update may fail. `Restart` is a restart of the API process: connections and
registry go, the database stays. A connection's socket may break at any time
(`LinkLost`).

`Channel` instantiates `CommandChannel` over this state: a channel is up while
its socket is open, `accepted` is what `SendCommand` reported as sent, and
`delivered` what the write pump wrote. The abstract specification knows no
registry, mutex, goroutine or Go channel; it says that a connection holds at
most its capacity, that a command is accepted once and by one connection, that
delivery follows the order of acceptance, and that it happens unless the
connection goes down.

### EdgeAgent

`Handle` is the dispatcher. A handler's step ends where another goroutine or
the process can be observed: the startup wait of `Start`, the bounded wait of
`Stop`, and between the acknowledgement and the event of one command. The mutex
is held from the start of a handler to its last message, so `ExpireSession` and
`Heartbeat` wait. An exited child that nobody waited for stays "exited" (a
zombie), on which `IsRunning` answers true. Messages to the link are counted
(`outbox`); a message that does not fit is dropped and remembered in `dropped`.
A session command whose payload cannot be parsed is refused like one that is over the cap.
`Restart` is the agent's end and new start at any moment. The agent is the first
process of its container (`apps/agent/Dockerfile`, `docs/agent-deployment.md`),
so its mbusd processes, although in process groups of their own, end with it.
The `ASSUME` of the module states that the control plane starts each session and
each bridge once (their ids are fresh UUIDs, see `CreateSession` and
`StartModbusBridge`); stops are not restricted.

### AgentLink

`run` is the place of `Hub.Run`. The n-th read pump is started after the n-th
dial but reads whatever connection is current when it is scheduled
(`StartReading`), as `readPump` calls `activeConn` itself. Nothing waits for the
read pump of an abandoned connection. That a frame which cannot be parsed is logged
and skipped is left out: the control plane writes none. `main` is the process: `Shutdown`,
`StopHub`, and `Exit`, which may come before the pumps have stopped. `Step` is all
that but the control plane's commands (`PeerWrites`).

### CommandPath

The control plane is taken at what it promises: an instance of `CommandChannel`, the
specification that `AgentHub` is shown to implement, replaces its registry,
goroutines and Go channels. The two ends share the sockets. A channel is up while
the socket is open (`ChannelState`), and the control plane's write pump, which
delivers the next accepted command, is the agent's peer that writes it
(`Transmit`). Requests are numbered as `SendCommand` accepts them (`Accept`), the
link's commands as they are written; `origin` remembers which request a command
carries. `SendCommand` also accepts requests for a connection that has failed
unnoticed, and they get nowhere. All else is `AgentLink`'s `Step`.

### Portal

Each handler is a chain of SQL statements and commands; each statement is one
step and may fail. `creating`, `starting` and `stop` say how far each request
is. StopSession and StopBridge share the steps that stop a bridge.
`resolveDeviceAndEndpoint` with the check of `enabled` is one step,
`IsConnected` and the INSERT the next. Requests that are refused before they
write anything take no further step. `NullReadable` is a fact about the database
driver: pgx cannot scan a NULL into a Go string. With `FALSE` (the real driver)
`fetchSession` fails for every active session and the rest of StopSession is
never reached (run `portal_stop_fails`). The safety run and the run on bridges
use `TRUE`, so that the statements after it are examined too; the proofs hold for
both values. The type of a service endpoint (`WEB` or `PROGRAM`) is one value,
`SERVICE`. Rows of other devices, and columns that decide no branch, are left
out.

### PortMapper

One mapping from the moment it is bound. Three goroutines may stop it
(`Stoppers`): `watchExpiry`, the map command and the shutdown hook; each goes
through `StopMapping` (registry entry, under the mutex) and `CancelAndClose`
(outside it).

### Telemetry

Extends `PortMapper` by the probe loop, by what a failed dial notes, by the
reporter of the map command and by `UpdateSessionTelemetry`. A state is
represented by the number of its check. A check is dated before the mapper's
lock is taken (`Check`, then `Notes`), as in `runProbe` and `forwardTCP`. A
request that has timed out stays in the API as `stray`, one at a time.
`UpdateSessionTelemetry` is one step although it reads the session first: what
it reads never changes after the session's creation, but for the telemetry it
replaces. With `NullReadable = FALSE`, the real driver, the read fails for every
active session (finding 6) and no report ever arrives, so `TelemetryInOrder` is
vacuous of today's code; the run uses `TRUE` to examine the order there will be once
the read is repaired. It claims nothing of arrival. The proofs hold for both.

### HostScan and Inventory

`HostScan` has the scanner's functions on an abstract host: the listening ports of the
two `/proc/net` files, serial devices, interfaces with the class of their name and of
their addresses, and the outcome of the two route lookups. The sort of the ports
(`sort.Ints`) is `Ascending`, the one ascending enumeration of a set, which says what
the sort yields and can be reasoned about. The loops of `LocalIP` over the interfaces
and their addresses are recursive functions over the number of elements passed
(`candidates`, `bestAddress`), and so is the loop of `fetchSerialPorts`
(`distinctNewestFirst` of `Inventory`). What the address has to be is `AddressSound`,
stated without any score.

`Inventory` numbers the sweeps; a report is the number of the sweep it carries, from the
agent's channel (`outbox`) over a connection (`stream`) to `persistInventory` (`work`),
which takes one step per SQL statement. Two connections may be read at once, since the
reader of a replaced connection goes on with what had arrived.

`sendInventoryUpdate` needs a snapshot and room in the send channel; without either a
sync is refused. The initial report finds room, and is left out if the first sweep is
not over. Acknowledgements and heartbeats share that channel and may have filled it, so
a refusal is possible at any time. `Restart` ends the API between any two statements: it
does not wait for its WebSockets (`apps/api/cmd/server/main.go:93`), the reports in hand
stay where they are, and the tables keep what was written. Each read of `GetInventory`
may fail: the first two answer with an error, a failed `fetchSerialPorts` is only logged
and answered with the default port (`serialsRead` tells the two apart).

`scanAsked`, `complete`, `hidden`, `overlapped` and `interrupted` are history variables
for the properties. `BridgePorts` are the ports whose endpoint StopSession or StopBridge
may disable; how they come to do so is in `Portal`. The row that StartModbusBridge adds
to `bridge_profiles` is left to `Portal` too: here the table holds what reports put
there. `InterfaceLists` are the lists of interfaces that `EnumerationSound` speaks of.

## 3. Runs

| Run | Instance | Shows |
|---|---|---|
| `hub_registry` | 1 device, 2 connections, 2 commands, channel of 1 | registry exact, status, command order; goroutines reclaimed; implements `CommandChannel` |
| `hub_send_panics` | 2 connections, 1 command | **finding**: `SendCommand` can panic on a closed channel |
| `edge_agent` | 2 sessions, cap 1, 1 bridge, any 3 of 8 commands, channels of 1, restarts | registries, timers, processes, acknowledgements agree; every session ends, every command is answered |
| `mbusd_early_exit` | 1 bridge, start and stop | **finding**: an mbusd that exits at once is not noticed |
| `command_path` | 2 dials, 2 messages, 2 commands, channels of 1 | what the dispatcher meets of a connection is an initial part of what was accepted for it; order, uniqueness, losses noticed, readers end |
| `agent_link_registers` | 2 dials, 3 messages | **finding**: no registration after a redial |
| `port_mapper` | 1 forwarded connection, 2 checks of the endpoint | released once, the map command ends; reports in order but for two races |
| `port_mapper_signal` | 1 connection | **finding**: the process may exit before the remote stop |
| `portal` | 1 session, 2 bridges on one serial port, 2 stops, 2 ports | serial-port check, commands and rows, locality of stops |
| `portal_two_bridges` | the same, 1 stop | **finding**: two overlapping requests give two active bridges |
| `portal_stop_fails` | the same, the real driver | **finding**: an active session cannot be stopped |
| `inventory` | 2 sweeps of 3 hosts, 2 connections, send channel of 1, 1 failing statement, restarts of the API, 1 scan and 1 inventory request | dates, rows, profiles and answers; accepted scans are answered or refused; the enumeration of addresses against its reference |

**Bounds.** Channels have capacity 1 instead of 64 or 256: full, empty and in-between
are all reached with one or two messages. Two connections of one device are the smallest
number in which one is replaced; a third adds no new pair, and the registry and status
properties are proved for any number. Two sessions under a cap of one reach the cap. Two
dials give an old and a new read pump. Two requests are the fewest of which one can
overtake or be left out before the other; the order of the path is proved for any
number. Two bridges on one serial port, one of them on a port an inventory report also
lists, give every pair of a bridge start, a bridge stop, a session stop and a report.
The bounds on counters are `MaxDials`, `MaxMessages` and `MaxCommands` of `AgentLink`
and `CommandPath`; `MaxSent` of `EdgeAgent`, the number of commands that reach the agent
- three of the eight, in every order, which is a start, a stop and one more behind them,
and the invariants are proved for any number; `MaxChecks` of `Telemetry`, two, one older
than the other; and `MaxScans`, `MaxConns` and `MaxFailures` of `Inventory`: two sweeps,
so that one is stale, two connections, so that one is replaced, and one failing
statement of a report; the failures of `GetInventory`'s reads and the restarts of the
API are not bounded. The enumeration of addresses is checked for every list of two
interfaces of every kind with at most two addresses each, and proved for lists of any
length. Everything else is finite because each identifier is used once. For this reason
the models come to rest when all work is done, and so does the real system, whose
goroutines then wait for input: hence `CHECK_DEADLOCK FALSE`. What must not come to rest
early is stated as liveness.

**Symmetry.** Only `portal` uses it (stop requests); it has no liveness.

**Fairness.** Each module's `Fairness` names its grounds: the Go scheduler runs every
runnable goroutine, timers and deadlines fire, an error on a failed socket reaches its
reader after the finite data before it (strong fairness), and a goroutine waiting for a
`sync.Mutex` is not starved (Go's mutex has a starvation mode; strong fairness for
`ExpireSession`). No fairness is given to the environment: agents need not connect,
mbusd need not exit, links need not drain, users need not press a key, a mapping's
deadline may be as far off as one likes (`MapCommandEnds` starts from the end of its
context); nothing about the reports is assumed. In `Inventory` the agent's dispatcher
and write pump and the API's read pumps are fair, the scanner's ticker, a redial and the
user are not. `CommandPath` has the fairness of `AgentLink` and none for the control
plane, which need not send anything. `Portal` has safety properties only and states no
fairness.

## 4. Properties

* `RegistryExact`, `OnlineWhileRegistered` - a late `Unregister` of a replaced
  connection neither removes the new one nor marks its device offline. The
  reverse, "online in the database means connected", is false in the code (late
  event of an old connection, lost status write, restart of the API).
* `CommandStream` - per connection, what is on the wire is a prefix of what was
  accepted, and nothing is lost while the socket is open.
* `ConnectionReclaimed` - goroutines do not linger.
* `ImplementsChannel` - the hub implements `CommandChannel`, its liveness
  included: an accepted command is written unless its socket fails.
* `TimersMatchSessions`, `ProcessesTracked`, `AckTruthful` - the agent's maps
  against its timers, the operating system's processes and what it told the API.
* `SessionsEnd`, `CommandsAnswered` - although the dispatcher may be blocked by
  a process for a while, and the agent may restart.
* `OutboundOrder`, `InboundOnce`, `LossNoticed`, `ReadersReclaimed` - the link
  across reconnects.
* `HandledInOrder` - on a connection with one reader, what comes to the dispatcher is
  what was accepted for it, without a gap: a full channel, a failed socket, a
  reader stopped while it holds a command or a shutdown cut the sequence off
  and never take something out of its middle.
* `ReleasedOnce`, `MapCommandEnds` - the helper's mapping.
* `TelemetryInOrder` - an older state replaces a newer one in the session's row only
  if a probe and a dial raced for the lock or the reporter gave a request up that was
  carried out.
* `ReportsInOrder` - the date of an inventory goes back only through the reader
  of a replaced connection. That it can go back at all is the code's: nothing
  compares dates.
* `RowWhole` - the date and the address of the device row are of one sweep. The
  exceptions are the code's, which writes them in two statements: one of them failed,
  two reports were persisted at a time, or the API ended between them; the next report
  repairs the last.
* `ProfileOnce` - a serial port has one profile, unless two reports were persisted at a
  time or a lookup failed. `bridge_profiles` has no unique key.
* `AnswerMatchesDate` - `GetInventory` reads date, endpoints and serial ports one
  after the other; an inventory dated by a sweep whose report was persisted
  without an error shows that sweep's services, unless a stop has disabled them, and
  its serial ports, unless their read failed. That a failed read is shown to the user
  as a device with the default port alone is an observation below.
* `ScanAnswered` - an accepted scan request leads to an inventory as new as the
  agent's last sweep before the request, or is refused by the agent, unless the
  connection or a statement fails. It is not a fresh scan, see the observations.
* `EnumerationSound` - with no interface preferred, the last resort of `LocalIP`, its
  two loops and scores, yields an address of the LAN if there is one, of the highest
  rank, and none otherwise. The configured address, the preferred interface, the dial
  and the default route come first.
* `OneBridgePerSerialPort` - the check of StartModbusBridge is defeated by
  overlapping requests only: by no failed statement, stop or report.
* `CommandsFollowRows`, `StopsStayOnPort` - however requests interleave.

### Findings

1. `SendCommand` (`apps/api/internal/ws/hub.go:112`) sends on a channel that
   `Register` may have closed since the lookup: the calling request panics after
   its database writes.
2. `IsRunning` (`apps/agent/internal/mbusd/mbusd.go:183`) is true of a zombie,
   so the startup check never fails.
3. `Agent.Reconnect` is never called: after a redial the agent does not register
   or send its inventory, contrary to its comment.
4. The helper's shutdown hook may end the process before the map command has
   asked the API to stop the session.
5. `StartModbusBridge` checks and inserts in two statements without a unique
   index: two overlapping requests leave two active bridges on a serial port.
6. `fetchSession` (`apps/api/internal/session/handler.go:639`) scans the NULL
   `stop_reason` of an active session into a string, so StopSession fails for every
   active session. UpdateSessionTelemetry reads the session the same way: no report of
   the helper reaches an active session, contrary to `docs/current-state.md:168`.

### Observations

Met while modelling; no run is about them.

* `agent.go:192` says that a sync "triggers a fresh inventory scan"; this is false of
  the code: the handler sends the snapshot of the last periodic scan. The periodic scans
  themselves are never sent, so without a sync the API knows the inventory of the first
  connection only, or none if the first scan was not over by then.
* `ip_address::text` of an `INET` column carries the netmask (`192.168.1.5/32`),
  and so do the URLs and remote hosts built from it (`session/handler.go:589`).
* A failed read of the serial ports is answered with 200 and the default port, which
  the portal cannot tell from a device that has no other (`device/handler.go:198-204`).
* An agent without a LAN address leaves the old `ip_address` in place, and a
  service that no longer listens keeps its enabled endpoint.
* `CreateSession` of a device without an address stores an empty remote host,
  which the helper refuses (`map.go:74`).
* `ListDevices` shows the stored status, `GetDevice` corrects it by the registry.
* `nucleus-helper status` and `unmap` look at the mappings of their own process.

## 5. Proofs

All proofs are checked by `tlapm` down to the last leaf, without any assumption
but the named `ASSUME`s on the constants.

**AgentHubProofs** (`TypeCorrect`, `RegistryIsExact`, `StatusIsOnline`, from
`HubAssumption`: a device per connection, a channel capacity of at least one).
`RegistryExact` is not inductive: `Register` makes a connection current and needs
its channel to be open, and a newly current connection must not have reported
yet. The invariant therefore adds `OpenBeforeRegister`, `NothingReportedYet` and,
for the types, `TargetKnown`. One lemma per part (types, registry, status), one
step per action in each.

**ChannelProofs** (`StreamIsOrdered`, `HubImplementsChannel`). `CommandStream` says
nothing of a command that is accepted on another connection; `StreamInv` adds
that the accepted commands are the written ones followed by those in the channel,
that each of them is a call that has returned, and that a connection nobody has
upgraded holds nothing. With it every step of `AgentHub` is a step or a stutter
of `CommandChannel` under the mapping `Channel`; its fairness is checked by TLC
(`ImplementsChannel`).

**EdgeAgentProofs** (`TypeCorrect`, `TimersAgree`, `ProcessesAreTracked`,
`AcksAreTrue`, from `AgentAssumption`). That an acknowledgement is the truth rests
on each command being handled once: `QueueOK` says that a command in the channel
has been sent, waits there once and has no effect yet. `WaitingOK` ties the
dispatcher's waits to the process it waits for, `RepliesTrue` the answers that
are still to be sent to what has been done, and `ProcessesOK` excludes a
registered bridge whose process was killed. One lemma per group of actions, one
step per conjunct.

**PortalProofs** (`SerialPortGuarded`, `RowsComeFirst`, `StopsAreLocal`, from
`PortalAssumption`). The invariant adds `RowsOfRequests` (a row exists from its
request's INSERT on), `StopsProgress` (what a stop request has achieved by the
place it has reached) and `SerialPortClaims` (the property of the serial ports
extended to requests that are past the check and have not inserted yet). One
lemma per handler, one step per statement, one sub-step per conjunct.

**TelemetryProofs** (`ReleaseIsExact`, `ReleasedOnceWithTelemetry`, `ReportsKeepOrder`,
`TelemetryTypeCorrect`, from `TelemetryAssumption`). The first is about `PortMapper`
alone. `ReleasedOnce` would let `StopMapping` add a second closer; `CloserRemovedEntry`
excludes it. Only two actions touch the entry or the listener, so the others are dealt
with by one lemma (`OtherStep`). Every step of the composition is a step of `PortMapper`
or leaves it alone, by the way it is written; `StepsOfMapping` states this for the
prover, and with it that invariant carries over. The order of the reports follows from
`InOrder`: until one of the two races has happened, row, report and mapping are ordered
by their checks. The type invariant says more than types: what is noted, shown, reported
or stored is a check that has been made (`Dated`); it is inductive as it stands.

**AgentLinkProofs** (`TypeCorrect`, `OutboundInOrder`, `InboundArrivesOnce`, from
`LinkAssumption`: at least one dial and one message, channels of at least one).
`OutboundOrder` needs that nothing is written or queued that was not sent, and
that a connection not yet dialled is empty (`SentOK`), and both rest on the places
`Hub.Run` can be in (`RunOK`): when it is back at the top of its loop, the read
pump of its newest connection has not been spawned. `InboundOnce` speaks of the
commands that have arrived; the invariant follows a command from the start: in
one socket's buffer, once (`InboxOK`), or in the hand of one read pump
(`ReadersOK`), or past it (`ArrivedOK`). Order per connection holds only while the
connection has one reader (`SoleReaderOrder`): a connection read by two pumps, an
old one scheduled late and its own, may deliver out of order, which the property
grants and nothing else. One lemma per action that moves a command; the steps
that move none are one lemma (`InboundFrame`).

**CommandPathProofs** (`RequestsInOrder`, `PathImplementsChannel`, from
`LinkAssumption`). A step of the path is a step of `AgentLink` or leaves it alone (again
by the way it is written), so the invariant of `AgentLinkProofs` holds of it.
`InboundOnce` says that commands keep their order; `HandledInOrder` says that none is
missing, and for that the invariant must tell where each one is. `AcceptedOK` and
`OriginOK` tie the link's commands to requests: each request is accepted once, each
command is a written request, and those of a connection are numbered in the order of
their acceptance. `StaysOK` says that a command is met only on the connection it was
written to. `NoneLost` says that while a connection's only reader has not ended, all its
commands are in the socket's buffer, in the reader's hand or past it; a reader that ends
with a command in hand loses it, and then delivers no more. `Gapless` is what remains
when the reader has ended: whatever has arrived had its predecessors arrive before. One
lemma per action that moves a command, as before. For the refinement of the channels,
`SocketsOK` says that a socket exists from its dial on and that nothing else is ever
read or closed; with it a step of the agent opens one channel, fails one, or is not seen
by them (`SocketEffect`).

**InventoryProofs** (from `InventoryAssumption`, `HostsAssumption` and
`InterfacesAssumption`: the bounds are numbers, there is at least one connection, the
globs yield a list, interfaces have one of the classes of name, and their addresses one
of the classes of address, that the scores tell apart, and 127/8 is the loopback
interface's). Four theorems are about
operators. `ListsWhatListens` says what a sweep lists, services and serial devices, by
way of `Enumerable` and `AscendingLists`: a finite set of numbers has an ascending
enumeration that holds each element once. `AddressIsSound` says which address the
fallback enumeration picks when no interface is preferred, for interface lists of any
length; the run checks the same on every list of two interfaces (`EnumerationSound`).
The library's induction theorems cannot be used here (they take an
operator), so `Induction` is proved as a fact about sets of numbers: the least element of
the set of counterexamples has a predecessor. `Recursion` applies it to a loop given
as a recursive function and is used three times: for the list of candidates
(`CandidatesComplete`: each address of each interface that is up), for the best so far
(`BestFound`: an element with the highest positive score, `BestOf`, or nothing) and for
`SerialPortsOnce`, the order of the serial ports in an answer. `ScoresSeparate` and
`ScoresRank` are the arithmetic of the scores: the penalties outweigh every sum of
bonuses that could lift a virtual interface or a link-local address above zero. Of
the state machine are proved `TypeCorrect`, `AnswersMatchDates`, `RowsAreWhole`,
`ProfilesOnce` and the action property `DatesInOrder`, all from one invariant:

* `SweepsOK` - a number that travels, is dated or is asked for is of a sweep that
  was made; sweeps are only appended, so what a report means does not change.
* `PositionOK` - a report past its address is at an endpoint of its sweep, and an
  insert is of a serial device.
* `OrderOK` - reports are ordered across the channel and all connections, and none
  of the newest connection is older than the row. Nothing is said of the row
  against an older connection, and there the date does go back: `DatesInOrder` is
  exactly this difference.
* `RowOK`, `ProfilesOK` - until a statement fails or two reports are persisted at a
  time, one reader is busy, the date it has written is its report's until the address
  follows (unless the API ended there, which `interrupted` remembers), and a profile
  about to be inserted is not in the table.
* `PersistedOK` - the endpoints a clean report has passed have their rows (`HasRow`: a
  service shown or disabled, a serial port in a profile), and so have all endpoints of
  a completed one; rows are never deleted (`RowsStay`).
* `RequestOK` - what a request has read of an inventory with a date contains the
  services and, if they could be read, the serial ports of that date: rows only grow
  between its reads.

A step is shown to keep it by frames: `MovesFrame` for steps that only move
reports and commands, `ReportFrame` and `Advance` for a report that comes to its
next endpoint or its end, `RowKept` and `ProfilesKept` for statements that leave
those alone. `RestartStep` is the API's restart.

All inductive invariants were model-checked on small instances before they were
proved.

**Only model-checked**: the liveness properties and the fairness of
`ImplementsChannel` (temporal reasoning with fairness is outside this prover's reach).

## 6. Plan

Done: the hub through which every command passes with the abstract channel it
implements, the agent that executes the commands, the link between, the handlers that
decide, the path of a command through hub and link, the inventory's way from the host to
the portal, the helper at the far end with its telemetry.

Every safety invariant and action property that a passing run checks is proved for
every instance; `EnumerationSound`, a fact about an operator, as `AddressIsSound`.

Left:

1. The liveness of the path: an accepted command is handled if its connection
   stays. It needs the fairness of both ends and a bound on what shutdowns and
   losses may interrupt; TLC can check it, this prover cannot.
2. The rows of sessions and bridges against the registries of an agent that may
   restart: `Portal` over `EdgeAgent`, joined by `CommandPath`.

## 7. Not modelled

* Authentication, middleware, configuration, database clients: checks of single
  requests and wiring, no protocol.
* The audit handler, `GetDevice`, `ListDevices` and the listings of sessions and
  bridges: each reads a table.
* `BroadcastToTenant`, `Agent.Reconnect`: no callers.
* `expire_stale_sessions`, `update_device_status`: no callers in the repository.
* The scanner's `inventoryChanged`, which decides the level of a log line, and the
  device capabilities, which nothing reads.
* The helper's byte counter, its other commands (one HTTP call each), the web portal
  with its mock API, installation scripts, seeds.
* Code outside `src/`: WebSocket library, PostgreSQL, the operating system and
  mbusd appear only as actions of the environment (`LinkLost`, `ProcessExits`,
  `Signal`, a failing statement).
