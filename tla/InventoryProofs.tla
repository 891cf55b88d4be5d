-------------------------- MODULE InventoryProofs --------------------------
(***************************************************************************)
(* What a sweep lists, and what becomes of it on the way to the portal:    *)
(* for every set of hosts and any number of sweeps, connections and        *)
(* statements that fail.                                                   *)
(***************************************************************************)
EXTENDS Inventory, SequenceTheorems, FiniteSetTheorems, TLAPS

Snapshots == {scan(host, LocalIPOverride, PreferredInterface) : host \in Hosts}

IsService(e) == e.type # EndpointTypeBridge

\* The ports of the services a snapshot lists.
Services(snapshot) == {e.port : e \in {x \in ToSet(snapshot.endpoints) : IsService(x)}}

\* The serial ports it lists.
SerialPorts(snapshot) == {e.serial : e \in {x \in ToSet(snapshot.endpoints) : ~IsService(x)}}

Serials == UNION {SerialPorts(snapshot) : snapshot \in Snapshots}

Held == enabled \cup hidden

\* The sweep that is reported, persisted, dated or asked for has been made.
SweepsOK ==
  /\ sweeps \in Seq(Snapshots)
  /\ \A i \in DOMAIN outbox : outbox[i] \in DOMAIN sweeps
  /\ \A c \in Conns : \A i \in DOMAIN stream[c] : stream[c][i] \in DOMAIN sweeps
  /\ \A c \in Conns : work[c].at # "idle" => work[c].sweep \in DOMAIN sweeps
  /\ row.date \in DOMAIN sweeps \cup {Never}
  /\ complete \subseteq DOMAIN sweeps
  /\ scanAsked.sweep \in DOMAIN sweeps \cup {0}

\* A report that is past the address is at an endpoint of its sweep.
PositionOK ==
  \A c \in Conns :
    /\ work[c].at \in {"endpoint", "insert"} => work[c].next \in DOMAIN Endpoints(c)
    /\ work[c].at = "insert" => ~IsService(Endpoints(c)[work[c].next])

\* Reports travel in the order of their sweeps, across all connections; none
\* that the newest connection has still to persist is older than the row.
OrderOK ==
  /\ \A c \in Conns : c > conn => stream[c] = <<>>
  /\ \A c, d \in Conns : \A i \in DOMAIN stream[c], j \in DOMAIN stream[d] :
       c < d \/ (c = d /\ i < j) => stream[c][i] <= stream[d][j]
  /\ \A c \in Conns : \A i \in DOMAIN stream[c], j \in DOMAIN outbox : stream[c][i] <= outbox[j]
  /\ \A i, j \in DOMAIN outbox : i < j => outbox[i] <= outbox[j]
  /\ \A j \in DOMAIN outbox : row.date <= outbox[j]
  /\ \A c \in Conns : \A j \in DOMAIN stream[c] : c = conn => row.date <= stream[c][j]

Busy == {c \in Conns : work[c].at # "idle"}

Undisturbed == ~overlapped /\ failures = 0

AddressMatches == row.date = Never \/ sweeps[row.date].address \in {NoAddress, row.address}

\* Undisturbed, one report is persisted at a time; until its address is
\* written the row has only its date, and keeps only that if the API ends then.
RowOK ==
  Undisturbed =>
    /\ \A c, d \in Busy : c = d
    /\ \A c \in Busy : work[c].at = "address" => row.date = work[c].sweep
    /\ (\A c \in Busy : work[c].at # "address") /\ ~interrupted => AddressMatches

\* A profile is of a serial port that some sweep lists.  Undisturbed, one that
\* is about to be inserted is not there.
ProfilesOK ==
  /\ profiles \in Seq(Serials)
  /\ Undisturbed =>
       /\ \A i, j \in DOMAIN profiles : profiles[i] = profiles[j] => i = j
       /\ \A c \in Conns : work[c].at = "insert" => SerialPort(c) \notin ToSet(profiles)

\* The endpoint has a row, when the tables have these ports and serial ports.
HasRow(e, ports, serials) == IF IsService(e) THEN e.port \in ports ELSE e.serial \in serials

\* The endpoints a report has passed without an error, and those of a report
\* that ended so, have a row.
PersistedOK ==
  /\ \A c \in Conns : work[c].at \in {"endpoint", "insert"} /\ work[c].clean =>
       \A i \in DOMAIN Endpoints(c) :
         i < work[c].next => HasRow(Endpoints(c)[i], Held, ToSet(profiles))
  /\ \A k \in complete : \A e \in ToSet(sweeps[k].endpoints) : HasRow(e, Held, ToSet(profiles))

\* What the portal has read so far of an inventory that is dated.
RequestOK ==
  /\ request.at # "none" => request.date \in complete \cup {Never}
  /\ request.at \in {"endpoints", "answered"} /\ request.date # Never =>
       Services(sweeps[request.date]) \subseteq request.ports \cup request.hidden
  /\ request.at = "answered" /\ request.date # Never /\ request.serialsRead =>
       SerialPorts(sweeps[request.date]) \subseteq ToSet(request.serials)

\* The inductive invariant.
IInv ==
  /\ TypeOK /\ SweepsOK /\ PositionOK /\ OrderOK
  /\ RowOK /\ ProfilesOK /\ PersistedOK /\ RequestOK

-----------------------------------------------------------------------------
(* What a sweep lists.                                                      *)

LEMMA Elements ==
  ASSUME NEW S, NEW s \in Seq(S)
  PROVE  /\ DOMAIN s = 1..Len(s) /\ Len(s) \in Nat
         /\ \A i \in DOMAIN s : s[i] \in S
BY LenProperties

\* A finite set of numbers has an ascending enumeration: each element at its
\* rank.
LEMMA Enumerable ==
  ASSUME NEW S \in SUBSET Nat, IsFiniteSet(S)
  PROVE  \E s \in [1..Cardinality(S) -> S] : \A i, j \in 1..Cardinality(S) : i < j => s[i] < s[j]
<1> DEFINE n == Cardinality(S)
           below(p) == {q \in S : q <= p}
<1>1. n \in Nat
  BY FS_CardinalityType
<1>2. ASSUME NEW p \in S
      PROVE  IsFiniteSet(below(p)) /\ Cardinality(below(p)) \in 1..n
  <2>1. IsFiniteSet(below(p)) /\ Cardinality(below(p)) <= n
    BY FS_Subset
  <2>2. p \in below(p)
    OBVIOUS
  <2>3. Cardinality(below(p)) \in Nat /\ Cardinality(below(p)) # 0
    BY <2>1, <2>2, FS_CardinalityType, FS_EmptySet
  <2>4. QED BY <1>1, <2>1, <2>3
<1>3. ASSUME NEW p \in S, NEW q \in S, p < q
      PROVE  Cardinality(below(p)) < Cardinality(below(q))
  <2>1. q \notin below(p) /\ below(p) \cup {q} \in SUBSET below(q)
    <3>1. p \in Nat /\ q \in Nat /\ ~(q <= p) /\ q <= q
      BY <1>3
    <3>2. \A r \in S : r <= p => r <= q
      BY <1>3
    <3>3. QED BY <3>1, <3>2
  <2>2. Cardinality(below(p) \cup {q}) = Cardinality(below(p)) + 1
    BY <1>2, <2>1, FS_AddElement
  <2>3. Cardinality(below(p) \cup {q}) <= Cardinality(below(q))
    BY <1>2, <2>1, FS_Subset
  <2>4. QED BY <1>2, <2>2, <2>3
<1>4. PICK rank \in [S -> 1..n] : \A p \in S : rank[p] = Cardinality(below(p))
  <2>1. [p \in S |-> Cardinality(below(p))] \in [S -> 1..n]
    BY <1>2
  <2>2. QED BY <2>1
<1>5. \A p, q \in S : p < q => rank[p] < rank[q]
  BY <1>3, <1>4
<1> HIDE DEF below
<1>6. rank \in Injection(S, 1..n)
  <2>1. ASSUME NEW p \in S, NEW q \in S, rank[p] = rank[q] PROVE p = q
    BY <1>4, <1>5, <2>1
  <2>2. QED BY <2>1 DEF Injection, IsInjective
<1>7. IsFiniteSet(1..n) /\ Cardinality(1..n) = n
  BY <1>1, FS_Interval
<1>8. rank \in Surjection(S, 1..n)
  BY <1>6, <1>7, FS_Injection
<1>9. \A i \in 1..n : \E p \in S : rank[p] = i
  BY <1>8 DEF Surjection
<1>10. PICK s \in [1..n -> S] : \A i \in 1..n : rank[s[i]] = i
  <2>1. [i \in 1..n |-> CHOOSE p \in S : rank[p] = i] \in [1..n -> S]
    BY <1>9
  <2>2. \A i \in 1..n : rank[[k \in 1..n |-> CHOOSE p \in S : rank[p] = k][i]] = i
    BY <1>9
  <2>3. QED BY <2>1, <2>2
<1>11. ASSUME NEW i \in 1..n, NEW j \in 1..n, i < j PROVE s[i] < s[j]
  <2>1. s[i] \in S /\ s[j] \in S /\ s[i] \in Nat /\ s[j] \in Nat
    BY <1>10
  <2>2. rank[s[i]] = i /\ rank[s[j]] = j
    BY <1>10
  <2>3. ~(s[j] < s[i]) /\ s[i] # s[j]
    BY <1>5, <1>11, <2>1, <2>2
  <2>4. QED BY <2>1, <2>3
<1>12. QED BY <1>10, <1>11

\* Ascending lists every element of the set, once, and nothing else.
LEMMA AscendingLists ==
  ASSUME NEW S \in SUBSET Nat, IsFiniteSet(S)
  PROVE  /\ Ascending(S) \in Seq(S) /\ Len(Ascending(S)) = Cardinality(S)
         /\ \A i, j \in DOMAIN Ascending(S) : i < j => Ascending(S)[i] < Ascending(S)[j]
         /\ ToSet(Ascending(S)) = S
<1> DEFINE n == Cardinality(S)
<1>1. n \in Nat
  BY FS_CardinalityType
<1>2. PICK s : s = Ascending(S)
  OBVIOUS
<1>3. s \in [1..n -> S] /\ \A i, j \in 1..n : i < j => s[i] < s[j]
  BY <1>2, Enumerable DEF Ascending
<1>4. s \in Seq(S) /\ Len(s) = n /\ DOMAIN s = 1..n
  <2>1. s \in Seq(S)
    BY <1>1, <1>3, SeqDef
  <2>2. QED BY <1>1, <1>3, <2>1, LenProperties
<1>5. s \in Injection(1..n, S)
  <2>1. ASSUME NEW i \in 1..n, NEW j \in 1..n, s[i] = s[j] PROVE i = j
    <3>1. s[i] \in Nat /\ s[j] \in Nat
      BY <1>3
    <3>2. ~(i < j) /\ ~(j < i)
      BY <1>3, <2>1, <3>1
    <3>3. QED BY <3>2
  <2>2. QED BY <1>3, <2>1 DEF Injection, IsInjective
<1>6. IsFiniteSet(1..n) /\ Cardinality(1..n) = n
  BY <1>1, FS_Interval
<1>7. s \in Surjection(1..n, S)
  BY <1>5, <1>6, FS_Injection
<1>8. ToSet(s) = S
  BY <1>3, <1>7 DEF Surjection, ToSet
<1>9. QED BY <1>2, <1>3, <1>4, <1>8

Known(ports) == Ascending(ports \cap DOMAIN wellKnownPorts)

\* The well-known ports that listen are listed in ascending order, each once.
LEMMA KnownLists ==
  ASSUME NEW ports
  PROVE  /\ Len(Known(ports)) \in Nat /\ DOMAIN Known(ports) = 1..Len(Known(ports))
         /\ \A i, j \in DOMAIN Known(ports) : i < j => Known(ports)[i] < Known(ports)[j]
         /\ ToSet(Known(ports)) = ports \cap DOMAIN wellKnownPorts
<1> DEFINE S == ports \cap DOMAIN wellKnownPorts
<1>1. PICK D : D = DOMAIN wellKnownPorts
  OBVIOUS
<1>2. PICK top \in Nat : top = 44818
  OBVIOUS
<1>3. D \in SUBSET (1..top) /\ D \in SUBSET Nat
  BY <1>1, <1>2 DEF wellKnownPorts, WebPorts, ProgramPorts
<1>4. IsFiniteSet(D)
  <2>1. IsFiniteSet(1..top)
    BY FS_Interval
  <2>2. QED BY <1>3, <2>1, FS_Subset
<1>5. S \in SUBSET Nat /\ IsFiniteSet(S)
  <2>1. S \in SUBSET D
    BY <1>1
  <2>2. QED BY <1>3, <1>4, <2>1, FS_Subset
<1>6. PICK known : known = Ascending(S)
  OBVIOUS
<1>7. known \in Seq(S) /\ ToSet(known) = S /\ \A i, j \in DOMAIN known : i < j => known[i] < known[j]
  BY <1>5, <1>6, AscendingLists
<1>8. Len(known) \in Nat /\ DOMAIN known = 1..Len(known)
  BY <1>7, Elements
<1>9. QED BY <1>6, <1>7, <1>8 DEF Known

\* A sweep lists as services exactly the well-known ports that listen, under
\* their type, and then the serial devices in the order they were found.
LEMMA Lists ==
  ASSUME NEW ports, NEW serials, serials \in Seq(ToSet(serials))
  PROVE  /\ Len(serials) \in Nat
         /\ DOMAIN buildInventory(ports, serials) = 1..(Len(Known(ports)) + Len(serials))
         /\ buildInventory(ports, serials) \in Seq(ToSet(buildInventory(ports, serials)))
         /\ \A i \in 1..Len(Known(ports)) :
              buildInventory(ports, serials)[i] = [type |-> wellKnownPorts[Known(ports)[i]], port |-> Known(ports)[i]]
         /\ \A i \in 1..Len(serials) :
              buildInventory(ports, serials)[Len(Known(ports)) + i] = [type |-> EndpointTypeBridge, serial |-> serials[i]]
<1>1. PICK n \in Nat : n = Len(Known(ports))
  BY KnownLists
<1>2. PICK m \in Nat : m = Len(serials)
  BY Elements
<1>3. PICK a : a = [i \in 1..n |-> [type |-> wellKnownPorts[Known(ports)[i]], port |-> Known(ports)[i]]]
  OBVIOUS
<1>4. PICK b : b = [i \in 1..m |-> [type |-> EndpointTypeBridge, serial |-> serials[i]]]
  OBVIOUS
<1>5. PICK E : E = {a[i] : i \in 1..n} \cup {b[i] : i \in 1..m}
  OBVIOUS
<1>6. a \in Seq(E) /\ Len(a) = n
  <2>1. a \in [1..n -> E] /\ DOMAIN a = 1..n
    BY <1>3, <1>5
  <2>2. a \in Seq(E)
    BY <2>1, SeqDef
  <2>3. QED BY <2>1, <2>2, LenProperties
<1>7. b \in Seq(E) /\ Len(b) = m
  <2>1. b \in [1..m -> E] /\ DOMAIN b = 1..m
    BY <1>4, <1>5
  <2>2. b \in Seq(E)
    BY <2>1, SeqDef
  <2>3. QED BY <2>1, <2>2, LenProperties
<1>8. PICK built : built = buildInventory(ports, serials)
  OBVIOUS
<1>9. built = a \o b
  BY <1>1, <1>2, <1>3, <1>4, <1>8 DEF buildInventory, Known
<1>10. /\ built \in Seq(E) /\ Len(built) = n + m
       /\ \A i \in 1..(n + m) : built[i] = IF i <= n THEN a[i] ELSE b[i - n]
  BY <1>6, <1>7, <1>9, ConcatProperties
<1>11. DOMAIN built = 1..(n + m)
  BY <1>10, LenProperties
<1>12. built \in Seq(ToSet(built))
  <2>1. built \in [1..(n + m) -> ToSet(built)]
    <3>1. built \in [1..(n + m) -> E]
      BY <1>10, LenProperties
    <3>2. \A i \in 1..(n + m) : built[i] \in ToSet(built)
      BY <1>11 DEF ToSet
    <3>3. QED BY <3>1, <3>2
  <2>2. n + m \in Nat
    OBVIOUS
  <2>3. QED BY <2>1, <2>2, SeqDef
<1>13. \A i \in 1..n : built[i] = [type |-> wellKnownPorts[Known(ports)[i]], port |-> Known(ports)[i]]
  <2>1. ASSUME NEW i \in 1..n PROVE i \in 1..(n + m) /\ i <= n
    OBVIOUS
  <2>2. \A i \in 1..n : built[i] = a[i]
    BY <1>10, <2>1
  <2>3. QED BY <1>3, <2>2
<1>14. \A i \in 1..m : built[n + i] = [type |-> EndpointTypeBridge, serial |-> serials[i]]
  <2>1. ASSUME NEW i \in 1..m PROVE n + i \in 1..(n + m) /\ ~(n + i <= n) /\ (n + i) - n = i
    OBVIOUS
  <2>2. \A i \in 1..m : built[n + i] = b[i]
    BY <1>10, <2>1
  <2>3. QED BY <1>4, <2>2
<1>15. QED
  BY <1>1, <1>2, <1>8, <1>11, <1>12, <1>13, <1>14

\* The services a sweep lists are the well-known ports that listen, its serial
\* ports the devices that were found (Scanner.scan, buildInventory).
THEOREM ListsWhatListens ==
  \A host \in Hosts :
    LET snapshot == scan(host, LocalIPOverride, PreferredInterface) IN
    /\ Services(snapshot) = openTCPPorts(host) \cap DOMAIN wellKnownPorts
    /\ SerialPorts(snapshot) = ToSet(host.serial)
<1>1. SUFFICES ASSUME NEW host \in Hosts
               PROVE  /\ Services(scan(host, LocalIPOverride, PreferredInterface))
                           = openTCPPorts(host) \cap DOMAIN wellKnownPorts
                      /\ SerialPorts(scan(host, LocalIPOverride, PreferredInterface)) = ToSet(host.serial)
  OBVIOUS
<1>2. PICK ports : ports = openTCPPorts(host)
  OBVIOUS
<1>3. PICK serials : serials = host.serial /\ serials \in Seq(ToSet(serials))
  BY HostsAssumption
<1>4. PICK built : built = buildInventory(ports, serials)
  OBVIOUS
<1>5. PICK known : known = Known(ports)
  OBVIOUS
<1>6. /\ Len(known) \in Nat /\ Len(serials) \in Nat
      /\ DOMAIN built = 1..(Len(known) + Len(serials))
      /\ \A i \in 1..Len(known) : built[i] = [type |-> wellKnownPorts[known[i]], port |-> known[i]]
      /\ \A i \in 1..Len(serials) : built[Len(known) + i] = [type |-> EndpointTypeBridge, serial |-> serials[i]]
      /\ \A i \in 1..Len(known) : known[i] \in ports \cap DOMAIN wellKnownPorts
      /\ \A p \in ports \cap DOMAIN wellKnownPorts : \E i \in 1..Len(known) : known[i] = p
  <2>1. /\ Len(known) \in Nat /\ DOMAIN known = 1..Len(known)
        /\ ToSet(known) = ports \cap DOMAIN wellKnownPorts
    BY <1>5, KnownLists
  <2>2. /\ Len(serials) \in Nat
        /\ DOMAIN built = 1..(Len(known) + Len(serials))
        /\ \A i \in 1..Len(known) : built[i] = [type |-> wellKnownPorts[known[i]], port |-> known[i]]
        /\ \A i \in 1..Len(serials) : built[Len(known) + i] = [type |-> EndpointTypeBridge, serial |-> serials[i]]
    BY <1>3, <1>4, <1>5, Lists
  <2>3. QED BY <2>1, <2>2 DEF ToSet
<1>7. \A p \in DOMAIN wellKnownPorts : wellKnownPorts[p] # EndpointTypeBridge
  BY DEF wellKnownPorts, EndpointTypeBridge, EndpointTypeWeb, EndpointTypeProgram
<1>8. ASSUME NEW i \in DOMAIN built
      PROVE  /\ i \in 1..Len(known) => IsService(built[i]) /\ built[i].port = known[i]
             /\ i \notin 1..Len(known) => /\ ~IsService(built[i])
                                          /\ \E j \in 1..Len(serials) : built[i].serial = serials[j]
  <2>1. CASE i \in 1..Len(known)
    <3>1. built[i].type = wellKnownPorts[known[i]] /\ built[i].port = known[i]
      <4>1. built[i] = [type |-> wellKnownPorts[known[i]], port |-> known[i]]
        BY <1>6, <2>1
      <4>2. QED BY <4>1
    <3>2. known[i] \in DOMAIN wellKnownPorts
      BY <1>6, <2>1
    <3>3. QED BY <1>7, <2>1, <3>1, <3>2 DEF IsService
  <2>2. CASE i \notin 1..Len(known)
    <3>1. PICK j \in 1..Len(serials) : Len(known) + j = i
      <4>1. i - Len(known) \in 1..Len(serials) /\ Len(known) + (i - Len(known)) = i
        BY <1>6, <1>8, <2>2
      <4>2. QED BY <4>1
    <3>2. built[i] = [type |-> EndpointTypeBridge, serial |-> serials[j]]
      BY <1>6, <3>1
    <3>3. QED BY <2>2, <3>2 DEF IsService
  <2>3. QED BY <2>1, <2>2
<1>9. /\ Services(scan(host, LocalIPOverride, PreferredInterface))
           = {e.port : e \in {x \in ToSet(built) : IsService(x)}}
      /\ SerialPorts(scan(host, LocalIPOverride, PreferredInterface))
           = {e.serial : e \in {x \in ToSet(built) : ~IsService(x)}}
  BY <1>2, <1>3, <1>4 DEF Services, SerialPorts, scan
<1>10. ASSUME NEW p \in ports \cap DOMAIN wellKnownPorts
       PROVE  p \in {e.port : e \in {x \in ToSet(built) : IsService(x)}}
  <2>1. PICK i \in 1..Len(known) : known[i] = p
    BY <1>6
  <2>2. i \in DOMAIN built
    BY <1>6
  <2>3. built[i] \in ToSet(built) /\ IsService(built[i]) /\ built[i].port = p
    BY <1>8, <2>1, <2>2 DEF ToSet
  <2>4. QED BY <2>3
<1>11. ASSUME NEW e \in ToSet(built), IsService(e)
       PROVE  e.port \in ports \cap DOMAIN wellKnownPorts
  <2>1. PICK i \in DOMAIN built : e = built[i]
    BY DEF ToSet
  <2>2. i \in 1..Len(known)
    BY <1>8, <1>11, <2>1
  <2>3. QED BY <1>6, <1>8, <2>1, <2>2
<1>12. DOMAIN serials = 1..Len(serials)
  BY <1>3, Elements
<1>13. ASSUME NEW j \in 1..Len(serials)
       PROVE  serials[j] \in {e.serial : e \in {x \in ToSet(built) : ~IsService(x)}}
  <2>1. /\ Len(known) + j \in DOMAIN built
        /\ built[Len(known) + j] = [type |-> EndpointTypeBridge, serial |-> serials[j]]
    BY <1>6
  <2>2. /\ built[Len(known) + j] \in ToSet(built) /\ ~IsService(built[Len(known) + j])
        /\ built[Len(known) + j].serial = serials[j]
    BY <2>1 DEF ToSet, IsService
  <2>3. QED BY <2>2
<1>14. ASSUME NEW e \in ToSet(built), ~IsService(e)
       PROVE  e.serial \in ToSet(serials)
  <2>1. PICK i \in DOMAIN built : e = built[i]
    BY DEF ToSet
  <2>2. PICK j \in 1..Len(serials) : built[i].serial = serials[j]
    BY <1>8, <1>14, <2>1
  <2>3. QED BY <1>12, <2>1, <2>2 DEF ToSet
<1>15. {e.serial : e \in {x \in ToSet(built) : ~IsService(x)}} = ToSet(serials)
  BY <1>12, <1>13, <1>14 DEF ToSet
<1>16. QED BY <1>2, <1>3, <1>9, <1>10, <1>11, <1>15

\* What a snapshot's endpoints are to the steps that persist them.
LEMMA SnapshotEndpoints ==
  ASSUME NEW s \in Snapshots
  PROVE  /\ DOMAIN s.endpoints = 1..Len(s.endpoints) /\ Len(s.endpoints) \in Nat
         /\ \A i \in DOMAIN s.endpoints :
              /\ IsService(s.endpoints[i]) => /\ s.endpoints[i].port \in Services(s)
                                              /\ s.endpoints[i].port \in DOMAIN wellKnownPorts
              /\ ~IsService(s.endpoints[i]) => s.endpoints[i].serial \in Serials
         /\ \A p \in Services(s) : \E i \in DOMAIN s.endpoints :
              IsService(s.endpoints[i]) /\ s.endpoints[i].port = p
<1>1. PICK host \in Hosts : s = scan(host, LocalIPOverride, PreferredInterface)
  BY DEF Snapshots
<1>2. PICK endpoints : endpoints = s.endpoints /\ endpoints = buildInventory(openTCPPorts(host), host.serial)
  BY <1>1 DEF scan
<1>3. endpoints \in Seq(ToSet(endpoints))
  BY <1>2, HostsAssumption, Lists
<1>4. DOMAIN endpoints = 1..Len(endpoints) /\ Len(endpoints) \in Nat
  BY <1>3, Elements
<1>5. \A i \in DOMAIN endpoints : IsService(endpoints[i]) => endpoints[i].port \in Services(s)
  BY <1>2 DEF Services, ToSet
<1>6. Services(s) \subseteq DOMAIN wellKnownPorts
  BY <1>1, ListsWhatListens
<1>7. \A i \in DOMAIN endpoints : ~IsService(endpoints[i]) => endpoints[i].serial \in Serials
  <2>1. SUFFICES ASSUME NEW i \in DOMAIN endpoints, ~IsService(endpoints[i])
                 PROVE  endpoints[i].serial \in Serials
    OBVIOUS
  <2>2. endpoints[i] \in {x \in ToSet(s.endpoints) : ~IsService(x)}
    BY <1>2, <2>1 DEF ToSet
  <2>3. endpoints[i].serial \in SerialPorts(s)
    BY <2>2 DEF SerialPorts
  <2>4. QED BY <2>3 DEF Serials
<1>8. \A p \in Services(s) : \E i \in DOMAIN endpoints : IsService(endpoints[i]) /\ endpoints[i].port = p
  BY <1>2 DEF Services, ToSet
<1>9. QED BY <1>2, <1>4, <1>5, <1>6, <1>7, <1>8

\* What the choice of an address by its score rests on: on interfaces the
\* operator does not prefer, exactly a private or public address of an
\* interface that is not virtual has a positive score; a private one scores
\* more than a public one, and of one kind that of a LAN interface scores more.
THEOREM ScoresSeparate ==
  ASSUME NEW preferred, NEW i, NEW a, NEW j, NEW b,
         i.lower # preferred.lower, j.lower # preferred.lower,
         i.class \in {"lan", "virtual", "other"}, j.class \in {"lan", "virtual", "other"},
         a.class \in {"private", "public", "linklocal"}, b.class \in {"private", "public", "linklocal"}
  PROVE  /\ scoreInterfaceAddress(i, a, preferred) > 0
              <=> i.class # "virtual" /\ a.class # "linklocal"
         /\ /\ i.class # "virtual" /\ a.class # "linklocal"
            /\ j.class # "virtual" /\ b.class # "linklocal"
            /\ \/ a.class = "private" /\ b.class = "public"
               \/ a.class = b.class /\ i.class = "lan" /\ j.class # "lan"
            => scoreInterfaceAddress(i, a, preferred) > scoreInterfaceAddress(j, b, preferred)
<1> DEFINE Kind(x) == IF x.class = "private" THEN 70 ELSE IF x.class = "public" THEN 10 ELSE -40
<1>1. ASSUME NEW x \in {i, j}, NEW y \in {a, b}
      PROVE  scoreInterfaceAddress(x, y, preferred)
               = (IF x.class = "lan" THEN 35 ELSE IF x.class = "virtual" THEN -80 ELSE 0) + Kind(y)
  BY DEF scoreInterfaceAddress
<1>2. /\ scoreInterfaceAddress(i, a, preferred)
           = (IF i.class = "lan" THEN 35 ELSE IF i.class = "virtual" THEN -80 ELSE 0) + Kind(a)
      /\ scoreInterfaceAddress(j, b, preferred)
           = (IF j.class = "lan" THEN 35 ELSE IF j.class = "virtual" THEN -80 ELSE 0) + Kind(b)
  BY <1>1
<1>3. QED BY <1>2

-----------------------------------------------------------------------------
(* The address the enumeration finds.                                       *)

\* Induction over the numbers, for a set given by what its elements satisfy:
\* a finite set of exceptions would have a least one.
LEMMA Induction ==
  ASSUME NEW S, 0 \in S, \A n \in Nat : n \in S => n + 1 \in S
  PROVE  \A n \in Nat : n \in S
<1>1. SUFFICES ASSUME NEW n \in Nat, n \notin S PROVE FALSE
  OBVIOUS
<1> DEFINE T == {k \in 0..n : k \notin S}
<1>2. T \in SUBSET Nat /\ IsFiniteSet(T) /\ n \in T
  <2>1. IsFiniteSet(0..n)
    BY FS_Interval
  <2>2. T \in SUBSET (0..n) /\ n \in T
    BY <1>1
  <2>3. QED BY <2>1, <2>2, FS_Subset
<1>3. PICK s : /\ s \in Seq(T) /\ ToSet(s) = T
               /\ \A i, j \in DOMAIN s : i < j => s[i] < s[j]
  BY <1>2, AscendingLists
<1>4. DOMAIN s = 1..Len(s) /\ Len(s) \in Nat /\ \A i \in DOMAIN s : s[i] \in T
  BY <1>3, Elements
<1>5. 1 \in DOMAIN s
  BY <1>2, <1>3, <1>4 DEF ToSet
<1>6. \A k \in T : s[1] <= k
  <2>1. ASSUME NEW k \in T PROVE s[1] <= k
    <3>1. PICK i \in DOMAIN s : s[i] = k
      BY <1>3 DEF ToSet
    <3>2. i = 1 \/ 1 < i
      BY <1>4
    <3>3. s[1] \in Nat /\ k \in Nat
      BY <1>2, <1>4, <1>5
    <3>4. QED BY <1>3, <1>5, <3>1, <3>2, <3>3
  <2>2. QED BY <2>1
<1>7. s[1] \in 0..n /\ s[1] \notin S /\ s[1] # 0
  BY <1>4, <1>5
<1>8. s[1] - 1 \in Nat /\ s[1] - 1 \in 0..n
  BY <1>7
<1>9. s[1] - 1 \in S
  <2>1. s[1] - 1 \notin T
    BY <1>6, <1>7
  <2>2. QED BY <1>8, <2>1
<1>10. (s[1] - 1) + 1 \in S
  BY <1>8, <1>9
<1>11. QED BY <1>7, <1>10

\* f starts with base, and step leads from each value to the next.
Follows(f, A, base, N, step) ==
  f \in [0..N -> A] /\ f[0] = base /\ \A k \in 1..N : f[k] = step[k][f[k - 1]]

\* A function over 0..N that is given by its value at 0 and by the step from
\* each value to the next exists.
LEMMA Recursion ==
  ASSUME NEW A, NEW base \in A, NEW N \in Nat, NEW step \in [1..N -> [A -> A]]
  PROVE  \E f : Follows(f, A, base, N, step)
<1> DEFINE Defined(n, f) == f[0] = base /\ \A k \in 1..n : f[k] = step[k][f[k - 1]]
           S == {n \in Nat : n <= N => \E f \in [0..n -> A] : Defined(n, f)}
<1>1. 0 \in S
  <2>1. [k \in 0..0 |-> base] \in [0..0 -> A] /\ Defined(0, [k \in 0..0 |-> base])
    OBVIOUS
  <2>2. QED BY <2>1
<1>2. ASSUME NEW n \in Nat, n \in S PROVE n + 1 \in S
  <2>1. SUFFICES ASSUME n + 1 <= N PROVE \E f \in [0..(n + 1) -> A] : Defined(n + 1, f)
    OBVIOUS
  <2>2. PICK g \in [0..n -> A] : Defined(n, g)
    BY <1>2, <2>1
  <2> DEFINE f == [k \in 0..(n + 1) |-> IF k = n + 1 THEN step[n + 1][g[n]] ELSE g[k]]
  <2>3. f \in [0..(n + 1) -> A]
    <3>1. n + 1 \in 1..N /\ g[n] \in A
      BY <2>1, <2>2
    <3>2. step[n + 1][g[n]] \in A
      BY <3>1
    <3>3. QED BY <3>2, <2>2
  <2>4. f[n + 1] = step[n + 1][g[n]] /\ \A k \in 0..n : f[k] = g[k]
    OBVIOUS
  <2> HIDE DEF f
  <2>5. f[0] = base
    BY <2>2, <2>4
  <2>6. ASSUME NEW k \in 1..(n + 1) PROVE f[k] = step[k][f[k - 1]]
    <3>1. CASE k = n + 1
      BY <2>4, <3>1
    <3>2. CASE k \in 1..n
      BY <2>2, <2>4, <3>2
    <3>3. QED BY <3>1, <3>2
  <2>7. QED BY <2>3, <2>5, <2>6
<1> HIDE DEF S
<1>3. \A n \in Nat : n \in S
  BY <1>1, <1>2, Induction
<1>4. QED BY <1>3 DEF S, Follows

\* The candidates of one interface.
Own(i) ==
  IF i.up /\ ~i.loopback
  THEN [k \in 1..Len(i.addrs) |-> [iface |-> i, address |-> i.addrs[k]]]
  ELSE <<>>

Candidate(c, ifaces) ==
  \E n \in DOMAIN ifaces : \E k \in DOMAIN ifaces[n].addrs :
    /\ ifaces[n].up /\ ~ifaces[n].loopback
    /\ c = [iface |-> ifaces[n], address |-> ifaces[n].addrs[k]]

\* What one list appended to another holds.
LEMMA Concatenated ==
  ASSUME NEW C, NEW s \in Seq(C), NEW t \in Seq(C)
  PROVE  s \o t \in Seq(C) /\ ToSet(s \o t) = ToSet(s) \cup ToSet(t)
<1>1. /\ s \o t \in Seq(C) /\ Len(s \o t) = Len(s) + Len(t)
      /\ \A i \in 1..(Len(s) + Len(t)) :
           (s \o t)[i] = IF i <= Len(s) THEN s[i] ELSE t[i - Len(s)]
  BY ConcatProperties
<1>2. /\ DOMAIN s = 1..Len(s) /\ DOMAIN t = 1..Len(t) /\ DOMAIN (s \o t) = 1..(Len(s) + Len(t))
      /\ Len(s) \in Nat /\ Len(t) \in Nat
  BY <1>1, Elements
<1>3. \A i \in DOMAIN s : s[i] = (s \o t)[i] /\ i \in DOMAIN (s \o t)
  BY <1>1, <1>2
<1>4. \A i \in DOMAIN t : t[i] = (s \o t)[Len(s) + i] /\ Len(s) + i \in DOMAIN (s \o t)
  BY <1>1, <1>2
<1>5. \A i \in DOMAIN (s \o t) :
        \/ i \in DOMAIN s /\ (s \o t)[i] = s[i]
        \/ i - Len(s) \in DOMAIN t /\ (s \o t)[i] = t[i - Len(s)]
  BY <1>1, <1>2
<1>6. ToSet(s \o t) \subseteq ToSet(s) \cup ToSet(t)
  BY <1>5 DEF ToSet
<1>7. ToSet(s) \subseteq ToSet(s \o t)
  BY <1>3 DEF ToSet
<1>8. ToSet(t) \subseteq ToSet(s \o t)
  BY <1>4 DEF ToSet
<1>9. QED BY <1>1, <1>6, <1>7, <1>8

\* The two loops of LocalIP come upon every address of an interface that is up
\* and not the loopback, and upon nothing else.
LEMMA CandidatesComplete ==
  ASSUME NEW ifaces \in InterfaceLists
  PROVE  /\ candidates(ifaces) \in Seq(ToSet(candidates(ifaces)))
         /\ \A c : c \in ToSet(candidates(ifaces)) <=> Candidate(c, ifaces)
<1>0. PICK N : N = Len(ifaces)
  OBVIOUS
<1> DEFINE C    == UNION {ToSet(Own(ifaces[n])) : n \in 1..N}
           Rec(f) == [n \in 0..N |-> IF n = 0 THEN <<>> ELSE f[n - 1] \o Own(ifaces[n])]
           upTo == CHOOSE f : f = Rec(f)
<1>1. DOMAIN ifaces = 1..N /\ N \in Nat
  BY <1>0, InterfacesAssumption, Elements
<1>2. ASSUME NEW n \in 1..N
      PROVE  /\ Own(ifaces[n]) \in Seq(C)
             /\ \A c : c \in ToSet(Own(ifaces[n])) <=>
                  \E k \in DOMAIN ifaces[n].addrs :
                    /\ ifaces[n].up /\ ~ifaces[n].loopback
                    /\ c = [iface |-> ifaces[n], address |-> ifaces[n].addrs[k]]
  <2> DEFINE i == ifaces[n]
  <2>1. i \in ToSet(ifaces)
    BY <1>1 DEF ToSet
  <2>2. i.addrs \in Seq(ToSet(i.addrs))
    BY <2>1, InterfacesAssumption
  <2>3. DOMAIN i.addrs = 1..Len(i.addrs) /\ Len(i.addrs) \in Nat
    BY <2>2, Elements
  <2> HIDE DEF i
  <2>4. CASE i.up /\ ~i.loopback
    <3>1. Own(i) = [k \in 1..Len(i.addrs) |-> [iface |-> i, address |-> i.addrs[k]]]
      BY <2>4 DEF Own
    <3>2. /\ DOMAIN Own(i) = DOMAIN i.addrs
          /\ \A k \in DOMAIN i.addrs : Own(i)[k] = [iface |-> i, address |-> i.addrs[k]]
      BY <2>3, <3>1
    <3>3. \A c : c \in ToSet(Own(i)) <=>
                   \E k \in DOMAIN i.addrs : c = [iface |-> i, address |-> i.addrs[k]]
      BY <3>2 DEF ToSet
    <3>4. ToSet(Own(i)) \subseteq C
      BY DEF i
    <3>5. Own(i) \in [1..Len(i.addrs) -> C]
      <4>1. \A k \in DOMAIN i.addrs : Own(i)[k] \in C
        BY <3>2, <3>4 DEF ToSet
      <4>2. QED BY <2>3, <3>1, <3>2, <4>1
    <3>6. Own(i) \in Seq(C)
      BY <2>3, <3>5, SeqDef
    <3>7. QED BY <2>4, <3>3, <3>6 DEF i
  <2>5. CASE ~(i.up /\ ~i.loopback)
    <3>1. Own(i) = <<>>
      BY <2>5 DEF Own
    <3>2. Own(i) \in Seq(C) /\ ToSet(Own(i)) = {}
      BY <3>1 DEF ToSet
    <3>3. QED BY <2>5, <3>2 DEF i
  <2>6. QED BY <2>4, <2>5
<1>3. candidates(ifaces) = upTo[N]
  <2>1. \A f : Rec(f) =
          [n \in 0..N |->
             IF n = 0 THEN <<>>
             ELSE f[n - 1] \o (IF ifaces[n].up /\ ~ifaces[n].loopback
                               THEN [k \in 1..Len(ifaces[n].addrs) |->
                                       [iface |-> ifaces[n], address |-> ifaces[n].addrs[k]]]
                               ELSE <<>>)]
    BY Zenon DEF Own
  <2>2. QED BY <1>0, <2>1, Zenon DEF candidates
<1> HIDE DEF C
<1>4. upTo = Rec(upTo)
  <2>1. PICK part \in [1..N -> [Seq(C) -> Seq(C)]] :
          \A n \in 1..N : \A s \in Seq(C) : part[n][s] = s \o Own(ifaces[n])
    <3> DEFINE extend == [n \in 1..N |-> [s \in Seq(C) |-> s \o Own(ifaces[n])]]
    <3>1. ASSUME NEW n \in 1..N, NEW s \in Seq(C) PROVE s \o Own(ifaces[n]) \in Seq(C)
      BY <1>2, Concatenated
    <3>2. extend \in [1..N -> [Seq(C) -> Seq(C)]]
      BY <3>1
    <3>3. \A n \in 1..N : \A s \in Seq(C) : extend[n][s] = s \o Own(ifaces[n])
      OBVIOUS
    <3>4. QED BY <3>2, <3>3
  <2>2. <<>> \in Seq(C)
    OBVIOUS
  <2>3. PICK f : Follows(f, Seq(C), <<>>, N, part)
    BY <1>1, <2>1, <2>2, Recursion
  <2>4. \A k \in 1..N : f[k] = f[k - 1] \o Own(ifaces[k])
    <3>1. \A k \in 1..N : f[k - 1] \in Seq(C)
      BY <1>1, <2>3 DEF Follows
    <3>2. QED BY <2>1, <2>3, <3>1 DEF Follows
  <2>5. f = Rec(f)
    <3>1. ASSUME NEW n \in 0..N
          PROVE  f[n] = IF n = 0 THEN <<>> ELSE f[n - 1] \o Own(ifaces[n])
      <4>1. CASE n = 0
        BY <2>3, <4>1 DEF Follows
      <4>2. CASE n \in 1..N
        <5>1. n # 0
          BY <1>1, <4>2
        <5>2. QED BY <2>4, <4>2, <5>1
      <4>3. QED BY <1>1, <4>1, <4>2
    <3>2. f = [n \in 0..N |-> f[n]]
      BY <2>3 DEF Follows
    <3>3. QED BY <3>1, <3>2, Zenon
  <2>6. QED BY <2>5, Zenon
<1> HIDE DEF upTo
<1>5. upTo[0] = <<>> /\ \A n \in 1..N : upTo[n] = upTo[n - 1] \o Own(ifaces[n])
  <2>1. ASSUME NEW n \in 0..N
        PROVE  upTo[n] = IF n = 0 THEN <<>> ELSE upTo[n - 1] \o Own(ifaces[n])
    BY <1>4, Zenon
  <2>2. 0 \in 0..N /\ \A n \in 1..N : n \in 0..N /\ n # 0
    BY <1>1
  <2>3. QED BY <2>1, <2>2
<1> DEFINE Found(n) ==
             /\ upTo[n] \in Seq(C)
             /\ \A c : c \in ToSet(upTo[n]) <=> \E m \in 1..n : c \in ToSet(Own(ifaces[m]))
           S == {n \in Nat : n <= N => Found(n)}
<1>6. 0 \in S
  <2>1. <<>> \in Seq(C) /\ ToSet(<<>>) = {}
    BY DEF ToSet
  <2>2. \A m : m \notin 1..0
    OBVIOUS
  <2> HIDE DEF C
  <2>3. Found(0)
    BY <1>5, <2>1, <2>2
  <2>4. QED BY <2>3
<1>7. ASSUME NEW n \in Nat, n \in S PROVE n + 1 \in S
  <2>1. SUFFICES ASSUME n + 1 <= N PROVE Found(n + 1)
    OBVIOUS
  <2>2. Found(n) /\ n + 1 \in 1..N /\ upTo[n + 1] = upTo[n] \o Own(ifaces[n + 1])
    <3>1. Found(n)
      <4>1. n <= N
        BY <1>1, <2>1
      <4>2. QED BY <1>7, <4>1
    <3>2. n + 1 \in 1..N /\ (n + 1) - 1 = n
      BY <1>1, <2>1
    <3>3. QED BY <1>5, <3>1, <3>2
  <2>3. upTo[n + 1] \in Seq(C) /\ ToSet(upTo[n + 1]) = ToSet(upTo[n]) \cup ToSet(Own(ifaces[n + 1]))
    BY <1>2, <2>2, Concatenated
  <2>4. ASSUME NEW c
        PROVE  c \in ToSet(upTo[n + 1]) <=> \E m \in 1..(n + 1) : c \in ToSet(Own(ifaces[m]))
    <3>1. \A m : m \in 1..(n + 1) <=> m \in 1..n \/ m = n + 1
      OBVIOUS
    <3>2. QED BY <2>2, <2>3, <3>1
  <2>5. QED BY <2>3, <2>4
<1>8. Found(N)
  <2> HIDE DEF S
  <2>1. \A n \in Nat : n \in S
    BY <1>6, <1>7, Induction
  <2>2. N \in S
    BY <1>1, <2>1
  <2>3. N <= N
    BY <1>1
  <2>4. QED BY <2>2, <2>3 DEF S
<1>9. ASSUME NEW c PROVE c \in ToSet(upTo[N]) <=> Candidate(c, ifaces)
  <2>1. c \in ToSet(upTo[N]) <=> \E n \in 1..N : c \in ToSet(Own(ifaces[n]))
    BY <1>8
  <2>2. \A n \in 1..N : c \in ToSet(Own(ifaces[n])) <=>
          \E k \in DOMAIN ifaces[n].addrs :
            /\ ifaces[n].up /\ ~ifaces[n].loopback
            /\ c = [iface |-> ifaces[n], address |-> ifaces[n].addrs[k]]
    BY <1>2
  <2>3. QED BY <1>1, <2>1, <2>2, Zenon DEF Candidate
<1>10. upTo[N] \in Seq(ToSet(upTo[N]))
  <2>1. upTo[N] \in [1..Len(upTo[N]) -> ToSet(upTo[N])] /\ Len(upTo[N]) \in Nat
    <3>1. /\ DOMAIN upTo[N] = 1..Len(upTo[N]) /\ Len(upTo[N]) \in Nat
          /\ upTo[N] = [k \in DOMAIN upTo[N] |-> upTo[N][k]]
      BY <1>8, Elements
    <3>2. \A k \in DOMAIN upTo[N] : upTo[N][k] \in ToSet(upTo[N])
      BY DEF ToSet
    <3>3. QED BY <3>1, <3>2
  <2>2. QED BY <2>1, SeqDef
<1>11. QED BY <1>3, <1>9, <1>10

Score(c, preferred) == scoreInterfaceAddress(c.iface, c.address, preferred)

LEMMA ScoreType == \A c, preferred : Score(c, preferred) \in Int
  BY DEF Score, scoreInterfaceAddress

\* No candidate that counts scores more than b, and b, if it has an address, is
\* one of them.
BestOf(b, cs, preferred) ==
  /\ \A c \in cs : IsIPv4(c.address) => Score(c, preferred) <= b.score
  /\ \/ b.address = NoAddress /\ b.score = 0
     \/ \E c \in cs : /\ IsIPv4(c.address) /\ Score(c, preferred) > 0
                      /\ b.address = c.address /\ b.score = Score(c, preferred)

\* One more candidate.
LEMMA BetterIsBest ==
  ASSUME NEW X, NEW b \in [address : X, score : Int], NEW c, c.address \in X,
         NEW cs, NEW preferred, BestOf(b, cs, preferred), b.score >= 0
  PROVE  /\ better(b, c, preferred) \in [address : X, score : Int]
         /\ better(b, c, preferred).score >= 0
         /\ BestOf(better(b, c, preferred), cs \cup {c}, preferred)
<1>1. /\ Score(c, preferred) \in Int /\ \A d \in cs : Score(d, preferred) \in Int
      /\ b.score \in Int /\ b.address \in X
  BY ScoreType
<1>2. CASE IsIPv4(c.address) /\ Score(c, preferred) > b.score
  <2>1. better(b, c, preferred) = [address |-> c.address, score |-> Score(c, preferred)]
    BY <1>2 DEF better, Score
  <2>2. \A d \in cs : IsIPv4(d.address) => Score(d, preferred) <= Score(c, preferred)
    BY <1>1, <1>2 DEF BestOf
  <2>3. Score(c, preferred) > 0
    BY <1>1, <1>2
  <2>4. BestOf([address |-> c.address, score |-> Score(c, preferred)], cs \cup {c}, preferred)
    BY <1>1, <1>2, <2>2, <2>3 DEF BestOf
  <2>5. QED BY <1>1, <2>1, <2>3, <2>4
<1>3. CASE ~(IsIPv4(c.address) /\ Score(c, preferred) > b.score)
  <2>1. better(b, c, preferred) = b
    BY <1>3 DEF better, Score
  <2>2. IsIPv4(c.address) => Score(c, preferred) <= b.score
    BY <1>1, <1>3
  <2>3. BestOf(b, cs \cup {c}, preferred)
    BY <2>2 DEF BestOf
  <2>4. QED BY <2>1, <2>3
<1>4. QED BY <1>2, <1>3

\* The address the loops end with is one of a candidate with the highest score.
LEMMA BestFound ==
  ASSUME NEW ifaces \in InterfaceLists, NEW preferred
  PROVE  \E b : /\ bestAddress(ifaces, preferred) = b.address
                /\ BestOf(b, ToSet(candidates(ifaces)), preferred)
<1>1. PICK found : found = candidates(ifaces)
  OBVIOUS
<1>2. PICK N \in Nat : N = Len(found) /\ DOMAIN found = 1..N
  BY <1>1, CandidatesComplete, Elements
<1> DEFINE X == {NoAddress} \cup {found[n].address : n \in 1..N}
           A == [address : X, score : Int]
           none == [address |-> NoAddress, score |-> 0]
           Rec(f) == [n \in 0..N |-> IF n = 0 THEN none ELSE better(f[n - 1], found[n], preferred)]
           best == CHOOSE f : f = Rec(f)
<1>3. bestAddress(ifaces, preferred) = best[N].address
  BY <1>1, <1>2, Zenon DEF bestAddress
<1>4. ASSUME NEW n \in 1..N, NEW b \in A PROVE better(b, found[n], preferred) \in A
  <2>1. found[n].address \in X
    OBVIOUS
  <2>2. Score(found[n], preferred) \in Int
    BY ScoreType
  <2>3. [address |-> found[n].address, score |-> Score(found[n], preferred)] \in A
    BY <2>1, <2>2
  <2>4. better(b, found[n], preferred)
          \in {b, [address |-> found[n].address, score |-> Score(found[n], preferred)]}
    BY DEF better, Score
  <2>5. QED BY <2>3, <2>4
<1>5. none \in A /\ none.score = 0 /\ none.address = NoAddress
  OBVIOUS
<1> HIDE DEF A, none
<1>6. best = Rec(best)
  <2>1. PICK step \in [1..N -> [A -> A]] :
          \A n \in 1..N : \A b \in A : step[n][b] = better(b, found[n], preferred)
    <3> DEFINE steps == [n \in 1..N |-> [b \in A |-> better(b, found[n], preferred)]]
    <3>1. steps \in [1..N -> [A -> A]]
      BY <1>4
    <3>2. \A n \in 1..N : \A b \in A : steps[n][b] = better(b, found[n], preferred)
      OBVIOUS
    <3>3. QED BY <3>1, <3>2
  <2>2. PICK f : Follows(f, A, none, N, step)
    BY <1>5, <2>1, Recursion
  <2>3. \A k \in 1..N : f[k] = better(f[k - 1], found[k], preferred)
    <3>1. \A k \in 1..N : f[k - 1] \in A
      BY <2>2 DEF Follows
    <3>2. QED BY <2>1, <2>2, <3>1 DEF Follows
  <2>4. ASSUME NEW n \in 0..N
        PROVE  f[n] = IF n = 0 THEN none ELSE better(f[n - 1], found[n], preferred)
    <3>1. CASE n = 0
      BY <2>2, <3>1 DEF Follows
    <3>2. CASE n \in 1..N
      <4>1. n # 0
        BY <3>2
      <4>2. QED BY <2>3, <3>2, <4>1
    <3>3. QED BY <3>1, <3>2
  <2>5. f = [n \in 0..N |-> f[n]]
    BY <2>2 DEF Follows
  <2>6. f = Rec(f)
    BY <2>4, <2>5, Zenon
  <2>7. QED BY <2>6, Zenon
<1> HIDE DEF best
<1>7. best[0] = none /\ \A n \in 1..N : best[n] = better(best[n - 1], found[n], preferred)
  <2>1. ASSUME NEW n \in 0..N
        PROVE  best[n] = IF n = 0 THEN none ELSE better(best[n - 1], found[n], preferred)
    BY <1>6, Zenon
  <2>2. 0 \in 0..N /\ \A n \in 1..N : n \in 0..N /\ n # 0
    OBVIOUS
  <2>3. QED BY <2>1, <2>2
<1> DEFINE Seen(n) == {found[k] : k \in 1..n}
           Good(n) == best[n] \in A /\ best[n].score >= 0 /\ BestOf(best[n], Seen(n), preferred)
           S == {n \in Nat : n <= N => Good(n)}
<1>8. 0 \in S
  <2>1. Seen(0) = {}
    OBVIOUS
  <2>2. BestOf(none, {}, preferred)
    BY <1>5 DEF BestOf
  <2>3. none.score >= 0
    BY <1>5
  <2>4. QED BY <1>5, <1>7, <2>1, <2>2, <2>3
<1>9. ASSUME NEW n \in Nat, n \in S PROVE n + 1 \in S
  <2>1. SUFFICES ASSUME n + 1 <= N PROVE Good(n + 1)
    OBVIOUS
  <2>2. Good(n)
    <3>1. n <= N
      BY <2>1
    <3>2. QED BY <1>9, <3>1
  <2>3. n + 1 \in 1..N /\ (n + 1) - 1 = n
    BY <2>1
  <2>4. best[n + 1] = better(best[n], found[n + 1], preferred)
    BY <1>7, <2>3
  <2>5. Seen(n + 1) = Seen(n) \cup {found[n + 1]}
    <3>1. \A k : k \in 1..(n + 1) <=> k \in 1..n \/ k = n + 1
      OBVIOUS
    <3>2. QED BY <3>1
  <2>6. found[n + 1].address \in X /\ best[n] \in [address : X, score : Int]
    BY <2>2, <2>3 DEF A
  <2> HIDE DEF X, Seen
  <2>7. /\ better(best[n], found[n + 1], preferred) \in [address : X, score : Int]
        /\ better(best[n], found[n + 1], preferred).score >= 0
        /\ BestOf(better(best[n], found[n + 1], preferred), Seen(n) \cup {found[n + 1]}, preferred)
    BY <2>2, <2>6, BetterIsBest
  <2>8. QED BY <2>4, <2>5, <2>7 DEF A
<1>10. Good(N)
  <2> HIDE DEF S
  <2>1. \A n \in Nat : n \in S
    BY <1>8, <1>9, Induction
  <2>2. N \in S /\ N <= N
    BY <2>1
  <2>3. QED BY <2>2 DEF S
<1>11. Seen(N) = ToSet(found)
  BY <1>2 DEF ToSet
<1>12. QED BY <1>1, <1>3, <1>10, <1>11

\* The score of an address that counts, on an interface that is not preferred,
\* and the rank of one that is wanted.
LEMMA ScoresRank ==
  ASSUME NEW preferred, NEW i, NEW a, NEW j, NEW b,
         i.lower # preferred.lower, j.lower # preferred.lower,
         i.class \in {"lan", "virtual", "other"}, j.class \in {"lan", "virtual", "other"},
         a.class \in {"private", "public", "linklocal"}, b.class \in {"private", "public", "linklocal"},
         i.up, ~i.loopback, j.up, ~j.loopback
  PROVE  /\ scoreInterfaceAddress(i, a, preferred) > 0 <=> Wanted(i, a)
         /\ Wanted(i, a) /\ Wanted(j, b)
              /\ scoreInterfaceAddress(j, b, preferred) <= scoreInterfaceAddress(i, a, preferred)
            => Rank(j, b) <= Rank(i, a)
<1>1. scoreInterfaceAddress(i, a, preferred) > 0 <=> Wanted(i, a)
  BY ScoresSeparate DEF Wanted
<1>2. ASSUME Wanted(i, a), Wanted(j, b), ~(Rank(j, b) <= Rank(i, a))
      PROVE  scoreInterfaceAddress(j, b, preferred) > scoreInterfaceAddress(i, a, preferred)
  <2>1. \/ b.class = "private" /\ a.class = "public"
        \/ b.class = a.class /\ j.class = "lan" /\ i.class # "lan"
    BY <1>2 DEF Wanted, Rank
  <2>2. QED BY <1>2, <2>1, ScoresSeparate DEF Wanted
<1>3. scoreInterfaceAddress(i, a, preferred) \in Int /\ scoreInterfaceAddress(j, b, preferred) \in Int
  BY DEF scoreInterfaceAddress
<1>4. QED BY <1>1, <1>2, <1>3

\* For every list of interfaces, none of them preferred: an address is found
\* exactly when an interface that is up, not the loopback and not virtual has a
\* private or public one, and then one of the highest rank.
THEOREM AddressIsSound ==
  ASSUME NEW ifaces \in InterfaceLists, NEW preferred,
         \A i \in ToSet(ifaces) : i.lower # preferred.lower
  PROVE  AddressSound(ifaces, preferred)
<1> DEFINE wanted == {w \in Addressed(ifaces) : Wanted(w[1], w[2])}
           Found == ToSet(candidates(ifaces))
<1>1. PICK b : bestAddress(ifaces, preferred) = b.address /\ BestOf(b, Found, preferred)
  BY BestFound
<1>2. DOMAIN ifaces = 1..Len(ifaces)
  BY InterfacesAssumption, Elements
<1>3. ASSUME NEW n \in DOMAIN ifaces
      PROVE  /\ ifaces[n] \in ToSet(ifaces)
             /\ ifaces[n].class \in {"lan", "virtual", "other"}
             /\ ifaces[n].lower # preferred.lower
             /\ \A k \in DOMAIN ifaces[n].addrs :
                  /\ ifaces[n].addrs[k] \in ToSet(ifaces[n].addrs)
                  /\ ifaces[n].addrs[k].class \in AddressClasses
                  /\ ifaces[n].addrs[k].class = "loopback" => ifaces[n].loopback
  BY InterfacesAssumption DEF ToSet
\* A candidate that counts is an address of a known kind on an interface that works.
<1>4. ASSUME NEW c \in Found, IsIPv4(c.address)
      PROVE  /\ <<c.iface, c.address>> \in Addressed(ifaces)
             /\ c.iface.lower # preferred.lower
             /\ c.iface.class \in {"lan", "virtual", "other"}
             /\ c.address.class \in {"private", "public", "linklocal"}
             /\ c.iface.up /\ ~c.iface.loopback
  <2>1. PICK n \in DOMAIN ifaces : \E k \in DOMAIN ifaces[n].addrs :
          /\ ifaces[n].up /\ ~ifaces[n].loopback
          /\ c = [iface |-> ifaces[n], address |-> ifaces[n].addrs[k]]
    BY CandidatesComplete DEF Candidate
  <2>2. PICK k \in DOMAIN ifaces[n].addrs :
          /\ ifaces[n].up /\ ~ifaces[n].loopback
          /\ c.iface = ifaces[n] /\ c.address = ifaces[n].addrs[k]
    BY <2>1
  <2>3. c.address.class \in {"private", "public", "linklocal"}
    BY <1>3, <1>4, <2>2 DEF IsIPv4, AddressClasses
  <2>4. <<c.iface, c.address>> \in Addressed(ifaces)
    BY <1>3, <2>2 DEF Addressed
  <2>5. QED BY <1>3, <2>2, <2>3, <2>4
\* A wanted address is a candidate.
<1>5. ASSUME NEW w \in wanted
      PROVE  \E c \in Found : c.iface = w[1] /\ c.address = w[2] /\ IsIPv4(c.address)
  <2>1. PICK i \in ToSet(ifaces) : w \in {<<i, a>> : a \in ToSet(i.addrs)}
    BY DEF Addressed
  <2>2. PICK a \in ToSet(i.addrs) : w = <<i, a>>
    BY <2>1
  <2>3. w[1] = i /\ w[2] = a /\ Wanted(i, a)
    BY <2>2
  <2>4. PICK n \in DOMAIN ifaces : i = ifaces[n]
    BY DEF ToSet
  <2>5. PICK k \in DOMAIN i.addrs : a = i.addrs[k]
    BY DEF ToSet
  <2>6. Candidate([iface |-> i, address |-> a], ifaces)
    BY <2>3, <2>4, <2>5 DEF Candidate, Wanted
  <2>7. [iface |-> i, address |-> a] \in Found
    BY <2>6, CandidatesComplete
  <2>8. IsIPv4(a)
    BY <2>3 DEF Wanted, IsIPv4
  <2>9. QED BY <2>3, <2>7, <2>8
<1> HIDE DEF Found
<1>6. ASSUME NEW c \in Found, IsIPv4(c.address)
      PROVE  Score(c, preferred) > 0 <=> Wanted(c.iface, c.address)
  BY <1>4, <1>6, ScoresRank DEF Score
<1>7. CASE wanted = {}
  <2>1. \A c \in Found : IsIPv4(c.address) => ~(Score(c, preferred) > 0)
    <3>1. SUFFICES ASSUME NEW c \in Found, IsIPv4(c.address), Score(c, preferred) > 0 PROVE FALSE
      OBVIOUS
    <3>2. <<c.iface, c.address>> \in Addressed(ifaces) /\ Wanted(c.iface, c.address)
      BY <1>4, <1>6, <3>1
    <3>3. <<c.iface, c.address>> \in wanted
      BY <3>2
    <3>4. QED BY <1>7, <3>3
  <2>2. b.address = NoAddress
    BY <1>1, <2>1 DEF BestOf
  <2>3. QED BY <1>1, <1>7, <2>2 DEF AddressSound
<1>8. CASE wanted # {}
  <2>1. PICK w \in wanted : TRUE
    BY <1>8
  <2>2. PICK c \in Found : c.iface = w[1] /\ c.address = w[2] /\ IsIPv4(c.address)
    BY <1>5
  <2>3. Score(c, preferred) > 0 /\ Score(c, preferred) \in Int
    BY <1>6, <2>2, ScoreType
  <2>4. Score(c, preferred) <= b.score
    BY <1>1, <2>2 DEF BestOf
  <2>5. b.score # 0
    BY <2>3, <2>4
  <2>6. PICK d \in Found : /\ IsIPv4(d.address) /\ Score(d, preferred) > 0
                           /\ b.address = d.address /\ b.score = Score(d, preferred)
    BY <1>1, <2>5 DEF BestOf
  <2>7. <<d.iface, d.address>> \in wanted
    BY <1>4, <1>6, <2>6
  <2>8. ASSUME NEW v \in wanted PROVE Rank(v[1], v[2]) <= Rank(d.iface, d.address)
    <3>1. PICK e \in Found : e.iface = v[1] /\ e.address = v[2] /\ IsIPv4(e.address)
      BY <1>5
    <3>2. Score(e, preferred) <= Score(d, preferred)
      BY <1>1, <2>6, <3>1 DEF BestOf
    <3>3. Wanted(e.iface, e.address) /\ Wanted(d.iface, d.address)
      BY <1>6, <2>6, <3>1
    <3>4. Rank(e.iface, e.address) <= Rank(d.iface, d.address)
      BY <1>4, <2>6, <3>1, <3>2, <3>3, ScoresRank DEF Score
    <3>5. QED BY <3>1, <3>4
  <2>9. <<d.iface, d.address>>[1] = d.iface /\ <<d.iface, d.address>>[2] = d.address
    OBVIOUS
  <2>10. \E x \in wanted : /\ x[2] = bestAddress(ifaces, preferred)
                           /\ \A v \in wanted : Rank(v[1], v[2]) <= Rank(x[1], x[2])
    BY <1>1, <2>6, <2>7, <2>8, <2>9
  <2> HIDE DEF wanted
  <2>11. QED BY <1>8, <2>10 DEF AddressSound, wanted
<1>9. QED BY <1>7, <1>8

-----------------------------------------------------------------------------
(* The serial ports of an answer.                                           *)

\* The loop of fetchSerialPorts, over the rows from the newest to the oldest:
\* every serial port once, one before another if its newest row is newer.
THEOREM SerialPortsOnce ==
  ASSUME NEW X, NEW ports \in Seq(X)
  PROVE  /\ ToSet(distinctNewestFirst(ports)) = ToSet(ports)
         /\ \A i, j \in DOMAIN distinctNewestFirst(ports) :
              i < j => \E n \in DOMAIN ports :
                         /\ ports[n] = distinctNewestFirst(ports)[i]
                         /\ \A m \in DOMAIN ports : ports[m] = distinctNewestFirst(ports)[j] => m < n
<1>1. PICK N \in Nat : N = Len(ports) /\ DOMAIN ports = 1..N
  BY Elements
<1>2. PICK rows \in [1..N -> X] : rows = Reverse(ports) /\ \A n \in 1..N : rows[n] = ports[(N - n) + 1]
  <2> DEFINE reversed == [n \in 1..N |-> ports[(N - n) + 1]]
  <2>1. \A n \in 1..N : (N - n) + 1 \in 1..N
    OBVIOUS
  <2>2. \A n \in 1..N : ports[(N - n) + 1] \in X
    BY <1>1, <2>1, Elements
  <2>3. reversed \in [1..N -> X]
    BY <2>2
  <2>4. reversed = Reverse(ports)
    BY <1>1 DEF Reverse
  <2>5. \A n \in 1..N : reversed[n] = ports[(N - n) + 1]
    OBVIOUS
  <2>6. QED BY <2>3, <2>4, <2>5
<1> DEFINE Met(s, p) == IF p \in ToSet(s) THEN s ELSE Append(s, p)
           Rec(f) == [n \in 0..N |->
                        IF n = 0 THEN <<>>
                        ELSE IF rows[n] \in ToSet(f[n - 1]) THEN f[n - 1] ELSE Append(f[n - 1], rows[n])]
           seen == CHOOSE f : f = Rec(f)
<1>3. distinctNewestFirst(ports) = seen[N]
  <2>1. rows = Reverse(ports) /\ N = Len(ports)
    BY <1>1, <1>2
  <2>2. QED BY <2>1, Zenon DEF distinctNewestFirst
<1>4. seen = Rec(seen)
  <2>1. PICK step \in [1..N -> [Seq(X) -> Seq(X)]] :
          \A n \in 1..N : \A s \in Seq(X) : step[n][s] = Met(s, rows[n])
    <3> DEFINE steps == [n \in 1..N |-> [s \in Seq(X) |-> Met(s, rows[n])]]
    <3>1. ASSUME NEW n \in 1..N, NEW s \in Seq(X) PROVE Met(s, rows[n]) \in Seq(X)
      <4>1. rows[n] \in X
        BY <1>2
      <4>2. Append(s, rows[n]) \in Seq(X)
        BY <4>1, AppendProperties
      <4>3. QED BY <4>2
    <3> HIDE DEF Met
    <3>2. steps \in [1..N -> [Seq(X) -> Seq(X)]]
      BY <3>1
    <3>3. \A n \in 1..N : \A s \in Seq(X) : steps[n][s] = Met(s, rows[n])
      OBVIOUS
    <3>4. QED BY <3>2, <3>3
  <2>2. PICK f : Follows(f, Seq(X), <<>>, N, step)
    <3>1. <<>> \in Seq(X)
      OBVIOUS
    <3>2. QED BY <2>1, <3>1, Recursion
  <2>3. \A k \in 1..N : f[k] = Met(f[k - 1], rows[k])
    <3> HIDE DEF Met
    <3>1. \A k \in 1..N : f[k - 1] \in Seq(X)
      BY <2>2 DEF Follows
    <3>2. QED BY <2>1, <2>2, <3>1 DEF Follows
  <2>4. ASSUME NEW n \in 0..N
        PROVE  f[n] = IF n = 0 THEN <<>>
                      ELSE IF rows[n] \in ToSet(f[n - 1]) THEN f[n - 1] ELSE Append(f[n - 1], rows[n])
    <3>1. CASE n = 0
      BY <2>2, <3>1 DEF Follows
    <3>2. CASE n \in 1..N
      <4>1. n # 0
        BY <3>2
      <4>2. QED BY <2>3, <3>2, <4>1
    <3>3. QED BY <3>1, <3>2
  <2>5. f = [n \in 0..N |-> f[n]]
    BY <2>2 DEF Follows
  <2>6. f = Rec(f)
    BY <2>4, <2>5, Zenon
  <2>7. QED BY <2>6, Zenon
<1> HIDE DEF seen
<1>5. seen[0] = <<>> /\ \A n \in 1..N : seen[n] = Met(seen[n - 1], rows[n])
  <2>1. ASSUME NEW n \in 0..N
        PROVE  seen[n] = IF n = 0 THEN <<>>
                         ELSE IF rows[n] \in ToSet(seen[n - 1]) THEN seen[n - 1] ELSE Append(seen[n - 1], rows[n])
    BY <1>4, Zenon
  <2>2. 0 \in 0..N /\ \A n \in 1..N : n \in 0..N /\ n # 0
    OBVIOUS
  <2>3. QED BY <2>1, <2>2
\* What is listed is what the rows so far have, in the order of its first row.
<1> DEFINE Listed(s, n) ==
             /\ s \in Seq(X)
             /\ ToSet(s) = {rows[k] : k \in 1..n}
             /\ \A i, j \in DOMAIN s : i < j =>
                  \E k \in 1..n : rows[k] = s[i] /\ \A l \in 1..N : rows[l] = s[j] => k < l
           S == {n \in Nat : n <= N => Listed(seen[n], n)}
<1>6. 0 \in S
  <2>1. <<>> \in Seq(X) /\ DOMAIN <<>> = {} /\ ToSet(<<>>) = {}
    BY DEF ToSet
  <2>2. {rows[k] : k \in 1..0} = {}
    OBVIOUS
  <2>3. QED BY <1>5, <2>1, <2>2
<1>7. ASSUME NEW n \in Nat, n \in S PROVE n + 1 \in S
  <2>1. SUFFICES ASSUME n + 1 <= N PROVE Listed(seen[n + 1], n + 1)
    OBVIOUS
  <2>2. PICK s : s = seen[n]
    OBVIOUS
  <2>3. PICK p \in X : p = rows[n + 1] /\ n + 1 \in 1..N
    BY <1>2, <2>1
  <2>4. Listed(s, n)
    <3>1. n <= N
      BY <2>1
    <3>2. QED BY <1>7, <2>2, <3>1
  <2>5. seen[n + 1] = IF p \in ToSet(s) THEN s ELSE Append(s, p)
    <3>1. (n + 1) - 1 = n
      OBVIOUS
    <3>2. QED BY <1>5, <2>2, <2>3, <3>1
  <2>6. /\ \A k : k \in 1..(n + 1) <=> k \in 1..n \/ k = n + 1
        /\ {rows[k] : k \in 1..(n + 1)} = {rows[k] : k \in 1..n} \cup {p}
    <3>1. \A k : k \in 1..(n + 1) <=> k \in 1..n \/ k = n + 1
      OBVIOUS
    <3>2. QED BY <2>3, <3>1
  <2>7. CASE p \in ToSet(s)
    <3>1. ToSet(s) = {rows[k] : k \in 1..(n + 1)}
      BY <2>4, <2>6, <2>7
    <3>2. QED BY <2>4, <2>5, <2>6, <2>7, <3>1
  <2>8. CASE p \notin ToSet(s)
    <3>1. PICK m \in Nat, t \in Seq(X) :
            /\ t = seen[n + 1] /\ DOMAIN s = 1..m /\ DOMAIN t = 1..(m + 1)
            /\ \A i \in 1..m : t[i] = s[i]
            /\ t[m + 1] = p
      <4>1. s \in Seq(X) /\ DOMAIN s = 1..Len(s) /\ Len(s) \in Nat
        BY <2>4, Elements
      <4>2. /\ seen[n + 1] \in Seq(X) /\ Len(seen[n + 1]) = Len(s) + 1
            /\ \A i \in 1..Len(s) : seen[n + 1][i] = s[i]
            /\ seen[n + 1][Len(s) + 1] = p
        BY <2>5, <2>8, <4>1, AppendProperties
      <4>3. DOMAIN seen[n + 1] = 1..(Len(s) + 1)
        BY <4>2, Elements
      <4>4. PICK m \in Nat : m = Len(s)
        BY <4>1
      <4>5. QED BY <4>1, <4>2, <4>3, <4>4
    <3>2. ToSet(t) = {rows[k] : k \in 1..(n + 1)}
      <4>1. ToSet(t) = {t[i] : i \in 1..(m + 1)} /\ ToSet(s) = {s[i] : i \in 1..m}
        BY <3>1 DEF ToSet
      <4>2. ToSet(t) = ToSet(s) \cup {p}
        BY <3>1, <4>1
      <4>3. QED BY <2>4, <2>6, <4>2
    <3>3. ASSUME NEW i \in DOMAIN t, NEW j \in DOMAIN t, i < j
          PROVE  \E k \in 1..(n + 1) : rows[k] = t[i] /\ \A l \in 1..N : rows[l] = t[j] => k < l
      <4>1. i \in 1..m /\ t[i] = s[i]
        BY <3>1, <3>3
      <4>2. CASE j \in 1..m
        <5>1. PICK k \in 1..n : rows[k] = s[i] /\ \A l \in 1..N : rows[l] = s[j] => k < l
          BY <2>4, <3>1, <3>3, <4>1, <4>2
        <5>2. QED BY <2>6, <3>1, <4>1, <4>2, <5>1
      <4>3. CASE j = m + 1
        <5>1. s[i] \in ToSet(s)
          BY <3>1, <4>1 DEF ToSet
        <5>2. PICK k \in 1..n : rows[k] = s[i]
          BY <2>4, <5>1
        <5>3. ASSUME NEW l \in 1..N, rows[l] = p PROVE k < l
          <6>1. l \notin 1..n
            BY <2>4, <2>8, <5>3
          <6>2. QED BY <6>1
        <5>4. QED BY <2>6, <3>1, <4>1, <4>3, <5>2, <5>3
      <4>4. QED BY <3>1, <4>2, <4>3
    <3>4. QED BY <3>1, <3>2, <3>3
  <2>9. QED BY <2>7, <2>8
<1>8. Listed(seen[N], N)
  <2> HIDE DEF S
  <2>1. \A n \in Nat : n \in S
    BY <1>6, <1>7, Induction
  <2>2. N \in S /\ N <= N
    BY <2>1
  <2>3. QED BY <2>2 DEF S
<1> HIDE DEF Met
\* The k-th row from the newest is the one before the k - 1 newest.
<1>9. ToSet(seen[N]) = ToSet(ports)
  <2>1. \A n \in 1..N : (N - n) + 1 \in 1..N /\ ports[n] = rows[(N - n) + 1]
    <3>1. ASSUME NEW n \in 1..N PROVE (N - n) + 1 \in 1..N /\ (N - ((N - n) + 1)) + 1 = n
      OBVIOUS
    <3>2. QED BY <1>2, <3>1
  <2>2. \A n \in 1..N : (N - n) + 1 \in DOMAIN ports /\ rows[n] = ports[(N - n) + 1]
    BY <1>1, <1>2
  <2>3. ToSet(ports) = {ports[n] : n \in 1..N}
    BY <1>1 DEF ToSet
  <2>4. {ports[n] : n \in 1..N} = {rows[k] : k \in 1..N}
    BY <1>1, <2>1, <2>2
  <2>5. QED BY <1>8, <2>3, <2>4
<1>10. ASSUME NEW i \in DOMAIN seen[N], NEW j \in DOMAIN seen[N], i < j
       PROVE  \E n \in DOMAIN ports : /\ ports[n] = seen[N][i]
                                      /\ \A m \in DOMAIN ports : ports[m] = seen[N][j] => m < n
  <2>1. PICK k \in 1..N : rows[k] = seen[N][i] /\ \A l \in 1..N : rows[l] = seen[N][j] => k < l
    BY <1>8, <1>10
  <2>2. (N - k) + 1 \in DOMAIN ports /\ ports[(N - k) + 1] = seen[N][i]
    BY <1>1, <1>2, <2>1
  <2>3. ASSUME NEW m \in DOMAIN ports, ports[m] = seen[N][j] PROVE m < (N - k) + 1
    <3>1. m \in 1..N /\ (N - m) + 1 \in 1..N /\ (N - ((N - m) + 1)) + 1 = m
      BY <1>1
    <3>2. rows[(N - m) + 1] = ports[m]
      BY <1>2, <3>1
    <3>3. k < (N - m) + 1
      BY <2>1, <2>3, <3>1, <3>2
    <3>4. QED BY <3>1, <3>3
  <2>4. QED BY <2>2, <2>3
<1>11. QED BY <1>3, <1>9, <1>10

-----------------------------------------------------------------------------
(* Steps that persist nothing.                                              *)

\* What the rows say does not depend on what is on its way.
LEMMA TablesFrame ==
  ASSUME PositionOK, RowOK, ProfilesOK, PersistedOK,
         UNCHANGED <<sweeps, work, tables, complete, hidden, overlapped, interrupted, failures>>
  PROVE  PositionOK' /\ RowOK' /\ ProfilesOK' /\ PersistedOK'
<1>1. PositionOK'
  BY DEF PositionOK, Endpoints
<1>2. RowOK'
  BY DEF RowOK, Busy, Undisturbed, AddressMatches, tables
<1>3. ProfilesOK'
  BY DEF ProfilesOK, Undisturbed, SerialPort, Endpoints, tables
<1>4. PersistedOK'
  BY DEF PersistedOK, Held, Endpoints, tables
<1>5. QED BY <1>1, <1>2, <1>3, <1>4

\* The tables have the services and the serial ports of a sweep whose report
\* ended without an error.
LEMMA RowsOfComplete ==
  ASSUME PersistedOK, NEW k \in complete
  PROVE  Services(sweeps[k]) \subseteq Held /\ SerialPorts(sweeps[k]) \subseteq ToSet(profiles)
<1>1. \A e \in ToSet(sweeps[k].endpoints) : HasRow(e, Held, ToSet(profiles))
  BY DEF PersistedOK
<1>2. QED BY <1>1 DEF HasRow, Services, SerialPorts

\* Rows are only added.
LEMMA RowsStay ==
  ASSUME NEW e, NEW ports, NEW serials, NEW ports2, NEW serials2, HasRow(e, ports, serials),
         ports \subseteq ports2, serials \subseteq serials2
  PROVE  HasRow(e, ports2, serials2)
  BY DEF HasRow

\* The portal's reads leave everything but its request alone.
LEMMA RequestStep ==
  ASSUME IInv, FetchDevice \/ FetchEndpoints \/ FetchSerialPorts \/ GetInventoryFails
  PROVE  IInv'
<1>1. UNCHANGED <<sweeps, agent, wires, readers, tables, observed>>
  BY DEF FetchDevice, FetchEndpoints, FetchSerialPorts, GetInventoryFails
<1>2. request'.at \in {"none", "device", "endpoints", "answered"}
  BY DEF FetchDevice, FetchEndpoints, FetchSerialPorts, Answer, GetInventoryFails, NoRequest
<1>3. TypeOK'
  BY <1>1, <1>2 DEF IInv, TypeOK, Addresses, agent, wires, readers, tables, observed
<1>4. SweepsOK' /\ OrderOK'
  BY <1>1 DEF IInv, SweepsOK, OrderOK, agent, wires, readers, tables, observed
<1>5. PositionOK' /\ RowOK' /\ ProfilesOK' /\ PersistedOK'
  BY <1>1, TablesFrame DEF IInv, readers, observed
<1>6. CASE FetchDevice
  <2>1. request'.at = "device" /\ request'.date \in complete \cup {Never}
    BY <1>6 DEF FetchDevice
  <2>2. RequestOK'
    BY <1>1, <2>1 DEF RequestOK, observed
  <2>3. QED BY <1>3, <1>4, <1>5, <2>2 DEF IInv
<1>7. CASE FetchEndpoints
  <2>1. /\ request.at = "device" /\ request'.at = "endpoints" /\ request'.date = request.date
        /\ request'.ports = enabled /\ request'.hidden = hidden
    BY <1>7 DEF FetchEndpoints
  <2>2. request.date # Never => Services(sweeps[request.date]) \subseteq enabled \cup hidden
    BY <2>1, RowsOfComplete DEF IInv, RequestOK, Held
  <2>3. RequestOK'
    BY <1>1, <2>1, <2>2 DEF IInv, RequestOK, observed
  <2>4. QED BY <1>3, <1>4, <1>5, <2>3 DEF IInv
<1>8. CASE FetchSerialPorts
  <2>1. /\ request.at = "endpoints" /\ request'.at = "answered" /\ request'.date = request.date
        /\ request'.ports = request.ports /\ request'.hidden = request.hidden
        /\ \/ request'.serials = distinctNewestFirst(profiles)
           \/ distinctNewestFirst(profiles) = <<>>
           \/ request'.serialsRead = FALSE
    BY <1>8 DEF FetchSerialPorts, Answer
  <2>2. ToSet(distinctNewestFirst(profiles)) = ToSet(profiles)
    BY SerialPortsOnce DEF IInv, ProfilesOK
  <2>3. request'.serialsRead => ToSet(profiles) \subseteq ToSet(request'.serials)
    <3>1. ToSet(<<>>) = {}
      BY DEF ToSet
    <3>2. QED BY <2>1, <2>2, <3>1
  <2>4. request.date # Never => SerialPorts(sweeps[request.date]) \subseteq ToSet(profiles)
    BY <2>1, RowsOfComplete DEF IInv, RequestOK
  <2>5. RequestOK'
    BY <1>1, <2>1, <2>3, <2>4 DEF IInv, RequestOK, observed
  <2>6. QED BY <1>3, <1>4, <1>5, <2>5 DEF IInv
<1>9. CASE GetInventoryFails
  <2>1. request'.at = "none"
    BY <1>9 DEF GetInventoryFails, NoRequest
  <2>2. RequestOK'
    BY <2>1 DEF RequestOK
  <2>3. QED BY <1>3, <1>4, <1>5, <2>2 DEF IInv
<1>10. QED BY <1>6, <1>7, <1>8, <1>9

\* A stop moves a port, it forgets none.
LEMMA DisableStep ==
  ASSUME IInv, NEW p \in BridgePorts, DisableEndpoint(p)
  PROVE  IInv'
<1>1. /\ UNCHANGED <<sweeps, agent, wires, readers, row, profiles, request, scanAsked, complete, overlapped, interrupted, failures>>
      /\ p \in enabled /\ enabled' = enabled \ {p} /\ hidden' = hidden \cup {p}
  BY DEF DisableEndpoint
<1>2. Held' = Held
  BY <1>1 DEF Held
<1>3. TypeOK'
  BY <1>1 DEF IInv, TypeOK, Addresses, agent, wires, readers
<1>4. SweepsOK' /\ OrderOK' /\ PositionOK' /\ RowOK' /\ ProfilesOK'
  BY <1>1 DEF IInv, SweepsOK, OrderOK, PositionOK, RowOK, ProfilesOK, Endpoints, Busy, Undisturbed,
     AddressMatches, SerialPort, agent, wires, readers
<1>5. PersistedOK' /\ RequestOK'
  BY <1>1, <1>2 DEF IInv, PersistedOK, RequestOK, Endpoints, readers
<1>6. QED BY <1>3, <1>4, <1>5 DEF IInv

\* A sweep is added at the end: those that are reported stay.
LEMMA ScanStep ==
  ASSUME IInv, Scan
  PROVE  IInv'
<1>1. PICK s \in Snapshots : sweeps' = Append(sweeps, s)
  BY DEF Scan, Snapshots
<1>2. UNCHANGED <<agent, wires, readers, tables, request, observed>> /\ Len(sweeps) < MaxScans
  BY DEF Scan
<1>3. /\ sweeps' \in Seq(Snapshots) /\ Len(sweeps') = Len(sweeps) + 1 /\ Len(sweeps) \in Nat
      /\ DOMAIN sweeps \subseteq DOMAIN sweeps'
      /\ \A k \in DOMAIN sweeps : sweeps'[k] = sweeps[k]
  <2>1. sweeps \in Seq(Snapshots)
    BY DEF IInv, SweepsOK
  <2>2. /\ sweeps' \in Seq(Snapshots) /\ Len(sweeps') = Len(sweeps) + 1
        /\ \A k \in 1..Len(sweeps) : sweeps'[k] = sweeps[k]
    BY <1>1, <2>1, AppendProperties
  <2>3. DOMAIN sweeps = 1..Len(sweeps) /\ DOMAIN sweeps' = 1..Len(sweeps') /\ Len(sweeps) \in Nat
    BY <2>1, <2>2, Elements
  <2>4. QED BY <2>2, <2>3
<1>4. TypeOK'
  <2>1. Len(sweeps') <= MaxScans
    BY <1>2, <1>3, InventoryAssumption
  <2>2. Addresses \subseteq Addresses'
    BY <1>3 DEF Addresses
  <2>3. QED BY <1>2, <2>1, <2>2 DEF IInv, TypeOK, agent, wires, readers, tables, observed
<1>5. SweepsOK'
  BY <1>2, <1>3 DEF IInv, SweepsOK, agent, wires, readers, tables, observed
<1>6. OrderOK'
  BY <1>2 DEF IInv, OrderOK, agent, wires, tables
<1>7. \A c \in Conns : work[c].at # "idle" => Endpoints(c)' = Endpoints(c)
  BY <1>2, <1>3 DEF IInv, SweepsOK, Endpoints, readers
<1>8. PositionOK'
  BY <1>2, <1>7 DEF IInv, PositionOK, readers
<1>9. RowOK'
  BY <1>2, <1>3 DEF IInv, RowOK, SweepsOK, Busy, Undisturbed, AddressMatches, readers, tables, observed
<1>10. ProfilesOK'
  BY <1>2, <1>7 DEF IInv, ProfilesOK, Undisturbed, SerialPort, readers, tables, observed
<1>11. PersistedOK' /\ RequestOK'
  BY <1>2, <1>3, <1>7 DEF IInv, SweepsOK, PersistedOK, RequestOK, Held, readers, tables, observed
<1>12. QED BY <1>4, <1>5, <1>6, <1>8, <1>9, <1>10, <1>11 DEF IInv

-----------------------------------------------------------------------------
(* Steps that move reports and commands.                                    *)

\* The numbers of sweeps.
LEMMA Numbers ==
  ASSUME IInv
  PROVE  /\ Len(sweeps) \in Nat /\ DOMAIN sweeps = 1..Len(sweeps) /\ Len(sweeps) <= MaxScans
         /\ DOMAIN sweeps \subseteq Sweeps /\ DOMAIN sweeps \subseteq Nat
         /\ conn \in Nat /\ conn <= MaxConns /\ MaxConns \in Nat
         /\ row.date \in Nat /\ row.date <= Len(sweeps)
         /\ outbox \in Seq(Sweeps)
         /\ \A c \in Conns : stream[c] \in Seq(Sweeps)
         /\ \A i \in DOMAIN outbox : outbox[i] \in Nat /\ outbox[i] <= Len(sweeps)
         /\ \A c \in Conns : \A i \in DOMAIN stream[c] : stream[c][i] \in Nat /\ stream[c][i] <= Len(sweeps)
         /\ DOMAIN <<>> = {}
<1>1. sweeps \in Seq(Snapshots)
  BY DEF IInv, SweepsOK
<1>2. Len(sweeps) \in Nat /\ DOMAIN sweeps = 1..Len(sweeps)
  BY <1>1, Elements
<1>3. Len(sweeps) <= MaxScans /\ conn \in 0..MaxConns /\ outbox \in Seq(Sweeps) /\ stream \in [Conns -> Seq(Sweeps)]
  BY DEF IInv, TypeOK
<1>4. /\ \A i \in DOMAIN outbox : outbox[i] \in DOMAIN sweeps
      /\ \A c \in Conns : \A i \in DOMAIN stream[c] : stream[c][i] \in DOMAIN sweeps
      /\ row.date \in DOMAIN sweeps \cup {Never}
  BY DEF IInv, SweepsOK
<1>5. DOMAIN <<>> = {}
  OBVIOUS
<1>6. QED
  BY <1>2, <1>3, <1>4, <1>5, InventoryAssumption DEF Sweeps, Never

\* Such a step is a step of the invariant if what is on its way stays in order.
LEMMA MovesFrame ==
  ASSUME IInv, UNCHANGED <<sweeps, work, tables, request, complete, hidden, overlapped, interrupted, failures>>,
         conn' \in 0..MaxConns, linkUp' \in BOOLEAN, outbox' \in Seq(Sweeps), Len(outbox') <= SendBuffer,
         stream' \in [Conns -> Seq(Sweeps)], syncs' \in [Conns -> Nat], left' \subseteq 1..conn',
         scanAsked' \in [conn : 0..MaxConns, sweep : Sweeps \cup {0}, served : BOOLEAN, refused : BOOLEAN],
         scanAsked'.sweep \in DOMAIN sweeps \cup {0},
         \A i \in DOMAIN outbox' : outbox'[i] \in DOMAIN sweeps,
         \A c \in Conns : \A i \in DOMAIN stream'[c] : stream'[c][i] \in DOMAIN sweeps,
         OrderOK'
  PROVE  IInv'
<1>1. TypeOK'
  BY DEF IInv, TypeOK, Addresses, tables
<1>2. SweepsOK'
  BY DEF IInv, SweepsOK, tables
<1>3. PositionOK' /\ RowOK' /\ ProfilesOK' /\ PersistedOK'
  BY TablesFrame DEF IInv
<1>4. RequestOK'
  BY DEF IInv, RequestOK
<1>5. QED BY <1>1, <1>2, <1>3, <1>4 DEF IInv

\* What the steps that leave the requests and counts alone need not repeat.
LEMMA TypeFacts ==
  ASSUME IInv
  PROVE  /\ conn \in 0..MaxConns /\ linkUp \in BOOLEAN /\ outbox \in Seq(Sweeps) /\ Len(outbox) <= SendBuffer
         /\ stream \in [Conns -> Seq(Sweeps)] /\ syncs \in [Conns -> Nat] /\ left \subseteq 1..conn
         /\ scanAsked \in [conn : 0..MaxConns, sweep : Sweeps \cup {0}, served : BOOLEAN, refused : BOOLEAN]
         /\ scanAsked.sweep \in DOMAIN sweeps \cup {0}
         /\ \A i \in DOMAIN outbox : outbox[i] \in DOMAIN sweeps
         /\ \A c \in Conns : \A i \in DOMAIN stream[c] : stream[c][i] \in DOMAIN sweeps
         /\ OrderOK
  BY DEF IInv, TypeOK, SweepsOK

\* A report that is queued is of the newest sweep.
LEMMA ReportQueued ==
  ASSUME IInv, sendInventoryUpdate
  PROVE  /\ outbox' \in Seq(Sweeps) /\ Len(outbox') <= SendBuffer
         /\ \A i \in DOMAIN outbox' : outbox'[i] \in DOMAIN sweeps
         /\ \A c \in Conns : \A i \in DOMAIN stream[c], j \in DOMAIN outbox' : stream[c][i] <= outbox'[j]
         /\ \A i, j \in DOMAIN outbox' : i < j => outbox'[i] <= outbox'[j]
         /\ \A j \in DOMAIN outbox' : row.date <= outbox'[j]
<1>1. outbox' = Append(outbox, Len(sweeps)) /\ Len(sweeps) \in DOMAIN sweeps /\ Len(sweeps) \in Sweeps
  <2>1. Len(sweeps) # 0
    BY EmptySeq DEF IInv, SweepsOK, sendInventoryUpdate
  <2>2. QED BY <2>1, Numbers DEF sendInventoryUpdate
<1>2. PICK n \in Nat :
        /\ DOMAIN outbox = 1..n
        /\ outbox' \in Seq(Sweeps) /\ Len(outbox') <= SendBuffer
        /\ \A i \in DOMAIN outbox' :
             /\ i \in Nat /\ i <= n + 1
             /\ i = n + 1 => outbox'[i] = Len(sweeps)
             /\ i # n + 1 => i \in DOMAIN outbox /\ outbox'[i] = outbox[i]
  <2>1. outbox \in Seq(Sweeps) /\ DOMAIN outbox = 1..Len(outbox) /\ Len(outbox) \in Nat
    BY Numbers, Elements
  <2>2. /\ outbox' \in Seq(Sweeps) /\ Len(outbox') = Len(outbox) + 1
        /\ \A i \in 1..Len(outbox) : outbox'[i] = outbox[i]
        /\ outbox'[Len(outbox) + 1] = Len(sweeps)
    BY <1>1, <2>1, AppendProperties
  <2>3. DOMAIN outbox' = 1..(Len(outbox) + 1)
    BY <2>2, Elements
  <2>4. PICK n \in Nat : n = Len(outbox)
    BY <2>1
  <2>5. ASSUME NEW i \in DOMAIN outbox'
        PROVE  /\ i \in Nat /\ i <= n + 1
               /\ i = n + 1 => outbox'[i] = Len(sweeps)
               /\ i # n + 1 => i \in DOMAIN outbox /\ outbox'[i] = outbox[i]
    BY <2>1, <2>2, <2>3, <2>4
  <2>6. Len(outbox') <= SendBuffer
    BY <2>1, <2>2, InventoryAssumption DEF sendInventoryUpdate
  <2>7. QED BY <2>1, <2>2, <2>4, <2>5, <2>6
<1>3. \A i \in DOMAIN outbox' : outbox'[i] \in DOMAIN sweeps
  BY <1>1, <1>2, TypeFacts
<1>4. \A c \in Conns : \A i \in DOMAIN stream[c], j \in DOMAIN outbox' : stream[c][i] <= outbox'[j]
  <2>1. SUFFICES ASSUME NEW c \in Conns, NEW i \in DOMAIN stream[c], NEW j \in DOMAIN outbox'
                 PROVE  stream[c][i] <= outbox'[j]
    OBVIOUS
  <2>2. CASE j = n + 1
    BY <1>2, <2>2, Numbers
  <2>3. CASE j # n + 1
    BY <1>2, <2>3, TypeFacts DEF OrderOK
  <2>4. QED BY <2>2, <2>3
<1>5. \A i, j \in DOMAIN outbox' : i < j => outbox'[i] <= outbox'[j]
  <2>1. SUFFICES ASSUME NEW i \in DOMAIN outbox', NEW j \in DOMAIN outbox', i < j
                 PROVE  outbox'[i] <= outbox'[j]
    OBVIOUS
  <2>2. i # n + 1
    BY <1>2, <2>1
  <2>3. i \in DOMAIN outbox /\ outbox'[i] = outbox[i] /\ outbox[i] <= Len(sweeps)
    BY <1>2, <2>2, Numbers
  <2>4. QED BY <1>2, <2>1, <2>3, TypeFacts DEF OrderOK
<1>6. \A j \in DOMAIN outbox' : row.date <= outbox'[j]
  BY <1>2, Numbers, TypeFacts DEF OrderOK
<1>7. QED BY <1>2, <1>3, <1>4, <1>5, <1>6
LEMMA ConnectStep ==
  ASSUME IInv, Connect \/ Redial
  PROVE  IInv'
<1>1. /\ conn' = conn + 1 /\ conn' \in 1..MaxConns /\ linkUp' = TRUE
      /\ UNCHANGED <<sweeps, stream, syncs, left, scanAsked, work, tables, request, complete, hidden, overlapped, interrupted, failures>>
  BY Numbers, InventoryAssumption DEF Connect, Redial, wires, readers, observed
<1>2. /\ outbox' \in Seq(Sweeps) /\ Len(outbox') <= SendBuffer
      /\ \A i \in DOMAIN outbox' : outbox'[i] \in DOMAIN sweeps
      /\ \A c \in Conns : \A i \in DOMAIN stream[c], j \in DOMAIN outbox' : stream[c][i] <= outbox'[j]
      /\ \A i, j \in DOMAIN outbox' : i < j => outbox'[i] <= outbox'[j]
      /\ \A j \in DOMAIN outbox' : row.date <= outbox'[j]
  <2>1. CASE sendInventoryUpdate
    BY <2>1, ReportQueued
  <2>2. CASE outbox' = outbox
    BY <2>2, TypeFacts DEF OrderOK
  <2>3. QED BY <2>1, <2>2 DEF Connect, Redial
<1>3. OrderOK'
  <2>1. \A c \in Conns : c > conn' => c > conn
    BY <1>1, Numbers DEF Conns
  <2>2. stream[conn'] = <<>>
    BY <1>1, Numbers, TypeFacts DEF OrderOK, Conns
  <2>3. \A c \in Conns : \A j \in DOMAIN stream[c] : c # conn'
    BY <2>2, Numbers
  <2>4. QED BY <1>1, <1>2, <2>1, <2>3, TypeFacts DEF OrderOK, tables
<1>4. left' \subseteq 1..conn'
  BY <1>1, Numbers, TypeFacts
<1>5. QED BY <1>1, <1>2, <1>3, <1>4, TypeFacts, MovesFrame

LEMMA SyncStep ==
  ASSUME IInv, handleSyncInventory
  PROVE  IInv'
<1>1. UNCHANGED <<sweeps, conn, linkUp, stream, left, work, tables, request, complete, hidden, overlapped, interrupted, failures>>
  BY DEF handleSyncInventory, readers
<1>2. syncs' \in [Conns -> Nat]
  <2>1. syncs \in [Conns -> Nat] /\ syncs[conn] > 0 /\ syncs' = [syncs EXCEPT ![conn] = @ - 1]
    BY TypeFacts DEF handleSyncInventory
  <2>2. CASE conn \in Conns
    <3>1. syncs[conn] \in Nat /\ syncs[conn] - 1 \in Nat
      BY <2>1, <2>2
    <3>2. QED BY <2>1, <3>1
  <2>3. CASE conn \notin Conns
    BY <2>1, <2>3
  <2>4. QED BY <2>2, <2>3
<1>3. CASE sendInventoryUpdate /\ UNCHANGED scanAsked
  <2>1. OrderOK'
    BY <1>1, <1>3, ReportQueued, TypeFacts DEF OrderOK, tables
  <2>2. QED BY <1>1, <1>2, <1>3, <2>1, ReportQueued, TypeFacts, MovesFrame
<1>4. CASE UNCHANGED outbox /\ scanAsked' = [scanAsked EXCEPT !.refused = TRUE]
  <2>1. OrderOK'
    BY <1>1, <1>4, TypeFacts DEF OrderOK, tables
  <2>2. /\ scanAsked' \in [conn : 0..MaxConns, sweep : Sweeps \cup {0}, served : BOOLEAN, refused : BOOLEAN]
        /\ scanAsked'.sweep = scanAsked.sweep
    BY <1>4, TypeFacts
  <2>3. QED BY <1>1, <1>2, <1>4, <2>1, <2>2, TypeFacts, MovesFrame
<1>5. QED BY <1>3, <1>4 DEF handleSyncInventory

LEMMA ScanDeviceStep ==
  ASSUME IInv, ScanDevice
  PROVE  IInv'
<1>1. /\ conn > 0 /\ scanAsked' = [conn |-> conn, sweep |-> Len(sweeps), served |-> FALSE, refused |-> FALSE]
      /\ UNCHANGED <<sweeps, agent, stream, left, work, tables, request, complete, hidden, overlapped, interrupted, failures>>
  BY DEF ScanDevice, IsConnected, readers
<1>2. syncs' \in [Conns -> Nat]
  <2>1. conn \in Conns /\ syncs \in [Conns -> Nat]
    BY <1>1, Numbers, TypeFacts DEF Conns
  <2>2. syncs[conn] + 1 \in Nat
    BY <2>1
  <2>3. syncs' = [syncs EXCEPT ![conn] = @ + 1] \/ syncs' = syncs
    BY DEF ScanDevice
  <2>4. QED BY <2>1, <2>2, <2>3
<1>3. Len(sweeps) \in Sweeps \cup {0} /\ Len(sweeps) \in DOMAIN sweeps \cup {0}
  BY Numbers, InventoryAssumption DEF Sweeps
<1>4. scanAsked' \in [conn : 0..MaxConns, sweep : Sweeps \cup {0}, served : BOOLEAN, refused : BOOLEAN]
  BY <1>1, <1>3, TypeFacts
<1>5. OrderOK'
  BY <1>1, TypeFacts DEF OrderOK, agent, tables
<1>6. QED BY <1>1, <1>2, <1>3, <1>4, <1>5, TypeFacts, MovesFrame DEF agent

\* A report leaves the queue for the end of the newest connection.
LEMMA TransmitStep ==
  ASSUME IInv, Transmit
  PROVE  IInv'
<1>1. /\ conn \in Conns /\ outbox # <<>> /\ outbox' = Tail(outbox)
      /\ UNCHANGED <<sweeps, conn, linkUp, syncs, left, scanAsked, work, tables, request, complete, hidden, overlapped, interrupted, failures>>
  BY Numbers DEF Transmit, Conns, readers, observed
<1>2. PICK n \in Nat :
        /\ DOMAIN outbox = 1..(n + 1) /\ DOMAIN outbox' = 1..n
        /\ outbox' \in Seq(Sweeps) /\ Len(outbox') <= SendBuffer
        /\ \A i \in 1..n : outbox'[i] = outbox[i + 1]
        /\ Head(outbox) = outbox[1]
  <2>1. outbox \in Seq(Sweeps) /\ DOMAIN outbox = 1..Len(outbox) /\ Len(outbox) \in Nat
    BY Numbers, Elements
  <2>2. /\ Head(outbox) \in Sweeps /\ outbox' \in Seq(Sweeps) /\ Len(outbox') = Len(outbox) - 1
        /\ \A i \in 1..Len(outbox') : outbox'[i] = outbox[i + 1]
    BY <1>1, <2>1, HeadTailProperties
  <2>3. DOMAIN outbox' = 1..Len(outbox') /\ Len(outbox') \in Nat
    BY <2>2, Elements
  <2>4. Head(outbox) = outbox[1]
    OBVIOUS
  <2>5. PICK n \in Nat : n = Len(outbox')
    BY <2>3
  <2>6. Len(outbox) = n + 1
    BY <2>1, <2>2, <2>5
  <2>7. DOMAIN outbox = 1..(n + 1) /\ DOMAIN outbox' = 1..n /\ \A i \in 1..n : outbox'[i] = outbox[i + 1]
    BY <2>1, <2>2, <2>3, <2>5, <2>6
  <2>8. Len(outbox') <= SendBuffer
    BY <2>1, <2>2, TypeFacts, InventoryAssumption
  <2>9. QED BY <2>2, <2>4, <2>7, <2>8
<1>3. /\ outbox[1] \in DOMAIN sweeps /\ outbox[1] \in Sweeps /\ outbox[1] \in Nat
      /\ \A i \in 1..n : i \in DOMAIN outbox' /\ i + 1 \in DOMAIN outbox /\ 1 < i + 1 /\ 1 \in DOMAIN outbox
  <2>1. DOMAIN outbox = 1..(n + 1) /\ DOMAIN outbox' = 1..n
    BY <1>2
  <2>2. 1 \in DOMAIN outbox /\ \A i \in 1..n : i \in DOMAIN outbox' /\ i + 1 \in DOMAIN outbox /\ 1 < i + 1
    BY <2>1
  <2>3. outbox[1] \in DOMAIN sweeps
    BY <2>2, TypeFacts
  <2>4. outbox[1] \in Sweeps /\ outbox[1] \in Nat
    BY <2>3, Numbers
  <2>5. QED BY <2>2, <2>3, <2>4
<1>4. /\ \A j \in DOMAIN outbox' : outbox'[j] \in DOMAIN sweeps
      /\ \A j \in DOMAIN outbox' : outbox[1] <= outbox'[j] /\ row.date <= outbox'[j]
      /\ \A i, j \in DOMAIN outbox' : i < j => outbox'[i] <= outbox'[j]
      /\ \A c \in Conns : \A i \in DOMAIN stream[c], j \in DOMAIN outbox' : stream[c][i] <= outbox'[j]
  <2>1. \A i, j \in 1..n : i < j => i + 1 < j + 1
    OBVIOUS
  <2>2. DOMAIN outbox' = 1..n /\ \A i \in 1..n : outbox'[i] = outbox[i + 1] /\ i + 1 \in DOMAIN outbox
    BY <1>2, <1>3
  <2>3. \A j \in DOMAIN outbox' : outbox'[j] \in DOMAIN sweeps
    BY <2>2, TypeFacts
  <2>4. \A j \in DOMAIN outbox' : outbox[1] <= outbox'[j] /\ row.date <= outbox'[j]
    BY <1>3, <2>2, TypeFacts DEF OrderOK
  <2>5. \A i, j \in DOMAIN outbox' : i < j => outbox'[i] <= outbox'[j]
    BY <2>1, <2>2, TypeFacts DEF OrderOK
  <2>6. \A c \in Conns : \A i \in DOMAIN stream[c], j \in DOMAIN outbox' : stream[c][i] <= outbox'[j]
    BY <2>2, TypeFacts DEF OrderOK
  <2>7. QED BY <2>3, <2>4, <2>5, <2>6
<1>5. CASE stream' = stream
  <2>1. OrderOK'
    BY <1>1, <1>4, <1>5, TypeFacts DEF OrderOK, tables
  <2>2. QED BY <1>1, <1>2, <1>4, <1>5, <2>1, TypeFacts, MovesFrame
<1>6. CASE stream' = [stream EXCEPT ![conn] = Append(@, outbox[1])]
  <2>1. PICK m \in Nat :
          /\ DOMAIN stream[conn] = 1..m /\ DOMAIN stream'[conn] = 1..(m + 1)
          /\ stream'[conn] \in Seq(Sweeps)
          /\ \A i \in 1..m : stream'[conn][i] = stream[conn][i]
          /\ stream'[conn][m + 1] = outbox[1]
    <3>1. stream[conn] \in Seq(Sweeps) /\ DOMAIN stream[conn] = 1..Len(stream[conn]) /\ Len(stream[conn]) \in Nat
      BY <1>1, Numbers, Elements
    <3>2. stream'[conn] = Append(stream[conn], outbox[1])
      BY <1>1, <1>6, TypeFacts
    <3>3. /\ stream'[conn] \in Seq(Sweeps) /\ Len(stream'[conn]) = Len(stream[conn]) + 1
          /\ \A i \in 1..Len(stream[conn]) : stream'[conn][i] = stream[conn][i]
          /\ stream'[conn][Len(stream[conn]) + 1] = outbox[1]
      BY <1>3, <3>1, <3>2, AppendProperties
    <3>4. DOMAIN stream'[conn] = 1..(Len(stream[conn]) + 1)
      BY <3>3, Elements
    <3>5. PICK m \in Nat : m = Len(stream[conn])
      BY <3>1
    <3>6. QED BY <3>1, <3>3, <3>4, <3>5
  <2>2. \A c \in Conns : c # conn => stream'[c] = stream[c]
    BY <1>6, TypeFacts
  <2>3. stream' \in [Conns -> Seq(Sweeps)]
    <3>1. Append(stream[conn], outbox[1]) = stream'[conn]
      BY <1>1, <1>6, TypeFacts
    <3>2. QED BY <1>6, <2>1, <3>1, TypeFacts
  <2>4. ASSUME NEW c \in Conns, NEW i \in DOMAIN stream'[c]
        PROVE  /\ i \in Nat
               /\ \/ i \in DOMAIN stream[c] /\ stream'[c][i] = stream[c][i]
                  \/ c = conn /\ i = m + 1 /\ stream'[c][i] = outbox[1]
    <3>1. CASE c = conn
      BY <2>1, <3>1
    <3>2. CASE c # conn
      <4>1. DOMAIN stream[c] = 1..Len(stream[c]) /\ Len(stream[c]) \in Nat
        BY Numbers, Elements
      <4>2. QED BY <2>2, <3>2, <4>1
    <3>3. QED BY <3>1, <3>2
  <2>5. ASSUME NEW c \in Conns, NEW i \in DOMAIN stream'[c]
        PROVE  /\ stream'[c][i] \in DOMAIN sweeps /\ stream'[c][i] <= outbox[1]
               /\ \A j \in DOMAIN outbox' : stream'[c][i] <= outbox'[j]
               /\ c = conn => row.date <= stream'[c][i]
    <3>1. CASE i \in DOMAIN stream[c] /\ stream'[c][i] = stream[c][i]
      <4>1. /\ stream[c][i] \in DOMAIN sweeps /\ stream[c][i] <= outbox[1]
            /\ c = conn => row.date <= stream[c][i]
        <5>1. 1 \in DOMAIN outbox
          BY <1>2
        <5>2. QED BY <3>1, <5>1, TypeFacts DEF OrderOK
      <4>2. \A j \in DOMAIN outbox' : stream[c][i] <= outbox'[j]
        BY <1>4, <3>1
      <4>3. QED BY <3>1, <4>1, <4>2
    <3>2. CASE stream'[c][i] = outbox[1]
      <4>1. 1 \in DOMAIN outbox
        BY <1>2
      <4>2. QED BY <1>3, <1>4, <3>2, <4>1, TypeFacts DEF OrderOK
    <3>3. QED BY <2>4, <3>1, <3>2
  <2>6. ASSUME NEW c \in Conns, NEW d \in Conns, NEW i \in DOMAIN stream'[c], NEW j \in DOMAIN stream'[d],
               c < d \/ (c = d /\ i < j)
        PROVE  stream'[c][i] <= stream'[d][j]
    <3>1. CASE d = conn /\ j = m + 1 /\ stream'[d][j] = outbox[1]
      BY <2>5, <3>1
    <3>2. CASE j \in DOMAIN stream[d] /\ stream'[d][j] = stream[d][j]
      <4>1. CASE c = conn /\ i = m + 1
        <5>1. CASE c < d
          <6>1. d > conn
            BY <4>1, <5>1, Numbers DEF Conns
          <6>2. stream[d] = <<>>
            BY <6>1, TypeFacts DEF OrderOK
          <6>3. QED BY <3>2, <6>2, Numbers
        <5>2. CASE c = d /\ i < j
          BY <2>1, <3>2, <4>1, <5>2
        <5>3. QED BY <2>6, <5>1, <5>2
      <4>2. CASE i \in DOMAIN stream[c] /\ stream'[c][i] = stream[c][i]
        BY <2>6, <3>2, <4>2, TypeFacts DEF OrderOK
      <4>3. QED BY <2>4, <4>1, <4>2
    <3>3. QED BY <2>4, <3>1, <3>2
  <2>7. \A c \in Conns : c > conn => stream'[c] = <<>>
    <3>1. ASSUME NEW c \in Conns, c > conn PROVE stream'[c] = <<>>
      <4>1. c # conn
        BY <3>1, Numbers DEF Conns
      <4>2. QED BY <2>2, <3>1, <4>1, TypeFacts DEF OrderOK
    <3>2. QED BY <3>1
  <2>8. OrderOK'
    BY <1>1, <1>4, <2>5, <2>6, <2>7 DEF OrderOK, tables
  <2>9. QED BY <1>1, <1>2, <1>4, <2>3, <2>5, <2>8, TypeFacts, MovesFrame
<1>7. QED
  <2>1. Head(outbox) = outbox[1]
    BY <1>2
  <2>2. QED BY <1>5, <1>6, <2>1 DEF Transmit

\* A connection that forgets some of the reports at its end, or all of them,
\* leaves the others in order.
LEMMA ShorterStreams ==
  ASSUME IInv, UNCHANGED <<conn, outbox, row>>,
         stream' \in [Conns -> Seq(Sweeps)],
         \A c \in Conns : \A i \in DOMAIN stream'[c] : i \in DOMAIN stream[c] /\ stream'[c][i] = stream[c][i],
         \A c \in Conns : stream[c] = <<>> => stream'[c] = <<>>
  PROVE  OrderOK' /\ \A c \in Conns : \A i \in DOMAIN stream'[c] : stream'[c][i] \in DOMAIN sweeps
<1>1. \A c \in Conns : \A i \in DOMAIN stream'[c] : stream'[c][i] \in DOMAIN sweeps
  BY TypeFacts
<1>2. OrderOK'
  BY TypeFacts DEF OrderOK
<1>3. QED BY <1>1, <1>2

LEMMA LinkLostStep ==
  ASSUME IInv, LinkLost
  PROVE  IInv'
<1>1. /\ linkUp' = FALSE /\ syncs' = [syncs EXCEPT ![conn] = 0]
      /\ UNCHANGED <<sweeps, conn, outbox, left, scanAsked, work, tables, request, complete, hidden, overlapped, interrupted, failures>>
  BY DEF LinkLost, readers, observed
<1>2. syncs' \in [Conns -> Nat]
  BY <1>1, TypeFacts
<1>3. /\ stream' \in [Conns -> Seq(Sweeps)]
      /\ \A c \in Conns : \A i \in DOMAIN stream'[c] : i \in DOMAIN stream[c] /\ stream'[c][i] = stream[c][i]
      /\ \A c \in Conns : stream[c] = <<>> => stream'[c] = <<>>
  <2>1. PICK n \in 0..Len(stream[conn]) : stream' = [stream EXCEPT ![conn] = SubSeq(@, 1, n)]
    BY DEF LinkLost
  <2>2. CASE conn \in Conns
    <3>1. PICK s \in Seq(Sweeps) : s = stream[conn]
      BY <2>2, Numbers
    <3>2. DOMAIN s = 1..Len(s) /\ Len(s) \in Nat /\ n \in 0..Len(s)
      BY <2>1, <3>1, Elements
    <3>3. PICK t : t = SubSeq(s, 1, n)
      OBVIOUS
    <3>4. t \in Seq(Sweeps) /\ Len(t) = n /\ \A i \in 1..n : t[i] = s[i]
      <4>1. \A i \in 1..n : s[i] \in Sweeps
        BY <3>1, <3>2, Elements
      <4>2. QED BY <3>2, <3>3, <4>1, SubSeqProperties
    <3>5. DOMAIN t = 1..n
      BY <3>4, Elements
    <3>6. \A i \in DOMAIN t : i \in DOMAIN s /\ t[i] = s[i]
      BY <3>2, <3>4, <3>5
    <3>7. stream' = [stream EXCEPT ![conn] = t] /\ stream \in [Conns -> Seq(Sweeps)]
      BY <2>1, <3>1, <3>3, TypeFacts
    <3>8. s = <<>> => t = <<>>
      <4>1. ASSUME s = <<>> PROVE n = 0
        BY <3>2, <4>1, EmptySeq
      <4>2. n = 0 => t = <<>>
        BY <3>4, EmptySeq
      <4>3. QED BY <4>1, <4>2
    <3>9. QED BY <2>2, <3>1, <3>4, <3>6, <3>7, <3>8
  <2>3. CASE conn \notin Conns
    BY <2>1, <2>3, TypeFacts
  <2>4. QED BY <2>2, <2>3
<1>4. QED
  <2>1. row' = row
    BY <1>1 DEF tables
  <2>2. QED BY <1>1, <1>2, <1>3, <2>1, ShorterStreams, TypeFacts, MovesFrame

LEMMA LeaveStep ==
  ASSUME IInv, NEW c \in Conns, Leave(c)
  PROVE  IInv'
<1>1. /\ c <= conn /\ left' = left \cup {c} /\ stream' = [stream EXCEPT ![c] = <<>>]
      /\ UNCHANGED <<sweeps, agent, syncs, scanAsked, work, tables, request, complete, hidden, overlapped, interrupted, failures>>
  BY DEF Leave, observed
<1>2. left' \subseteq 1..conn'
  BY <1>1, TypeFacts DEF Conns, agent
<1>3. /\ stream' \in [Conns -> Seq(Sweeps)]
      /\ \A d \in Conns : \A i \in DOMAIN stream'[d] : i \in DOMAIN stream[d] /\ stream'[d][i] = stream[d][i]
      /\ \A d \in Conns : stream[d] = <<>> => stream'[d] = <<>>
  <2>1. <<>> \in Seq(Sweeps)
    BY EmptySeq
  <2>2. QED BY <1>1, <2>1, TypeFacts, Numbers
<1>4. QED
  <2>1. row' = row
    BY <1>1 DEF tables
  <2>2. QED BY <1>1, <1>2, <1>3, <2>1, ShorterStreams, TypeFacts, MovesFrame DEF agent

-----------------------------------------------------------------------------
(* Steps that persist a report.                                             *)

Stages == [at : {"idle", "address", "endpoint", "insert"}, sweep : Sweeps \cup {0}, next : Nat, clean : BOOLEAN]

Rows == [date : Sweeps \cup {Never}, address : Addresses]

\* Such a step is a step of the invariant if what it changes keeps its type and
\* is about sweeps that have been made.
LEMMA ReportFrame ==
  ASSUME IInv, UNCHANGED <<sweeps, agent, syncs, left, request>>,
         stream' \in [Conns -> Seq(Sweeps)],
         \A c \in Conns : \A i \in DOMAIN stream'[c] : stream'[c][i] \in DOMAIN sweeps,
         work' \in [Conns -> Stages],
         \A c \in Conns : work'[c].at # "idle" => work'[c].sweep \in DOMAIN sweeps,
         row' \in Rows, row'.date \in DOMAIN sweeps \cup {Never},
         enabled' \cup hidden' \subseteq DOMAIN wellKnownPorts, enabled' \cap hidden' = {},
         scanAsked' \in [conn : 0..MaxConns, sweep : Sweeps \cup {0}, served : BOOLEAN, refused : BOOLEAN],
         scanAsked'.sweep \in DOMAIN sweeps \cup {0},
         complete \subseteq complete', complete' \subseteq DOMAIN sweeps,
         overlapped' \in BOOLEAN, interrupted' \in BOOLEAN, failures' \in 0..MaxFailures
  PROVE  TypeOK' /\ SweepsOK' /\ RequestOK'
<1>1. Addresses' = Addresses
  BY DEF Addresses
<1>2. complete' \subseteq Sweeps
  BY Numbers
<1>3. TypeOK'
  BY <1>1, <1>2 DEF IInv, TypeOK, Stages, Rows, agent
<1>4. SweepsOK'
  BY DEF IInv, SweepsOK, agent
<1>5. RequestOK'
  BY DEF IInv, RequestOK
<1>6. QED BY <1>3, <1>4, <1>5

\* What a step that persists need not repeat.
LEMMA ReportFacts ==
  ASSUME IInv
  PROVE  /\ work \in [Conns -> Stages] /\ row \in Rows /\ row.date \in DOMAIN sweeps \cup {Never}
         /\ \A c \in Conns : work[c].at # "idle" => work[c].sweep \in DOMAIN sweeps
         /\ enabled \cup hidden \subseteq DOMAIN wellKnownPorts /\ enabled \cap hidden = {}
         /\ complete \subseteq DOMAIN sweeps /\ overlapped \in BOOLEAN /\ interrupted \in BOOLEAN
         /\ failures \in 0..MaxFailures /\ MaxFailures \in Nat
         /\ PositionOK /\ RowOK /\ ProfilesOK /\ PersistedOK
  BY InventoryAssumption DEF IInv, TypeOK, SweepsOK, Stages, Rows

\* The endpoints of a report that is being persisted.
LEMMA ReportEndpoints ==
  ASSUME IInv, NEW c \in Conns, work[c].at # "idle"
  PROVE  /\ Endpoints(c) = sweeps[work[c].sweep].endpoints
         /\ DOMAIN Endpoints(c) = 1..Len(Endpoints(c)) /\ Len(Endpoints(c)) \in Nat
         /\ \A i \in DOMAIN Endpoints(c) :
              /\ IsService(Endpoints(c)[i]) => Endpoints(c)[i].port \in DOMAIN wellKnownPorts
              /\ ~IsService(Endpoints(c)[i]) => Endpoints(c)[i].serial \in Serials
         /\ \A p \in Services(sweeps[work[c].sweep]) : \E i \in DOMAIN Endpoints(c) :
              IsService(Endpoints(c)[i]) /\ Endpoints(c)[i].port = p
<1>1. sweeps[work[c].sweep] \in Snapshots
  BY ReportFacts, Elements DEF IInv, SweepsOK
<1>2. PICK s \in Snapshots : s = sweeps[work[c].sweep]
  BY <1>1
<1>3. Endpoints(c) = s.endpoints
  BY <1>2 DEF Endpoints
<1>4. QED BY <1>2, <1>3, SnapshotEndpoints

\* A statement that fails is counted.
LEMMA FailureCounted ==
  ASSUME IInv, Fails
  PROVE  failures' \in 0..MaxFailures /\ failures' # 0
BY ReportFacts DEF Fails

\* A report comes to its next endpoint or its end, having passed only endpoints
\* that have a row, if it is said to be clean.
LEMMA Advance ==
  ASSUME IInv, NEW c \in Conns, work[c].at # "idle",
         NEW next \in Nat \ {0}, NEW clean \in BOOLEAN, Reaches(c, next, clean),
         UNCHANGED <<sweeps, agent, wires, left, request, scanAsked, overlapped, interrupted>>,
         row' \in Rows, row'.date = row.date,
         enabled' \cup hidden' \subseteq DOMAIN wellKnownPorts, enabled' \cap hidden' = {},
         Held \subseteq Held', ToSet(profiles) \subseteq ToSet(profiles'),
         failures' \in 0..MaxFailures,
         clean => \A i \in DOMAIN Endpoints(c) :
                    i < next => HasRow(Endpoints(c)[i], Held', ToSet(profiles'))
  PROVE  /\ TypeOK' /\ SweepsOK' /\ PositionOK' /\ OrderOK' /\ PersistedOK' /\ RequestOK'
         /\ \A d \in Conns \ {c} : work'[d] = work[d]
         /\ work'[c].at \in {"idle", "endpoint"}
<1>1. PICK k \in DOMAIN sweeps : k = work[c].sweep
  BY ReportFacts
<1>2. PICK n \in Nat : n = Len(Endpoints(c)) /\ DOMAIN Endpoints(c) = 1..n
  BY ReportEndpoints
<1>3. PICK w \in Stages :
        /\ work' = [work EXCEPT ![c] = w]
        /\ \/ /\ next \in 1..n /\ w.at = "endpoint" /\ w.sweep = k /\ w.next = next /\ w.clean = clean
              /\ complete' = complete
           \/ /\ next > n /\ w.at = "idle"
              /\ complete' = IF clean THEN complete \cup {k} ELSE complete
  <2>1. CASE next <= n
    <3>1. /\ work' = [work EXCEPT ![c] = [work[c] EXCEPT !.at = "endpoint", !.next = next, !.clean = clean]]
          /\ complete' = complete
      BY <1>2, <2>1 DEF Reaches, Goes
    <3>2. PICK w : w = [work[c] EXCEPT !.at = "endpoint", !.next = next, !.clean = clean]
      OBVIOUS
    <3>3. w \in Stages /\ w.at = "endpoint" /\ w.sweep = k /\ w.next = next /\ w.clean = clean
      BY <1>1, <3>2, ReportFacts DEF Stages
    <3>4. next \in 1..n
      BY <2>1
    <3>5. QED BY <3>1, <3>2, <3>3, <3>4
  <2>2. CASE ~(next <= n)
    <3>1. work' = [work EXCEPT ![c] = Idle] /\ complete' = IF clean THEN complete \cup {k} ELSE complete
      BY <1>1, <1>2, <2>2 DEF Reaches, Goes
    <3>2. Idle \in Stages /\ Idle.at = "idle"
      BY DEF Idle, Stages
    <3>3. next > n
      BY <2>2
    <3>4. QED BY <3>1, <3>2, <3>3
  <2>3. QED BY <2>1, <2>2
<1>4. /\ work' \in [Conns -> Stages] /\ work'[c] = w
      /\ \A d \in Conns \ {c} : work'[d] = work[d]
  BY <1>3, ReportFacts
<1>5. \A d \in Conns : work'[d].at # "idle" => work'[d].sweep = work[d].sweep /\ work[d].at # "idle"
  BY <1>1, <1>3, <1>4
<1>6. complete \subseteq complete' /\ complete' \subseteq DOMAIN sweeps
  BY <1>1, <1>3, ReportFacts
<1>7. OrderOK'
  BY TypeFacts DEF OrderOK, agent, wires
<1>8. TypeOK' /\ SweepsOK' /\ RequestOK'
  <2>1. \A d \in Conns : work'[d].at # "idle" => work'[d].sweep \in DOMAIN sweeps
    BY <1>5, ReportFacts
  <2>2. QED BY <1>4, <1>6, <2>1, ReportFrame, ReportFacts, TypeFacts DEF wires
<1>9. \A d \in Conns : work'[d].at # "idle" => Endpoints(d)' = Endpoints(d)
  BY <1>5 DEF Endpoints
<1>10. PositionOK'
  <2>1. SUFFICES ASSUME NEW d \in Conns
                 PROVE  /\ work'[d].at \in {"endpoint", "insert"} => work'[d].next \in DOMAIN Endpoints(d)'
                        /\ work'[d].at = "insert" => ~IsService(Endpoints(d)'[work'[d].next])
    BY DEF PositionOK
  <2>2. CASE d = c
    BY <1>2, <1>3, <1>4, <1>9, <2>2
  <2>3. CASE d # c
    BY <1>4, <1>9, <2>3, ReportFacts DEF PositionOK
  <2>4. QED BY <2>2, <2>3
<1>11. PersistedOK'
  <2>1. ASSUME NEW d \in Conns, work'[d].at \in {"endpoint", "insert"}, work'[d].clean,
               NEW i \in DOMAIN Endpoints(d)', i < work'[d].next
        PROVE  HasRow(Endpoints(d)'[i], Held', ToSet(profiles'))
    <3>1. Endpoints(d)' = Endpoints(d)
      BY <1>9, <2>1
    <3>2. CASE d = c
      BY <1>3, <1>4, <2>1, <3>1, <3>2
    <3>3. CASE d # c
      BY <1>4, <2>1, <3>1, <3>3, ReportFacts, RowsStay DEF PersistedOK
    <3>4. QED BY <3>2, <3>3
  <2>2. ASSUME NEW m \in complete', NEW e \in ToSet(sweeps'[m].endpoints)
        PROVE  HasRow(e, Held', ToSet(profiles'))
    <3>1. CASE m \in complete
      BY <2>2, <3>1, ReportFacts, RowsStay DEF PersistedOK
    <3>2. CASE m \notin complete
      <4>1. m = k /\ clean /\ next > n
        BY <1>3, <2>2, <3>2
      <4>2. \A i \in 1..n : i < next
        BY <4>1
      <4>3. PICK i \in DOMAIN Endpoints(c) : e = Endpoints(c)[i]
        BY <1>1, <2>2, <4>1, ReportEndpoints DEF ToSet
      <4>4. QED BY <1>2, <4>1, <4>2, <4>3
    <3>3. QED BY <3>1, <3>2
  <2>3. QED BY <2>1, <2>2 DEF PersistedOK
<1>12. QED BY <1>3, <1>4, <1>7, <1>8, <1>10, <1>11

\* Once the address is written the row stays whole until the next report.
LEMMA RowKept ==
  ASSUME IInv, NEW c \in Conns, work[c].at \in {"endpoint", "insert"}, work'[c].at # "address",
         \A d \in Conns \ {c} : work'[d] = work[d],
         UNCHANGED <<sweeps, row, overlapped, interrupted>>, failures' = failures \/ failures' # 0
  PROVE  RowOK'
<1>1. SUFFICES ASSUME Undisturbed'
               PROVE  /\ \A d, e \in Busy' : d = e
                      /\ \A d \in Busy' : work'[d].at = "address" => row'.date = work'[d].sweep
                      /\ (\A d \in Busy' : work'[d].at # "address") /\ ~interrupted' => AddressMatches'
  BY DEF RowOK
<1>2. Undisturbed
  BY <1>1 DEF Undisturbed
<1>3. \A d \in Busy : d = c
  BY <1>2, ReportFacts DEF RowOK, Busy
<1>4. Busy' \subseteq {c}
  BY <1>3 DEF Busy
<1>5. ~interrupted => AddressMatches
  BY <1>2, <1>3, ReportFacts DEF RowOK
<1>6. ~interrupted' => AddressMatches'
  BY <1>5 DEF AddressMatches
<1>7. QED BY <1>4, <1>6

\* A step that inserts no profile and does not prepare to.
LEMMA ProfilesKept ==
  ASSUME IInv, NEW c \in Conns, work'[c].at # "insert",
         \A d \in Conns \ {c} : work'[d] = work[d],
         UNCHANGED <<sweeps, profiles>>, overlapped' = FALSE => overlapped = FALSE,
         failures' = failures \/ failures' # 0
  PROVE  ProfilesOK'
<1>1. Undisturbed' => Undisturbed
  BY ReportFacts DEF Undisturbed, IInv, TypeOK
<1>2. \A d \in Conns : work'[d].at = "insert" => work[d].at = "insert" /\ SerialPort(d)' = SerialPort(d)
  BY DEF SerialPort, Endpoints
<1>3. QED BY <1>1, <1>2, ReportFacts DEF ProfilesOK

LEMMA UpdateAddressStep ==
  ASSUME IInv, NEW c \in Conns, UpdateAddress(c)
  PROVE  IInv'
<1>1. PICK k \in DOMAIN sweeps : k = work[c].sweep
  BY ReportFacts DEF UpdateAddress
<1>2. /\ work[c].at = "address"
      /\ UNCHANGED <<sweeps, agent, wires, left, enabled, profiles, request, scanAsked, hidden, overlapped, interrupted>>
  BY DEF UpdateAddress
<1>3. \/ /\ row' = IF sweeps[k].address = NoAddress THEN row ELSE [row EXCEPT !.address = sweeps[k].address]
         /\ Reaches(c, 1, work[c].clean) /\ failures' = failures
      \/ /\ Fails /\ Reaches(c, 1, FALSE) /\ row' = row
  BY <1>1 DEF UpdateAddress
<1>4. failures' \in 0..MaxFailures /\ (failures' = failures \/ failures' # 0)
  BY <1>3, ReportFacts, FailureCounted
<1>5. row' \in Rows /\ row'.date = row.date
  <2>1. sweeps[k].address \in Addresses
    BY DEF Addresses
  <2>2. QED BY <1>3, <2>1, ReportFacts DEF Rows
<1>6. PICK clean \in BOOLEAN : Reaches(c, 1, clean)
  <2>1. work[c].clean \in BOOLEAN
    BY ReportFacts DEF Stages
  <2>2. QED BY <1>3, <2>1
<1>7. \A i \in DOMAIN Endpoints(c) : ~(i < 1)
  BY <1>2, ReportEndpoints
<1>8. /\ TypeOK' /\ SweepsOK' /\ PositionOK' /\ OrderOK' /\ PersistedOK' /\ RequestOK'
      /\ \A d \in Conns \ {c} : work'[d] = work[d]
      /\ work'[c].at \in {"idle", "endpoint"}
  <2>1. enabled' \cup hidden' \subseteq DOMAIN wellKnownPorts /\ enabled' \cap hidden' = {} /\ Held \subseteq Held'
    BY <1>2, ReportFacts DEF Held
  <2>2. 1 \in Nat \ {0}
    OBVIOUS
  <2>3. work[c].at # "idle"
    BY <1>2
  <2>4. QED BY <1>2, <1>4, <1>5, <1>6, <1>7, <2>1, <2>2, <2>3, Advance
<1>9. RowOK'
  <2>1. SUFFICES ASSUME Undisturbed'
                 PROVE  Busy' \subseteq {c} /\ AddressMatches' /\ \A d \in Busy' : work'[d].at # "address"
    BY DEF RowOK
  <2>2. Undisturbed /\ failures' = 0
    BY <1>2, <1>4, <2>1 DEF Undisturbed
  <2>3. c \in Busy /\ \A d \in Busy : d = c
    BY <1>2, <2>2, ReportFacts DEF RowOK, Busy
  <2>4. Busy' \subseteq {c} /\ \A d \in Busy' : work'[d].at # "address"
    BY <1>8, <2>3 DEF Busy
  <2>5. row.date = k
    BY <1>1, <1>2, <2>2, <2>3, ReportFacts DEF RowOK
  <2>6. row' = IF sweeps[k].address = NoAddress THEN row ELSE [row EXCEPT !.address = sweeps[k].address]
    BY <1>3, <2>2, FailureCounted
  <2>7. AddressMatches'
    BY <1>2, <2>5, <2>6, ReportFacts DEF AddressMatches, Rows
  <2>8. QED BY <2>4, <2>7
<1>10. ProfilesOK'
  BY <1>2, <1>4, <1>8, ProfilesKept
<1>11. QED BY <1>8, <1>9, <1>10 DEF IInv

\* The endpoints a report had passed, and the one whose statement succeeds.
LEMMA PassedNext ==
  ASSUME IInv, NEW c \in Conns, work[c].at \in {"endpoint", "insert"}
  PROVE  /\ work[c].next \in DOMAIN Endpoints(c)
         /\ work[c].next + 1 \in Nat \ {0} /\ work[c].clean \in BOOLEAN
         /\ work[c].clean => \A i \in DOMAIN Endpoints(c) :
              i < work[c].next + 1 =>
                 HasRow(Endpoints(c)[i], Held, ToSet(profiles)) \/ i = work[c].next
<1>1. /\ work[c].next \in DOMAIN Endpoints(c)
      /\ work[c].clean => \A i \in DOMAIN Endpoints(c) :
           i < work[c].next => HasRow(Endpoints(c)[i], Held, ToSet(profiles))
  BY ReportFacts DEF PositionOK, PersistedOK
<1>2. work[c].next \in Nat /\ work[c].clean \in BOOLEAN
  BY ReportFacts DEF Stages
<1>3. \A i \in DOMAIN Endpoints(c) : i \in Nat
  BY ReportEndpoints
<1>4. \A i \in DOMAIN Endpoints(c) : i < work[c].next + 1 => i < work[c].next \/ i = work[c].next
  BY <1>2, <1>3
<1>5. QED BY <1>1, <1>2, <1>4

LEMMA UpsertEndpointStep ==
  ASSUME IInv, NEW c \in Conns, UpsertEndpoint(c)
  PROVE  IInv'
<1>1. /\ work[c].at = "endpoint" /\ IsService(Endpoints(c)[work[c].next])
      /\ UNCHANGED <<sweeps, agent, wires, left, row, profiles, request, scanAsked, overlapped, interrupted>>
  BY DEF UpsertEndpoint, AtService, IsService
<1>2. \/ /\ enabled' = enabled \cup {Port(c)} /\ hidden' = hidden \ {Port(c)}
         /\ NextEndpoint(c, TRUE) /\ failures' = failures
      \/ /\ Fails /\ NextEndpoint(c, FALSE) /\ enabled' = enabled /\ hidden' = hidden
  BY DEF UpsertEndpoint
<1>3. failures' \in 0..MaxFailures /\ (failures' = failures \/ failures' # 0)
  BY <1>2, ReportFacts, FailureCounted
<1>4. Port(c) \in DOMAIN wellKnownPorts /\ Port(c) = Endpoints(c)[work[c].next].port
  BY <1>1, PassedNext, ReportEndpoints DEF Port
<1>5. /\ enabled' \cup hidden' \subseteq DOMAIN wellKnownPorts /\ enabled' \cap hidden' = {} /\ Held \subseteq Held'
  BY <1>2, <1>4, ReportFacts DEF Held
<1>6. PICK clean \in BOOLEAN :
        /\ Reaches(c, work[c].next + 1, clean)
        /\ clean => work[c].clean /\ Port(c) \in Held'
  <2>1. CASE NextEndpoint(c, TRUE) /\ enabled' = enabled \cup {Port(c)}
    <3>1. (work[c].clean /\ TRUE) \in BOOLEAN /\ Port(c) \in Held'
      BY <2>1 DEF Held
    <3>2. QED BY <2>1, <3>1 DEF NextEndpoint
  <2>2. CASE NextEndpoint(c, FALSE)
    <3>1. (work[c].clean /\ FALSE) = FALSE
      OBVIOUS
    <3>2. QED BY <2>2, <3>1 DEF NextEndpoint
  <2>3. QED BY <1>2, <2>1, <2>2
<1>7. clean => \A i \in DOMAIN Endpoints(c) :
                 i < work[c].next + 1 => HasRow(Endpoints(c)[i], Held', ToSet(profiles'))
  <2>1. clean => HasRow(Endpoints(c)[work[c].next], Held', ToSet(profiles'))
    BY <1>1, <1>4, <1>6 DEF HasRow
  <2>2. QED BY <1>1, <1>5, <1>6, <2>1, PassedNext, RowsStay
<1>8. /\ TypeOK' /\ SweepsOK' /\ PositionOK' /\ OrderOK' /\ PersistedOK' /\ RequestOK'
      /\ \A d \in Conns \ {c} : work'[d] = work[d]
      /\ work'[c].at \in {"idle", "endpoint"}
  BY <1>1, <1>3, <1>5, <1>6, <1>7, PassedNext, ReportFacts, Advance
<1>9. RowOK' /\ ProfilesOK'
  BY <1>1, <1>3, <1>8, RowKept, ProfilesKept
<1>10. QED BY <1>8, <1>9 DEF IInv

LEMMA LookupProfileStep ==
  ASSUME IInv, NEW c \in Conns, LookupProfile(c)
  PROVE  IInv'
<1>1. /\ work[c].at = "endpoint" /\ ~IsService(Endpoints(c)[work[c].next])
      /\ UNCHANGED <<sweeps, agent, wires, left, tables, request, scanAsked, hidden, overlapped, interrupted>>
  BY DEF LookupProfile, AtSerial, IsService
<1>2. UNCHANGED <<row, enabled, profiles>> /\ Held' = Held
  BY <1>1 DEF tables, Held
<1>3. \/ SerialPort(c) \in ToSet(profiles) /\ NextEndpoint(c, TRUE) /\ failures' = failures
      \/ /\ Goes(c, [work[c] EXCEPT !.at = "insert"]) /\ complete' = complete
         /\ \/ SerialPort(c) \notin ToSet(profiles) /\ failures' = failures
            \/ Fails
  BY DEF LookupProfile
<1>4. failures' \in 0..MaxFailures /\ (failures' = failures \/ failures' # 0)
  BY <1>3, ReportFacts, FailureCounted
<1>5. CASE SerialPort(c) \in ToSet(profiles) /\ NextEndpoint(c, TRUE)
  <2>1. PICK clean \in BOOLEAN : Reaches(c, work[c].next + 1, clean) /\ (clean => work[c].clean)
    <3>1. (work[c].clean /\ TRUE) \in BOOLEAN
      OBVIOUS
    <3>2. QED BY <1>5, <3>1 DEF NextEndpoint
  <2>2. clean => \A i \in DOMAIN Endpoints(c) :
                   i < work[c].next + 1 => HasRow(Endpoints(c)[i], Held', ToSet(profiles'))
    <3>1. HasRow(Endpoints(c)[work[c].next], Held, ToSet(profiles))
      BY <1>1, <1>5 DEF HasRow, SerialPort
    <3>2. QED BY <1>1, <1>2, <2>1, <3>1, PassedNext
  <2>3. /\ TypeOK' /\ SweepsOK' /\ PositionOK' /\ OrderOK' /\ PersistedOK' /\ RequestOK'
        /\ \A d \in Conns \ {c} : work'[d] = work[d]
        /\ work'[c].at \in {"idle", "endpoint"}
    BY <1>1, <1>2, <1>4, <2>1, <2>2, PassedNext, ReportFacts, Advance
  <2>4. RowOK' /\ ProfilesOK'
    BY <1>1, <1>2, <1>4, <2>3, RowKept, ProfilesKept
  <2>5. QED BY <2>3, <2>4 DEF IInv
<1>6. CASE /\ Goes(c, [work[c] EXCEPT !.at = "insert"]) /\ complete' = complete
           /\ SerialPort(c) \notin ToSet(profiles) \/ Fails
  <2>1. PICK w \in Stages :
          /\ work' = [work EXCEPT ![c] = w]
          /\ w.at = "insert" /\ w.sweep = work[c].sweep /\ w.next = work[c].next /\ w.clean = work[c].clean
    <3>1. PICK w : w = [work[c] EXCEPT !.at = "insert"]
      OBVIOUS
    <3>2. /\ w \in Stages /\ w.at = "insert"
          /\ w.sweep = work[c].sweep /\ w.next = work[c].next /\ w.clean = work[c].clean
      BY <3>1, ReportFacts DEF Stages
    <3>3. QED BY <1>6, <3>1, <3>2 DEF Goes
  <2>2. /\ work' \in [Conns -> Stages] /\ work'[c] = w
        /\ \A d \in Conns \ {c} : work'[d] = work[d]
    BY <2>1, ReportFacts
  <2>3. \A d \in Conns : /\ work'[d].sweep = work[d].sweep /\ work'[d].next = work[d].next
                         /\ work'[d].clean = work[d].clean
                         /\ work'[d].at \in {"endpoint", "insert"} <=> work[d].at \in {"endpoint", "insert"}
                         /\ work'[d].at # "idle" => work[d].at # "idle"
    BY <1>1, <2>1, <2>2
  <2>4. \A d \in Conns : Endpoints(d)' = Endpoints(d) /\ SerialPort(d)' = SerialPort(d)
    BY <1>1, <2>3 DEF Endpoints, SerialPort
  <2>5. \A d \in Conns : work'[d].at # "idle" => work'[d].sweep \in DOMAIN sweeps
    BY <2>3, ReportFacts
  <2>6. OrderOK'
    BY <1>1, <1>2, TypeFacts DEF OrderOK, agent, wires
  <2>7. TypeOK' /\ SweepsOK' /\ RequestOK'
    BY <1>1, <1>2, <1>4, <1>6, <2>2, <2>5, <2>6, ReportFrame, ReportFacts, TypeFacts DEF wires
  <2>8. PositionOK'
    <3>1. SUFFICES ASSUME NEW d \in Conns
                   PROVE  /\ work'[d].at \in {"endpoint", "insert"} => work'[d].next \in DOMAIN Endpoints(d)'
                          /\ work'[d].at = "insert" => ~IsService(Endpoints(d)'[work'[d].next])
      BY DEF PositionOK
    <3>2. work'[d].at \in {"endpoint", "insert"} => work'[d].next \in DOMAIN Endpoints(d)'
      BY <2>3, <2>4, ReportFacts DEF PositionOK
    <3>3. work'[d].at = "insert" => ~IsService(Endpoints(d)'[work'[d].next])
      <4>1. CASE d = c
        BY <1>1, <2>3, <2>4, <4>1
      <4>2. CASE d # c
        BY <2>2, <2>4, <4>2, ReportFacts DEF PositionOK
      <4>3. QED BY <4>1, <4>2
    <3>4. QED BY <3>2, <3>3
  <2>9. PersistedOK'
    BY <1>1, <1>2, <1>6, <2>3, <2>4, ReportFacts DEF PersistedOK
  <2>10. RowOK'
    <3>1. work'[c].at # "address"
      BY <2>1, <2>2
    <3>2. QED BY <1>1, <1>2, <1>4, <2>2, <3>1, RowKept
  <2>11. ProfilesOK'
    <3>1. profiles' \in Seq(Serials)
      BY <1>2, ReportFacts DEF ProfilesOK
    <3>2. ASSUME Undisturbed'
          PROVE  /\ \A i, j \in DOMAIN profiles' : profiles'[i] = profiles'[j] => i = j
                 /\ \A d \in Conns : work'[d].at = "insert" => SerialPort(d)' \notin ToSet(profiles')
      <4>1. failures' = 0 /\ Undisturbed
        BY <1>1, <1>4, <3>2 DEF Undisturbed
      <4>2. SerialPort(c) \notin ToSet(profiles)
        BY <1>6, <4>1, FailureCounted
      <4>3. ASSUME NEW d \in Conns, work'[d].at = "insert"
            PROVE  SerialPort(d)' \notin ToSet(profiles')
        <5>1. CASE d = c
          BY <1>2, <2>4, <4>2, <5>1
        <5>2. CASE d # c
          BY <1>2, <2>2, <2>4, <4>1, <4>3, <5>2, ReportFacts DEF ProfilesOK
        <5>3. QED BY <5>1, <5>2
      <4>4. QED BY <1>2, <4>1, <4>3, ReportFacts DEF ProfilesOK
    <3>3. QED BY <3>1, <3>2 DEF ProfilesOK
  <2>12. QED BY <2>6, <2>7, <2>8, <2>9, <2>10, <2>11 DEF IInv
<1>7. QED BY <1>3, <1>5, <1>6

LEMMA InsertProfileStep ==
  ASSUME IInv, NEW c \in Conns, InsertProfile(c)
  PROVE  IInv'
<1>1. /\ work[c].at = "insert"
      /\ UNCHANGED <<sweeps, agent, wires, left, row, enabled, request, scanAsked, hidden, overlapped, interrupted>>
  BY DEF InsertProfile
<1>2. ~IsService(Endpoints(c)[work[c].next])
  BY <1>1, ReportFacts DEF PositionOK
<1>3. \/ profiles' = Append(profiles, SerialPort(c)) /\ NextEndpoint(c, TRUE) /\ failures' = failures
      \/ Fails /\ NextEndpoint(c, FALSE) /\ profiles' = profiles
  BY DEF InsertProfile
<1>4. failures' \in 0..MaxFailures /\ (failures' = failures \/ failures' # 0)
  BY <1>3, ReportFacts, FailureCounted
<1>5. /\ ToSet(profiles) \subseteq ToSet(profiles')
      /\ profiles' = Append(profiles, SerialPort(c)) => SerialPort(c) \in ToSet(profiles')
  <2>1. CASE profiles' = Append(profiles, SerialPort(c))
    <3>1. profiles \in Seq(Serials) /\ SerialPort(c) \in Serials
      BY <1>1, <1>2, PassedNext, ReportEndpoints, ReportFacts DEF SerialPort, ProfilesOK
    <3>2. DOMAIN profiles = 1..Len(profiles) /\ Len(profiles) \in Nat
      BY <3>1, Elements
    <3>3. /\ DOMAIN profiles' = 1..(Len(profiles) + 1)
          /\ \A i \in DOMAIN profiles : profiles'[i] = profiles[i]
          /\ profiles'[Len(profiles) + 1] = SerialPort(c)
      BY <2>1, <3>1, <3>2, AppendProperties, Elements
    <3>4. /\ \A i \in DOMAIN profiles : i \in DOMAIN profiles' /\ profiles[i] = profiles'[i]
          /\ Len(profiles) + 1 \in DOMAIN profiles'
      BY <3>2, <3>3
    <3>5. QED BY <3>3, <3>4 DEF ToSet
  <2>2. CASE profiles' = profiles /\ Fails
    <3>1. profiles' = Append(profiles, SerialPort(c)) => SerialPort(c) \in ToSet(profiles')
      BY <2>1, <2>2
    <3>2. QED BY <2>2, <3>1
  <2>3. QED BY <1>3, <2>1, <2>2
<1>6. PICK clean \in BOOLEAN :
        /\ Reaches(c, work[c].next + 1, clean)
        /\ clean => work[c].clean /\ SerialPort(c) \in ToSet(profiles')
  <2>1. CASE NextEndpoint(c, TRUE) /\ profiles' = Append(profiles, SerialPort(c))
    <3>1. (work[c].clean /\ TRUE) \in BOOLEAN
      OBVIOUS
    <3>2. QED BY <1>5, <2>1, <3>1 DEF NextEndpoint
  <2>2. CASE NextEndpoint(c, FALSE)
    <3>1. (work[c].clean /\ FALSE) = FALSE
      OBVIOUS
    <3>2. QED BY <2>2, <3>1 DEF NextEndpoint
  <2>3. QED BY <1>3, <2>1, <2>2
<1>7. Held' = Held
  BY <1>1 DEF Held
<1>8. clean => \A i \in DOMAIN Endpoints(c) :
                 i < work[c].next + 1 => HasRow(Endpoints(c)[i], Held', ToSet(profiles'))
  <2>1. clean => HasRow(Endpoints(c)[work[c].next], Held', ToSet(profiles'))
    BY <1>2, <1>6 DEF HasRow, SerialPort
  <2>2. QED BY <1>1, <1>5, <1>6, <1>7, <2>1, PassedNext, RowsStay
<1>9. /\ TypeOK' /\ SweepsOK' /\ PositionOK' /\ OrderOK' /\ PersistedOK' /\ RequestOK'
      /\ \A d \in Conns \ {c} : work'[d] = work[d]
      /\ work'[c].at \in {"idle", "endpoint"}
  <2>1. enabled' \cup hidden' \subseteq DOMAIN wellKnownPorts /\ enabled' \cap hidden' = {} /\ Held \subseteq Held'
    BY <1>1, ReportFacts DEF Held
  <2>2. row' \in Rows
    BY <1>1, ReportFacts
  <2>3. QED BY <1>1, <1>4, <1>5, <1>6, <1>8, <2>1, <2>2, PassedNext, ReportFacts, Advance
<1>10. RowOK'
  BY <1>1, <1>4, <1>9, RowKept
<1>11. ProfilesOK'
  <2>1. CASE profiles' = profiles
    BY <1>1, <1>4, <1>9, <2>1, ProfilesKept
  <2>2. CASE profiles' = Append(profiles, SerialPort(c)) /\ failures' = failures
    <3>1. SerialPort(c) \in Serials
      BY <1>1, <1>2, PassedNext, ReportEndpoints DEF SerialPort
    <3>2. PICK n \in Nat :
            /\ DOMAIN profiles = 1..n /\ DOMAIN profiles' = 1..(n + 1)
            /\ profiles' \in Seq(Serials)
            /\ \A i \in 1..n : profiles'[i] = profiles[i]
            /\ profiles'[n + 1] = SerialPort(c)
      <4>1. profiles \in Seq(Serials) /\ DOMAIN profiles = 1..Len(profiles) /\ Len(profiles) \in Nat
        BY ReportFacts, Elements DEF ProfilesOK
      <4>2. /\ profiles' \in Seq(Serials) /\ Len(profiles') = Len(profiles) + 1
            /\ \A i \in 1..Len(profiles) : profiles'[i] = profiles[i]
            /\ profiles'[Len(profiles) + 1] = SerialPort(c)
        BY <2>2, <3>1, <4>1, AppendProperties
      <4>3. DOMAIN profiles' = 1..(Len(profiles) + 1)
        BY <4>2, Elements
      <4>4. PICK n \in Nat : n = Len(profiles)
        BY <4>1
      <4>5. QED BY <4>1, <4>2, <4>3, <4>4
    <3>3. ASSUME Undisturbed'
          PROVE  /\ \A i, j \in DOMAIN profiles' : profiles'[i] = profiles'[j] => i = j
                 /\ \A d \in Conns : work'[d].at # "insert"
      <4>1. Undisturbed
        BY <1>1, <2>2, <3>3 DEF Undisturbed
      <4>2. SerialPort(c) \notin ToSet(profiles)
        BY <1>1, <4>1, ReportFacts DEF ProfilesOK
      <4>3. \A i \in 1..n : profiles'[i] # SerialPort(c)
        BY <3>2, <4>2 DEF ToSet
      <4>4. ASSUME NEW i \in DOMAIN profiles', NEW j \in DOMAIN profiles', profiles'[i] = profiles'[j]
            PROVE  i = j
        <5>1. (i \in 1..n \/ i = n + 1) /\ (j \in 1..n \/ j = n + 1)
          BY <3>2
        <5>2. CASE i \in 1..n /\ j \in 1..n
          BY <3>2, <4>1, <4>4, <5>2, ReportFacts DEF ProfilesOK
        <5>3. QED BY <3>2, <4>3, <4>4, <5>1, <5>2
      <4>5. ASSUME NEW d \in Conns PROVE work'[d].at # "insert"
        <5>1. CASE d = c
          BY <1>9, <5>1
        <5>2. CASE d # c
          <6>1. c \in Busy /\ \A e \in Busy : e = c
            BY <1>1, <4>1, ReportFacts DEF RowOK, Busy
          <6>2. QED BY <1>9, <5>2, <6>1 DEF Busy
        <5>3. QED BY <5>1, <5>2
      <4>6. QED BY <4>4, <4>5
    <3>4. QED BY <3>2, <3>3 DEF ProfilesOK
  <2>3. QED BY <1>3, <2>1, <2>2
<1>12. QED BY <1>9, <1>10, <1>11 DEF IInv

\* A report is taken from the front of its connection: it is the oldest there,
\* and of the newest connection only if the row is not newer.
LEMMA BeginReportStep ==
  ASSUME IInv, NEW c \in Conns, BeginReport(c)
  PROVE  IInv'
<1>1. /\ work[c].at = "idle" /\ stream[c] # <<>> /\ stream' = [stream EXCEPT ![c] = Tail(@)]
      /\ overlapped' = (overlapped \/ \E x \in Conns : work[x].at # "idle")
      /\ UNCHANGED <<sweeps, agent, syncs, left, enabled, profiles, request, complete, hidden>>
  BY DEF BeginReport
<1>2. PICK n \in Nat :
        /\ DOMAIN stream[c] = 1..(n + 1) /\ DOMAIN stream'[c] = 1..n
        /\ stream'[c] \in Seq(Sweeps)
        /\ \A i \in 1..n : stream'[c][i] = stream[c][i + 1]
        /\ Head(stream[c]) = stream[c][1]
  <2>1. PICK s \in Seq(Sweeps) : s = stream[c]
    BY TypeFacts
  <2>2. PICK t : t = Tail(s)
    OBVIOUS
  <2>3. t = stream'[c]
    BY <1>1, <2>1, <2>2, TypeFacts
  <2>4. t \in Seq(Sweeps) /\ Len(t) = Len(s) - 1 /\ \A i \in 1..Len(t) : t[i] = s[i + 1]
    BY <1>1, <2>1, <2>2, HeadTailProperties
  <2>5. /\ DOMAIN s = 1..Len(s) /\ Len(s) \in Nat
        /\ DOMAIN t = 1..Len(t) /\ Len(t) \in Nat
    BY <2>1, <2>4, Elements
  <2>6. PICK n \in Nat : n = Len(t)
    BY <2>5
  <2>7. Len(s) = n + 1
    BY <2>4, <2>5, <2>6
  <2>8. DOMAIN s = 1..(n + 1) /\ DOMAIN t = 1..n /\ \A i \in 1..n : t[i] = s[i + 1]
    BY <2>4, <2>5, <2>6, <2>7
  <2>9. Head(s) = s[1]
    OBVIOUS
  <2>10. QED BY <2>1, <2>3, <2>4, <2>8, <2>9
<1>3. PICK k \in DOMAIN sweeps : k = stream[c][1]
  <2>1. 1 \in DOMAIN stream[c]
    BY <1>2
  <2>2. QED BY <2>1, TypeFacts
<1>4. k \in Sweeps /\ k \in Nat /\ 1 \in DOMAIN stream[c]
  BY <1>2, Numbers
<1>5. \/ /\ row' = [row EXCEPT !.date = k]
         /\ scanAsked' = [scanAsked EXCEPT !.served = @ \/ scanAsked.sweep \in 1..k]
         /\ work' = [work EXCEPT ![c] = [Idle EXCEPT !.at = "address", !.sweep = k]]
         /\ failures' = failures /\ interrupted' = FALSE
      \/ /\ Fails
         /\ work' = [work EXCEPT ![c] = [[Idle EXCEPT !.at = "address", !.sweep = k] EXCEPT !.clean = FALSE]]
         /\ row' = row /\ scanAsked' = scanAsked /\ interrupted' = interrupted
      \/ Fails /\ row' = row /\ scanAsked' = scanAsked /\ interrupted' = interrupted /\ work' = work
  BY <1>2, <1>3 DEF BeginReport, Dates, Goes
<1>6. /\ stream' \in [Conns -> Seq(Sweeps)]
      /\ \A d \in Conns : d # c => stream'[d] = stream[d]
  <2>1. Tail(stream[c]) = stream'[c]
    BY <1>1, TypeFacts
  <2>2. QED BY <1>1, <1>2, <2>1, TypeFacts
<1>7. /\ \A d \in Conns : \A i \in DOMAIN stream'[d] :
           IF d = c THEN i + 1 \in DOMAIN stream[d] /\ stream'[d][i] = stream[d][i + 1]
                    ELSE i \in DOMAIN stream[d] /\ stream'[d][i] = stream[d][i]
      /\ \A d \in Conns : \A i \in DOMAIN stream'[d] : i \in Nat /\ i > 0
  <2>1. ASSUME NEW d \in Conns, NEW i \in DOMAIN stream'[d]
        PROVE  /\ IF d = c THEN i + 1 \in DOMAIN stream[d] /\ stream'[d][i] = stream[d][i + 1]
                           ELSE i \in DOMAIN stream[d] /\ stream'[d][i] = stream[d][i]
               /\ i \in Nat /\ i > 0
    <3>1. CASE d = c
      BY <1>2, <2>1, <3>1
    <3>2. CASE d # c
      <4>1. DOMAIN stream[d] = 1..Len(stream[d]) /\ Len(stream[d]) \in Nat
        BY TypeFacts, Elements
      <4>2. QED BY <1>6, <2>1, <3>2, <4>1
    <3>3. QED BY <3>1, <3>2
  <2>2. QED BY <2>1
<1>8. \A d \in Conns : \A i \in DOMAIN stream'[d] : stream'[d][i] \in DOMAIN sweeps
  <2>1. SUFFICES ASSUME NEW d \in Conns, NEW i \in DOMAIN stream'[d] PROVE stream'[d][i] \in DOMAIN sweeps
    OBVIOUS
  <2>2. CASE d = c
    BY <1>7, <2>2, TypeFacts
  <2>3. CASE d # c
    BY <1>7, <2>3, TypeFacts
  <2>4. QED BY <2>2, <2>3
<1>9. row'.date \in {k, row.date} /\ row' \in Rows /\ row'.date \in DOMAIN sweeps \cup {Never}
  <2>1. CASE row' = [row EXCEPT !.date = k]
    BY <1>4, <2>1, ReportFacts DEF Rows
  <2>2. CASE row' = row
    BY <2>2, ReportFacts
  <2>3. QED BY <1>5, <2>1, <2>2
<1>10. OrderOK'
  <2>1. \A d \in Conns : d > conn => stream'[d] = <<>>
    <3>1. ASSUME NEW d \in Conns, d > conn PROVE stream'[d] = <<>>
      <4>1. stream[d] = <<>>
        BY <3>1, TypeFacts DEF OrderOK
      <4>2. d # c
        BY <1>1, <4>1
      <4>3. QED BY <1>6, <4>1, <4>2
    <3>2. QED BY <3>1
  <2>2. ASSUME NEW d \in Conns, NEW e \in Conns, NEW i \in DOMAIN stream'[d], NEW j \in DOMAIN stream'[e],
               d < e \/ (d = e /\ i < j)
        PROVE  stream'[d][i] <= stream'[e][j]
    <3>1. PICK x \in DOMAIN stream[d] : stream'[d][i] = stream[d][x] /\ x = IF d = c THEN i + 1 ELSE i
      BY <1>7
    <3>2. PICK y \in DOMAIN stream[e] : stream'[e][j] = stream[e][y] /\ y = IF e = c THEN j + 1 ELSE j
      BY <1>7
    <3>3. i \in Nat /\ j \in Nat
      BY <1>7
    <3>4. d < e \/ (d = e /\ x < y)
      BY <2>2, <3>1, <3>2, <3>3
    <3>5. QED BY <3>1, <3>2, <3>4, TypeFacts DEF OrderOK
  <2>3. \A d \in Conns : \A i \in DOMAIN stream'[d], j \in DOMAIN outbox : stream'[d][i] <= outbox[j]
    <3>1. SUFFICES ASSUME NEW d \in Conns, NEW i \in DOMAIN stream'[d], NEW j \in DOMAIN outbox
                   PROVE  stream'[d][i] <= outbox[j]
      OBVIOUS
    <3>2. PICK x \in DOMAIN stream[d] : stream'[d][i] = stream[d][x]
      BY <1>7
    <3>3. QED BY <3>2, TypeFacts DEF OrderOK
  <2>4. \A j \in DOMAIN outbox : row'.date <= outbox[j]
    BY <1>3, <1>4, <1>9, TypeFacts DEF OrderOK
  <2>5. \A d \in Conns : \A j \in DOMAIN stream'[d] : d = conn => row'.date <= stream'[d][j]
    <3>1. SUFFICES ASSUME NEW d \in Conns, NEW j \in DOMAIN stream'[d], d = conn
                   PROVE  row'.date <= stream'[d][j]
      OBVIOUS
    <3>2. PICK y \in DOMAIN stream[d] : stream'[d][j] = stream[d][y] /\ (d = c => 1 < y)
      <4>1. j \in Nat /\ j > 0 /\ (j > 0 => 1 < j + 1)
        BY <1>7
      <4>2. CASE d = c
        BY <1>7, <4>1, <4>2
      <4>3. CASE d # c
        BY <1>7, <4>3
      <4>4. QED BY <4>2, <4>3
    <3>3. CASE row'.date = row.date
      BY <3>1, <3>2, <3>3, TypeFacts DEF OrderOK
    <3>4. CASE row'.date = k
      <4>1. CASE c = d
        BY <1>3, <1>4, <3>2, <3>4, <4>1, TypeFacts DEF OrderOK
      <4>2. CASE c < d
        BY <1>3, <1>4, <3>2, <3>4, <4>2, TypeFacts DEF OrderOK
      <4>3. ~(c > d)
        BY <1>1, <3>1, TypeFacts DEF OrderOK
      <4>4. c < d \/ c = d \/ c > d
        BY DEF Conns
      <4>5. QED BY <4>1, <4>2, <4>3, <4>4
    <3>5. QED BY <1>9, <3>3, <3>4
  <2>6. conn' = conn /\ outbox' = outbox
    BY <1>1 DEF agent
  <2>7. /\ \A i, j \in DOMAIN outbox : i < j => outbox[i] <= outbox[j]
        /\ \A d, e \in Conns : \A i \in DOMAIN stream'[d], j \in DOMAIN stream'[e] :
             d < e \/ (d = e /\ i < j) => stream'[d][i] <= stream'[e][j]
    BY <2>2, TypeFacts DEF OrderOK
  <2>8. QED BY <2>1, <2>3, <2>4, <2>5, <2>6, <2>7 DEF OrderOK
<1>11. PICK w \in Stages :
         /\ work' = [work EXCEPT ![c] = w]
         /\ \/ w.at = "address" /\ w.sweep = k
            \/ w.at = "idle" /\ Fails
  <2>1. PICK a : a = [Idle EXCEPT !.at = "address", !.sweep = k]
    OBVIOUS
  <2>2. a = [at |-> "address", sweep |-> k, next |-> 0, clean |-> TRUE]
    BY <2>1 DEF Idle
  <2>3. a \in Stages /\ a.at = "address" /\ a.sweep = k
    BY <1>4, <2>2 DEF Stages
  <2>4. PICK b : b = [a EXCEPT !.clean = FALSE]
    OBVIOUS
  <2>5. b \in Stages /\ b.at = "address" /\ b.sweep = k
    BY <2>3, <2>4 DEF Stages
  <2>6. \/ work' = [work EXCEPT ![c] = a] \/ work' = [work EXCEPT ![c] = b]
        \/ work' = work /\ Fails
    BY <1>5, <2>1, <2>4
  <2>7. work[c] \in Stages /\ (work' = work => work' = [work EXCEPT ![c] = work[c]])
    BY ReportFacts
  <2>8. QED BY <1>1, <2>3, <2>5, <2>6, <2>7
<1>12. /\ work' \in [Conns -> Stages] /\ work'[c] = w
       /\ \A d \in Conns \ {c} : work'[d] = work[d]
       /\ \A d \in Conns : work'[d].at # "idle" => work'[d].sweep \in DOMAIN sweeps
       /\ work'[c].at \in {"idle", "address"}
  <2>1. work' \in [Conns -> Stages] /\ work'[c] = w /\ \A d \in Conns \ {c} : work'[d] = work[d]
    BY <1>11, ReportFacts
  <2>2. \A d \in Conns : work'[d].at # "idle" => work'[d].sweep \in DOMAIN sweeps
    BY <1>3, <1>11, <2>1, ReportFacts
  <2>3. QED BY <1>11, <2>1, <2>2
<1>13. failures' \in 0..MaxFailures /\ (failures' = failures \/ failures' # 0)
  BY <1>5, ReportFacts, FailureCounted
<1>14. TypeOK' /\ SweepsOK' /\ RequestOK'
  <2>1. /\ scanAsked' \in [conn : 0..MaxConns, sweep : Sweeps \cup {0}, served : BOOLEAN, refused : BOOLEAN]
        /\ scanAsked'.sweep \in DOMAIN sweeps \cup {0}
    <3>1. CASE scanAsked' = scanAsked
      BY <3>1, TypeFacts
    <3>2. CASE scanAsked' = [scanAsked EXCEPT !.served = @ \/ scanAsked.sweep \in 1..k]
      <4>1. PICK served \in BOOLEAN : served = (scanAsked.served \/ scanAsked.sweep \in 1..k)
        OBVIOUS
      <4>2. scanAsked' = [scanAsked EXCEPT !.served = served]
        BY <3>2, <4>1
      <4>3. QED BY <4>2, TypeFacts
    <3>3. QED BY <1>5, <3>1, <3>2
  <2>2. overlapped' \in BOOLEAN /\ interrupted' \in BOOLEAN
    BY <1>1, <1>5, ReportFacts
  <2>3. QED BY <1>1, <1>6, <1>8, <1>9, <1>12, <1>13, <2>1, <2>2, ReportFrame, ReportFacts
<1>15. \A d \in Conns : work'[d].at \in {"endpoint", "insert"} => d # c /\ work'[d] = work[d]
  BY <1>12
<1>16. \A d \in Conns \ {c} : Endpoints(d)' = Endpoints(d)
  BY <1>1, <1>12 DEF Endpoints
<1>17. PositionOK' /\ PersistedOK'
  <2>1. PositionOK'
    BY <1>15, <1>16, ReportFacts DEF PositionOK
  <2>2. Held' = Held
    BY <1>1 DEF Held
  <2>3. PersistedOK'
    BY <1>1, <1>15, <1>16, <2>2, ReportFacts DEF PersistedOK
  <2>4. QED BY <2>1, <2>3
<1>18. RowOK'
  <2>1. SUFFICES ASSUME Undisturbed'
                 PROVE  Busy' = {c} /\ work'[c].at = "address" /\ row'.date = work'[c].sweep
    BY DEF RowOK
  <2>2. ~overlapped' /\ failures' = 0
    BY <2>1 DEF Undisturbed
  <2>3. \A d \in Conns : work[d].at = "idle"
    BY <1>1, <2>2
  <2>4. row' = [row EXCEPT !.date = k] /\ ~Fails
    BY <1>5, <2>2, FailureCounted
  <2>5. work'[c].at = "address" /\ work'[c].sweep = k
    BY <1>11, <1>12, <2>4
  <2>6. row'.date = k
    BY <2>4, ReportFacts DEF Rows
  <2>7. Busy' = {c}
    BY <1>12, <2>3, <2>5 DEF Busy
  <2>8. QED BY <2>5, <2>6, <2>7
<1>19. ProfilesOK'
  <2>1. overlapped' = FALSE => overlapped = FALSE
    BY <1>1, ReportFacts
  <2>2. work'[c].at # "insert"
    BY <1>12
  <2>3. QED BY <1>1, <1>12, <1>13, <2>1, <2>2, ProfilesKept
<1>20. QED BY <1>10, <1>14, <1>17, <1>18, <1>19 DEF IInv

-----------------------------------------------------------------------------
(* A restart of the API.                                                    *)

\* What was being persisted stays as it is; only the row's address can be of
\* an older sweep than its date then.
LEMMA RestartStep ==
  ASSUME IInv, Restart
  PROVE  IInv'
<1>1. /\ linkUp' = FALSE /\ left' = 1..conn
      /\ stream' = [c \in Conns |-> <<>>] /\ syncs' = [c \in Conns |-> 0]
      /\ interrupted' = (interrupted \/ \E c \in Conns : work[c].at = "address")
      /\ request' = (IF request.at = "answered" THEN request ELSE NoRequest)
      /\ UNCHANGED <<sweeps, conn, outbox, row, enabled, profiles,
                     scanAsked, complete, hidden, overlapped, failures>>
  BY DEF Restart, tables
<1>2. work' \in [Conns -> Stages] /\ \A c \in Conns : work'[c].at = "idle" /\ stream'[c] = <<>>
  <2>1. Idle \in Stages /\ Idle.at = "idle"
    BY DEF Idle, Stages
  <2>2. QED BY <1>1, <2>1 DEF Restart
<1>3. request'.at \in {"none", "answered"} /\ (request'.at = "answered" => request' = request)
  BY <1>1 DEF NoRequest
<1>4. DOMAIN <<>> = {} /\ <<>> \in Seq(Sweeps)
  BY EmptySeq
<1>5. TypeOK'
  <2>1. stream' \in [Conns -> Seq(Sweeps)] /\ syncs' \in [Conns -> Nat]
    BY <1>1, <1>4
  <2>2. Addresses' = Addresses
    BY <1>1 DEF Addresses
  <2>3. QED BY <1>1, <1>2, <1>3, <2>1, <2>2 DEF IInv, TypeOK, Stages
<1>6. SweepsOK' /\ OrderOK'
  <2>1. SweepsOK'
    BY <1>1, <1>2, <1>4 DEF IInv, SweepsOK
  <2>2. OrderOK'
    BY <1>1, <1>2, <1>4 DEF IInv, OrderOK
  <2>3. QED BY <2>1, <2>2
<1>7. PositionOK' /\ ProfilesOK' /\ PersistedOK'
  <2>1. PositionOK'
    BY <1>2 DEF PositionOK
  <2>2. ProfilesOK'
    BY <1>1, <1>2 DEF IInv, ProfilesOK, Undisturbed
  <2>3. PersistedOK'
    BY <1>1, <1>2 DEF IInv, PersistedOK, Held
  <2>4. QED BY <2>1, <2>2, <2>3
<1>8. RowOK'
  <2>1. SUFFICES ASSUME Undisturbed', ~interrupted' PROVE AddressMatches' /\ Busy' = {}
    BY <1>2 DEF RowOK, Busy
  <2>2. Undisturbed /\ ~interrupted /\ \A c \in Busy : work[c].at # "address"
    BY <1>1, <2>1 DEF Undisturbed, Busy
  <2>3. AddressMatches
    BY <2>2 DEF IInv, RowOK
  <2>4. QED BY <1>1, <1>2, <2>3 DEF AddressMatches, Busy
<1>9. RequestOK'
  BY <1>1, <1>3 DEF IInv, RequestOK
<1>10. QED BY <1>5, <1>6, <1>7, <1>8, <1>9 DEF IInv

-----------------------------------------------------------------------------
(* The invariant, and what follows from it.                                 *)

LEMMA InitOK ==
  ASSUME Init
  PROVE  IInv
<1>1. <<>> \in Seq(Sweeps) /\ <<>> \in Seq(Snapshots) /\ <<>> \in Seq(Serials) /\ DOMAIN <<>> = {} /\ Len(<<>>) = 0
  BY EmptySeq
<1>2. /\ 0 \in 0..MaxConns /\ 0 \in 0..MaxFailures /\ 0 <= MaxScans /\ 0 <= SendBuffer
  BY InventoryAssumption
<1>3. Idle \in Stages /\ Idle.at = "idle"
  BY DEF Idle, Stages
<1>4. /\ sweeps = <<>> /\ conn = 0 /\ linkUp = FALSE /\ outbox = <<>>
      /\ stream = [c \in Conns |-> <<>>] /\ syncs = [c \in Conns |-> 0]
      /\ left = {} /\ work = [c \in Conns |-> Idle]
      /\ row = [date |-> Never, address |-> NoAddress]
      /\ enabled = {} /\ profiles = <<>> /\ request.at = "none"
      /\ scanAsked = [conn |-> 0, sweep |-> 0, served |-> FALSE, refused |-> FALSE]
      /\ complete = {} /\ hidden = {} /\ overlapped = FALSE /\ interrupted = FALSE /\ failures = 0
  BY DEF Init, NoRequest, NotAsked
<1>5. row \in Rows /\ row.date = Never
  BY <1>4 DEF Rows, Addresses
<1>6. \A c \in Conns : stream[c] = <<>> /\ work[c].at = "idle"
  BY <1>3, <1>4
<1>7. TypeOK
  <2>1. scanAsked \in [conn : 0..MaxConns, sweep : Sweeps \cup {0}, served : BOOLEAN, refused : BOOLEAN]
    BY <1>2, <1>4
  <2>2. stream \in [Conns -> Seq(Sweeps)] /\ syncs \in [Conns -> Nat] /\ work \in [Conns -> Stages]
    BY <1>1, <1>3, <1>4
  <2>3. row \in [date : Sweeps \cup {Never}, address : Addresses]
    BY <1>5 DEF Rows
  <2>4. work \in [Conns -> [at : {"idle", "address", "endpoint", "insert"},
                            sweep : Sweeps \cup {0}, next : Nat, clean : BOOLEAN]]
    BY <2>2 DEF Stages
  <2>5. QED BY <1>1, <1>2, <1>4, <2>1, <2>2, <2>3, <2>4 DEF TypeOK
<1>8. SweepsOK /\ PositionOK
  BY <1>1, <1>4, <1>5, <1>6 DEF SweepsOK, PositionOK
<1>9. OrderOK
  BY <1>1, <1>4, <1>6 DEF OrderOK
<1>10. RowOK
  BY <1>5, <1>6 DEF RowOK, Busy, AddressMatches
<1>11. ProfilesOK /\ PersistedOK /\ RequestOK
  BY <1>1, <1>4, <1>6 DEF ProfilesOK, PersistedOK, RequestOK
<1>12. QED BY <1>7, <1>8, <1>9, <1>10, <1>11 DEF IInv

LEMMA StutterStep ==
  ASSUME IInv, UNCHANGED vars
  PROVE  IInv'
<1>1. UNCHANGED <<sweeps, work, tables, request, complete, hidden, overlapped, interrupted, failures>>
  BY DEF vars, readers, observed
<1>2. UNCHANGED <<conn, linkUp, outbox, stream, syncs, left, scanAsked>>
  BY DEF vars, agent, wires, readers, observed
<1>3. OrderOK'
  BY <1>1, <1>2, TypeFacts DEF OrderOK, tables
<1>4. QED BY <1>1, <1>2, <1>3, TypeFacts, MovesFrame

LEMMA Invariance == Spec => []IInv
<1>1. Init => IInv
  BY InitOK
<1>2. IInv /\ [Next]_vars => IInv'
  <2>1. SUFFICES ASSUME IInv, [Next]_vars PROVE IInv'
    OBVIOUS
  <2>2. CASE Scan
    BY <2>1, <2>2, ScanStep
  <2>3. CASE Connect \/ Redial
    BY <2>1, <2>3, ConnectStep
  <2>4. CASE Transmit
    BY <2>1, <2>4, TransmitStep
  <2>5. CASE handleSyncInventory
    BY <2>1, <2>5, SyncStep
  <2>6. CASE LinkLost
    BY <2>1, <2>6, LinkLostStep
  <2>7. ASSUME NEW c \in Conns, Read(c) PROVE IInv'
    <3>1. CASE BeginReport(c)
      BY <2>1, <3>1, BeginReportStep
    <3>2. CASE UpdateAddress(c)
      BY <2>1, <3>2, UpdateAddressStep
    <3>3. CASE UpsertEndpoint(c)
      BY <2>1, <3>3, UpsertEndpointStep
    <3>4. CASE LookupProfile(c)
      BY <2>1, <3>4, LookupProfileStep
    <3>5. CASE InsertProfile(c)
      BY <2>1, <3>5, InsertProfileStep
    <3>6. CASE Leave(c)
      BY <2>1, <3>6, LeaveStep
    <3>7. QED BY <2>7, <3>1, <3>2, <3>3, <3>4, <3>5, <3>6 DEF Read
  <2>8. CASE ScanDevice
    BY <2>1, <2>8, ScanDeviceStep
  <2>9. CASE FetchDevice \/ FetchEndpoints \/ FetchSerialPorts \/ GetInventoryFails
    BY <2>1, <2>9, RequestStep
  <2>10. ASSUME NEW p \in BridgePorts, DisableEndpoint(p) PROVE IInv'
    BY <2>1, <2>10, DisableStep
  <2>11. CASE UNCHANGED vars
    BY <2>1, <2>11, StutterStep
  <2>12. CASE Restart
    BY <2>1, <2>12, RestartStep
  <2>13. QED
    BY <2>1, <2>2, <2>3, <2>4, <2>5, <2>6, <2>7, <2>8, <2>9, <2>10, <2>11, <2>12 DEF Next
<1>3. QED BY <1>1, <1>2, PTL DEF Spec

\* Every variable keeps its type; the ports of a device are well-known ones and
\* each is either shown or disabled by a stop.
THEOREM TypeCorrect == Spec => []TypeOK
<1>1. IInv => TypeOK
  BY DEF IInv
<1>2. QED BY <1>1, Invariance, PTL

\* An answer dated by a report that persisted without an error shows every
\* service of that sweep that no stop has disabled, and every serial port if it
\* could read them, whatever the agent's connections, the other reports, the
\* stops and restarts of the API do between its reads.
THEOREM AnswersMatchDates == Spec => []AnswerMatchesDate
<1>1. IInv => AnswerMatchesDate
  BY DEF IInv, RequestOK, AnswerMatchesDate, Services, SerialPorts, IsService
<1>2. QED BY <1>1, Invariance, PTL

\* Without a failed statement, without two reports being persisted at a time,
\* and with the report that dated the device row not cut short before the
\* address by the end of the API, date and address are of one sweep.
THEOREM RowsAreWhole == Spec => []RowWhole
<1>1. IInv => RowWhole
  <2>1. SUFFICES ASSUME IInv, ~(failures > 0), ~overlapped, ~interrupted, row.date # Never,
                        ~\E c \in Conns : work[c].at = "address"
                 PROVE  sweeps[row.date].address \in {NoAddress, row.address}
    BY DEF RowWhole
  <2>2. failures = 0
    BY <2>1, ReportFacts
  <2>3. Undisturbed /\ \A c \in Busy : work[c].at # "address"
    BY <2>1, <2>2 DEF Undisturbed, Busy
  <2>4. AddressMatches
    BY <2>1, <2>3, ReportFacts DEF RowOK
  <2>5. QED BY <2>1, <2>4 DEF AddressMatches
<1>2. QED BY <1>1, Invariance, PTL

\* The elements of a sequence that holds each once are as many as it is long.
LEMMA DistinctCounts ==
  ASSUME NEW S, NEW s \in Seq(S), \A i, j \in DOMAIN s : s[i] = s[j] => i = j
  PROVE  Cardinality(ToSet(s)) = Len(s)
<1>1. PICK n \in Nat : n = Len(s) /\ DOMAIN s = 1..n
  BY Elements
<1>2. PICK T : T = ToSet(s)
  OBVIOUS
<1>3. s \in [1..n -> T]
  <2>1. s \in [1..n -> S]
    BY <1>1, LenProperties
  <2>2. \A i \in 1..n : s[i] \in T
    BY <1>1, <1>2 DEF ToSet
  <2>3. QED BY <2>1, <2>2
<1>4. s \in Injection(1..n, T)
  BY <1>1, <1>3 DEF Injection, IsInjective
<1>5. s \in Surjection(1..n, T)
  BY <1>1, <1>2, <1>3 DEF Surjection, ToSet
<1>6. s \in Bijection(1..n, T)
  BY <1>4, <1>5 DEF Bijection
<1>7. Cardinality(T) = n
  BY <1>6, FS_CountingElements DEF ExistsBijection
<1>8. QED BY <1>1, <1>2, <1>7

\* Undisturbed, a serial port has at most one bridge profile.
THEOREM ProfilesOnce == Spec => []ProfileOnce
<1>1. IInv => ProfileOnce
  <2>1. SUFFICES ASSUME IInv, ~overlapped, ~(failures > 0)
                 PROVE  Cardinality(ToSet(profiles)) = Len(profiles)
    BY DEF ProfileOnce
  <2>2. Undisturbed
    BY <2>1, ReportFacts DEF Undisturbed
  <2>3. QED BY <2>1, <2>2, ReportFacts, DistinctCounts DEF ProfilesOK
<1>2. QED BY <1>1, Invariance, PTL

\* Only a report of a connection that has been replaced sets the date back.
LEMMA DateStep ==
  ASSUME IInv, [Next]_vars, row'.date < row.date
  PROVE  \E c \in Conns : c < conn /\ work'[c] # work[c]
<1>1. row'.date # row.date /\ row.date \in Nat
  BY Numbers
<1>2. PICK c \in Conns : Read(c)
  BY <1>1 DEF Next, vars, tables, Scan, Connect, Redial, Transmit, handleSyncInventory, LinkLost,
     Restart, ScanDevice, FetchDevice, FetchEndpoints, FetchSerialPorts, GetInventoryFails, DisableEndpoint
<1>3. BeginReport(c)
  <2>1. ~UpsertEndpoint(c) /\ ~InsertProfile(c)
    BY <1>1 DEF UpsertEndpoint, InsertProfile
  <2>2. ~LookupProfile(c) /\ ~Leave(c)
    BY <1>1 DEF LookupProfile, Leave, tables
  <2>3. ASSUME UpdateAddress(c) PROVE row'.date = row.date
    <3>1. PICK a : row' = row \/ row' = [row EXCEPT !.address = a]
      BY <2>3 DEF UpdateAddress
    <3>2. QED BY <3>1, ReportFacts DEF Rows
  <2>4. QED BY <1>1, <1>2, <2>1, <2>2, <2>3 DEF Read
<1>4. PICK k : k = Head(stream[c]) /\ stream[c] # <<>> /\ work[c].at = "idle"
  BY <1>3 DEF BeginReport
<1>5. row'.date = k /\ work'[c].at = "address"
  <2>1. /\ row' = [row EXCEPT !.date = k]
        /\ work' = [work EXCEPT ![c] = [Idle EXCEPT !.at = "address", !.sweep = k]]
    BY <1>1, <1>3, <1>4 DEF BeginReport, Dates, Goes
  <2>2. [Idle EXCEPT !.at = "address", !.sweep = k].at = "address"
    BY DEF Idle
  <2>3. QED BY <2>1, <2>2, ReportFacts DEF Rows
<1>6. k = stream[c][1] /\ 1 \in DOMAIN stream[c]
  <2>1. stream[c] \in Seq(Sweeps) /\ DOMAIN stream[c] = 1..Len(stream[c]) /\ Len(stream[c]) \in Nat
    BY TypeFacts, Elements
  <2>2. Len(stream[c]) # 0
    BY <1>4, <2>1, EmptySeq
  <2>3. QED BY <1>4, <2>1, <2>2
<1>7. ~(c > conn)
  BY <1>4, TypeFacts DEF OrderOK
<1>8. c # conn
  <2>1. c = conn => row.date <= k
    BY <1>6, TypeFacts DEF OrderOK
  <2>2. k \in Nat
    BY <1>6, Numbers
  <2>3. QED BY <1>1, <1>5, <2>1, <2>2
<1>9. c < conn
  BY <1>7, <1>8, Numbers DEF Conns
<1>10. work'[c] # work[c]
  BY <1>4, <1>5
<1>11. QED BY <1>9, <1>10

\* The date of the inventory goes back only at the hands of a connection that
\* has been replaced and still had a report to persist.
THEOREM DatesInOrder == Spec => ReportsInOrder
<1>1. IInv /\ [Next]_vars => [row'.date < row.date => \E c \in Conns : c < conn /\ work'[c] # work[c]]_vars
  BY DateStep
<1>2. QED BY <1>1, Invariance, PTL DEF Spec, ReportsInOrder
=============================================================================
