------------------------------ MODULE HostScan -------------------------------
(***************************************************************************)
(* What one sweep of the inventory scanner makes of the host it runs on:   *)
(* apps/agent/internal/inventory/scanner.go.                               *)
(*                                                                         *)
(* A host is a record:                                                     *)
(*   tcp, tcp6   the two files under /proc/net, [readable, entries];       *)
(*   serial      the device paths the globs yield, in their order;         *)
(*   ifaces      net.Interfaces(), in its order;                           *)
(*   dialed      the address a UDP dial to the control plane would use;    *)
(*   route       the name of the interface of the default route.           *)
(* An interface is [name, lower, class, up, loopback, addrs]: lower is the *)
(* name in lower case, class says which of the name prefixes it has.  An   *)
(* address is [class, id].  The operator's interface is [name, lower].     *)
(***************************************************************************)
EXTENDS Integers, Sequences, SequencesExt

CONSTANT NoAddress   \* the empty string

EndpointTypeWeb     == "WEB"
EndpointTypeProgram == "PROGRAM"
EndpointTypeBridge  == "BRIDGE"

WebPorts     == {80, 443, 1880, 9090}
ProgramPorts == {502, 22, 44818, 2202, 9999}

wellKnownPorts ==
  [p \in WebPorts \cup ProgramPorts |->
     IF p \in WebPorts THEN EndpointTypeWeb ELSE EndpointTypeProgram]

-----------------------------------------------------------------------------
(* Listening ports and endpoints.                                           *)

\* Only entries in state 0A (LISTEN) count.
parseProcNetTCP(file) == {e.port : e \in {x \in file.entries : x.state = "LISTEN"}}

\* A file that cannot be read is skipped; a port in both is listed once.
openTCPPorts(host) ==
  UNION {parseProcNetTCP(f) : f \in {x \in {host.tcp, host.tcp6} : x.readable}}

\* The elements of a finite set of numbers in ascending order.
Ascending(S) ==
  CHOOSE s \in [1..Cardinality(S) -> S] :
    \A i, j \in 1..Cardinality(S) : i < j => s[i] < s[j]

\* Mutant: a port that is not well known is listed too, as a program.
buildInventoryUnfiltered(ports, serialPorts) ==
  LET listed == Ascending(ports)
  IN  [i \in 1..Len(listed) |->
         [type |-> IF listed[i] \in WebPorts THEN EndpointTypeWeb ELSE EndpointTypeProgram,
          port |-> listed[i]]]
      \o [i \in 1..Len(serialPorts) |-> [type |-> EndpointTypeBridge, serial |-> serialPorts[i]]]

\* The well-known ports in ascending order, then the serial devices.
buildInventory(ports, serialPorts) ==
  LET known == Ascending(ports \cap DOMAIN wellKnownPorts)
  IN  [i \in 1..Len(known) |-> [type |-> wellKnownPorts[known[i]], port |-> known[i]]]
      \o [i \in 1..Len(serialPorts) |-> [type |-> EndpointTypeBridge, serial |-> serialPorts[i]]]

-----------------------------------------------------------------------------
(* The address.                                                             *)

IsIPv4(a) == a.class # "ipv6"

firstOf(s) == IF s = <<>> THEN NoAddress ELSE Head(s)

\* The first IPv4 address of the named interface that is not 127/8.
interfaceIPv4(ifaces, name) ==
  LET named  == SelectSeq(ifaces, LAMBDA i : i.name = name)
      usable == SelectSeq(IF named = <<>> THEN <<>> ELSE Head(named).addrs,
                          LAMBDA a : IsIPv4(a) /\ a.class # "loopback")
  IN  firstOf(usable)

\* Mutant: the penalty of a virtual interface is smaller than a private
\* address is worth.
scoreInterfaceAddressLenient(iface, a, preferredInterface) ==
    (IF iface.lower = preferredInterface.lower THEN 100 ELSE 0)
  + (IF iface.class = "lan" THEN 35 ELSE 0)
  - (IF iface.class = "virtual" THEN 50 ELSE 0)
  + (IF a.class = "private" THEN 60 ELSE 0)
  + (IF a.class \in {"private", "public"} THEN 10 ELSE 0)
  - (IF a.class = "linklocal" THEN 40 ELSE 0)

scoreInterfaceAddress(iface, a, preferredInterface) ==
    (IF iface.lower = preferredInterface.lower THEN 100 ELSE 0)
  + (IF iface.class = "lan" THEN 35 ELSE 0)
  - (IF iface.class = "virtual" THEN 80 ELSE 0)
  + (IF a.class = "private" THEN 60 ELSE 0)
  + (IF a.class \in {"private", "public"} THEN 10 ELSE 0)
  - (IF a.class = "linklocal" THEN 40 ELSE 0)

\* The pairs of an interface that is up and not the loopback with one of its
\* addresses, in the order of the two loops.
candidates(ifaces) ==
  LET of(i) == [k \in 1..Len(i.addrs) |-> [iface |-> i, address |-> i.addrs[k]]]
      upTo[n \in 0..Len(ifaces)] ==
        IF n = 0 THEN <<>>
        ELSE upTo[n - 1] \o (IF ifaces[n].up /\ ~ifaces[n].loopback THEN of(ifaces[n]) ELSE <<>>)
  IN  upTo[Len(ifaces)]

\* An IPv6 address is passed over; a later candidate replaces an earlier one
\* only with a higher score, and none wins with a score of zero or less.
better(best, c, preferredInterface) ==
  LET score == scoreInterfaceAddress(c.iface, c.address, preferredInterface)
  IN  IF IsIPv4(c.address) /\ score > best.score
      THEN [address |-> c.address, score |-> score]
      ELSE best

bestAddress(ifaces, preferredInterface) ==
  LET found == candidates(ifaces)
      best[n \in 0..Len(found)] ==
        IF n = 0 THEN [address |-> NoAddress, score |-> 0]
        ELSE better(best[n - 1], found[n], preferredInterface)
  IN  best[Len(found)].address

\* The operator's address, the operator's interface, the route to the control
\* plane, the default route, the scores: the first that yields an address.
LocalIP(host, override, preferredInterface) ==
  firstOf(SelectSeq(
    << override,
       interfaceIPv4(host.ifaces, preferredInterface.name),
       host.dialed,
       interfaceIPv4(host.ifaces, host.route),
       bestAddress(host.ifaces, preferredInterface) >>,
    LAMBDA a : a # NoAddress))

\* Scanner.scan: what the sweep caches, but for its date.
scan(host, override, preferredInterface) ==
  [endpoints |-> buildInventory(openTCPPorts(host), host.serial),
   address   |-> LocalIP(host, override, preferredInterface)]

-----------------------------------------------------------------------------
(* What the enumeration of addresses promises.                              *)

AddressClasses == {"private", "public", "linklocal", "loopback", "ipv6"}

\* The addresses of the host, each with the interface that has it.
Addressed(ifaces) == UNION {{<<i, a>> : a \in ToSet(i.addrs)} : i \in ToSet(ifaces)}

Wanted(i, a) ==
  i.up /\ ~i.loopback /\ i.class # "virtual" /\ a.class \in {"private", "public"}

\* A private address is worth more than a LAN interface.
Rank(i, a) == (IF a.class = "private" THEN 2 ELSE 0) + (IF i.class = "lan" THEN 1 ELSE 0)

\* An address is found exactly when an interface that is up, not the loopback
\* and not virtual has a private or public one, and then one of the highest
\* rank.
AddressSound(ifaces, preferredInterface) ==
  LET best   == bestAddress(ifaces, preferredInterface)
      wanted == {w \in Addressed(ifaces) : Wanted(w[1], w[2])}
  IN  IF wanted = {} THEN best = NoAddress
      ELSE \E w \in wanted :
             /\ w[2] = best
             /\ \A v \in wanted : Rank(v[1], v[2]) <= Rank(w[1], w[2])
=============================================================================
