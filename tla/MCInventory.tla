---------------------------- MODULE MCInventory -----------------------------
(* Inventory on a small instance, and the enumeration of interfaces over     *)
(* every list of two interfaces with at most two addresses each.             *)
EXTENDS Inventory

NoPreference == [name |-> "", lower |-> ""]

Address(class, id) == [class |-> class, id |-> id]

Interface(name, class, addrs) ==
  [name |-> name, lower |-> name, class |-> class, up |-> TRUE, loopback |-> name = "lo",
   addrs |-> addrs]

Listening(port) == [readable |-> TRUE, entries |-> {[port |-> port, state |-> "LISTEN"]}]
Unreadable == [readable |-> FALSE, entries |-> {}]

Eth0  == Interface("eth0", "lan", <<Address("ipv6", 1), Address("private", 2)>>)
Wlan0 == Interface("wlan0", "lan", <<Address("private", 3)>>)
Lo    == Interface("lo", "other", <<Address("loopback", 1), Address("ipv6", 5)>>)
Veth  == Interface("veth1", "virtual", <<Address("private", 4)>>)

\* On the LAN; moved to another network, without its web server; cut off, with
\* a container's interface alone and nothing to report.
MCHosts ==
  { [tcp |-> [readable |-> TRUE,
             entries |-> {[port |-> p, state |-> "LISTEN"] : p \in {80, 5432}}],
     tcp6 |-> Listening(80), serial |-> <<"ttyUSB0">>,
     ifaces |-> <<Lo, Veth, Eth0>>, dialed |-> NoAddress, route |-> "eth0"],
    [tcp |-> [readable |-> TRUE, entries |-> {[port |-> 80, state |-> "ESTABLISHED"]}],
     tcp6 |-> Listening(502), serial |-> <<>>,
     ifaces |-> <<Lo, Veth, Wlan0>>, dialed |-> NoAddress, route |-> ""],
    [tcp |-> Listening(5432), tcp6 |-> Unreadable, serial |-> <<>>,
     ifaces |-> <<Lo, Veth>>, dialed |-> NoAddress, route |-> ""] }

-----------------------------------------------------------------------------
AddressLists(i, classes) ==
  {<<>>} \cup {<<Address(x, <<i, 1>>)>> : x \in classes}
  \cup {<<Address(x, <<i, 1>>), Address(y, <<i, 2>>)>> : x, y \in classes}

Interfaces(i) ==
  {[name |-> "", lower |-> "other", class |-> class, up |-> up, loopback |-> FALSE, addrs |-> addrs] :
     class \in {"lan", "virtual", "other"}, up \in BOOLEAN,
     addrs \in AddressLists(i, AddressClasses \ {"loopback"})}
  \cup
  {[name |-> "", lower |-> "lo", class |-> "other", up |-> up, loopback |-> TRUE, addrs |-> addrs] :
     up \in BOOLEAN, addrs \in AddressLists(i, {"loopback", "private", "ipv6"})}

MCInterfaceLists ==
  {<<i, j>> : i \in Interfaces(1), j \in Interfaces(2)} \cup {host.ifaces : host \in MCHosts}
=============================================================================
