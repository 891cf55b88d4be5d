------------------------------ MODULE MCPortal ------------------------------
(* Portal on small instances: two bridges on one serial port; the port of    *)
(* the first is one an inventory report lists as well.                       *)
EXTENDS Portal, TLC

CONSTANTS b1, b2, p1, p2, tty

MCBridgePort == [b \in Bridges |-> IF b = b1 THEN p1 ELSE p2]
MCSerialPort == [b \in Bridges |-> tty]

\* Stop requests are interchangeable.
Symmetry == Permutations(Stops)
=============================================================================
