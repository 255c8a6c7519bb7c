------------------------------ MODULE MCProbes ------------------------------
(* Probes with two interfaces, an alias of the first, a table of one       *)
(* bucket that grows, and words and counters that wrap after a few bytes   *)
(* and ticks.                                                              *)
EXTENDS Probes

CONSTANTS eth0, eth0_1, wlan0
FewIfaces == {eth0, wlan0}
OneAlias == {eth0_1}
ThatAlias == [name \in OneAlias |-> eth0]
FewPorts == {0, 1, 3}
=============================================================================
