----------------------------- MODULE MCUnderlay -----------------------------
(* Two interfaces, one physical with two addresses and one virtual.         *)
EXTENDS Underlay, TLC

CONSTANTS eth1, eth2, a1, a2, a3

MCNicAddr == [n \in Nic |-> IF n = eth1 THEN {a1, a2} ELSE {a3}]
=============================================================================
