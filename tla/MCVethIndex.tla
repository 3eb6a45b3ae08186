---------------------------- MODULE MCVethIndex ----------------------------
(* Instances of VethIndex for TLC: hosts that have had two to four links    *)
(* when the pod has two; the test's two VNIs on the smallest of them.       *)
EXTENDS VethIndex

CONSTANTS red, blue, green, c1, c2

MCStart == [n \in {Host, Pod} |-> IF n = Host THEN {2, 3, 4} ELSE {2}]
MCSmall == [n \in {Host, Pod} |-> {2}]

=============================================================================
