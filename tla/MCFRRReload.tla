---------------------------- MODULE MCFRRReload ----------------------------
(* Instances of FRRReload for TLC: two acceptable configurations and one   *)
(* that FRR rejects.                                                       *)
EXTENDS FRRReload, TLC

CONSTANTS blue, green, bad, r1, r2, r3

=============================================================================
