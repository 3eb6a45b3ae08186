------------------------------ MODULE MCNetNS ------------------------------
(* Instance of NetNS for TLC.                                              *)
EXTENDS NetNS

CONSTANTS g1, g2, t1, t2, t3, pod, tmp

=============================================================================
