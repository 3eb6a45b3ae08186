---------------------------- MODULE MCReconciler ----------------------------
(* Instances of Reconciler for TLC.                                        *)
EXTENDS Reconciler

CONSTANTS u1, u2, v1, p1, p2, f1

=============================================================================
