---------------------------- MODULE MCNodeIndex ----------------------------
(* Instances of NodeIndex for TLC.                                         *)
EXTENDS NodeIndex, TLC

MCSymmetry == Permutations(Node)

=============================================================================
