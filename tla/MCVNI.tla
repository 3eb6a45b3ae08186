-------------------------------- MODULE MCVNI --------------------------------
(* Sets of VNIs the API asks for: one VNI; or the same VNI with another VRF,  *)
(* VTEP address and port, its old VRF being that of a second VNI.             *)
EXTENDS VNI

CONSTANTS red, blue, i1, i2

V(r, v, vtep, port) ==
    [vrf |-> r, vni |-> v, hostIP |-> i1, nsIP |-> i2, vtep |-> vtep, port |-> port]

MCChange == {{V(red, 100, i1, 4789)}, {V(blue, 100, i2, 4790), V(red, 200, i1, 4789)}}

MCOne == {{V(red, 100, i1, 4789)}}

=============================================================================
