------------------------------ MODULE MCCodecs ------------------------------
(* Inputs of Codecs for TLC: durations around zero, one and three seconds,  *)
(* the bounds of pools, and JSON objects with up to three keys.             *)
EXTENDS Codecs

CONSTANTS a4, b4, a6, b6, noIP, red, blue, nic

Durations == {-5000, -1000, -500, 0, 500, 999, 1000, 1500, 2999, 3000, 3500, 9000}

MCNeighbor ==
    [address : {a4, a6, noIP}, asn : {0, 64512}, multihop : BOOLEAN,
     holdTime : Durations \cup {None}, keepaliveTime : Durations \cup {None}, connectTime : {None, 0, 1500}]

Peer(addr, ht, ka) == [address |-> addr, asn |-> 64512, multihop |-> FALSE,
                       holdTime |-> ht, keepaliveTime |-> ka, connectTime |-> None]
AnUnderlay == [nic : {nic}, asn : {64512}, pool : 1..3,
               neighbors : {<<>>, <<Peer(a4, None, None)>>, <<Peer(a4, 3000, 1000), Peer(a6, 2000, 1000)>>}]
AVNI == [vrf : {red, blue}, vni : {100}, pool : 1..4]

MCUnderlays == BoundedSeq(AnUnderlay, 2)
MCVNIs == BoundedSeq(AVNI, 2)
MCIndex == 0..3
MCAddresses == BoundedSeq({a4, b4, a6, b6, noIP}, 3)

Counters == [sent : 0..1, accepted : {0, 2}]
APeer == [state : {"Established", "Active"}, remoteAS : {64512}, families : [{"ipv4", "evpn"} -> Counters]]
MCPeers == UNION {[S -> APeer] : S \in {{}, {a4}, {noIP}, {a4, a6}, {a4, noIP}}}

Hop == {[ip |-> a4, scope |-> "global"], [ip |-> a6, scope |-> "global"],
        [ip |-> a6, scope |-> "link-local"], [ip |-> noIP, scope |-> "global"]}
Path(n) == [localPref : {100, 200}, nexthops : BoundedSeq(Hop, n)]
MCRoutes ==
    [{<<a4, 24>>} -> BoundedSeq(Path(2), 2)]
    \cup UNION {[S -> BoundedSeq(Path(1), 1)] : S \in SUBSET {<<a4, 24>>, <<a4, 16>>, <<b4, 24>>, <<noIP, 24>>}}

MCVRFNames == SUBSET (1..4)

=============================================================================
