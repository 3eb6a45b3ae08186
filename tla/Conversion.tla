----------------------------- MODULE Conversion -----------------------------
(***************************************************************************)
(* From the API objects to FRR's configuration and to the parameters of    *)
(* the host's network: internal/conversion, with the functions of the      *)
(* templates (internal/frr/config.go).  Durations are milliseconds.        *)
(***************************************************************************)
EXTENDS Ipam, IPFamily

CONSTANT Word    \* uint64 is a number modulo Word

ASSUME WordAssumption == Word \in Nat \ {0}

\* Whole seconds, towards zero; as uint64.
Seconds(d) == IF d >= 0 THEN d \div 1000 ELSE -((-d) \div 1000)
Uint(n) == n % Word

\* Fault: the hold time is rounded, not cut off.
RoundedTimers(ht, ka) ==
    IF (ht = None) # (ka = None) THEN Error
    ELSE IF ht = None THEN [hold |-> None, keepalive |-> None]
    ELSE IF (Seconds(ht + 500) # 0 /\ Seconds(ht + 500) < 3) \/ ka > ht THEN Error
    ELSE [hold |-> Uint(Seconds(ht)), keepalive |-> Uint(Seconds(ka))]

ParseTimers(ht, ka) ==
    IF (ht = None) # (ka = None) THEN Error
    ELSE IF ht = None THEN [hold |-> None, keepalive |-> None]
    ELSE IF (Seconds(ht) # 0 /\ Seconds(ht) < 3) \/ ka > ht THEN Error
    ELSE [hold |-> Uint(Seconds(ht)), keepalive |-> Uint(Seconds(ka))]

NeighborToFRR(n) ==
    LET timers == ParseTimers(n.holdTime, n.keepaliveTime)
    IN  IF ForAddresses(<<n.address>>) = Error \/ n.asn = 0 \/ timers = Error THEN Error
        ELSE [addr |-> n.address, asn |-> n.asn, family |-> ForAddresses(<<n.address>>),
              multihop |-> n.multihop, hold |-> timers.hold, keepalive |-> timers.keepalive,
              connect |-> IF n.connectTime = None THEN None ELSE Uint(Seconds(n.connectTime))]

ActivateNeighborFor(family, neighborFamily) == neighborFamily = family

MustDisableConnectedCheck(family, myASN, asn, multihop) ==
    family = "ipv6" /\ myASN # asn /\ ~multihop

\* What the templates write for a neighbour; timers only when both are set.
Session(n, myASN) ==
    [timers    |-> IF n.hold # None /\ n.keepalive # None THEN <<n.keepalive, n.hold>> ELSE None,
     connect   |-> n.connect,
     multihop  |-> n.multihop,
     unchecked |-> MustDisableConnectedCheck(n.family, myASN, n.asn, n.multihop),
     unicast   |-> {f \in {"ipv4", "ipv6"} : ActivateNeighborFor(f, n.family)}]

-----------------------------------------------------------------------------
\* Fault: FRR peers with its own side of the veth.
PeersWithItself(vni, i) ==
    LET veths == VethIPs(vni.pool, i)
    IN  IF veths = None THEN Error
        ELSE [vrf |-> vni.vrf, vni |-> vni.vni, neighbor |-> veths.pe, advertise |-> {veths.pe}]

VniToFRR(vni, i) ==
    LET veths == VethIPs(vni.pool, i)
    IN  IF veths = None THEN Error
        ELSE [vrf |-> vni.vrf, vni |-> vni.vni, neighbor |-> veths.host, advertise |-> {veths.host}]

\* The first error of a list, or the list of results.
EachOf(Op(_), s) ==
    LET res == [i \in DOMAIN s |-> Op(s[i])]
    IN  IF \E i \in DOMAIN s : res[i] = Error THEN Error ELSE res

APItoFRR(i, underlays, vnis) ==
    LET vtep      == VTEPIp(underlays[1].pool, i)
        neighbors == EachOf(NeighborToFRR, underlays[1].neighbors)
        configs   == EachOf(LAMBDA v : VniToFRR(v, i), vnis)
    IN  IF Len(underlays) # 1 \/ vnis = <<>> THEN Error
        ELSE IF vtep = None \/ neighbors = Error \/ configs = Error THEN Error
        ELSE [asn |-> underlays[1].asn, vtep |-> vtep, neighbors |-> neighbors, vnis |-> configs]

\* No underlay, or no VNI, is no error here.
NoParams == [nic |-> None, vtep |-> None, vnis |-> <<>>]

APItoHostConfig(i, underlays, vnis) ==
    LET vtep == VTEPIp(underlays[1].pool, i)
        Params(v) == LET veths == VethIPs(v.pool, i)
                     IN  IF veths = None THEN Error
                         ELSE [vrf |-> v.vrf, vni |-> v.vni, vtep |-> vtep,
                               host |-> veths.host, pe |-> veths.pe]
        params == EachOf(Params, vnis)
    IN  IF Len(underlays) > 1 THEN Error
        ELSE IF underlays = <<>> \/ vnis = <<>> THEN NoParams
        ELSE IF vtep = None \/ params = Error THEN Error
        ELSE [nic |-> underlays[1].nic, vtep |-> vtep, vnis |-> params]

=============================================================================
