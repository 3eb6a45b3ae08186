----------------------------- MODULE VtyshParse -----------------------------
(***************************************************************************)
(* internal/frr/parse.go: what vtysh prints, as JSON, to the neighbours,   *)
(* routes and VRFs it is about.  A JSON object is a function on its keys,  *)
(* which Go visits in any order: a parser is the set of its outcomes.      *)
(* A prefix is a pair of an address and a length.                          *)
(***************************************************************************)
EXTENDS Integers, IPFamily, SequencesExt

Established == "Established"

Total(infos, field) == SumFunction([f \in DOMAIN infos |-> infos[f][field]])

\* show bgp neighbor <address>.
ParseNeighbour(res) ==
    IF Cardinality(DOMAIN res) # 1 \/ \E k \in DOMAIN res : ~ParseIP(k) THEN {Error}
    ELSE {[ip        |-> k,
           connected |-> res[k].state = Established,
           remoteAS  |-> res[k].remoteAS,
           sent      |-> Total(res[k].families, "sent"),
           received  |-> Total(res[k].families, "accepted")] : k \in DOMAIN res}

\* show bgp neighbor: the same, translated once more, for each of them.
ParseNeighbours(res) ==
    LET Parsed(k) == [ip        |-> k,
                      connected |-> res[k].state = Established,
                      remoteAS  |-> res[k].remoteAS,
                      sent      |-> SumFunction([f \in DOMAIN res[k].families |-> res[k].families[f].sent]),
                      received  |-> SumFunction([f \in DOMAIN res[k].families |-> res[k].families[f].accepted])]
    IN  IF \E k \in DOMAIN res : ~ParseIP(k) THEN {Error}
        ELSE {[i \in DOMAIN o |-> Parsed(o[i])] : o \in SetToSeqs(DOMAIN res)}

-----------------------------------------------------------------------------
Skipped(h) == ~To4(h.ip) /\ h.scope = "link-local"

\* Fault: next hops are not compared with those already there.
AddHopAlways(hops, h) == IF Skipped(h) THEN hops ELSE Append(hops, h.ip)

AddHop(hops, h) == IF Skipped(h) \/ Contains(hops, h.ip) THEN hops ELSE Append(hops, h.ip)

\* The paths to one destination: the last one gives the preference.
RouteTo(k, paths) ==
    [dest      |-> k,
     localPref |-> IF paths = <<>> THEN 0 ELSE Last(paths).localPref,
     nextHops  |-> FoldLeft(AddHop, <<>>, FlattenSeq([i \in DOMAIN paths |-> paths[i].nexthops]))]

BadHop(paths) == \E i \in DOMAIN paths : \E j \in DOMAIN paths[i].nexthops : ~ParseIP(paths[i].nexthops[j].ip)

Store(res, a, r) == [b \in DOMAIN res \cup {a} |-> IF b = a THEN r ELSE res[b]]

\* show bgp ipv4 / ipv6: the routes by their destination's address.
ParseRoutes(routes) ==
    LET Visit(res, k) == Store(res, k[1], RouteTo(k, routes[k]))
    IN  IF \E k \in DOMAIN routes : ~ParseIP(k[1]) \/ BadHop(routes[k]) THEN {Error}
        ELSE {FoldLeft(Visit, <<>>, o) : o \in SetToSeqs(DOMAIN routes)}

\* show vrf: names, here numbers, in order.
ParseVRFs(vrfs) == {SortSeq(o, <) : o \in SetToSeqs(vrfs)}

=============================================================================
