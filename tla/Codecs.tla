------------------------------- MODULE Codecs -------------------------------
(***************************************************************************)
(* Calls of the functions of Conversion, IPFamily and VtyshParse, one at a *)
(* time, on every input of the sets that are the constants.                *)
(***************************************************************************)
EXTENDS Conversion, VtyshParse, TLC

CONSTANTS
    Neighbor,     \* neighbours of an Underlay, as the API has them
    RouterASN,    \* the router's AS numbers
    Underlays,    \* lists of underlays
    VNIs,         \* lists of VNIs
    Index,        \* positions of a node
    Addresses,    \* lists of addresses
    Peers,        \* JSON objects of neighbours
    Routes,       \* JSON objects of routes
    VRFNames      \* sets of names of VRFs

\* A duration of the API is an int64 of nanoseconds: its seconds fit in uint64.
ASSUME DurationAssumption ==
    \A n \in Neighbor : \A d \in {n.holdTime, n.keepaliveTime} : d = None \/ (d \in Int /\ d < 1000 * Word)

\* Lists are finite, and pools and positions are numbers.
ASSUME ListAssumption ==
    /\ \A us \in Underlays : us \in Seq(ToSet(us)) /\ \A u \in ToSet(us) : u.pool \in Nat
    /\ \A vs \in VNIs : vs \in Seq(ToSet(vs)) /\ \A v \in ToSet(vs) : v.pool \in Nat
    /\ \A ips \in Addresses : ips \in Seq(ToSet(ips))
    /\ Index \subseteq Nat

\* What the host's network is given for one of vs.
VNIParams(vs) == [vrf : {v.vrf : v \in ToSet(vs)}, vni : {v.vni : v \in ToSet(vs)},
                  vtep : Nat, host : Nat, pe : Nat]

\* Neither an error nor a missing value is a result.
ASSUME ErrorAssumption ==
    /\ V4 \cap V6 = {} /\ Error \notin {"ipv4", "ipv6", "dual"}
    /\ None \notin Nat
    /\ \A us \in Underlays, vs \in VNIs :
          Error \notin VNIParams(vs) \cup Seq(VNIParams(vs))
                       \cup [nic : {u.nic : u \in ToSet(us)}, vtep : Nat, vnis : Seq(VNIParams(vs))]

VARIABLES
    op,     \* the function called, "none" between calls
    in,     \* its arguments
    out     \* its result

vars == <<op, in, out>>

Init == op = "none" /\ in = <<>> /\ out = <<>>

Call(f, args, res) == op' = f /\ in' = args /\ out' = res

CallNeighborToFRR(n, asn) ==
    Call("neighbor", <<n, asn>>,
         LET frr == NeighborToFRR(n) IN IF frr = Error THEN Error ELSE Session(frr, asn))

\* Reconcile converts the same lists twice.
CallConversions(i, us, vs) ==
    Call("api", <<i, us, vs>>, [frr |-> APItoFRR(i, us, vs), host |-> APItoHostConfig(i, us, vs)])

CallForAddresses(ips) == Call("addresses", ips, ForAddresses(ips))

CallForService(ips, ip) ==
    Call("service", <<ips, ip>>, ForService([clusterIPs |-> ips, clusterIP |-> ip]))

CallParseNeighbours(res) ==
    \E parsed \in ParseNeighbours(res) : Call("neighbours", res, parsed)

CallParseRoutes(routes) == \E parsed \in ParseRoutes(routes) : Call("routes", routes, parsed)

CallParseVRFs(vrfs) == \E parsed \in ParseVRFs(vrfs) : Call("vrfs", vrfs, parsed)

Return == op # "none" /\ op' = "none" /\ in' = <<>> /\ out' = <<>>

Next ==
    \/ /\ op = "none"
       /\ \/ \E n \in Neighbor, asn \in RouterASN : CallNeighborToFRR(n, asn)
          \/ \E i \in Index, us \in Underlays, vs \in VNIs : CallConversions(i, us, vs)
          \/ \E ips \in Addresses : CallForAddresses(ips)
          \/ \E ips \in Addresses, ip \in V4 \cup V6 \cup {None} : CallForService(ips, ip)
          \/ \E res \in Peers : CallParseNeighbours(res)
          \/ \E routes \in Routes : CallParseRoutes(routes)
          \/ \E vrfs \in VRFNames : CallParseVRFs(vrfs)
    \/ Return

Spec == Init /\ [][Next]_vars

-----------------------------------------------------------------------------
\* The timers FRR is given are ones BGP allows, and not longer than those asked
\* for, although the two times are cut to seconds after they were compared and
\* converted to unsigned numbers: a hold time of zero or at least three seconds, a
\* keepalive time that is not above it.  Negative keepalive times, which nothing
\* rejects, are left out.
TimersAllowed ==
    op = "neighbor" /\ out # Error /\ out.timers # None /\ in[1].keepaliveTime > -1000
    => LET keepalive == out.timers[1]
           hold == out.timers[2]
       IN  /\ hold = 0 \/ hold >= 3
           /\ keepalive <= hold
           /\ hold > 0 => 1000 * hold <= in[1].holdTime /\ 1000 * keepalive <= in[1].keepaliveTime + 999

\* What is loaded into FRR can be configured on the host, and fits it: the
\* conversion that comes second succeeds and is not the empty one, with the same
\* VTEP address, the same VNIs, and FRR's neighbour in each VRF is the host leg's
\* address, across the veth from its own.
ConversionsAgree ==
    op = "api" /\ out.frr # Error =>
        /\ out.host # Error /\ out.host # NoParams
        /\ out.host.vtep = out.frr.vtep
        /\ Len(out.host.vnis) = Len(out.frr.vnis)
        /\ \A j \in DOMAIN out.frr.vnis :
              LET f == out.frr.vnis[j]
                  h == out.host.vnis[j]
              IN  /\ f.vrf = h.vrf /\ f.vni = h.vni /\ h.vtep = out.frr.vtep
                  /\ f.neighbor = h.host /\ f.advertise = {h.host} /\ h.host # h.pe

\* f is the family of addresses ips: two are a dual stack exactly when one is IPv4
\* and the other IPv6, one has its own family, all else is an error.
IsFamilyOf(f, ips) ==
    /\ f # Error <=> /\ ToSet(ips) \subseteq V4 \cup V6 /\ Len(ips) \in 1..2
                     /\ Len(ips) = 2 => Cardinality(ToSet(ips) \cap V4) = 1 /\ Cardinality(ToSet(ips) \cap V6) = 1
    /\ f # Error => f = IF Len(ips) = 2 THEN "dual" ELSE IF ips[1] \in V4 THEN "ipv4" ELSE "ipv6"

\* The family of a neighbour or of a service is that of its addresses, in any
\* order; clusterIP counts only without clusterIPs.  A neighbour is activated for
\* that family and no other, without which its session would never come up.
FamilyOfAddresses ==
    /\ op = "neighbor" /\ out # Error => out.unicast = IF in[1].address \in V4 THEN {"ipv4"} ELSE {"ipv6"}
    /\ op = "addresses" => IsFamilyOf(out, in) /\ out = ForAddresses(Reverse(in))
    /\ op = "service" => IsFamilyOf(out, IF in[1] = <<>> THEN <<in[2]>> ELSE in[1])

\* What ParseNeighbour returns for each neighbour of res on its own.
Singly(res) == UNION {ParseNeighbour([m \in {k} |-> res[m]]) : k \in DOMAIN res}

\* The next hops of the paths to k that are not link-local IPv6 ones.
Hops(routes, k) ==
    {h.ip : h \in {g \in UNION {ToSet(routes[k][i].nexthops) : i \in DOMAIN routes[k]} :
                       g.ip \in V4 \/ g.scope # "link-local"}}

\* The order in which Go visits a map does not show in what the parsers make of it,
\* and nothing is lost on the way.  VRFs come out in one order.  ParseNeighbours
\* returns what ParseNeighbour, of which it repeats the code, returns for each
\* neighbour, an error if one of those is.  A route that is stored is that of one
\* destination with its next hops, each once; every destination is stored under its
\* address and there is one result, unless two destinations have the same address
\* and differ in length: then one of them, either one, is lost.
OrderInvisible ==
    /\ op = "vrfs" => ParseVRFs(in) = {out}
    /\ op = "neighbours" =>
          IF Error \in Singly(in) THEN out = Error
          ELSE Len(out) = Cardinality(DOMAIN in) /\ ToSet(out) = Singly(in)
    /\ op = "routes" /\ out # Error =>
          /\ DOMAIN out = {k[1] : k \in DOMAIN in}
          /\ \A a \in DOMAIN out :
                /\ out[a].dest \in DOMAIN in /\ out[a].dest[1] = a
                /\ ToSet(out[a].nextHops) = Hops(in, out[a].dest) /\ IsInjective(out[a].nextHops)
          /\ (\A k, l \in DOMAIN in : k[1] = l[1] => k = l) => ParseRoutes(in) = {out}

=============================================================================
