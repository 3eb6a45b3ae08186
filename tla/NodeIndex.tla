----------------------------- MODULE NodeIndex -----------------------------
(***************************************************************************)
(* Addresses without coordination: each node's controller sorts the nodes  *)
(* of its cache by creation time (internal/controller/nodes.go) and takes  *)
(* the addresses of the VTEP and veth pools that its own position gives    *)
(* (internal/ipam/ipam.go).  Addresses are offsets in their pool.          *)
(***************************************************************************)
EXTENDS Ipam, FiniteSets

CONSTANTS
    Node,
    VtepPool, VethPool,   \* number of addresses in each pool
    MaxTime,              \* bound: creation times, in seconds, are 1..MaxTime
    MaxLeft               \* bound: Node objects deleted

ASSUME NodeAssumption == IsFiniteSet(Node)
ASSUME PoolAssumption == VtepPool \in Nat \ {0} /\ VethPool \in Nat \ {0}
ASSUME NoneAssumption == None \notin Nat
ASSUME BoundAssumption == MaxTime \in Nat \ {0} /\ MaxLeft \in Nat

VARIABLES
    clock,
    created,   \* created[n]: when the Node object of n was created, 0 if there is none
    runs,      \* nodes whose controller runs
    view,      \* view[n]: created as the cache of n's controller has it
    vtep,      \* vtep[n]: the VTEP addresses on the loopback of n's router
    veth,      \* veth[n]: the addresses of the host legs on n
    index,     \* index[n]: the index that FRR and the VXLANs of n are configured for
    fresh,     \* history: nodes reconciled with the present node list
    left       \* history: how many Node objects have been deleted

addrs == <<vtep, veth, index>>
vars == <<clock, created, runs, view, addrs, fresh, left>>

Init ==
    /\ clock = 1
    /\ created = [n \in Node |-> 0]
    /\ runs = {}
    /\ view = [n \in Node |-> created]
    /\ vtep = [n \in Node |-> {}]
    /\ veth = [n \in Node |-> {}]
    /\ index = [n \in Node |-> None]
    /\ fresh = {}
    /\ left = 0

Tick ==
    /\ clock < MaxTime
    /\ clock' = clock + 1
    /\ UNCHANGED <<created, runs, view, addrs, fresh, left>>

\* A node registers; its controller starts and lists the nodes.  The pod is bound
\* to a Node object that exists, so a list made after that has the node itself and
\* every older one, unless an API server that lags behind serves it.
NodeJoins(n) ==
    /\ n \notin runs
    /\ created[n] = 0
    /\ created' = [created EXCEPT ![n] = clock]
    /\ runs' = runs \cup {n}
    /\ view' = [view EXCEPT ![n] = created']
    /\ fresh' = {}
    /\ UNCHANGED <<clock, addrs, left>>

\* The Node object is deleted; its controller runs on for a while.
NodeDeleted(n) ==
    /\ created[n] # 0
    /\ left < MaxLeft
    /\ created' = [created EXCEPT ![n] = 0]
    /\ fresh' = {}
    /\ left' = left + 1
    /\ UNCHANGED <<clock, runs, view, addrs>>

NodeStops(n) ==
    /\ n \in runs
    /\ created[n] = 0
    /\ runs' = runs \ {n}
    /\ view' = [view EXCEPT ![n] = [m \in Node |-> 0]]
    /\ vtep' = [vtep EXCEPT ![n] = {}]
    /\ veth' = [veth EXCEPT ![n] = {}]
    /\ index' = [index EXCEPT ![n] = None]
    /\ fresh' = fresh \ {n}
    /\ UNCHANGED <<clock, created, left>>

\* The router pod of n is replaced: a new namespace with an empty loopback and an
\* FRR without configuration.  The host legs go with the old namespace, or stay
\* when the handle that SetupVNI never closes keeps that one alive.
RouterReplaced(n) ==
    /\ index[n] # None
    /\ vtep' = [vtep EXCEPT ![n] = {}]
    /\ veth' \in {veth, [veth EXCEPT ![n] = {}]}
    /\ index' = [index EXCEPT ![n] = None]
    /\ fresh' = fresh \ {n}
    /\ UNCHANGED <<clock, created, runs, view, left>>

\* The informer's cache follows.  No reconciliation: nodes are not watched.
SyncNodes(n) ==
    /\ n \in runs
    /\ view[n] # created
    /\ view' = [view EXCEPT ![n] = created]
    /\ UNCHANGED <<clock, created, runs, addrs, fresh, left>>

-----------------------------------------------------------------------------
Listed(c)   == {m \in Node : c[m] # 0}
Older(c, n) == {m \in Listed(c) : c[m] < c[n]}
Tied(c, n)  == {m \in Listed(c) : c[m] = c[n]}

\* Fault: the newest node comes first.
NewestFirst(c, n) ==
    IF c[n] = 0 THEN {0} ELSE {Cardinality({m \in Listed(c) : c[m] > c[n]})}

\* Fault: the list is not sorted.
Unsorted(c, n) == IF c[n] = 0 THEN {0} ELSE 0..(Cardinality(Listed(c)) - 1)

\* nodeIndex: the sort is not stable and the cache lists in any order, so nodes
\* of the same second come in any order; a node that is not listed gets 0.
Positions(c, n) ==
    IF c[n] = 0 THEN {0}
    ELSE Cardinality(Older(c, n)) .. (Cardinality(Older(c, n)) + Cardinality(Tied(c, n)) - 1)

\* A reconciliation of n, for whatever reason, that gets index i.  The addresses of
\* i join those of earlier indices: assignIPToInterface only adds.  FRR's file and
\* the VXLAN, created again when its source differs, follow i.
Reconcile(n, i) ==
    /\ n \in runs
    /\ i \in Positions(view[n], n)
    /\ VTEPIp(VtepPool, i) # None /\ HostSide(VethPool, i) # None
    /\ vtep' = [vtep EXCEPT ![n] = @ \cup {VTEPIp(VtepPool, i)}]
    /\ veth' = [veth EXCEPT ![n] = @ \cup {HostSide(VethPool, i)}]
    /\ index' = [index EXCEPT ![n] = i]
    /\ fresh' = IF view[n] = created THEN fresh \cup {n} ELSE fresh
    /\ UNCHANGED <<clock, created, runs, view, left>>

\* APItoFRR fails before anything is changed.
PoolExhausted(n, i) ==
    /\ n \in runs
    /\ i \in Positions(view[n], n)
    /\ VTEPIp(VtepPool, i) = None \/ HostSide(VethPool, i) = None
    /\ UNCHANGED vars

Next ==
    \/ Tick
    \/ \E n \in Node :
          \/ NodeJoins(n) \/ NodeDeleted(n) \/ NodeStops(n)
          \/ RouterReplaced(n) \/ SyncNodes(n)
          \/ \E i \in 0..Cardinality(Node) : Reconcile(n, i) \/ PoolExhausted(n, i)

Spec == Init /\ [][Next]_vars

-----------------------------------------------------------------------------
TypeOK ==
    /\ clock \in 1..MaxTime
    /\ created \in [Node -> 0..MaxTime]
    /\ runs \subseteq Node /\ fresh \subseteq Node
    /\ view \in [Node -> [Node -> 0..MaxTime]]
    /\ vtep \in [Node -> SUBSET (0..(VtepPool - 1))]
    /\ veth \in [Node -> SUBSET (0..(VethPool - 1))]
    /\ index \in [Node -> (0..(VtepPool - 1)) \cup {None}]
    /\ left \in 0..MaxLeft

\* As long as nodes only join, two nodes created at different times never have an
\* address in common, those an earlier index left behind included, however far
\* their caches lag behind one another.
JoinsKeepDistinct ==
    left = 0 => \A a, b \in Node : created[a] # created[b] =>
                vtep[a] \cap vtep[b] = {} /\ veth[a] \cap veth[b] = {}

\* What n's VXLANs send from and FRR advertises, and whom FRR peers with on the host.
Source(n)    == VTEPIp(VtepPool, index[n])
Neighbour(n) == HostSide(VethPool, index[n])

\* Two nodes that have reconciled with the present node list use different
\* addresses if they were created at different times, deletions or not; and each
\* uses addresses that its own interfaces have.
FreshDistinct ==
    /\ \A n \in fresh : Source(n) \in vtep[n] /\ Neighbour(n) \in veth[n]
    /\ \A a, b \in fresh : created[a] # created[b] /\ created[a] # 0 /\ created[b] # 0 =>
          Source(a) # Source(b) /\ Neighbour(a) # Neighbour(b)

\* The PE side of every veth, the same on each node, is never a host side; a
\* node fails to get an address only when the pools hold fewer than the nodes
\* listed need (one VTEP and one host side each, one PE side for all).
PoolsUsedUp ==
    /\ \A n \in Node : PESide(VethPool) \notin veth[n]
    /\ \A n \in runs : \A i \in Positions(view[n], n) :
          view[n][n] # 0 /\ (VTEPIp(VtepPool, i) = None \/ HostSide(VethPool, i) = None) =>
             \/ Cardinality(Listed(view[n])) > VtepPool
             \/ Cardinality(Listed(view[n])) + 1 > VethPool

=============================================================================
