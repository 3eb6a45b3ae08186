-------------------------- MODULE NodeIndexProofs --------------------------
(***************************************************************************)
(* Proofs about NodeIndex, for every set of nodes, every size of the pools *)
(* and every number of creation times.  The heart is that the positions of *)
(* two nodes of different seconds are disjoint, and that a node's position *)
(* in an old list is still a position of it in the present one as long as  *)
(* nodes only join.                                                        *)
(***************************************************************************)
EXTENDS NodeIndex, FiniteSetTheorems, TLAPS

\* Creation times are not in the future.
Past == \A n \in Node : created[n] <= clock

\* The list c holds part of the list d: n itself and every node older than n.
Covers(c, d, n) ==
    /\ c[n] = d[n] /\ d[n] # 0
    /\ \A m \in Node : c[m] \in {0, d[m]}
    /\ \A m \in Node : d[m] # 0 /\ d[m] < d[n] => c[m] = d[m]

\* Every address of n is that of a position that n has in the list c.
PlacedBy(c, n) ==
    /\ vtep[n] \subseteq Positions(c, n)
    /\ \A x \in veth[n] : x - 1 \in Positions(c, n)

\* As long as nodes only join: what each cache holds, and where the addresses
\* come from.
OnlyJoins ==
    left = 0 => \A n \in Node :
        /\ n \in runs <=> created[n] # 0
        /\ n \notin runs => vtep[n] = {} /\ veth[n] = {}
        /\ n \in runs => Covers(view[n], created, n) /\ PlacedBy(created, n)

\* A node counted as fresh holds the present list, is configured for an index that
\* it has in that list, and has the addresses of the index among others.
UsesPosition(n) ==
    /\ index[n] \in Positions(created, n)
    /\ index[n] < VtepPool /\ index[n] + 1 < VethPool
    /\ index[n] \in vtep[n] /\ index[n] + 1 \in veth[n]

FreshPlaced == \A n \in fresh : n \in runs /\ view[n] = created /\ UsesPosition(n)

\* No host side is the first address of the veth pool.
HostSides == \A n \in Node : 0 \notin veth[n]

Inv == TypeOK /\ Past /\ OnlyJoins /\ FreshPlaced /\ HostSides

Lists == [Node -> 0..MaxTime]

-----------------------------------------------------------------------------
\* The nodes older than n and those of its second are disjoint finite sets of
\* listed nodes.
LEMMA ListParts ==
    ASSUME NEW c \in Lists, NEW n \in Node
    PROVE  /\ IsFiniteSet(Older(c, n)) /\ Cardinality(Older(c, n)) \in Nat
           /\ IsFiniteSet(Tied(c, n)) /\ Cardinality(Tied(c, n)) \in Nat
           /\ IsFiniteSet(Listed(c)) /\ Cardinality(Listed(c)) \in Nat
           /\ IsFiniteSet(Older(c, n) \cup Tied(c, n))
           /\ Cardinality(Older(c, n) \cup Tied(c, n)) =
                 Cardinality(Older(c, n)) + Cardinality(Tied(c, n))
<1>1. IsFiniteSet(Listed(c)) /\ Cardinality(Listed(c)) \in Nat
  BY NodeAssumption, FS_Subset, FS_CardinalityType DEF Listed
<1>2. IsFiniteSet(Older(c, n)) /\ Cardinality(Older(c, n)) \in Nat
  BY <1>1, FS_Subset, FS_CardinalityType DEF Older
<1>3. IsFiniteSet(Tied(c, n)) /\ Cardinality(Tied(c, n)) \in Nat
  BY <1>1, FS_Subset, FS_CardinalityType DEF Tied
<1>4. Older(c, n) \cap Tied(c, n) = {}
  BY BoundAssumption DEF Older, Tied, Listed, Lists
<1>5. /\ IsFiniteSet(Older(c, n) \cup Tied(c, n))
      /\ Cardinality(Older(c, n) \cup Tied(c, n)) =
            Cardinality(Older(c, n)) + Cardinality(Tied(c, n)) - Cardinality({})
  BY <1>2, <1>3, <1>4, FS_Union
<1>6. Cardinality({}) = 0
  BY FS_EmptySet
<1>7. QED
  BY <1>1, <1>2, <1>3, <1>5, <1>6

\* nodeIndex of a listed node is below the number of listed nodes.
LEMMA PositionBelow ==
    ASSUME NEW c \in Lists, NEW n \in Node, c[n] # 0, NEW i \in Positions(c, n)
    PROVE  i \in Nat /\ i < Cardinality(Listed(c))
<1>1. Older(c, n) \cup Tied(c, n) \in SUBSET Listed(c)
  BY DEF Older, Tied
<1>2. Cardinality(Older(c, n) \cup Tied(c, n)) <= Cardinality(Listed(c))
  BY <1>1, ListParts, FS_Subset
<1>3. /\ Cardinality(Older(c, n)) \in Nat /\ Cardinality(Tied(c, n)) \in Nat
      /\ Cardinality(Listed(c)) \in Nat
      /\ Cardinality(Older(c, n) \cup Tied(c, n)) =
            Cardinality(Older(c, n)) + Cardinality(Tied(c, n))
  BY ListParts
<1>4. QED
  BY <1>2, <1>3 DEF Positions

\* nodeIndex never gives one position to two nodes created at different times,
\* however the sort orders the nodes of one second.
LEMMA PositionsDisjoint ==
    ASSUME NEW c \in Lists, NEW a \in Node, NEW b \in Node,
           c[a] # 0, c[b] # 0, c[a] # c[b]
    PROVE  Positions(c, a) \cap Positions(c, b) = {}
<1>1. ASSUME NEW x \in Node, NEW y \in Node, c[x] # 0, c[y] # 0, c[x] < c[y],
             NEW i \in Positions(c, x), NEW j \in Positions(c, y)
      PROVE  i < j
  <2>1. Older(c, x) \cup Tied(c, x) \in SUBSET Older(c, y)
    BY <1>1, BoundAssumption DEF Older, Tied, Listed, Lists
  <2>2. Cardinality(Older(c, x) \cup Tied(c, x)) <= Cardinality(Older(c, y))
    BY <2>1, ListParts, FS_Subset
  <2>3. /\ Cardinality(Older(c, x)) \in Nat /\ Cardinality(Tied(c, x)) \in Nat
        /\ Cardinality(Older(c, y)) \in Nat /\ Cardinality(Tied(c, y)) \in Nat
        /\ Cardinality(Older(c, x) \cup Tied(c, x)) =
              Cardinality(Older(c, x)) + Cardinality(Tied(c, x))
    BY ListParts
  <2>4. QED
    BY <1>1, <2>2, <2>3 DEF Positions
<1>2. c[a] < c[b] \/ c[b] < c[a]
  BY BoundAssumption DEF Lists
<1>3. ASSUME NEW i \in Positions(c, a), i \in Positions(c, b)
      PROVE  FALSE
  <2>1. i \in Nat
    BY <1>3, PositionBelow
  <2>2. i < i
    BY <1>1, <1>2, <1>3
  <2>3. QED
    BY <2>1, <2>2
<1>4. QED
  BY <1>3

\* A position in a list that lacks only nodes that are not older is a position
\* in the full list.
LEMMA PositionsKept ==
    ASSUME NEW c \in Lists, NEW d \in Lists, NEW n \in Node, Covers(c, d, n)
    PROVE  Positions(c, n) \subseteq Positions(d, n)
<1>1. Older(c, n) = Older(d, n)
  BY BoundAssumption DEF Covers, Older, Listed, Lists
<1>2. Tied(c, n) \in SUBSET Tied(d, n)
  BY DEF Covers, Tied, Listed
<1>3. Cardinality(Tied(c, n)) <= Cardinality(Tied(d, n))
  BY <1>2, ListParts, FS_Subset
<1>4. /\ Cardinality(Older(d, n)) \in Nat
      /\ Cardinality(Tied(c, n)) \in Nat /\ Cardinality(Tied(d, n)) \in Nat
  BY ListParts
<1>5. QED
  BY <1>1, <1>3, <1>4 DEF Covers, Positions

\* The addresses that ipam gives for an index.
LEMMA Addresses ==
    ASSUME NEW i \in Nat
    PROVE  /\ VTEPIp(VtepPool, i) \in (0..(VtepPool - 1)) \cup {None}
           /\ VTEPIp(VtepPool, i) # None <=> i < VtepPool
           /\ VTEPIp(VtepPool, i) # None => VTEPIp(VtepPool, i) = i
           /\ HostSide(VethPool, i) \in (1..(VethPool - 1)) \cup {None}
           /\ HostSide(VethPool, i) # None <=> i + 1 < VethPool
           /\ HostSide(VethPool, i) # None => HostSide(VethPool, i) = i + 1
BY PoolAssumption, NoneAssumption DEF VTEPIp, HostSide, CidrHost

-----------------------------------------------------------------------------
\* Before the first node joins the invariant holds.
LEMMA InitInv == Init => Inv
<1> SUFFICES ASSUME Init PROVE Inv
  OBVIOUS
<1>1. TypeOK
  <2>1. created \in [Node -> 0..MaxTime]
    BY BoundAssumption DEF Init
  <2>2. view \in [Node -> [Node -> 0..MaxTime]]
    BY <2>1 DEF Init
  <2>3. /\ vtep \in [Node -> SUBSET (0..(VtepPool - 1))]
        /\ veth \in [Node -> SUBSET (0..(VethPool - 1))]
        /\ index \in [Node -> (0..(VtepPool - 1)) \cup {None}]
    BY DEF Init
  <2>4. clock \in 1..MaxTime
    BY BoundAssumption DEF Init
  <2>5. left \in 0..MaxLeft
    BY BoundAssumption DEF Init
  <2>6. QED
    BY <2>1, <2>2, <2>3, <2>4, <2>5, Zenon DEF Init, TypeOK
<1>2. Past /\ OnlyJoins /\ FreshPlaced
  BY DEF Init, Past, OnlyJoins, FreshPlaced
<1>3. HostSides
  BY DEF Init, HostSides
<1>4. QED
  BY <1>1, <1>2, <1>3 DEF Inv

\* The positions that a reconciliation may use are natural numbers.
LEMMA PositionNat ==
    ASSUME NEW c \in Lists, NEW n \in Node, NEW i \in Positions(c, n)
    PROVE  i \in Nat
<1>1. CASE c[n] = 0
  BY <1>1 DEF Positions
<1>2. CASE c[n] # 0
  BY <1>2, PositionBelow
<1>3. QED
  BY <1>1, <1>2

\* Every step of clock, nodes and controllers keeps the types, the creation times
\* in the past, and the PE side out of the host sides.
LEMMA TypeStep == TypeOK /\ Past /\ HostSides /\ [Next]_vars => TypeOK' /\ Past' /\ HostSides'
<1> SUFFICES ASSUME TypeOK, Past, HostSides, [Next]_vars
             PROVE  TypeOK' /\ Past' /\ HostSides'
  OBVIOUS
<1> USE BoundAssumption
<1>1. CASE Tick
  BY <1>1 DEF Tick, addrs, TypeOK, Past, HostSides
<1>2. ASSUME NEW n \in Node, NodeJoins(n) PROVE TypeOK' /\ Past' /\ HostSides'
  BY <1>2 DEF NodeJoins, addrs, TypeOK, Past, HostSides
<1>3. ASSUME NEW n \in Node, NodeDeleted(n) PROVE TypeOK' /\ Past' /\ HostSides'
  BY <1>3 DEF NodeDeleted, addrs, TypeOK, Past, HostSides
<1>4. ASSUME NEW n \in Node, NodeStops(n) PROVE TypeOK' /\ Past' /\ HostSides'
  BY <1>4 DEF NodeStops, TypeOK, Past, HostSides
<1>5. ASSUME NEW n \in Node, SyncNodes(n) PROVE TypeOK' /\ Past' /\ HostSides'
  BY <1>5 DEF SyncNodes, addrs, TypeOK, Past, HostSides
<1>r. ASSUME NEW n \in Node, RouterReplaced(n) PROVE TypeOK' /\ Past' /\ HostSides'
  BY <1>r DEF RouterReplaced, TypeOK, Past, HostSides
<1>6. ASSUME NEW n \in Node, NEW i \in 0..Cardinality(Node), Reconcile(n, i)
      PROVE  TypeOK' /\ Past' /\ HostSides'
  <2>1. i \in Nat
    BY <1>6, PositionNat DEF Reconcile, TypeOK, Lists
  <2>2. /\ VTEPIp(VtepPool, i) \in (0..(VtepPool - 1)) \cup {None}
        /\ HostSide(VethPool, i) \in (1..(VethPool - 1)) \cup {None}
        /\ VTEPIp(VtepPool, i) # None /\ HostSide(VethPool, i) # None
        /\ i \in 0..(VtepPool - 1)
    BY <1>6, <2>1, Addresses, PoolAssumption DEF Reconcile
  <2>3. vtep' \in [Node -> SUBSET (0..(VtepPool - 1))]
    BY <1>6, <2>2 DEF Reconcile, TypeOK
  <2>4. veth' \in [Node -> SUBSET (0..(VethPool - 1))] /\ HostSides'
    BY <1>6, <2>2, PoolAssumption DEF Reconcile, TypeOK, HostSides
  <2>5. index' \in [Node -> (0..(VtepPool - 1)) \cup {None}]
    BY <1>6, <2>2 DEF Reconcile, TypeOK
  <2>6. QED
    BY <1>6, <2>3, <2>4, <2>5 DEF Reconcile, TypeOK, Past
<1>7. ASSUME NEW n \in Node, NEW i \in 0..Cardinality(Node), PoolExhausted(n, i)
      PROVE  TypeOK' /\ Past' /\ HostSides'
  BY <1>7 DEF PoolExhausted, vars, addrs, TypeOK, Past, HostSides
<1>8. CASE UNCHANGED vars
  BY <1>8 DEF vars, addrs, TypeOK, Past, HostSides
<1>9. QED
  BY <1>1, <1>2, <1>3, <1>4, <1>r, <1>5, <1>6, <1>7, <1>8 DEF Next

\* A reconciliation adds the addresses of a position of its list, and uses them.
LEMMA ReconcilePlaces ==
    ASSUME TypeOK, NEW n \in Node, NEW i, Reconcile(n, i)
    PROVE  /\ i \in Nat /\ i \in Positions(view[n], n) /\ i < VtepPool /\ i + 1 < VethPool
           /\ vtep'[n] = vtep[n] \cup {i} /\ veth'[n] = veth[n] \cup {i + 1}
           /\ index'[n] = i
<1>1. i \in Nat /\ i \in Positions(view[n], n)
  BY PositionNat DEF Reconcile, TypeOK, Lists
<1>2. VTEPIp(VtepPool, i) = i /\ HostSide(VethPool, i) = i + 1 /\ i < VtepPool /\ i + 1 < VethPool
  BY <1>1, Addresses DEF Reconcile
<1>3. QED
  BY <1>1, <1>2 DEF Reconcile, TypeOK

\* A step that adds no address to n and leaves the node list leaves n placed.
LEMMA StillPlaced ==
    ASSUME NEW n \in Node, PlacedBy(created, n),
           vtep'[n] \subseteq vtep[n], veth'[n] \subseteq veth[n], created' = created
    PROVE  PlacedBy(created, n)'
BY DEF PlacedBy

\* A step that leaves the configuration of n and the node list leaves its position used.
LEMMA StillUsed ==
    ASSUME NEW n \in Node, UsesPosition(n), created' = created,
           vtep'[n] = vtep[n], veth'[n] = veth[n], index'[n] = index[n]
    PROVE  UsesPosition(n)'
BY DEF UsesPosition

\* A joining node pushes no node that is already there from its position.
LEMMA JoinsStep == TypeOK /\ Past /\ OnlyJoins /\ [Next]_vars => OnlyJoins'
<1> SUFFICES ASSUME TypeOK, Past, OnlyJoins, [Next]_vars, left' = 0, NEW m \in Node
             PROVE  /\ m \in runs' <=> created'[m] # 0
                    /\ m \notin runs' => vtep'[m] = {} /\ veth'[m] = {}
                    /\ m \in runs' => Covers(view'[m], created', m) /\ PlacedBy(created, m)'
  BY DEF OnlyJoins
<1> DEFINE Goal == /\ m \in runs' <=> created'[m] # 0
                   /\ m \notin runs' => vtep'[m] = {} /\ veth'[m] = {}
                   /\ m \in runs' => Covers(view'[m], created', m) /\ PlacedBy(created, m)'
<1>0. left = 0
  BY DEF TypeOK, Next, vars, Tick, NodeJoins, NodeDeleted, NodeStops, RouterReplaced, SyncNodes, Reconcile, PoolExhausted
<1>a. /\ m \in runs <=> created[m] # 0
      /\ m \notin runs => vtep[m] = {} /\ veth[m] = {}
      /\ m \in runs => Covers(view[m], created, m) /\ PlacedBy(created, m)
  BY <1>0 DEF OnlyJoins
<1>1. CASE Tick
  BY <1>1, <1>a, StillPlaced DEF Tick, addrs
<1>2. ASSUME NEW n \in Node, NodeJoins(n) PROVE Goal
  <2>1. CASE m = n
    <3>1. created'[m] = clock /\ view'[m] = created' /\ clock # 0 /\ m \in runs'
      BY <1>2, <2>1 DEF NodeJoins, TypeOK
    <3>2. Covers(view'[m], created', m)
      BY <3>1 DEF Covers
    <3>3. vtep'[m] = {} /\ veth'[m] = {}
      BY <1>2, <1>a, <2>1 DEF NodeJoins, addrs
    <3>4. QED
      BY <3>1, <3>2, <3>3 DEF PlacedBy
  <2>2. CASE m # n
    <3>1. /\ m \in runs' <=> m \in runs
          /\ created'[m] = created[m] /\ view'[m] = view[m]
          /\ vtep'[m] = vtep[m] /\ veth'[m] = veth[m]
      BY <1>2, <2>2 DEF NodeJoins, addrs, TypeOK
    <3>2. CASE m \notin runs
      BY <1>a, <3>1, <3>2
    <3>3. CASE m \in runs
      <4>1. /\ created[n] = 0 /\ created'[n] = clock /\ created[m] <= clock
            /\ \A k \in Node \ {n} : created'[k] = created[k]
        BY <1>2 DEF NodeJoins, TypeOK, Past
      <4>2. created \in Lists /\ created' \in Lists /\ view[m] \in Lists
        BY <1>2, BoundAssumption DEF NodeJoins, TypeOK, Lists
      <4>3. Covers(view[m], created, m) /\ PlacedBy(created, m) /\ created[m] # 0
        BY <1>a, <3>3
      <4>4. Covers(created, created', m)
        BY <3>1, <4>1, <4>2, <4>3, BoundAssumption DEF Covers, Lists, TypeOK
      <4>5. Covers(view[m], created', m)
        BY <3>1, <4>1, <4>2, <4>3, BoundAssumption DEF Covers, Lists, TypeOK
      <4>6. Positions(created, m) \subseteq Positions(created', m)
        BY <4>2, <4>4, PositionsKept
      <4>7. PlacedBy(created, m)'
        BY <3>1, <4>3, <4>6 DEF PlacedBy
      <4>8. QED
        BY <3>1, <3>3, <4>3, <4>5, <4>7
    <3>4. QED
      BY <3>2, <3>3
  <2>3. QED
    BY <2>1, <2>2
<1>3. ASSUME NEW n \in Node, NodeDeleted(n) PROVE Goal
  <2>1. left' = left + 1 /\ left' = 0
    BY <1>3 DEF NodeDeleted
  <2>2. left \in Nat
    BY BoundAssumption DEF TypeOK
  <2>3. QED
    BY <2>1, <2>2
<1>4. ASSUME NEW n \in Node, NodeStops(n) PROVE Goal
  BY <1>4, <1>0 DEF NodeStops, OnlyJoins
<1>r. ASSUME NEW n \in Node, RouterReplaced(n) PROVE Goal
  <2>1. /\ created' = created /\ runs' = runs /\ view' = view
        /\ vtep'[m] \subseteq vtep[m] /\ veth'[m] \subseteq veth[m]
    BY <1>r DEF RouterReplaced, TypeOK
  <2>2. QED
    BY <1>a, <2>1, StillPlaced
<1>5. ASSUME NEW n \in Node, SyncNodes(n) PROVE Goal
  <2>1. created' = created /\ runs' = runs /\ vtep' = vtep /\ veth' = veth
    BY <1>5 DEF SyncNodes, addrs
  <2>2. m \in runs' => view'[m] = view[m] \/ view'[m] = created
    BY <1>5 DEF SyncNodes, TypeOK
  <2>3. m \in runs' => Covers(view'[m], created', m)
    BY <1>a, <2>1, <2>2 DEF Covers
  <2>4. QED
    BY <1>a, <2>1, <2>3, StillPlaced
<1>6. ASSUME NEW n \in Node, NEW i \in 0..Cardinality(Node), Reconcile(n, i)
      PROVE  Goal
  <2>1. created' = created /\ runs' = runs /\ view' = view
    BY <1>6 DEF Reconcile
  <2>2. CASE m # n
    <3>1. vtep'[m] = vtep[m] /\ veth'[m] = veth[m]
      BY <1>6, <2>2 DEF Reconcile, TypeOK
    <3>2. QED
      BY <1>a, <2>1, <3>1, StillPlaced
  <2>3. CASE m = n
    <3>1. m \in runs /\ Covers(view[m], created, m) /\ created[m] # 0
      BY <1>6, <1>a, <2>3 DEF Reconcile
    <3>2. created \in Lists /\ view[m] \in Lists
      BY DEF TypeOK, Lists
    <3>3. Positions(view[m], m) \subseteq Positions(created, m)
      BY <3>1, <3>2, PositionsKept
    <3>4. PICK k \in Nat : /\ k \in Positions(created, m) /\ created' = created
                           /\ vtep'[m] = vtep[m] \cup {k} /\ veth'[m] = veth[m] \cup {k + 1}
      BY <1>6, <2>1, <2>3, <3>3, ReconcilePlaces
    <3>p. PlacedBy(created, m)'
      BY <1>a, <3>1, <3>4 DEF PlacedBy
    <3>5. QED
      BY <2>1, <3>1, <3>p
  <2>4. QED
    BY <2>2, <2>3
<1>7. ASSUME NEW n \in Node, NEW i \in 0..Cardinality(Node), PoolExhausted(n, i)
      PROVE  Goal
  BY <1>7, <1>a, StillPlaced DEF PoolExhausted, vars, addrs
<1>8. CASE UNCHANGED vars
  BY <1>8, <1>a, StillPlaced DEF vars, addrs
<1>9. QED
  BY <1>1, <1>2, <1>3, <1>4, <1>r, <1>5, <1>6, <1>7, <1>8 DEF Next

\* A node stays fresh only as long as the node list it was placed by stands.
LEMMA FreshStep == TypeOK /\ FreshPlaced /\ [Next]_vars => FreshPlaced'
<1> SUFFICES ASSUME TypeOK, FreshPlaced, [Next]_vars, NEW m \in fresh'
             PROVE  m \in runs' /\ view'[m] = created' /\ UsesPosition(m)'
  BY DEF FreshPlaced
<1> DEFINE Goal == m \in runs' /\ view'[m] = created' /\ UsesPosition(m)'
<1>1. CASE Tick
  BY <1>1, StillUsed DEF Tick, addrs, FreshPlaced, TypeOK
<1>2. ASSUME NEW n \in Node, NodeJoins(n) \/ NodeDeleted(n) PROVE Goal
  BY <1>2 DEF NodeJoins, NodeDeleted
<1>3. ASSUME NEW n \in Node, NodeStops(n) \/ RouterReplaced(n) PROVE Goal
  <2>1. m \in fresh /\ m # n /\ m \in runs' /\ view'[m] = view[m] /\ created' = created
    BY <1>3 DEF NodeStops, RouterReplaced, FreshPlaced, TypeOK
  <2>2. vtep'[m] = vtep[m] /\ veth'[m] = veth[m] /\ index'[m] = index[m]
    BY <1>3, <2>1 DEF NodeStops, RouterReplaced, TypeOK
  <2>3. QED
    BY <2>1, <2>2, StillUsed DEF FreshPlaced, TypeOK
<1>4. ASSUME NEW n \in Node, SyncNodes(n) PROVE Goal
  <2>1. /\ m \in fresh /\ m \in runs' /\ view'[m] = created' /\ created' = created
        /\ vtep' = vtep /\ veth' = veth /\ index' = index
    BY <1>4 DEF SyncNodes, addrs, FreshPlaced, TypeOK
  <2>2. QED
    BY <2>1, StillUsed DEF FreshPlaced, TypeOK
<1>5. ASSUME NEW n \in Node, NEW i \in 0..Cardinality(Node), Reconcile(n, i)
      PROVE  Goal
  <2>1. created' = created /\ runs' = runs /\ view' = view /\ m \in Node
    BY <1>5 DEF Reconcile, TypeOK
  <2>2. CASE m # n
    <3>1. m \in fresh /\ vtep'[m] = vtep[m] /\ veth'[m] = veth[m] /\ index'[m] = index[m]
      BY <1>5, <2>1, <2>2 DEF Reconcile, TypeOK
    <3>2. QED
      BY <2>1, <3>1, StillUsed DEF FreshPlaced
  <2>3. CASE m = n
    <3>1. m \in runs /\ view[m] = created
      BY <1>5, <2>3 DEF Reconcile, FreshPlaced
    <3>2. /\ i \in Positions(created, m) /\ i < VtepPool /\ i + 1 < VethPool
          /\ vtep'[m] = vtep[m] \cup {i} /\ veth'[m] = veth[m] \cup {i + 1} /\ index'[m] = i
      BY <1>5, <2>1, <2>3, <3>1, ReconcilePlaces
    <3>3. UsesPosition(m)'
      BY <2>1, <3>2 DEF UsesPosition
    <3>4. QED
      BY <2>1, <3>1, <3>3
  <2>4. QED
    BY <2>2, <2>3
<1>6. ASSUME NEW n \in Node, NEW i \in 0..Cardinality(Node), PoolExhausted(n, i)
      PROVE  Goal
  BY <1>6, StillUsed DEF PoolExhausted, vars, addrs, FreshPlaced, TypeOK
<1>7. CASE UNCHANGED vars
  BY <1>7, StillUsed DEF vars, addrs, FreshPlaced, TypeOK
<1>8. QED
  BY <1>1, <1>2, <1>3, <1>4, <1>5, <1>6, <1>7 DEF Next

-----------------------------------------------------------------------------
\* The inductive invariant of the node indices holds in every reachable state.
THEOREM Invariance == Spec => []Inv
<1>1. Inv /\ [Next]_vars => Inv'
  BY TypeStep, JoinsStep, FreshStep DEF Inv
<1>2. QED
  BY InitInv, <1>1, PTL DEF Spec

\* Clock, lists and addresses keep their types.
THEOREM TypeCorrect == Spec => []TypeOK
BY Invariance, PTL DEF Inv

\* Two placed nodes of different seconds have no address in common.
LEMMA PlacedApart ==
    ASSUME TypeOK, NEW a \in Node, NEW b \in Node,
           created[a] # 0, created[b] # 0, created[a] # created[b],
           PlacedBy(created, a), PlacedBy(created, b)
    PROVE  vtep[a] \cap vtep[b] = {} /\ veth[a] \cap veth[b] = {}
<1>1. created \in Lists
  BY DEF TypeOK, Lists
<1>2. Positions(created, a) \cap Positions(created, b) = {}
  BY <1>1, PositionsDisjoint
<1>3. QED
  BY <1>2 DEF PlacedBy

\* As long as nodes only join, nodeIndex and ipam give nodes created at different
\* times different addresses, with any number of nodes and lagging caches.
THEOREM JoinsAreDistinct == Spec => []JoinsKeepDistinct
<1>1. Inv => JoinsKeepDistinct
  <2> SUFFICES ASSUME Inv, left = 0, NEW a \in Node, NEW b \in Node, created[a] # created[b]
               PROVE  vtep[a] \cap vtep[b] = {} /\ veth[a] \cap veth[b] = {}
    BY DEF JoinsKeepDistinct
  <2>1. CASE created[a] = 0 \/ created[b] = 0
    BY <2>1 DEF Inv, OnlyJoins
  <2>2. CASE created[a] # 0 /\ created[b] # 0
    BY <2>2, PlacedApart DEF Inv, OnlyJoins
  <2>3. QED
    BY <2>1, <2>2
<1>2. QED
  BY Invariance, <1>1, PTL

\* Controllers that have reconciled with the present node list use different
\* addresses on nodes created at different times, deletions or not, and have them.
THEOREM FreshAreDistinct == Spec => []FreshDistinct
<1>1. Inv => FreshDistinct
  <2> SUFFICES ASSUME Inv PROVE FreshDistinct
    OBVIOUS
  <2>1. ASSUME NEW n \in fresh
        PROVE  /\ n \in Node /\ index[n] \in Nat /\ index[n] \in Positions(created, n)
               /\ Source(n) = index[n] /\ Neighbour(n) = index[n] + 1
               /\ index[n] \in vtep[n] /\ index[n] + 1 \in veth[n]
    <3>1. n \in Node /\ UsesPosition(n) /\ created \in Lists
      BY DEF Inv, FreshPlaced, TypeOK, Lists
    <3>2. index[n] \in Nat
      BY <3>1, PositionNat DEF UsesPosition
    <3>3. Source(n) = index[n] /\ Neighbour(n) = index[n] + 1
      BY <3>1, <3>2, Addresses DEF UsesPosition, Source, Neighbour
    <3>4. QED
      BY <3>1, <3>2, <3>3 DEF UsesPosition
  <2>2. ASSUME NEW a \in fresh, NEW b \in fresh,
               created[a] # created[b], created[a] # 0, created[b] # 0
        PROVE  Source(a) # Source(b) /\ Neighbour(a) # Neighbour(b)
    <3>1. Positions(created, a) \cap Positions(created, b) = {}
      BY <2>1, <2>2, PositionsDisjoint DEF Inv, TypeOK, Lists
    <3>2. index[a] # index[b]
      BY <2>1, <3>1
    <3>3. QED
      BY <2>1, <3>2
  <2>3. QED
    BY <2>1, <2>2 DEF FreshDistinct
<1>2. QED
  BY Invariance, <1>1, PTL

\* VethIPs never hands out the PE side as a host side, and VTEPIp and VethIPs fail
\* for a listed node only when the pools are smaller than the node list needs.
THEOREM PoolsSuffice == Spec => []PoolsUsedUp
<1>1. Inv => PoolsUsedUp
  <2> SUFFICES ASSUME Inv PROVE PoolsUsedUp
    OBVIOUS
  <2>1. \A n \in Node : PESide(VethPool) \notin veth[n]
    BY PoolAssumption DEF Inv, HostSides, PESide, CidrHost
  <2>2. ASSUME NEW n \in runs, NEW i \in Positions(view[n], n), view[n][n] # 0,
               VTEPIp(VtepPool, i) = None \/ HostSide(VethPool, i) = None
        PROVE  \/ Cardinality(Listed(view[n])) > VtepPool
               \/ Cardinality(Listed(view[n])) + 1 > VethPool
    <3>1. n \in Node /\ view[n] \in Lists
      BY DEF Inv, TypeOK, Lists
    <3>2. i \in Nat /\ i < Cardinality(Listed(view[n])) /\ Cardinality(Listed(view[n])) \in Nat
      BY <2>2, <3>1, PositionBelow, ListParts
    <3>3. i >= VtepPool \/ i + 1 >= VethPool
      BY <2>2, <3>2, Addresses, PoolAssumption
    <3>4. QED
      BY <3>2, <3>3, PoolAssumption
  <2>3. QED
    BY <2>1, <2>2 DEF PoolsUsedUp
<1>2. QED
  BY Invariance, <1>1, PTL

=============================================================================
