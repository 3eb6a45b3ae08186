-------------------------- MODULE VethIndexProofs --------------------------
(***************************************************************************)
(* Proofs about VethIndex, for any VRFs, any number of links that others   *)
(* add, any links there were at the start and any number of failed calls.  *)
(***************************************************************************)
EXTENDS VethIndex, FiniteSetTheorems, TLAPS

\* Where links can be: VRFs, bridges and VXLANs only in the pod, the two legs of
\* a veth exist together.
Places ==
    \A r \in Vrf :
        /\ \A k \in {"vrf", "bridge", "vxlan"} : at[<<k, r>>] # Host
        /\ at[<<"host", r>>] = None <=> at[Peer(r)] = None

\* The indexes of a namespace are distinct, and those of the host are counted.
Indexes ==
    /\ \A l \in Link : at[l] = Host => index[l] <= counter[Host]
    /\ \A k, l \in Link : at[k] # None /\ at[k] = at[l] /\ index[k] = index[l] => k = l

\* The index of a PE leg that kept it is used up on the host, in the pod or not.
Reserved ==
    \A r \in Vrf \ renumbered :
        at[Peer(r)] # None =>
            /\ index[Peer(r)] <= counter[Host]
            /\ \A l \in Link : at[l] = Host /\ index[l] = index[Peer(r)] => l = Peer(r)

Kernel == Places /\ Indexes /\ Reserved

\* Where the call is, with the legs it works on.
Call ==
    /\ pc = "veth" => at[<<"host", par>>] # Pod
    /\ pc \notin {"idle", "veth"} => at[Peer(par)] # None

\* The call works on the peer unless the peer got another index in this very call.
Missed == moved /\ par \in renumbered

Found ==
    ~Missed =>
        /\ pc \in {"address", "vrf", "master", "bridge", "vxlan", "done"}
              => at[Peer(par)] = Pod /\ index[Peer(par)] = peIndex
        /\ pc \in {"vrf", "master", "bridge", "vxlan", "done"} => par \in address[Peer(par)]
        /\ pc \in {"bridge", "vxlan", "done"} => master[Peer(par)] = <<"vrf", par>>

\* The inductive invariant.
Inv == TypeOK /\ Kernel /\ Call /\ Found /\ OthersUndisturbed

-----------------------------------------------------------------------------
\* The names of the links are distinct.
LEMMA LinkNames ==
    /\ \A r \in Vrf : \A k \in {"host", "pe", "vrf", "bridge", "vxlan"} : <<k, r>> \in Link
    /\ \A f \in Foreign : <<"foreign", f>> \in Link
    /\ \A r \in Vrf : Peer(r) = <<"pe", r>>
BY DEF Link, Peer

\* Every set of natural numbers has a least element.
LEMMA LeastNat ==
    ASSUME NEW S \in SUBSET Nat, S # {}
    PROVE  \E x \in S : \A y \in S : x <= y
<1> DEFINE R == {ss \in Nat \X Nat : ss[1] < ss[2]}
<1>1. IsWellFoundedOn(R, Nat)
  BY NatLessThanWellFounded DEF OpToRel
<1> HIDE DEF R
<1>2. PICK x \in S : \A y \in S : ~(<<y, x>> \in R)
  BY <1>1, WFMin
<1>3. \A y \in S : ~(y < x)
  BY <1>2 DEF R
<1> QED BY <1>3

\* There are finitely many links, so finitely many indexes are taken.
LEMMA TakenFinite ==
    ASSUME TypeOK, NEW n \in {Host, Pod}
    PROVE  IsFiniteSet(Taken(n)) /\ Cardinality(Taken(n)) \in Nat
<1> DEFINE There == {k \in Link : at[k] = n}
           Used  == {index[l] : l \in There}
<1>1. IsFiniteSet({"host", "pe", "vrf", "bridge", "vxlan"}) /\ IsFiniteSet({"foreign"})
  <2>1. {"host", "pe", "vrf", "bridge", "vxlan"} = ((({"host"} \cup {"pe"}) \cup {"vrf"}) \cup {"bridge"}) \cup {"vxlan"}
    OBVIOUS
  <2>2. IsFiniteSet((({"host"} \cup {"pe"}) \cup {"vrf"}) \cup {"bridge"})
    <3>1. IsFiniteSet({"host"} \cup {"pe"})
      BY FS_Singleton, FS_AddElement
    <3>2. IsFiniteSet(({"host"} \cup {"pe"}) \cup {"vrf"})
      BY <3>1, FS_AddElement
    <3>3. QED
      BY <3>2, FS_AddElement
  <2>3. IsFiniteSet(((({"host"} \cup {"pe"}) \cup {"vrf"}) \cup {"bridge"}) \cup {"vxlan"})
    BY <2>2, FS_AddElement
  <2>4. QED
    BY <2>1, <2>3, FS_Singleton
<1>2. IsFiniteSet({"host", "pe", "vrf", "bridge", "vxlan"} \X Vrf) /\ IsFiniteSet({"foreign"} \X Foreign)
  BY <1>1, FiniteAssumption, FS_Product
<1>3. IsFiniteSet(Link)
  BY <1>2, FS_Union DEF Link
<1>4. There \in SUBSET Link
  OBVIOUS
<1>5. IsFiniteSet(There)
  BY <1>3, <1>4, FS_Subset
<1>6. [l \in There |-> index[l]] \in Surjection(There, Used)
  BY DEF Surjection
<1>7. IsFiniteSet(Used)
  BY <1>5, <1>6, FS_Surjection
<1>8. IsFiniteSet(1..first[n])
  <2>1. first[n] \in Int /\ 1 \in Int
    BY DEF TypeOK
  <2>2. QED
    BY <2>1, FS_Interval
<1>9. IsFiniteSet(Taken(n))
  BY <1>7, <1>8, FS_Union DEF Taken
<1>10. QED
  BY <1>9, FS_CardinalityType

\* The kernel finds an index after i that no link of the namespace has.
LEMMA FreeIndex ==
    ASSUME TypeOK, NEW n \in {Host, Pod}, NEW i \in Nat
    PROVE  Free(n, i) \in Nat /\ Free(n, i) > i /\ Free(n, i) \notin Taken(n)
<1> DEFINE c  == Cardinality(Taken(n))
           S  == {j \in i + 1 .. i + 1 + c : j \notin Taken(n)}
<1>1. c \in Nat /\ IsFiniteSet(Taken(n))
  BY TakenFinite
<1>2. S # {}
  <2> SUFFICES ASSUME S = {} PROVE FALSE
    OBVIOUS
  <2>1. (i + 1 .. i + 1 + c) \in SUBSET Taken(n)
    OBVIOUS
  <2>2. Cardinality(i + 1 .. i + 1 + c) <= c
    BY <1>1, <2>1, FS_Subset
  <2> HIDE DEF c
  <2>3. Cardinality(i + 1 .. i + 1 + c) = c + 1
    <3>1. i + 1 \in Int /\ i + 1 + c \in Int /\ ~(i + 1 > i + 1 + c)
      BY <1>1
    <3>2. Cardinality(i + 1 .. i + 1 + c) = (i + 1 + c) - (i + 1) + 1
      BY <3>1, FS_Interval
    <3>3. QED
      BY <1>1, <3>2
  <2>4. QED
    BY <1>1, <2>2, <2>3
<1> HIDE DEF c
<1>3. S \in SUBSET Nat
  BY <1>1
<1>4. PICK j \in S : \A k \in S : j <= k
  BY <1>2, <1>3, LeastNat
<1>5. j \in i + 1 .. i + 1 + c /\ j \notin Taken(n) /\ \A k \in i + 1 .. j - 1 : k \in Taken(n)
  BY <1>1, <1>4
<1>6. Free(n, i) \in i + 1 .. i + 1 + c /\ Free(n, i) \notin Taken(n)
  BY <1>5 DEF Free, c
<1>7. QED
  BY <1>1, <1>6

\* No link of the namespace has a free index.
LEMMA FreeUnused ==
    ASSUME NEW n \in {Host, Pod}, NEW i, i \notin Taken(n), NEW l \in Link, at[l] = n
    PROVE  index[l] # i
BY DEF Taken

-----------------------------------------------------------------------------
\* A new link of the pod, or of others on the host, gets an index that nobody
\* has, and that no PE leg in the pod has left behind on the host.
LEMMA AddKeeps ==
    ASSUME TypeOK, Kernel, NEW n \in {Host, Pod}, NEW l \in Link, Add(l, n),
           renumbered' = renumbered,
           \A r \in Vrf : l # Peer(r) /\ l # <<"host", r>>,
           n = Host => \A r \in Vrf : l \notin {<<"vrf", r>>, <<"bridge", r>>, <<"vxlan", r>>}
    PROVE  /\ at' \in [Link -> {Host, Pod, None}]
           /\ index' \in [Link -> Nat] /\ counter' \in [{Host, Pod} -> Nat]
           /\ Kernel'
<1> DEFINE i == Free(n, counter[n])
<1>1. i \in Nat /\ i > counter[n] /\ i \notin Taken(n) /\ counter[n] \in Nat
  BY FreeIndex DEF TypeOK
<1> HIDE DEF i
<1>2. /\ at' = [at EXCEPT ![l] = n] /\ index' = [index EXCEPT ![l] = i]
      /\ counter' = [counter EXCEPT ![n] = i]
  BY DEF Add, i
<1>3. /\ at' \in [Link -> {Host, Pod, None}]
      /\ index' \in [Link -> Nat] /\ counter' \in [{Host, Pod} -> Nat]
  BY <1>1, <1>2 DEF TypeOK
<1>4. \A k \in Link : k # l => at'[k] = at[k] /\ index'[k] = index[k]
  BY <1>2 DEF TypeOK
<1>5. at'[l] = n /\ index'[l] = i
  BY <1>2 DEF TypeOK
<1>6. counter'[Host] >= counter[Host] /\ (n = Host => i = counter'[Host])
  BY <1>1, <1>2 DEF TypeOK
<1>7. \A k \in Link : at[k] = n => index[k] # i
  BY <1>1, FreeUnused
<1>8. Places'
  <2> SUFFICES ASSUME NEW r \in Vrf
               PROVE  /\ \A k \in {"vrf", "bridge", "vxlan"} : at'[<<k, r>>] # Host
                      /\ at'[<<"host", r>>] = None <=> at'[Peer(r)] = None
    BY DEF Places, Peer
  <2>1. at'[<<"host", r>>] = at[<<"host", r>>] /\ at'[Peer(r)] = at[Peer(r)]
    BY <1>4, LinkNames
  <2>2. ASSUME NEW k \in {"vrf", "bridge", "vxlan"} PROVE at'[<<k, r>>] # Host
    BY <1>4, <1>5, LinkNames DEF Kernel, Places
  <2>3. QED
    BY <2>1, <2>2 DEF Kernel, Places
<1>9. Indexes'
  <2>1. ASSUME NEW k \in Link, at'[k] = Host PROVE index'[k] <= counter'[Host]
    BY <1>1, <1>3, <1>4, <1>5, <1>6, <2>1 DEF Kernel, Indexes, TypeOK
  <2>2. ASSUME NEW j \in Link, NEW k \in Link, at'[j] # None, at'[j] = at'[k], index'[j] = index'[k]
        PROVE  j = k
    BY <1>4, <1>5, <1>7, <2>2 DEF Kernel, Indexes
  <2>3. QED
    BY <2>1, <2>2 DEF Indexes
<1>10. Reserved'
  <2> SUFFICES ASSUME NEW r \in Vrf \ renumbered, at'[Peer(r)] # None
               PROVE  /\ index'[Peer(r)] <= counter'[Host]
                      /\ \A k \in Link : at'[k] = Host /\ index'[k] = index'[Peer(r)] => k = Peer(r)
    BY DEF Reserved, Peer
  <2>1. Peer(r) \in Link /\ at'[Peer(r)] = at[Peer(r)] /\ index'[Peer(r)] = index[Peer(r)]
    BY <1>4, LinkNames
  <2>2. /\ index[Peer(r)] <= counter[Host] /\ index[Peer(r)] \in Nat /\ counter[Host] \in Nat
        /\ \A k \in Link : at[k] = Host /\ index[k] = index[Peer(r)] => k = Peer(r)
    BY <2>1 DEF Kernel, Reserved, TypeOK
  <2>3. index'[Peer(r)] <= counter'[Host]
    BY <1>3, <1>6, <2>1, <2>2
  <2>4. ASSUME NEW k \in Link, at'[k] = Host, index'[k] = index'[Peer(r)] PROVE k = Peer(r)
    <3>1. CASE k # l
      BY <1>4, <2>1, <2>2, <2>4, <3>1
    <3>2. CASE k = l
      BY <1>1, <1>5, <2>1, <2>2, <2>4, <3>2
    <3>3. QED
      BY <3>1, <3>2
  <2>5. QED
    BY <2>3, <2>4
<1>11. QED
  BY <1>3, <1>8, <1>9, <1>10 DEF Kernel

\* The two legs of a new veth get two indexes that nobody had on the host.
LEMMA AddPairKeeps ==
    ASSUME TypeOK, Kernel, NEW r \in Vrf, at[Peer(r)] = None, AddPair(r),
           renumbered' = renumbered
    PROVE  /\ at' \in [Link -> {Host, Pod, None}]
           /\ index' \in [Link -> Nat] /\ counter' \in [{Host, Pod} -> Nat]
           /\ at'[Peer(r)] = Host
           /\ Kernel'
<1> DEFINE p == Free(Host, counter[Host])
           h == Free(Host, p)
           hl == <<"host", r>>
<1>1. counter[Host] \in Nat /\ p \in Nat /\ p > counter[Host]
  BY FreeIndex DEF TypeOK
<1> HIDE DEF p
<1>2. h \in Nat /\ h > p
  BY <1>1, FreeIndex
<1>3. /\ at' = [at EXCEPT ![Peer(r)] = Host, ![hl] = Host]
      /\ index' = [index EXCEPT ![Peer(r)] = p, ![hl] = h]
      /\ counter' = [counter EXCEPT ![Host] = h]
  BY DEF AddPair, p, Peer
<1> HIDE DEF h
<1>4. Peer(r) \in Link /\ hl \in Link /\ Peer(r) # hl
  BY LinkNames DEF Peer
<1>5. /\ at' \in [Link -> {Host, Pod, None}]
      /\ index' \in [Link -> Nat] /\ counter' \in [{Host, Pod} -> Nat]
  BY <1>1, <1>2, <1>3 DEF TypeOK
<1>6. /\ at'[Peer(r)] = Host /\ at'[hl] = Host
      /\ index'[Peer(r)] = p /\ index'[hl] = h /\ counter'[Host] = h
  BY <1>3, <1>4 DEF TypeOK
<1>7. \A k \in Link : k # Peer(r) /\ k # hl => at'[k] = at[k] /\ index'[k] = index[k]
  BY <1>3 DEF TypeOK
<1>8. Places'
  <2> SUFFICES ASSUME NEW q \in Vrf
               PROVE  /\ \A k \in {"vrf", "bridge", "vxlan"} : at'[<<k, q>>] # Host
                      /\ at'[<<"host", q>>] = None <=> at'[Peer(q)] = None
    BY DEF Places, Peer
  <2>1. ASSUME NEW k \in {"vrf", "bridge", "vxlan"} PROVE at'[<<k, q>>] # Host
    BY <1>7, LinkNames DEF Kernel, Places, Peer
  <2>2. CASE q = r
    BY <1>6, <2>1, <2>2, NamespaceAssumption
  <2>3. CASE q # r
    <3>1. at'[<<"host", q>>] = at[<<"host", q>>] /\ at'[Peer(q)] = at[Peer(q)]
      BY <1>7, <2>3, LinkNames DEF Peer
    <3>2. QED
      BY <2>1, <3>1 DEF Kernel, Places
  <2>4. QED
    BY <2>2, <2>3
<1>9. \A k \in Link : at[k] = Host => index[k] <= counter[Host] /\ index[k] \in Nat
  BY DEF Kernel, Indexes, TypeOK
<1>10. Indexes'
  <2>1. ASSUME NEW k \in Link, at'[k] = Host PROVE index'[k] <= counter'[Host]
    BY <1>1, <1>2, <1>6, <1>7, <1>9, <2>1
  <2>2. ASSUME NEW j \in Link, NEW k \in Link, at'[j] # None, at'[j] = at'[k], index'[j] = index'[k]
        PROVE  j = k
    BY <1>1, <1>2, <1>6, <1>7, <1>9, <2>2 DEF Kernel, Indexes
  <2>3. QED
    BY <2>1, <2>2 DEF Indexes
<1>11. Reserved'
  <2> SUFFICES ASSUME NEW q \in Vrf \ renumbered, at'[Peer(q)] # None
               PROVE  /\ index'[Peer(q)] <= counter'[Host]
                      /\ \A k \in Link : at'[k] = Host /\ index'[k] = index'[Peer(q)] => k = Peer(q)
    BY DEF Reserved, Peer
  <2>1. CASE q = r
    BY <1>1, <1>2, <1>6, <1>7, <1>9, <2>1
  <2>2. CASE q # r
    <3>1. /\ Peer(q) \in Link /\ Peer(q) # Peer(r)
          /\ at'[Peer(q)] = at[Peer(q)] /\ index'[Peer(q)] = index[Peer(q)]
      BY <1>7, <2>2, LinkNames DEF Peer
    <3>2. /\ index[Peer(q)] <= counter[Host] /\ index[Peer(q)] \in Nat
          /\ \A k \in Link : at[k] = Host /\ index[k] = index[Peer(q)] => k = Peer(q)
      BY <3>1 DEF Kernel, Reserved, TypeOK
    <3>3. index[Peer(q)] # p /\ index[Peer(q)] # h /\ index[Peer(q)] <= h
      BY <1>1, <1>2, <3>2
    <3>4. QED
      BY <1>6, <1>7, <3>1, <3>2, <3>3
  <2>3. QED
    BY <2>1, <2>2
<1>12. QED
  BY <1>5, <1>6, <1>8, <1>10, <1>11 DEF Kernel

\* A link moved into the pod keeps an index that is free there or gets a free one.
LEMMA MoveKeeps ==
    ASSUME TypeOK, Kernel, NEW l \in Link, at[l] = Host, LinkSetNsFd(l, Pod),
           renumbered' = renumbered \cup {r \in Vrf : l = <<"pe", r>> /\ index'[l] # index[l]}
    PROVE  /\ at' \in [Link -> {Host, Pod, None}]
           /\ index' \in [Link -> Nat] /\ counter' \in [{Host, Pod} -> Nat]
           /\ at'[l] = Pod
           /\ Kernel'
<1> DEFINE f == Free(Pod, counter[Pod])
<1>1. f \in Nat /\ f \notin Taken(Pod)
  BY FreeIndex DEF TypeOK
<1>2. PICK i \in Nat : /\ i \notin Taken(Pod)
                       /\ index' = [index EXCEPT ![l] = i]
  <2>1. CASE index[l] \notin Taken(Pod)
    <3>1. index' = [index EXCEPT ![l] = index[l]]
      BY <2>1 DEF LinkSetNsFd, TypeOK
    <3>2. QED
      BY <2>1, <3>1 DEF TypeOK
  <2>2. CASE index[l] \in Taken(Pod)
    BY <1>1, <2>2 DEF LinkSetNsFd
  <2>3. QED
    BY <2>1, <2>2
<1>3. counter' \in [{Host, Pod} -> Nat] /\ counter'[Host] = counter[Host]
  BY <1>1, NamespaceAssumption DEF LinkSetNsFd, TypeOK
<1> HIDE DEF f
<1>4. at' = [at EXCEPT ![l] = Pod]
  BY DEF LinkSetNsFd
<1>5. at' \in [Link -> {Host, Pod, None}] /\ index' \in [Link -> Nat]
  BY <1>2, <1>4 DEF TypeOK
<1>6. at'[l] = Pod /\ index'[l] = i
  BY <1>2, <1>4 DEF TypeOK
<1>7. \A k \in Link : k # l => at'[k] = at[k] /\ index'[k] = index[k]
  BY <1>2, <1>4 DEF TypeOK
<1>8. \A k \in Link : at[k] = Pod => index[k] # i
  BY <1>2, FreeUnused
<1>9. Places'
  <2> SUFFICES ASSUME NEW r \in Vrf
               PROVE  /\ \A k \in {"vrf", "bridge", "vxlan"} : at'[<<k, r>>] # Host
                      /\ at'[<<"host", r>>] = None <=> at'[Peer(r)] = None
    BY DEF Places, Peer
  <2>1. \A k \in Link : (at'[k] = Host => at[k] = Host) /\ (at'[k] = None <=> at[k] = None)
    BY <1>6, <1>7, NamespaceAssumption
  <2>2. QED
    BY <2>1, LinkNames DEF Kernel, Places
<1>10. Indexes'
  <2>1. ASSUME NEW k \in Link, at'[k] = Host PROVE index'[k] <= counter'[Host]
    BY <1>3, <1>6, <1>7, <2>1, NamespaceAssumption DEF Kernel, Indexes
  <2>2. ASSUME NEW j \in Link, NEW k \in Link, at'[j] # None, at'[j] = at'[k], index'[j] = index'[k]
        PROVE  j = k
    BY <1>6, <1>7, <1>8, <2>2 DEF Kernel, Indexes
  <2>3. QED
    BY <2>1, <2>2 DEF Indexes
<1>11. Reserved'
  <2> SUFFICES ASSUME NEW r \in Vrf, r \notin renumbered', at'[Peer(r)] # None
               PROVE  /\ index'[Peer(r)] <= counter'[Host]
                      /\ \A k \in Link : at'[k] = Host /\ index'[k] = index'[Peer(r)] => k = Peer(r)
    BY DEF Reserved, Peer
  <2>1. Peer(r) \in Link /\ at[Peer(r)] # None /\ r \notin renumbered
    BY <1>6, <1>7, LinkNames, NamespaceAssumption
  <2>2. index'[Peer(r)] = index[Peer(r)]
    BY <1>7, <2>1 DEF Peer
  <2>3. /\ index[Peer(r)] <= counter[Host]
        /\ \A k \in Link : at[k] = Host /\ index[k] = index[Peer(r)] => k = Peer(r)
    BY <2>1 DEF Kernel, Reserved
  <2>4. QED
    BY <1>3, <1>6, <1>7, <2>2, <2>3, NamespaceAssumption
<1>12. QED
  BY <1>3, <1>5, <1>6, <1>9, <1>10, <1>11 DEF Kernel

-----------------------------------------------------------------------------
\* A step that leaves the links and their numbers alone leaves the kernel's facts.
LEMMA KernelUnchanged ==
    ASSUME Kernel, at' = at, index' = index, counter' = counter, renumbered' = renumbered
    PROVE  Kernel'
BY DEF Kernel, Places, Indexes, Reserved, Peer

\* Before the first call there are no links.
LEMMA InitInv == Init => Inv
<1> SUFFICES ASSUME Init PROVE Inv
  OBVIOUS
<1>1. first \in [{Host, Pod} -> Nat]
  BY StartAssumption DEF Init
<1>2. /\ at \in [Link -> {Host, Pod, None}] /\ index \in [Link -> Nat]
      /\ master \in [Link -> (Link \cup {None})] /\ address \in [Link -> SUBSET Vrf]
  BY DEF Init
<1>3. TypeOK
  <2>1. fails \in 0..MaxFails /\ peIndex \in Nat /\ counter \in [{Host, Pod} -> Nat]
    BY <1>1, BoundAssumption DEF Init
  <2>2. QED
    BY <1>1, <1>2, <2>1, Zenon DEF Init, TypeOK
<1>4. \A l \in Link : at[l] = None
  BY DEF Init
<1>5. Kernel
  BY <1>4, LinkNames, NamespaceAssumption DEF Kernel, Places, Indexes, Reserved
<1>6. Call /\ Found
  BY DEF Init, Call, Found
<1>7. OthersUndisturbed
  BY <1>4, LinkNames, NamespaceAssumption DEF Init, OthersUndisturbed
<1>8. QED
  BY <1>3, <1>5, <1>6, <1>7 DEF Inv

\* What others add on the host touches no link of a VNI.
LEMMA ForeignStep ==
    ASSUME Inv, NEW f \in Foreign, ForeignAdded(f)
    PROVE  Inv'
<1> DEFINE l == <<"foreign", f>>
<1>1. l \in Link /\ \A r \in Vrf : \A k \in {"host", "pe", "vrf", "bridge", "vxlan"} : l # <<k, r>>
  BY LinkNames
<1>2. /\ Add(l, Host) /\ renumbered' = renumbered
      /\ UNCHANGED <<first, master, address, pc, par, peIndex, moved, fails>>
  BY DEF ForeignAdded, config
<1>3. /\ at' \in [Link -> {Host, Pod, None}]
      /\ index' \in [Link -> Nat] /\ counter' \in [{Host, Pod} -> Nat]
      /\ Kernel'
  BY <1>1, <1>2, AddKeeps DEF Inv, Peer
<1>4. TypeOK'
  BY <1>2, <1>3 DEF Inv, TypeOK
<1>5. \A r \in Vrf : \A k \in {"host", "pe", "vrf", "bridge", "vxlan"} :
         at'[<<k, r>>] = at[<<k, r>>] /\ index'[<<k, r>>] = index[<<k, r>>]
  BY <1>1, <1>2, LinkNames DEF Add, Inv, TypeOK
<1>6. Call'
  BY <1>2, <1>5 DEF Inv, TypeOK, Call, Peer
<1>7. Found'
  BY <1>2, <1>5 DEF Inv, TypeOK, Found, Missed, Peer
<1>8. OthersUndisturbed'
  BY <1>2, <1>5 DEF Inv, OthersUndisturbed, Peer
<1>9. QED
  BY <1>3, <1>4, <1>6, <1>7, <1>8 DEF Inv

\* A call begins.
LEMMA StartStep ==
    ASSUME Inv, NEW r \in Vrf, StartSetup(r)
    PROVE  Inv'
<1>1. TypeOK'
  BY NamespaceAssumption DEF StartSetup, Inv, TypeOK, kernel, config
<1>2. Kernel'
  BY KernelUnchanged DEF StartSetup, Inv, kernel
<1>3. Call' /\ Found'
  BY DEF StartSetup, Call, Found, kernel
<1>4. OthersUndisturbed'
  BY DEF StartSetup, Inv, OthersUndisturbed, kernel, config, Peer
<1>5. QED
  BY <1>1, <1>2, <1>3, <1>4 DEF Inv

\* The call that finds no host leg creates both legs.
LEMMA HostLegStep ==
    ASSUME Inv, FindHostLeg
    PROVE  Inv'
<1>1. /\ par \in Vrf /\ pc = "veth" /\ pc' = "peer" /\ renumbered' = renumbered
      /\ UNCHANGED <<first, par, fails, master, address, peIndex, moved>>
  BY DEF FindHostLeg, Goto, config, Inv, TypeOK
<1>2. CASE at[<<"host", par>>] = Host
  <2>1. UNCHANGED kernel
    BY <1>2 DEF FindHostLeg
  <2>2. TypeOK'
    BY <1>1, <2>1 DEF Inv, TypeOK, kernel
  <2>3. Kernel'
    BY <1>1, <2>1, KernelUnchanged DEF Inv, kernel
  <2>4. at'[Peer(par)] # None
    BY <1>1, <1>2, <2>1, NamespaceAssumption DEF Inv, Kernel, Places, kernel
  <2>5. Call' /\ Found'
    BY <1>1, <2>4 DEF Call, Found, Peer
  <2>6. OthersUndisturbed'
    BY <1>1, <2>1 DEF Inv, OthersUndisturbed, kernel, Peer
  <2>7. QED
    BY <2>2, <2>3, <2>5, <2>6 DEF Inv
<1>3. CASE at[<<"host", par>>] # Host
  <2>1. at[Peer(par)] = None /\ AddPair(par)
    BY <1>1, <1>3, LinkNames DEF FindHostLeg, Inv, TypeOK, Call, Kernel, Places
  <2>2. /\ at' \in [Link -> {Host, Pod, None}]
        /\ index' \in [Link -> Nat] /\ counter' \in [{Host, Pod} -> Nat]
        /\ at'[Peer(par)] = Host /\ Kernel'
    BY <1>1, <2>1, AddPairKeeps DEF Inv
  <2>3. TypeOK'
    BY <1>1, <2>2 DEF Inv, TypeOK
  <2>4. Call' /\ Found'
    BY <1>1, <2>2, NamespaceAssumption DEF Call, Found, Peer
  <2>5. \A r \in Vrf : at'[<<"bridge", r>>] = at[<<"bridge", r>>]
    BY <2>1, LinkNames DEF AddPair, Inv, TypeOK
  <2>6. OthersUndisturbed'
    BY <1>1, <2>5 DEF Inv, OthersUndisturbed, Peer
  <2>7. QED
    BY <2>2, <2>3, <2>4, <2>6 DEF Inv
<1>4. QED
  BY <1>2, <1>3

\* The link that setupVeth finds on the host is the peer of its host leg, as long
\* as the peer has the index it was created with.
LEMMA SamePeer ==
    ASSUME Inv, pc = "peer", par \notin renumbered, NEW l \in ByIndex(Host, VethPeerIndex(par))
    PROVE  l = Peer(par)
<1>1. par \in Vrf /\ at[Peer(par)] # None
  BY DEF Inv, TypeOK, Call
<1>2. l \in Link /\ at[l] = Host /\ index[l] = index[Peer(par)]
  BY DEF ByIndex, VethPeerIndex, Peer
<1>3. QED
  BY <1>1, <1>2 DEF Inv, Kernel, Reserved

\* Moving the peer takes it to the pod, with the index it was found with or, if
\* that is taken, as a renumbered one.
LEMMA MoveStep ==
    ASSUME Inv, NEW l \in Link, MovePeer(l)
    PROVE  Inv'
<1>1. /\ par \in Vrf /\ pc = "peer" /\ pc' = "address" /\ moved' = (l = Peer(par)) /\ peIndex' = index[l]
      /\ UNCHANGED <<first, par, fails>>
      /\ master' = [master EXCEPT ![l] = None] /\ address' = [address EXCEPT ![l] = {}]
  BY DEF MovePeer, Goto, Inv, TypeOK, Peer
<1>2. at[l] = Host /\ LinkSetNsFd(l, Pod) /\ index[l] = index[Peer(par)]
      /\ renumbered' = renumbered \cup {r \in Vrf : l = <<"pe", r>> /\ index'[l] # index[l]}
  BY DEF MovePeer, ByIndex, VethPeerIndex, Peer
<1>3. /\ at' \in [Link -> {Host, Pod, None}]
      /\ index' \in [Link -> Nat] /\ counter' \in [{Host, Pod} -> Nat]
      /\ at'[l] = Pod /\ Kernel'
  BY <1>2, MoveKeeps DEF Inv
<1>4. TypeOK'
  <2>1. renumbered' \subseteq Vrf
    BY <1>2 DEF Inv, TypeOK
  <2>2. master' \in [Link -> (Link \cup {None})] /\ address' \in [Link -> SUBSET Vrf]
    BY <1>1 DEF Inv, TypeOK
  <2>3. peIndex' \in Nat
    BY <1>1 DEF Inv, TypeOK
  <2>4. QED
    BY <1>1, <1>3, <2>1, <2>2, <2>3 DEF Inv, TypeOK
<1>5. \A k \in Link : k # l => at'[k] = at[k]
  BY <1>2 DEF LinkSetNsFd, Inv, TypeOK
<1>6. Call'
  <2>1. at'[Peer(par)] # None
    BY <1>1, <1>3, <1>5, LinkNames, NamespaceAssumption DEF Inv, Call
  <2>2. QED
    BY <1>1, <2>1 DEF Call, Peer
<1>7. par \notin renumbered => l = Peer(par)
  BY SamePeer DEF MovePeer
<1>8. Found'
  <2>1. par \notin renumbered' => at'[Peer(par)] = Pod /\ index'[Peer(par)] = peIndex'
    BY <1>1, <1>2, <1>3, <1>7 DEF Peer
  <2>2. l # Peer(par) => at'[Peer(par)] = Pod /\ index'[Peer(par)] = peIndex'
    <3> SUFFICES ASSUME l # Peer(par) PROVE at'[Peer(par)] = Pod /\ index'[Peer(par)] = peIndex'
      OBVIOUS
    <3>1. Peer(par) \in Link /\ at[Peer(par)] # None
      BY <1>1, LinkNames DEF Inv, Call
    <3>2. at[Peer(par)] # Host
      BY <1>2, <3>1, NamespaceAssumption DEF Inv, Kernel, Indexes
    <3>3. at[Peer(par)] = Pod
      BY <3>1, <3>2 DEF Inv, TypeOK
    <3>4. at'[Peer(par)] = Pod /\ index'[Peer(par)] = index[Peer(par)]
      BY <1>2, <3>1, <3>3 DEF LinkSetNsFd, Inv, TypeOK
    <3>5. QED
      BY <1>1, <1>2, <3>4
  <2>3. QED
    BY <1>1, <2>1, <2>2 DEF Found, Missed, Peer
<1>9. OthersUndisturbed'
  <2> SUFFICES ASSUME renumbered' = {}
               PROVE  /\ \A k \in Link : address'[k] # {} => \E r \in Vrf : k = Peer(r) /\ address'[k] = {r}
                      /\ \A r \in Vrf : at'[<<"bridge", r>>] = Pod => master'[<<"bridge", r>>] = <<"vrf", r>>
    BY DEF OthersUndisturbed, Peer
  <2>1. renumbered = {} /\ l = Peer(par)
    BY <1>2, <1>7
  <2>2. /\ \A k \in Link : address[k] # {} => \E r \in Vrf : k = Peer(r) /\ address[k] = {r}
        /\ \A r \in Vrf : at[<<"bridge", r>>] = Pod => master[<<"bridge", r>>] = <<"vrf", r>>
    BY <2>1 DEF Inv, OthersUndisturbed
  <2>3. \A k \in Link : k # l => address'[k] = address[k] /\ master'[k] = master[k]
    BY <1>1 DEF Inv, TypeOK
  <2>4. address'[l] = {}
    BY <1>1 DEF Inv, TypeOK
  <2>5. \A r \in Vrf : <<"bridge", r>> # l /\ <<"bridge", r>> \in Link
    BY <2>1, LinkNames DEF Peer
  <2>6. QED
    BY <1>5, <2>2, <2>3, <2>4, <2>5
<1>10. QED
  BY <1>3, <1>4, <1>6, <1>8, <1>9 DEF Inv

\* A call that does not find the peer on the host finds it in the pod, where it is.
LEMMA PeerStep ==
    ASSUME Inv, FindPeerInNamespace
    PROVE  Inv'
<1>1. par \in Vrf /\ pc = "peer" /\ UNCHANGED <<at, index, counter, master, address, renumbered, first, fails>>
  BY DEF FindPeerInNamespace, Goto, kernel, config, Inv, TypeOK
<1>2. Kernel'
  BY <1>1, KernelUnchanged DEF Inv
<1>3. OthersUndisturbed'
  BY <1>1 DEF Inv, OthersUndisturbed, Peer
<1>4. at[Peer(par)] = Pod
  <2>1. Peer(par) \in Link /\ at[Peer(par)] # None /\ index[Peer(par)] = VethPeerIndex(par)
    BY <1>1, LinkNames DEF Inv, Call, VethPeerIndex, Peer
  <2>2. at[Peer(par)] # Host
    BY <2>1 DEF FindPeerInNamespace, ByIndex
  <2>3. QED
    BY <2>1, <2>2 DEF Inv, TypeOK
<1>5. CASE ByIndex(Pod, VethPeerIndex(par)) # {}
  <2>1. pc' = "address" /\ peIndex' = index[Peer(par)] /\ UNCHANGED <<moved, par>>
    BY <1>5 DEF FindPeerInNamespace, Goto, VethPeerIndex, Peer
  <2>2. peIndex' \in Nat
    BY <1>1, <2>1, LinkNames DEF Inv, TypeOK
  <2>3. TypeOK'
    BY <1>1, <2>1, <2>2 DEF Inv, TypeOK
  <2>4. Call' /\ Found'
    BY <1>1, <1>4, <2>1, NamespaceAssumption DEF Call, Found, Peer
  <2>5. QED
    BY <1>2, <1>3, <2>3, <2>4 DEF Inv
<1>6. CASE ByIndex(Pod, VethPeerIndex(par)) = {}
  <2>1. pc' = "idle" /\ par' = None /\ peIndex' = 0 /\ moved' = FALSE
    BY <1>6 DEF FindPeerInNamespace, Fails
  <2>2. TypeOK'
    BY <1>1, <2>1 DEF Inv, TypeOK
  <2>3. Call' /\ Found'
    BY <2>1 DEF Call, Found
  <2>4. QED
    BY <1>2, <1>3, <2>2, <2>3 DEF Inv
<1>7. QED
  BY <1>5, <1>6

\* SetupVNI's index names the peer, and if no leg was ever renumbered nothing else.
LEMMA IndexNamesPeer ==
    ASSUME Inv, pc \in {"address", "vrf", "master", "bridge", "vxlan", "done"}
    PROVE  /\ ~Missed => Peer(par) \in ByIndex(Pod, peIndex)
           /\ renumbered = {} => ByIndex(Pod, peIndex) = {Peer(par)}
<1>1. par \in Vrf /\ Peer(par) \in Link
  BY LinkNames DEF Inv, TypeOK
<1>2. ~Missed => Peer(par) \in ByIndex(Pod, peIndex)
  BY <1>1 DEF Inv, Found, ByIndex
<1>3. renumbered = {} => ~Missed
  BY DEF Missed
<1>4. ASSUME NEW l \in ByIndex(Pod, peIndex), Peer(par) \in ByIndex(Pod, peIndex)
      PROVE  l = Peer(par)
  BY <1>4, NamespaceAssumption DEF ByIndex, Inv, Kernel, Indexes
<1>5. QED
  BY <1>2, <1>3, <1>4

\* The PE address goes to the peer.
LEMMA AddressStep ==
    ASSUME Inv, AssignNSIP
    PROVE  Inv'
<1>1. /\ par \in Vrf /\ pc = "address" /\ pc' = "vrf"
      /\ UNCHANGED <<at, index, counter, first, master, par, fails, peIndex, moved, renumbered>>
      /\ address' = [l \in Link |-> IF l \in ByIndex(Pod, peIndex) THEN address[l] \cup {par} ELSE address[l]]
  BY DEF AssignNSIP, Goto, kernel, Inv, TypeOK
<1>2. TypeOK'
  <2>1. address' \in [Link -> SUBSET Vrf]
    BY <1>1 DEF Inv, TypeOK
  <2>2. QED
    BY <1>1, <2>1 DEF Inv, TypeOK
<1>3. Kernel'
  BY <1>1, KernelUnchanged DEF Inv
<1>4. Call'
  BY <1>1 DEF Inv, Call, Peer
<1>5. Peer(par) \in Link
  BY <1>1, LinkNames
<1>6. ~Missed => Peer(par) \in ByIndex(Pod, peIndex)
  BY <1>1, IndexNamesPeer
<1>7. ~Missed => par \in address'[Peer(par)]
  BY <1>1, <1>5, <1>6
<1>8. Found'
  BY <1>1, <1>7 DEF Inv, Found, Missed, Peer
<1>9. OthersUndisturbed'
  <2> SUFFICES ASSUME renumbered = {}
               PROVE  /\ \A k \in Link : address'[k] # {} => \E r \in Vrf : k = Peer(r) /\ address'[k] = {r}
                      /\ \A r \in Vrf : at[<<"bridge", r>>] = Pod => master[<<"bridge", r>>] = <<"vrf", r>>
    BY <1>1 DEF OthersUndisturbed, Peer
  <2>1. ByIndex(Pod, peIndex) = {Peer(par)}
    BY <1>1, IndexNamesPeer
  <2>2. /\ \A k \in Link : address[k] # {} => \E r \in Vrf : k = Peer(r) /\ address[k] = {r}
        /\ \A r \in Vrf : at[<<"bridge", r>>] = Pod => master[<<"bridge", r>>] = <<"vrf", r>>
    BY DEF Inv, OthersUndisturbed
  <2>3. ASSUME NEW k \in Link, address'[k] # {} PROVE \E r \in Vrf : k = Peer(r) /\ address'[k] = {r}
    <3>1. CASE k # Peer(par)
      BY <1>1, <2>1, <2>2, <2>3, <3>1
    <3>2. CASE k = Peer(par)
      <4>1. address'[k] = address[k] \cup {par}
        BY <1>1, <2>1, <3>2
      <4>2. address[k] = {} \/ address[k] = {par}
        BY <2>2, <3>2 DEF Peer
      <4>3. address'[k] = {par}
        BY <4>1, <4>2
      <4>4. QED
        BY <1>1, <3>2, <4>3
    <3>3. QED
      BY <3>1, <3>2
  <2>4. QED
    BY <2>2, <2>3
<1>10. QED
  BY <1>2, <1>3, <1>4, <1>8, <1>9 DEF Inv

\* A step that adds a VRF, bridge or VXLAN of the call to the pod, or leaves the
\* links alone, keeps the kernel's facts and the legs.
LEMMA PodLinkStep ==
    ASSUME Inv, par \in Vrf, NEW k \in {"vrf", "bridge", "vxlan"},
           Add(<<k, par>>, Pod) \/ UNCHANGED kernel, renumbered' = renumbered
    PROVE  /\ at' \in [Link -> {Host, Pod, None}]
           /\ index' \in [Link -> Nat] /\ counter' \in [{Host, Pod} -> Nat]
           /\ Kernel'
           /\ at'[Peer(par)] = at[Peer(par)] /\ index'[Peer(par)] = index[Peer(par)]
           /\ \A j \in Link : j # <<k, par>> => at'[j] = at[j]
           /\ Add(<<k, par>>, Pod) => at'[<<k, par>>] = Pod
<1>1. CASE UNCHANGED kernel /\ ~Add(<<k, par>>, Pod)
  <2>1. Kernel'
    BY <1>1, KernelUnchanged DEF Inv, kernel
  <2>2. QED
    BY <1>1, <2>1 DEF kernel, Inv, TypeOK
<1>2. CASE Add(<<k, par>>, Pod)
  <2>1. <<k, par>> \in Link /\ Peer(par) \in Link /\ \A r \in Vrf : <<k, par>> # Peer(r) /\ <<k, par>> # <<"host", r>>
    BY LinkNames DEF Peer
  <2>2. /\ at' \in [Link -> {Host, Pod, None}]
        /\ index' \in [Link -> Nat] /\ counter' \in [{Host, Pod} -> Nat] /\ Kernel'
    BY <1>2, <2>1, AddKeeps, NamespaceAssumption DEF Inv
  <2>3. /\ at'[Peer(par)] = at[Peer(par)] /\ index'[Peer(par)] = index[Peer(par)]
        /\ \A j \in Link : j # <<k, par>> => at'[j] = at[j]
        /\ at'[<<k, par>>] = Pod
    BY <1>2, <2>1 DEF Add, Inv, TypeOK
  <2>4. QED
    BY <2>2, <2>3
<1>3. QED
  BY <1>1, <1>2

\* SetupVRF adds the VRF if it is missing.
LEMMA VRFStep ==
    ASSUME Inv, SetupVRF
    PROVE  Inv'
<1>1. /\ par \in Vrf /\ pc = "vrf" /\ pc' = "master"
      /\ UNCHANGED <<first, master, address, par, fails, peIndex, moved, renumbered>>
      /\ Add(<<"vrf", par>>, Pod) \/ UNCHANGED kernel
  BY DEF SetupVRF, Goto, config, Inv, TypeOK
<1>2. /\ at' \in [Link -> {Host, Pod, None}]
      /\ index' \in [Link -> Nat] /\ counter' \in [{Host, Pod} -> Nat]
      /\ Kernel'
      /\ at'[Peer(par)] = at[Peer(par)] /\ index'[Peer(par)] = index[Peer(par)]
      /\ \A j \in Link : j # <<"vrf", par>> => at'[j] = at[j]
  BY <1>1, PodLinkStep
<1>3. TypeOK'
  BY <1>1, <1>2 DEF Inv, TypeOK
<1>4. Call' /\ Found'
  BY <1>1, <1>2 DEF Inv, Call, Found, Missed, Peer
<1>5. \A r \in Vrf : at'[<<"bridge", r>>] = at[<<"bridge", r>>]
  BY <1>2, LinkNames
<1>6. OthersUndisturbed'
  BY <1>1, <1>5 DEF Inv, OthersUndisturbed, Peer
<1>7. QED
  BY <1>2, <1>3, <1>4, <1>6 DEF Inv

\* The peer is put into the VRF.
LEMMA MasterStep ==
    ASSUME Inv, LinkSetMaster
    PROVE  Inv'
<1>1. /\ par \in Vrf /\ pc = "master"
      /\ UNCHANGED <<at, index, counter, first, address, fails, renumbered>>
  BY DEF LinkSetMaster, Goto, kernel, Inv, TypeOK
<1>2. Kernel'
  BY <1>1, KernelUnchanged DEF Inv
<1>3. CASE \E l \in ByIndex(Pod, peIndex) : l[1] # "vrf"
  <2>1. /\ pc' = "bridge" /\ UNCHANGED <<par, peIndex, moved>>
        /\ master' = [l \in Link |-> IF l \in ByIndex(Pod, peIndex) THEN <<"vrf", par>> ELSE master[l]]
    BY <1>3 DEF LinkSetMaster, Goto
  <2>2. TypeOK'
    <3>1. master' \in [Link -> (Link \cup {None})]
      BY <1>1, <2>1, LinkNames DEF Inv, TypeOK
    <3>2. QED
      BY <1>1, <2>1, <3>1 DEF Inv, TypeOK
  <2>3. Call'
    BY <1>1, <2>1 DEF Inv, Call, Peer
  <2>4. ~Missed => master'[Peer(par)] = <<"vrf", par>>
    BY <1>1, <2>1, IndexNamesPeer, LinkNames
  <2>5. Found'
    BY <1>1, <2>1, <2>4 DEF Inv, Found, Missed, Peer
  <2>6. renumbered = {} => \A r \in Vrf : master'[<<"bridge", r>>] = master[<<"bridge", r>>]
    BY <1>1, <2>1, IndexNamesPeer, LinkNames DEF Peer
  <2>7. OthersUndisturbed'
    BY <1>1, <2>6 DEF Inv, OthersUndisturbed, Peer
  <2>8. QED
    BY <1>2, <2>2, <2>3, <2>5, <2>7 DEF Inv
<1>4. CASE ~\E l \in ByIndex(Pod, peIndex) : l[1] # "vrf"
  <2>1. pc' = "idle" /\ par' = None /\ peIndex' = 0 /\ moved' = FALSE /\ UNCHANGED master
    BY <1>4 DEF LinkSetMaster, Fails
  <2>2. TypeOK'
    BY <1>1, <2>1 DEF Inv, TypeOK
  <2>3. Call' /\ Found'
    BY <2>1 DEF Call, Found
  <2>4. OthersUndisturbed'
    BY <1>1, <2>1 DEF Inv, OthersUndisturbed, Peer
  <2>5. QED
    BY <1>2, <2>2, <2>3, <2>4 DEF Inv
<1>5. QED
  BY <1>3, <1>4

\* A new bridge is put into its VRF, an existing one is left where it is.
LEMMA BridgeStep ==
    ASSUME Inv, SetupBridge
    PROVE  Inv'
<1> DEFINE b == <<"bridge", par>>
<1>1. /\ par \in Vrf /\ pc = "bridge" /\ pc' = "vxlan"
      /\ UNCHANGED <<first, address, par, fails, peIndex, moved, renumbered>>
      /\ \/ Add(b, Pod) /\ master' = [master EXCEPT ![b] = <<"vrf", par>>]
         \/ UNCHANGED kernel /\ UNCHANGED master
  BY DEF SetupBridge, Goto, Inv, TypeOK
<1>2. /\ at' \in [Link -> {Host, Pod, None}]
      /\ index' \in [Link -> Nat] /\ counter' \in [{Host, Pod} -> Nat]
      /\ Kernel'
      /\ at'[Peer(par)] = at[Peer(par)] /\ index'[Peer(par)] = index[Peer(par)]
      /\ \A j \in Link : j # b => at'[j] = at[j]
  BY <1>1, PodLinkStep
<1>3. master' \in [Link -> (Link \cup {None})] /\ \A j \in Link : j # b => master'[j] = master[j]
  BY <1>1, LinkNames DEF Inv, TypeOK
<1>4. TypeOK'
  BY <1>1, <1>2, <1>3 DEF Inv, TypeOK
<1>5. Peer(par) \in Link /\ Peer(par) # b
  BY <1>1, LinkNames DEF Peer
<1>6. master'[Peer(par)] = master[Peer(par)]
  BY <1>3, <1>5
<1>7. Call' /\ Found'
  BY <1>1, <1>2, <1>6 DEF Inv, Call, Found, Missed, Peer
<1>8. ASSUME NEW r \in Vrf, renumbered = {}, at'[<<"bridge", r>>] = Pod
      PROVE  master'[<<"bridge", r>>] = <<"vrf", r>>
  <2>1. \A q \in Vrf : at[<<"bridge", q>>] = Pod => master[<<"bridge", q>>] = <<"vrf", q>>
    BY <1>8 DEF Inv, OthersUndisturbed
  <2>2. CASE r # par
    BY <1>2, <1>3, <1>8, <2>1, <2>2, LinkNames
  <2>3. CASE r = par /\ Add(b, Pod) /\ master' = [master EXCEPT ![b] = <<"vrf", par>>]
    BY <1>1, <2>3, LinkNames DEF Inv, TypeOK
  <2>4. CASE r = par /\ UNCHANGED kernel /\ UNCHANGED master
    BY <1>8, <2>1, <2>4 DEF kernel
  <2>5. QED
    BY <1>1, <2>2, <2>3, <2>4
<1>9. OthersUndisturbed'
  BY <1>1, <1>8 DEF Inv, OthersUndisturbed, Peer
<1>10. QED
  BY <1>2, <1>4, <1>7, <1>9 DEF Inv

\* A VXLAN that is made anew touches neither leg nor bridge.
LEMMA VXLanStep ==
    ASSUME Inv, SetupVXLan
    PROVE  Inv'
<1> DEFINE x == <<"vxlan", par>>
<1>1. /\ par \in Vrf /\ pc = "vxlan" /\ pc' = "done"
      /\ UNCHANGED <<first, par, fails, peIndex, moved, renumbered>>
      /\ \/ /\ Add(x, Pod) /\ master' = [master EXCEPT ![x] = <<"bridge", par>>]
            /\ address' = [address EXCEPT ![x] = {}]
         \/ UNCHANGED kernel /\ UNCHANGED <<master, address>>
  BY DEF SetupVXLan, Goto, config, Inv, TypeOK
<1>2. /\ at' \in [Link -> {Host, Pod, None}]
      /\ index' \in [Link -> Nat] /\ counter' \in [{Host, Pod} -> Nat]
      /\ Kernel'
      /\ at'[Peer(par)] = at[Peer(par)] /\ index'[Peer(par)] = index[Peer(par)]
      /\ \A j \in Link : j # x => at'[j] = at[j]
  BY <1>1, PodLinkStep
<1>3. /\ master' \in [Link -> (Link \cup {None})] /\ address' \in [Link -> SUBSET Vrf]
      /\ \A j \in Link : j # x => master'[j] = master[j] /\ address'[j] = address[j]
      /\ address'[x] \in {{}, address[x]}
  BY <1>1, LinkNames DEF Inv, TypeOK
<1>4. TypeOK'
  BY <1>1, <1>2, <1>3 DEF Inv, TypeOK
<1>5. Peer(par) \in Link /\ Peer(par) # x
  BY <1>1, LinkNames DEF Peer
<1>6. master'[Peer(par)] = master[Peer(par)] /\ address'[Peer(par)] = address[Peer(par)]
  BY <1>3, <1>5
<1>7. Call' /\ Found'
  BY <1>1, <1>2, <1>6 DEF Inv, Call, Found, Missed, Peer
<1>8. \A r \in Vrf : /\ at'[<<"bridge", r>>] = at[<<"bridge", r>>]
                     /\ master'[<<"bridge", r>>] = master[<<"bridge", r>>]
  BY <1>2, <1>3, LinkNames
<1>9. \A l \in Link : address'[l] = {} \/ address'[l] = address[l]
  BY <1>3
<1>10. OthersUndisturbed'
  BY <1>1, <1>8, <1>9 DEF Inv, OthersUndisturbed, Peer
<1>11. QED
  BY <1>2, <1>4, <1>7, <1>10 DEF Inv

\* A call that ends, of itself or cut short, leaves the links as they are.
LEMMA EndStep ==
    ASSUME Inv, Return \/ CutShort
    PROVE  Inv'
<1>1. /\ pc' = "idle" /\ par' = None /\ peIndex' = 0 /\ moved' = FALSE
      /\ UNCHANGED <<at, index, counter, first, master, address, renumbered>>
  BY DEF Return, CutShort, Fails, kernel, config
<1>2. fails' \in 0..MaxFails
  BY BoundAssumption DEF Return, CutShort, Inv, TypeOK
<1>3. TypeOK'
  BY <1>1, <1>2 DEF Inv, TypeOK
<1>4. Kernel'
  BY <1>1, KernelUnchanged DEF Inv
<1>5. Call' /\ Found' /\ OthersUndisturbed'
  BY <1>1 DEF Inv, Call, Found, OthersUndisturbed, Peer
<1>6. QED
  BY <1>3, <1>4, <1>5 DEF Inv

-----------------------------------------------------------------------------
\* Every step of the calls and of others keeps the invariant.
LEMMA NextInv == Inv /\ [Next]_vars => Inv'
<1> SUFFICES ASSUME Inv, [Next]_vars PROVE Inv'
  OBVIOUS
<1>1. CASE Next
  BY <1>1, ForeignStep, StartStep, HostLegStep, MoveStep, PeerStep, AddressStep, VRFStep,
     MasterStep, BridgeStep, VXLanStep, EndStep DEF Next
<1>2. CASE UNCHANGED vars
  <2>1. Kernel'
    BY <1>2, KernelUnchanged DEF Inv, vars, kernel
  <2>2. TypeOK'
    BY <1>2 DEF Inv, TypeOK, vars, kernel, config
  <2>3. Call' /\ Found' /\ OthersUndisturbed'
    BY <1>2 DEF Inv, Call, Found, Missed, OthersUndisturbed, Peer, vars, kernel, config
  <2>4. QED
    BY <2>1, <2>2, <2>3 DEF Inv
<1>3. QED
  BY <1>1, <1>2

\* The inductive invariant of the interface indexes holds in every reachable state.
THEOREM Invariance == Spec => []Inv
BY InitInv, NextInv, PTL DEF Spec

\* Links, indexes and the variables of SetupVNI keep their types.
THEOREM TypeCorrect == Spec => []TypeOK
BY Invariance, PTL DEF Inv

\* A SetupVNI that succeeds has given PE address and VRF to the peer of its host
\* leg, unless this call moved it and its index was taken in the pod.
THEOREM PeerIsConfigured == Spec => []PeerConfigured
<1>1. Inv => PeerConfigured
  BY DEF Inv, Found, Missed, PeerConfigured
<1>2. QED
  BY Invariance, <1>1, PTL

\* As long as no PE leg was renumbered, SetupVNI of one VRF gives its address to
\* no link of another and takes no bridge out of its VRF.
THEOREM OthersStayUndisturbed == Spec => []OthersUndisturbed
BY Invariance, PTL DEF Inv

\* setupVeth moves no link into the pod but the peer of its host leg, as long as
\* that has the index it was created with.
THEOREM OnlyThePeerMoves == Spec => OnlyPeerMoves
<1>1. Inv /\ [Next]_vars
      => [\A l \in Link : at[l] = Host /\ at'[l] = Pod => l = <<"pe", par>> \/ par \in renumbered]_vars
  <2> SUFFICES ASSUME Inv, Next, NEW l \in Link, at[l] = Host, at'[l] = Pod, par \notin renumbered
               PROVE  l = Peer(par)
    BY DEF Peer
  <2>1. at'[l] # at[l]
    BY NamespaceAssumption
  <2>2. CASE \E k \in Link : MovePeer(k)
    <3>1. PICK k \in Link : MovePeer(k)
      BY <2>2
    <3>2. k = l
      BY <2>1, <3>1 DEF MovePeer, LinkSetNsFd, Inv, TypeOK
    <3>3. QED
      BY <3>1, <3>2, SamePeer DEF MovePeer
  <2>3. CASE \E f \in Foreign : ForeignAdded(f)
    BY <2>3, NamespaceAssumption DEF ForeignAdded, Add, Inv, TypeOK
  <2>4. CASE FindHostLeg
    BY <2>4, NamespaceAssumption DEF FindHostLeg, AddPair, kernel, Inv, TypeOK
  <2>5. CASE SetupVRF \/ SetupBridge \/ SetupVXLan
    <3>1. par \in Vrf
      BY <2>5 DEF SetupVRF, SetupBridge, SetupVXLan, Inv, TypeOK
    <3>2. PICK k \in {"vrf", "bridge", "vxlan"} : l = <<k, par>>
      BY <2>1, <2>5 DEF SetupVRF, SetupBridge, SetupVXLan, Add, kernel, Inv, TypeOK
    <3>3. QED
      BY <3>1, <3>2 DEF Inv, Kernel, Places
  <2>6. QED
    BY <2>1, <2>2, <2>3, <2>4, <2>5 DEF Next, StartSetup, FindPeerInNamespace, AssignNSIP,
       LinkSetMaster, Return, CutShort, kernel
<1>2. QED
  BY Invariance, <1>1, PTL DEF Spec, OnlyPeerMoves

-----------------------------------------------------------------------------
\* The indexes of PE legs, also of those that got another one in the pod, lie above
\* those of the links there were at the start, and so does the index SetupVNI uses.
Beyond ==
    /\ first[Pod] <= first[Host] /\ first[Host] <= counter[Host] /\ first[Pod] <= counter[Pod]
    /\ \A r \in Vrf : at[Peer(r)] # None => index[Peer(r)] > first[Host]
    /\ \A r \in renumbered : at[Peer(r)] = Pod
    /\ \A l \in Link : at[l] = Pod => index[l] <= counter[Pod] \/ \E r \in Vrf \ renumbered : l = Peer(r)
    /\ pc \in {"address", "vrf", "master", "bridge", "vxlan", "done"} => peIndex > first[Host]

\* It holds at the start, where no host is younger than a new pod.
LEMMA InitBeyond == Init => Beyond
<1> SUFFICES ASSUME Init PROVE Beyond
  OBVIOUS
<1>1. first[Pod] \in Start[Pod] /\ first[Host] \in Start[Host] /\ counter = first
  BY DEF Init
<1>2. first[Pod] \in Nat /\ first[Host] \in Nat /\ first[Pod] <= first[Host]
  BY <1>1, StartAssumption
<1>3. \A l \in Link : at[l] = None
  BY DEF Init
<1>4. QED
  <2>1. /\ first[Pod] <= first[Host] /\ first[Host] <= counter[Host] /\ first[Pod] <= counter[Pod]
    BY <1>1, <1>2
  <2>2. renumbered = {} /\ pc = "idle"
    BY DEF Init
  <2>3. \A l \in Link : at[l] # Pod
    BY <1>3, NamespaceAssumption
  <2>4. \A r \in Vrf : at[Peer(r)] = None
    BY <1>3, LinkNames
  <2>5. QED
    BY <2>1, <2>2, <2>3, <2>4 DEF Beyond

\* A new link gets an index above the counter.
LEMMA AddBeyond ==
    ASSUME TypeOK, Beyond, NEW n \in {Host, Pod}, NEW l \in Link, Add(l, n), \A r \in Vrf : l # Peer(r),
           UNCHANGED <<first, renumbered, peIndex>>,
           pc' \in {"vrf", "master", "bridge", "vxlan", "done"} => pc \in {"address", "vrf", "master", "bridge", "vxlan", "done"},
           pc' = "address" => pc = "address"
    PROVE  Beyond'
<1> DEFINE i == Free(n, counter[n])
<1>1. i \in Nat /\ i > counter[n] /\ counter[Host] \in Nat /\ counter[Pod] \in Nat
      /\ first[Host] \in Nat /\ first[Pod] \in Nat
  BY FreeIndex DEF TypeOK
<1> HIDE DEF i
<1>2. /\ at' = [at EXCEPT ![l] = n] /\ index' = [index EXCEPT ![l] = i]
      /\ counter' = [counter EXCEPT ![n] = i]
  BY DEF Add, i
<1>3. \A k \in Link : k # l => at'[k] = at[k] /\ index'[k] = index[k]
  BY <1>2 DEF TypeOK
<1>4. at'[l] = n /\ index'[l] = i /\ counter'[n] = i
      /\ counter'[Host] >= counter[Host] /\ counter'[Pod] >= counter[Pod]
      /\ counter'[Host] \in Nat /\ counter'[Pod] \in Nat
  BY <1>1, <1>2 DEF TypeOK
<1>5. first[Pod] <= first[Host] /\ first[Host] <= counter'[Host] /\ first[Pod] <= counter'[Pod]
  BY <1>1, <1>4 DEF Beyond
<1>6. \A r \in Vrf : Peer(r) \in Link /\ at'[Peer(r)] = at[Peer(r)] /\ index'[Peer(r)] = index[Peer(r)]
  BY <1>3, LinkNames
<1>7. ASSUME NEW k \in Link, at'[k] = Pod
      PROVE  index'[k] <= counter'[Pod] \/ \E r \in Vrf \ renumbered : k = Peer(r)
  <2>1. CASE k = l
    BY <1>1, <1>4, <1>7, <2>1
  <2>2. CASE k # l
    <3>1. index[k] \in Nat
      BY DEF TypeOK
    <3>2. QED
      BY <1>1, <1>3, <1>4, <1>7, <2>2, <3>1 DEF Beyond
  <2>3. QED
    BY <2>1, <2>2
<1>8. \A r \in Vrf : at'[Peer(r)] # None => index'[Peer(r)] > first[Host]
  BY <1>6 DEF Beyond
<1>9. \A r \in renumbered : at'[Peer(r)] = Pod
  BY <1>6 DEF Beyond, TypeOK
<1>10. pc' \in {"address", "vrf", "master", "bridge", "vxlan", "done"} => peIndex > first[Host]
  BY DEF Beyond
<1>11. QED
  BY <1>5, <1>7, <1>8, <1>9, <1>10 DEF Beyond, Peer

\* A step that leaves links and indexes alone.
LEMMA SameBeyond ==
    ASSUME Beyond, UNCHANGED <<at, index, counter, first, renumbered>>,
           pc' \in {"address", "vrf", "master", "bridge", "vxlan", "done"} => peIndex' > first[Host]
    PROVE  Beyond'
BY DEF Beyond, Peer

\* A PE leg that is moved keeps its index, or gets one above the counter of the pod,
\* which is past the index it had, since that was taken there.
LEMMA MoveBeyond ==
    ASSUME Inv, Beyond, NEW l \in Link, MovePeer(l)
    PROVE  Beyond'
<1>1. /\ par \in Vrf /\ pc = "peer" /\ peIndex' = index[l] /\ UNCHANGED first
      /\ at[l] = Host /\ LinkSetNsFd(l, Pod) /\ index[l] = index[Peer(par)]
      /\ renumbered' = renumbered \cup {r \in Vrf : l = Peer(r) /\ index'[l] # index[l]}
  BY DEF MovePeer, Goto, ByIndex, VethPeerIndex, Peer, Inv, TypeOK
<1> DEFINE f == Free(Pod, counter[Pod])
<1>2. /\ f \in Nat /\ f > counter[Pod] /\ counter[Pod] \in Nat /\ counter[Host] \in Nat
      /\ first[Host] \in Nat /\ first[Pod] \in Nat /\ \A k \in Link : index[k] \in Nat
  BY FreeIndex DEF Inv, TypeOK
<1>3. /\ at' = [at EXCEPT ![l] = Pod]
      /\ \/ index[l] \notin Taken(Pod) /\ UNCHANGED <<index, counter>>
         \/ /\ index[l] \in Taken(Pod) /\ index' = [index EXCEPT ![l] = f]
            /\ counter' = [counter EXCEPT ![Pod] = f]
  BY <1>1 DEF LinkSetNsFd
<1> HIDE DEF f
<1>4. at'[l] = Pod /\ \A k \in Link : k # l => at'[k] = at[k] /\ index'[k] = index[k]
  BY <1>3 DEF Inv, TypeOK
<1>5. Peer(par) \in Link /\ at[Peer(par)] # None /\ index[Peer(par)] > first[Host]
  BY <1>1, LinkNames DEF Inv, Call, Beyond
<1>6. counter'[Host] = counter[Host] /\ counter'[Pod] >= counter[Pod] /\ counter'[Pod] \in Nat
  BY <1>2, <1>3, NamespaceAssumption DEF Inv, TypeOK
<1>7. first[Pod] <= first[Host] /\ first[Host] <= counter'[Host] /\ first[Pod] <= counter'[Pod]
  BY <1>2, <1>6 DEF Beyond
<1>8. index[l] \in Taken(Pod) => index[l] <= counter[Pod]
  <2> SUFFICES ASSUME index[l] \in Taken(Pod), ~(index[l] <= counter[Pod]) PROVE FALSE
    OBVIOUS
  <2>1. index[l] \notin 1..first[Pod]
    BY <1>1, <1>2, <1>5 DEF Beyond
  <2>2. PICK k \in Link : at[k] = Pod /\ index[k] = index[l]
    BY <2>1 DEF Taken
  <2>3. PICK r \in Vrf \ renumbered : k = Peer(r)
    BY <2>2 DEF Beyond
  <2>4. l = Peer(r)
    BY <1>1, <2>2, <2>3, NamespaceAssumption DEF Inv, Kernel, Reserved
  <2>5. QED
    BY <1>1, <2>2, <2>3, <2>4, NamespaceAssumption
<1>9. index'[l] >= index[l] /\ index'[l] \in Nat
  BY <1>2, <1>3, <1>8 DEF Inv, TypeOK
<1>10. l # Peer(par) => index[l] \in Taken(Pod)
  <2> SUFFICES ASSUME l # Peer(par) PROVE index[l] \in Taken(Pod)
    OBVIOUS
  <2>1. at[Peer(par)] # Host
    BY <1>1, <1>5, NamespaceAssumption DEF Inv, Kernel, Indexes
  <2>2. at[Peer(par)] = Pod
    BY <1>5, <2>1 DEF Inv, TypeOK
  <2>3. QED
    BY <1>1, <1>5, <2>2 DEF Taken
<1>11. \A r \in Vrf : at'[Peer(r)] # None => index'[Peer(r)] > first[Host]
  <2> SUFFICES ASSUME NEW r \in Vrf, at'[Peer(r)] # None PROVE index'[Peer(r)] > first[Host]
    OBVIOUS
  <2>1. Peer(r) \in Link
    BY LinkNames
  <2>2. CASE Peer(r) = l
    BY <1>1, <1>2, <1>5, <1>9, <2>2
  <2>3. CASE Peer(r) # l
    BY <1>4, <2>1, <2>3 DEF Beyond
  <2>4. QED
    BY <2>2, <2>3
<1>12. \A r \in renumbered' : at'[Peer(r)] = Pod
  <2> SUFFICES ASSUME NEW r \in renumbered' PROVE at'[Peer(r)] = Pod
    OBVIOUS
  <2>1. r \in renumbered \/ (r \in Vrf /\ Peer(r) = l)
    BY <1>1
  <2>2. r \in Vrf
    BY <2>1 DEF Inv, TypeOK
  <2>3. Peer(r) \in Link
    BY <2>2, LinkNames
  <2>4. QED
    BY <1>4, <2>1, <2>3 DEF Beyond
<1>13. ASSUME NEW k \in Link, at'[k] = Pod
       PROVE  index'[k] <= counter'[Pod] \/ \E r \in Vrf : r \notin renumbered' /\ k = Peer(r)
  <2>1. CASE k = l /\ index[l] \in Taken(Pod)
    <3>1. index'[l] = f /\ counter'[Pod] = f
      BY <1>3, <2>1 DEF Inv, TypeOK
    <3>2. QED
      BY <1>2, <2>1, <3>1
  <2>2. CASE k = l /\ index[l] \notin Taken(Pod)
    <3>1. l = Peer(par) /\ index' = index
      BY <1>3, <1>10, <2>2
    <3>2. par \notin renumbered
      BY <1>1, <3>1, NamespaceAssumption DEF Beyond
    <3>3. par \notin renumbered'
      BY <1>1, <3>1, <3>2
    <3>4. QED
      BY <1>1, <2>2, <3>1, <3>3
  <2>3. CASE k # l
    <3>1. at[k] = Pod /\ index'[k] = index[k]
      BY <1>4, <1>13, <2>3
    <3>2. CASE index[k] <= counter[Pod]
      BY <1>2, <1>6, <3>1, <3>2
    <3>3. CASE \E r \in Vrf \ renumbered : k = Peer(r)
      BY <1>1, <2>3, <3>3
    <3>4. QED
      BY <3>1, <3>2, <3>3 DEF Beyond
  <2>4. QED
    BY <2>1, <2>2, <2>3
<1>14. peIndex' > first[Host]
  BY <1>1, <1>5
<1>15. QED
  BY <1>1, <1>7, <1>11, <1>12, <1>13, <1>14 DEF Beyond, Peer

\* The legs of a new pair get indexes above the counter of the host.
LEMMA PairBeyond ==
    ASSUME Inv, Beyond, FindHostLeg
    PROVE  Beyond'
<1>1. /\ par \in Vrf /\ pc' = "peer" /\ UNCHANGED <<first, renumbered>>
      /\ UNCHANGED kernel \/ (AddPair(par) /\ at[<<"host", par>>] # Host)
  BY DEF FindHostLeg, Goto, Inv, TypeOK
<1>2. CASE UNCHANGED kernel
  BY <1>1, <1>2, SameBeyond DEF kernel
<1>3. CASE AddPair(par) /\ at[<<"host", par>>] # Host
  <2> DEFINE p == Free(Host, counter[Host])
             h == Free(Host, p)
             hl == <<"host", par>>
  <2>1. /\ counter[Host] \in Nat /\ first[Host] \in Nat /\ first[Pod] \in Nat
        /\ p \in Nat /\ p > counter[Host]
    BY FreeIndex DEF Inv, TypeOK
  <2> HIDE DEF p
  <2>2. h \in Nat /\ h > p
    BY <2>1, FreeIndex DEF Inv
  <2>3. /\ at' = [at EXCEPT ![Peer(par)] = Host, ![hl] = Host]
        /\ index' = [index EXCEPT ![Peer(par)] = p, ![hl] = h]
        /\ counter' = [counter EXCEPT ![Host] = h]
    BY <1>3 DEF AddPair, p, Peer
  <2> HIDE DEF h
  <2>4. Peer(par) \in Link /\ hl \in Link /\ Peer(par) # hl
    BY <1>1, LinkNames DEF Peer
  <2>5. at'[Peer(par)] = Host /\ at'[hl] = Host /\ index'[Peer(par)] = p
    BY <2>3, <2>4 DEF Inv, TypeOK
  <2>6. \A k \in Link : k # Peer(par) /\ k # hl => at'[k] = at[k] /\ index'[k] = index[k]
    BY <2>3 DEF Inv, TypeOK
  <2>7. counter'[Host] = h /\ counter'[Pod] = counter[Pod]
    BY <2>3, NamespaceAssumption DEF Inv, TypeOK
  <2>8. first[Pod] <= first[Host] /\ first[Host] <= counter'[Host] /\ first[Pod] <= counter'[Pod]
    BY <2>1, <2>2, <2>7 DEF Beyond
  <2>9. at[Peer(par)] = None
    BY <1>1, <1>3, LinkNames DEF FindHostLeg, Inv, TypeOK, Call, Kernel, Places
  <2>10. ASSUME NEW r \in Vrf
         PROVE  /\ at'[Peer(r)] # None => index'[Peer(r)] > first[Host]
                /\ r \in renumbered => at'[Peer(r)] = Pod
    <3>1. CASE r = par
      BY <2>1, <2>5, <2>9, <3>1, NamespaceAssumption DEF Beyond
    <3>2. CASE r # par
      <4>1. Peer(r) \in Link /\ Peer(r) # Peer(par) /\ Peer(r) # hl
        BY <3>2, LinkNames DEF Peer
      <4>2. QED
        BY <2>6, <4>1 DEF Beyond
    <3>3. QED
      BY <3>1, <3>2
  <2>11. \A k \in Link : at'[k] = Pod => index'[k] <= counter'[Pod] \/ \E r \in Vrf \ renumbered : k = Peer(r)
    BY <2>5, <2>6, <2>7, NamespaceAssumption DEF Beyond
  <2>12. renumbered \subseteq Vrf
    BY DEF Inv, TypeOK
  <2>13. QED
    BY <1>1, <2>8, <2>10, <2>11, <2>12 DEF Beyond, Peer
<1>4. QED
  BY <1>1, <1>2, <1>3

\* Every step keeps it.
LEMMA NextBeyond == Inv /\ Beyond /\ [Next]_vars => Beyond'
<1> SUFFICES ASSUME Inv, Beyond, [Next]_vars PROVE Beyond'
  OBVIOUS
<1> DEFINE Working == {"address", "vrf", "master", "bridge", "vxlan", "done"}
<1>1. CASE UNCHANGED vars
  <2>1. UNCHANGED <<at, index, counter, first, renumbered, pc, peIndex>>
    BY <1>1 DEF vars, kernel
  <2>2. QED
    BY <2>1, SameBeyond DEF Beyond
<1>2. ASSUME NEW f \in Foreign, ForeignAdded(f) PROVE Beyond'
  <2>1. <<"foreign", f>> \in Link /\ \A r \in Vrf : <<"foreign", f>> # Peer(r)
    BY LinkNames DEF Peer
  <2>2. QED
    BY <1>2, <2>1, AddBeyond DEF ForeignAdded, Inv
<1>3. CASE SetupVRF \/ SetupBridge \/ SetupVXLan
  <2>1. /\ par \in Vrf /\ UNCHANGED <<first, renumbered, peIndex>>
        /\ pc \in Working /\ pc' \in {"master", "vxlan", "done"}
    BY <1>3 DEF SetupVRF, SetupBridge, SetupVXLan, Goto, Inv, TypeOK
  <2>2. UNCHANGED kernel \/ \E k \in {"vrf", "bridge", "vxlan"} : Add(<<k, par>>, Pod)
    BY <1>3 DEF SetupVRF, SetupBridge, SetupVXLan
  <2>3. CASE UNCHANGED kernel
    BY <2>1, <2>3, SameBeyond DEF kernel, Beyond
  <2>4. ASSUME NEW k \in {"vrf", "bridge", "vxlan"}, Add(<<k, par>>, Pod) PROVE Beyond'
    <3>1. <<k, par>> \in Link /\ \A r \in Vrf : <<k, par>> # Peer(r)
      BY <2>1, LinkNames DEF Peer
    <3>2. QED
      BY <2>1, <2>4, <3>1, AddBeyond DEF Inv
  <2>5. QED
    BY <2>2, <2>3, <2>4
<1>4. CASE AssignNSIP \/ LinkSetMaster
  <2>1. /\ UNCHANGED <<at, index, counter, first, renumbered>> /\ pc \in Working
        /\ pc' = "idle" \/ (pc' \in Working /\ peIndex' = peIndex)
    BY <1>4 DEF AssignNSIP, LinkSetMaster, Goto, Fails, kernel
  <2>2. QED
    BY <2>1, SameBeyond DEF Beyond
<1>5. CASE FindPeerInNamespace
  <2>1. /\ UNCHANGED <<at, index, counter, first, renumbered>> /\ par \in Vrf /\ at[Peer(par)] # None
        /\ pc' = "idle" \/ peIndex' = index[Peer(par)]
    BY <1>5 DEF FindPeerInNamespace, Goto, Fails, kernel, VethPeerIndex, Peer, Inv, TypeOK, Call
  <2>2. QED
    BY <2>1, SameBeyond DEF Beyond
<1>6. CASE (\E r \in Vrf : StartSetup(r)) \/ Return \/ CutShort
  <2>1. UNCHANGED <<at, index, counter, first, renumbered>> /\ pc' \in {"veth", "idle"}
    BY <1>6 DEF StartSetup, Return, CutShort, Fails, kernel
  <2>2. QED
    BY <2>1, SameBeyond
<1>7. QED
  BY <1>1, <1>2, <1>3, <1>4, <1>5, <1>6, MoveBeyond, PairBeyond DEF Next

\* The index by which setupVeth looks for the peer on the host, and SetupVNI for
\* the link to configure in the pod, is never that of a link there was before the
\* first call, not even after the kernel gave the peer another index: a link that
\* setupVeth moves by mistake is one that came later.
OldLinksNotFound ==
    /\ pc = "peer" => VethPeerIndex(par) \notin 1..first[Host]
    /\ pc \in {"address", "vrf", "master", "bridge", "vxlan", "done"} => peIndex \notin 1..first[Pod]

\* setupVeth never takes a link that was there at the start for the peer.
THEOREM OldLinksAreSafe == Spec => []OldLinksNotFound
<1>1. ASSUME Inv, Beyond PROVE OldLinksNotFound
  <2>1. first[Host] \in Nat /\ first[Pod] \in Nat /\ first[Pod] <= first[Host] /\ peIndex \in Nat
    BY <1>1 DEF Inv, TypeOK, Beyond
  <2>2. ASSUME pc = "peer" PROVE VethPeerIndex(par) \notin 1..first[Host]
    <3>1. par \in Vrf /\ at[Peer(par)] # None
      BY <1>1, <2>2 DEF Inv, TypeOK, Call
    <3>2. index[Peer(par)] > first[Host] /\ index[Peer(par)] \in Nat
      BY <1>1, <3>1, LinkNames DEF Beyond, Inv, TypeOK
    <3>3. QED
      BY <2>1, <3>2 DEF VethPeerIndex, Peer
  <2>3. QED
    BY <1>1, <2>1, <2>2 DEF OldLinksNotFound, Beyond
<1>2. Init => Inv /\ Beyond
  BY InitInv, InitBeyond
<1>3. Inv /\ Beyond /\ [Next]_vars => (Inv /\ Beyond)'
  BY NextInv, NextBeyond
<1>4. QED
  BY <1>1, <1>2, <1>3, PTL DEF Spec

=============================================================================
