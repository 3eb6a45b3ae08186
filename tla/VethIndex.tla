----------------------------- MODULE VethIndex -----------------------------
(***************************************************************************)
(* SetupVNI at the level of interface indexes.  setupVeth finds the peer   *)
(* of the host leg by its index, first on the host, then in the namespace  *)
(* of the router pod, and SetupVNI configures it by the index it was found *)
(* with (internal/hostnetwork/veth.go, vni.go).  The kernel counts indexes *)
(* per namespace: a link that is moved keeps its index if that is free in  *)
(* its new namespace and gets another one otherwise.                       *)
(*                                                                         *)
(* The module VNI has the other properties of the links, and the restarts  *)
(* of the pod; here it lives on.                                           *)
(***************************************************************************)
EXTENDS Naturals, FiniteSets

CONSTANTS
    Vrf,         \* VRFs, each with one VNI
    Foreign,     \* bound: links others add on the host, one after the other
    Host, Pod,   \* the two namespaces
    None,
    Start,       \* Start[n]: how many links namespace n may have when this begins
    MaxFails     \* bound: calls cut short

ASSUME NamespaceAssumption == Host # Pod /\ None \notin {Host, Pod} /\ None \notin Vrf
ASSUME StartAssumption ==
    /\ Start \in [{Host, Pod} -> SUBSET Nat]
    /\ \A h \in Start[Host], p \in Start[Pod] : p <= h    \* no host is younger than a new pod
ASSUME FiniteAssumption == IsFiniteSet(Vrf) /\ IsFiniteSet(Foreign)
ASSUME BoundAssumption == MaxFails \in Nat

Link == ({"host", "pe", "vrf", "bridge", "vxlan"} \X Vrf) \cup ({"foreign"} \X Foreign)

VARIABLES
    at,          \* at[l]: the namespace of link l, None if there is no such link
    index,       \* index[l]
    counter,     \* counter[n]: the last index the kernel took in namespace n
    first,       \* first[n]: what it was at the start
    master,      \* master[l]
    address,     \* address[l]: the VRFs whose PE address link l has
    pc, par,     \* SetupVNI: next step, its VRF
    peIndex,     \* the index vethPE was found with
    moved,       \* history: this call moved the PE leg
    renumbered,  \* history: VRFs whose PE leg got another index when it was moved
    fails

kernel == <<at, index, counter>>
config == <<master, address>>
vars == <<kernel, first, config, pc, par, peIndex, moved, renumbered, fails>>

Init ==
    /\ first \in {f \in [{Host, Pod} -> Start[Host] \cup Start[Pod]] : \A n \in {Host, Pod} : f[n] \in Start[n]}
    /\ counter = first
    /\ at = [l \in Link |-> None]
    /\ index = [l \in Link |-> 0]
    /\ master = [l \in Link |-> None]
    /\ address = [l \in Link |-> {}]
    /\ pc = "idle" /\ par = None /\ peIndex = 0 /\ moved = FALSE
    /\ renumbered = {}
    /\ fails = 0

-----------------------------------------------------------------------------
(***************************************************************************)
(* The kernel.                                                             *)
(***************************************************************************)
Taken(n) == 1..first[n] \cup {index[l] : l \in {k \in Link : at[k] = n}}

\* The next free index of namespace n after i.
Free(n, i) == CHOOSE j \in i + 1 .. i + 1 + Cardinality(Taken(n)) :
                  j \notin Taken(n) /\ \A k \in i + 1 .. j - 1 : k \in Taken(n)

\* Among the links that came later: no index looked for is that of a link there was
\* at the start (OldLinksNotFound in VethIndexProofs).
ByIndex(n, i) == {l \in Link : at[l] = n /\ index[l] = i}

Add(l, n) ==
    LET i == Free(n, counter[n])
    IN  /\ at' = [at EXCEPT ![l] = n]
        /\ index' = [index EXCEPT ![l] = i]
        /\ counter' = [counter EXCEPT ![n] = i]

\* A veth's peer is registered before it.
AddPair(r) ==
    LET p == Free(Host, counter[Host])
        h == Free(Host, p)
    IN  /\ at' = [at EXCEPT ![<<"pe", r>>] = Host, ![<<"host", r>>] = Host]
        /\ index' = [index EXCEPT ![<<"pe", r>>] = p, ![<<"host", r>>] = h]
        /\ counter' = [counter EXCEPT ![Host] = h]

LinkSetNsFd(l, n) ==
    /\ at' = [at EXCEPT ![l] = n]
    /\ IF index[l] \notin Taken(n)
       THEN UNCHANGED <<index, counter>>
       ELSE /\ index' = [index EXCEPT ![l] = Free(n, counter[n])]
            /\ counter' = [counter EXCEPT ![n] = Free(n, counter[n])]

\* Others add links on the host.
ForeignAdded(f) ==
    /\ at[<<"foreign", f>>] = None
    /\ Add(<<"foreign", f>>, Host)
    /\ UNCHANGED <<first, config, pc, par, peIndex, moved, renumbered, fails>>

-----------------------------------------------------------------------------
(***************************************************************************)
(* SetupVNI.                                                               *)
(***************************************************************************)
Goto(l) == pc' = l /\ UNCHANGED <<first, par, fails>>
Fails == pc' = "idle" /\ par' = None /\ peIndex' = 0 /\ moved' = FALSE

\* A host leg that was moved away by mistake is not followed further.
StartSetup(r) ==
    /\ pc = "idle"
    /\ \A q \in Vrf : at[<<"host", q>>] # Pod
    /\ pc' = "veth" /\ par' = r
    /\ UNCHANGED <<kernel, first, config, peIndex, moved, renumbered, fails>>

FindHostLeg ==
    /\ pc = "veth"
    /\ IF at[<<"host", par>>] = Host THEN UNCHANGED kernel ELSE AddPair(par)
    /\ UNCHANGED <<config, peIndex, moved, renumbered>>
    /\ Goto("peer")

\* Fault: the index of the leg itself is taken for that of its peer.
OwnIndex(r) == index[<<"host", r>>]

VethPeerIndex(r) == index[<<"pe", r>>]

\* Found on the host: this link is moved, and goes on with the index it had.
MovePeer(l) ==
    /\ pc = "peer"
    /\ l \in ByIndex(Host, VethPeerIndex(par))
    /\ LinkSetNsFd(l, Pod)
    /\ master' = [master EXCEPT ![l] = None]
    /\ address' = [address EXCEPT ![l] = {}]
    /\ peIndex' = index[l]
    /\ moved' = (l = <<"pe", par>>)
    /\ renumbered' = renumbered \cup {r \in Vrf : l = <<"pe", r>> /\ index'[l] # index[l]}
    /\ Goto("address")

FindPeerInNamespace ==
    /\ pc = "peer"
    /\ ByIndex(Host, VethPeerIndex(par)) = {}
    /\ IF ByIndex(Pod, VethPeerIndex(par)) # {}
       THEN peIndex' = VethPeerIndex(par) /\ UNCHANGED moved /\ Goto("address")
       ELSE Fails /\ UNCHANGED <<first, fails>>
    /\ UNCHANGED <<kernel, config, renumbered>>

\* Fault: the leg on the host gets the PE address.
AddressOnHost ==
    /\ pc = "address"
    /\ address' = [address EXCEPT ![<<"host", par>>] = @ \cup {par}]
    /\ UNCHANGED <<kernel, master, peIndex, moved, renumbered>>
    /\ Goto("vrf")

\* Nothing tells the link with this index from the one that was found.
AssignNSIP ==
    /\ pc = "address"
    /\ address' = [l \in Link |-> IF l \in ByIndex(Pod, peIndex) THEN address[l] \cup {par} ELSE address[l]]
    /\ UNCHANGED <<kernel, master, peIndex, moved, renumbered>>
    /\ Goto("vrf")

SetupVRF ==
    /\ pc = "vrf"
    /\ IF at[<<"vrf", par>>] = None THEN Add(<<"vrf", par>>, Pod) ELSE UNCHANGED kernel
    /\ UNCHANGED <<config, peIndex, moved, renumbered>>
    /\ Goto("master")

\* The kernel does not put a VRF into a VRF.
LinkSetMaster ==
    /\ pc = "master"
    /\ IF \E l \in ByIndex(Pod, peIndex) : l[1] # "vrf"
       THEN /\ master' = [l \in Link |-> IF l \in ByIndex(Pod, peIndex) THEN <<"vrf", par>> ELSE master[l]]
            /\ UNCHANGED <<peIndex, moved>>
            /\ Goto("bridge")
       ELSE Fails /\ UNCHANGED <<master, first, fails>>
    /\ UNCHANGED <<kernel, address, renumbered>>

\* Fault: the bridge is created in no VRF.
BridgeAlone ==
    /\ pc = "bridge"
    /\ IF at[<<"bridge", par>>] = None THEN Add(<<"bridge", par>>, Pod) ELSE UNCHANGED kernel
    /\ UNCHANGED <<config, peIndex, moved, renumbered>>
    /\ Goto("vxlan")

\* An existing bridge is taken as it is.
SetupBridge ==
    /\ pc = "bridge"
    /\ IF at[<<"bridge", par>>] = None
       THEN Add(<<"bridge", par>>, Pod) /\ master' = [master EXCEPT ![<<"bridge", par>>] = <<"vrf", par>>]
       ELSE UNCHANGED <<kernel, master>>
    /\ UNCHANGED <<address, peIndex, moved, renumbered>>
    /\ Goto("vxlan")

\* A VXLAN that is not in the bridge is deleted and made again.
SetupVXLan ==
    /\ pc = "vxlan"
    /\ IF at[<<"vxlan", par>>] = None \/ master[<<"vxlan", par>>] # <<"bridge", par>>
       THEN /\ Add(<<"vxlan", par>>, Pod)
            /\ master' = [master EXCEPT ![<<"vxlan", par>>] = <<"bridge", par>>]
            /\ address' = [address EXCEPT ![<<"vxlan", par>>] = {}]
       ELSE UNCHANGED <<kernel, config>>
    /\ UNCHANGED <<peIndex, moved, renumbered>>
    /\ Goto("done")

Return ==
    /\ pc = "done"
    /\ Fails
    /\ UNCHANGED <<kernel, first, config, renumbered, fails>>

\* The call fails, or the controller restarts, between two requests.
CutShort ==
    /\ pc \notin {"idle", "done"}
    /\ fails < MaxFails
    /\ fails' = fails + 1
    /\ Fails
    /\ UNCHANGED <<kernel, first, config, renumbered>>

-----------------------------------------------------------------------------
Next ==
    \/ \E f \in Foreign : ForeignAdded(f)
    \/ \E r \in Vrf : StartSetup(r)
    \/ FindHostLeg \/ (\E l \in Link : MovePeer(l)) \/ FindPeerInNamespace \/ AssignNSIP
    \/ SetupVRF \/ LinkSetMaster \/ SetupBridge \/ SetupVXLan \/ Return \/ CutShort

Spec == Init /\ [][Next]_vars

-----------------------------------------------------------------------------
TypeOK ==
    /\ at \in [Link -> {Host, Pod, None}]
    /\ index \in [Link -> Nat] /\ counter \in [{Host, Pod} -> Nat] /\ first \in [{Host, Pod} -> Nat]
    /\ master \in [Link -> (Link \cup {None})] /\ address \in [Link -> SUBSET Vrf]
    /\ pc \in {"idle", "veth", "peer", "address", "vrf", "master", "bridge", "vxlan", "done"}
    /\ par \in Vrf \cup {None} /\ (par = None <=> pc = "idle")
    /\ peIndex \in Nat /\ moved \in BOOLEAN /\ renumbered \subseteq Vrf /\ fails \in 0..MaxFails

\* The only link setupVeth moves into the pod is the peer of its host leg: as long
\* as the PE leg has the index it was created with, no other link of the host has
\* that index, whatever others add there in the meantime.
OnlyPeerMoves ==
    [][\A l \in Link : at[l] = Host /\ at'[l] = Pod => l = <<"pe", par>> \/ par \in renumbered]_vars

Peer(r) == <<"pe", r>>

\* A SetupVNI that succeeds has given the PE address and the VRF to the peer of its
\* host leg, unless this very call moved it and the kernel gave it another index:
\* a later call repairs what that one missed.
PeerConfigured ==
    pc = "done" /\ ~(moved /\ par \in renumbered)
    => par \in address[Peer(par)] /\ master[Peer(par)] = <<"vrf", par>>

\* No VNI's call disturbs the links of another one, as long as no PE leg got
\* another index: only PE legs have PE addresses, each its own, and every bridge
\* stays in the VRF of its VNI.
OthersUndisturbed ==
    renumbered = {} =>
        /\ \A l \in Link : address[l] # {} => \E r \in Vrf : l = Peer(r) /\ address[l] = {r}
        /\ \A r \in Vrf : at[<<"bridge", r>>] = Pod => master[<<"bridge", r>>] = <<"vrf", r>>

\* The test of several VNIs: "pe leg doesn't have ip", "bridge master is not vrf".
Validated ==
    pc = "done" => /\ par \in address[Peer(par)]
                   /\ master[Peer(par)] = <<"vrf", par>>
                   /\ master[<<"bridge", par>>] = <<"vrf", par>>

=============================================================================
