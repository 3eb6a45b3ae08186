-------------------------- MODULE ReconcilerProofs --------------------------
(***************************************************************************)
(* The controller of a node is correct for every number of objects, pods   *)
(* and changes: what it has configured when it is quiet is what the API    *)
(* says, and the interfaces follow the configuration FRR runs.             *)
(***************************************************************************)
EXTENDS Reconciler, FiniteSetTheorems, TLAPS

-----------------------------------------------------------------------------
(***************************************************************************)
(* The inductive invariant.                                                *)
(***************************************************************************)
States == [Pod -> {"absent", "starting", "ready", "gone"}]

ApiTypes ==
    /\ underlays \subseteq Underlay /\ vnis \subseteq VNI
    /\ pods \in States /\ index \in 0..MaxIndex

CacheTypes ==
    /\ cUnderlays \subseteq Underlay /\ cVnis \subseteq VNI
    /\ cPods \in States /\ podWatch \in Seq(States)

LocalTypes ==
    /\ rIndex \in 0..MaxIndex /\ rPod \in Pod \cup {None} /\ rBox \in 0..MaxEvents
    /\ rUnderlays \subseteq Underlay /\ rVnis \subseteq VNI /\ todo \subseteq VNI

\* A sandbox is replaced by an event.
NodeTypes ==
    /\ box \in [Pod -> 0..events] /\ leftover \subseteq Pod
    /\ frr \in [Pod -> FRRConfig \cup {None}]
    /\ nic \in [Pod -> HostParams \cup {None}]
    /\ links \in [Pod -> [VNI -> HostParams \cup {None}]]

ControlTypes ==
    /\ queued \in BOOLEAN /\ missed \in BOOLEAN
    /\ pc \in {"idle", "pod", "underlays", "vnis", "frr", "ns", "nic", "links"}
    /\ events \in 0..MaxEvents /\ fails \in 0..MaxFails

HeldTypes == pinned \subseteq Pod /\ stuck \subseteq Underlay \cup VNI

Types == ApiTypes /\ CacheTypes /\ LocalTypes /\ NodeTypes /\ ControlTypes

\* The watch brings the cache of the pods up to date.
Latest == /\ podWatch = <<>> => cPods = pods
          /\ podWatch # <<>> => podWatch[Len(podWatch)] = pods

\* Pod p is ready in the cache, and in every state the watch has yet to deliver: it
\* did not restart since the cache was right about it.
Seen(p) == cPods[p] = "ready" /\ \A k \in DOMAIN podWatch : podWatch[k][p] = "ready"

\* Nothing will make Reconcile run again because of p.
Due(p) == ~queued /\ ~missed /\ Seen(p)

\* Pod p is configured as the caches say.
Configured(p) ==
    \E u \in Underlay, i \in 0..MaxIndex :
        /\ cUnderlays = {u} /\ cVnis # {}
        /\ frr[p] = [index |-> i, underlay |-> u, vnis |-> cVnis]
        /\ nic[p] = [index |-> i, underlay |-> u]
        /\ \A v \in cVnis : links[p][v] = [index |-> i, underlay |-> u]

\* What Reconcile has done so far for the pod p it runs for.
Written(p) ==
    /\ pc \in {"ns", "nic", "links"} => \A u \in rUnderlays : frr[p] = APItoFRR(rIndex, u, rVnis)
    /\ pc \in {"nic", "links"} => rBox = box[p]
    /\ pc = "links" => \A u \in rUnderlays :
          /\ nic[p] = APItoHostConfig(rIndex, u)
          /\ \A v \in rVnis \ todo : links[p][v] = APItoHostConfig(rIndex, u)

Kept == \A p \in Pod \ Foreign :
           Due(p) => (pc = "idle" => Configured(p)) /\ (rPod = p => Written(p))

\* The pod of Reconcile is still the only one of the namespace, and ready, unless an
\* event has queued Reconcile again.
Chosen ==
    pc \notin {"idle", "pod"} =>
        /\ rPod \in Pod
        /\ ~queued => \A p \in Pod \ Foreign :
              /\ p \in Listed(cPods) => p = rPod
              /\ p = rPod => cPods[p] = "ready"

\* So are its lists.
Read ==
    /\ pc \in {"vnis", "frr", "ns", "nic", "links"} /\ ~queued => rUnderlays = cUnderlays
    /\ pc \in {"frr", "ns", "nic", "links"} /\ ~queued => rVnis = cVnis
    /\ pc \in {"ns", "nic", "links"} => rVnis # {} /\ \E u \in Underlay : rUnderlays = {u}
    /\ pc = "links" => todo \subseteq rVnis

Inv == Types /\ HeldTypes /\ Latest /\ Chosen /\ Read /\ Kept

-----------------------------------------------------------------------------
(***************************************************************************)
(* The invariant is what it says of the types ...                          *)
(***************************************************************************)

\* The types of the invariant are those of the module.
LEMMA TypesSuffice ==
    ASSUME Types, HeldTypes PROVE TypeOK
<1>1. box \in [Pod -> 0..MaxEvents]
  <2>1. 0..events \subseteq 0..MaxEvents
    BY BoundAssumption DEF Types, ControlTypes
  <2>2. QED
    BY <2>1 DEF Types, NodeTypes
<1>2. QED
  BY <1>1, Zenon DEF Types, ApiTypes, CacheTypes, LocalTypes, NodeTypes, ControlTypes, HeldTypes, States, TypeOK

\* SetupUnderlay fails, or it sets the interface up and the VNIs are next.
LEMMA UnderlayCases ==
    ASSUME SetupUnderlay
    PROVE  /\ pc = "nic"
           /\ \/ UNCHANGED node /\ Error
              \/ \E u \in rUnderlays :
                    /\ nic' = IF InPlace THEN [nic EXCEPT ![rPod] = APItoHostConfig(rIndex, u)] ELSE nic
                    /\ todo' = rVnis
                    /\ UNCHANGED <<box, leftover, frr, links, rIndex, rPod, rUnderlays, rVnis, rBox>>
                    /\ Goto("links")
  BY Zenon DEF SetupUnderlay

\* SetupVNI fails, perhaps with the namespace open, or it sets one VNI up.
LEMMA VNICases ==
    ASSUME SetupVNI
    PROVE  /\ pc = "links"
           /\ \/ UNCHANGED setup /\ Error
              \/ \E u \in rUnderlays, v \in todo :
                    /\ links' = IF InPlace THEN [links EXCEPT ![rPod][v] = APItoHostConfig(rIndex, u)] ELSE links
                    /\ todo' = todo \ {v}
                    /\ UNCHANGED <<box, leftover, frr, nic, rIndex, rPod, rUnderlays, rVnis, rBox>>
                    /\ Goto("links")
  BY Zenon DEF SetupVNI, SetUpFor, node

\* Local variables are reset when Reconcile returns.
LEMMA LeaveTypes ==
    ASSUME Leave PROVE LocalTypes' /\ pc' = "idle"
<1>1. 0 \in 0..MaxIndex /\ 0 \in 0..MaxEvents
  BY BoundAssumption
<1>2. QED
  BY <1>1, Zenon DEF Leave, LocalTypes

\* The states of the pods and the watch.
LEMMA PodTypes ==
    ASSUME Types, NEW p \in Pod, NEW from, NEW to \in {"absent", "starting", "ready", "gone"},
           PodChanges(p, from, to)
    PROVE  ApiTypes' /\ CacheTypes' /\ LocalTypes' /\ ControlTypes' /\ events' = events + 1
<1>1. pods' \in States
  BY DEF Types, ApiTypes, PodChanges, States
<1>2. podWatch' \in Seq(States)
  BY <1>1 DEF Types, CacheTypes, PodChanges
<1>3. events + 1 \in 0..MaxEvents
  BY BoundAssumption DEF Types, ControlTypes, PodChanges
<1>4. QED
  BY <1>1, <1>2, <1>3, Zenon
  DEF Types, ApiTypes, CacheTypes, LocalTypes, ControlTypes, PodChanges, locals

\* One event more leaves the numbers of the sandboxes in range.
LEMMA BoxesGrow ==
    ASSUME Types, events' = events + 1, UNCHANGED node
    PROVE  NodeTypes'
<1>1. 0..events \subseteq 0..events'
  BY DEF Types, ControlTypes
<1>2. box' \in [Pod -> 0..events']
  BY <1>1 DEF Types, NodeTypes, node, setup
<1>3. QED
  BY <1>2, Zenon DEF Types, NodeTypes, node, setup

\* A change of an underlay, a VNI or a node.
LEMMA ChangeTypes ==
    ASSUME Types, Change, underlays' \subseteq Underlay, vnis' \subseteq VNI, index' \in 0..MaxIndex
    PROVE  Types'
<1>1. events' = events + 1 /\ events' \in 0..MaxEvents
  BY BoundAssumption DEF Types, ControlTypes, Change
<1>2. NodeTypes'
  BY <1>1, BoxesGrow, Zenon DEF Change
<1>3. QED
  BY <1>1, <1>2, Zenon
  DEF Types, ApiTypes, CacheTypes, LocalTypes, ControlTypes, Change, cache, locals

\* A pod is created, becomes ready, or goes with all there is in its namespace.
LEMMA PodStepTypes ==
    ASSUME Types, NEW p \in Pod,
           PodCreated(p) \/ PodReady(p) \/ PodDeleted(p) \/ SandboxRestarts(p)
    PROVE  Types'
<1>1. ASSUME PodCreated(p) \/ PodReady(p) PROVE Types'
  <2>1. ApiTypes' /\ CacheTypes' /\ LocalTypes' /\ ControlTypes' /\ events' = events + 1
    BY <1>1, PodTypes, Zenon DEF PodCreated, PodReady
  <2>2. QED
    BY <1>1, <2>1, BoxesGrow, Zenon DEF Types, PodCreated, PodReady
<1>2. ASSUME nic' = [nic EXCEPT ![p] = None],
             links' = [links EXCEPT ![p] = [v \in VNI |-> None]],
             frr' \in {frr, [frr EXCEPT ![p] = None]},
             events' = events + 1, leftover' \subseteq Pod,
             box' \in {box, [box EXCEPT ![p] = @ + 1]}
      PROVE  NodeTypes'
  <2>1. nic' \in [Pod -> HostParams \cup {None}]
    BY <1>2 DEF Types, NodeTypes
  <2>2. frr' \in [Pod -> FRRConfig \cup {None}]
    BY <1>2 DEF Types, NodeTypes
  <2>3. links' \in [Pod -> [VNI -> HostParams \cup {None}]]
    BY <1>2 DEF Types, NodeTypes
  <2>4. box' \in [Pod -> 0..events']
    <3>1. events \in Nat /\ events' = events + 1
      BY <1>2 DEF Types, ControlTypes
    <3>2. \A n \in 0..events : n \in 0..events' /\ n + 1 \in 0..events'
      BY <3>1
    <3>3. box \in [Pod -> 0..events]
      BY Zenon DEF Types, NodeTypes
    <3>4. QED
      BY <1>2, <3>2, <3>3
  <2>5. QED
    BY <1>2, <2>1, <2>2, <2>3, <2>4, Zenon DEF NodeTypes
<1>3. ASSUME PodDeleted(p) PROVE Types'
  <2>1. ApiTypes' /\ CacheTypes' /\ LocalTypes' /\ ControlTypes' /\ events' = events + 1
    BY <1>3, PodTypes, Zenon DEF PodDeleted
  <2>2. frr' \in {frr, [frr EXCEPT ![p] = None]} /\ box' \in {box, [box EXCEPT ![p] = @ + 1]}
    BY <1>3, Zenon DEF PodDeleted
  <2>3. leftover' \subseteq Pod
    BY <1>3, Zenon DEF PodDeleted, Types, NodeTypes
  <2>4. NodeTypes'
    BY <1>2, <1>3, <2>1, <2>2, <2>3, Zenon DEF PodDeleted, NamespaceEnds
  <2>5. QED
    BY <2>1, <2>4, Zenon DEF Types
<1>4. ASSUME SandboxRestarts(p) PROVE Types'
  <2>1. ApiTypes' /\ CacheTypes' /\ LocalTypes' /\ ControlTypes' /\ events' = events + 1
    BY <1>4, PodTypes, Zenon DEF SandboxRestarts
  <2>2. box' \in {box, [box EXCEPT ![p] = @ + 1]}
    BY <1>4, Zenon DEF SandboxRestarts
  <2>3. leftover' \subseteq Pod
    BY <1>4, Zenon DEF SandboxRestarts, Types, NodeTypes
  <2>4. NodeTypes'
    BY <1>2, <1>4, <2>1, <2>2, <2>3, Zenon DEF SandboxRestarts, NamespaceEnds
  <2>5. QED
    BY <2>1, <2>4, Zenon DEF Types
<1>5. QED
  BY <1>1, <1>3, <1>4, Zenon

\* The informers deliver.
LEMMA SyncTypes ==
    ASSUME Types, Sync \/ RelistPods
    PROVE  Types'
<1>1. ASSUME SyncUnderlays PROVE Types'
  BY <1>1, Zenon
  DEF SyncUnderlays, Deliver, api, locals, node, setup, counts,
      Types, ApiTypes, CacheTypes, LocalTypes, NodeTypes, ControlTypes
<1>2. ASSUME SyncVNIs PROVE Types'
  BY <1>2, Zenon
  DEF SyncVNIs, Deliver, api, locals, node, setup, counts,
      Types, ApiTypes, CacheTypes, LocalTypes, NodeTypes, ControlTypes
<1>3. ASSUME SyncPods PROVE Types'
  <2>1. cPods' \in States /\ podWatch' \in Seq(States)
    BY <1>3 DEF SyncPods, Types, CacheTypes
  <2>2. queued' \in BOOLEAN
    BY <1>3, Zenon DEF SyncPods
  <2>3. QED
    BY <1>3, <2>1, <2>2, Zenon
    DEF SyncPods, Deliver, api, locals, node, setup, counts,
        Types, ApiTypes, CacheTypes, LocalTypes, NodeTypes, ControlTypes
<1>4. ASSUME RelistPods PROVE Types'
  <2>1. podWatch' \in Seq(States)
    BY <1>4 DEF RelistPods
  <2>2. queued' \in BOOLEAN /\ missed' \in BOOLEAN
    BY <1>4, Zenon DEF RelistPods
  <2>3. QED
    BY <1>4, <2>1, <2>2, Zenon
    DEF RelistPods, api, locals, node, setup, counts,
        Types, ApiTypes, CacheTypes, LocalTypes, NodeTypes, ControlTypes
<1>5. QED
  BY <1>1, <1>2, <1>3, <1>4, Zenon DEF Sync

\* A step of Reconcile that keeps its local variables and what is configured in range.
LEMMA WorkerTypes ==
    ASSUME Types, Worker, LocalTypes', NodeTypes', queued' \in BOOLEAN, UNCHANGED fails,
           pc' \in {"idle", "pod", "underlays", "vnis", "frr", "ns", "nic", "links"}
    PROVE  Types'
  BY Zenon DEF Worker, api, cache, Types, ApiTypes, CacheTypes, ControlTypes

\* A return from Reconcile that leaves what is configured as it is.
LEMMA ReturnTypes ==
    ASSUME Types, UNCHANGED setup, Done \/ Error
    PROVE  Types'
<1>1. LocalTypes' /\ pc' = "idle"
  BY LeaveTypes, Zenon DEF Done, Error
<1>2. NodeTypes'
  BY Zenon DEF Types, NodeTypes, setup, Done, Error, Worker
<1>3. QED
  BY <1>1, <1>2, WorkerTypes, Zenon DEF Done, Error, Types, ControlTypes

\* A step to the next label that leaves what is configured as it is.
LEMMA GotoTypes ==
    ASSUME Types, LocalTypes', UNCHANGED node,
           NEW l \in {"pod", "underlays", "vnis", "frr", "ns", "nic", "links"}, Goto(l)
    PROVE  Types'
<1>1. NodeTypes'
  BY Zenon DEF Types, NodeTypes, node, setup, Goto, Worker
<1>2. QED
  BY <1>1, WorkerTypes, Zenon DEF Goto, Types, ControlTypes

\* The steps of Reconcile.
LEMMA ReconcileTypes ==
    ASSUME Types, ReconcileStep, Chosen
    PROVE  Types'
<1>1. ASSUME StartReconcile PROVE Types'
  <2>1. LocalTypes' /\ NodeTypes'
    BY <1>1, Zenon DEF StartReconcile, Worker, node, setup, Types, ApiTypes, LocalTypes, NodeTypes
  <2>2. QED
    BY <1>1, <2>1, WorkerTypes, Zenon DEF StartReconcile
<1>2. ASSUME RouterPodForNode PROVE Types'
  <2>1. ASSUME NEW p \in Pod, rPod' = p, UNCHANGED <<rIndex, rUnderlays, rVnis, rBox, todo>>,
               Goto("underlays")
        PROVE  Types'
    <3>1. LocalTypes'
      BY <2>1, Zenon DEF Types, LocalTypes
    <3>2. QED
      BY <1>2, <2>1, <3>1, GotoTypes, Zenon DEF RouterPodForNode
  <2>2. QED
    BY <1>2, <2>1, ReturnTypes, Zenon DEF RouterPodForNode, node
<1>3. ASSUME ListUnderlays PROVE Types'
  <2>1. LocalTypes'
    BY <1>3, Zenon DEF ListUnderlays, Types, CacheTypes, LocalTypes
  <2>2. QED
    BY <1>3, <2>1, GotoTypes, Zenon DEF ListUnderlays
<1>4. ASSUME ListVNIs PROVE Types'
  <2>1. LocalTypes'
    BY <1>4, Zenon DEF ListVNIs, Types, CacheTypes, LocalTypes
  <2>2. QED
    BY <1>4, <2>1, GotoTypes, Zenon DEF ListVNIs
<1>5. ASSUME ReloadFRRConfig PROVE Types'
  <2>1. ASSUME NEW u \in rUnderlays, frr' = [frr EXCEPT ![rPod] = APItoFRR(rIndex, u, rVnis)],
               UNCHANGED <<box, leftover, nic, links, locals>>, Goto("ns")
        PROVE  Types'
    <3>1. APItoFRR(rIndex, u, rVnis) \in FRRConfig
      BY DEF APItoFRR, FRRConfig, Types, LocalTypes
    <3>2. frr' \in [Pod -> FRRConfig \cup {None}]
      BY <2>1, <3>1 DEF Types, NodeTypes
    <3>3. NodeTypes' /\ LocalTypes'
      BY <2>1, <3>2, Zenon DEF Types, NodeTypes, LocalTypes, locals, Goto, Worker
    <3>4. QED
      BY <2>1, <3>3, WorkerTypes, Zenon DEF Goto, Types, ControlTypes
  <2>2. QED
    BY <1>5, <2>1, ReturnTypes, Zenon DEF ReloadFRRConfig, node
<1>6. ASSUME NetworkNamespace PROVE Types'
  <2>1. ASSUME rBox' = box[rPod], UNCHANGED <<rIndex, rPod, rUnderlays, rVnis, todo>>, Goto("nic")
        PROVE  Types'
    <3>1. rPod \in Pod
      BY <1>6, Zenon DEF NetworkNamespace, Chosen
    <3>2. rBox' \in 0..MaxEvents
      <4>1. box[rPod] \in 0..events
        BY <3>1, Zenon DEF Types, NodeTypes
      <4>2. QED
        BY <2>1, <4>1, BoundAssumption DEF Types, ControlTypes
    <3>3. LocalTypes'
      BY <2>1, <3>2, Zenon DEF Types, LocalTypes
    <3>4. QED
      BY <1>6, <2>1, <3>3, GotoTypes, Zenon DEF NetworkNamespace
  <2>2. QED
    BY <1>6, <2>1, ReturnTypes, Zenon DEF NetworkNamespace, node
<1>7. \A u \in rUnderlays : APItoHostConfig(rIndex, u) \in HostParams
  BY DEF APItoHostConfig, HostParams, Types, LocalTypes
<1>8. ASSUME SetupUnderlay PROVE Types'
  <2>1. ASSUME NEW u \in rUnderlays,
               nic' = IF InPlace THEN [nic EXCEPT ![rPod] = APItoHostConfig(rIndex, u)] ELSE nic,
               todo' = rVnis,
               UNCHANGED <<box, leftover, frr, links, rIndex, rPod, rUnderlays, rVnis, rBox>>,
               Goto("links")
        PROVE  Types'
    <3>1. nic' \in [Pod -> HostParams \cup {None}]
      BY <1>7, <2>1 DEF Types, NodeTypes
    <3>2. NodeTypes' /\ LocalTypes'
      BY <2>1, <3>1, Zenon DEF Types, NodeTypes, LocalTypes, Goto, Worker
    <3>3. QED
      BY <2>1, <3>2, WorkerTypes, Zenon DEF Goto, Types, ControlTypes
  <2>2. QED
    BY <1>8, <2>1, ReturnTypes, UnderlayCases, Zenon DEF node
<1>9. ASSUME SetupVNI PROVE Types'
  <2>1. ASSUME NEW u \in rUnderlays, NEW v \in todo,
               links' = IF InPlace THEN [links EXCEPT ![rPod][v] = APItoHostConfig(rIndex, u)] ELSE links,
               todo' = todo \ {v},
               UNCHANGED <<box, leftover, frr, nic, rIndex, rPod, rUnderlays, rVnis, rBox>>,
               Goto("links")
        PROVE  Types'
    <3>1. links' \in [Pod -> [VNI -> HostParams \cup {None}]]
      BY <1>7, <2>1 DEF Types, NodeTypes
    <3>2. NodeTypes' /\ LocalTypes'
      BY <2>1, <3>1, Zenon DEF Types, NodeTypes, LocalTypes, Goto, Worker
    <3>3. QED
      BY <2>1, <3>2, WorkerTypes, Zenon DEF Goto, Types, ControlTypes
  <2>2. QED
    BY <1>9, <2>1, ReturnTypes, VNICases, Zenon
<1>10. ASSUME ReconcileDone PROVE Types'
  BY <1>10, ReturnTypes, Zenon DEF ReconcileDone, node
<1>11. QED
  BY <1>1, <1>2, <1>3, <1>4, <1>5, <1>6, <1>8, <1>9, <1>10, Zenon DEF ReconcileStep

\* Every step keeps the types.
LEMMA NextTypes ==
    ASSUME Types, Chosen, Next
    PROVE  Types'
<1>1. ASSUME NEW us \in SUBSET Underlay, ChangeUnderlays(us) PROVE Types'
  BY <1>1, ChangeTypes, Zenon DEF ChangeUnderlays, Types, ApiTypes
<1>2. ASSUME NEW vs \in SUBSET VNI, ChangeVNIs(vs) PROVE Types'
  BY <1>2, ChangeTypes, Zenon DEF ChangeVNIs, Types, ApiTypes
<1>3. ASSUME NEW i \in 0..MaxIndex, ChangeNodes(i) PROVE Types'
  BY <1>3, ChangeTypes, Zenon DEF ChangeNodes, Types, ApiTypes
<1>4. ASSUME NEW p \in Pod, SandboxCollected(p) PROVE Types'
  BY <1>4, Zenon DEF SandboxCollected, api, cache, locals, counts,
     Types, ApiTypes, CacheTypes, LocalTypes, NodeTypes, ControlTypes
<1>5. ASSUME ReconcileFails \/ ControllerRestarts PROVE Types'
  <2>1. fails' \in 0..MaxFails
    BY <1>5, BoundAssumption DEF ReconcileFails, ControllerRestarts, Types, ControlTypes
  <2>2. LocalTypes' /\ pc' = "idle" /\ <<>> \in Seq(States)
    BY <1>5, LeaveTypes DEF ReconcileFails, ControllerRestarts
  <2>3. ASSUME ReconcileFails PROVE Types'
    BY <2>1, <2>2, <2>3, Zenon DEF ReconcileFails, api, cache, node, setup,
       Types, ApiTypes, CacheTypes, NodeTypes, ControlTypes
  <2>4. ASSUME ControllerRestarts PROVE Types'
    <3>1. queued' \in BOOLEAN
      BY <2>4, Zenon DEF ControllerRestarts
    <3>2. QED
      BY <2>1, <2>2, <2>4, <3>1, Zenon DEF ControllerRestarts, api, node, setup,
         Types, ApiTypes, CacheTypes, NodeTypes, ControlTypes
  <2>5. QED
    BY <1>5, <2>3, <2>4, Zenon
<1>6. QED
  BY <1>1, <1>2, <1>3, <1>4, <1>5, PodStepTypes, SyncTypes, ReconcileTypes, Zenon DEF Next

\* Only pods are held, and only interfaces of underlays and VNIs are stuck.
LEMMA NextHeldTypes ==
    ASSUME Types, HeldTypes, Chosen, Next
    PROVE  HeldTypes'
<1>1. ASSUME UNCHANGED <<pinned, stuck>> PROVE HeldTypes'
  BY <1>1, Zenon DEF HeldTypes
<1>2. ASSUME NEW p \in Pod, PodDeleted(p) \/ SandboxRestarts(p) PROVE HeldTypes'
  <2>1. Devices(p) \subseteq Underlay \cup VNI
    BY Zenon DEF Devices
  <2>2. pinned' = pinned \ {p} /\ stuck' \in {stuck, stuck \cup Devices(p)}
    BY <1>2, Zenon DEF PodDeleted, SandboxRestarts, NamespaceEnds
  <2>3. QED
    BY <2>1, <2>2 DEF HeldTypes
<1>3. ASSUME SetupUnderlay PROVE HeldTypes'
  <2>1. rUnderlays \subseteq Underlay
    BY Zenon DEF Types, LocalTypes
  <2>2. CASE UNCHANGED node
    BY <1>1, <2>2, Zenon DEF node
  <2>3. CASE ~UNCHANGED node
    <3>1. PICK u \in rUnderlays : pinned' = pinned /\ stuck' \in {stuck, stuck \cup {u}}
      BY <1>3, <2>3, Zenon DEF SetupUnderlay
    <3>2. QED
      BY <2>1, <3>1 DEF HeldTypes
  <2>4. QED
    BY <2>2, <2>3
<1>4. ASSUME SetupVNI PROVE HeldTypes'
  <2>1. rUnderlays \subseteq Underlay /\ todo \subseteq VNI
    BY Zenon DEF Types, LocalTypes
  <2>2. rPod \in Pod
    BY <1>4, VNICases, Zenon DEF Chosen
  <2>3. pinned' \in {pinned, pinned \cup {rPod}}
    BY <1>4, Zenon DEF SetupVNI, SetUpFor, node
  <2>4. \/ stuck' = stuck
        \/ \E u \in rUnderlays, v \in todo : stuck' = stuck \cup {u, v}
    BY <1>4, Zenon DEF SetupVNI, SetUpFor, node
  <2>5. QED
    BY <2>1, <2>2, <2>3, <2>4 DEF HeldTypes
<1>5. ASSUME ReconcileFails PROVE HeldTypes'
  <2>1. stuck' = stuck
    BY <1>5, Zenon DEF ReconcileFails
  <2>2. CASE pc = "links"
    <3>1. rPod \in Pod /\ pinned' \in {pinned, pinned \cup {rPod}}
      BY <1>5, <2>2, Zenon DEF ReconcileFails, Chosen
    <3>2. QED
      BY <2>1, <3>1 DEF HeldTypes
  <2>3. CASE pc # "links"
    BY <1>1, <1>5, <2>1, <2>3, Zenon DEF ReconcileFails
  <2>4. QED
    BY <2>2, <2>3
<1>6. ASSUME ControllerRestarts PROVE HeldTypes'
  BY <1>6 DEF ControllerRestarts, HeldTypes
<1>7. ASSUME NEW us, NEW vs, NEW i, ChangeUnderlays(us) \/ ChangeVNIs(vs) \/ ChangeNodes(i)
      PROVE  UNCHANGED <<pinned, stuck>>
  BY <1>7, Zenon DEF ChangeUnderlays, ChangeVNIs, ChangeNodes, Change, node
<1>8. ASSUME NEW p \in Pod, PodCreated(p) \/ PodReady(p) \/ SandboxCollected(p)
      PROVE  UNCHANGED <<pinned, stuck>>
  BY <1>8, Zenon DEF PodCreated, PodReady, SandboxCollected, node
<1>9. ASSUME Sync \/ RelistPods PROVE UNCHANGED <<pinned, stuck>>
  BY <1>9, Zenon DEF Sync, SyncUnderlays, SyncVNIs, SyncPods, RelistPods, Deliver, node
<1>10. ASSUME StartReconcile \/ RouterPodForNode \/ ListUnderlays \/ ListVNIs
              \/ ReloadFRRConfig \/ NetworkNamespace \/ ReconcileDone
       PROVE  UNCHANGED <<pinned, stuck>>
  BY <1>10, Zenon DEF StartReconcile, RouterPodForNode, ListUnderlays, ListVNIs,
     ReloadFRRConfig, NetworkNamespace, ReconcileDone, node
<1>11. QED
  BY <1>1, <1>2, <1>3, <1>4, <1>5, <1>6, <1>7, <1>8, <1>9, <1>10, Zenon DEF Next, ReconcileStep

-----------------------------------------------------------------------------
(***************************************************************************)
(* ... of the watch of the pods ...                                        *)
(***************************************************************************)

\* The watch ends with the pods as they are.
LEMMA NextLatest ==
    ASSUME Types, Latest, Next
    PROVE  Latest'
<1>1. ASSUME UNCHANGED <<pods, cPods, podWatch>> PROVE Latest'
  BY <1>1, Zenon DEF Latest
<1>2. ASSUME podWatch' = <<>>, cPods' = pods, pods' = pods PROVE Latest'
  BY <1>2, Zenon DEF Latest
<1>3. ASSUME podWatch' = Append(podWatch, pods') PROVE Latest'
  <2>1. podWatch' # <<>> /\ podWatch'[Len(podWatch')] = pods'
    BY <1>3 DEF Types, CacheTypes
  <2>2. QED
    BY <2>1, Zenon DEF Latest
<1>4. ASSUME SyncPods PROVE Latest'
  <2>1. podWatch \in Seq(States) /\ podWatch # <<>>
    BY <1>4, Zenon DEF SyncPods, Types, CacheTypes
  <2>2. Tail(podWatch) = <<>> => Head(podWatch) = podWatch[Len(podWatch)]
    <3>1. Len(Tail(podWatch)) = Len(podWatch) - 1 /\ Len(podWatch) \in Nat
      BY <2>1
    <3>2. ASSUME Tail(podWatch) = <<>> PROVE Len(podWatch) = 1
      <4>1. Len(<<>>) = 0
        OBVIOUS
      <4>2. Len(podWatch) - 1 = 0
        BY <3>1, <3>2, <4>1, Zenon
      <4>3. QED
        BY <3>1, <4>2
    <3>3. QED
      BY <2>1, <3>2
  <2>3. Tail(podWatch) # <<>> => Tail(podWatch)[Len(Tail(podWatch))] = podWatch[Len(podWatch)]
    BY <2>1
  <2>4. QED
    BY <1>4, <2>1, <2>2, <2>3, Zenon DEF SyncPods, Deliver, api, Latest
<1>5. ASSUME NEW us \in SUBSET Underlay, ChangeUnderlays(us) PROVE Latest'
  BY <1>1, <1>5, Zenon DEF ChangeUnderlays, Change, cache
<1>6. ASSUME NEW vs \in SUBSET VNI, ChangeVNIs(vs) PROVE Latest'
  BY <1>1, <1>6, Zenon DEF ChangeVNIs, Change, cache
<1>7. ASSUME NEW i \in 0..MaxIndex, ChangeNodes(i) PROVE Latest'
  BY <1>1, <1>7, Zenon DEF ChangeNodes, Change, cache
<1>8. ASSUME NEW p \in Pod, PodCreated(p) \/ PodReady(p) \/ PodDeleted(p) \/ SandboxRestarts(p) PROVE Latest'
  BY <1>3, <1>8, Zenon DEF PodCreated, PodReady, PodDeleted, SandboxRestarts, PodChanges
<1>9. ASSUME NEW p \in Pod, SandboxCollected(p) PROVE Latest'
  BY <1>1, <1>9, Zenon DEF SandboxCollected, api, cache
<1>10. ASSUME SyncUnderlays \/ SyncVNIs PROVE Latest'
  BY <1>1, <1>10, Zenon DEF SyncUnderlays, SyncVNIs, Deliver, api
<1>11. ASSUME RelistPods \/ ControllerRestarts PROVE Latest'
  BY <1>2, <1>11, Zenon DEF RelistPods, ControllerRestarts, api
<1>12. ASSUME ReconcileStep \/ ReconcileFails PROVE Latest'
  BY <1>1, <1>12, UnderlayCases, VNICases, Zenon
  DEF ReconcileStep, StartReconcile, RouterPodForNode, ListUnderlays, ListVNIs, ReloadFRRConfig,
      NetworkNamespace, ReconcileDone, Done, Error, Goto, Worker,
      ReconcileFails, api, cache
<1>13. QED
  BY <1>4, <1>5, <1>6, <1>7, <1>8, <1>9, <1>10, <1>11, <1>12, Zenon DEF Next, Sync

\* A pod the watch says is ready all the time was so before one more state of it.
LEMMA SeenBefore ==
    ASSUME Types, NEW p \in Pod, NEW s, podWatch' = Append(podWatch, s), cPods' = cPods, Seen(p)'
    PROVE  Seen(p) /\ s[p] = "ready"
<1>1. podWatch \in Seq(States)
  BY Zenon DEF Types, CacheTypes
<1>2. /\ \A k \in DOMAIN podWatch : k \in DOMAIN podWatch' /\ podWatch'[k] = podWatch[k]
      /\ \E k \in DOMAIN podWatch' : podWatch'[k] = s
  <2>1. Len(podWatch) + 1 \in DOMAIN podWatch' /\ podWatch'[Len(podWatch) + 1] = s
    BY <1>1
  <2>2. \A k \in DOMAIN podWatch : k \in DOMAIN podWatch' /\ podWatch'[k] = podWatch[k]
    BY <1>1
  <2>3. QED
    BY <2>1, <2>2, Zenon
<1>3. QED
  BY <1>2, Zenon DEF Seen

\* An event that passes no predicate says nothing new of a pod of the namespace.
LEMMA NoEvent ==
    ASSUME Types, NEW p \in Pod \ Foreign, ~PodEventPasses(cPods, cPods')
    PROVE  /\ p \in Listed(cPods') <=> p \in Listed(cPods)
           /\ cPods'[p] = "ready" <=> cPods[p] = "ready"
  BY Zenon DEF PodEventPasses, PodIsReady

\* So neither does the delivery of one.
LEMMA SeenDelivered ==
    ASSUME Types, NEW p \in Pod \ Foreign, SyncPods, ~queued', Seen(p)'
    PROVE  Seen(p) /\ ~queued
<1>1. ~PodEventPasses(cPods, cPods') /\ ~queued
  BY Zenon DEF SyncPods
<1>2. cPods[p] = "ready" /\ Head(podWatch)[p] = "ready"
  BY <1>1, NoEvent, Zenon DEF SyncPods, Seen
<1>3. podWatch \in Seq(States) /\ podWatch # <<>> /\ podWatch' = Tail(podWatch)
  BY Zenon DEF Types, CacheTypes, SyncPods
<1>4. \A k \in DOMAIN podWatch :
         podWatch[k] = Head(podWatch) \/ \E j \in DOMAIN podWatch' : podWatch[k] = podWatch'[j]
  <2>1. ASSUME NEW k \in DOMAIN podWatch, k # 1
        PROVE  k - 1 \in DOMAIN podWatch' /\ podWatch[k] = podWatch'[k - 1]
    BY <1>3, <2>1
  <2>2. podWatch[1] = Head(podWatch)
    BY <1>3
  <2>3. QED
    BY <2>1, <2>2, Zenon
<1>5. QED
  BY <1>1, <1>2, <1>4, Zenon DEF Seen

-----------------------------------------------------------------------------
(***************************************************************************)
(* ... of the pod and the lists of Reconcile ...                           *)
(***************************************************************************)

\* Steps outside Reconcile leave its control and local variables alone, and those
\* that change a cache queue it unless no predicate lets the event pass.
Outside ==
    /\ UNCHANGED <<pc, locals>>
    /\ ~queued' => /\ ~queued /\ UNCHANGED <<cUnderlays, cVnis>>
                   /\ ~PodEventPasses(cPods, cPods') \/ UNCHANGED cPods

\* What happens to a pod is outside.
LEMMA PodsOutside ==
    ASSUME NEW p, NEW from, NEW to, PodChanges(p, from, to)
    PROVE  Outside
  BY Zenon DEF PodChanges, Outside

\* The steps of the module are these, those of Reconcile and its failures.
LEMMA NotOutside ==
    ASSUME Types, Next
    PROVE  Outside \/ ReconcileStep \/ ReconcileFails \/ ControllerRestarts
<1>1. ASSUME NEW us \in SUBSET Underlay, ChangeUnderlays(us) PROVE Outside
  BY <1>1, Zenon DEF ChangeUnderlays, Change, cache, Outside
<1>2. ASSUME NEW vs \in SUBSET VNI, ChangeVNIs(vs) PROVE Outside
  BY <1>2, Zenon DEF ChangeVNIs, Change, cache, Outside
<1>3. ASSUME NEW i \in 0..MaxIndex, ChangeNodes(i) PROVE Outside
  BY <1>3, Zenon DEF ChangeNodes, Change, cache, Outside
<1>4. ASSUME NEW p \in Pod, PodCreated(p) \/ PodReady(p) \/ PodDeleted(p) \/ SandboxRestarts(p) PROVE Outside
  BY <1>4, PodsOutside, Zenon DEF PodCreated, PodReady, PodDeleted, SandboxRestarts
<1>5. ASSUME NEW p \in Pod, SandboxCollected(p) PROVE Outside
  BY <1>5, Zenon DEF SandboxCollected, cache, Outside
<1>6. ASSUME SyncUnderlays \/ SyncVNIs PROVE Outside
  BY <1>6, Zenon DEF SyncUnderlays, SyncVNIs, Deliver, Outside
<1>7. ASSUME SyncPods \/ RelistPods PROVE Outside
  BY <1>7, Zenon DEF SyncPods, RelistPods, Deliver, Outside
<1>8. QED
  BY <1>1, <1>2, <1>3, <1>4, <1>5, <1>6, <1>7, Zenon DEF Next, Sync

\* The pod of Reconcile.
LEMMA NextChosen ==
    ASSUME Types, Chosen, Next
    PROVE  Chosen'
<1>1. ASSUME Outside PROVE Chosen'
  <2> SUFFICES ASSUME pc \notin {"idle", "pod"}
               PROVE  /\ rPod \in Pod
                      /\ ~queued' => \A p \in Pod \ Foreign :
                            /\ p \in Listed(cPods') => p = rPod
                            /\ p = rPod => cPods'[p] = "ready"
    BY <1>1, Zenon DEF Chosen, Outside, locals, Listed
  <2>1. ASSUME ~queued', NEW p \in Pod \ Foreign
        PROVE  /\ p \in Listed(cPods') <=> p \in Listed(cPods)
               /\ cPods'[p] = "ready" <=> cPods[p] = "ready"
    BY <1>1, <2>1, NoEvent, Zenon DEF Outside
  <2>2. QED
    BY <1>1, <2>1, Zenon DEF Chosen, Outside
<1>2. ASSUME pc' \in {"idle", "pod"} PROVE Chosen'
  BY <1>2, Zenon DEF Chosen
<1>3. ASSUME pc \notin {"idle", "pod"}, UNCHANGED <<rPod, queued, cPods>> PROVE Chosen'
  BY <1>3, Zenon DEF Chosen, Listed
<1>4. ASSUME RouterPodForNode PROVE Chosen'
  <2>1. ASSUME NEW p \in Pod, Listed(cPods) = {p}, PodIsReady(cPods, p), rPod' = p, Goto("underlays")
        PROVE  Chosen'
    BY <2>1, Zenon DEF Chosen, PodIsReady, Goto, Worker, cache, Listed
  <2>2. QED
    BY <1>2, <1>4, <2>1, Zenon DEF RouterPodForNode, Done, Error, Leave
<1>5. ASSUME StartReconcile \/ ReconcileDone \/ ReconcileFails \/ ControllerRestarts PROVE Chosen'
  BY <1>2, <1>5, Zenon DEF StartReconcile, ReconcileDone, ReconcileFails, ControllerRestarts, Done, Leave
<1>6. ASSUME ListUnderlays \/ ListVNIs PROVE Chosen'
  BY <1>3, <1>6, Zenon DEF ListUnderlays, ListVNIs, Goto, Worker, cache
<1>7. ASSUME ReloadFRRConfig \/ NetworkNamespace PROVE Chosen'
  BY <1>2, <1>3, <1>7, Zenon
  DEF ReloadFRRConfig, NetworkNamespace, Goto, Worker, cache, locals, Error, Leave
<1>8. ASSUME SetupUnderlay \/ SetupVNI PROVE Chosen'
  BY <1>2, <1>3, <1>8, UnderlayCases, VNICases, Zenon DEF Goto, Worker, cache, Error, Leave
<1>9. QED
  BY <1>1, <1>4, <1>5, <1>6, <1>7, <1>8, NotOutside, Zenon DEF ReconcileStep

\* A conversion that succeeds has one underlay.
LEMMA OneUnderlay ==
    ASSUME NEW us \in SUBSET Underlay, NEW vs, ~ConversionFails(us, vs)
    PROVE  vs # {} /\ \E u \in Underlay : us = {u}
<1>1. IsFiniteSet(us)
  BY FiniteAssumption, FS_Subset, Zenon
<1>2. Cardinality(us) = 1 /\ vs # {}
  BY Zenon DEF ConversionFails
<1>3. \E u : us = {u}
  BY <1>1, <1>2, FS_Singleton, Zenon
<1>4. QED
  BY <1>2, <1>3, Zenon

\* The lists of Reconcile.
LEMMA NextRead ==
    ASSUME Types, Read, Next
    PROVE  Read'
<1>1. ASSUME Outside PROVE Read'
  BY <1>1, Zenon DEF Read, Outside, locals
<1>2. ASSUME pc' \in {"idle", "pod", "underlays"} PROVE Read'
  BY <1>2, Zenon DEF Read
<1>3. ASSUME ListUnderlays PROVE Read'
  BY <1>3, Zenon DEF Read, ListUnderlays, Goto, Worker, cache
<1>4. ASSUME ListVNIs PROVE Read'
  BY <1>4, Zenon DEF Read, ListVNIs, Goto, Worker, cache
<1>5. ASSUME pc \in {"ns", "nic", "links"}, UNCHANGED <<rUnderlays, rVnis, cUnderlays, cVnis, queued>>,
             pc' = "links" => todo' \subseteq rVnis
      PROVE  Read'
  BY <1>5, Zenon DEF Read
<1>6. ASSUME ReloadFRRConfig PROVE Read'
  <2>1. ASSUME ~ConversionFails(rUnderlays, rVnis), UNCHANGED locals, Goto("ns")
        PROVE  Read'
    <3>1. rVnis # {} /\ \E u \in Underlay : rUnderlays = {u}
      BY <2>1, OneUnderlay, Zenon DEF Types, LocalTypes
    <3>2. QED
      BY <1>6, <2>1, <3>1, Zenon DEF ReloadFRRConfig, Read, Goto, Worker, cache, locals
  <2>2. QED
    BY <1>2, <1>6, <2>1, Zenon DEF ReloadFRRConfig, Error, Leave
<1>7. ASSUME NetworkNamespace \/ SetupUnderlay \/ SetupVNI PROVE Read'
  <2>1. ASSUME Error PROVE Read'
    BY <1>2, <2>1, Zenon DEF Error, Leave
  <2>2. ASSUME NetworkNamespace PROVE Read'
    BY <1>5, <2>1, <2>2, Zenon DEF NetworkNamespace, Goto, Worker, cache
  <2>3. ASSUME SetupUnderlay PROVE Read'
    BY <1>5, <2>1, <2>3, UnderlayCases, Zenon DEF Goto, Worker, cache
  <2>4. ASSUME SetupVNI, ~Error PROVE Read'
    <3>1. pc = "links" /\ UNCHANGED <<rUnderlays, rVnis, cUnderlays, cVnis, queued>>
      BY <2>4, VNICases, Zenon DEF Goto, Worker, cache
    <3>2. todo' \subseteq todo
      BY <2>4, VNICases, Zenon
    <3>3. todo' \subseteq rVnis
      BY <3>1, <3>2, Zenon DEF Read
    <3>4. QED
      BY <1>5, <3>1, <3>3, Zenon
  <2>5. QED
    BY <1>7, <2>1, <2>2, <2>3, <2>4, Zenon
<1>8. ASSUME StartReconcile \/ RouterPodForNode \/ ReconcileDone \/ ReconcileFails \/ ControllerRestarts
      PROVE  Read'
  BY <1>2, <1>8, Zenon
  DEF StartReconcile, RouterPodForNode, ReconcileDone, ReconcileFails, ControllerRestarts,
      Goto, Done, Error, Leave
<1>9. QED
  BY <1>1, <1>3, <1>4, <1>6, <1>7, <1>8, NotOutside, Zenon DEF ReconcileStep

-----------------------------------------------------------------------------
(***************************************************************************)
(* ... and of what it has configured.                                      *)
(***************************************************************************)
KeptFor(p) == (pc = "idle" => Configured(p)) /\ (rPod = p => Written(p))

SameConfig(p) == frr'[p] = frr[p] /\ nic'[p] = nic[p] /\ links'[p] = links[p] /\ box'[p] = box[p]

\* A pod that is seen is ready.
LEMMA SeenIsReady ==
    ASSUME Types, Latest, NEW p \in Pod, Seen(p)
    PROVE  pods[p] = "ready"
<1>1. podWatch # <<>> => Len(podWatch) \in DOMAIN podWatch
  BY DEF Types, CacheTypes
<1>2. QED
  BY <1>1, Zenon DEF Latest, Seen

\* A step outside Reconcile that does not touch the namespace of p.
LEMMA KeptOutside ==
    ASSUME Types, NEW p \in Pod \ Foreign, Outside, ~queued', SameConfig(p), KeptFor(p)
    PROVE  KeptFor(p)'
<1>1. UNCHANGED <<pc, rIndex, rPod, rUnderlays, rVnis, rBox, todo, cUnderlays, cVnis>>
  BY Zenon DEF Outside, locals
<1>2. Configured(p) => Configured(p)'
  <2> SUFFICES ASSUME NEW u \in Underlay, NEW i \in 0..MaxIndex,
                      cUnderlays = {u}, cVnis # {},
                      frr[p] = [index |-> i, underlay |-> u, vnis |-> cVnis],
                      nic[p] = [index |-> i, underlay |-> u],
                      \A v \in cVnis : links[p][v] = [index |-> i, underlay |-> u]
               PROVE  Configured(p)'
    BY Zenon DEF Configured
  <2>1. cUnderlays' = {u} /\ cVnis' # {} /\ frr'[p] = [index |-> i, underlay |-> u, vnis |-> cVnis']
    BY <1>1, Zenon DEF SameConfig
  <2>2. nic'[p] = [index |-> i, underlay |-> u] /\ \A v \in cVnis' : links'[p][v] = [index |-> i, underlay |-> u]
    BY <1>1, Zenon DEF SameConfig
  <2>3. QED
    BY <2>1, <2>2, Zenon DEF Configured
<1>3. Written(p) => Written(p)'
  <2> SUFFICES ASSUME Written(p) PROVE Written(p)'
    OBVIOUS
  <2>1. frr'[p] = frr[p] /\ nic'[p] = nic[p] /\ links'[p] = links[p] /\ box'[p] = box[p]
    BY Zenon DEF SameConfig
  <2>2. pc' \in {"ns", "nic", "links"} => \A u \in rUnderlays' : frr'[p] = APItoFRR(rIndex', u, rVnis')
    BY <1>1, <2>1, Zenon DEF Written
  <2>3. pc' \in {"nic", "links"} => rBox' = box'[p]
    BY <1>1, <2>1, Zenon DEF Written
  <2>4. pc' = "links" => \A u \in rUnderlays' : nic'[p] = APItoHostConfig(rIndex', u)
    BY <1>1, <2>1, Zenon DEF Written
  <2>5. pc' = "links" => \A u \in rUnderlays' : \A v \in rVnis' \ todo' : links'[p][v] = APItoHostConfig(rIndex', u)
    BY <1>1, <2>1, Zenon DEF Written
  <2>6. QED
    BY <2>2, <2>3, <2>4, <2>5, Zenon DEF Written, APItoFRR, APItoHostConfig
<1>4. QED
  BY <1>1, <1>2, <1>3, Zenon DEF KeptFor

\* The objects, the pods and the informers.
LEMMA OthersKeep ==
    ASSUME Types, Latest, Next, NEW p \in Pod \ Foreign, Due(p)', Due(p) => KeptFor(p)
    PROVE  KeptFor(p)' \/ ReconcileStep
<1>1. ASSUME UNCHANGED <<cPods, podWatch, queued, missed>> PROVE Due(p)
  BY <1>1, Zenon DEF Due, Seen
<1>2. ASSUME UNCHANGED node PROVE SameConfig(p)
  BY <1>2, Zenon DEF node, setup, SameConfig
<1>3. ASSUME Outside, Due(p), SameConfig(p) PROVE KeptFor(p)'
  BY <1>3, KeptOutside, Zenon DEF Due
<1>4. ASSUME Change PROVE Due(p) /\ SameConfig(p)
  BY <1>1, <1>2, <1>4, Zenon DEF Change, cache
<1>5. ASSUME NEW q \in Pod, NEW from, NEW to, PodChanges(q, from, to)
      PROVE  Due(p) /\ Outside /\ (q = p => to = "ready")
  <2>1. Seen(p) /\ pods'[p] = "ready"
    BY <1>5, SeenBefore, Zenon DEF PodChanges, Due
  <2>2. Due(p)
    BY <1>5, <2>1, Zenon DEF PodChanges, Due
  <2>3. q = p => pods'[p] = to
    BY <1>5, Zenon DEF PodChanges, Types, ApiTypes, States
  <2>4. QED
    BY <1>5, <2>1, <2>2, <2>3, PodsOutside, Zenon
<1>6. ASSUME NEW us \in SUBSET Underlay, ChangeUnderlays(us) PROVE Due(p) /\ SameConfig(p) /\ Outside
  BY <1>4, <1>6, Zenon DEF ChangeUnderlays, Change, cache, Outside
<1>7. ASSUME NEW vs \in SUBSET VNI, ChangeVNIs(vs) PROVE Due(p) /\ SameConfig(p) /\ Outside
  BY <1>4, <1>7, Zenon DEF ChangeVNIs, Change, cache, Outside
<1>8. ASSUME NEW i \in 0..MaxIndex, ChangeNodes(i) PROVE Due(p) /\ SameConfig(p) /\ Outside
  BY <1>4, <1>8, Zenon DEF ChangeNodes, Change, cache, Outside
<1>9. ASSUME NEW q \in Pod, PodCreated(q) \/ PodReady(q) PROVE Due(p) /\ SameConfig(p) /\ Outside
  BY <1>2, <1>5, <1>9, Zenon DEF PodCreated, PodReady
<1>10. ASSUME NEW q \in Pod, PodDeleted(q) \/ SandboxRestarts(q) PROVE Due(p) /\ SameConfig(p) /\ Outside
  <2>1. ASSUME PodDeleted(q) PROVE Due(p) /\ Outside /\ q # p
    <3>1. PodChanges(q, {"starting", "ready"}, "gone")
      BY <2>1, Zenon DEF PodDeleted
    <3>2. QED
      BY <1>5, <3>1
  <2>2. ASSUME SandboxRestarts(q) PROVE Due(p) /\ Outside /\ q # p
    <3>1. PodChanges(q, {"ready"}, "starting")
      BY <2>2, Zenon DEF SandboxRestarts
    <3>2. QED
      BY <1>5, <3>1
  <2>3. q # p => SameConfig(p)
    BY <1>10, Zenon DEF PodDeleted, SandboxRestarts, NamespaceEnds, SameConfig, Types, NodeTypes
  <2>4. QED
    BY <1>10, <2>1, <2>2, <2>3, Zenon
<1>11. ASSUME NEW q \in Pod, SandboxCollected(q) PROVE Due(p) /\ SameConfig(p) /\ Outside
  BY <1>1, <1>11, Zenon DEF SandboxCollected, cache, Outside, SameConfig
<1>12. ASSUME SyncUnderlays \/ SyncVNIs \/ RelistPods PROVE FALSE
  BY <1>12, Zenon DEF SyncUnderlays, SyncVNIs, RelistPods, Due
<1>13. ASSUME SyncPods PROVE Due(p) /\ SameConfig(p) /\ Outside
  <2>1. Seen(p) /\ ~queued
    BY <1>13, SeenDelivered, Zenon DEF Due
  <2>2. QED
    BY <1>2, <1>13, <2>1, Zenon DEF SyncPods, Deliver, Due, Outside
<1>14. ASSUME ReconcileFails PROVE FALSE
  BY <1>14, Zenon DEF ReconcileFails, Due
<1>15. ASSUME ControllerRestarts PROVE FALSE
  <2>1. pods[p] = "ready" /\ Listed(pods) \subseteq Foreign
    BY <1>15, Zenon DEF ControllerRestarts, Due, Seen
  <2>2. QED
    BY <2>1, Zenon DEF Listed
<1>16. QED
  BY <1>3, <1>6, <1>7, <1>8, <1>9, <1>10, <1>11, <1>12, <1>13, <1>14, <1>15, Zenon DEF Next, Sync

\* The steps of Reconcile.
LEMMA ReconcileKeeps ==
    ASSUME Inv, ReconcileStep, NEW p \in Pod \ Foreign, Due(p)', Due(p) => KeptFor(p)
    PROVE  KeptFor(p)'
<1>1. Types /\ Latest /\ Chosen /\ Read
  BY Zenon DEF Inv
<1>2. ASSUME Error PROVE FALSE
  BY <1>2, Zenon DEF Error, Due
<1>3. ASSUME pc' \in {"pod", "underlays", "vnis", "frr"} PROVE KeptFor(p)'
  BY <1>3, Zenon DEF KeptFor, Written
<1>4. ASSUME Worker, UNCHANGED queued PROVE Due(p) /\ pods[p] = "ready"
  <2>1. Due(p)
    BY <1>4, Zenon DEF Worker, cache, Due, Seen
  <2>2. QED
    BY <1>1, <2>1, SeenIsReady, Zenon DEF Due
<1>5. ASSUME StartReconcile \/ ListUnderlays \/ ListVNIs PROVE KeptFor(p)'
  BY <1>3, <1>5, Zenon DEF StartReconcile, ListUnderlays, ListVNIs, Goto
<1>6. ASSUME RouterPodForNode PROVE KeptFor(p)'
  <2>1. ASSUME NEW q \in Pod, Listed(cPods) = {q}, ~PodIsReady(cPods, q), Done PROVE FALSE
    <3>1. Due(p)
      BY <1>4, <2>1, Zenon DEF Done
    <3>2. p \in Listed(cPods) /\ cPods[p] = "ready"
      BY <3>1, Zenon DEF Due, Seen, Listed
    <3>3. QED
      BY <2>1, <3>2, Zenon DEF PodIsReady
  <2>2. QED
    BY <1>2, <1>3, <1>6, <2>1, Zenon DEF RouterPodForNode, Goto
<1>7. ASSUME ReloadFRRConfig PROVE KeptFor(p)'
  <2>1. PICK u \in rUnderlays :
           /\ ~ConversionFails(rUnderlays, rVnis)
           /\ frr' = [frr EXCEPT ![rPod] = APItoFRR(rIndex, u, rVnis)]
           /\ UNCHANGED <<box, leftover, nic, links, locals>>
           /\ Goto("ns")
    BY <1>2, <1>7, Zenon DEF ReloadFRRConfig
  <2>2. rUnderlays = {u}
    <3>1. \E w \in Underlay : rUnderlays = {w}
      BY <1>1, <2>1, OneUnderlay, Zenon DEF Types, LocalTypes
    <3>2. QED
      BY <3>1, Zenon
  <2>3. ASSUME rPod = p PROVE frr'[p] = APItoFRR(rIndex, u, rVnis)
    BY <1>1, <2>1, <2>3, Zenon DEF Types, NodeTypes
  <2>4. pc' = "ns" /\ UNCHANGED <<rIndex, rPod, rUnderlays, rVnis>>
    BY <2>1, Zenon DEF Goto, locals
  <2>5. rPod = p => Written(p)'
    BY <2>2, <2>3, <2>4, Zenon DEF Written, APItoFRR
  <2>6. QED
    BY <2>4, <2>5, Zenon DEF KeptFor
<1>8. ASSUME NetworkNamespace PROVE KeptFor(p)'
  <2>1. /\ rBox' = box[rPod] /\ Goto("nic") /\ UNCHANGED node
        /\ UNCHANGED <<rIndex, rPod, rUnderlays, rVnis, todo>>
    BY <1>2, <1>8, Zenon DEF NetworkNamespace
  <2>2. pc' = "nic" /\ KeptFor(p) /\ pc = "ns"
    BY <1>4, <1>8, <2>1, Zenon DEF Goto, NetworkNamespace
  <2>3. rPod = p => Written(p)'
    BY <2>1, <2>2, Zenon DEF KeptFor, Written, node, setup, APItoFRR
  <2>4. QED
    BY <2>1, <2>2, <2>3, Zenon DEF KeptFor
<1>9. ASSUME rPod = p, pc \in {"nic", "links"}, Due(p), pods[p] = "ready" PROVE InPlace
  BY <1>9, Zenon DEF KeptFor, Written, InPlace
<1>10. ASSUME SetupUnderlay PROVE KeptFor(p)'
  <2>1. PICK u \in rUnderlays :
           /\ nic' = IF InPlace THEN [nic EXCEPT ![rPod] = APItoHostConfig(rIndex, u)] ELSE nic
           /\ todo' = rVnis
           /\ UNCHANGED <<box, leftover, frr, links, rIndex, rPod, rUnderlays, rVnis, rBox>>
           /\ Goto("links")
    BY <1>2, <1>10, UnderlayCases, Zenon
  <2>2. pc' = "links" /\ Due(p) /\ KeptFor(p) /\ pods[p] = "ready" /\ pc = "nic"
    BY <1>4, <1>10, <2>1, UnderlayCases, Zenon DEF Goto
  <2>3. rUnderlays = {u}
    BY <1>1, <2>2, Zenon DEF Read
  <2>4. ASSUME rPod = p PROVE nic'[p] = APItoHostConfig(rIndex, u)
    <3>1. nic' = [nic EXCEPT ![p] = APItoHostConfig(rIndex, u)]
      BY <1>9, <2>1, <2>2, <2>4, Zenon
    <3>2. QED
      BY <1>1, <3>1, Zenon DEF Types, NodeTypes
  <2>5. rPod = p => Written(p)'
    BY <2>1, <2>2, <2>3, <2>4, Zenon DEF KeptFor, Written, APItoFRR, APItoHostConfig
  <2>6. QED
    BY <2>1, <2>2, <2>5, Zenon DEF KeptFor
<1>11. ASSUME SetupVNI PROVE KeptFor(p)'
  <2>1. PICK u \in rUnderlays, v \in todo :
           /\ links' = IF InPlace THEN [links EXCEPT ![rPod][v] = APItoHostConfig(rIndex, u)] ELSE links
           /\ todo' = todo \ {v}
           /\ UNCHANGED <<box, leftover, frr, nic, rIndex, rPod, rUnderlays, rVnis, rBox>>
           /\ Goto("links")
    BY <1>2, <1>11, VNICases, Zenon
  <2>2. pc' = "links" /\ Due(p) /\ KeptFor(p) /\ pods[p] = "ready" /\ pc = "links"
    BY <1>4, <1>11, <2>1, VNICases, Zenon DEF Goto
  <2>3. rUnderlays = {u}
    BY <1>1, <2>2, Zenon DEF Read
  <2>4. ASSUME rPod = p
        PROVE  \A w \in VNI : links'[p][w] = IF w = v THEN APItoHostConfig(rIndex, u) ELSE links[p][w]
    <3>1. links' = [links EXCEPT ![p][v] = APItoHostConfig(rIndex, u)]
      BY <1>9, <2>1, <2>2, <2>4, Zenon
    <3>2. QED
      BY <1>1, <3>1 DEF Types, NodeTypes
  <2>5. ASSUME rPod = p, NEW w \in rVnis \ (todo \ {v})
        PROVE  links'[p][w] = APItoHostConfig(rIndex, u)
    <3>1. w \in VNI /\ (w = v \/ w \in rVnis \ todo)
      BY <1>1, Zenon DEF Types, LocalTypes
    <3>2. w \in rVnis \ todo => links[p][w] = APItoHostConfig(rIndex, u)
      BY <2>2, <2>3, <2>5, Zenon DEF KeptFor, Written
    <3>3. QED
      BY <2>4, <2>5, <3>1, <3>2, Zenon
  <2>6. ASSUME rPod = p PROVE Written(p)'
    <3>1. Written(p) /\ UNCHANGED <<box, frr, nic, rIndex, rUnderlays, rVnis, rBox>> /\ todo' = todo \ {v}
      BY <2>1, <2>2, <2>6, Zenon DEF KeptFor
    <3>2. \A w \in rUnderlays' : frr'[p] = APItoFRR(rIndex', w, rVnis')
      BY <2>2, <3>1, Zenon DEF Written
    <3>3. rBox' = box'[p]
      BY <2>2, <3>1, Zenon DEF Written
    <3>4. \A w \in rUnderlays' : nic'[p] = APItoHostConfig(rIndex', w)
      BY <2>2, <3>1, Zenon DEF Written
    <3>5. \A w \in rUnderlays' : \A x \in rVnis' \ todo' : links'[p][x] = APItoHostConfig(rIndex', w)
      BY <2>3, <2>5, <2>6, <3>1, Zenon
    <3>6. QED
      BY <3>2, <3>3, <3>4, <3>5, Zenon DEF Written, APItoFRR, APItoHostConfig
  <2>7. QED
    BY <2>1, <2>2, <2>6, Zenon DEF KeptFor
<1>12. ASSUME ReconcileDone PROVE KeptFor(p)'
  <2>1. pc = "links" /\ todo = {} /\ UNCHANGED node /\ pc' = "idle" /\ UNCHANGED cache
    BY <1>12, Zenon DEF ReconcileDone, Done, Leave, Worker
  <2>2. Due(p) /\ KeptFor(p) /\ ~queued
    BY <1>4, <1>12, Zenon DEF ReconcileDone, Done, Due
  <2>3. rPod = p
    BY <1>1, <2>1, <2>2, Zenon DEF Chosen, Due, Seen, Listed
  <2>4. PICK u \in Underlay : rUnderlays = {u}
    BY <1>1, <2>1, Zenon DEF Read
  <2>5. cUnderlays = {u} /\ cVnis = rVnis /\ rVnis # {} /\ rIndex \in 0..MaxIndex
    BY <1>1, <2>1, <2>2, <2>4, Zenon DEF Read, Types, LocalTypes
  <2>6. Configured(p)
    <3>1. frr[p] = [index |-> rIndex, underlay |-> u, vnis |-> cVnis]
      BY <2>1, <2>2, <2>3, <2>4, <2>5, Zenon DEF KeptFor, Written, APItoFRR
    <3>2. nic[p] = [index |-> rIndex, underlay |-> u]
      BY <2>1, <2>2, <2>3, <2>4, Zenon DEF KeptFor, Written, APItoHostConfig
    <3>3. \A v \in cVnis : links[p][v] = [index |-> rIndex, underlay |-> u]
      BY <2>1, <2>2, <2>3, <2>4, <2>5, Zenon DEF KeptFor, Written, APItoHostConfig
    <3>4. QED
      BY <2>5, <3>1, <3>2, <3>3, Zenon DEF Configured
  <2>7. Configured(p)'
    BY <2>1, <2>6, Zenon DEF Configured, node, setup, cache
  <2>8. QED
    BY <2>1, <2>7, Zenon DEF KeptFor, Written
<1>13. QED
  BY <1>5, <1>6, <1>7, <1>8, <1>10, <1>11, <1>12, Zenon DEF ReconcileStep

-----------------------------------------------------------------------------
(***************************************************************************)
(* The theorems.                                                           *)
(***************************************************************************)

\* A controller that has just started has queued a reconciliation if there is a pod.
LEMMA InitInv ==
    ASSUME Init PROVE Inv
<1>1. First \in Pod \ Foreign
  BY ForeignAssumption, Zenon DEF First
<1>2. Types
  <2>1. pods \in States
    BY <1>1 DEF Init, States
  <2>2. 0 \in 0..MaxIndex /\ 0 \in 0..MaxEvents /\ 0 \in 0..MaxFails /\ 0 \in 0..0 /\ <<>> \in Seq(States)
    BY BoundAssumption
  <2>3. queued \in BOOLEAN
    BY Zenon DEF Init
  <2>4. NodeTypes
    BY <2>2, Zenon DEF Init, NodeTypes
  <2>5. QED
    BY <2>1, <2>2, <2>3, <2>4, Zenon DEF Init, Types, ApiTypes, CacheTypes, LocalTypes, ControlTypes
<1>3. Latest /\ Chosen /\ Read
  BY Zenon DEF Init, Latest, Chosen, Read
<1>4. Kept
  <2>1. ASSUME NEW p \in Pod, cPods[p] = "ready" PROVE queued
    <3>1. p \in Listed(pods)
      BY <2>1, Zenon DEF Init, Listed
    <3>2. QED
      BY <3>1, Zenon DEF Init
  <2>2. QED
    BY <2>1, Zenon DEF Kept, Due, Seen
<1>5. HeldTypes
  BY DEF Init, HeldTypes
<1>6. QED
  BY <1>2, <1>3, <1>4, <1>5, Zenon DEF Inv

\* The invariant of the controller: until an event queues Reconcile again, its lists
\* are what the caches hold, and what it has configured is what it has read.
THEOREM Invariance == Spec => []Inv
<1>1. Inv /\ [Next]_vars => Inv'
  <2> SUFFICES ASSUME Inv, [Next]_vars PROVE Inv'
    OBVIOUS
  <2>1. CASE Next
    <3>1. Types /\ HeldTypes /\ Latest /\ Chosen /\ Read
      BY Zenon DEF Inv
    <3>2. Types' /\ HeldTypes' /\ Latest' /\ Chosen' /\ Read'
      BY <2>1, <3>1, NextTypes, NextHeldTypes, NextLatest, NextChosen, NextRead, Zenon
    <3>3. ASSUME NEW p \in Pod \ Foreign, Due(p)' PROVE KeptFor(p)'
      <4>1. Due(p) => KeptFor(p)
        BY Zenon DEF Inv, Kept, KeptFor
      <4>2. QED
        BY <2>1, <3>1, <3>3, <4>1, OthersKeep, ReconcileKeeps, Zenon
    <3>4. Kept'
      BY <3>3, Zenon DEF Kept, KeptFor
    <3>5. QED
      BY <3>2, <3>4, Zenon DEF Inv
  <2>2. CASE UNCHANGED vars
    <3> USE <2>2 DEF vars, api, cache, locals, node, setup, counts
    <3>1. Types' /\ HeldTypes'
      BY Zenon DEF Inv, Types, ApiTypes, CacheTypes, LocalTypes, NodeTypes, ControlTypes, HeldTypes
    <3>2. Latest' /\ Chosen' /\ Read'
      BY Zenon DEF Inv, Latest, Chosen, Read, Listed
    <3>3. Kept'
      <4> SUFFICES ASSUME NEW p \in Pod \ Foreign, Due(p)' PROVE KeptFor(p)'
        BY Zenon DEF Kept, KeptFor
      <4>1. Due(p) /\ KeptFor(p)
        BY Zenon DEF Inv, Kept, KeptFor, Due, Seen
      <4>2. Outside /\ ~queued' /\ SameConfig(p)
        BY <4>1, Zenon DEF Outside, SameConfig, Due
      <4>3. QED
        BY <4>1, <4>2, KeptOutside, Zenon DEF Inv
    <3>4. QED
      BY <3>1, <3>2, <3>3, Zenon DEF Inv
  <2>3. QED
    BY <2>1, <2>2, Zenon
<1>2. QED
  BY <1>1, InitInv, PTL DEF Spec

\* The variables of the controller, its caches and what is configured stay in range.
THEOREM TypeCorrect == Spec => []TypeOK
<1>1. Inv => TypeOK
  BY TypesSuffice, Zenon DEF Inv
<1>2. QED
  BY <1>1, Invariance, PTL

\* With nothing queued or on its way, the caches are the API, and every ready pod is seen.
LEMMA QuietFromInv ==
    ASSUME Inv, Quiet, ~missed, NEW p \in Pod \ Foreign, pods[p] = "ready"
    PROVE  Applied(p)
<1>1. cPods = pods /\ DOMAIN podWatch = {}
  <2>1. podWatch = <<>>
    BY Zenon DEF Quiet
  <2>2. DOMAIN podWatch = {}
    BY <2>1
  <2>3. QED
    BY <2>1, <2>2, Zenon DEF Inv, Latest
<1>2. Due(p)
  BY <1>1, Zenon DEF Quiet, Due, Seen
<1>3. Configured(p)
  BY <1>2, Zenon DEF Inv, Kept, Quiet
<1>4. QED
  BY <1>3, Zenon DEF Quiet, Configured, Applied

\* When nothing is on its way, queued or in progress, a ready router pod is
\* configured as the API says, however the separate lists of Reconcile, the
\* informers, the predicates, errors and restarts were interleaved with the changes.
THEOREM QuietIsApplied == Spec => []QuietMeansApplied
<1>1. Inv => QuietMeansApplied
  BY QuietFromInv, Zenon DEF QuietMeansApplied
<1>2. QED
  BY <1>1, Invariance, PTL

\* configureInterfaces sets up the interfaces for one underlay and some VNIs, those
\* FRR was configured for in the same sandbox, unless the event of its replacement
\* is on its way to queue Reconcile again.
THEOREM InterfacesAfterFRR == Spec => []InterfacesFollowFRR
<1>1. Inv => InterfacesFollowFRR
  <2> SUFFICES ASSUME Inv, pc \in {"nic", "links"}
               PROVE  /\ Cardinality(rUnderlays) = 1 /\ rVnis # {}
                      /\ \/ ~InPlace \/ rPod \in Foreign \/ missed \/ queued \/ podWatch # <<>>
                         \/ \E u \in rUnderlays : frr[rPod] = APItoFRR(rIndex, u, rVnis)
    BY Zenon DEF InterfacesFollowFRR
  <2>1. PICK u \in Underlay : rUnderlays = {u} /\ rVnis # {}
    BY Zenon DEF Inv, Read
  <2>2. Cardinality(rUnderlays) = 1
    BY <2>1, FS_Singleton, Zenon
  <2>3. ASSUME rPod \notin Foreign, ~missed, ~queued, podWatch = <<>>
        PROVE  frr[rPod] = APItoFRR(rIndex, u, rVnis)
    <3>1. rPod \in Pod \ Foreign /\ cPods[rPod] = "ready"
      BY <2>3, Zenon DEF Inv, Chosen
    <3>2. DOMAIN podWatch = {}
      BY <2>3
    <3>3. Due(rPod)
      BY <2>3, <3>1, <3>2, Zenon DEF Due, Seen
    <3>4. QED
      BY <2>1, <3>1, <3>3, Zenon DEF Inv, Kept, Written
  <2>4. QED
    BY <2>1, <2>2, <2>3, Zenon
<1>2. QED
  BY <1>1, Invariance, PTL

-----------------------------------------------------------------------------
(***************************************************************************)
(* The refinement of ControllerService.                                    *)
(***************************************************************************)

\* While nothing is expected, the lists and the pod of Reconcile are those of the API,
\* and what it has configured so far is still there.
LEMMA ReadIsCurrent ==
    ASSUME Inv, pc \in {"frr", "ns", "nic", "links"}, ~Expecting
    PROVE  /\ rUnderlays = underlays /\ rVnis = vnis
           /\ rPod \in Foreign \/ pods[rPod] = "ready"
           /\ rPod \notin Foreign /\ ~missed => Written(rPod)
<1>1. ~queued /\ podWatch = <<>> /\ cUnderlays = underlays /\ cVnis = vnis
  BY Zenon DEF Expecting
<1>2. DOMAIN podWatch = {}
  BY <1>1
<1>3. cPods = pods
  BY <1>1, Zenon DEF Inv, Latest
<1>4. rPod \in Pod /\ (rPod \notin Foreign => cPods[rPod] = "ready")
  BY <1>1, Zenon DEF Inv, Chosen
<1>5. ASSUME rPod \notin Foreign, ~missed PROVE Written(rPod)
  <2>1. Due(rPod)
    BY <1>1, <1>2, <1>4, <1>5, Zenon DEF Due, Seen
  <2>2. QED
    BY <1>4, <1>5, <2>1, Zenon DEF Inv, Kept
<1>6. rUnderlays = underlays /\ rVnis = vnis
  BY <1>1, Zenon DEF Inv, Read
<1>7. QED
  BY <1>3, <1>4, <1>5, <1>6, Zenon

\* A step that leaves the API, the pods and the configuration alone.
LEMMA TurnRefines ==
    ASSUME UNCHANGED <<underlays, vnis, pods, frr, nic, links>>, missed => missed',
           pc = "idle" /\ pc' # "idle" => queued
    PROVE  Service!Step
  BY Zenon DEF Service!Step, Service!Turn, Service!api, Service!config, Expecting

\* The API objects, the nodes and the pods change.
LEMMA ChangesRefine ==
    ASSUME Types, NEW p \in Pod, NEW us \in SUBSET Underlay, NEW vs \in SUBSET VNI, NEW i \in 0..MaxIndex,
           \/ ChangeUnderlays(us) \/ ChangeVNIs(vs) \/ ChangeNodes(i)
           \/ PodCreated(p) \/ PodReady(p) \/ PodDeleted(p) \/ SandboxRestarts(p) \/ SandboxCollected(p)
    PROVE  Service!Step
<1>1. ASSUME underlays' \in SUBSET Underlay, vnis' \in SUBSET VNI,
             UNCHANGED <<pods, frr, nic, links, pc, missed>>
      PROVE  Service!Step
  BY <1>1, Zenon DEF Service!Step, Service!ChangeAPI, Service!config
<1>2. ASSUME ChangeUnderlays(us) \/ ChangeVNIs(vs) PROVE Service!Step
  BY <1>1, <1>2, Zenon DEF ChangeUnderlays, ChangeVNIs, Change, node, setup, Types, ApiTypes
<1>3. ASSUME ChangeNodes(i) \/ SandboxCollected(p) PROVE Service!Step
  <2>1. UNCHANGED <<underlays, vnis, pods, frr, nic, links>> /\ UNCHANGED pc /\ UNCHANGED missed
    BY <1>3, Zenon DEF ChangeNodes, SandboxCollected, Change, node, setup, api
  <2>2. (missed => missed') /\ (pc = "idle" /\ pc' # "idle" => queued)
    BY <2>1, Zenon
  <2>3. QED
    BY <2>1, <2>2, TurnRefines, Zenon
<1>4. ASSUME NEW from, NEW to \in {"starting", "ready", "gone"}, PodChanges(p, from, to),
             \/ UNCHANGED <<frr, nic, links>>
             \/ /\ frr' \in {frr, [frr EXCEPT ![p] = None]}
                /\ nic' = [nic EXCEPT ![p] = None]
                /\ links' = [links EXCEPT ![p] = [v \in VNI |-> None]]
      PROVE  Service!Step
  <2>1. pods' = [pods EXCEPT ![p] = to] /\ UNCHANGED <<underlays, vnis, pc, missed>>
    BY <1>4, Zenon DEF PodChanges
  <2>2. pods' \in {[pods EXCEPT ![p] = s] : s \in {"starting", "ready", "gone"}}
    BY <1>4, <2>1, Zenon
  <2>3. Service!PodChanges(p)
    BY <1>4, <2>1, <2>2, Zenon DEF Service!PodChanges, Service!api, Service!config
  <2>4. QED
    BY <2>3, Zenon DEF Service!Step
<1>5. ASSUME PodCreated(p) \/ PodReady(p) PROVE Service!Step
  BY <1>4, <1>5, Zenon DEF PodCreated, PodReady, node, setup
<1>6. ASSUME PodDeleted(p) \/ SandboxRestarts(p) PROVE Service!Step
  BY <1>4, <1>6, Zenon DEF PodDeleted, SandboxRestarts, NamespaceEnds
<1>7. QED
  BY <1>2, <1>3, <1>5, <1>6, Zenon

\* The informers deliver, Reconcile starts, reads, returns, fails or dies.
LEMMA TurnsRefine ==
    ASSUME \/ Sync \/ RelistPods \/ ReconcileFails \/ ControllerRestarts
           \/ StartReconcile \/ RouterPodForNode \/ ListUnderlays \/ ListVNIs
           \/ NetworkNamespace \/ ReconcileDone \/ (UNCHANGED setup /\ Error)
    PROVE  Service!Step
<1>1. ASSUME Sync \/ RelistPods PROVE Service!Step
  <2>1. UNCHANGED <<underlays, vnis, pods, frr, nic, links>> /\ UNCHANGED pc
    BY <1>1, Zenon DEF Sync, SyncUnderlays, SyncVNIs, SyncPods, RelistPods, Deliver, api, node, setup
  <2>2. missed => missed'
    BY <1>1, Zenon DEF Sync, SyncUnderlays, SyncVNIs, SyncPods, RelistPods, Deliver
  <2>3. pc = "idle" /\ pc' # "idle" => queued
    BY <2>1, Zenon
  <2>4. QED
    BY <2>1, <2>2, <2>3, TurnRefines, Zenon
<1>2. ASSUME ReconcileFails \/ ControllerRestarts PROVE Service!Step
  <2>1. UNCHANGED <<underlays, vnis, pods, frr, nic, links>> /\ UNCHANGED missed /\ pc' = "idle"
    BY <1>2, Zenon DEF ReconcileFails, ControllerRestarts, Leave, api, setup
  <2>2. (missed => missed') /\ (pc = "idle" /\ pc' # "idle" => queued)
    BY <2>1, Zenon
  <2>3. QED
    BY <2>1, <2>2, TurnRefines, Zenon
<1>3. ASSUME StartReconcile PROVE Service!Step
  BY <1>3, TurnRefines, Zenon DEF StartReconcile, Worker, api, node, setup
<1>4. ASSUME UNCHANGED setup, Worker, pc # "idle" \/ pc' = "idle" PROVE Service!Step
  BY <1>4, TurnRefines, Zenon DEF Worker, api, setup
<1>5. ASSUME UNCHANGED setup, Done \/ Error PROVE Service!Step
  BY <1>4, <1>5, Zenon DEF Done, Error, Leave
<1>6. ASSUME NEW l, UNCHANGED setup, Goto(l), pc # "idle" PROVE Service!Step
  BY <1>4, <1>6, Zenon DEF Goto
<1>7. ASSUME RouterPodForNode PROVE Service!Step
  BY <1>5, <1>6, <1>7, Zenon DEF RouterPodForNode, node
<1>8. ASSUME ListUnderlays \/ ListVNIs PROVE Service!Step
  BY <1>6, <1>8, Zenon DEF ListUnderlays, ListVNIs, node
<1>9. ASSUME NetworkNamespace \/ ReconcileDone PROVE Service!Step
  BY <1>5, <1>6, <1>9, Zenon DEF NetworkNamespace, ReconcileDone, node
<1>10. QED
  BY <1>1, <1>2, <1>3, <1>5, <1>7, <1>8, <1>9, Zenon

\* The three requests that change the configuration of the pod.
LEMMA RequestsRefine ==
    ASSUME Inv, ReloadFRRConfig \/ SetupUnderlay \/ SetupVNI
    PROVE  Service!Step
<1>1. Types /\ Read /\ rIndex \in 0..MaxIndex /\ rUnderlays \subseteq Underlay
  BY Zenon DEF Inv, Types, LocalTypes
<1>2. rPod \in Pod
  BY UnderlayCases, VNICases, Zenon DEF Inv, Chosen, ReloadFRRConfig
<1>3. ASSUME UNCHANGED setup, Error PROVE Service!Step
  BY <1>3, TurnsRefine, Zenon
<1>4. ASSUME Goto("ns") \/ Goto("links"), pc # "idle", pods[rPod] # "gone"
      PROVE  Service!Works(rPod)
  <2>1. /\ UNCHANGED <<underlays, vnis>> /\ UNCHANGED pods /\ UNCHANGED missed
        /\ UNCHANGED <<queued, podWatch, cUnderlays, cVnis>> /\ pc' # "idle"
    BY <1>4, Zenon DEF Goto, Worker, api, cache
  <2>2. Expecting' = Expecting
    BY <2>1, Zenon DEF Expecting
  <2>3. (pc' # "idle") = (pc # "idle")
    BY <1>4, <2>1, Zenon
  <2>4. QED
    BY <1>4, <2>1, <2>2, <2>3, Zenon DEF Service!Works, Service!api
<1>5. ASSUME ReloadFRRConfig PROVE Service!Step
  <2>1. CASE UNCHANGED node /\ Error
    BY <1>3, <2>1, Zenon DEF node
  <2>2. CASE \E u \in rUnderlays :
             /\ ~ConversionFails(rUnderlays, rVnis) /\ pods[rPod] # "gone"
             /\ frr' = [frr EXCEPT ![rPod] = APItoFRR(rIndex, u, rVnis)]
             /\ UNCHANGED <<box, leftover, nic, links, locals>>
             /\ Goto("ns")
    <3>1. PICK u \in rUnderlays :
             /\ ~ConversionFails(rUnderlays, rVnis) /\ pods[rPod] # "gone"
             /\ frr' = [frr EXCEPT ![rPod] = APItoFRR(rIndex, u, rVnis)]
             /\ UNCHANGED <<box, leftover, nic, links, locals>>
             /\ Goto("ns")
      BY <2>2, Zenon
    <3>2. pc = "frr"
      BY <1>5, Zenon DEF ReloadFRRConfig
    <3>3. rUnderlays = {u} /\ rVnis \in (SUBSET VNI) \ {{}}
      <4>1. rVnis # {} /\ \E w \in Underlay : rUnderlays = {w}
        BY <1>1, <3>1, OneUnderlay, Zenon
      <4>2. rVnis \in SUBSET VNI
        BY <1>1, Zenon DEF Types, LocalTypes
      <4>3. QED
        BY <3>1, <4>1, <4>2, Zenon
    <3>4. Expecting \/ (Service!UpToDate(rPod, u) /\ vnis = rVnis)
      BY <3>2, <3>3, ReadIsCurrent, Zenon DEF Service!UpToDate
    <3>5. Service!Works(rPod)
      BY <1>4, <3>1, <3>2, Zenon
    <3>6. frr' = [frr EXCEPT ![rPod] = Service!FRRConfig(rIndex, u, rVnis)]
      BY <3>1, Zenon DEF APItoFRR, Service!FRRConfig
    <3>7. Service!ConfigureFRR(rPod)
      BY <1>1, <3>1, <3>3, <3>4, <3>5, <3>6, Zenon DEF Service!ConfigureFRR
    <3>8. QED
      BY <1>2, <3>7, Zenon DEF Service!Step
  <2>3. QED
    BY <1>5, <2>1, <2>2, Zenon DEF ReloadFRRConfig
<1>6. ASSUME NEW u \in rUnderlays, pc \in {"nic", "links"}, ~Service!Excused(rPod)
      PROVE  /\ Service!UpToDate(rPod, u) /\ rVnis = vnis
             /\ frr[rPod] = Service!FRRConfig(rIndex, u, vnis)
             /\ pc = "links" => nic[rPod] = Service!Params(rIndex, u)
  <2>1. ~Expecting /\ ~missed /\ rPod \notin Foreign
    BY <1>6, Zenon DEF Service!Excused
  <2>2. rUnderlays = {u}
    BY <1>1, <1>6, Zenon DEF Read
  <2>3. rUnderlays = underlays /\ rVnis = vnis /\ pods[rPod] = "ready" /\ Written(rPod)
    BY <1>6, <2>1, ReadIsCurrent, Zenon
  <2>4. frr[rPod] = APItoFRR(rIndex, u, rVnis) /\ (pc = "links" => nic[rPod] = APItoHostConfig(rIndex, u))
    BY <1>6, <2>3, Zenon DEF Written
  <2>5. QED
    BY <2>2, <2>3, <2>4, Zenon
    DEF Service!UpToDate, Service!FRRConfig, Service!Params, APItoFRR, APItoHostConfig
<1>7. ASSUME SetupUnderlay PROVE Service!Step
  <2>1. CASE UNCHANGED node /\ Error
    BY <1>3, <2>1, Zenon DEF node
  <2>2. ASSUME NEW u \in rUnderlays,
               nic' = IF InPlace THEN [nic EXCEPT ![rPod] = APItoHostConfig(rIndex, u)] ELSE nic,
               UNCHANGED <<box, leftover, frr, links, rIndex, rPod, rUnderlays, rVnis, rBox>>,
               Goto("links")
        PROVE  Service!Step
    <3>1. pc = "nic"
      BY <1>7, UnderlayCases, Zenon
    <3>2. CASE ~InPlace
      <4>1. UNCHANGED <<underlays, vnis, pods, frr, nic, links>> /\ UNCHANGED missed
        BY <2>2, <3>2, Zenon DEF Goto, Worker, api
      <4>2. (missed => missed') /\ (pc = "idle" /\ pc' # "idle" => queued)
        BY <3>1, <4>1, Zenon
      <4>3. QED
        BY <4>1, <4>2, TurnRefines, Zenon
    <3>3. CASE InPlace
      <4>1. Service!Works(rPod)
        BY <1>4, <2>2, <3>1, <3>3, Zenon DEF InPlace
      <4>2. nic' = [nic EXCEPT ![rPod] = Service!Params(rIndex, u)]
        BY <2>2, <3>3, Zenon DEF APItoHostConfig, Service!Params
      <4>3. \/ Service!Excused(rPod)
            \/ Service!UpToDate(rPod, u) /\ frr[rPod] = Service!FRRConfig(rIndex, u, vnis)
        BY <1>6, <3>1, Zenon
      <4>4. u \in Underlay
        BY <1>1, Zenon
      <4>5. Service!SetUpUnderlay(rPod)
        BY <1>1, <2>2, <4>1, <4>2, <4>3, <4>4, Zenon DEF Service!SetUpUnderlay
      <4>6. QED
        BY <1>2, <4>5, Zenon DEF Service!Step
    <3>4. QED
      BY <3>2, <3>3, Zenon
  <2>3. QED
    BY <1>7, <2>1, <2>2, UnderlayCases, Zenon
<1>8. ASSUME SetupVNI PROVE Service!Step
  <2>1. CASE UNCHANGED setup /\ Error
    BY <1>3, <2>1, Zenon
  <2>2. ASSUME NEW u \in rUnderlays, NEW v \in todo,
               links' = IF InPlace THEN [links EXCEPT ![rPod][v] = APItoHostConfig(rIndex, u)] ELSE links,
               UNCHANGED <<box, leftover, frr, nic, rIndex, rPod, rUnderlays, rVnis, rBox>>,
               Goto("links")
        PROVE  Service!Step
    <3>1. pc = "links"
      BY <1>8, VNICases, Zenon
    <3>2. CASE ~InPlace
      <4>1. UNCHANGED <<underlays, vnis, pods, frr, nic, links>> /\ UNCHANGED missed
        BY <2>2, <3>2, Zenon DEF Goto, Worker, api
      <4>2. (missed => missed') /\ (pc = "idle" /\ pc' # "idle" => queued)
        BY <3>1, <4>1, Zenon
      <4>3. QED
        BY <4>1, <4>2, TurnRefines, Zenon
    <3>3. CASE InPlace
      <4>1. Service!Works(rPod)
        BY <1>4, <2>2, <3>1, <3>3, Zenon DEF InPlace
      <4>2. links' = [links EXCEPT ![rPod][v] = Service!Params(rIndex, u)]
        BY <2>2, <3>3, Zenon DEF APItoHostConfig, Service!Params
      <4>3. todo \subseteq rVnis
        BY <1>1, <3>1, Zenon DEF Read
      <4>4. \/ Service!Excused(rPod)
            \/ /\ Service!UpToDate(rPod, u) /\ v \in vnis
               /\ frr[rPod] = Service!FRRConfig(rIndex, u, vnis) /\ nic[rPod] = Service!Params(rIndex, u)
        BY <1>6, <3>1, <4>3, Zenon
      <4>5. u \in Underlay /\ v \in VNI
        BY <1>1, Zenon DEF Types, LocalTypes
      <4>6. Service!SetUpVNI(rPod, v)
        BY <1>1, <2>2, <4>1, <4>2, <4>4, <4>5, Zenon DEF Service!SetUpVNI
      <4>7. QED
        BY <1>2, <4>5, <4>6, Zenon DEF Service!Step
    <3>4. QED
      BY <3>2, <3>3, Zenon
  <2>3. QED
    BY <1>8, <2>1, <2>2, VNICases, Zenon
<1>9. QED
  BY <1>5, <1>7, <1>8, Zenon

\* Every step of the controller is one of the service, or none.
LEMMA StepRefines ==
    ASSUME Inv, [Next]_vars
    PROVE  Service!Step \/ UNCHANGED Service!vars
<1>1. CASE UNCHANGED vars
  BY <1>1, Zenon DEF vars, api, cache, node, setup, Service!vars, Service!api, Service!config, Expecting
<1>2. CASE Next
  <2>1. Types
    BY Zenon DEF Inv
  <2>2. {} \in SUBSET Underlay /\ {} \in SUBSET VNI /\ 0 \in 0..MaxIndex /\ Pod # {}
    BY BoundAssumption, ForeignAssumption
  <2>3. QED
    BY <1>2, <2>1, <2>2, ChangesRefine, TurnsRefine, RequestsRefine, Zenon DEF Next, ReconcileStep
<1>3. QED
  BY <1>1, <1>2, Zenon

\* The caches, the watch, the queue and the separate requests of Reconcile implement
\* the promise of the controller.
THEOREM Refinement == Spec => FollowsAPI
<1>1. Init => Service!Init
  <2> SUFFICES ASSUME Init PROVE Service!Init
    OBVIOUS
  <2>1. Inv
    BY InitInv
  <2>2. pods \in [Pod -> {"absent", "starting", "ready"}]
    BY DEF Init
  <2>3. QuietMeansApplied
    BY <2>1, QuietFromInv, Zenon DEF QuietMeansApplied
  <2>4. Service!RestsOnlyWhenApplied
    BY <2>3, Zenon DEF QuietMeansApplied, Quiet, Expecting, Applied, Service!RestsOnlyWhenApplied,
       Service!Applied, Service!FRRConfig, Service!Params
  <2>5. (pc # "idle") = FALSE /\ Expecting \in BOOLEAN /\ missed = FALSE
    BY Zenon DEF Init, Expecting
  <2>6. QED
    BY <2>2, <2>4, <2>5, Zenon DEF Init, Service!Init
<1>2. QuietMeansApplied => Service!RestsOnlyWhenApplied
  BY Zenon DEF QuietMeansApplied, Quiet, Expecting, Applied, Service!RestsOnlyWhenApplied,
     Service!Applied, Service!FRRConfig, Service!Params
<1>3. Inv /\ [Next]_vars => Service!Step \/ UNCHANGED Service!vars
  BY StepRefines, Zenon
<1>4. QED
  BY <1>1, <1>2, <1>3, Invariance, QuietIsApplied, PTL DEF Spec, FollowsAPI, Service!Spec, Service!Next

=============================================================================
