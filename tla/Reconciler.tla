----------------------------- MODULE Reconciler -----------------------------
(***************************************************************************)
(* The controller of a node (internal/controller): informers bring the API *)
(* objects into caches and queue reconciliations; Reconcile lists the      *)
(* router pod, the underlays and the VNIs, loads the FRR configuration     *)
(* (reloadFRRConfig) and configures the pod's namespace                    *)
(* (configureInterfaces).                                                  *)
(*                                                                         *)
(* Reconcile ignores which object it is called for, and one worker runs    *)
(* it, so the work queue is one flag.  reloadFRRConfig, SetupUnderlay and  *)
(* SetupVNI are one step each here; the modules FRRReload, Underlay and    *)
(* VNI have their detail.                                                  *)
(***************************************************************************)
EXTENDS Naturals, Sequences, FiniteSets

CONSTANTS
    Underlay, VNI,    \* the objects of the API, one element per content
    Pod,              \* pods labelled app=router on this node, one after the other
    Foreign,          \* those among them outside the controller's namespace
    None,             \* nothing configured
    MaxIndex,         \* bound: positions of the node among the nodes are 0..MaxIndex
    MaxEvents,        \* bound: changes of underlays, VNIs, nodes and pods
    MaxFails          \* bound: reconciliations that fail, controller restarts

ASSUME ForeignAssumption == Foreign \subseteq Pod /\ Foreign # Pod
ASSUME FiniteAssumption == IsFiniteSet(Underlay)
ASSUME NoneAssumption == None \notin Underlay /\ None \notin Pod
ASSUME BoundAssumption ==
    MaxIndex \in Nat /\ MaxEvents \in Nat /\ MaxFails \in Nat

VARIABLES
    underlays, vnis,          \* the objects in the API
    pods,                     \* pods[p]: absent, starting, ready, gone
    index,                    \* this node's position in the cached, sorted node list
    cUnderlays, cVnis, cPods, \* the informers' caches
    podWatch,                 \* states of the pods still to be delivered
    queued,                   \* the work queue is not empty
    pc,                       \* next step of Reconcile
    rIndex, rPod, rUnderlays, rVnis, rBox, todo,  \* its local variables
    box,                      \* box[p]: how often the sandbox of p was replaced
    leftover,                 \* pods whose replaced sandbox is still listed
    frr,                      \* frr[p]: the configuration FRR runs in p
    nic,                      \* nic[p]: the underlay set up in p's namespace
    links,                    \* links[p][v]: the parameters v is set up with there
    pinned,                   \* pods on whose namespace SetupVNI has left a handle open
    stuck,                    \* underlays and VNIs whose interface is in the namespace
                              \* of a dead sandbox that such a handle keeps alive
    missed,                   \* history: a relist hid a restart of the pod
    events, fails

api    == <<underlays, vnis, pods, index>>
cache  == <<cUnderlays, cVnis, cPods, podWatch>>
locals == <<rIndex, rPod, rUnderlays, rVnis, rBox, todo>>
setup  == <<box, leftover, frr, nic, links>>
node   == <<setup, pinned, stuck>>
counts == <<events, fails>>
vars   == <<api, cache, queued, pc, locals, node, missed, counts>>

FRRConfig   == [index : 0..MaxIndex, underlay : Underlay, vnis : SUBSET VNI]
HostParams  == [index : 0..MaxIndex, underlay : Underlay]

Listed(ps) == {p \in Pod : ps[p] \in {"starting", "ready"}}

\* The router pod that may be there already.
First == CHOOSE p \in Pod : p \notin Foreign

\* A controller that has just started, in any cluster; pods of other namespaces
\* come later.
Init ==
    /\ underlays \in SUBSET Underlay /\ vnis \in SUBSET VNI
    /\ pods \in {[[p \in Pod |-> "absent"] EXCEPT ![First] = s] : s \in {"absent", "starting", "ready"}}
    /\ index = 0    \* which one makes no difference
    /\ cUnderlays = underlays /\ cVnis = vnis /\ cPods = pods
    /\ podWatch = <<>>
    /\ queued = (underlays # {} \/ vnis # {} \/ Listed(pods) # {})
    /\ pc = "idle"
    /\ rIndex = 0 /\ rPod = None /\ rUnderlays = {} /\ rVnis = {} /\ rBox = 0 /\ todo = {}
    /\ box = [p \in Pod |-> 0] /\ leftover = {}
    /\ frr = [p \in Pod |-> None]
    /\ nic = [p \in Pod |-> None]
    /\ links = [p \in Pod |-> [v \in VNI |-> None]]
    /\ pinned = {} /\ stuck = {}
    /\ missed = FALSE
    /\ events = 0 /\ fails = 0

(***************************************************************************)
(* The API objects change.                                                 *)
(***************************************************************************)
Change ==
    /\ events < MaxEvents
    /\ events' = events + 1
    /\ UNCHANGED <<pods, cache, queued, pc, locals, node, missed, fails>>

ChangeUnderlays(us) == us # underlays /\ underlays' = us /\ UNCHANGED <<vnis, index>> /\ Change
ChangeVNIs(vs) == vs # vnis /\ vnis' = vs /\ UNCHANGED <<underlays, index>> /\ Change

\* A node older than this one joins the list or leaves it.  Nodes are listed but
\* not watched.
ChangeNodes(i) == i # index /\ index' = i /\ UNCHANGED <<underlays, vnis>> /\ Change

PodChanges(p, from, to) ==
    /\ pods[p] \in from
    /\ events < MaxEvents
    /\ events' = events + 1
    /\ pods' = [pods EXCEPT ![p] = to]
    /\ podWatch' = Append(podWatch, pods')
    /\ UNCHANGED <<underlays, vnis, index, cUnderlays, cVnis, cPods,
                   queued, pc, locals, missed, fails>>

\* The DaemonSet creates its pod when the last one is gone; a pod of somebody
\* else comes at any time.
PodCreated(p) ==
    /\ p \in Foreign \/ Listed(pods) \subseteq Foreign
    /\ PodChanges(p, {"absent"}, "starting")
    /\ UNCHANGED node

PodReady(p) == PodChanges(p, {"starting"}, "ready") /\ UNCHANGED node

\* What was set up in the namespace of p.
Devices(p) ==
    {u \in Underlay : nic[p] # None /\ nic[p].underlay = u} \cup {v \in VNI : links[p][v] # None}

\* The sandbox of p ends.  The kernel destroys its namespace, which gives the
\* underlay's interface back and removes the legs, unless a handle is open on it.
NamespaceEnds(p) ==
    /\ nic' = [nic EXCEPT ![p] = None]
    /\ links' = [links EXCEPT ![p] = [v \in VNI |-> None]]
    /\ pinned' = pinned \ {p}
    /\ stuck' = IF p \in pinned THEN stuck \cup Devices(p) ELSE stuck

\* Its namespace, with what is in it, goes with the pod ...
PodDeleted(p) ==
    /\ PodChanges(p, {"starting", "ready"}, "gone")
    /\ frr' = [frr EXCEPT ![p] = None]
    /\ NamespaceEnds(p)
    /\ UNCHANGED <<box, leftover>>

\* ... or with its sandbox, which is replaced, and collected some time later;
\* FRR may start from the configuration it has saved.
SandboxRestarts(p) ==
    /\ PodChanges(p, {"ready"}, "starting")
    /\ frr' \in {frr, [frr EXCEPT ![p] = None]}
    /\ NamespaceEnds(p)
    /\ box' = [box EXCEPT ![p] = @ + 1]
    /\ leftover' = leftover \cup {p}

SandboxCollected(p) ==
    /\ p \in leftover
    /\ leftover' = leftover \ {p}
    /\ UNCHANGED <<api, cache, queued, pc, locals, box, frr, nic, links, pinned, stuck, missed, counts>>

-----------------------------------------------------------------------------
(***************************************************************************)
(* Informers and predicates (SetupWithManager).                            *)
(***************************************************************************)
Deliver == UNCHANGED <<api, pc, locals, node, missed, counts>>

SyncUnderlays ==
    /\ cUnderlays # underlays
    /\ cUnderlays' = underlays
    /\ queued' = TRUE
    /\ UNCHANGED <<cVnis, cPods, podWatch>> /\ Deliver

SyncVNIs ==
    /\ cVnis # vnis
    /\ cVnis' = vnis
    /\ queued' = TRUE
    /\ UNCHANGED <<cUnderlays, cPods, podWatch>> /\ Deliver

\* filterNonRouterPods and filterUpdates: a pod of the namespace is created,
\* deleted, or changes its readiness.
PodIsReady(ps, p) == ps[p] = "ready"

\* Fault: only the creation and the deletion of a pod count.
ReadinessIgnored(old, new) ==
    \E p \in Pod \ Foreign : (p \in Listed(old)) # (p \in Listed(new))

PodEventPasses(old, new) ==
    \E p \in Pod \ Foreign :
        \/ (p \in Listed(old)) # (p \in Listed(new))
        \/ PodIsReady(old, p) # PodIsReady(new, p)

SyncPods ==
    /\ podWatch # <<>>
    /\ cPods' = Head(podWatch)
    /\ podWatch' = Tail(podWatch)
    /\ queued' = (queued \/ PodEventPasses(cPods, cPods'))
    /\ UNCHANGED <<cUnderlays, cVnis>> /\ Deliver

\* The watch breaks: a new list replaces the events not yet delivered.
RelistPods ==
    /\ Len(podWatch) > 1
    /\ cPods' = pods
    /\ podWatch' = <<>>
    /\ queued' = (queued \/ PodEventPasses(cPods, cPods'))
    /\ missed' = (missed \/ ~PodEventPasses(cPods, cPods'))
    /\ UNCHANGED <<cUnderlays, cVnis, api, pc, locals, node, counts>>

-----------------------------------------------------------------------------
(***************************************************************************)
(* Reconcile.                                                              *)
(***************************************************************************)
Worker == UNCHANGED <<api, cache, missed, events>>
Goto(l) == pc' = l /\ UNCHANGED <<queued, fails>> /\ Worker

\* Reconcile's local variables are gone when it returns.
Leave ==
    /\ pc' = "idle"
    /\ rIndex' = 0 /\ rPod' = None /\ rUnderlays' = {} /\ rVnis' = {} /\ rBox' = 0 /\ todo' = {}

\* The end of Reconcile; with an error it is queued again.
Done == Leave /\ UNCHANGED <<queued, fails>> /\ Worker

\* Fault: an error does not queue the reconciliation again.
ErrorDropped == Leave /\ UNCHANGED <<queued, fails>> /\ Worker

Error == Leave /\ queued' = TRUE /\ UNCHANGED fails /\ Worker

\* nodeIndex.
StartReconcile ==
    /\ pc = "idle"
    /\ queued
    /\ queued' = FALSE
    /\ rIndex' = index
    /\ pc' = "pod"
    /\ UNCHANGED <<rPod, rUnderlays, rVnis, rBox, todo, node, fails>> /\ Worker

\* routerPodForNode lists the pods of all namespaces.
RouterPodForNode ==
    /\ pc = "pod"
    /\ UNCHANGED node
    /\ \/ Cardinality(Listed(cPods)) # 1 /\ Error
       \/ \E p \in Pod :
             /\ Listed(cPods) = {p}
             /\ \/ ~PodIsReady(cPods, p) /\ Done
                \/ /\ PodIsReady(cPods, p)
                   /\ rPod' = p
                   /\ UNCHANGED <<rIndex, rUnderlays, rVnis, rBox, todo>>
                   /\ Goto("underlays")

ListUnderlays ==
    /\ pc = "underlays"
    /\ rUnderlays' = cUnderlays
    /\ UNCHANGED <<rIndex, rPod, rVnis, rBox, todo, node>> /\ Goto("vnis")

ListVNIs ==
    /\ pc = "vnis"
    /\ rVnis' = cVnis
    /\ UNCHANGED <<rIndex, rPod, rUnderlays, rBox, todo, node>> /\ Goto("frr")

\* Fault: underlays are not counted.
UnderlaysNotCounted(us, vs) == us = {} \/ vs = {}

\* What the two conversions make of the lists (Conversion has their detail); VTEP
\* and veth addresses follow from the node index.
ConversionFails(us, vs) == Cardinality(us) # 1 \/ vs = {}
APItoFRR(i, u, vs) == [index |-> i, underlay |-> u, vnis |-> vs]
APItoHostConfig(i, u) == [index |-> i, underlay |-> u]

\* The reloader of the pod does not answer unless the pod is up.
ReloadFRRConfig ==
    /\ pc = "frr"
    /\ \/ /\ ConversionFails(rUnderlays, rVnis) \/ pods[rPod] # "ready"
          /\ UNCHANGED node
          /\ Error
       \/ \E u \in rUnderlays :
             /\ ~ConversionFails(rUnderlays, rVnis) /\ pods[rPod] # "gone"
             /\ frr' = [frr EXCEPT ![rPod] = APItoFRR(rIndex, u, rVnis)]
             /\ UNCHANGED <<box, leftover, nic, links, pinned, stuck, locals>>
             /\ Goto("ns")

\* podSandboxID is an error while the runtime lists two sandboxes of the pod, or
\* none; that of a deleted pod may still be there.
NetworkNamespace ==
    /\ pc = "ns"
    /\ UNCHANGED node
    /\ \/ (rPod \in leftover \/ pods[rPod] = "gone") /\ Error
       \/ /\ rPod \notin leftover
          /\ rBox' = box[rPod]
          /\ UNCHANGED <<rIndex, rPod, rUnderlays, rVnis, todo>>
          /\ Goto("nic")

\* The namespace found is that of the sandbox the pod has now.  An older one can
\* be gone, or still be there and be configured for nothing.
InPlace == pods[rPod] # "gone" /\ rBox = box[rPod]

\* moveNicToNamespace does not find an interface that is stuck (of two underlays
\* that name the same interface one may be); one that is moved into an older
\* sandbox is stuck if that one is held.
SetupUnderlay ==
    /\ pc = "nic"
    /\ \/ /\ ~InPlace \/ stuck \cap Underlay # {}
          /\ UNCHANGED node
          /\ Error
       \/ \E u \in rUnderlays :
             /\ InPlace => u \notin stuck
             /\ nic' = IF InPlace THEN [nic EXCEPT ![rPod] = APItoHostConfig(rIndex, u)] ELSE nic
             /\ stuck' \in IF InPlace THEN {stuck} ELSE {stuck, stuck \cup {u}}
             /\ todo' = rVnis
             /\ UNCHANGED <<box, leftover, frr, links, pinned, rIndex, rPod, rUnderlays, rVnis, rBox>>
             /\ Goto("links")

\* SetupVNI opens the namespace and never closes it.  It fails when the VNI's leg
\* is stuck: the leg's peer is on the host, and itself in neither namespace.
SetUpFor(i) ==
    /\ pc = "links"
    /\ todo # {}
    /\ \/ ~InPlace /\ UNCHANGED node /\ Error
       \/ /\ InPlace /\ todo \cap stuck # {}
          /\ pinned' = pinned \cup {rPod}
          /\ UNCHANGED <<setup, stuck>>
          /\ Error
       \/ \E u \in rUnderlays, v \in todo :
             /\ InPlace => v \notin stuck
             /\ links' = IF InPlace THEN [links EXCEPT ![rPod][v] = APItoHostConfig(i, u)] ELSE links
             /\ pinned' = IF InPlace THEN pinned \cup {rPod} ELSE pinned
             /\ stuck' = IF InPlace THEN stuck ELSE stuck \cup {u, v}
             /\ todo' = todo \ {v}
             /\ UNCHANGED <<box, leftover, frr, nic, rIndex, rPod, rUnderlays, rVnis, rBox>>
             /\ Goto("links")

\* Fault: the node index is looked up again for each VNI.
IndexReadAgain == SetUpFor(index)

SetupVNI == SetUpFor(rIndex)

ReconcileDone == pc = "links" /\ todo = {} /\ UNCHANGED node /\ Done

\* Some call of Reconcile returns an error; SetupVNI with its namespace open.
ReconcileFails ==
    /\ pc # "idle"
    /\ fails < MaxFails
    /\ fails' = fails + 1
    /\ queued' = TRUE
    /\ pinned' \in {pinned, IF pc = "links" /\ InPlace THEN pinned \cup {rPod} ELSE pinned}
    /\ Leave
    /\ UNCHANGED <<api, cache, setup, stuck, missed, events>>

\* The handles of a controller process end with it.  A new one lists everything
\* and queues what it lists.
ControllerRestarts ==
    /\ fails < MaxFails
    /\ fails' = fails + 1
    /\ Leave
    /\ cUnderlays' = underlays /\ cVnis' = vnis /\ cPods' = pods /\ podWatch' = <<>>
    /\ queued' = (underlays # {} \/ vnis # {} \/ ~(Listed(pods) \subseteq Foreign))
    /\ pinned' = {} /\ stuck' = {}
    /\ UNCHANGED <<api, setup, missed, events>>

-----------------------------------------------------------------------------
ReconcileStep ==
    \/ StartReconcile \/ RouterPodForNode \/ ListUnderlays \/ ListVNIs
    \/ ReloadFRRConfig \/ NetworkNamespace \/ SetupUnderlay \/ SetupVNI \/ ReconcileDone

Sync == SyncUnderlays \/ SyncVNIs \/ SyncPods

Next ==
    \/ \E us \in SUBSET Underlay : ChangeUnderlays(us)
    \/ \E vs \in SUBSET VNI : ChangeVNIs(vs)
    \/ \E i \in 0..MaxIndex : ChangeNodes(i)
    \/ \E p \in Pod : PodCreated(p) \/ PodReady(p) \/ PodDeleted(p) \/ SandboxRestarts(p) \/ SandboxCollected(p)
    \/ Sync \/ RelistPods
    \/ ReconcileStep \/ ReconcileFails \/ ControllerRestarts

Spec == Init /\ [][Next]_vars

\* The informers deliver, the worker works, the kubelet collects dead sandboxes.
\* What is delivered or collected is finite, so one fairness condition for all
\* of it is enough.
FairSpec ==
    /\ Spec
    /\ WF_vars(Sync) /\ WF_vars(ReconcileStep)
    /\ WF_vars(\E p \in Pod : SandboxCollected(p))

-----------------------------------------------------------------------------
TypeOK ==
    /\ underlays \subseteq Underlay /\ cUnderlays \subseteq Underlay /\ rUnderlays \subseteq Underlay
    /\ vnis \subseteq VNI /\ cVnis \subseteq VNI /\ rVnis \subseteq VNI /\ todo \subseteq VNI
    /\ pods \in [Pod -> {"absent", "starting", "ready", "gone"}]
    /\ cPods \in [Pod -> {"absent", "starting", "ready", "gone"}]
    /\ podWatch \in Seq([Pod -> {"absent", "starting", "ready", "gone"}])
    /\ index \in 0..MaxIndex /\ rIndex \in 0..MaxIndex
    /\ queued \in BOOLEAN /\ missed \in BOOLEAN
    /\ pc \in {"idle", "pod", "underlays", "vnis", "frr", "ns", "nic", "links"}
    /\ rPod \in Pod \cup {None} /\ rBox \in 0..MaxEvents
    /\ box \in [Pod -> 0..MaxEvents] /\ leftover \subseteq Pod
    /\ frr \in [Pod -> FRRConfig \cup {None}]
    /\ nic \in [Pod -> HostParams \cup {None}]
    /\ links \in [Pod -> [VNI -> HostParams \cup {None}]]
    /\ pinned \subseteq Pod /\ stuck \subseteq Underlay \cup VNI
    /\ events \in 0..MaxEvents /\ fails \in 0..MaxFails

\* No event on its way, nothing queued, nothing in progress.
Quiet ==
    /\ cUnderlays = underlays /\ cVnis = vnis /\ podWatch = <<>>
    /\ ~queued /\ pc = "idle"

\* Pod p is configured as the API says, with one and the same node index.
Applied(p) ==
    \E u \in Underlay, i \in 0..MaxIndex :
        /\ underlays = {u} /\ vnis # {}
        /\ frr[p] = [index |-> i, underlay |-> u, vnis |-> vnis]
        /\ nic[p] = [index |-> i, underlay |-> u]
        /\ \A v \in vnis : links[p][v] = [index |-> i, underlay |-> u]

\* When the controller has nothing left to do, a ready router pod is configured
\* as the API says: no change of an object, of the pod or of its readiness is
\* lost between the separate lists of Reconcile, the informers, the predicates,
\* failures and restarts.  (Quiet with an unusable API is impossible: the error
\* queues Reconcile again.)
QuietMeansApplied ==
    Quiet /\ ~missed => \A p \in Pod \ Foreign : pods[p] = "ready" => Applied(p)

\* The interfaces are set up for exactly one underlay and some VNIs (the second
\* conversion would return empty parameters without an error), and in a sandbox
\* whose FRR runs the configuration made from the same lists and index; or else
\* the replacement of the sandbox after the reload is on its way to queue
\* Reconcile again.
InterfacesFollowFRR ==
    pc \in {"nic", "links"} =>
        /\ Cardinality(rUnderlays) = 1 /\ rVnis # {}
        /\ \/ ~InPlace \/ rPod \in Foreign \/ missed \/ queued \/ podWatch # <<>>
           \/ \E u \in rUnderlays : frr[rPod] = APItoFRR(rIndex, u, rVnis)

\* The controller will run Reconcile, perhaps a second time: it is queued, or
\* something the informers have yet to deliver may queue it.
Expecting == queued \/ podWatch # <<>> \/ cUnderlays # underlays \/ cVnis # vnis

\* The controller implements ControllerService.  Every request of Reconcile, though
\* made from lists read one after the other out of caches that lag, is one the
\* present API objects ask for, or Reconcile will run again; the interfaces are set
\* up for the lists and the node index FRR was configured with, in this order.
Service == INSTANCE ControllerService WITH
    busy <- pc # "idle", again <- Expecting, void <- missed
FollowsAPI == Service!Spec

\* A handle that SetupVNI left open keeps an interface of the configuration, or
\* that of another underlay, in a dead namespace.
Blocked == stuck \cap (Underlay \cup vnis) # {}

\* Once the pod is ready and stays so, the API is usable and at rest, and no handle
\* of SetupVNI keeps the interfaces of an earlier pod, the pod ends up configured.
Converges ==
    /\ <>[](\E p \in Pod \ Foreign : Listed(pods) = {p} /\ pods[p] = "ready")
    /\ <>[]~Blocked
    /\ []~missed
    => <>[](Cardinality(underlays) = 1 /\ vnis # {} =>
                \E p \in Pod \ Foreign : pods[p] = "ready" /\ Applied(p))

=============================================================================
