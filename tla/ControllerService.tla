------------------------- MODULE ControllerService -------------------------
(***************************************************************************)
(* What the controller of a node promises: the router pod's configuration  *)
(* changes only while the controller works, one item of one pod at a time, *)
(* and to what the API says at that moment, unless it is going to start    *)
(* over; the interfaces are set up after FRR and for the same underlay,    *)
(* VNIs and node index; and it rests only when the pod is configured as    *)
(* the API says.  There is no cache, no queue, no watch and no sandbox     *)
(* here.  Reconciler implements it.                                        *)
(***************************************************************************)
EXTENDS Naturals

CONSTANTS Underlay, VNI, Pod, Foreign, None, MaxIndex

VARIABLES
    underlays, vnis,    \* the objects in the API
    pods,               \* pods[p]: absent, starting, ready, gone
    frr, nic, links,    \* the configuration of each pod
    busy,               \* the controller works
    again,              \* it will start, or start over
    void                \* a restart of the pod went unnoticed: no promise any more

api    == <<underlays, vnis>>
config == <<frr, nic, links>>
vars   == <<api, pods, config, busy, again, void>>

FRRConfig(i, u, vs) == [index |-> i, underlay |-> u, vnis |-> vs]
Params(i, u) == [index |-> i, underlay |-> u]

\* Pod p is configured as the API says, with one and the same node index.
Applied(p) ==
    \E u \in Underlay, i \in 0..MaxIndex :
        /\ underlays = {u} /\ vnis # {}
        /\ frr[p] = FRRConfig(i, u, vnis)
        /\ nic[p] = Params(i, u)
        /\ \A v \in vnis : links[p][v] = Params(i, u)

RestsOnlyWhenApplied ==
    ~busy /\ ~again /\ ~void => \A p \in Pod \ Foreign : pods[p] = "ready" => Applied(p)

Init ==
    /\ underlays \in SUBSET Underlay /\ vnis \in SUBSET VNI
    /\ pods \in [Pod -> {"absent", "starting", "ready"}]
    /\ frr = [p \in Pod |-> None]
    /\ nic = [p \in Pod |-> None]
    /\ links = [p \in Pod |-> [v \in VNI |-> None]]
    /\ busy = FALSE /\ again \in BOOLEAN /\ void = FALSE
    /\ RestsOnlyWhenApplied

ChangeAPI ==
    /\ underlays' \in SUBSET Underlay /\ vnis' \in SUBSET VNI
    /\ UNCHANGED <<pods, config, busy, void>>

\* A pod comes, becomes ready, restarts or goes; its interfaces go with its
\* namespace, FRR's configuration perhaps.
PodChanges(p) ==
    /\ pods' \in {[pods EXCEPT ![p] = s] : s \in {"starting", "ready", "gone"}}
    /\ \/ UNCHANGED config
       \/ /\ frr' \in {frr, [frr EXCEPT ![p] = None]}
          /\ nic' = [nic EXCEPT ![p] = None]
          /\ links' = [links EXCEPT ![p] = [v \in VNI |-> None]]
    /\ UNCHANGED <<api, busy, void>>

\* The controller learns something, starts or ends.
Turn ==
    /\ busy' /\ ~busy => again
    /\ void => void'
    /\ UNCHANGED <<api, pods, config>>

Works(p) == busy /\ pods[p] # "gone" /\ UNCHANGED <<api, pods, busy, again, void>>

\* It is working on what the API says, for a pod that is ready.
UpToDate(p, u) == underlays = {u} /\ (p \in Foreign \/ pods[p] = "ready")

ConfigureFRR(p) ==
    /\ Works(p)
    /\ \E i \in 0..MaxIndex, u \in Underlay, vs \in (SUBSET VNI) \ {{}} :
          /\ again \/ (UpToDate(p, u) /\ vnis = vs)
          /\ frr' = [frr EXCEPT ![p] = FRRConfig(i, u, vs)]
    /\ UNCHANGED <<nic, links>>

\* A foreign pod can restart unnoticed.
Excused(p) == again \/ void \/ p \in Foreign

SetUpUnderlay(p) ==
    /\ Works(p)
    /\ \E i \in 0..MaxIndex, u \in Underlay :
          /\ Excused(p) \/ (UpToDate(p, u) /\ frr[p] = FRRConfig(i, u, vnis))
          /\ nic' = [nic EXCEPT ![p] = Params(i, u)]
    /\ UNCHANGED <<frr, links>>

SetUpVNI(p, v) ==
    /\ Works(p)
    /\ \E i \in 0..MaxIndex, u \in Underlay :
          /\ \/ Excused(p)
             \/ /\ UpToDate(p, u) /\ v \in vnis
                /\ frr[p] = FRRConfig(i, u, vnis) /\ nic[p] = Params(i, u)
          /\ links' = [links EXCEPT ![p][v] = Params(i, u)]
    /\ UNCHANGED <<frr, nic>>

Step ==
    \/ ChangeAPI \/ Turn
    \/ \E p \in Pod :
          \/ PodChanges(p) \/ ConfigureFRR(p) \/ SetUpUnderlay(p)
          \/ \E v \in VNI : SetUpVNI(p, v)

Next == Step /\ RestsOnlyWhenApplied'

Spec == Init /\ [][Next]_vars

=============================================================================
