------------------------------ MODULE Underlay ------------------------------
(***************************************************************************)
(* SetupUnderlay (internal/hostnetwork/underlay.go, properties.go): the    *)
(* controller moves the host interface named by the Underlay object into   *)
(* the network namespace of the router pod, keeping its addresses, and     *)
(* recognises it later by a marker address.                                *)
(*                                                                         *)
(* One action is one netlink request that changes the kernel's state, with *)
(* the reads and tests that lead to it.  Between two actions the call may  *)
(* be cut short (a request returns an error, the controller dies), the     *)
(* router pod may die and the kernel may destroy its namespace.            *)
(***************************************************************************)
EXTENDS Naturals

CONSTANTS
    Nic,        \* host interfaces an Underlay object may name
    Physical,   \* those of them that outlive the namespace they are in
    NicAddr,    \* NicAddr[n]: the addresses the host's administrator gave n
    Vtep,       \* values of UnderlayParams.VtepIP
    NS,         \* network namespaces of router pods
    Host,       \* the namespace of the controller
    Gone,       \* "place" of an interface that no longer exists
    NoNic,      \* the empty interface name
    NoParams,   \* no call in progress
    Special,    \* underlayNicSpecialAddr
    MaxFails,   \* bound: calls that are cut short
    MaxChanges  \* bound: changes of the Underlay object

ASSUME PlaceAssumption == Host \notin NS /\ Gone \notin NS /\ Host # Gone
ASSUME NicAssumption == NoNic \notin Nic /\ Physical \subseteq Nic
ASSUME AddrAssumption ==
    /\ NicAddr = [n \in Nic |-> NicAddr[n]]
    /\ \A n \in Nic : Special \notin NicAddr[n]
ASSUME BoundAssumption == MaxFails \in Nat /\ MaxChanges \in Nat

VARIABLES
    nsState,    \* life of each namespace: unused, of the live pod, orphan
    where,      \* where[n]: the namespace interface n is in
    addrs,      \* addrs[n]: the addresses of n
    up,         \* the interfaces that are up
    lound,      \* the namespaces with the UnderlayLoopback device
    vteps,      \* vteps[s]: the addresses of that device in namespace s
    handles,    \* the namespaces on which SetupVNI has left a handle open
    want,       \* MainNic and VtepIP derived from the API
    pc,         \* next step of the call in progress, "idle" if there is none
    par,        \* its UnderlayParams
    old,        \* its oldUnderlayNic
    mv,         \* the interface its moveNicToNamespace has moved
    saved,      \* addresses moveNicToNamespace has still to restore
    fails,      \* number of calls cut short so far
    changes,    \* number of changes of the API object so far
    torn,       \* history: moves cut short before the addresses were back,
                \* or namespaces destroyed with the interface inside
    stray       \* history: calls cut short with the interface in the
                \* namespace but not marked

kernel == <<nsState, where, addrs, up, lound, vteps>>
call   == <<pc, par, old, mv, saved>>
vars   == <<kernel, handles, want, call, fails, changes, torn, stray>>

Addr   == {Special} \cup (UNION {NicAddr[n] : n \in Nic})
Params == [nic : Nic, vtep : Vtep, ns : NS]
Wanted == [nic : Nic, vtep : Vtep]
Steps  == {"loopback", "vtep", "find", "unmark", "moveback", "move",
           "linkup", "restore", "mark", "setup", "done"}

Init ==
    /\ nsState = [s \in NS |-> "unused"]
    /\ where = [n \in Nic |-> Host]
    /\ addrs = NicAddr
    /\ up = Nic
    /\ lound = {}
    /\ vteps = [s \in NS |-> {}]
    /\ handles = {}
    /\ want \in Wanted
    /\ pc = "idle"
    /\ par = NoParams
    /\ old = NoNic
    /\ mv = NoNic
    /\ saved = {}
    /\ fails = 0
    /\ changes = 0
    /\ torn = {}
    /\ stray = {}

(***************************************************************************)
(* The environment: the API object, the router pod and the kernel.         *)
(***************************************************************************)
ChangeUnderlay(w) ==
    /\ changes < MaxChanges
    /\ w # want
    /\ want' = w
    /\ changes' = changes + 1
    /\ UNCHANGED <<kernel, handles, call, fails, torn, stray>>

PodStarts(s) ==
    /\ \A t \in NS : nsState[t] # "pod"
    /\ nsState[s] = "unused"
    /\ nsState' = [nsState EXCEPT ![s] = "pod"]
    /\ UNCHANGED <<where, addrs, up, lound, vteps, handles, want, call, fails, changes, torn, stray>>

PodDies(s) ==
    /\ nsState[s] = "pod"
    /\ nsState' = [nsState EXCEPT ![s] = "orphan"]
    /\ UNCHANGED <<where, addrs, up, lound, vteps, handles, want, call, fails, changes, torn, stray>>

\* A namespace lives as long as a handle on it is open: SetupUnderlay has one
\* until it returns (defer ns.Close()), and those that SetupVNI opens stay open
\* until the controller ends.
Held(s) == (pc # "idle" /\ par.ns = s) \/ s \in handles

Inside(s) == {n \in Nic : where[n] = s}

\* With a namespace go its virtual devices; a physical one is back on the host,
\* down and without addresses.
NamespaceDestroyed(s) ==
    /\ nsState[s] = "orphan"
    /\ ~Held(s)
    /\ nsState' = [nsState EXCEPT ![s] = "unused"]
    /\ where' = [n \in Nic |-> IF where[n] # s THEN where[n]
                               ELSE IF n \in Physical THEN Host ELSE Gone]
    /\ addrs' = [n \in Nic |-> IF where[n] = s THEN {} ELSE addrs[n]]
    /\ up' = up \ Inside(s)
    /\ lound' = lound \ {s}
    /\ vteps' = [vteps EXCEPT ![s] = {}]
    /\ torn' = torn \cup Inside(s)
    /\ stray' = stray \ Inside(s)
    /\ UNCHANGED <<handles, want, call, fails, changes>>

-----------------------------------------------------------------------------
(***************************************************************************)
(* The call.                                                               *)
(***************************************************************************)
EndCall ==
    /\ pc' = "idle"
    /\ par' = NoParams
    /\ old' = NoNic
    /\ mv' = NoNic
    /\ saved' = {}

Keep == UNCHANGED <<nsState, handles, want, fails, changes, torn>>

SetupUnderlay ==
    /\ pc = "idle"
    /\ \E s \in NS :
          /\ nsState[s] = "pod"
          /\ par' = [nic |-> want.nic, vtep |-> want.vtep, ns |-> s]
    /\ pc' = "loopback"
    /\ UNCHANGED <<where, addrs, up, lound, vteps, old, mv, saved, stray>> /\ Keep

\* Fault: the VTEP address is assigned only along with a new device.
VtepOnlyWhenCreated ==
    /\ pc = "loopback"
    /\ lound' = lound \cup {par.ns}
    /\ pc' = IF par.ns \in lound THEN "find" ELSE "vtep"
    /\ UNCHANGED <<where, addrs, up, vteps, par, old, mv, saved, stray>> /\ Keep

CreateLoopback ==
    /\ pc = "loopback"
    /\ lound' = lound \cup {par.ns}
    /\ pc' = "vtep"
    /\ UNCHANGED <<where, addrs, up, vteps, par, old, mv, saved, stray>> /\ Keep

AssignVtep ==
    /\ pc = "vtep"
    /\ vteps' = [vteps EXCEPT ![par.ns] = @ \cup {par.vtep}]
    /\ pc' = "find"
    /\ UNCHANGED <<where, addrs, up, lound, par, old, mv, saved, stray>> /\ Keep

Marked(s) == {n \in Inside(s) : Special \in addrs[n]}

\* Fault: a marked interface other than the wanted one stays.
OldNicStays ==
    /\ pc = "find"
    /\ old' = NoNic
    /\ pc' = IF par.nic \in Marked(par.ns) THEN "done" ELSE "move"
    /\ UNCHANGED <<where, addrs, up, lound, vteps, par, mv, saved, stray>> /\ Keep

\* Fault: the marked interface is moved back even if it is the wanted one.
OldNicNotCompared ==
    /\ pc = "find"
    /\ \/ Marked(par.ns) = {} /\ old' = NoNic /\ pc' = "move"
       \/ \E n \in Marked(par.ns) : old' = n /\ pc' = "unmark"
    /\ UNCHANGED <<where, addrs, up, lound, vteps, par, mv, saved, stray>> /\ Keep

\* The first link of the namespace that has the marker, in the kernel's order.
OldUnderlayInterface ==
    /\ pc = "find"
    /\ \/ /\ Marked(par.ns) = {}
          /\ old' = NoNic
          /\ pc' = "move"
       \/ \E n \in Marked(par.ns) :
             /\ old' = n
             /\ pc' = IF n = par.nic THEN "done" ELSE "unmark"
    /\ UNCHANGED <<where, addrs, up, lound, vteps, par, mv, saved, stray>> /\ Keep

\* Fault: the marker is left on the interface that is moved back.
MarkerNotRemoved ==
    /\ pc = "unmark"
    /\ pc' = "moveback"
    /\ UNCHANGED <<where, addrs, up, lound, vteps, par, old, mv, saved, stray>> /\ Keep

RemoveSpecialAddr ==
    /\ pc = "unmark"
    /\ addrs' = [addrs EXCEPT ![old] = @ \ {Special}]
    /\ pc' = "moveback"
    /\ UNCHANGED <<where, up, lound, vteps, par, old, mv, saved, stray>> /\ Keep

\* AddrList, then LinkSetNsFd: the kernel takes the interface down and drops
\* its addresses.
MoveLink(n, to) ==
    /\ saved' = addrs[n]
    /\ where' = [where EXCEPT ![n] = to]
    /\ addrs' = [addrs EXCEPT ![n] = {}]
    /\ up' = up \ {n}
    /\ mv' = n
    /\ pc' = "linkup"

MoveOldNicBack ==
    /\ pc = "moveback"
    /\ MoveLink(old, Host)
    /\ stray' = stray \ {old}
    /\ UNCHANGED <<lound, vteps, par, old>> /\ Keep

\* Fault: an interface that is in the namespace is taken for set up.
PresentTakenForMarked ==
    /\ pc = "move"
    /\ where[par.nic] = par.ns
    /\ pc' = "done"
    /\ UNCHANGED <<where, addrs, up, lound, vteps, par, old, mv, saved, stray>> /\ Keep

NicAlreadyInNamespace ==
    /\ pc = "move"
    /\ where[par.nic] = par.ns
    /\ pc' = "mark"
    /\ UNCHANGED <<where, addrs, up, lound, vteps, par, old, mv, saved, stray>> /\ Keep

MoveNicToNamespace ==
    /\ pc = "move"
    /\ where[par.nic] = Host
    /\ MoveLink(par.nic, par.ns)
    /\ UNCHANGED <<lound, vteps, par, old, stray>> /\ Keep

NicNotFound ==
    /\ pc = "move"
    /\ where[par.nic] \notin {par.ns, Host}
    /\ EndCall
    /\ UNCHANGED <<where, addrs, up, lound, vteps, stray>> /\ Keep

SetMovedLinkUp ==
    /\ pc = "linkup"
    /\ up' = up \cup {mv}
    /\ pc' = "restore"
    /\ UNCHANGED <<where, addrs, lound, vteps, par, old, mv, saved, stray>> /\ Keep

RestoreAddress(a) ==
    /\ pc = "restore"
    /\ a \in saved
    /\ addrs' = [addrs EXCEPT ![mv] = @ \cup {a}]
    /\ saved' = saved \ {a}
    /\ UNCHANGED <<where, up, lound, vteps, pc, par, old, mv, stray>> /\ Keep

\* Fault: not all addresses are restored.
SomeAddressesRestored ==
    /\ pc = "restore"
    /\ pc' = IF mv = par.nic THEN "mark" ELSE "move"
    /\ mv' = NoNic
    /\ saved' = {}
    /\ UNCHANGED <<where, addrs, up, lound, vteps, par, old, stray>> /\ Keep

\* moveNicToNamespace returns to removeUnderlayInterface or moveUnderlayNic.
AddressesRestored ==
    /\ pc = "restore"
    /\ saved = {}
    /\ pc' = IF mv = par.nic THEN "mark" ELSE "move"
    /\ mv' = NoNic
    /\ UNCHANGED <<where, addrs, up, lound, vteps, par, old, saved, stray>> /\ Keep

AssignSpecialAddr ==
    /\ pc = "mark"
    /\ addrs' = [addrs EXCEPT ![par.nic] = @ \cup {Special}]
    /\ stray' = stray \ {par.nic}
    /\ pc' = "setup"
    /\ UNCHANGED <<where, up, lound, vteps, par, old, mv, saved>> /\ Keep

SetUnderlayUp ==
    /\ pc = "setup"
    /\ up' = up \cup {par.nic}
    /\ pc' = "done"
    /\ UNCHANGED <<where, addrs, lound, vteps, par, old, mv, saved, stray>> /\ Keep

\* configureInterfaces goes on with SetupVNI (there is at least one VNI), which
\* opens the namespace by its name, if it still has one, and never closes it.
Return ==
    /\ pc = "done"
    /\ EndCall
    /\ handles' = IF nsState[par.ns] = "pod" THEN handles \cup {par.ns} ELSE handles
    /\ UNCHANGED <<kernel, want, fails, changes, torn, stray>>

\* The call ends where it is, and a later call starts from the state it left.
CutShort ==
    /\ fails < MaxFails
    /\ fails' = fails + 1
    /\ EndCall
    /\ torn' = IF pc \in {"linkup", "restore"} THEN torn \cup {mv} ELSE torn
    /\ stray' = CASE pc = "moveback" -> stray \cup {old}
                  [] pc \in {"linkup", "restore"} /\ mv = par.nic -> stray \cup {mv}
                  [] pc = "mark" -> stray \cup {par.nic}
                  [] OTHER -> stray
    /\ UNCHANGED <<kernel, want, changes>>

\* A request fails and the error is returned.
Fail ==
    /\ pc \notin {"idle", "done"}
    /\ CutShort
    /\ UNCHANGED handles

\* The controller's process ends, and the kernel closes its handles.
ControllerDies ==
    /\ handles' = {}
    /\ \/ pc # "idle" /\ CutShort
       \/ /\ pc = "idle" /\ handles # {}
          /\ UNCHANGED <<kernel, want, call, fails, changes, torn, stray>>

CallStep ==
    \/ CreateLoopback \/ AssignVtep
    \/ OldUnderlayInterface \/ RemoveSpecialAddr \/ MoveOldNicBack
    \/ NicAlreadyInNamespace \/ MoveNicToNamespace \/ NicNotFound
    \/ SetMovedLinkUp \/ (\E a \in saved : RestoreAddress(a)) \/ AddressesRestored
    \/ AssignSpecialAddr \/ SetUnderlayUp \/ Return

Next ==
    \/ \E w \in Wanted : ChangeUnderlay(w)
    \/ \E s \in NS : PodStarts(s)
    \/ \E s \in NS : PodDies(s)
    \/ \E s \in NS : NamespaceDestroyed(s)
    \/ SetupUnderlay
    \/ CallStep
    \/ Fail
    \/ ControllerDies

Spec == Init /\ [][Next]_vars

\* The reconciler calls SetupUnderlay again and again, a call in progress goes
\* on, and the kernel ends up destroying a namespace nobody holds.
Fairness ==
    /\ WF_vars(SetupUnderlay)
    /\ WF_vars(CallStep)
    /\ \A s \in NS : WF_vars(NamespaceDestroyed(s))

FairSpec == Spec /\ Fairness

-----------------------------------------------------------------------------
TypeOK ==
    /\ nsState \in [NS -> {"unused", "pod", "orphan"}]
    /\ where \in [Nic -> NS \cup {Host, Gone}]
    /\ addrs \in [Nic -> SUBSET Addr]
    /\ up \subseteq Nic
    /\ lound \subseteq NS
    /\ vteps \in [NS -> SUBSET Vtep]
    /\ handles \subseteq NS
    /\ want \in Wanted
    /\ pc \in Steps \cup {"idle"}
    /\ IF pc = "idle" THEN par = NoParams ELSE par \in Params
    /\ old \in Nic \cup {NoNic}
    /\ mv \in Nic \cup {NoNic}
    /\ saved \subseteq Addr
    /\ fails \in 0..MaxFails
    /\ changes \in 0..MaxChanges
    /\ torn \subseteq Nic
    /\ stray \subseteq Nic

\* The marker address identifies the underlay interface: no interface on the
\* host carries it, and no namespace holds two that do, however calls for
\* different interfaces, failures and pod restarts alternate.  Otherwise
\* oldUnderlayInterface would take the wrong interface for the underlay.
MarkerIdentifies ==
    \A n \in Nic : Special \in addrs[n] =>
        /\ where[n] \in NS
        /\ \A m \in Nic : Special \in addrs[m] /\ where[m] = where[n] => m = n

\* When SetupUnderlay returns without error the interface it was asked for is
\* in the pod's namespace with the marker, the loopback device exists and has
\* the VTEP address: whatever earlier calls were cut short, also on the path
\* that finds the interface "already set" and returns early.
UnderlayInstalled ==
    pc = "done" =>
        /\ par.nic \in Marked(par.ns)
        /\ par.ns \in lound
        /\ par.vtep \in vteps[par.ns]

\* moveNicToNamespace restores what LinkSetNsFd drops: an interface has all the
\* addresses its administrator gave it, counting those a move in progress
\* still holds, unless a move of it was cut short or its namespace was
\* destroyed around it.  The same holds for its being up.
AddressesFollow ==
    \A n \in Nic \ torn :
        /\ NicAddr[n] \subseteq addrs[n] \cup (IF mv = n THEN saved ELSE {})
        /\ n \in up \/ (pc = "linkup" /\ mv = n)

\* An interface that is no longer wanted is moved back: when SetupUnderlay
\* returns without error, any other interface left in the namespace is one
\* that a call cut short left there without its marker.
OthersMovedBack ==
    pc = "done" => Inside(par.ns) \subseteq {par.nic} \cup stray

\* SetupUnderlay is idempotent: a call that finds its interface and VTEP
\* address in place changes nothing in the kernel.
Served == par.nic \in Marked(par.ns) /\ par.ns \in lound /\ par.vtep \in vteps[par.ns]
RepeatChangesNothing ==
    [][CallStep /\ pc # "setup" /\ Served => UNCHANGED kernel]_vars

\* Once the router pod stays up, and failures and API changes stop, the wanted
\* interface ends up marked in its namespace, for good.  Two things only are in the
\* way: it was a virtual interface and went down with an earlier pod, or it is
\* still in the namespace of a dead pod that a handle of SetupVNI keeps alive.
PodUp == \E s \in NS : nsState[s] = "pod"
WantServed == \E s \in NS : nsState[s] = "pod" /\ want.nic \in Marked(s) /\ want.vtep \in vteps[s]
KeptInDeadPod(n) == \E s \in handles : nsState[s] = "orphan" /\ where[n] = s
EventuallyServed ==
    <>[]PodUp => <>[](WantServed \/ where[want.nic] = Gone \/ KeptInDeadPod(want.nic))

-----------------------------------------------------------------------------
\* What the repository says and the code does not ensure.

\* The test's validateUnderlay: the interface in the namespace has its address.
AddressValidated ==
    pc = "done" => NicAddr[par.nic] \subseteq addrs[par.nic]

=============================================================================
