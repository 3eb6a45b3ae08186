-------------------------------- MODULE VNI --------------------------------
(***************************************************************************)
(* SetupVNI and RemoveNonConfiguredVNIs (internal/hostnetwork/vni.go,      *)
(* veth.go, vrf.go, bridge.go, vxlan.go): for each VNI, a veth pair from   *)
(* the host to the router pod's namespace, and in the namespace a VRF that *)
(* holds the pair's PE leg and a bridge, and a VXLAN device in the bridge. *)
(*                                                                         *)
(* One action is one netlink request that changes the kernel's state, with *)
(* the reads and tests that lead to it.  A link's name determines which    *)
(* VRF or VNI it belongs to, so links are indexed by VRF or by VNI; a name *)
(* may also be held by a link of another kind.                             *)
(***************************************************************************)
EXTENDS Naturals

CONSTANTS
    Vrf, Vni,   \* VRF names, VNI numbers
    Ip,         \* addresses and VTEP addresses
    Port,       \* VXLAN ports
    Configs,    \* the sets of VNIParams (without TargetNS) the API may ask for
    NS,         \* network namespaces of router pods
    Host,       \* the namespace of the controller
    None,       \* no master, no parameters
    MaxTable,   \* bound: routing table identifiers are 1..MaxTable
    MaxFaults,  \* bound: calls cut short, links changed by somebody else
    MaxChanges  \* bound: changes of the API objects

Params == [vrf : Vrf, vni : Vni, hostIP : Ip, nsIP : Ip, vtep : Ip, port : Port]

ASSUME NoneAssumption == None \notin Vrf /\ None \notin Vni /\ None \notin NS /\ None \notin Params
ASSUME HostAssumption == Host \notin NS
ASSUME ConfigsAssumption == Configs \subseteq SUBSET Params
ASSUME BoundAssumption == MaxTable \in Nat /\ MaxFaults \in Nat /\ MaxChanges \in Nat

VARIABLES
    nsState,    \* life of each namespace: unused, of the live pod, orphan
    handles,    \* namespaces the controller process has a leaked handle on
    lound,      \* namespaces with the UnderlayLoopback device
    veth,       \* veth[r]: the host leg of VRF r and its peer
    vrf,        \* vrf[s][r]: the link named r in namespace s
    bridge,     \* bridge[s][v]: the link named "br"v in namespace s
    vxlan,      \* vxlan[s][v]: the link named "vni"v in namespace s
    wanted,     \* the VNIParams derived from the API
    pc,         \* next step of the call in progress, "idle" if there is none
    par,        \* its VNIParams
    target,     \* its namespace
    peVeth,     \* the link of the namespace that has the index of its vethPE
    made,       \* it has created the bridge
    keep,       \* the params of a RemoveNonConfiguredVNIs in progress
    faults, changes

links  == <<veth, vrf, bridge, vxlan>>
call   == <<pc, par, target, peVeth, made, keep>>
counts == <<faults, changes>>
vars   == <<nsState, handles, lound, links, wanted, call, counts>>

NoLink == [kind |-> "none"]
Other  == [kind |-> "other"]

VethLink   == [kind : {"veth"}, pe : NS \cup {Host}, hostIPs : SUBSET Ip, hostUp : BOOLEAN,
               peIPs : SUBSET Ip, peUp : BOOLEAN, master : Vrf \cup {None}]
VrfLink    == [kind : {"vrf"}, table : 1..MaxTable, up : BOOLEAN]
BridgeLink == [kind : {"bridge"}, master : Vrf \cup {None}, genNone : BOOLEAN, up : BOOLEAN]
VxlanLink  == [kind : {"vxlan"}, id : Vni, port : Port, src : Ip, inBridge : BOOLEAN,
               genNone : BOOLEAN, suppress : BOOLEAN, up : BOOLEAN]

VethType   == VethLink \cup {NoLink, Other}
VrfType    == VrfLink \cup {NoLink, Other}
BridgeType == BridgeLink \cup {NoLink, Other}
VxlanType  == VxlanLink \cup {NoLink, Other}

\* The links of a namespace, by kind and name; those of somebody else are one.
Leg(r) == <<"leg", r>>
Outside == <<"outside", None>>
LinkName == ({"leg", "vrf"} \X Vrf) \cup ({"bridge", "vxlan"} \X Vni) \cup {Outside}

SetupSteps  == {"veth", "peer", "hostip", "hostup", "nsip", "peup", "vrf", "vrfup", "master",
                "bridge", "brmaster", "brgen", "brup", "vxlan", "vxmaster", "vxgen", "vxneigh", "vxup", "done"}
RemoveSteps == {"rmveth", "rmvxlan", "rmbridge", "rmvrf", "removed"}

Init ==
    /\ nsState = [s \in NS |-> "unused"]
    /\ handles = {}
    /\ lound = {}
    /\ veth = [r \in Vrf |-> NoLink]
    /\ vrf = [s \in NS |-> [r \in Vrf |-> NoLink]]
    /\ bridge = [s \in NS |-> [v \in Vni |-> NoLink]]
    /\ vxlan = [s \in NS |-> [v \in Vni |-> NoLink]]
    /\ wanted \in Configs
    /\ pc = "idle"
    /\ par = None
    /\ target = None
    /\ peVeth = None
    /\ made = FALSE
    /\ keep = {}
    /\ faults = 0
    /\ changes = 0

(***************************************************************************)
(* The environment: API, router pod, kernel, SetupUnderlay, other users.   *)
(***************************************************************************)
\* Reconcile derives the parameters anew before it calls anything here.
ChangeVNIs(w) ==
    /\ pc = "idle"
    /\ changes < MaxChanges
    /\ w # wanted
    /\ wanted' = w
    /\ changes' = changes + 1
    /\ UNCHANGED <<nsState, handles, lound, links, call, faults>>

PodStarts(s) ==
    /\ \A t \in NS : nsState[t] # "pod"
    /\ nsState[s] = "unused"
    /\ nsState' = [nsState EXCEPT ![s] = "pod"]
    /\ UNCHANGED <<handles, lound, links, wanted, call, counts>>

PodDies(s) ==
    /\ nsState[s] = "pod"
    /\ nsState' = [nsState EXCEPT ![s] = "orphan"]
    /\ UNCHANGED <<handles, lound, links, wanted, call, counts>>

\* configureInterfaces calls SetupUnderlay, and then SetupVNI.
LoopbackCreated(s) ==
    /\ pc = "idle"
    /\ nsState[s] = "pod"
    /\ s \notin lound
    /\ lound' = lound \cup {s}
    /\ UNCHANGED <<nsState, handles, links, wanted, call, counts>>

\* A namespace lives as long as its pod or an open handle on it.  A veth pair
\* dies with either of its legs.
NamespaceDestroyed(s) ==
    /\ nsState[s] = "orphan"
    /\ s \notin handles
    /\ target # s
    /\ nsState' = [nsState EXCEPT ![s] = "unused"]
    /\ lound' = lound \ {s}
    /\ veth' = [r \in Vrf |-> IF veth[r].kind = "veth" /\ veth[r].pe = s THEN NoLink ELSE veth[r]]
    /\ vrf' = [vrf EXCEPT ![s] = [r \in Vrf |-> NoLink]]
    /\ bridge' = [bridge EXCEPT ![s] = [v \in Vni |-> NoLink]]
    /\ vxlan' = [vxlan EXCEPT ![s] = [v \in Vni |-> NoLink]]
    /\ UNCHANGED <<handles, wanted, call, counts>>

\* LinkDel, and what the kernel does to the links under the deleted one.
DelVeth(r) == veth' = [veth EXCEPT ![r] = NoLink] /\ UNCHANGED <<vrf, bridge, vxlan>>
DelVrf(s, r) ==
    /\ vrf' = [vrf EXCEPT ![s][r] = NoLink]
    /\ veth' = [q \in Vrf |-> IF veth[q].kind = "veth" /\ veth[q].pe = s /\ veth[q].master = r
                              THEN [veth[q] EXCEPT !.master = None] ELSE veth[q]]
    /\ bridge' = [bridge EXCEPT ![s] =
                    [v \in Vni |-> IF @[v].kind = "bridge" /\ @[v].master = r
                                   THEN [@[v] EXCEPT !.master = None] ELSE @[v]]]
    /\ UNCHANGED vxlan
DelBridge(s, v) ==
    /\ bridge' = [bridge EXCEPT ![s][v] = NoLink]
    /\ vxlan' = [vxlan EXCEPT ![s][v] = IF @.kind = "vxlan" THEN [@ EXCEPT !.inBridge = FALSE] ELSE @]
    /\ UNCHANGED <<veth, vrf>>
DelVxlan(s, v) == vxlan' = [vxlan EXCEPT ![s][v] = NoLink] /\ UNCHANGED <<veth, vrf, bridge>>

\* Somebody else deletes a link, or takes a free name for a link of their own.
Touch(s) ==
    /\ pc = "idle"
    /\ nsState[s] = "pod"
    /\ faults < MaxFaults
    /\ faults' = faults + 1
    /\ \/ \E r \in Vrf : veth[r].kind = "veth" /\ DelVeth(r)
       \/ \E r \in Vrf : vrf[s][r].kind = "vrf" /\ DelVrf(s, r)
       \/ \E v \in Vni : bridge[s][v].kind = "bridge" /\ DelBridge(s, v)
       \/ \E v \in Vni : vxlan[s][v].kind = "vxlan" /\ DelVxlan(s, v)
       \/ \E r \in Vrf : /\ veth[r] = NoLink
                         /\ veth' = [veth EXCEPT ![r] = Other]
                         /\ UNCHANGED <<vrf, bridge, vxlan>>
       \/ \E r \in Vrf : /\ vrf[s][r] = NoLink
                         /\ vrf' = [vrf EXCEPT ![s][r] = Other]
                         /\ UNCHANGED <<veth, bridge, vxlan>>
       \/ \E v \in Vni : /\ bridge[s][v] = NoLink
                         /\ bridge' = [bridge EXCEPT ![s][v] = Other]
                         /\ UNCHANGED <<veth, vrf, vxlan>>
       \/ \E v \in Vni : /\ vxlan[s][v] = NoLink
                         /\ vxlan' = [vxlan EXCEPT ![s][v] = Other]
                         /\ UNCHANGED <<veth, vrf, bridge>>
    /\ UNCHANGED <<nsState, handles, lound, wanted, call, changes>>

-----------------------------------------------------------------------------
(***************************************************************************)
(* SetupVNI.                                                               *)
(***************************************************************************)
Rest == UNCHANGED <<nsState, handles, lound, wanted, counts>>
Goto(l) == pc' = l /\ UNCHANGED <<par, target, peVeth, made, keep>> /\ Rest

EndCall ==
    pc' = "idle" /\ par' = None /\ target' = None /\ peVeth' = None /\ made' = FALSE /\ keep' = {}

\* GetFromName opens a handle that SetupVNI never closes.
SetupVNI(p) ==
    /\ pc = "idle"
    /\ p \in wanted
    /\ \E s \in NS :
          /\ nsState[s] = "pod"
          /\ target' = s
          /\ handles' = handles \cup {s}
    /\ par' = p
    /\ pc' = "veth"
    /\ UNCHANGED <<nsState, lound, links, wanted, peVeth, made, keep, counts>>

OnlyVeth   == UNCHANGED <<vrf, bridge, vxlan>>
OnlyVrf    == UNCHANGED <<veth, bridge, vxlan>>
OnlyBridge == UNCHANGED <<veth, vrf, vxlan>>
OnlyVxlan  == UNCHANGED <<veth, vrf, bridge>>

NewVeth == [kind |-> "veth", pe |-> Host, hostIPs |-> {}, hostUp |-> FALSE,
            peIPs |-> {}, peUp |-> FALSE, master |-> None]

FindVeth ==
    /\ pc = "veth"
    /\ \/ veth[par.vrf] = NoLink /\ veth' = [veth EXCEPT ![par.vrf] = NewVeth] /\ OnlyVeth /\ Goto("peer")
       \/ veth[par.vrf] = Other /\ DelVeth(par.vrf) /\ Goto("veth")
       \/ veth[par.vrf].kind = "veth" /\ UNCHANGED links /\ Goto("peer")

InNamespace(s) ==
    {Leg(r) : r \in {q \in Vrf : veth[q].kind = "veth" /\ veth[q].pe = s}}
    \cup {<<"vrf", r>> : r \in {q \in Vrf : vrf[s][q] # NoLink}}
    \cup {<<"bridge", v>> : v \in {w \in Vni : bridge[s][w] # NoLink}}
    \cup {<<"vxlan", v>> : v \in {w \in Vni : vxlan[s][w] # NoLink}}
    \cup {Outside}

\* The peer is looked up by its index on the host, then in the namespace, and from
\* there on the index is all that names it.  A move takes it down and drops its
\* addresses and its master; the kernel gives it another index if a link of the
\* namespace has the one it had.  The peer may also be in the namespace of an
\* earlier pod, where no lookup finds it, though one may find another link with its
\* index, or have just gone with that.  (A second call for a peer with a new index
\* may also find, and move, a link of the host; see VethIndex.)
FoundAs(l) == peVeth' = l /\ pc' = "hostip" /\ UNCHANGED <<par, target, made, keep>> /\ Rest
MovePeer ==
    /\ pc = "peer"
    /\ \/ veth[par.vrf].kind # "veth" /\ UNCHANGED links /\ EndCall /\ Rest
       \/ /\ veth[par.vrf].kind = "veth"
          /\ veth[par.vrf].pe = Host
          /\ veth' = [veth EXCEPT ![par.vrf] =
                        [@ EXCEPT !.pe = target, !.peIPs = {}, !.peUp = FALSE, !.master = None]]
          /\ OnlyVeth
          /\ FoundAs(Leg(par.vrf)) \/ \E l \in InNamespace(target) : FoundAs(l)
       \/ /\ veth[par.vrf].kind = "veth"
          /\ veth[par.vrf].pe = target
          /\ UNCHANGED links
          /\ FoundAs(Leg(par.vrf))
       \/ /\ veth[par.vrf].kind = "veth"
          /\ veth[par.vrf].pe \notin {Host, target}
          /\ UNCHANGED links
          /\ (EndCall /\ Rest) \/ \E l \in InNamespace(target) : FoundAs(l)

\* The pair ends with the namespace of an earlier pod that has the peer.
AssignHostIP ==
    /\ pc = "hostip"
    /\ \/ /\ veth[par.vrf].kind = "veth"
          /\ veth' = [veth EXCEPT ![par.vrf].hostIPs = @ \cup {par.hostIP}]
          /\ OnlyVeth /\ Goto("hostup")
       \/ veth[par.vrf].kind # "veth" /\ UNCHANGED links /\ EndCall /\ Rest

HostLegUp ==
    /\ pc = "hostup"
    /\ \/ /\ veth[par.vrf].kind = "veth"
          /\ veth' = [veth EXCEPT ![par.vrf].hostUp = TRUE]
          /\ OnlyVeth /\ Goto("nsip")
       \/ veth[par.vrf].kind # "veth" /\ UNCHANGED links /\ EndCall /\ Rest

\* Of addresses only those of PE legs matter.
AssignNSIP ==
    /\ pc = "nsip"
    /\ veth' = [r \in Vrf |-> IF peVeth = Leg(r) THEN [veth[r] EXCEPT !.peIPs = @ \cup {par.nsIP}]
                                                  ELSE veth[r]]
    /\ OnlyVeth /\ Goto("peup")

PELegUp ==
    /\ pc = "peup"
    /\ veth' = [r \in Vrf |-> IF peVeth = Leg(r) THEN [veth[r] EXCEPT !.peUp = TRUE] ELSE veth[r]]
    /\ vrf' = [vrf EXCEPT ![target] =
                 [r \in Vrf |-> IF peVeth = <<"vrf", r>> /\ @[r].kind = "vrf"
                                THEN [@[r] EXCEPT !.up = TRUE] ELSE @[r]]]
    /\ bridge' = [bridge EXCEPT ![target] =
                    [v \in Vni |-> IF peVeth = <<"bridge", v>> /\ @[v].kind = "bridge"
                                   THEN [@[v] EXCEPT !.up = TRUE] ELSE @[v]]]
    /\ vxlan' = [vxlan EXCEPT ![target] =
                   [v \in Vni |-> IF peVeth = <<"vxlan", v>> /\ @[v].kind = "vxlan"
                                  THEN [@[v] EXCEPT !.up = TRUE] ELSE @[v]]]
    /\ Goto("vrf")

\* Fault: tables of VRFs that are down count as free.
TablesOfUpVrfs(s) == {vrf[s][r].table : r \in {q \in Vrf : vrf[s][q].kind = "vrf" /\ vrf[s][q].up}}

\* findFreeRoutingTableID: the lowest identifier no VRF of the namespace has.
TakenTables(s) == {vrf[s][r].table : r \in {q \in Vrf : vrf[s][q].kind = "vrf"}}

\* Fault: the last identifier is never used.
FreeTablesBelowLast(s) == {t \in 1..MaxTable : t < MaxTable /\ t \notin TakenTables(s)}

FreeTables(s) == {t \in 1..MaxTable : t \notin TakenTables(s)}

CreateVRF(t) ==
    /\ t \in FreeTables(target)
    /\ \A u \in FreeTables(target) : t <= u
    /\ vrf' = [vrf EXCEPT ![target][par.vrf] = [kind |-> "vrf", table |-> t, up |-> FALSE]]
    /\ OnlyVrf

SetupVRF ==
    /\ pc = "vrf"
    /\ \/ /\ vrf[target][par.vrf] = NoLink
          /\ \/ (\E t \in 1..MaxTable : CreateVRF(t)) /\ Goto("vrfup")
             \/ FreeTables(target) = {} /\ UNCHANGED links /\ EndCall /\ Rest
       \/ /\ vrf[target][par.vrf] = Other
          /\ vrf' = [vrf EXCEPT ![target][par.vrf] = NoLink]
          /\ OnlyVrf /\ Goto("vrf")
       \/ vrf[target][par.vrf].kind = "vrf" /\ UNCHANGED links /\ Goto("vrfup")

VRFUp ==
    /\ pc = "vrfup"
    /\ vrf' = [vrf EXCEPT ![target][par.vrf].up = TRUE]
    /\ OnlyVrf /\ Goto("master")

\* The kernel does not put a VRF into a VRF; a link that has a master leaves it.
EnslavePELeg ==
    /\ pc = "master"
    /\ \/ /\ \E r \in Vrf : peVeth = <<"vrf", r>> /\ vrf[target][r].kind = "vrf"
          /\ UNCHANGED links /\ EndCall /\ Rest
       \/ /\ \A r \in Vrf : peVeth = <<"vrf", r>> => vrf[target][r].kind # "vrf"
          /\ veth' = [r \in Vrf |-> IF peVeth = Leg(r) THEN [veth[r] EXCEPT !.master = par.vrf] ELSE veth[r]]
          /\ bridge' = [bridge EXCEPT ![target] =
                          [v \in Vni |-> IF peVeth = <<"bridge", v>> /\ @[v].kind = "bridge"
                                         THEN [@[v] EXCEPT !.master = par.vrf] ELSE @[v]]]
          /\ vxlan' = [vxlan EXCEPT ![target] =
                         [v \in Vni |-> IF peVeth = <<"vxlan", v>> /\ @[v].kind = "vxlan"
                                        THEN [@[v] EXCEPT !.inBridge = FALSE] ELSE @[v]]]
          /\ UNCHANGED vrf
          /\ Goto("bridge")

\* LinkAdd sets the master with a request of its own, once the link is there.
CreateBridge ==
    /\ bridge' = [bridge EXCEPT ![target][par.vni] =
                    [kind |-> "bridge", master |-> None, genNone |-> FALSE, up |-> FALSE]]
    /\ made' = TRUE
    /\ pc' = "brmaster"
    /\ UNCHANGED <<par, target, peVeth, keep>> /\ OnlyBridge /\ Rest

\* Fault: a bridge that exists is taken for set up.
ExistingBridgeIsReady ==
    /\ pc = "bridge"
    /\ \/ bridge[target][par.vni] = NoLink /\ CreateBridge
       \/ bridge[target][par.vni] # NoLink /\ UNCHANGED links /\ Goto("vxlan")

\* The master of an existing bridge is not looked at.
SetupBridge ==
    /\ pc = "bridge"
    /\ \/ bridge[target][par.vni] = NoLink /\ CreateBridge
       \/ /\ bridge[target][par.vni] = Other
          /\ bridge' = [bridge EXCEPT ![target][par.vni] = NoLink]
          /\ OnlyBridge /\ Goto("bridge")
       \/ bridge[target][par.vni].kind = "bridge" /\ UNCHANGED links /\ Goto("brgen")

EnslaveBridge ==
    /\ pc = "brmaster"
    /\ bridge' = [bridge EXCEPT ![target][par.vni].master = par.vrf]
    /\ OnlyBridge /\ Goto("brgen")

BridgeGenNone ==
    /\ pc = "brgen"
    /\ bridge' = [bridge EXCEPT ![target][par.vni].genNone = TRUE]
    /\ OnlyBridge /\ Goto("brup")

BridgeUp ==
    /\ pc = "brup"
    /\ bridge' = [bridge EXCEPT ![target][par.vni].up = TRUE]
    /\ OnlyBridge /\ Goto("vxlan")

NewVXLan(p) == [kind |-> "vxlan", id |-> p.vni, port |-> p.port, src |-> p.vtep, inBridge |-> FALSE,
                genNone |-> FALSE, suppress |-> FALSE, up |-> FALSE]

CheckVXLanConfigured(x, p) ==
    x.inBridge /\ x.id = p.vni /\ x.port = p.port /\ x.src = p.vtep

\* Fault: an existing VXLAN is always built again.
VXLanRebuilt ==
    /\ pc = "vxlan"
    /\ \/ target \notin lound /\ UNCHANGED links /\ EndCall /\ Rest
       \/ /\ target \in lound
          /\ vxlan' = [vxlan EXCEPT ![target][par.vni] = NewVXLan(par)]
          /\ OnlyVxlan /\ Goto("vxmaster")

SetupVXLan ==
    /\ pc = "vxlan"
    /\ LET x == vxlan[target][par.vni] IN
       \/ target \notin lound /\ UNCHANGED links /\ EndCall /\ Rest
       \/ /\ target \in lound
          /\ x = NoLink
          /\ vxlan' = [vxlan EXCEPT ![target][par.vni] = NewVXLan(par)]
          /\ OnlyVxlan /\ Goto("vxmaster")
       \/ /\ target \in lound
          /\ x = Other \/ (x.kind = "vxlan" /\ ~CheckVXLanConfigured(x, par))
          /\ DelVxlan(target, par.vni) /\ Goto("vxlan")
       \/ /\ target \in lound
          /\ x.kind = "vxlan" /\ CheckVXLanConfigured(x, par)
          /\ UNCHANGED links /\ Goto("vxgen")

EnslaveVXLan ==
    /\ pc = "vxmaster"
    /\ vxlan' = [vxlan EXCEPT ![target][par.vni].inBridge = TRUE]
    /\ OnlyVxlan /\ Goto("vxgen")

VXLanGenNone ==
    /\ pc = "vxgen"
    /\ vxlan' = [vxlan EXCEPT ![target][par.vni].genNone = TRUE]
    /\ OnlyVxlan /\ Goto("vxneigh")

SetNeighSuppression ==
    /\ pc = "vxneigh"
    /\ vxlan' = [vxlan EXCEPT ![target][par.vni].suppress = TRUE]
    /\ OnlyVxlan /\ Goto("vxup")

VXLanUp ==
    /\ pc = "vxup"
    /\ vxlan' = [vxlan EXCEPT ![target][par.vni].up = TRUE]
    /\ OnlyVxlan /\ Goto("done")

-----------------------------------------------------------------------------
(***************************************************************************)
(* RemoveNonConfiguredVNIs, with the VNIs the API asks for: host legs,     *)
(* then VXLANs, bridges and VRFs, one LinkDel at a time.  (Only tests call *)
(* it so far.)                                                             *)
(***************************************************************************)
RemoveNonConfiguredVNIs ==
    /\ pc = "idle"
    /\ \E s \in NS : nsState[s] = "pod" /\ target' = s
    /\ keep' = wanted
    /\ pc' = "rmveth"
    /\ UNCHANGED <<links, par, peVeth, made>> /\ Rest

KeptVrfs == {p.vrf : p \in keep}
KeptVnis == {p.vni : p \in keep}

StaleLegs    == {r \in Vrf \ KeptVrfs : veth[r].kind = "veth"}
StaleVxlans  == {v \in Vni \ KeptVnis : vxlan[target][v].kind = "vxlan"}

\* Fault: configured bridges are not spared.
AllBridges == {v \in Vni : bridge[target][v].kind = "bridge"}

StaleBridges == {v \in Vni \ KeptVnis : bridge[target][v].kind = "bridge"}
StaleVrfs    == {r \in Vrf \ KeptVrfs : vrf[target][r].kind = "vrf"}

RemoveHostLegs ==
    /\ pc = "rmveth"
    /\ \/ (\E r \in StaleLegs : DelVeth(r)) /\ Goto("rmveth")
       \/ StaleLegs = {} /\ UNCHANGED links /\ Goto("rmvxlan")

ClearVXLans ==
    /\ pc = "rmvxlan"
    /\ \/ (\E v \in StaleVxlans : DelVxlan(target, v)) /\ Goto("rmvxlan")
       \/ StaleVxlans = {} /\ UNCHANGED links /\ Goto("rmbridge")

\* Fault: an error stops the removal of bridges, and is lost.
BridgesNotCleared ==
    /\ pc = "rmbridge"
    /\ \/ (\E v \in StaleBridges : DelBridge(target, v)) /\ Goto("rmbridge")
       \/ UNCHANGED links /\ Goto("rmvrf")

ClearBridges ==
    /\ pc = "rmbridge"
    /\ \/ (\E v \in StaleBridges : DelBridge(target, v)) /\ Goto("rmbridge")
       \/ StaleBridges = {} /\ UNCHANGED links /\ Goto("rmvrf")

RemoveVRFs ==
    /\ pc = "rmvrf"
    /\ \/ (\E r \in StaleVrfs : DelVrf(target, r)) /\ Goto("rmvrf")
       \/ StaleVrfs = {} /\ UNCHANGED links /\ Goto("removed")

-----------------------------------------------------------------------------
Return ==
    /\ pc \in {"done", "removed"}
    /\ EndCall
    /\ UNCHANGED links /\ Rest

\* A request fails and the error is returned.
Fail ==
    /\ pc \notin {"idle", "done", "removed"}
    /\ faults < MaxFaults
    /\ faults' = faults + 1
    /\ EndCall
    /\ UNCHANGED <<nsState, handles, lound, links, wanted, changes>>

\* The controller process dies; the kernel closes its handles.
Crash ==
    /\ faults < MaxFaults
    /\ faults' = faults + 1
    /\ EndCall
    /\ handles' = {}
    /\ UNCHANGED <<nsState, lound, links, wanted, changes>>

SetupStep ==
    \/ FindVeth \/ MovePeer \/ AssignHostIP \/ HostLegUp \/ AssignNSIP \/ PELegUp
    \/ SetupVRF \/ VRFUp \/ EnslavePELeg
    \/ SetupBridge \/ EnslaveBridge \/ BridgeGenNone \/ BridgeUp
    \/ SetupVXLan \/ EnslaveVXLan \/ VXLanGenNone \/ SetNeighSuppression \/ VXLanUp

RemoveStep == RemoveHostLegs \/ ClearVXLans \/ ClearBridges \/ RemoveVRFs

Environment ==
    \/ \E w \in Configs : ChangeVNIs(w)
    \/ \E s \in NS : PodStarts(s) \/ PodDies(s) \/ LoopbackCreated(s) \/ NamespaceDestroyed(s) \/ Touch(s)

Next ==
    \/ Environment
    \/ \E p \in wanted : SetupVNI(p)
    \/ SetupStep
    \/ RemoveNonConfiguredVNIs
    \/ RemoveStep
    \/ Return \/ Fail \/ Crash

Spec == Init /\ [][Next]_vars

PodUp == \E s \in NS : nsState[s] = "pod"

\* Every reconciliation goes through all wanted VNIs: a VNI that stays wanted while
\* the pod is up is set up again and again.  A call in progress goes on,
\* SetupUnderlay is called before it, the kernel destroys what nobody holds.
FairSpec ==
    /\ Spec
    /\ \A p \in UNION Configs :
          []<>~(p \in wanted /\ PodUp) \/ []<><<SetupVNI(p)>>_vars
    /\ WF_vars(SetupStep \/ RemoveStep \/ Return)
    /\ \A s \in NS : SF_vars(LoopbackCreated(s)) /\ WF_vars(NamespaceDestroyed(s))

-----------------------------------------------------------------------------
TypeOK ==
    /\ nsState \in [NS -> {"unused", "pod", "orphan"}]
    /\ handles \subseteq NS
    /\ lound \subseteq NS
    /\ veth \in [Vrf -> VethType]
    /\ vrf \in [NS -> [Vrf -> VrfType]]
    /\ bridge \in [NS -> [Vni -> BridgeType]]
    /\ vxlan \in [NS -> [Vni -> VxlanType]]
    /\ wanted \in Configs
    /\ pc \in SetupSteps \cup RemoveSteps \cup {"idle"}
    /\ IF pc \in SetupSteps THEN par \in Params ELSE par = None
    /\ IF pc = "idle" THEN target = None ELSE target \in NS
    /\ peVeth \in LinkName \cup {None} /\ made \in BOOLEAN
    /\ keep \subseteq Params
    /\ faults \in 0..MaxFaults /\ changes \in 0..MaxChanges

HostLegReady(p) ==
    veth[p.vrf].kind = "veth" /\ veth[p.vrf].hostUp /\ p.hostIP \in veth[p.vrf].hostIPs
PELegReady(p, s) ==
    /\ veth[p.vrf].kind = "veth" /\ veth[p.vrf].pe = s /\ veth[p.vrf].peUp
    /\ p.nsIP \in veth[p.vrf].peIPs /\ veth[p.vrf].master = p.vrf
VrfReady(p, s) == vrf[s][p.vrf].kind = "vrf" /\ vrf[s][p.vrf].up
BridgeReady(p, s) == LET b == bridge[s][p.vni] IN b.kind = "bridge" /\ b.genNone /\ b.up
VxlanReady(p, s) ==
    LET x == vxlan[s][p.vni] IN
    x.kind = "vxlan" /\ x.genNone /\ x.suppress /\ x.up /\ CheckVXLanConfigured(x, p)
BridgeInVrf(p, s) == bridge[s][p.vni].kind = "bridge" /\ bridge[s][p.vni].master = p.vrf

Ready(p, s) ==
    HostLegReady(p) /\ PELegReady(p, s) /\ VrfReady(p, s) /\ BridgeReady(p, s) /\ VxlanReady(p, s)
Configured(p, s) == Ready(p, s) /\ BridgeInVrf(p, s)

\* When SetupVNI returns without error, the host leg, the VRF, the bridge and the
\* VXLAN are as its parameters say, whatever state earlier calls cut short, other
\* parameters, foreign links of the same names or a pod restart left, and whichever
\* link it configured for the PE leg.  The PE leg is as they say if its index still
\* designates it, and the bridge is in the VRF if the call created it: a bridge
\* found keeps the master it has.  (The host leg may have ended with a peer that is
\* in the namespace of an earlier pod.)
VNIReady ==
    pc = "done" =>
        /\ VrfReady(par, target) /\ BridgeReady(par, target) /\ VxlanReady(par, target)
        /\ veth[par.vrf].kind = "veth" => HostLegReady(par)
        /\ peVeth = Leg(par.vrf) => PELegReady(par, target)
        /\ made => BridgeInVrf(par, target)

\* No two VRFs of a namespace share a routing table, across creation, removal
\* and re-creation: VPNs stay separated.
TablesDistinct ==
    \A s \in NS : \A q, r \in Vrf :
        vrf[s][q].kind = "vrf" /\ vrf[s][r].kind = "vrf" /\ vrf[s][q].table = vrf[s][r].table => q = r

\* SetupVNI is idempotent: on a VNI that is configured it changes nothing, in
\* particular it never takes a working VXLAN down to build it again.
RepeatChangesNothing ==
    [][SetupStep /\ Configured(par, target) => UNCHANGED links]_vars

\* After RemoveNonConfiguredVNIs nothing of a VNI that is not configured is left.
RemovedAll ==
    pc = "removed" => StaleLegs = {} /\ StaleVxlans = {} /\ StaleBridges = {} /\ StaleVrfs = {}

\* RemoveNonConfiguredVNIs, also when cut short, leaves configured VNIs working:
\* no deletion, nor what the kernel does along with it, touches their links.
RemovalSparesConfigured ==
    [][\A p \in keep : RemoveStep /\ Configured(p, target) => Configured(p, target)']_vars

\* Once the router pod stays up, and failures, other users and API changes stop,
\* every wanted VNI ends up ready in the pod's namespace, for good.
EventuallyReady ==
    <>[]PodUp => <>[](\E s \in NS : nsState[s] = "pod" /\ \A p \in wanted : Ready(p, s))

=============================================================================
