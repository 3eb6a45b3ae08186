----------------------------- MODULE VNIProofs -----------------------------
(***************************************************************************)
(* Proofs about SetupVNI and RemoveNonConfiguredVNIs, for any sets of      *)
(* VRFs, VNIs, addresses and namespaces and any number of failures, pod    *)
(* restarts, API changes and links changed by others.                      *)
(***************************************************************************)
EXTENDS VNI, TLAPS

(***************************************************************************)
(* What SetupVNI has established at each of its steps.                     *)
(***************************************************************************)
PastBridge == {"vxlan", "vxmaster", "vxgen", "vxneigh", "vxup", "done"}
PastMaster == {"bridge", "brmaster", "brgen", "brup"} \cup PastBridge
PastVeth   == {"vrf", "vrfup", "master"} \cup PastMaster
PastPeer   == {"hostip", "hostup", "nsip", "peup"} \cup PastVeth

HostProgress ==
    LET l == veth[par.vrf] IN
    /\ pc \in {"hostup", "nsip", "peup"} \cup PastVeth /\ l.kind = "veth" => par.hostIP \in l.hostIPs
    /\ pc \in {"nsip", "peup"} \cup PastVeth /\ l.kind = "veth" => l.hostUp

\* The link that is configured for the PE leg stays in the namespace.
PeerThere ==
    pc \in PastPeer => \A r \in Vrf : peVeth = Leg(r) => veth[r].kind = "veth" /\ veth[r].pe = target

\* If it is another one, the PE leg is elsewhere, or was moved and has no address.
PeerMissed ==
    pc \in PastPeer /\ peVeth # Leg(par.vrf) =>
        veth[par.vrf].kind # "veth" \/ veth[par.vrf].pe # target \/ veth[par.vrf].peIPs = {}

PeerDone ==
    peVeth = Leg(par.vrf) =>
        /\ pc \in {"peup"} \cup PastVeth => par.nsIP \in veth[par.vrf].peIPs
        /\ pc \in PastVeth => veth[par.vrf].peUp
        /\ pc \in PastMaster => veth[par.vrf].master = par.vrf

PeerProgress == PeerThere /\ PeerMissed /\ PeerDone

VrfProgress ==
    LET l == vrf[target][par.vrf] IN
    /\ pc \in {"vrfup", "master"} \cup PastMaster => l.kind = "vrf"
    /\ pc \in {"master"} \cup PastMaster => l.up

BridgeProgress ==
    LET l == bridge[target][par.vni] IN
    /\ pc \in {"brmaster", "brgen", "brup"} \cup PastBridge => l.kind = "bridge"
    /\ pc \in {"brup"} \cup PastBridge => l.genNone
    /\ pc \in PastBridge => l.up
    /\ made => pc \in {"brmaster", "brgen", "brup"} \cup PastBridge
    /\ made /\ pc # "brmaster" => l.master = par.vrf

VxlanProgress ==
    LET l == vxlan[target][par.vni] IN
    /\ pc \in {"vxmaster", "vxgen", "vxneigh", "vxup", "done"} =>
          l.kind = "vxlan" /\ l.id = par.vni /\ l.port = par.port /\ l.src = par.vtep
    /\ pc \in {"vxgen", "vxneigh", "vxup", "done"} => l.inBridge
    /\ pc \in {"vxneigh", "vxup", "done"} => l.genNone
    /\ pc \in {"vxup", "done"} => l.suppress
    /\ pc = "done" => l.up

Progress == HostProgress /\ PeerProgress /\ VrfProgress /\ BridgeProgress /\ VxlanProgress

\* What RemoveNonConfiguredVNIs has removed at each of its steps.
RemovalProgress ==
    /\ pc \in {"rmvxlan", "rmbridge", "rmvrf", "removed"} => StaleLegs = {}
    /\ pc \in {"rmbridge", "rmvrf", "removed"} => StaleVxlans = {}
    /\ pc \in {"rmvrf", "removed"} => StaleBridges = {}
    /\ pc = "removed" => StaleVrfs = {}

IInv == TypeOK /\ TablesDistinct /\ Progress /\ RemovalProgress

\* The functions that hold the links have the right domains.
Shape ==
    /\ veth \in [Vrf -> VethType]
    /\ vrf \in [NS -> [Vrf -> VrfType]]
    /\ bridge \in [NS -> [Vni -> BridgeType]]
    /\ vxlan \in [NS -> [Vni -> VxlanType]]

Call ==
    /\ pc \in SetupSteps \cup RemoveSteps \cup {"idle"}
    /\ IF pc \in SetupSteps THEN par \in Params ELSE par = None
    /\ IF pc = "idle" THEN target = None ELSE target \in NS

\* The initial states satisfy the inductive invariant.
LEMMA InitIInv == Init => IInv
<1> SUFFICES ASSUME Init PROVE IInv
  OBVIOUS
<1>1. TypeOK
  <2>1. /\ veth \in [Vrf -> VethType] /\ vrf \in [NS -> [Vrf -> VrfType]]
        /\ bridge \in [NS -> [Vni -> BridgeType]] /\ vxlan \in [NS -> [Vni -> VxlanType]]
    BY DEF Init, VethType, VrfType, BridgeType, VxlanType
  <2>2. /\ pc \in SetupSteps \cup RemoveSteps \cup {"idle"} /\ pc \notin SetupSteps
        /\ faults \in 0..MaxFaults /\ changes \in 0..MaxChanges
    BY BoundAssumption DEF Init, SetupSteps, RemoveSteps
  <2>3. nsState \in [NS -> {"unused", "pod", "orphan"}] /\ wanted \in Configs
    BY ConfigsAssumption DEF Init
  <2>4. QED
    BY <2>1, <2>2, <2>3, Zenon DEF Init, TypeOK
<1>2. TablesDistinct
  BY DEF Init, TablesDistinct, NoLink
<1>3. Progress
  BY DEF Init, Progress, HostProgress, PeerProgress, PeerThere, PeerMissed, PeerDone, VrfProgress,
         BridgeProgress, VxlanProgress, PastPeer, PastVeth, PastMaster, PastBridge
<1>4. RemovalProgress
  BY DEF Init, RemovalProgress
<1>5. QED
  BY <1>1, <1>2, <1>3, <1>4 DEF IInv

(***************************************************************************)
(* Types.  The updates the steps make to a link keep it a link.            *)
(***************************************************************************)
\* Updates of a veth pair.
LEMMA VethUpdates ==
    ASSUME NEW x \in VethLink
    PROVE  /\ \A s \in NS : [x EXCEPT !.pe = s, !.peIPs = {}, !.peUp = FALSE, !.master = None] \in VethLink
           /\ \A i \in Ip : [x EXCEPT !.hostIPs = @ \cup {i}] \in VethLink
           /\ \A i \in Ip : [x EXCEPT !.peIPs = @ \cup {i}] \in VethLink
           /\ [x EXCEPT !.hostUp = TRUE] \in VethLink
           /\ [x EXCEPT !.peUp = TRUE] \in VethLink
           /\ \A r \in Vrf \cup {None} : [x EXCEPT !.master = r] \in VethLink
  BY DEF VethLink

\* Updates of a VRF.
LEMMA VrfUpdates ==
    ASSUME NEW x \in VrfLink
    PROVE  [x EXCEPT !.up = TRUE] \in VrfLink
  BY DEF VrfLink

\* Updates of a bridge.
LEMMA BridgeUpdates ==
    ASSUME NEW x \in BridgeLink
    PROVE  /\ [x EXCEPT !.genNone = TRUE] \in BridgeLink
           /\ [x EXCEPT !.up = TRUE] \in BridgeLink
           /\ \A r \in Vrf \cup {None} : [x EXCEPT !.master = r] \in BridgeLink
  BY DEF BridgeLink

\* Updates of a VXLAN.
LEMMA VxlanUpdates ==
    ASSUME NEW x \in VxlanLink
    PROVE  /\ [x EXCEPT !.genNone = TRUE] \in VxlanLink
           /\ [x EXCEPT !.suppress = TRUE] \in VxlanLink
           /\ [x EXCEPT !.up = TRUE] \in VxlanLink
           /\ \A i \in BOOLEAN : [x EXCEPT !.inBridge = i] \in VxlanLink
  BY DEF VxlanLink

\* A link of a known kind is a link of that kind.
LEMMA Kinds ==
    /\ \A x \in VethType : x.kind = "veth" => x \in VethLink
    /\ \A x \in VrfType : x.kind = "vrf" => x \in VrfLink
    /\ \A x \in BridgeType : x.kind = "bridge" => x \in BridgeLink
    /\ \A x \in VxlanType : x.kind = "vxlan" => x \in VxlanLink
  BY DEF VethType, VrfType, BridgeType, VxlanType, NoLink, Other

\* The links the steps create.
LEMMA NewLinks ==
    /\ {NoLink, Other} \cup VethLink \subseteq VethType
    /\ {NoLink, Other} \cup VrfLink \subseteq VrfType
    /\ {NoLink, Other} \cup BridgeLink \subseteq BridgeType
    /\ {NoLink, Other} \cup VxlanLink \subseteq VxlanType
    /\ NewVeth \in VethLink
    /\ \A t \in 1..MaxTable : [kind |-> "vrf", table |-> t, up |-> FALSE] \in VrfLink
    /\ [kind |-> "bridge", master |-> None, genNone |-> FALSE, up |-> FALSE] \in BridgeLink
    /\ \A p \in Params : NewVXLan(p) \in VxlanLink
  BY DEF VethType, VrfType, BridgeType, VxlanType, VethLink, VrfLink, BridgeLink, VxlanLink,
         NewVeth, NewVXLan, Params

\* Nothing is established yet at the first steps, and nothing between calls.
LEMMA NoProgressYet ==
    ASSUME pc' \notin PastPeer, ~made' PROVE Progress'
  BY DEF Progress, HostProgress, PeerProgress, PeerThere, PeerMissed, PeerDone, VrfProgress,
         BridgeProgress, VxlanProgress, PastPeer, PastVeth, PastMaster, PastBridge

\* The pair is as it was.
LEMMA VethKept ==
    ASSUME HostProgress, PeerProgress, UNCHANGED <<veth, par, target, peVeth>>,
           pc \in PastVeth, pc' \in PastVeth, pc' \in PastMaster => pc \in PastMaster
    PROVE  HostProgress' /\ PeerProgress'
<1>1. HostProgress'
  BY Zenon DEF HostProgress
<1>2. pc \in PastPeer /\ pc \in {"peup"} \cup PastVeth
  BY Zenon DEF PastPeer
<1>3. QED
  BY <1>1, <1>2, Zenon DEF PeerProgress, PeerThere, PeerMissed, PeerDone, Leg

\* The VRF is as it was.
LEMMA VrfKept ==
    ASSUME VrfProgress, UNCHANGED <<vrf, par, target>>, pc \in {"master"} \cup PastMaster
    PROVE  VrfProgress'
<1>1. pc \in {"vrfup", "master"} \cup PastMaster
  OBVIOUS
<1>2. QED
  BY <1>1, Zenon DEF VrfProgress

\* The bridge is as it was, or has its turn later.
LEMMA BridgeKept ==
    ASSUME BridgeProgress, UNCHANGED <<made, par, target>>,
           \/ pc \in PastBridge /\ pc' \in PastBridge /\ UNCHANGED bridge
           \/ pc \notin {"brmaster", "brgen", "brup"} \cup PastBridge /\ pc' \notin {"brmaster", "brgen", "brup"} \cup PastBridge
    PROVE  BridgeProgress'
<1>1. CASE pc \in PastBridge /\ pc' \in PastBridge /\ UNCHANGED bridge
  <2>1. pc # "brmaster"
    BY <1>1 DEF PastBridge
  <2>2. QED
    BY <1>1, <2>1, Zenon DEF BridgeProgress
<1>2. CASE pc \notin {"brmaster", "brgen", "brup"} \cup PastBridge /\ pc' \notin {"brmaster", "brgen", "brup"} \cup PastBridge
  BY <1>2, Zenon DEF BridgeProgress
<1>3. QED
  BY <1>1, <1>2

\* The VXLAN has its turn later.
LEMMA VxlanLater ==
    ASSUME pc' \notin {"vxmaster", "vxgen", "vxneigh", "vxup", "done"} PROVE VxlanProgress'
  BY Zenon DEF VxlanProgress

\* The updates of a leg change nothing else of the pair.
LEMMA LegFields ==
    ASSUME NEW x \in VethLink, NEW i, NEW r
    PROVE  /\ LET y == [x EXCEPT !.peIPs = @ \cup {i}] IN
                /\ y.kind = x.kind /\ y.pe = x.pe /\ y.hostIPs = x.hostIPs /\ y.hostUp = x.hostUp
                /\ y.peUp = x.peUp /\ y.master = x.master /\ i \in y.peIPs
           /\ LET y == [x EXCEPT !.peUp = TRUE] IN
                /\ y.kind = x.kind /\ y.pe = x.pe /\ y.hostIPs = x.hostIPs /\ y.hostUp = x.hostUp
                /\ y.peIPs = x.peIPs /\ y.master = x.master /\ y.peUp
           /\ LET y == [x EXCEPT !.master = r] IN
                /\ y.kind = x.kind /\ y.pe = x.pe /\ y.hostIPs = x.hostIPs /\ y.hostUp = x.hostUp
                /\ y.peIPs = x.peIPs /\ y.peUp = x.peUp /\ y.master = r
  BY DEF VethLink

\* What a step does to the link peVeth designates, if that is a leg, keeps what is
\* established about the pairs, and adds to it.
LEMMA LegStep ==
    ASSUME HostProgress, PeerProgress, par.vrf \in Vrf, UNCHANGED <<par, target, peVeth>>,
           pc \in {"nsip", "peup", "master"}, pc' \in PastPeer, pc # "nsip" => pc' \in PastVeth,
           pc' \in PastVeth => pc # "nsip", pc' \in PastMaster => pc = "master",
           \A r \in Vrf :
              /\ veth'[r].kind = veth[r].kind /\ veth'[r].pe = veth[r].pe
              /\ veth'[r].hostIPs = veth[r].hostIPs /\ veth'[r].hostUp = veth[r].hostUp
              /\ peVeth # Leg(r) => veth'[r].peIPs = veth[r].peIPs,
           LET l == veth[par.vrf] IN
           peVeth = Leg(par.vrf) =>
              /\ par.nsIP \in l'.peIPs
              /\ pc # "nsip" => l'.peUp
              /\ pc = "master" => l'.master = par.vrf
    PROVE  HostProgress' /\ PeerProgress'
<1>1. pc \in {"nsip", "peup"} \cup PastVeth /\ pc \in PastPeer /\ pc \in {"hostup", "nsip", "peup"} \cup PastVeth
  BY DEF PastPeer, PastVeth
<1>2. HostProgress'
  BY <1>1, Zenon DEF HostProgress
<1>3. PeerThere'
  BY <1>1, Zenon DEF PeerProgress, PeerThere, Leg
<1>4. PeerMissed'
  BY <1>1, Zenon DEF PeerProgress, PeerMissed, Leg
<1>5. PeerDone'
  BY <1>1, Zenon DEF PeerDone, Leg
<1>6. QED
  BY <1>2, <1>3, <1>4, <1>5 DEF PeerProgress

\* Every step keeps what the call has established.
LEMMA ProgressStep == Shape /\ Call /\ Progress /\ [Next]_vars => Progress'
<1> SUFFICES ASSUME Shape, Call, Progress, [Next]_vars PROVE Progress'
  OBVIOUS
<1>1. ASSUME pc' \notin PastPeer, made' = made \/ ~made', pc \notin PastPeer \/ ~made' PROVE Progress'
  <2>1. ~made'
    BY <1>1 DEF Progress, BridgeProgress, PastPeer, PastVeth, PastMaster, PastBridge
  <2>2. QED
    BY <1>1, <2>1, NoProgressYet
<1>2. CASE UNCHANGED <<links, call>>
  <2>1. HostProgress' /\ VrfProgress'
    BY <1>2, Zenon DEF links, call, Progress, HostProgress, VrfProgress
  <2>2. BridgeProgress'
    BY <1>2, Zenon DEF links, call, Progress, BridgeProgress
  <2>3. VxlanProgress'
    BY <1>2, Zenon DEF links, call, Progress, VxlanProgress
  <2>4. PeerThere' /\ PeerMissed' /\ PeerDone'
    BY <1>2, Zenon DEF links, call, Progress, PeerProgress, PeerThere, PeerMissed, PeerDone, Leg
  <2>5. QED
    BY <2>1, <2>2, <2>3, <2>4 DEF Progress, PeerProgress
<1>3. CASE EndCall
  BY <1>1, <1>3 DEF EndCall, PastPeer, PastVeth, PastMaster, PastBridge
<1>4. ASSUME pc \in SetupSteps PROVE par.vrf \in Vrf /\ par.vni \in Vni /\ target \in NS
  BY <1>4 DEF Call, Params, SetupSteps
<1>5. \/ UNCHANGED vars \/ \E w \in Configs : ChangeVNIs(w)
      \/ \E s \in NS : PodStarts(s) \/ PodDies(s) \/ LoopbackCreated(s)
      => UNCHANGED <<links, call>>
  BY Zenon DEF vars, ChangeVNIs, PodStarts, PodDies, LoopbackCreated
<1>6. ASSUME NEW s \in NS, NamespaceDestroyed(s) PROVE Progress'
  <2>1. UNCHANGED call /\ target # s
    BY <1>6, Zenon DEF NamespaceDestroyed
  <2>2. CASE pc \notin SetupSteps
    BY <1>1, <2>1, <2>2 DEF call, SetupSteps, PastPeer, PastVeth, PastMaster, PastBridge
  <2>3. CASE pc \in SetupSteps
    <3>1. vrf'[target] = vrf[target] /\ bridge'[target] = bridge[target] /\ vxlan'[target] = vxlan[target]
      BY <1>4, <1>6, <2>1, <2>3 DEF NamespaceDestroyed, Shape
    <3>2. \A r \in Vrf : \/ veth'[r] = veth[r]
                         \/ veth'[r].kind # "veth" /\ veth[r].kind = "veth" /\ veth[r].pe # target
      BY <1>6, <2>1 DEF NamespaceDestroyed, NoLink
    <3>3. HostProgress'
      BY <1>4, <2>1, <2>3, <3>2, Zenon DEF Progress, HostProgress, call
    <3>4. PeerProgress'
      <4>1. PeerThere'
        BY <2>1, <3>2, Zenon DEF Progress, PeerProgress, PeerThere, call, Leg
      <4>2. PeerMissed'
        BY <1>4, <2>1, <2>3, <3>2, Zenon DEF Progress, PeerProgress, PeerMissed, call, Leg
      <4>3. PeerDone'
        <5>1. CASE pc \in PastPeer /\ peVeth = Leg(par.vrf)
          <6>1. veth'[par.vrf] = veth[par.vrf]
            BY <1>4, <2>3, <3>2, <5>1, Zenon DEF Progress, PeerProgress, PeerThere
          <6>2. QED
            BY <2>1, <6>1, Zenon DEF Progress, PeerProgress, PeerDone, call, Leg
        <5>2. CASE pc \notin PastPeer \/ peVeth # Leg(par.vrf)
          BY <2>1, <5>2 DEF PeerDone, PastPeer, PastVeth, call, Leg
        <5>3. QED
          BY <5>1, <5>2
      <4>4. QED
        BY <4>1, <4>2, <4>3 DEF PeerProgress
    <3>5. VrfProgress' /\ BridgeProgress' /\ VxlanProgress'
      BY <2>1, <3>1, Zenon DEF Progress, VrfProgress, BridgeProgress, VxlanProgress, call
    <3>6. QED
      BY <3>3, <3>4, <3>5 DEF Progress
  <2>4. QED
    BY <2>2, <2>3
<1>7. ASSUME \/ \E s \in NS : Touch(s)
             \/ \E p \in wanted : SetupVNI(p)
             \/ FindVeth \/ RemoveNonConfiguredVNIs \/ RemoveStep
      PROVE  Progress'
  <2>1. pc \notin PastPeer /\ pc' \notin PastPeer /\ made' = made
    BY <1>7, Zenon DEF Touch, SetupVNI, FindVeth, RemoveNonConfiguredVNIs, RemoveStep, RemoveHostLegs,
       ClearVXLans, ClearBridges, RemoveVRFs, Goto, call, PastPeer, PastVeth, PastMaster, PastBridge
  <2>2. QED
    BY <1>1, <2>1
<1>8. Return \/ Fail \/ Crash => EndCall
  BY Zenon DEF Return, Fail, Crash
<1>9. ASSUME pc \in PastPeer, pc' \notin {"brmaster", "brgen", "brup"} \cup PastBridge,
             pc \notin {"brmaster", "brgen", "brup"} \cup PastBridge,
             UNCHANGED <<made, par, target>>
      PROVE  BridgeProgress' /\ VxlanProgress'
  BY <1>9, BridgeKept, VxlanLater DEF Progress, PastBridge
<1>10. CASE MovePeer /\ ~EndCall
  <2>1. pc = "peer" /\ pc' = "hostip" /\ UNCHANGED <<par, target, made>>
    BY <1>10, Zenon DEF MovePeer, FoundAs
  <2>2. par.vrf \in Vrf /\ target \in NS /\ target # Host
    BY <1>4, <2>1, HostAssumption DEF SetupSteps
  <2>3. veth[par.vrf] \in VethLink
    BY <1>10, <2>2, Kinds DEF MovePeer, Shape
  <2>4. ~made
    BY <2>1 DEF Progress, BridgeProgress, PastBridge
  <2>5. HostProgress' /\ VrfProgress' /\ BridgeProgress' /\ VxlanProgress'
    BY <2>1, <2>4 DEF HostProgress, VrfProgress, BridgeProgress, VxlanProgress,
       PastVeth, PastMaster, PastBridge
  <2>6. ASSUME NEW r \in Vrf, Leg(r) \in InNamespace(target)
        PROVE  veth[r].kind = "veth" /\ veth[r].pe = target
    BY <2>6 DEF InNamespace, Leg, Outside
  <2>7. pc' \notin {"peup"} \cup PastVeth /\ pc' \notin PastVeth /\ pc' \notin PastMaster /\ Leg(par.vrf)' = Leg(par.vrf)
    BY <2>1 DEF PastVeth, PastMaster, PastBridge, Leg
  <2>8. CASE veth[par.vrf].pe = Host
    <3>1. veth' = [veth EXCEPT ![par.vrf] =
                      [@ EXCEPT !.pe = target, !.peIPs = {}, !.peUp = FALSE, !.master = None]]
      BY <1>10, <2>2, <2>8, Zenon DEF MovePeer
    <3>2. /\ veth'[par.vrf].kind = "veth" /\ veth'[par.vrf].pe = target /\ veth'[par.vrf].peIPs = {}
          /\ \A r \in Vrf : r # par.vrf => veth'[r] = veth[r]
      BY <2>2, <2>3, <3>1 DEF VethLink, Shape
    <3>3. peVeth' = Leg(par.vrf) \/ peVeth' \in InNamespace(target)
      BY <1>10, <2>2, <2>8, Zenon DEF MovePeer, FoundAs
    <3>4. ASSUME NEW r \in Vrf, peVeth' = Leg(r) PROVE veth'[r].kind = "veth" /\ veth'[r].pe = target
      <4>1. CASE r = par.vrf
        BY <3>2, <4>1, Zenon
      <4>2. CASE r # par.vrf
        <5>1. Leg(r) # Leg(par.vrf)
          BY <4>2 DEF Leg
        <5>2. QED
          BY <2>6, <3>2, <3>3, <3>4, <4>2, <5>1, Zenon
      <4>3. QED
        BY <4>1, <4>2
    <3>5. PeerThere'
      BY <2>1, <3>4, Zenon DEF PeerThere
    <3>6. PeerMissed'
      BY <2>1, <2>7, <3>2, Zenon DEF PeerMissed
    <3>7. PeerDone'
      BY <2>7, Zenon DEF PeerDone
    <3>8. QED
      BY <2>5, <3>5, <3>6, <3>7 DEF Progress, PeerProgress
  <2>9. CASE veth[par.vrf].pe # Host
    <3>1. veth' = veth
      BY <1>10, <2>9, Zenon DEF MovePeer, links
    <3>2. \/ veth[par.vrf].pe = target /\ veth[par.vrf].kind = "veth" /\ peVeth' = Leg(par.vrf)
          \/ veth[par.vrf].pe # target /\ peVeth' \in InNamespace(target)
      BY <1>10, <2>9, Zenon DEF MovePeer, FoundAs
    <3>3. ASSUME NEW r \in Vrf, peVeth' = Leg(r) PROVE veth'[r].kind = "veth" /\ veth'[r].pe = target
      <4>1. CASE r = par.vrf
        BY <2>6, <3>1, <3>2, <3>3, <4>1, Zenon
      <4>2. CASE r # par.vrf
        <5>1. Leg(r) # Leg(par.vrf)
          BY <4>2 DEF Leg
        <5>2. QED
          BY <2>6, <3>1, <3>2, <3>3, <5>1, Zenon
      <4>3. QED
        BY <4>1, <4>2
    <3>4. PeerThere'
      BY <2>1, <3>3, Zenon DEF PeerThere
    <3>5. PeerMissed'
      BY <2>1, <2>7, <3>1, <3>2, Zenon DEF PeerMissed
    <3>6. PeerDone'
      BY <2>7, Zenon DEF PeerDone
    <3>7. QED
      BY <2>5, <3>4, <3>5, <3>6 DEF Progress, PeerProgress
  <2>10. QED
    BY <2>5, <2>8, <2>9 DEF Progress
<1>11. CASE (AssignHostIP \/ HostLegUp) /\ ~EndCall
  <2>1. /\ pc \in {"hostip", "hostup"} /\ pc' = IF pc = "hostip" THEN "hostup" ELSE "nsip"
        /\ UNCHANGED <<par, target, peVeth, made>> /\ veth[par.vrf].kind = "veth"
    BY <1>11 DEF AssignHostIP, HostLegUp, Goto
  <2>2. par.vrf \in Vrf /\ veth[par.vrf] \in VethLink
    BY <1>4, <2>1, Kinds DEF SetupSteps, Shape
  <2>3. /\ \A r \in Vrf : r # par.vrf => veth'[r] = veth[r]
        /\ veth'[par.vrf].kind = "veth" /\ veth'[par.vrf].pe = veth[par.vrf].pe
        /\ veth'[par.vrf].peIPs = veth[par.vrf].peIPs
        /\ pc = "hostip" => par.hostIP \in veth'[par.vrf].hostIPs
        /\ pc = "hostup" => veth'[par.vrf].hostIPs = veth[par.vrf].hostIPs /\ veth'[par.vrf].hostUp
    BY <1>11, <2>1, <2>2 DEF AssignHostIP, HostLegUp, VethLink, Shape
  <2>4. HostProgress'
    BY <2>1, <2>3 DEF Progress, HostProgress, PastVeth, PastMaster, PastBridge
  <2>5. PeerProgress'
    <3>1. \A r \in Vrf : veth'[r].kind = veth[r].kind /\ veth'[r].pe = veth[r].pe
      BY <2>1, <2>3, Zenon
    <3>2. pc \in PastPeer /\ pc' \in PastPeer /\ pc' \notin {"peup"} \cup PastVeth /\ pc' \notin PastVeth /\ pc' \notin PastMaster
      BY <2>1 DEF PastPeer, PastVeth, PastMaster, PastBridge
    <3>3. QED
      BY <2>1, <2>2, <2>3, <3>1, <3>2, Zenon DEF Progress, PeerProgress, PeerThere, PeerMissed, PeerDone, Leg
  <2>6. VrfProgress' /\ BridgeProgress' /\ VxlanProgress'
    BY <2>1 DEF Progress, VrfProgress, BridgeProgress, VxlanProgress, PastMaster, PastBridge
  <2>7. QED
    BY <2>4, <2>5, <2>6 DEF Progress
<1>12. ASSUME AssignNSIP \/ PELegUp \/ EnslavePELeg, ~EndCall PROVE HostProgress' /\ PeerProgress'
  <2>1. /\ pc \in {"nsip", "peup", "master"} /\ UNCHANGED <<par, target, peVeth, made>>
        /\ pc' = IF pc = "nsip" THEN "peup" ELSE IF pc = "peup" THEN "vrf" ELSE "bridge"
    BY <1>12 DEF AssignNSIP, PELegUp, EnslavePELeg, Goto
  <2>2. par.vrf \in Vrf /\ pc \in PastPeer
    BY <1>4, <2>1 DEF SetupSteps, PastPeer, PastVeth
  <2>3. ASSUME NEW r \in Vrf, peVeth = Leg(r) PROVE veth[r] \in VethLink
    BY <2>2, <2>3, Kinds DEF Progress, PeerProgress, PeerThere, Shape
  <2>4. ASSUME NEW r \in Vrf
        PROVE  /\ veth'[r].kind = veth[r].kind /\ veth'[r].pe = veth[r].pe
               /\ veth'[r].hostIPs = veth[r].hostIPs /\ veth'[r].hostUp = veth[r].hostUp
               /\ peVeth # Leg(r) => veth'[r] = veth[r]
               /\ pc # "nsip" => veth'[r].peIPs = veth[r].peIPs
               /\ pc = "master" => veth'[r].peUp = veth[r].peUp
               /\ peVeth = Leg(r) /\ pc = "nsip" => par.nsIP \in veth'[r].peIPs
               /\ peVeth = Leg(r) /\ pc = "peup" => veth'[r].peUp
               /\ peVeth = Leg(r) /\ pc = "master" => veth'[r].master = par.vrf
    <3>1. CASE peVeth # Leg(r)
      BY <1>12, <3>1, Zenon DEF AssignNSIP, PELegUp, EnslavePELeg
    <3>2. CASE peVeth = Leg(r) /\ AssignNSIP
      <4>1. pc = "nsip" /\ veth'[r] = [veth[r] EXCEPT !.peIPs = @ \cup {par.nsIP}]
        BY <3>2, Zenon DEF AssignNSIP
      <4>2. QED
        BY <2>3, <3>2, <4>1, LegFields
    <3>3. CASE peVeth = Leg(r) /\ PELegUp
      <4>1. pc = "peup" /\ veth'[r] = [veth[r] EXCEPT !.peUp = TRUE]
        BY <3>3, Zenon DEF PELegUp
      <4>2. QED
        BY <2>3, <3>3, <4>1, LegFields
    <3>4. CASE peVeth = Leg(r) /\ EnslavePELeg
      <4>1. pc = "master" /\ veth'[r] = [veth[r] EXCEPT !.master = par.vrf]
        BY <1>12, <3>4, Zenon DEF EnslavePELeg
      <4>2. QED
        BY <2>3, <3>4, <4>1, LegFields
    <3>5. QED
      BY <1>12, <3>1, <3>2, <3>3, <3>4
  <2>5. peVeth = Leg(par.vrf) => /\ pc # "nsip" => par.nsIP \in veth[par.vrf].peIPs
                                 /\ pc = "master" => veth[par.vrf].peUp
    BY <2>1 DEF Progress, PeerProgress, PeerDone, PastVeth
  <2>6. peVeth = Leg(par.vrf) => /\ par.nsIP \in veth'[par.vrf].peIPs
                                 /\ pc # "nsip" => veth'[par.vrf].peUp
                                 /\ pc = "master" => veth'[par.vrf].master = par.vrf
    BY <2>1, <2>2, <2>4, <2>5
  <2>7. /\ pc' \in PastPeer /\ (pc # "nsip" => pc' \in PastVeth) /\ (pc' \in PastVeth => pc # "nsip")
        /\ pc' \in PastMaster => pc = "master"
    BY <2>1 DEF PastPeer, PastVeth, PastMaster, PastBridge
  <2>8. QED
    BY <2>1, <2>2, <2>4, <2>6, <2>7, LegStep, Zenon DEF Progress
<1>13. CASE (AssignNSIP \/ PELegUp \/ EnslavePELeg) /\ ~EndCall
  <2>1. /\ pc \in {"nsip", "peup", "master"} /\ UNCHANGED <<par, target, peVeth, made>>
        /\ pc' = IF pc = "nsip" THEN "peup" ELSE IF pc = "peup" THEN "vrf" ELSE "bridge"
    BY <1>13 DEF AssignNSIP, PELegUp, EnslavePELeg, Goto
  <2>2. BridgeProgress' /\ VxlanProgress'
    BY <1>9, <2>1 DEF PastPeer, PastVeth, PastMaster, PastBridge
  <2>3. VrfProgress'
    <3>1. CASE pc = "master"
      BY <1>13, <2>1, <3>1, VrfKept DEF EnslavePELeg, AssignNSIP, PELegUp, Progress
    <3>2. CASE pc # "master"
      BY <2>1, <3>2 DEF VrfProgress, PastMaster, PastBridge
    <3>3. QED
      BY <3>1, <3>2
  <2>4. QED
    BY <1>12, <1>13, <2>2, <2>3 DEF Progress
<1>14. CASE (SetupVRF \/ VRFUp) /\ ~EndCall
  <2>1. /\ pc \in {"vrf", "vrfup"} /\ pc' \in {"vrf", "vrfup", "master"} /\ (pc = "vrf" <=> pc' # "master")
        /\ UNCHANGED <<par, target, peVeth, made, veth>>
    BY <1>14, Zenon DEF SetupVRF, VRFUp, CreateVRF, Goto, OnlyVrf, links
  <2>2. HostProgress' /\ PeerProgress'
    BY <2>1, VethKept DEF Progress, PastVeth, PastMaster, PastBridge
  <2>3. BridgeProgress' /\ VxlanProgress'
    BY <1>9, <2>1 DEF PastPeer, PastVeth, PastMaster, PastBridge
  <2>4. target \in NS /\ par.vrf \in Vrf
    BY <1>4, <2>1 DEF SetupSteps
  <2>5. VrfProgress'
    <3>1. CASE SetupVRF
      <4>1. CASE pc' = "vrf"
        BY <4>1 DEF VrfProgress, PastMaster, PastBridge
      <4>2. CASE pc' = "vrfup"
        <5>1. \/ \E t \in 1..MaxTable : CreateVRF(t)
              \/ UNCHANGED links /\ vrf[target][par.vrf].kind = "vrf"
          BY <1>14, <3>1, <4>2 DEF SetupVRF, Goto
        <5>2. vrf'[target][par.vrf].kind = "vrf"
          <6>1. CASE \E t \in 1..MaxTable : CreateVRF(t)
            <7>1. PICK t \in 1..MaxTable :
                    vrf' = [vrf EXCEPT ![target] =
                              [vrf[target] EXCEPT ![par.vrf] =
                                 [kind |-> "vrf", table |-> t, up |-> FALSE]]]
              BY <6>1 DEF CreateVRF
            <7>2. vrf'[target][par.vrf] = [kind |-> "vrf", table |-> t, up |-> FALSE]
              BY <2>4, <7>1 DEF Shape
            <7>3. QED
              BY <7>2
          <6>2. CASE UNCHANGED links /\ vrf[target][par.vrf].kind = "vrf"
            BY <6>2 DEF links
          <6>3. QED
            BY <5>1, <6>1, <6>2
        <5>3. QED
          BY <2>1, <4>2, <5>2 DEF VrfProgress, PastMaster, PastBridge
      <4>3. QED
        BY <2>1, <3>1, <4>1, <4>2 DEF SetupVRF
    <3>2. CASE VRFUp
      BY <2>1, <2>4, <3>2 DEF VRFUp, Progress, VrfProgress, PastMaster, PastBridge, Shape
    <3>3. QED
      BY <1>14, <3>1, <3>2
  <2>6. QED
    BY <2>2, <2>3, <2>5 DEF Progress
<1>15. CASE SetupBridge \/ EnslaveBridge \/ BridgeGenNone \/ BridgeUp
  <2>1. /\ pc \in {"bridge", "brmaster", "brgen", "brup"}
        /\ pc' \in {"bridge", "brmaster", "brgen", "brup", "vxlan"}
        /\ UNCHANGED <<par, target, peVeth, veth, vrf>>
    BY <1>15, Zenon DEF SetupBridge, CreateBridge, EnslaveBridge, BridgeGenNone, BridgeUp, Goto, OnlyBridge, links
  <2>2. HostProgress' /\ PeerProgress'
    BY <2>1, VethKept DEF Progress, PastVeth, PastMaster, PastBridge
  <2>3. VrfProgress' /\ VxlanProgress'
    BY <2>1, VrfKept, VxlanLater DEF Progress, PastMaster
  <2>4. target \in NS /\ par.vrf \in Vrf /\ par.vni \in Vni
    BY <1>4, <2>1 DEF SetupSteps
  <2>5. BridgeProgress'
    <3> USE <2>1, <2>4 DEF Progress, BridgeProgress, PastBridge, Goto, Shape
    <3>1. CASE SetupBridge
      BY <3>1 DEF SetupBridge, CreateBridge, links
    <3>2. CASE EnslaveBridge
      <4>1. bridge[target][par.vni] \in BridgeLink
        BY <3>2, Kinds DEF EnslaveBridge
      <4>2. bridge'[target][par.vni].kind = "bridge" /\ bridge'[target][par.vni].master = par.vrf
        BY <3>2, <4>1 DEF EnslaveBridge, BridgeLink
      <4>3. QED
        BY <3>2, <4>2 DEF EnslaveBridge
    <3>3. CASE BridgeGenNone
      BY <3>3 DEF BridgeGenNone
    <3>4. CASE BridgeUp
      BY <3>4 DEF BridgeUp
    <3>5. QED
      BY <1>15, <3>1, <3>2, <3>3, <3>4
  <2>6. QED
    BY <2>2, <2>3, <2>5 DEF Progress
<1>16. CASE (SetupVXLan \/ EnslaveVXLan \/ VXLanGenNone \/ SetNeighSuppression \/ VXLanUp) /\ ~EndCall
  <2>1. /\ pc \in {"vxlan", "vxmaster", "vxgen", "vxneigh", "vxup"}
        /\ pc' \in {"vxlan", "vxmaster", "vxgen", "vxneigh", "vxup", "done"}
        /\ UNCHANGED <<par, target, peVeth, made, veth, vrf, bridge>>
    BY <1>16, Zenon DEF SetupVXLan, EnslaveVXLan, VXLanGenNone, SetNeighSuppression, VXLanUp, DelVxlan,
       Goto, OnlyVxlan, links
  <2>2. HostProgress' /\ PeerProgress'
    BY <2>1, VethKept DEF Progress, PastVeth, PastMaster, PastBridge
  <2>3. VrfProgress' /\ BridgeProgress'
    BY <2>1, VrfKept, BridgeKept DEF Progress, PastMaster, PastBridge
  <2>4. target \in NS /\ par.vni \in Vni
    BY <1>4, <2>1 DEF SetupSteps
  <2>5. VxlanProgress'
    <3> USE <2>1, <2>4 DEF Progress, VxlanProgress, Goto, Shape
    <3>1. CASE SetupVXLan
      <4>1. CASE pc' = "vxlan"
        BY <4>1
      <4>2. CASE pc' = "vxmaster"
        <5>1. vxlan' = [vxlan EXCEPT ![target][par.vni] = NewVXLan(par)]
          BY <1>16, <3>1, <4>2, Zenon DEF SetupVXLan
        <5>2. vxlan'[target][par.vni] = NewVXLan(par)
          BY <5>1
        <5>3. QED
          BY <4>2, <5>2 DEF NewVXLan
      <4>3. CASE pc' = "vxgen"
        BY <1>16, <3>1, <4>3 DEF SetupVXLan, CheckVXLanConfigured, links
      <4>4. QED
        BY <1>16, <3>1, <4>1, <4>2, <4>3, Zenon DEF SetupVXLan
    <3>2. CASE EnslaveVXLan
      BY <3>2 DEF EnslaveVXLan
    <3>3. CASE VXLanGenNone
      BY <3>3 DEF VXLanGenNone
    <3>4. CASE SetNeighSuppression
      BY <3>4 DEF SetNeighSuppression
    <3>5. CASE VXLanUp
      BY <3>5 DEF VXLanUp
    <3>6. QED
      BY <1>16, <3>1, <3>2, <3>3, <3>4, <3>5
  <2>6. QED
    BY <2>2, <2>3, <2>5 DEF Progress
<1>17. CASE SetupStep
  BY <1>3, <1>7, <1>10, <1>11, <1>13, <1>14, <1>15, <1>16, <1>17, Zenon DEF SetupStep
<1> QED
  BY <1>2, <1>3, <1>5, <1>6, <1>7, <1>8, <1>17, Zenon DEF Next, Environment

\* LinkDel keeps the types.
LEMMA DeletionTypes ==
    ASSUME Shape, NEW s \in NS
    PROVE  /\ \A r \in Vrf : DelVeth(r) \/ DelVrf(s, r) => Shape'
           /\ \A v \in Vni : DelBridge(s, v) \/ DelVxlan(s, v) => Shape'
<1>1. ASSUME NEW r \in Vrf, DelVeth(r) PROVE Shape'
  BY <1>1, NewLinks DEF DelVeth, Shape
<1>2. ASSUME NEW r \in Vrf, DelVrf(s, r) PROVE Shape'
  <2>1. vrf' \in [NS -> [Vrf -> VrfType]]
    BY <1>2, NewLinks DEF DelVrf, Shape
  <2>2. veth' \in [Vrf -> VethType]
    BY <1>2, NewLinks, Kinds, VethUpdates DEF DelVrf, Shape
  <2>3. bridge' \in [NS -> [Vni -> BridgeType]]
    BY <1>2, NewLinks, Kinds, BridgeUpdates DEF DelVrf, Shape
  <2> QED
    BY <1>2, <2>1, <2>2, <2>3 DEF DelVrf, Shape
<1>3. ASSUME NEW v \in Vni, DelBridge(s, v) PROVE Shape'
  <2>1. bridge' \in [NS -> [Vni -> BridgeType]]
    BY <1>3, NewLinks DEF DelBridge, Shape
  <2>2. vxlan' \in [NS -> [Vni -> VxlanType]]
    BY <1>3, NewLinks, Kinds, VxlanUpdates DEF DelBridge, Shape
  <2> QED
    BY <1>3, <2>1, <2>2 DEF DelBridge, Shape
<1>4. ASSUME NEW v \in Vni, DelVxlan(s, v) PROVE Shape'
  BY <1>4, NewLinks DEF DelVxlan, Shape
<1> QED
  BY <1>1, <1>2, <1>3, <1>4

\* Replacing one link by a link of the right kind keeps the types.
LEMMA PutTypes ==
    ASSUME Shape, NEW s \in NS
    PROVE  /\ \A r \in Vrf : \A x \in VethType :
                 veth' = [veth EXCEPT ![r] = x] /\ UNCHANGED <<vrf, bridge, vxlan>> => Shape'
           /\ \A r \in Vrf : \A x \in VrfType :
                 vrf' = [vrf EXCEPT ![s][r] = x] /\ UNCHANGED <<veth, bridge, vxlan>> => Shape'
           /\ \A v \in Vni : \A x \in BridgeType :
                 bridge' = [bridge EXCEPT ![s][v] = x] /\ UNCHANGED <<veth, vrf, vxlan>> => Shape'
           /\ \A v \in Vni : \A x \in VxlanType :
                 vxlan' = [vxlan EXCEPT ![s][v] = x] /\ UNCHANGED <<veth, vrf, bridge>> => Shape'
<1>1. ASSUME NEW r \in Vrf, NEW x \in VethType,
             veth' = [veth EXCEPT ![r] = x], UNCHANGED <<vrf, bridge, vxlan>>
      PROVE  Shape'
  BY <1>1 DEF Shape
<1>2. ASSUME NEW r \in Vrf, NEW x \in VrfType,
             vrf' = [vrf EXCEPT ![s][r] = x], UNCHANGED <<veth, bridge, vxlan>>
      PROVE  Shape'
  BY <1>2 DEF Shape
<1>3. ASSUME NEW v \in Vni, NEW x \in BridgeType,
             bridge' = [bridge EXCEPT ![s][v] = x], UNCHANGED <<veth, vrf, vxlan>>
      PROVE  Shape'
  BY <1>3 DEF Shape
<1>4. ASSUME NEW v \in Vni, NEW x \in VxlanType,
             vxlan' = [vxlan EXCEPT ![s][v] = x], UNCHANGED <<veth, vrf, bridge>>
      PROVE  Shape'
  BY <1>4 DEF Shape
<1> QED
  BY <1>1, <1>2, <1>3, <1>4
\* Every step keeps the links well formed.
LEMMA ShapeStep == Shape /\ Call /\ Progress /\ [Next]_vars => Shape'
<1> SUFFICES ASSUME Shape, Call, Progress, [Next]_vars PROVE Shape'
  OBVIOUS
<1>1. CASE UNCHANGED links
  BY <1>1 DEF links, Shape
<1>2. ASSUME NEW s \in NS, NamespaceDestroyed(s) PROVE Shape'
  BY <1>2, NewLinks DEF NamespaceDestroyed, Shape
<1>3. ASSUME NEW s \in NS, Touch(s) PROVE Shape'
  <2>1. CASE \/ \E r \in Vrf : DelVeth(r) \/ DelVrf(s, r)
             \/ \E v \in Vni : DelBridge(s, v) \/ DelVxlan(s, v)
    BY <2>1, DeletionTypes
  <2>2. CASE \/ \E r \in Vrf : veth' = [veth EXCEPT ![r] = Other] /\ OnlyVeth
             \/ \E r \in Vrf : vrf' = [vrf EXCEPT ![s][r] = Other] /\ OnlyVrf
             \/ \E v \in Vni : bridge' = [bridge EXCEPT ![s][v] = Other] /\ OnlyBridge
             \/ \E v \in Vni : vxlan' = [vxlan EXCEPT ![s][v] = Other] /\ OnlyVxlan
    BY <2>2, PutTypes, NewLinks DEF OnlyVeth, OnlyVrf, OnlyBridge, OnlyVxlan
  <2> QED
    BY <1>3, <2>1, <2>2 DEF Touch, OnlyVeth, OnlyVrf, OnlyBridge, OnlyVxlan
<1>4. ASSUME pc \in SetupSteps
      PROVE  par \in Params /\ par.vrf \in Vrf /\ par.vni \in Vni /\ par.hostIP \in Ip
             /\ par.nsIP \in Ip /\ target \in NS
  BY <1>4 DEF Call, Params, SetupSteps
<1>5. CASE FindVeth
  BY <1>1, <1>4, <1>5, NewLinks, PutTypes DEF FindVeth, DelVeth, OnlyVeth, SetupSteps
<1>6. CASE MovePeer
  <2>1. CASE veth[par.vrf].kind = "veth" /\ veth[par.vrf].pe = Host
    <3>1. par.vrf \in Vrf /\ target \in NS
      BY <1>4, <1>6 DEF MovePeer, SetupSteps
    <3>2. veth[par.vrf] \in VethLink /\ target # Host
      BY <2>1, <3>1, Kinds, HostAssumption DEF Shape
    <3>3. /\ veth' = [veth EXCEPT ![par.vrf] =
                        [veth[par.vrf] EXCEPT !.pe = target, !.peIPs = {}, !.peUp = FALSE, !.master = None]]
          /\ OnlyVeth
      BY <1>6, <2>1, <3>2 DEF MovePeer
    <3>4. [veth[par.vrf] EXCEPT !.pe = target, !.peIPs = {}, !.peUp = FALSE, !.master = None] \in VethType
      BY <3>1, <3>2, VethUpdates, NewLinks
    <3>5. QED
      BY <3>1, <3>3, <3>4, PutTypes DEF OnlyVeth
  <2>2. CASE ~(veth[par.vrf].kind = "veth" /\ veth[par.vrf].pe = Host)
    BY <1>1, <1>6, <2>2, Zenon DEF MovePeer
  <2>3. QED
    BY <2>1, <2>2
<1>7. CASE AssignHostIP \/ HostLegUp
  <2>1. par.vrf \in Vrf /\ par.hostIP \in Ip /\ target \in NS
    BY <1>4, <1>7 DEF AssignHostIP, HostLegUp, SetupSteps
  <2>2. CASE veth[par.vrf].kind # "veth"
    BY <1>1, <1>7, <2>2, Zenon DEF AssignHostIP, HostLegUp
  <2>3. CASE veth[par.vrf].kind = "veth"
    <3>1. veth[par.vrf] \in VethLink
      BY <2>1, <2>3, Kinds DEF Shape
    <3>2. \E x \in VethType : veth' = [veth EXCEPT ![par.vrf] = x]
      <4>1. CASE AssignHostIP
        BY <2>1, <2>3, <3>1, <4>1, VethUpdates, NewLinks DEF AssignHostIP
      <4>2. CASE HostLegUp
        BY <2>1, <2>3, <3>1, <4>2, VethUpdates, NewLinks DEF HostLegUp
      <4>3. QED
        BY <1>7, <4>1, <4>2
    <3>3. UNCHANGED <<vrf, bridge, vxlan>>
      BY <1>7, <2>3 DEF AssignHostIP, HostLegUp, OnlyVeth
    <3>4. QED
      BY <2>1, <3>2, <3>3, PutTypes
  <2>4. QED
    BY <2>2, <2>3
<1>8. CASE AssignNSIP \/ PELegUp \/ EnslavePELeg
  <2>1. par.vrf \in Vrf /\ par.nsIP \in Ip /\ target \in NS
    BY <1>4, <1>8 DEF AssignNSIP, PELegUp, EnslavePELeg, SetupSteps
  <2>2. \A r \in Vrf : peVeth = Leg(r) => veth[r] \in VethLink
    <3>1. pc \in PastPeer
      BY <1>8 DEF AssignNSIP, PELegUp, EnslavePELeg, PastPeer, PastVeth
    <3>2. QED
      BY <3>1, Kinds DEF Progress, PeerProgress, PeerThere, Shape
  <2>3. veth' \in [Vrf -> VethType]
    <3>1. CASE AssignNSIP
      BY <2>1, <2>2, <3>1, NewLinks, VethUpdates DEF AssignNSIP, Shape
    <3>2. CASE PELegUp
      BY <2>1, <2>2, <3>2, NewLinks, VethUpdates DEF PELegUp, Shape
    <3>3. CASE EnslavePELeg
      <4>1. [r \in Vrf |-> IF peVeth = Leg(r) THEN [veth[r] EXCEPT !.master = par.vrf] ELSE veth[r]]
              \in [Vrf -> VethType]
        BY <2>1, <2>2, NewLinks, VethUpdates DEF Shape
      <4>2. QED
        BY <3>3, <4>1, Zenon DEF EnslavePELeg, Shape, links
    <3>4. QED
      BY <1>8, <3>1, <3>2, <3>3
  <2>4. vrf' \in [NS -> [Vrf -> VrfType]]
    <3>1. CASE PELegUp
      <4>1. [r \in Vrf |-> IF peVeth = <<"vrf", r>> /\ vrf[target][r].kind = "vrf"
                            THEN [vrf[target][r] EXCEPT !.up = TRUE] ELSE vrf[target][r]] \in [Vrf -> VrfType]
        BY <2>1, Kinds, NewLinks, VrfUpdates DEF Shape
      <4>2. QED
        BY <2>1, <3>1, <4>1 DEF PELegUp, Shape
    <3>2. CASE AssignNSIP \/ EnslavePELeg
      BY <3>2 DEF AssignNSIP, EnslavePELeg, OnlyVeth, Shape, links
    <3>3. QED
      BY <1>8, <3>1, <3>2
  <2>5. bridge' \in [NS -> [Vni -> BridgeType]]
    <3>1. CASE PELegUp
      <4>1. [v \in Vni |-> IF peVeth = <<"bridge", v>> /\ bridge[target][v].kind = "bridge"
                            THEN [bridge[target][v] EXCEPT !.up = TRUE] ELSE bridge[target][v]] \in [Vni -> BridgeType]
        BY <2>1, Kinds, NewLinks, BridgeUpdates DEF Shape
      <4>2. QED
        BY <2>1, <3>1, <4>1 DEF PELegUp, Shape
    <3>2. CASE EnslavePELeg
      <4>1. [v \in Vni |-> IF peVeth = <<"bridge", v>> /\ bridge[target][v].kind = "bridge"
                            THEN [bridge[target][v] EXCEPT !.master = par.vrf] ELSE bridge[target][v]] \in [Vni -> BridgeType]
        BY <2>1, Kinds, NewLinks, BridgeUpdates DEF Shape
      <4>2. QED
        BY <2>1, <3>2, <4>1 DEF EnslavePELeg, Shape, links
    <3>3. CASE AssignNSIP
      BY <3>3 DEF AssignNSIP, OnlyVeth, Shape
    <3>4. QED
      BY <1>8, <3>1, <3>2, <3>3
  <2>6. vxlan' \in [NS -> [Vni -> VxlanType]]
    <3>1. CASE PELegUp
      <4>1. [v \in Vni |-> IF peVeth = <<"vxlan", v>> /\ vxlan[target][v].kind = "vxlan"
                            THEN [vxlan[target][v] EXCEPT !.up = TRUE] ELSE vxlan[target][v]] \in [Vni -> VxlanType]
        BY <2>1, Kinds, NewLinks, VxlanUpdates DEF Shape
      <4>2. QED
        BY <2>1, <3>1, <4>1 DEF PELegUp, Shape
    <3>2. CASE EnslavePELeg
      <4>1. [v \in Vni |-> IF peVeth = <<"vxlan", v>> /\ vxlan[target][v].kind = "vxlan"
                            THEN [vxlan[target][v] EXCEPT !.inBridge = FALSE] ELSE vxlan[target][v]] \in [Vni -> VxlanType]
        BY <2>1, Kinds, NewLinks, VxlanUpdates DEF Shape
      <4>2. QED
        BY <2>1, <3>2, <4>1 DEF EnslavePELeg, Shape, links
    <3>3. CASE AssignNSIP
      BY <3>3 DEF AssignNSIP, OnlyVeth, Shape
    <3>4. QED
      BY <1>8, <3>1, <3>2, <3>3
  <2>7. QED
    BY <2>3, <2>4, <2>5, <2>6 DEF Shape
<1>9. CASE SetupVRF
  <2>1. target \in NS /\ par.vrf \in Vrf
    BY <1>4, <1>9 DEF SetupVRF, SetupSteps
  <2> QED
    BY <1>1, <1>9, <2>1, NewLinks, PutTypes DEF SetupVRF, CreateVRF, OnlyVrf
<1>10. CASE VRFUp
  <2>1. vrf[target][par.vrf].kind = "vrf"
    BY <1>10 DEF VRFUp, Progress, VrfProgress, PastMaster
  <2>2. vrf[target][par.vrf] \in VrfLink /\ target \in NS /\ par.vrf \in Vrf
    BY <1>4, <1>10, <2>1, Kinds DEF VRFUp, SetupSteps, Shape
  <2>3. vrf' = [vrf EXCEPT ![target][par.vrf] = [vrf[target][par.vrf] EXCEPT !.up = TRUE]]
    BY <1>10 DEF VRFUp
  <2> QED
    BY <1>10, <2>2, <2>3, VrfUpdates, NewLinks, PutTypes DEF VRFUp, OnlyVrf
<1>11. CASE SetupBridge
  <2>1. target \in NS /\ par.vrf \in Vrf /\ par.vni \in Vni
    BY <1>4, <1>11 DEF SetupBridge, SetupSteps
  <2> QED
    BY <1>1, <1>11, <2>1, NewLinks, PutTypes DEF SetupBridge, CreateBridge, OnlyBridge
<1>12. CASE EnslaveBridge \/ BridgeGenNone \/ BridgeUp
  <2>1. bridge[target][par.vni].kind = "bridge"
    BY <1>12 DEF EnslaveBridge, BridgeGenNone, BridgeUp, Progress, BridgeProgress
  <2>2. bridge[target][par.vni] \in BridgeLink /\ target \in NS /\ par.vni \in Vni /\ par.vrf \in Vrf
    BY <1>4, <1>12, <2>1, Kinds DEF EnslaveBridge, BridgeGenNone, BridgeUp, SetupSteps, Shape
  <2>3. \E x \in BridgeLink : bridge' = [bridge EXCEPT ![target][par.vni] = x]
    <3>1. \/ bridge' = [bridge EXCEPT ![target][par.vni] = [bridge[target][par.vni] EXCEPT !.genNone = TRUE]]
          \/ bridge' = [bridge EXCEPT ![target][par.vni] = [bridge[target][par.vni] EXCEPT !.up = TRUE]]
          \/ bridge' = [bridge EXCEPT ![target][par.vni] = [bridge[target][par.vni] EXCEPT !.master = par.vrf]]
      BY <1>12 DEF EnslaveBridge, BridgeGenNone, BridgeUp
    <3> QED
      BY <2>2, <3>1, BridgeUpdates
  <2> QED
    BY <1>12, <2>2, <2>3, NewLinks, PutTypes DEF EnslaveBridge, BridgeGenNone, BridgeUp, OnlyBridge
<1>13. CASE SetupVXLan
  <2>1. target \in NS /\ par.vni \in Vni /\ par \in Params
    BY <1>4, <1>13 DEF SetupVXLan, SetupSteps
  <2> QED
    BY <1>1, <1>13, <2>1, NewLinks, PutTypes DEF SetupVXLan, DelVxlan, OnlyVxlan
<1>14. CASE EnslaveVXLan \/ VXLanGenNone \/ SetNeighSuppression \/ VXLanUp
  <2>1. vxlan[target][par.vni].kind = "vxlan"
    BY <1>14 DEF EnslaveVXLan, VXLanGenNone, SetNeighSuppression, VXLanUp, Progress, VxlanProgress
  <2>2. vxlan[target][par.vni] \in VxlanLink /\ target \in NS /\ par.vni \in Vni
    BY <1>4, <1>14, <2>1, Kinds DEF EnslaveVXLan, VXLanGenNone, SetNeighSuppression, VXLanUp, SetupSteps, Shape
  <2>3. \E x \in VxlanLink : vxlan' = [vxlan EXCEPT ![target][par.vni] = x]
    <3>1. \/ vxlan' = [vxlan EXCEPT ![target][par.vni] = [vxlan[target][par.vni] EXCEPT !.genNone = TRUE]]
          \/ vxlan' = [vxlan EXCEPT ![target][par.vni] = [vxlan[target][par.vni] EXCEPT !.suppress = TRUE]]
          \/ vxlan' = [vxlan EXCEPT ![target][par.vni] = [vxlan[target][par.vni] EXCEPT !.up = TRUE]]
          \/ vxlan' = [vxlan EXCEPT ![target][par.vni] = [vxlan[target][par.vni] EXCEPT !.inBridge = TRUE]]
      BY <1>14 DEF EnslaveVXLan, VXLanGenNone, SetNeighSuppression, VXLanUp
    <3> QED
      BY <2>2, <3>1, VxlanUpdates
  <2> QED
    BY <1>14, <2>2, <2>3, NewLinks, PutTypes
       DEF EnslaveVXLan, VXLanGenNone, SetNeighSuppression, VXLanUp, OnlyVxlan
<1>15. CASE RemoveStep
  <2>1. target \in NS
    BY <1>15 DEF RemoveStep, RemoveHostLegs, ClearVXLans, ClearBridges, RemoveVRFs, Call
  <2>2. CASE \/ \E r \in Vrf : DelVeth(r) \/ DelVrf(target, r)
             \/ \E v \in Vni : DelBridge(target, v) \/ DelVxlan(target, v)
    BY <2>1, <2>2, DeletionTypes
  <2> QED
    BY <1>1, <1>15, <2>2
       DEF RemoveStep, RemoveHostLegs, ClearVXLans, ClearBridges, RemoveVRFs,
           StaleLegs, StaleVxlans, StaleBridges, StaleVrfs
<1>16. UNCHANGED vars => UNCHANGED links
  BY DEF vars
<1>17. (\E w \in Configs : ChangeVNIs(w)) \/ (\E p \in wanted : SetupVNI(p))
       \/ RemoveNonConfiguredVNIs \/ Return \/ Fail \/ Crash => UNCHANGED links
  BY DEF ChangeVNIs, SetupVNI, RemoveNonConfiguredVNIs, Return, Fail, Crash
<1>18. (\E s \in NS : PodStarts(s) \/ PodDies(s) \/ LoopbackCreated(s)) => UNCHANGED links
  BY DEF PodStarts, PodDies, LoopbackCreated
<1> QED
  BY <1>1, <1>2, <1>3, <1>5, <1>6, <1>7, <1>9, <1>10, <1>11, <1>12, <1>13, <1>14, <1>15,
     <1>16, <1>17, <1>18, <1>8, Zenon DEF Next, Environment, SetupStep

\* No step gives two VRFs of a namespace the same table.
LEMMA TablesStep == Shape /\ Call /\ TablesDistinct /\ [Next]_vars => TablesDistinct'
<1> SUFFICES ASSUME Shape, Call, TablesDistinct, [Next]_vars PROVE TablesDistinct'
  OBVIOUS
<1> USE DEF TablesDistinct
<1>1. CASE UNCHANGED vrf
  BY <1>1
<1>2. ASSUME NEW s \in NS, NamespaceDestroyed(s) PROVE TablesDistinct'
  BY <1>2 DEF NamespaceDestroyed, NoLink, Shape
<1>3. ASSUME NEW s \in NS, NEW r \in Vrf, NEW x \in {NoLink, Other},
             vrf' = [vrf EXCEPT ![s][r] = x]
      PROVE  TablesDistinct'
  BY <1>3 DEF NoLink, Other, Shape
<1>4. ASSUME NEW s \in NS, Touch(s) PROVE TablesDistinct'
  BY <1>1, <1>3, <1>4 DEF Touch, DelVeth, DelVrf, DelBridge, DelVxlan
<1>5. ASSUME pc \in SetupSteps PROVE par.vrf \in Vrf /\ target \in NS
  BY <1>5 DEF Call, Params, SetupSteps
<1>6. CASE SetupVRF
  <2>1. target \in NS /\ par.vrf \in Vrf
    BY <1>5, <1>6 DEF SetupVRF, SetupSteps
  <2>2. ASSUME NEW t \in 1..MaxTable, CreateVRF(t) PROVE TablesDistinct'
    <3>1. \A q \in Vrf : vrf[target][q].kind = "vrf" => vrf[target][q].table # t
      BY <2>2 DEF CreateVRF, FreeTables, TakenTables
    <3> QED
      BY <2>1, <2>2, <3>1 DEF CreateVRF, Shape
  <2> QED
    BY <1>1, <1>3, <1>6, <2>1, <2>2 DEF SetupVRF, links
<1>7. CASE VRFUp \/ PELegUp
  <2>1. target \in NS /\ par.vrf \in Vrf
    BY <1>5, <1>7 DEF VRFUp, PELegUp, SetupSteps
  <2>2. \A s \in NS : \A r \in Vrf : vrf'[s][r].kind = vrf[s][r].kind
                                     /\ vrf'[s][r].table = vrf[s][r].table
    <3>1. CASE VRFUp
      BY <2>1, <3>1 DEF VRFUp, Shape
    <3>2. CASE PELegUp
      BY <2>1, <3>2 DEF PELegUp, Shape
    <3>3. QED
      BY <1>7, <3>1, <3>2
  <2> QED
    BY <2>2
<1>8. CASE RemoveVRFs
  BY <1>1, <1>3, <1>8 DEF RemoveVRFs, StaleVrfs, DelVrf, links, Call, SetupSteps
<1>9. \/ UNCHANGED vars \/ \E w \in Configs : ChangeVNIs(w)
      \/ \E s \in NS : PodStarts(s) \/ PodDies(s) \/ LoopbackCreated(s)
      \/ \E p \in wanted : SetupVNI(p)
      \/ RemoveNonConfiguredVNIs \/ Return \/ Fail \/ Crash
      => UNCHANGED vrf
  BY DEF vars, links, ChangeVNIs, PodStarts, PodDies, LoopbackCreated, SetupVNI,
         RemoveNonConfiguredVNIs, Return, Fail, Crash
<1>10. \/ FindVeth \/ MovePeer \/ AssignHostIP \/ HostLegUp \/ AssignNSIP \/ EnslavePELeg
       => UNCHANGED vrf
  BY Zenon DEF FindVeth, MovePeer, AssignHostIP, HostLegUp, AssignNSIP, EnslavePELeg,
         DelVeth, OnlyVeth, links
<1>11. \/ SetupBridge \/ EnslaveBridge \/ BridgeGenNone \/ BridgeUp
       \/ SetupVXLan \/ EnslaveVXLan \/ VXLanGenNone \/ SetNeighSuppression \/ VXLanUp
       \/ RemoveHostLegs \/ ClearVXLans \/ ClearBridges
       => UNCHANGED vrf
  BY Zenon DEF SetupBridge, CreateBridge, EnslaveBridge, BridgeGenNone, BridgeUp,
         SetupVXLan, EnslaveVXLan, VXLanGenNone, SetNeighSuppression, VXLanUp,
         RemoveHostLegs, ClearVXLans, ClearBridges, DelVeth, DelVxlan, DelBridge, OnlyBridge, OnlyVxlan, links
<1> QED
  BY <1>1, <1>2, <1>4, <1>6, <1>7, <1>8, <1>9, <1>10, <1>11, Zenon
     DEF Next, Environment, SetupStep, RemoveStep

\* What a step of SetupVNI does to the call: it goes on to another step, or ends it.
LEMMA CallStep ==
    ASSUME par.vrf \in Vrf, SetupStep
    PROVE  /\ pc \in SetupSteps
           /\ Rest
           /\ \/ EndCall
              \/ /\ pc' \in SetupSteps
                 /\ UNCHANGED <<par, target, keep>>
                 /\ peVeth' = peVeth \/ peVeth' \in LinkName
                 /\ made' = made \/ made' = TRUE
<1>1. CASE MovePeer
  <2>1. Leg(par.vrf) \in LinkName /\ InNamespace(target) \subseteq LinkName
    BY DEF Leg, InNamespace, LinkName
  <2>2. /\ pc = "peer"
        /\ Rest
        /\ EndCall \/ \E l \in LinkName : FoundAs(l)
    BY <1>1, <2>1, Zenon DEF MovePeer, FoundAs
  <2>3. QED
    BY <2>2, Zenon DEF FoundAs, SetupSteps
<1>2. CASE SetupBridge
  BY <1>2, Zenon DEF SetupBridge, CreateBridge, Goto, SetupSteps
<1>3. CASE \/ FindVeth \/ AssignHostIP \/ HostLegUp \/ AssignNSIP \/ PELegUp
           \/ SetupVRF \/ VRFUp \/ EnslavePELeg
  BY <1>3, Zenon DEF FindVeth, AssignHostIP, HostLegUp, AssignNSIP, PELegUp, SetupVRF, VRFUp, EnslavePELeg,
     Goto, SetupSteps
<1>4. CASE \/ EnslaveBridge \/ BridgeGenNone \/ BridgeUp
           \/ SetupVXLan \/ EnslaveVXLan \/ VXLanGenNone \/ SetNeighSuppression \/ VXLanUp
  BY <1>4, Zenon DEF EnslaveBridge, BridgeGenNone, BridgeUp, SetupVXLan, EnslaveVXLan, VXLanGenNone,
     SetNeighSuppression, VXLanUp, Goto, SetupSteps
<1>5. QED
  BY <1>1, <1>2, <1>3, <1>4, Zenon DEF SetupStep

\* Every step keeps the rest of the type invariant.
LEMMA TypeStep == TypeOK /\ Progress /\ [Next]_vars => TypeOK'
<1> SUFFICES ASSUME TypeOK, Progress, [Next]_vars PROVE TypeOK'
  OBVIOUS
<1>1. Shape /\ Call
  BY DEF TypeOK, Shape, Call
<1>2. Shape'
  BY <1>1, ShapeStep
<1> DEFINE Others ==
      /\ nsState \in [NS -> {"unused", "pod", "orphan"}]
      /\ handles \subseteq NS /\ lound \subseteq NS /\ wanted \in Configs
      /\ faults \in 0..MaxFaults /\ changes \in 0..MaxChanges
      /\ Call
      /\ peVeth \in LinkName \cup {None} /\ made \in BOOLEAN
      /\ keep \subseteq Params
<1>3. Others
  BY DEF TypeOK, Call
<1>4. Others'
  <2> USE <1>3, NoneAssumption, ConfigsAssumption, BoundAssumption DEF Call, counts, call
  <2>1. CASE Environment
    <3>1. CASE \E w \in Configs : ChangeVNIs(w)
      BY <3>1 DEF ChangeVNIs
    <3>2. CASE \E s \in NS : PodStarts(s) \/ PodDies(s)
      BY <3>2 DEF PodStarts, PodDies
    <3>3. CASE \E s \in NS : LoopbackCreated(s) \/ NamespaceDestroyed(s)
      BY <3>3 DEF LoopbackCreated, NamespaceDestroyed
    <3>4. CASE \E s \in NS : Touch(s)
      <4>1. faults' = faults + 1 /\ faults < MaxFaults
            /\ UNCHANGED <<nsState, handles, lound, wanted, call, changes>>
        BY <3>4 DEF Touch
      <4> QED
        BY <4>1
    <3> QED
      BY <2>1, <3>1, <3>2, <3>3, <3>4 DEF Environment
  <2>2. CASE \E p \in wanted : SetupVNI(p)
    BY <2>2 DEF SetupVNI, SetupSteps
  <2> USE DEF Goto, Rest, EndCall, SetupSteps, RemoveSteps
  <2>3. CASE SetupStep
    <3>1. pc \in SetupSteps
      BY <2>3, Zenon DEF SetupStep, FindVeth, MovePeer, AssignHostIP, HostLegUp, AssignNSIP, PELegUp, EnslavePELeg,
         SetupVRF, VRFUp, SetupBridge, EnslaveBridge, BridgeGenNone, BridgeUp, SetupVXLan, EnslaveVXLan,
         VXLanGenNone, SetNeighSuppression, VXLanUp
    <3>2. par.vrf \in Vrf
      BY <3>1 DEF Params
    <3>3. /\ Rest
          /\ \/ EndCall
             \/ /\ pc' \in SetupSteps
                /\ UNCHANGED <<par, target, keep>>
                /\ peVeth' = peVeth \/ peVeth' \in LinkName
                /\ made' = made \/ made' = TRUE
      BY <2>3, <3>2, CallStep, Zenon
    <3>4. CASE EndCall
      BY <3>3, <3>4
    <3>5. CASE /\ pc' \in SetupSteps
               /\ UNCHANGED <<par, target, keep>>
               /\ peVeth' = peVeth \/ peVeth' \in LinkName
               /\ made' = made \/ made' = TRUE
      <4>1. Call'
        BY <3>1, <3>5
      <4>2. peVeth' \in LinkName \cup {None} /\ made' \in BOOLEAN /\ keep' \subseteq Params
        BY <3>5
      <4>3. QED
        BY <3>3, <4>1, <4>2
    <3>6. QED
      BY <3>3, <3>4, <3>5
  <2>4. CASE RemoveNonConfiguredVNIs \/ RemoveStep
    <3>1. CASE RemoveNonConfiguredVNIs
      BY <3>1 DEF RemoveNonConfiguredVNIs
    <3>2. CASE RemoveStep
      <4>1. /\ pc \in RemoveSteps /\ pc' \in RemoveSteps
            /\ UNCHANGED <<par, target, peVeth, made, keep>>
            /\ UNCHANGED <<nsState, handles, lound, wanted, counts>>
        BY <3>2, Zenon DEF RemoveStep, RemoveHostLegs, ClearVXLans, ClearBridges, RemoveVRFs
      <4>2. Call'
        BY <4>1
      <4>3. QED
        BY <4>1, <4>2
    <3>3. QED
      BY <2>4, <3>1, <3>2
  <2>5. CASE Return \/ Fail \/ Crash
    <3>1. EndCall /\ UNCHANGED <<nsState, lound, wanted, changes>>
          /\ handles' \in {handles, {}}
      BY <2>5, Zenon DEF Return, Fail, Crash
    <3>2. faults' = faults \/ (faults < MaxFaults /\ faults' = faults + 1)
      BY <2>5, Zenon DEF Return, Fail, Crash
    <3>3. faults' \in 0..MaxFaults
      BY <3>2
    <3>4. QED
      BY <3>1, <3>3
  <2>6. CASE UNCHANGED vars
    BY <2>6 DEF vars
  <2> QED
    BY <2>1, <2>2, <2>3, <2>4, <2>5, <2>6 DEF Next
<1> QED
  BY <1>2, <1>4 DEF TypeOK, Shape, Call

\* Every step keeps what the removal in progress has achieved: nothing brings
\* a stale link back while it runs.
LEMMA RemovalStep == Shape /\ Call /\ RemovalProgress /\ [Next]_vars => RemovalProgress'
<1> SUFFICES ASSUME Shape, Call, RemovalProgress, [Next]_vars PROVE RemovalProgress'
  OBVIOUS
<1> USE DEF Shape, Call, RemovalProgress, StaleLegs, StaleVxlans, StaleBridges, StaleVrfs,
        KeptVrfs, KeptVnis, links, call
<1>1. CASE UNCHANGED <<links, pc, target, keep>>
  BY <1>1
<1>2. CASE pc' \notin {"rmvxlan", "rmbridge", "rmvrf", "removed"}
  BY <1>2
<1>3. ASSUME NEW s \in NS, NamespaceDestroyed(s) PROVE RemovalProgress'
  BY <1>3 DEF NamespaceDestroyed, NoLink
<1>4. ASSUME NEW s \in NS, Touch(s) PROVE RemovalProgress'
  BY <1>2, <1>4 DEF Touch
<1>5. CASE RemoveHostLegs
  BY <1>5 DEF RemoveHostLegs, Goto
<1>6. CASE ClearVXLans
  BY <1>6 DEF ClearVXLans, Goto, DelVxlan, NoLink
<1>7. CASE ClearBridges
  BY <1>7 DEF ClearBridges, Goto, DelBridge, NoLink
<1>8. CASE RemoveVRFs
  BY <1>8 DEF RemoveVRFs, Goto, DelVrf, NoLink
<1>9. CASE SetupStep
  <2>1. pc' \in SetupSteps \cup {"idle"}
    BY <1>9, Zenon
       DEF SetupStep, FindVeth, MovePeer, FoundAs, AssignHostIP, HostLegUp, AssignNSIP, PELegUp, EnslavePELeg,
         SetupVRF, VRFUp, SetupBridge, CreateBridge, EnslaveBridge, BridgeGenNone, BridgeUp, SetupVXLan,
         EnslaveVXLan, VXLanGenNone, SetNeighSuppression, VXLanUp, Goto, EndCall, SetupSteps
  <2>2. QED
    BY <1>2, <2>1 DEF SetupSteps
<1>10. CASE \/ \E w \in Configs : ChangeVNIs(w)
            \/ \E s \in NS : PodStarts(s) \/ PodDies(s) \/ LoopbackCreated(s)
  BY <1>1, <1>10 DEF ChangeVNIs, PodStarts, PodDies, LoopbackCreated
<1>11. CASE (\E p \in wanted : SetupVNI(p)) \/ RemoveNonConfiguredVNIs \/ Return \/ Fail \/ Crash
  BY <1>2, <1>11 DEF SetupVNI, RemoveNonConfiguredVNIs, Return, Fail, Crash, EndCall
<1>12. CASE UNCHANGED vars
  BY <1>1, <1>12 DEF vars
<1> QED
  BY <1>3, <1>4, <1>5, <1>6, <1>7, <1>8, <1>9, <1>10, <1>11, <1>12 DEF Next, Environment, RemoveStep

\* IInv is inductive.
LEMMA NextIInv == IInv /\ [Next]_vars => IInv'
<1>1. TypeOK => Shape /\ Call
  BY DEF TypeOK, Shape, Call
<1> QED
  BY <1>1, ProgressStep, TablesStep, TypeStep, RemovalStep DEF IInv

\* The inductive invariant holds in every behaviour of SetupVNI and RemoveNonConfiguredVNIs.
THEOREM Invariance == Spec => []IInv
  BY InitIInv, NextIInv, PTL DEF Spec

\* The variables keep their types.
THEOREM TypeCorrect == Spec => []TypeOK
<1>1. IInv => TypeOK
  BY DEF IInv
<1> QED
  BY Invariance, <1>1, PTL

\* SetupVNI returns without error only with the VNI's host leg, VRF, bridge and
\* VXLAN as its parameters say, the PE leg too if its index designates it when the
\* call configures it, and the bridge in the VRF if the call created it.
THEOREM ReadySafe == Spec => []VNIReady
<1>1. ASSUME IInv, pc = "done"
      PROVE  /\ VrfReady(par, target) /\ BridgeReady(par, target) /\ VxlanReady(par, target)
             /\ veth[par.vrf].kind = "veth" => HostLegReady(par)
             /\ peVeth = Leg(par.vrf) => PELegReady(par, target)
             /\ made => BridgeInVrf(par, target)
  <2>1. /\ pc \in PastBridge /\ pc \in PastMaster /\ pc \in PastVeth /\ pc \in PastPeer
        /\ pc # "brmaster" /\ pc \in SetupSteps
    BY <1>1 DEF PastBridge, PastMaster, PastVeth, PastPeer, SetupSteps
  <2>2. par.vrf \in Vrf
    BY <1>1, <2>1 DEF IInv, TypeOK, Params
  <2>3. HostProgress /\ PeerProgress /\ VrfProgress /\ BridgeProgress /\ VxlanProgress
    BY <1>1 DEF IInv, Progress
  <2>4. VrfReady(par, target) /\ BridgeReady(par, target) /\ (made => BridgeInVrf(par, target))
    BY <2>1, <2>3, Zenon DEF VrfProgress, BridgeProgress, VrfReady, BridgeReady, BridgeInVrf
  <2>5. VxlanReady(par, target)
    BY <1>1, <2>3 DEF VxlanProgress, VxlanReady, CheckVXLanConfigured
  <2>6. veth[par.vrf].kind = "veth" => HostLegReady(par)
    BY <2>1, <2>3, Zenon DEF HostProgress, HostLegReady
  <2>7. peVeth = Leg(par.vrf) => PELegReady(par, target)
    BY <2>1, <2>2, <2>3, Zenon DEF PeerProgress, PeerThere, PeerDone, PELegReady
  <2>8. QED
    BY <2>4, <2>5, <2>6, <2>7
<1>2. IInv => VNIReady
  BY <1>1 DEF VNIReady
<1> QED
  BY Invariance, <1>2, PTL

\* findFreeRoutingTableID never lets two VRFs of a namespace share a table.
THEOREM TablesSafe == Spec => []TablesDistinct
<1>1. IInv => TablesDistinct
  BY DEF IInv
<1> QED
  BY Invariance, <1>1, PTL

\* RemoveNonConfiguredVNIs returns without error only when it left no link of a
\* VNI that is not configured.
THEOREM RemovalSafe == Spec => []RemovedAll
<1>1. IInv => RemovedAll
  BY DEF IInv, RemovalProgress, RemovedAll
<1> QED
  BY Invariance, <1>1, PTL

\* A value that is already set is not changed by setting it again.
LEMMA SetAgain ==
    /\ \A l \in VethLink :
          /\ \A i \in l.hostIPs : [l EXCEPT !.hostIPs = @ \cup {i}] = l
          /\ \A i \in l.peIPs : [l EXCEPT !.peIPs = @ \cup {i}] = l
          /\ l.hostUp => [l EXCEPT !.hostUp = TRUE] = l
          /\ l.peUp => [l EXCEPT !.peUp = TRUE] = l
          /\ [l EXCEPT !.master = l.master] = l
    /\ \A l \in VrfLink : l.up => [l EXCEPT !.up = TRUE] = l
    /\ \A l \in BridgeLink :
          /\ l.genNone => [l EXCEPT !.genNone = TRUE] = l
          /\ l.up => [l EXCEPT !.up = TRUE] = l
          /\ [l EXCEPT !.master = l.master] = l
    /\ \A l \in VxlanLink :
          /\ l.inBridge => [l EXCEPT !.inBridge = TRUE] = l
          /\ l.genNone => [l EXCEPT !.genNone = TRUE] = l
          /\ l.suppress => [l EXCEPT !.suppress = TRUE] = l
          /\ l.up => [l EXCEPT !.up = TRUE] = l
<1>1. ASSUME NEW l \in VethLink, NEW i \in l.hostIPs PROVE [l EXCEPT !.hostIPs = @ \cup {i}] = l
  BY <1>1 DEF VethLink
<1>2. ASSUME NEW l \in VethLink, NEW i \in l.peIPs PROVE [l EXCEPT !.peIPs = @ \cup {i}] = l
  BY <1>2 DEF VethLink
<1>3. ASSUME NEW l \in VethLink, l.hostUp PROVE [l EXCEPT !.hostUp = TRUE] = l
  BY <1>3 DEF VethLink
<1>4. ASSUME NEW l \in VethLink, l.peUp PROVE [l EXCEPT !.peUp = TRUE] = l
  BY <1>4 DEF VethLink
<1>5. ASSUME NEW l \in VethLink PROVE [l EXCEPT !.master = l.master] = l
  BY <1>5 DEF VethLink
<1>6. ASSUME NEW l \in VrfLink, l.up PROVE [l EXCEPT !.up = TRUE] = l
  BY <1>6 DEF VrfLink
<1>7. ASSUME NEW l \in BridgeLink
      PROVE  /\ l.genNone => [l EXCEPT !.genNone = TRUE] = l
             /\ l.up => [l EXCEPT !.up = TRUE] = l
             /\ [l EXCEPT !.master = l.master] = l
  BY <1>7 DEF BridgeLink
<1>8. ASSUME NEW l \in VxlanLink
      PROVE  /\ l.inBridge => [l EXCEPT !.inBridge = TRUE] = l
             /\ l.genNone => [l EXCEPT !.genNone = TRUE] = l
             /\ l.suppress => [l EXCEPT !.suppress = TRUE] = l
             /\ l.up => [l EXCEPT !.up = TRUE] = l
  BY <1>8 DEF VxlanLink
<1> QED
  BY <1>1, <1>2, <1>3, <1>4, <1>5, <1>6, <1>7, <1>8

\* Putting a link where it is changes nothing.
LEMMA PutSame ==
    ASSUME Shape, NEW s \in NS, NEW r \in Vrf, NEW v \in Vni
    PROVE  /\ [veth EXCEPT ![r] = veth[r]] = veth
           /\ [vrf EXCEPT ![s][r] = vrf[s][r]] = vrf
           /\ [bridge EXCEPT ![s][v] = bridge[s][v]] = bridge
           /\ [vxlan EXCEPT ![s][v] = vxlan[s][v]] = vxlan
<1>1. [veth EXCEPT ![r] = veth[r]] = veth
  BY DEF Shape
<1>2. [vrf EXCEPT ![s][r] = vrf[s][r]] = vrf
  BY DEF Shape
<1>3. [bridge EXCEPT ![s][v] = bridge[s][v]] = bridge
  BY DEF Shape
<1>4. [vxlan EXCEPT ![s][v] = vxlan[s][v]] = vxlan
  BY DEF Shape
<1> QED
  BY <1>1, <1>2, <1>3, <1>4

\* SetupVNI changes nothing of a VNI that is configured.
THEOREM Idempotent == Spec => RepeatChangesNothing
<1>1. ASSUME IInv, SetupStep, Configured(par, target) PROVE UNCHANGED links
  <2>1. Shape /\ pc \in SetupSteps /\ par.vrf \in Vrf /\ par.vni \in Vni /\ target \in NS
    <3>1. pc \in SetupSteps
      BY <1>1, Zenon DEF SetupStep, FindVeth, MovePeer, AssignHostIP, HostLegUp, AssignNSIP, PELegUp,
         EnslavePELeg, SetupVRF, VRFUp, SetupBridge, EnslaveBridge, BridgeGenNone, BridgeUp, SetupVXLan,
         EnslaveVXLan, VXLanGenNone, SetNeighSuppression, VXLanUp, SetupSteps
    <3> QED
      BY <1>1, <3>1 DEF IInv, TypeOK, Shape, SetupSteps, Params
  <2> DEFINE l == veth[par.vrf]
             r == vrf[target][par.vrf]
             b == bridge[target][par.vni]
             x == vxlan[target][par.vni]
  <2>2. l \in VethLink /\ l.kind = "veth" /\ l.pe = target /\ par.hostIP \in l.hostIPs /\ l.hostUp
        /\ par.nsIP \in l.peIPs /\ l.peUp /\ l.master = par.vrf
    BY <1>1, <2>1, Kinds DEF Configured, Ready, HostLegReady, PELegReady, Shape
  <2>3. r \in VrfLink /\ r.kind = "vrf" /\ r.up
    BY <1>1, <2>1, Kinds DEF Configured, Ready, VrfReady, Shape
  <2>4. b \in BridgeLink /\ b.kind = "bridge" /\ b.genNone /\ b.up /\ b.master = par.vrf
    BY <1>1, <2>1, Kinds DEF Configured, Ready, BridgeReady, BridgeInVrf, Shape
  <2>5. x \in VxlanLink /\ x.kind = "vxlan" /\ x.genNone /\ x.suppress /\ x.up
        /\ CheckVXLanConfigured(x, par)
    BY <1>1, <2>1, Kinds DEF Configured, Ready, VxlanReady, Shape
  <2>6. CASE FindVeth \/ MovePeer
    <3>1. l # NoLink /\ l # Other
      BY <2>2 DEF NoLink, Other
    <3>2. l.pe # Host
      BY <2>1, <2>2, HostAssumption
    <3>3. CASE FindVeth
      BY <3>1, <3>3, Zenon DEF FindVeth
    <3>4. CASE MovePeer
      BY <2>2, <3>2, <3>4, Zenon DEF MovePeer
    <3>5. QED
      BY <2>6, <3>3, <3>4
  <2>7. CASE AssignHostIP
    <3>1. [veth[par.vrf] EXCEPT !.hostIPs = @ \cup {par.hostIP}] = veth[par.vrf]
      BY <2>2, SetAgain
    <3>2. veth' = [veth EXCEPT ![par.vrf] = veth[par.vrf]] /\ OnlyVeth
      BY <2>2, <2>7, <3>1 DEF AssignHostIP
    <3>3. QED
      BY <2>1, <3>2, PutSame DEF OnlyVeth, links
  <2>8. CASE HostLegUp
    <3>1. [veth[par.vrf] EXCEPT !.hostUp = TRUE] = veth[par.vrf]
      BY <2>2, SetAgain
    <3>2. veth' = [veth EXCEPT ![par.vrf] = veth[par.vrf]] /\ OnlyVeth
      BY <2>2, <2>8, <3>1 DEF HostLegUp
    <3>3. QED
      BY <2>1, <3>2, PutSame DEF OnlyVeth, links
  <2>9. ASSUME pc \in PastPeer
        PROVE  /\ \A q \in Vrf : peVeth = Leg(q) <=> q = par.vrf
               /\ \A q \in Vrf : peVeth # <<"vrf", q>>
               /\ \A v \in Vni : peVeth # <<"bridge", v>> /\ peVeth # <<"vxlan", v>>
    <3>1. peVeth = Leg(par.vrf)
      BY <1>1, <2>2, <2>9 DEF IInv, Progress, PeerProgress, PeerMissed
    <3>2. QED
      BY <3>1 DEF Leg
  <2>10. CASE AssignNSIP
    <3>1. [veth[par.vrf] EXCEPT !.peIPs = @ \cup {par.nsIP}] = veth[par.vrf]
      BY <2>2, SetAgain
    <3>2. pc \in PastPeer
      BY <2>10 DEF AssignNSIP, PastPeer
    <3>3. veth' = [q \in Vrf |-> veth[q]] /\ OnlyVeth
      BY <2>9, <2>10, <3>1, <3>2 DEF AssignNSIP
    <3>4. QED
      BY <2>1, <3>3 DEF OnlyVeth, links, Shape
  <2>11. CASE PELegUp
    <3>1. [veth[par.vrf] EXCEPT !.peUp = TRUE] = veth[par.vrf]
      BY <2>2, SetAgain
    <3>2. pc \in PastPeer
      BY <2>11 DEF PELegUp, PastPeer
    <3>3. veth' = [q \in Vrf |-> veth[q]]
      BY <2>9, <2>11, <3>1, <3>2 DEF PELegUp
    <3>4. /\ vrf' = [vrf EXCEPT ![target] = [q \in Vrf |-> vrf[target][q]]]
          /\ bridge' = [bridge EXCEPT ![target] = [v \in Vni |-> bridge[target][v]]]
          /\ vxlan' = [vxlan EXCEPT ![target] = [v \in Vni |-> vxlan[target][v]]]
      BY <2>9, <2>11, <3>2 DEF PELegUp
    <3>5. QED
      BY <2>1, <3>3, <3>4 DEF links, Shape
  <2>12. CASE EnslavePELeg
    <3>1. [veth[par.vrf] EXCEPT !.master = par.vrf] = veth[par.vrf]
      BY <2>2, SetAgain
    <3>2. pc \in PastPeer
      BY <2>12 DEF EnslavePELeg, PastPeer, PastVeth
    <3>3. CASE UNCHANGED links
      BY <3>3
    <3>4. CASE ~UNCHANGED links
      <4>1. veth' = [q \in Vrf |-> veth[q]]
        BY <2>9, <2>12, <3>1, <3>2, <3>4 DEF EnslavePELeg
      <4>2. /\ bridge' = [bridge EXCEPT ![target] = [v \in Vni |-> bridge[target][v]]]
            /\ vxlan' = [vxlan EXCEPT ![target] = [v \in Vni |-> vxlan[target][v]]]
            /\ UNCHANGED vrf
        BY <2>9, <2>12, <3>2, <3>4 DEF EnslavePELeg
      <4>3. QED
        BY <2>1, <4>1, <4>2 DEF links, Shape
    <3>5. QED
      BY <3>3, <3>4
  <2>13. CASE VRFUp
    <3>1. [vrf[target][par.vrf] EXCEPT !.up = TRUE] = vrf[target][par.vrf]
      BY <2>3, SetAgain
    <3>2. vrf' = [vrf EXCEPT ![target][par.vrf] = vrf[target][par.vrf]]
      BY <2>13, <3>1 DEF VRFUp
    <3> QED
      BY <2>1, <2>13, <3>2, PutSame DEF VRFUp, OnlyVrf, links
  <2>14. CASE BridgeGenNone
    <3>1. [bridge[target][par.vni] EXCEPT !.genNone = TRUE] = bridge[target][par.vni]
      BY <2>4, SetAgain
    <3>2. bridge' = [bridge EXCEPT ![target][par.vni] = bridge[target][par.vni]]
      BY <2>14, <3>1 DEF BridgeGenNone
    <3> QED
      BY <2>1, <2>14, <3>2, PutSame DEF BridgeGenNone, OnlyBridge, links
  <2>15. CASE BridgeUp
    <3>1. [bridge[target][par.vni] EXCEPT !.up = TRUE] = bridge[target][par.vni]
      BY <2>4, SetAgain
    <3>2. bridge' = [bridge EXCEPT ![target][par.vni] = bridge[target][par.vni]]
      BY <2>15, <3>1 DEF BridgeUp
    <3> QED
      BY <2>1, <2>15, <3>2, PutSame DEF BridgeUp, OnlyBridge, links
  <2>16. CASE VXLanGenNone
    <3>1. [vxlan[target][par.vni] EXCEPT !.genNone = TRUE] = vxlan[target][par.vni]
      BY <2>5, SetAgain
    <3>2. vxlan' = [vxlan EXCEPT ![target][par.vni] = vxlan[target][par.vni]]
      BY <2>16, <3>1 DEF VXLanGenNone
    <3> QED
      BY <2>1, <2>16, <3>2, PutSame DEF VXLanGenNone, OnlyVxlan, links
  <2>17. CASE SetNeighSuppression
    <3>1. [vxlan[target][par.vni] EXCEPT !.suppress = TRUE] = vxlan[target][par.vni]
      BY <2>5, SetAgain
    <3>2. vxlan' = [vxlan EXCEPT ![target][par.vni] = vxlan[target][par.vni]]
      BY <2>17, <3>1 DEF SetNeighSuppression
    <3> QED
      BY <2>1, <2>17, <3>2, PutSame DEF SetNeighSuppression, OnlyVxlan, links
  <2>18. CASE VXLanUp
    <3>1. [vxlan[target][par.vni] EXCEPT !.up = TRUE] = vxlan[target][par.vni]
      BY <2>5, SetAgain
    <3>2. vxlan' = [vxlan EXCEPT ![target][par.vni] = vxlan[target][par.vni]]
      BY <2>18, <3>1 DEF VXLanUp
    <3> QED
      BY <2>1, <2>18, <3>2, PutSame DEF VXLanUp, OnlyVxlan, links
  <2>19. CASE SetupVRF \/ SetupBridge \/ SetupVXLan
    <3>1. r # NoLink /\ r # Other
      BY <2>3 DEF NoLink, Other
    <3>2. b # NoLink /\ b # Other
      BY <2>4 DEF NoLink, Other
    <3>3. x # NoLink /\ x # Other
      BY <2>5 DEF NoLink, Other
    <3>4. CASE SetupVRF
      BY <3>1, <3>4, Zenon DEF SetupVRF
    <3>5. CASE SetupBridge
      BY <3>2, <3>5, Zenon DEF SetupBridge
    <3>6. CASE SetupVXLan
      BY <2>5, <3>3, <3>6, Zenon DEF SetupVXLan
    <3> QED
      BY <2>19, <3>4, <3>5, <3>6
  <2>20. CASE EnslaveBridge
    <3>1. [bridge[target][par.vni] EXCEPT !.master = par.vrf] = bridge[target][par.vni]
      BY <2>4, SetAgain
    <3>2. bridge' = [bridge EXCEPT ![target][par.vni] = bridge[target][par.vni]]
      BY <2>20, <3>1 DEF EnslaveBridge
    <3> QED
      BY <2>1, <2>20, <3>2, PutSame DEF EnslaveBridge, OnlyBridge, links
  <2>21. CASE EnslaveVXLan
    <3>1. [vxlan[target][par.vni] EXCEPT !.inBridge = TRUE] = vxlan[target][par.vni]
      BY <2>5, SetAgain DEF CheckVXLanConfigured
    <3>2. vxlan' = [vxlan EXCEPT ![target][par.vni] = vxlan[target][par.vni]]
      BY <2>21, <3>1 DEF EnslaveVXLan
    <3> QED
      BY <2>1, <2>21, <3>2, PutSame DEF EnslaveVXLan, OnlyVxlan, links
  <2> QED
    BY <1>1, <2>6, <2>7, <2>8, <2>10, <2>11, <2>12, <2>13, <2>14, <2>15, <2>16, <2>17, <2>18, <2>19,
       <2>20, <2>21, Zenon DEF SetupStep
<1>2. IInv /\ [Next]_vars => [SetupStep /\ Configured(par, target) => UNCHANGED links]_vars
  BY <1>1
<1> QED
  BY Invariance, <1>2, PTL DEF Spec, RepeatChangesNothing

\* RemoveNonConfiguredVNIs, step by step, leaves every configured VNI working.
THEOREM RemovalSpares == Spec => RemovalSparesConfigured
<1>1. ASSUME IInv, NEW p \in keep, RemoveStep, Configured(p, target)
      PROVE  Configured(p, target)'
  <2>1. Shape /\ target \in NS /\ p \in Params /\ p.vrf \in Vrf /\ p.vni \in Vni
    <3>1. target \in NS /\ p \in Params
      BY <1>1 DEF IInv, TypeOK, RemoveStep, RemoveHostLegs, ClearVXLans, ClearBridges, RemoveVRFs
    <3> QED
      BY <1>1, <3>1 DEF IInv, TypeOK, Shape, Params
  <2>2. target' = target /\ p.vrf \in KeptVrfs /\ p.vni \in KeptVnis
    BY <1>1 DEF RemoveStep, RemoveHostLegs, ClearVXLans, ClearBridges, RemoveVRFs, Goto, KeptVrfs, KeptVnis
  <2>3. /\ veth'[p.vrf] = veth[p.vrf]
        /\ vrf'[target][p.vrf] = vrf[target][p.vrf]
        /\ bridge'[target][p.vni] = bridge[target][p.vni]
        /\ vxlan'[target][p.vni] = vxlan[target][p.vni]
    <3>1. CASE RemoveHostLegs
      BY <2>1, <2>2, <3>1 DEF RemoveHostLegs, StaleLegs, DelVeth, links, Shape
    <3>2. CASE ClearVXLans
      BY <2>1, <2>2, <3>2 DEF ClearVXLans, StaleVxlans, DelVxlan, links, Shape
    <3>3. CASE ClearBridges
      BY <2>1, <2>2, <3>3 DEF ClearBridges, StaleBridges, DelBridge, links, Shape
    <3>4. CASE RemoveVRFs
      BY <1>1, <2>1, <2>2, <3>4 DEF RemoveVRFs, StaleVrfs, DelVrf, links, Shape,
         Configured, Ready, PELegReady, BridgeInVrf
    <3> QED
      BY <1>1, <3>1, <3>2, <3>3, <3>4 DEF RemoveStep
  <2> QED
    BY <1>1, <2>2, <2>3 DEF Configured, Ready, HostLegReady, PELegReady, VrfReady, BridgeReady,
       VxlanReady, BridgeInVrf, CheckVXLanConfigured
<1>2. IInv /\ [Next]_vars
      => [\A p \in keep : RemoveStep /\ Configured(p, target) => Configured(p, target)']_vars
  BY <1>1
<1> QED
  BY Invariance, <1>2, PTL DEF Spec, RemovalSparesConfigured

(***************************************************************************)
(* Calls end.  SetupVNI deletes a link it cannot use and looks for it      *)
(* again, so that it may stay at a step, but only once.  A removal stays   *)
(* at a step as long as there is a link left to delete.                    *)
(***************************************************************************)
Left == [veth |-> 19, peer |-> 18, hostip |-> 17, hostup |-> 16, nsip |-> 15, peup |-> 14, vrf |-> 13,
         vrfup |-> 12, master |-> 11, bridge |-> 10, brmaster |-> 9, brgen |-> 8, brup |-> 7, vxlan |-> 6,
         vxmaster |-> 5, vxgen |-> 4, vxneigh |-> 3, vxup |-> 2, done |-> 1, idle |-> 0]

RemovalLeft == [rmveth |-> 5, rmvxlan |-> 4, rmbridge |-> 3, rmvrf |-> 2, removed |-> 1]

\* The link the next step looks for is there and has to be deleted first.
Unusable ==
    \/ pc = "veth" /\ veth[par.vrf] = Other
    \/ pc = "vrf" /\ vrf[target][par.vrf] = Other
    \/ pc = "bridge" /\ bridge[target][par.vni] = Other
    \/ pc = "vxlan" /\ \/ vxlan[target][par.vni] = Other
                       \/ /\ vxlan[target][par.vni].kind = "vxlan"
                          /\ ~CheckVXLanConfigured(vxlan[target][par.vni], par)

stale == <<StaleLegs, StaleVxlans, StaleBridges, StaleVrfs>>
NoneAdded ==
    /\ StaleLegs' \subseteq StaleLegs /\ StaleVxlans' \subseteq StaleVxlans
    /\ StaleBridges' \subseteq StaleBridges /\ StaleVrfs' \subseteq StaleVrfs

SetupNearer   == Left[pc'] < Left[pc] \/ (pc' = pc /\ Unusable /\ ~Unusable')
RemovalNearer == RemovalLeft[pc'] < RemovalLeft[pc] \/ (pc' = pc /\ NoneAdded /\ stale' # stale)
NotSetBack    == pc' = pc /\ (Unusable' => Unusable) /\ (pc \in RemoveSteps => NoneAdded)

\* Every netlink request of SetupVNI and of RemoveNonConfiguredVNIs brings the call
\* nearer to its end, and nothing that happens meanwhile to pods, namespaces or the
\* API sets it back.  In particular SetupVNI deletes a link it cannot use only once.
CallsAdvance ==
    [][/\ SetupStep => SetupNearer
       /\ RemoveStep => RemovalNearer
       /\ pc # "idle" => SetupStep \/ RemoveStep \/ pc' = "idle" \/ NotSetBack]_vars

\* The steps of SetupVNI, in their order, and the steps at which it returns an error.
LEMMA LeftOrder ==
    /\ Left["peer"] < Left["veth"] /\ Left["hostip"] < Left["peer"] /\ Left["hostup"] < Left["hostip"]
    /\ Left["nsip"] < Left["hostup"] /\ Left["peup"] < Left["nsip"] /\ Left["vrf"] < Left["peup"]
    /\ Left["vrfup"] < Left["vrf"] /\ Left["master"] < Left["vrfup"] /\ Left["bridge"] < Left["master"]
    /\ Left["brmaster"] < Left["bridge"] /\ Left["brgen"] < Left["bridge"] /\ Left["brgen"] < Left["brmaster"]
    /\ Left["brup"] < Left["brgen"] /\ Left["vxlan"] < Left["brup"]
    /\ Left["vxmaster"] < Left["vxlan"] /\ Left["vxgen"] < Left["vxlan"] /\ Left["vxgen"] < Left["vxmaster"]
    /\ Left["vxneigh"] < Left["vxgen"] /\ Left["vxup"] < Left["vxneigh"] /\ Left["done"] < Left["vxup"]
    /\ Left["idle"] < Left["peer"] /\ Left["idle"] < Left["hostip"] /\ Left["idle"] < Left["hostup"]
    /\ Left["idle"] < Left["vrf"] /\ Left["idle"] < Left["master"] /\ Left["idle"] < Left["vxlan"]
<1>1. /\ Left["veth"] = 19 /\ Left["peer"] = 18 /\ Left["hostip"] = 17 /\ Left["hostup"] = 16
      /\ Left["nsip"] = 15 /\ Left["peup"] = 14 /\ Left["vrf"] = 13 /\ Left["vrfup"] = 12
      /\ Left["master"] = 11 /\ Left["bridge"] = 10 /\ Left["brmaster"] = 9 /\ Left["brgen"] = 8
      /\ Left["brup"] = 7 /\ Left["vxlan"] = 6 /\ Left["vxmaster"] = 5 /\ Left["vxgen"] = 4
      /\ Left["vxneigh"] = 3 /\ Left["vxup"] = 2 /\ Left["done"] = 1 /\ Left["idle"] = 0
  BY DEF Left
<1>2. QED
  BY <1>1

\* A step of SetupVNI brings the call nearer to its end.
LEMMA SetupAdvances ==
    ASSUME Shape, Call, SetupStep
    PROVE  SetupNearer
<1>1. pc \in SetupSteps /\ pc' \in SetupSteps \cup {"idle"}
  BY Zenon DEF SetupStep, FindVeth, MovePeer, FoundAs, AssignHostIP, HostLegUp, AssignNSIP, PELegUp,
         EnslavePELeg, SetupVRF, VRFUp, SetupBridge, CreateBridge, EnslaveBridge, BridgeGenNone, BridgeUp,
         SetupVXLan, EnslaveVXLan, VXLanGenNone, SetNeighSuppression, VXLanUp, Goto, EndCall, SetupSteps
<1>2. target \in NS /\ par.vrf \in Vrf /\ par.vni \in Vni
  BY <1>1 DEF Call, Params, SetupSteps
<1>3. CASE pc' # pc
  <2>1. Left[pc'] < Left[pc]
    <3> USE LeftOrder DEF Goto, EndCall
    <3>1. CASE FindVeth \/ MovePeer
      BY <1>3, <3>1, Zenon DEF FindVeth, MovePeer, FoundAs
    <3>2. CASE AssignHostIP \/ HostLegUp \/ AssignNSIP \/ PELegUp \/ EnslavePELeg
      BY <3>2, Zenon DEF AssignHostIP, HostLegUp, AssignNSIP, PELegUp, EnslavePELeg
    <3>3. CASE SetupVRF \/ VRFUp
      BY <1>3, <3>3, Zenon DEF SetupVRF, VRFUp
    <3>4. CASE SetupBridge \/ EnslaveBridge \/ BridgeGenNone \/ BridgeUp
      BY <1>3, <3>4, Zenon DEF SetupBridge, CreateBridge, EnslaveBridge, BridgeGenNone, BridgeUp
    <3>5. CASE SetupVXLan \/ EnslaveVXLan \/ VXLanGenNone \/ SetNeighSuppression \/ VXLanUp
      BY <1>3, <3>5, Zenon DEF SetupVXLan, EnslaveVXLan, VXLanGenNone, SetNeighSuppression, VXLanUp
    <3> QED
      BY <3>1, <3>2, <3>3, <3>4, <3>5, Zenon DEF SetupStep
  <2> QED
    BY <2>1 DEF SetupNearer
<1>4. CASE pc' = pc
  <2>1. FindVeth \/ SetupVRF \/ SetupBridge \/ SetupVXLan
    BY <1>4, Zenon DEF SetupStep, MovePeer, FoundAs, AssignHostIP, HostLegUp, AssignNSIP, PELegUp,
         EnslavePELeg, VRFUp, EnslaveBridge, BridgeGenNone, BridgeUp, EnslaveVXLan, VXLanGenNone,
         SetNeighSuppression, VXLanUp, Goto, EndCall
  <2>2. Unusable
    BY <1>4, <2>1, Zenon DEF FindVeth, SetupVRF, SetupBridge, CreateBridge, SetupVXLan, Goto, EndCall, Unusable
  <2>3. ~Unusable'
    <3>1. NoLink # Other /\ NoLink.kind # "vxlan"
      BY DEF NoLink, Other
    <3>2. par' = par /\ target' = target
      BY <1>4, <2>1, Zenon DEF FindVeth, SetupVRF, SetupBridge, CreateBridge, SetupVXLan, Goto, EndCall
    <3>3. CASE FindVeth
      <4>1. pc' = "veth" /\ veth' = [veth EXCEPT ![par.vrf] = NoLink]
        BY <1>4, <3>3 DEF FindVeth, DelVeth, Goto
      <4>2. veth'[par'.vrf] = NoLink
        BY <1>2, <3>2, <4>1 DEF Shape
      <4> QED
        BY <3>1, <4>1, <4>2, Zenon DEF Unusable
    <3>4. CASE SetupVRF
      <4>1. pc' = "vrf" /\ vrf' = [vrf EXCEPT ![target][par.vrf] = NoLink]
        BY <1>4, <3>4 DEF SetupVRF, Goto, EndCall
      <4>2. vrf'[target'][par'.vrf] = NoLink
        BY <1>2, <3>2, <4>1 DEF Shape
      <4> QED
        BY <3>1, <4>1, <4>2, Zenon DEF Unusable
    <3>5. CASE SetupBridge
      <4>1. pc' = "bridge" /\ bridge' = [bridge EXCEPT ![target][par.vni] = NoLink]
        BY <1>4, <3>5 DEF SetupBridge, CreateBridge, Goto
      <4>2. bridge'[target'][par'.vni] = NoLink
        BY <1>2, <3>2, <4>1 DEF Shape
      <4> QED
        BY <3>1, <4>1, <4>2, Zenon DEF Unusable
    <3>6. CASE SetupVXLan
      <4>1. pc' = "vxlan" /\ vxlan' = [vxlan EXCEPT ![target][par.vni] = NoLink]
        BY <1>4, <3>6 DEF SetupVXLan, DelVxlan, Goto, EndCall
      <4>2. vxlan'[target'][par'.vni] = NoLink
        BY <1>2, <3>2, <4>1 DEF Shape
      <4> QED
        BY <3>1, <4>1, <4>2, Zenon DEF Unusable
    <3> QED
      BY <2>1, <3>3, <3>4, <3>5, <3>6, Zenon
  <2> QED
    BY <1>4, <2>2, <2>3, Zenon DEF SetupNearer
<1> QED
  BY <1>3, <1>4

\* A step of RemoveNonConfiguredVNIs deletes a stale link or goes on to the next kind.
LEMMA RemovalAdvances ==
    ASSUME Shape, Call, RemoveStep
    PROVE  RemovalNearer
<1>1. target \in NS /\ UNCHANGED <<target, keep>>
  BY DEF Call, RemoveStep, RemoveHostLegs, ClearVXLans, ClearBridges, RemoveVRFs, Goto
<1>2. CASE pc' # pc
  <2>1. \/ pc = "rmveth" /\ pc' = "rmvxlan"
        \/ pc = "rmvxlan" /\ pc' = "rmbridge"
        \/ pc = "rmbridge" /\ pc' = "rmvrf"
        \/ pc = "rmvrf" /\ pc' = "removed"
    BY <1>2, Zenon DEF RemoveStep, RemoveHostLegs, ClearVXLans, ClearBridges, RemoveVRFs, Goto
  <2>2. /\ RemovalLeft["rmvxlan"] < RemovalLeft["rmveth"] /\ RemovalLeft["rmbridge"] < RemovalLeft["rmvxlan"]
        /\ RemovalLeft["rmvrf"] < RemovalLeft["rmbridge"] /\ RemovalLeft["removed"] < RemovalLeft["rmvrf"]
    BY DEF RemovalLeft
  <2> QED
    BY <2>1, <2>2, Zenon DEF RemovalNearer
<1> USE DEF Shape, NoneAdded, StaleLegs, StaleVxlans, StaleBridges, StaleVrfs, KeptVrfs, KeptVnis, NoLink
<1>3. CASE RemoveHostLegs /\ pc' = pc
  <2>1. PICK r \in StaleLegs : DelVeth(r)
    BY <1>3 DEF RemoveHostLegs, Goto
  <2>2. NoneAdded /\ r \notin StaleLegs'
    BY <1>1, <2>1 DEF DelVeth
  <2> QED
    BY <1>3, <2>1, <2>2, Zenon DEF RemovalNearer, stale
<1>4. CASE ClearVXLans /\ pc' = pc
  <2>1. PICK v \in StaleVxlans : DelVxlan(target, v)
    BY <1>4 DEF ClearVXLans, Goto
  <2>2. NoneAdded /\ v \notin StaleVxlans'
    BY <1>1, <2>1 DEF DelVxlan
  <2> QED
    BY <1>4, <2>1, <2>2, Zenon DEF RemovalNearer, stale
<1>5. CASE ClearBridges /\ pc' = pc
  <2>1. PICK v \in StaleBridges : DelBridge(target, v)
    BY <1>5 DEF ClearBridges, Goto
  <2>2. NoneAdded /\ v \notin StaleBridges'
    BY <1>1, <2>1 DEF DelBridge
  <2> QED
    BY <1>5, <2>1, <2>2, Zenon DEF RemovalNearer, stale
<1>6. CASE RemoveVRFs /\ pc' = pc
  <2>1. PICK r \in StaleVrfs : DelVrf(target, r)
    BY <1>6 DEF RemoveVRFs, Goto
  <2>2. NoneAdded /\ r \notin StaleVrfs'
    BY <1>1, <2>1 DEF DelVrf
  <2> QED
    BY <1>6, <2>1, <2>2, Zenon DEF RemovalNearer, stale
<1> QED
  BY <1>2, <1>3, <1>4, <1>5, <1>6, Zenon DEF RemoveStep

\* What others do during a call leaves it where it is, with no more to do.
LEMMA OthersDoNotDelay ==
    ASSUME Shape, Call, Environment, pc # "idle"
    PROVE  NotSetBack
<1>1. CASE UNCHANGED <<links, call>>
  BY <1>1 DEF NotSetBack, NoneAdded, Unusable, StaleLegs, StaleVxlans, StaleBridges, StaleVrfs,
     KeptVrfs, KeptVnis, links, call
<1>2. ASSUME NEW s \in NS, NamespaceDestroyed(s) PROVE NotSetBack
  <2>1. UNCHANGED call /\ target \in NS /\ target # s
    BY <1>2 DEF NamespaceDestroyed, Call
  <2>2. vrf'[target] = vrf[target] /\ bridge'[target] = bridge[target] /\ vxlan'[target] = vxlan[target]
    BY <1>2, <2>1 DEF NamespaceDestroyed, Shape
  <2>3. \A r \in Vrf : veth'[r] = veth[r] \/ (veth'[r] = NoLink /\ veth[r].kind = "veth")
    BY <1>2 DEF NamespaceDestroyed
  <2>4. NoneAdded
    <3>1. KeptVrfs' = KeptVrfs /\ KeptVnis' = KeptVnis /\ target' = target
      BY <2>1 DEF KeptVrfs, KeptVnis, call
    <3>2. \A r \in Vrf : veth'[r].kind = "veth" => veth[r].kind = "veth"
      BY <2>3 DEF NoLink
    <3>3. StaleLegs' \subseteq StaleLegs
      BY <3>1, <3>2, Zenon DEF StaleLegs
    <3>4. StaleVxlans' = StaleVxlans /\ StaleBridges' = StaleBridges /\ StaleVrfs' = StaleVrfs
      BY <2>2, <3>1, Zenon DEF StaleVxlans, StaleBridges, StaleVrfs
    <3> QED
      BY <3>3, <3>4, Zenon DEF NoneAdded
  <2>5. Unusable' => Unusable
    <3>1. pc' = pc /\ par' = par /\ target' = target
      BY <2>1 DEF call
    <3>2. ASSUME pc = "veth", veth'[par.vrf] = Other PROVE veth[par.vrf] = Other
      <4>1. par.vrf \in Vrf
        BY <3>2 DEF Call, Params, SetupSteps
      <4>2. NoLink # Other
        BY DEF NoLink, Other
      <4> QED
        BY <2>3, <3>2, <4>1, <4>2, Zenon
    <3>3. CheckVXLanConfigured(vxlan[target][par.vni], par)' <=> CheckVXLanConfigured(vxlan[target][par.vni], par)
      BY <2>2, <3>1, Zenon DEF CheckVXLanConfigured
    <3> QED
      BY <2>2, <3>1, <3>2, <3>3, Zenon DEF Unusable
  <2> QED
    BY <2>1, <2>4, <2>5 DEF NotSetBack, call
<1> QED
  BY <1>1, <1>2 DEF Environment, ChangeVNIs, PodStarts, PodDies, LoopbackCreated, Touch

\* SetupVNI and, if there are finitely many links, RemoveNonConfiguredVNIs return
\* after finitely many requests, whatever links they find.
THEOREM CallsEnd == Spec => CallsAdvance
<1>1. IInv => Shape /\ Call
  BY DEF IInv, TypeOK, Shape, Call
<1>2. ASSUME IInv, Next, pc # "idle"
      PROVE  SetupStep \/ RemoveStep \/ pc' = "idle" \/ NotSetBack
  <2>1. CASE Environment
    BY <1>1, <1>2, <2>1, OthersDoNotDelay
  <2> QED
    BY <1>2, <2>1 DEF Next, SetupVNI, RemoveNonConfiguredVNIs, Return, Fail, Crash, EndCall
<1>3. IInv /\ [Next]_vars
      => [/\ SetupStep => SetupNearer
          /\ RemoveStep => RemovalNearer
          /\ pc # "idle" => SetupStep \/ RemoveStep \/ pc' = "idle" \/ NotSetBack]_vars
  BY <1>1, <1>2, SetupAdvances, RemovalAdvances, Zenon
<1> QED
  BY <1>3, Invariance, PTL DEF CallsAdvance, Spec

=============================================================================
