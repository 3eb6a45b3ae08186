--------------------------- MODULE UnderlayProofs ---------------------------
(***************************************************************************)
(* Proofs about SetupUnderlay, for any set of interfaces, addresses and    *)
(* namespaces and any number of failures, pod restarts and API changes.    *)
(***************************************************************************)
EXTENDS Underlay, TLAPS

(***************************************************************************)
(* What a call knows at each of its steps.                                 *)
(***************************************************************************)
\* The interface being taken back is another one, inside the namespace.
OldKnown ==
    pc \in {"unmark", "moveback"} =>
        old \in Nic /\ old # par.nic /\ where[old] = par.ns

\* The interface being moved is where the move takes it, and the marker is not
\* among the addresses to restore.
MoveKnown ==
    /\ pc \in {"linkup", "restore"} =>
          /\ mv \in Nic
          /\ where[mv] = IF mv = par.nic THEN par.ns ELSE Host
          /\ Special \notin saved
          /\ Special \notin addrs[mv]
    /\ pc \notin {"linkup", "restore"} => mv = NoNic
    /\ pc = "linkup" => mv \notin up

\* From the removal of the old marker to the new one, nothing is marked.
NoneMarked ==
    /\ pc = "unmark" => Marked(par.ns) \subseteq {old}
    /\ pc \in {"moveback", "move", "linkup", "restore", "mark"} => Marked(par.ns) = {}

\* What the steps already taken have established.
Progress ==
    /\ pc \notin {"idle", "loopback"} => par.ns \in lound
    /\ pc \notin {"idle", "loopback", "vtep"} => par.vtep \in vteps[par.ns]
    /\ pc \in {"mark", "setup", "done"} => where[par.nic] = par.ns
    /\ pc \in {"setup", "done"} => Special \in addrs[par.nic]

\* An unmarked interface inside a namespace is the one the call is working on,
\* or one that an earlier call left behind.
Busy(n) ==
    \/ pc = "moveback" /\ n = old
    \/ pc \in {"linkup", "restore"} /\ n = mv
    \/ pc = "mark" /\ n = par.nic

StraysKnown ==
    \A n \in Nic : where[n] \in NS /\ Special \notin addrs[n] => n \in stray \/ Busy(n)

IInv ==
    /\ TypeOK
    /\ OldKnown
    /\ MoveKnown
    /\ NoneMarked
    /\ Progress
    /\ MarkerIdentifies
    /\ AddressesFollow
    /\ StraysKnown

\* The marker is one of the addresses an interface may have.
LEMMA SpecialIsAddr == Special \in Addr
  BY DEF Addr

\* The initial states satisfy the inductive invariant.
LEMMA InitIInv == Init => IInv
  BY PlaceAssumption, NicAssumption, AddrAssumption, BoundAssumption
     DEF Init, IInv, TypeOK, OldKnown, MoveKnown, NoneMarked, Progress, MarkerIdentifies, AddressesFollow, StraysKnown, Busy, Marked, Inside, Addr, Params, Wanted, Steps

\* Every step of the call and of its environment preserves it.
LEMMA NextIInv == IInv /\ [Next]_vars => IInv'
<1> SUFFICES ASSUME IInv, [Next]_vars PROVE IInv'
  OBVIOUS
<1> USE PlaceAssumption, NicAssumption, AddrAssumption, BoundAssumption
    DEF IInv, TypeOK, OldKnown, MoveKnown, NoneMarked, Progress, MarkerIdentifies, AddressesFollow, StraysKnown, Busy, Marked, Inside, Params, Wanted, Steps, Keep, kernel, call
<1>1. CASE \E w \in Wanted : ChangeUnderlay(w)
  BY <1>1 DEF ChangeUnderlay
<1>2. CASE \E s \in NS : PodStarts(s)
  BY <1>2 DEF PodStarts
<1>3. CASE \E s \in NS : PodDies(s)
  BY <1>3 DEF PodDies
<1>4. CASE \E s \in NS : NamespaceDestroyed(s)
  <2>1. TypeOK'
    BY <1>4 DEF NamespaceDestroyed, Held
  <2>2. OldKnown'
    BY <1>4 DEF NamespaceDestroyed, Held
  <2>3. MoveKnown'
    BY <1>4 DEF NamespaceDestroyed, Held
  <2>4. NoneMarked'
    BY <1>4 DEF NamespaceDestroyed, Held
  <2>5. Progress'
    BY <1>4 DEF NamespaceDestroyed, Held
  <2>6. MarkerIdentifies'
    BY <1>4 DEF NamespaceDestroyed, Held
  <2>7. AddressesFollow'
    BY <1>4 DEF NamespaceDestroyed, Held
  <2>8. StraysKnown'
    BY <1>4 DEF NamespaceDestroyed, Held
  <2> QED
    BY <2>1, <2>2, <2>3, <2>4, <2>5, <2>6, <2>7, <2>8
<1>5. CASE SetupUnderlay
  BY <1>5 DEF SetupUnderlay
<1>6. CASE CreateLoopback
  BY <1>6 DEF CreateLoopback
<1>7. CASE AssignVtep
  BY <1>7 DEF AssignVtep
<1>8. CASE OldUnderlayInterface
  BY <1>8 DEF OldUnderlayInterface
<1>9. CASE RemoveSpecialAddr
  BY <1>9 DEF RemoveSpecialAddr
<1>10. CASE MoveOldNicBack
  <2>1. TypeOK'
    BY <1>10 DEF MoveOldNicBack, MoveLink
  <2>2. OldKnown'
    BY <1>10 DEF MoveOldNicBack, MoveLink
  <2>3. MoveKnown'
    BY <1>10 DEF MoveOldNicBack, MoveLink
  <2>4. NoneMarked'
    BY <1>10 DEF MoveOldNicBack, MoveLink
  <2>5. Progress'
    BY <1>10 DEF MoveOldNicBack, MoveLink
  <2>6. MarkerIdentifies'
    BY <1>10 DEF MoveOldNicBack, MoveLink
  <2>7. AddressesFollow'
    BY <1>10 DEF MoveOldNicBack, MoveLink
  <2>8. StraysKnown'
    BY <1>10 DEF MoveOldNicBack, MoveLink
  <2> QED
    BY <2>1, <2>2, <2>3, <2>4, <2>5, <2>6, <2>7, <2>8
<1>11. CASE NicAlreadyInNamespace
  BY <1>11 DEF NicAlreadyInNamespace
<1>12. CASE MoveNicToNamespace
  <2>1. TypeOK'
    BY <1>12 DEF MoveNicToNamespace, MoveLink
  <2>2. OldKnown'
    BY <1>12 DEF MoveNicToNamespace, MoveLink
  <2>3. MoveKnown'
    BY <1>12 DEF MoveNicToNamespace, MoveLink
  <2>4. NoneMarked'
    BY <1>12 DEF MoveNicToNamespace, MoveLink
  <2>5. Progress'
    BY <1>12 DEF MoveNicToNamespace, MoveLink
  <2>6. MarkerIdentifies'
    BY <1>12 DEF MoveNicToNamespace, MoveLink
  <2>7. AddressesFollow'
    BY <1>12 DEF MoveNicToNamespace, MoveLink
  <2>8. StraysKnown'
    BY <1>12 DEF MoveNicToNamespace, MoveLink
  <2> QED
    BY <2>1, <2>2, <2>3, <2>4, <2>5, <2>6, <2>7, <2>8
<1>13. CASE NicNotFound
  BY <1>13 DEF NicNotFound, EndCall
<1>14. CASE SetMovedLinkUp
  BY <1>14 DEF SetMovedLinkUp
<1>15. CASE \E a \in saved : RestoreAddress(a)
  BY <1>15 DEF RestoreAddress
<1>16. CASE AddressesRestored
  BY <1>16 DEF AddressesRestored
<1>17. CASE AssignSpecialAddr
  <2>1. TypeOK'
    BY <1>17, SpecialIsAddr DEF AssignSpecialAddr
  <2>2. OldKnown'
    BY <1>17 DEF AssignSpecialAddr
  <2>3. MoveKnown'
    BY <1>17 DEF AssignSpecialAddr
  <2>4. NoneMarked'
    BY <1>17 DEF AssignSpecialAddr
  <2>5. Progress'
    BY <1>17 DEF AssignSpecialAddr
  <2>6. MarkerIdentifies'
    BY <1>17 DEF AssignSpecialAddr
  <2>7. AddressesFollow'
    BY <1>17 DEF AssignSpecialAddr
  <2>8. StraysKnown'
    BY <1>17 DEF AssignSpecialAddr
  <2> QED
    BY <2>1, <2>2, <2>3, <2>4, <2>5, <2>6, <2>7, <2>8
<1>18. CASE SetUnderlayUp
  BY <1>18 DEF SetUnderlayUp
<1>19. CASE Return
  BY <1>19 DEF Return, EndCall
<1>20. CASE CutShort /\ handles' \in {handles, {}}
  <2>1. TypeOK'
    BY <1>20 DEF CutShort, EndCall
  <2>2. OldKnown'
    BY <1>20 DEF CutShort, EndCall
  <2>3. MoveKnown'
    BY <1>20 DEF CutShort, EndCall
  <2>4. NoneMarked'
    BY <1>20 DEF CutShort, EndCall
  <2>5. Progress'
    BY <1>20 DEF CutShort, EndCall
  <2>6. MarkerIdentifies'
    BY <1>20 DEF CutShort, EndCall
  <2>7. AddressesFollow'
    BY <1>20 DEF CutShort, EndCall
  <2>8. StraysKnown'
    BY <1>20 DEF CutShort, EndCall
  <2> QED
    BY <2>1, <2>2, <2>3, <2>4, <2>5, <2>6, <2>7, <2>8
<1>21. CASE handles' = {} /\ UNCHANGED <<kernel, want, call, fails, changes, torn, stray>>
  BY <1>21
<1>22. CASE UNCHANGED vars
  BY <1>22 DEF vars
<1>23. CASE Fail \/ ControllerDies
  BY <1>20, <1>21, <1>23 DEF Fail, ControllerDies
<1> QED
  BY <1>1, <1>2, <1>3, <1>4, <1>5, <1>6, <1>7, <1>8, <1>9, <1>10, <1>11, <1>12, <1>13, <1>14, <1>15, <1>16, <1>17, <1>18, <1>19, <1>22, <1>23 DEF Next, CallStep

\* The inductive invariant holds in every reachable state of SetupUnderlay.
THEOREM Invariance == Spec => []IInv
  BY InitIInv, NextIInv, PTL DEF Spec

\* The state of the kernel and of the call always has its type.
THEOREM TypeCorrect == Spec => []TypeOK
<1>1. IInv => TypeOK
  BY DEF IInv
<1> QED
  BY <1>1, Invariance, PTL

\* The marker address identifies the underlay interface: at most one interface
\* of a namespace carries it, none on the host does.
THEOREM MarkerSafe == Spec => []MarkerIdentifies
<1>1. IInv => MarkerIdentifies
  BY DEF IInv
<1> QED
  BY <1>1, Invariance, PTL

\* SetupUnderlay returns without error only with the wanted interface marked
\* inside the namespace and the VTEP address on the loopback device.
THEOREM InstallSafe == Spec => []UnderlayInstalled
<1>1. IInv => UnderlayInstalled
  BY DEF IInv, Progress, UnderlayInstalled, Marked, Inside, TypeOK, Params
<1> QED
  BY <1>1, Invariance, PTL

\* Addresses are lost only by a move cut short or a namespace destroyed.
THEOREM AddressSafe == Spec => []AddressesFollow
<1>1. IInv => AddressesFollow
  BY DEF IInv
<1> QED
  BY <1>1, Invariance, PTL

\* SetupUnderlay returns without error only after moving back every other
\* interface that still carries its marker.
THEOREM MoveBackSafe == Spec => []OthersMovedBack
<1>1. IInv => OthersMovedBack
  <2> SUFFICES ASSUME IInv, pc = "done", NEW n \in Inside(par.ns), n # par.nic
               PROVE  n \in stray
    BY DEF OthersMovedBack
  <2>1. par.ns \in NS /\ par.nic \in Nic /\ where[par.nic] = par.ns /\ Special \in addrs[par.nic]
    BY DEF IInv, TypeOK, Params, Progress
  <2>2. n \in Nic /\ where[n] = par.ns
    BY DEF Inside
  <2>3. Special \notin addrs[n]
    BY <2>1, <2>2 DEF IInv, MarkerIdentifies
  <2> QED
    BY <2>1, <2>2, <2>3 DEF IInv, StraysKnown, Busy
<1> QED
  BY <1>1, Invariance, PTL

\* SetupUnderlay called again with the same parameters changes nothing.
THEOREM Idempotent == Spec => RepeatChangesNothing
<1>1. ASSUME IInv, CallStep, pc # "setup", Served
      PROVE  UNCHANGED kernel
  <2>1. pc \notin {"unmark", "moveback", "move", "linkup", "restore", "mark", "idle"}
    <3>1. pc # "unmark"
      BY <1>1 DEF IInv, NoneMarked, OldKnown, Served
    <3>2. pc \notin {"moveback", "move", "linkup", "restore", "mark"}
      BY <1>1 DEF IInv, NoneMarked, Served
    <3>3. pc # "idle"
      BY <1>1 DEF CallStep, CreateLoopback, AssignVtep, OldUnderlayInterface,
             RemoveSpecialAddr, MoveOldNicBack, NicAlreadyInNamespace, MoveNicToNamespace,
             NicNotFound, SetMovedLinkUp, RestoreAddress, AddressesRestored,
             AssignSpecialAddr, SetUnderlayUp, Return
    <3> QED
      BY <3>1, <3>2, <3>3
  <2>2. CreateLoopback \/ AssignVtep \/ OldUnderlayInterface \/ Return
    BY <1>1, <2>1 DEF CallStep, RemoveSpecialAddr, MoveOldNicBack, NicAlreadyInNamespace,
           MoveNicToNamespace, NicNotFound, SetMovedLinkUp, RestoreAddress,
           AddressesRestored, AssignSpecialAddr, SetUnderlayUp
  <2>3. lound \cup {par.ns} = lound /\ [vteps EXCEPT ![par.ns] = @ \cup {par.vtep}] = vteps
    BY <1>1 DEF IInv, TypeOK, Served
  <2> QED
    BY <2>2, <2>3 DEF CreateLoopback, AssignVtep, OldUnderlayInterface, Return, Keep, kernel
<1>2. IInv /\ [Next]_vars => [CallStep /\ pc # "setup" /\ Served => UNCHANGED kernel]_vars
  BY <1>1
<1> QED
  BY <1>2, Invariance, PTL DEF RepeatChangesNothing, Spec

(***************************************************************************)
(* Calls end.  A call moves at most two interfaces, the old one back and   *)
(* the wanted one in, and the steps of a move are those between "linkup"   *)
(* and "restore"; within "restore" it restores one address after another.  *)
(***************************************************************************)
Left == [idle |-> 0, done |-> 1, setup |-> 2, mark |-> 3, restore |-> 4, linkup |-> 5, move |-> 6,
         moveback |-> 9, unmark |-> 10, find |-> 11, vtep |-> 12, loopback |-> 13]

StepsLeft == IF pc \in {"linkup", "restore"} /\ mv # par.nic THEN Left[pc] + 3 ELSE Left[pc]

Nearer == StepsLeft' < StepsLeft \/ (StepsLeft' = StepsLeft /\ saved' \subseteq saved /\ saved' # saved)

\* Every netlink request of SetupUnderlay brings the call nearer to its end, and
\* nothing that happens meanwhile to the pod, its namespace or the API sets it back.
CallsAdvance ==
    [][/\ CallStep => Nearer
       /\ pc # "idle" => CallStep \/ pc' = "idle" \/ UNCHANGED call]_vars

\* A step of the call brings it nearer to its end.
LEMMA StepAdvances == ASSUME CallStep PROVE Nearer
<1>. /\ Left["idle"] = 0 /\ Left["done"] = 1 /\ Left["setup"] = 2 /\ Left["mark"] = 3 /\ Left["restore"] = 4
     /\ Left["linkup"] = 5 /\ Left["move"] = 6 /\ Left["moveback"] = 9 /\ Left["unmark"] = 10
     /\ Left["find"] = 11 /\ Left["vtep"] = 12 /\ Left["loopback"] = 13
  BY DEF Left
<1> USE DEF Nearer, StepsLeft, Keep
<1>0. CASE CreateLoopback
  BY <1>0 DEF CreateLoopback
<1>1. CASE AssignVtep
  BY <1>1 DEF AssignVtep
<1>2. CASE OldUnderlayInterface
  BY <1>2 DEF OldUnderlayInterface
<1>3. CASE RemoveSpecialAddr
  BY <1>3 DEF RemoveSpecialAddr
<1>4. CASE MoveOldNicBack
  BY <1>4 DEF MoveOldNicBack, MoveLink
<1>5. CASE NicAlreadyInNamespace
  BY <1>5 DEF NicAlreadyInNamespace
<1>6. CASE MoveNicToNamespace
  BY <1>6 DEF MoveNicToNamespace, MoveLink
<1>7. CASE NicNotFound \/ Return
  BY <1>7 DEF NicNotFound, Return, EndCall
<1>8. CASE SetMovedLinkUp
  BY <1>8 DEF SetMovedLinkUp
<1>9. CASE \E a \in saved : RestoreAddress(a)
  BY <1>9 DEF RestoreAddress
<1>10. CASE AddressesRestored
  BY <1>10 DEF AddressesRestored
<1>11. CASE AssignSpecialAddr
  BY <1>11 DEF AssignSpecialAddr
<1>12. CASE SetUnderlayUp
  BY <1>12 DEF SetUnderlayUp
<1> QED
  BY <1>0, <1>12, <1>1, <1>2, <1>3, <1>4, <1>5, <1>6, <1>7, <1>8, <1>9, <1>10, <1>11 DEF CallStep

\* SetupUnderlay, if it is not cut short, returns after finitely many requests,
\* whatever state it starts from and whatever happens to the pod meanwhile.
THEOREM CallsEnd == Spec => CallsAdvance
<1>1. ASSUME Next, pc # "idle"
      PROVE  CallStep \/ pc' = "idle" \/ UNCHANGED call
  BY <1>1 DEF Next, ChangeUnderlay, PodStarts, PodDies, NamespaceDestroyed, SetupUnderlay, Fail, ControllerDies, CutShort, EndCall, call
<1>2. [Next]_vars
      => [/\ CallStep => Nearer
          /\ pc # "idle" => CallStep \/ pc' = "idle" \/ UNCHANGED call]_vars
  BY <1>1, StepAdvances
<1> QED
  BY <1>2, PTL DEF CallsAdvance, Spec
=============================================================================
