-------------------------- MODULE FRRReloadProofs --------------------------
(***************************************************************************)
(* Proofs about FRRReload, for any number of configurations, requests and  *)
(* faults.                                                                 *)
(***************************************************************************)
EXTENDS FRRReload, TLAPS

\* While the updater waits, the file is what it wrote, and so is what the handler
\* of its request has read.
OwnRequest ==
    /\ pc \in {"post", "wait"} => file = config
    /\ pc = "wait" =>
          /\ request \in Request
          /\ handler[request] \in {"read", "load", "ok"} => tested[request] = config
          /\ handler[request] \in {"load", "ok"} => loading[request] = config

\* As long as no file was written under a running handler, only the handler of
\* the last request can be running, for the file that is there, and if its
\* requester has gone away another update is due.
OneAtATime ==
    /\ pc \in {"write", "post"} => Active = {}
    /\ pc = "wait" => Active \subseteq {request}
    /\ pc = "idle" /\ Active # {} => queued
    /\ Active # {} => file = config
    /\ \A h \in Request :
          /\ handler[h] \in {"read", "load"} => config \notin Invalid
          /\ handler[h] = "load" => loading[h] = config

\* FRR runs the wanted configuration or there is work to do.
Due ==
    /\ config = wanted \/ queued
    /\ pc = "wait" /\ handler[request] = "ok" => queued \/ running = config
    /\ pc = "idle" => queued \/ running = wanted
    /\ running \notin Invalid

Calm == ~overlapped => OneAtATime /\ Due

\* The inductive invariant.
Inv == TypeOK /\ OwnRequest /\ Calm

\* The invariant holds at the start, before the first update.
LEMMA InitInv == Init => Inv
  <1> SUFFICES ASSUME Init PROVE Inv
    OBVIOUS
  <1>1. TypeOK
    <2>1. 0 \in 0..MaxFaults /\ 0 \in 0..MaxChanges
      BY BoundAssumption
    <2>2. handler \in [Request -> {"none", "test", "read", "load", "ok", "error"}]
          /\ tested \in [Request -> Config \cup {Torn}] /\ loading \in [Request -> Config \cup {Torn}]
      BY DEF Init
    <2> QED BY <2>1, <2>2 DEF Init, TypeOK
  <1>2. Active = {}
    BY DEF Init, Active
  <1>3. OwnRequest /\ OneAtATime /\ Due
    BY <1>2, ConfigAssumption DEF Init, OwnRequest, OneAtATime, Due
  <1> QED BY <1>1, <1>3 DEF Inv, Calm

\* Every step of updater, reloader and environment keeps the types.
LEMMA TypeStep == TypeOK /\ [Next]_vars => TypeOK'
  <1> SUFFICES ASSUME TypeOK, [Next]_vars PROVE TypeOK'
    OBVIOUS
  <1> USE BoundAssumption DEF TypeOK, updater, reloader
  <1>1. ASSUME NEW c \in Config, ChangeAPI(c) PROVE TypeOK'
    BY <1>1 DEF ChangeAPI
  <1>2. CASE StartUpdate
    BY <1>2 DEF StartUpdate
  <1>3. CASE WriteFile
    BY <1>3 DEF WriteFile
  <1>4. CASE Post
    BY <1>4 DEF Post
  <1>5. CASE Answer
    BY <1>5 DEF Answer, Return
  <1>6. CASE UpdateFails
    BY <1>6 DEF UpdateFails, Return
  <1>7. CASE ControllerRestarts
    BY <1>7 DEF ControllerRestarts, Return
  <1>8. CASE RouterRestarts
    BY <1>8 DEF RouterRestarts
  <1>9. ASSUME NEW h \in Request, TestPasses(h) PROVE TypeOK'
    BY <1>9 DEF TestPasses, Step
  <1>10. ASSUME NEW h \in Request, TestFails(h) PROVE TypeOK'
    BY <1>10 DEF TestFails, Step
  <1>11. ASSUME NEW h \in Request, ReadAgain(h) PROVE TypeOK'
    BY <1>11 DEF ReadAgain, Step, Load
  <1>12. ASSUME NEW h \in Request, Reload(h) PROVE TypeOK'
    BY <1>12 DEF Reload, Step
  <1>13. ASSUME NEW h \in Request, ReloadFails(h) PROVE TypeOK'
    BY <1>13 DEF ReloadFails, Step
  <1>14. CASE UNCHANGED vars
    BY <1>14 DEF vars
  <1> QED
    BY <1>1, <1>2, <1>3, <1>4, <1>5, <1>6, <1>7, <1>8, <1>9, <1>10, <1>11, <1>12, <1>13, <1>14
       DEF Next, UpdaterStep, HandlerStep

\* What the updater's own request has read stays what the updater wrote.
LEMMA OwnRequestStep == TypeOK /\ OwnRequest /\ [Next]_vars => OwnRequest'
  <1> SUFFICES ASSUME TypeOK, OwnRequest, [Next]_vars PROVE OwnRequest'
    OBVIOUS
  <1> USE RequestAssumption DEF TypeOK, OwnRequest, Active, updater, reloader
  <1>1. ASSUME NEW c \in Config, ChangeAPI(c) PROVE OwnRequest'
    BY <1>1 DEF ChangeAPI
  <1>2. CASE StartUpdate
    BY <1>2 DEF StartUpdate
  <1>3. CASE WriteFile
    BY <1>3 DEF WriteFile
  <1>4. CASE Post
    BY <1>4 DEF Post
  <1>5. CASE Answer
    BY <1>5 DEF Answer, Return
  <1>6. CASE UpdateFails
    BY <1>6 DEF UpdateFails, Return
  <1>7. CASE ControllerRestarts
    BY <1>7 DEF ControllerRestarts, Return
  <1>8. CASE RouterRestarts
    BY <1>8 DEF RouterRestarts
  <1>9. ASSUME NEW h \in Request, TestPasses(h) PROVE OwnRequest'
    BY <1>9 DEF TestPasses, Step, Accepts
  <1>10. ASSUME NEW h \in Request, TestFails(h) PROVE OwnRequest'
    BY <1>10 DEF TestFails, Step
  <1>11. ASSUME NEW h \in Request, ReadAgain(h) PROVE OwnRequest'
    BY <1>11 DEF ReadAgain, Step, Load
  <1>12. ASSUME NEW h \in Request, Reload(h) PROVE OwnRequest'
    BY <1>12 DEF Reload, Step
  <1>13. ASSUME NEW h \in Request, ReloadFails(h) PROVE OwnRequest'
    BY <1>13 DEF ReloadFails, Step
  <1>14. CASE UNCHANGED vars
    BY <1>14 DEF vars
  <1> QED
    BY <1>1, <1>2, <1>3, <1>4, <1>5, <1>6, <1>7, <1>8, <1>9, <1>10, <1>11, <1>12, <1>13, <1>14
       DEF Next, UpdaterStep, HandlerStep

\* Without overlap, one handler at a time works, on what is to be loaded.
LEMMA CalmStep == TypeOK /\ OwnRequest /\ Calm /\ [Next]_vars => Calm'
  <1> SUFFICES ASSUME TypeOK, OwnRequest, Calm, [Next]_vars PROVE Calm'
    OBVIOUS
  <1> USE RequestAssumption, ConfigAssumption DEF TypeOK, OwnRequest, Calm, OneAtATime, Due, Active, updater, reloader
  <1>1. ASSUME NEW c \in Config, ChangeAPI(c) PROVE Calm'
    BY <1>1 DEF ChangeAPI
  <1>2. CASE StartUpdate
    BY <1>2 DEF StartUpdate
  <1>3. CASE WriteFile
    BY <1>3 DEF WriteFile
  <1>4. CASE Post
    BY <1>4 DEF Post
  <1>5. CASE Answer
    BY <1>5 DEF Answer, Return
  <1>6. CASE UpdateFails
    BY <1>6 DEF UpdateFails, Return
  <1>7. CASE ControllerRestarts
    BY <1>7 DEF ControllerRestarts, Return
  <1>8. CASE RouterRestarts
    BY <1>8 DEF RouterRestarts
  <1>9. ASSUME NEW h \in Request, TestPasses(h) PROVE Calm'
    BY <1>9 DEF TestPasses, Step, Accepts
  <1>10. ASSUME NEW h \in Request, TestFails(h) PROVE Calm'
    BY <1>10 DEF TestFails, Step
  <1>11. ASSUME NEW h \in Request, ReadAgain(h) PROVE Calm'
    BY <1>11 DEF ReadAgain, Step, Load
  <1>12. ASSUME NEW h \in Request, Reload(h) PROVE Calm'
    BY <1>12 DEF Reload, Step
  <1>13. ASSUME NEW h \in Request, ReloadFails(h) PROVE Calm'
    BY <1>13 DEF ReloadFails, Step
  <1>14. CASE UNCHANGED vars
    BY <1>14 DEF vars
  <1> QED
    BY <1>1, <1>2, <1>3, <1>4, <1>5, <1>6, <1>7, <1>8, <1>9, <1>10, <1>11, <1>12, <1>13, <1>14
       DEF Next, UpdaterStep, HandlerStep

-----------------------------------------------------------------------------
\* Updater, reloader and environment keep the inductive invariant.
THEOREM Invariance == Spec => []Inv
  <1>1. Inv /\ [Next]_vars => Inv'
    BY TypeStep, OwnRequestStep, CalmStep DEF Inv
  <1> QED BY <1>1, InitInv, PTL DEF Spec

\* Types, for any number of configurations, requests and faults.
THEOREM TypeCorrect == Spec => []TypeOK
  BY Invariance, PTL DEF Inv

\* The success the updater reports is about the configuration it wrote.
THEOREM SuccessSafe == Spec => []SuccessIsOwn
  <1>1. Inv => SuccessIsOwn
    BY DEF Inv, OwnRequest, SuccessIsOwn
  <1> QED BY <1>1, Invariance, PTL

\* FRR never runs a configuration its test rejects, unless writes overlap.
THEOREM InvalidSafe == Spec => []InvalidNeverRuns
  <1>1. Inv => InvalidNeverRuns
    BY DEF Inv, Calm, Due, InvalidNeverRuns
  <1> QED BY <1>1, Invariance, PTL

\* Without work left, FRR runs what the API asks for, unless writes overlap.
THEOREM QuietSafe == Spec => []QuietMeansCurrent
  <1>1. Inv => QuietMeansCurrent
    BY DEF Inv, Calm, Due, QuietMeansCurrent
  <1> QED BY <1>1, Invariance, PTL

\* Every step is one of the service's, or one the service does not see.
LEMMA StepRefines == Inv /\ [Next]_vars => [Service!Next]_(Service!vars)
  <1> SUFFICES ASSUME Inv, [Next]_vars PROVE Service!Next \/ UNCHANGED Service!vars
    OBVIOUS
  <1> USE DEF Inv, TypeOK, OwnRequest, Calm, OneAtATime, Due, Active, updater, reloader, Service!vars, Service!Next
  <1>1. ASSUME NEW c \in Config, ChangeAPI(c) PROVE Service!Next \/ UNCHANGED Service!vars
    BY <1>1 DEF ChangeAPI, Service!Ask
  <1>2. CASE StartUpdate
    BY <1>2 DEF StartUpdate, Service!Try
  <1>3. CASE WriteFile
    BY <1>3 DEF WriteFile
  <1>4. CASE Post
    BY <1>4 DEF Post
  <1>5. CASE Answer
    BY <1>5 DEF Answer, Return, Service!Finish
  <1>6. CASE UpdateFails
    BY <1>6 DEF UpdateFails, Return
  <1>7. CASE ControllerRestarts
    BY <1>7 DEF ControllerRestarts, Return, Service!Ask
  <1>8. CASE RouterRestarts
    BY <1>8 DEF RouterRestarts, Service!Restart
  <1>9. ASSUME NEW h \in Request, TestPasses(h) PROVE Service!Next \/ UNCHANGED Service!vars
    BY <1>9 DEF TestPasses
  <1>10. ASSUME NEW h \in Request, TestFails(h) PROVE Service!Next \/ UNCHANGED Service!vars
    BY <1>10 DEF TestFails
  <1>11. ASSUME NEW h \in Request, ReadAgain(h) PROVE Service!Next \/ UNCHANGED Service!vars
    BY <1>11 DEF ReadAgain
  <1>12. ASSUME NEW h \in Request, Reload(h) PROVE Service!Next \/ UNCHANGED Service!vars
    BY <1>12 DEF Reload, Service!Apply
  <1>13. ASSUME NEW h \in Request, ReloadFails(h) PROVE Service!Next \/ UNCHANGED Service!vars
    BY <1>13 DEF ReloadFails, Service!Apply
  <1>14. CASE UNCHANGED vars
    BY <1>14 DEF vars
  <1> QED
    BY <1>1, <1>2, <1>3, <1>4, <1>5, <1>6, <1>7, <1>8, <1>9, <1>10, <1>11, <1>12, <1>13, <1>14
       DEF Next, UpdaterStep, HandlerStep

\* The shared file, the requests and the handlers implement the service.
THEOREM Refinement == Spec => ImplementsService
  <1>1. Init => Service!Init
    BY DEF Init, Service!Init
  <1> QED BY <1>1, StepRefines, Invariance, PTL DEF Spec, ImplementsService, Service!Spec

=============================================================================
