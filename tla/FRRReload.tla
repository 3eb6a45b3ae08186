----------------------------- MODULE FRRReload -----------------------------
(***************************************************************************)
(* Loading a configuration into FRR: the controller writes it to a file    *)
(* shared with the router pod and posts to the reloader in the pod         *)
(* (internal/frr/config.go, internal/frrconfig/updater.go), whose handler  *)
(* has frr-reload.py test the file and then load it (cmd/reloader/main.go, *)
(* internal/frrconfig/frrconfig.go).                                       *)
(*                                                                         *)
(* The handlers of the reloader run concurrently, one per request, and do  *)
(* not stop when the requester goes away.  A failed update is retried: its *)
(* reconciliation goes back to the work queue.                             *)
(***************************************************************************)
EXTENDS Naturals

CONSTANTS
    Config,      \* configurations the API can ask for
    Invalid,     \* those among them that FRR does not accept
    Torn,        \* a file, or a running configuration, that is only part of one
    Startup,     \* the configuration a new router pod starts with
    Request,     \* requests the reloader can be working on at the same time
    NoRequest,
    MaxFaults,   \* bound: errors, lost connections, restarts
    MaxChanges   \* bound: changes of the API objects

ASSUME ConfigAssumption ==
    /\ Invalid \subseteq Config
    /\ Torn \notin Config /\ Startup \notin Config /\ Torn # Startup
ASSUME RequestAssumption == NoRequest \notin Request
ASSUME BoundAssumption == MaxFaults \in Nat /\ MaxChanges \in Nat

VARIABLES
    wanted,      \* the configuration the API asks for
    queued,      \* a reconciliation is queued
    file,        \* the shared file
    running,     \* FRR's running configuration
    pc,          \* next step of the updater
    config,      \* the configuration it writes
    request,     \* the request whose answer it waits for
    handler,     \* handler[h]: next step of the handler of request h
    tested,      \* tested[h]: the content its test saw
    loading,     \* loading[h]: the content its reload read
    overlapped,  \* history: the file was written while a handler was running
    faults, changes

updater == <<pc, config, request>>
reloader == <<handler, tested, loading>>
vars == <<wanted, queued, file, running, updater, reloader, overlapped, faults, changes>>

Active == {h \in Request : handler[h] \in {"test", "read", "load"}}

Init ==
    /\ wanted \in Config
    /\ queued = TRUE
    /\ file \in Config \cup {Torn}
    /\ running = Startup
    /\ pc = "idle"
    /\ config = wanted
    /\ request = NoRequest
    /\ handler = [h \in Request |-> "none"]
    /\ tested = [h \in Request |-> Torn]
    /\ loading = [h \in Request |-> Torn]
    /\ overlapped = FALSE
    /\ faults = 0
    /\ changes = 0

ChangeAPI(c) ==
    /\ changes < MaxChanges
    /\ changes' = changes + 1
    /\ c # wanted
    /\ wanted' = c
    /\ queued' = TRUE
    /\ UNCHANGED <<file, running, updater, reloader, overlapped, faults>>

-----------------------------------------------------------------------------
(***************************************************************************)
(* The controller: reloadFRRConfig and the updater.                        *)
(***************************************************************************)

Return == pc' = "idle" /\ request' = NoRequest

\* A queued reconciliation starts; os.WriteFile truncates the file ...
StartUpdate ==
    /\ pc = "idle"
    /\ queued
    /\ queued' = FALSE
    /\ config' = wanted
    /\ file' = Torn
    /\ overlapped' = (overlapped \/ Active # {})
    /\ pc' = "write"
    /\ UNCHANGED <<wanted, running, request, reloader, faults, changes>>

\* Fault: a failed write goes unnoticed.
WriteErrorIgnored ==
    /\ pc = "write"
    /\ file' \in {config, Torn}
    /\ pc' = "post"
    /\ UNCHANGED <<wanted, queued, running, config, request, reloader, overlapped, faults, changes>>

\* ... and writes it.
WriteFile ==
    /\ pc = "write"
    /\ file' = config
    /\ pc' = "post"
    /\ UNCHANGED <<wanted, queued, running, config, request, reloader, overlapped, faults, changes>>

Post ==
    /\ pc = "post"
    /\ \E h \in Request \ Active :
          /\ request' = h
          /\ handler' = [handler EXCEPT ![h] = "test"]
    /\ pc' = "wait"
    /\ UNCHANGED <<wanted, queued, file, running, config, tested, loading, overlapped, faults, changes>>

\* Fault: the status of the answer is not looked at.
StatusIgnored ==
    /\ pc = "wait"
    /\ handler[request] \in {"ok", "error"}
    /\ Return
    /\ UNCHANGED <<wanted, queued, file, running, config, reloader, overlapped, faults, changes>>

\* The answer arrives; on an error the reconciliation is queued again.
Answer ==
    /\ pc = "wait"
    /\ handler[request] \in {"ok", "error"}
    /\ queued' = (queued \/ handler[request] = "error")
    /\ Return
    /\ UNCHANGED <<wanted, file, running, config, reloader, overlapped, faults, changes>>

\* Fault: a failed update is not retried.
FailureForgotten ==
    /\ pc # "idle"
    /\ faults < MaxFaults
    /\ faults' = faults + 1
    /\ Return
    /\ UNCHANGED <<wanted, queued, file, running, config, reloader, overlapped, changes>>

\* The file cannot be written, the request cannot be made, or the connection is
\* lost while the handler works: an error for the updater only.
UpdateFails ==
    /\ pc # "idle"
    /\ faults < MaxFaults
    /\ faults' = faults + 1
    /\ Return
    /\ queued' = TRUE
    /\ UNCHANGED <<wanted, file, running, config, reloader, overlapped, changes>>

\* A new controller process queues a reconciliation for the objects it lists.
ControllerRestarts ==
    /\ faults < MaxFaults
    /\ faults' = faults + 1
    /\ Return
    /\ queued' = TRUE
    /\ UNCHANGED <<wanted, file, running, config, reloader, overlapped, changes>>

-----------------------------------------------------------------------------
(***************************************************************************)
(* The reloader: reloadHandler, Update, reloadAction.                      *)
(***************************************************************************)

\* Fault: the file of the daemons is loaded, not the shared one.
LoadOwnFile(h, x) == loading' = [loading EXCEPT ![h] = running]

Load(h, x) == loading' = [loading EXCEPT ![h] = x]
Step(h, l) == handler' = [handler EXCEPT ![h] = l]

\* What frr-reload.py --test may say of a file.  Part of a configuration may
\* happen to be acceptable.
Accepts(x) == x \notin Invalid
Rejects(x) == x \in Invalid \cup {Torn}

TestPasses(h) ==
    /\ handler[h] = "test"
    /\ Accepts(file)
    /\ tested' = [tested EXCEPT ![h] = file]
    /\ Step(h, "read")
    /\ UNCHANGED <<wanted, queued, file, running, updater, loading, overlapped, faults, changes>>

\* Fault: the reload goes on after a failed test.
TestErrorIgnored(h) ==
    /\ handler[h] = "test"
    /\ Rejects(file)
    /\ tested' = [tested EXCEPT ![h] = file]
    /\ Step(h, "read")
    /\ UNCHANGED <<wanted, queued, file, running, updater, loading, overlapped, faults, changes>>

TestFails(h) ==
    /\ handler[h] = "test"
    /\ Rejects(file)
    /\ tested' = [tested EXCEPT ![h] = file]
    /\ Step(h, "error")
    /\ UNCHANGED <<wanted, queued, file, running, updater, loading, overlapped, faults, changes>>

\* frr-reload.py --reload reads the file again ...
ReadAgain(h) ==
    /\ handler[h] = "read"
    /\ Load(h, file)
    /\ Step(h, "load")
    /\ UNCHANGED <<wanted, queued, file, running, updater, tested, overlapped, faults, changes>>

\* ... and brings the daemons to it.
Reload(h) ==
    /\ handler[h] = "load"
    /\ running' = loading[h]
    /\ Step(h, "ok")
    /\ UNCHANGED <<wanted, queued, file, updater, tested, loading, overlapped, faults, changes>>

\* frr-reload.py fails for another reason; a reload may have changed the daemons.
ReloadFails(h) ==
    /\ h \in Active
    /\ faults < MaxFaults
    /\ faults' = faults + 1
    /\ running' \in IF handler[h] = "load" THEN {running, Torn} ELSE {running}
    /\ Step(h, "error")
    /\ UNCHANGED <<wanted, queued, file, updater, tested, loading, overlapped, changes>>

\* Fault: nothing is queued for a new pod.
RestartUnnoticed ==
    /\ faults < MaxFaults
    /\ faults' = faults + 1
    /\ running' = Startup
    /\ handler' = [h \in Request |-> IF h \in Active THEN "error" ELSE handler[h]]
    /\ UNCHANGED <<wanted, queued, file, updater, tested, loading, overlapped, changes>>

\* A new router pod: its readiness queues a reconciliation.
RouterRestarts ==
    /\ faults < MaxFaults
    /\ faults' = faults + 1
    /\ running' = Startup
    /\ handler' = [h \in Request |-> IF h \in Active THEN "error" ELSE handler[h]]
    /\ queued' = TRUE
    /\ UNCHANGED <<wanted, file, updater, tested, loading, overlapped, changes>>

-----------------------------------------------------------------------------
UpdaterStep == StartUpdate \/ WriteFile \/ Post \/ Answer
HandlerStep(h) == TestPasses(h) \/ TestFails(h) \/ ReadAgain(h) \/ Reload(h)

Next ==
    \/ \E c \in Config : ChangeAPI(c)
    \/ UpdaterStep \/ UpdateFails \/ ControllerRestarts \/ RouterRestarts
    \/ \E h \in Request : HandlerStep(h) \/ ReloadFails(h)

Spec == Init /\ [][Next]_vars

\* The worker takes what is queued and goes on; frr-reload.py terminates.
FairSpec == Spec /\ WF_vars(UpdaterStep) /\ \A h \in Request : WF_vars(HandlerStep(h))

-----------------------------------------------------------------------------
TypeOK ==
    /\ wanted \in Config /\ config \in Config
    /\ queued \in BOOLEAN /\ overlapped \in BOOLEAN
    /\ file \in Config \cup {Torn}
    /\ running \in Config \cup {Torn, Startup}
    /\ pc \in {"idle", "write", "post", "wait"}
    /\ request \in Request \cup {NoRequest}
    /\ handler \in [Request -> {"none", "test", "read", "load", "ok", "error"}]
    /\ tested \in [Request -> Config \cup {Torn}]
    /\ loading \in [Request -> Config \cup {Torn}]
    /\ faults \in 0..MaxFaults /\ changes \in 0..MaxChanges

\* The success the updater reports is about its own configuration: the handler
\* of its request tested and loaded what this update wrote, even though it read
\* the file twice and earlier, abandoned handlers may still be running.
SuccessIsOwn ==
    pc = "wait" /\ handler[request] = "ok" => tested[request] = config /\ loading[request] = config

\* A configuration FRR rejects is never loaded: Update tests before it reloads,
\* and the file does not change in between, unless it is written under a running
\* handler.
InvalidNeverRuns == ~overlapped => running \notin Invalid

\* When no work is left, FRR runs what the API asks for, whatever failed, was
\* lost or restarted before, unless a file was written under a running handler.
QuietMeansCurrent ==
    ~queued /\ pc = "idle" /\ ~overlapped => running = wanted

\* FRR ends up running what the API asks for, when that is acceptable.
Converges ==
    []~overlapped => <>[](wanted \in Invalid \/ running = wanted)

\* The file, the requests and the handlers together are a service that loads one
\* configuration at a time and is done only when FRR runs the wanted one.
Service ==
    INSTANCE ConfigService WITH
        pending <- queued \/ pc # "idle",
        attempt <- config,
        void    <- overlapped
ImplementsService == Service!Spec

-----------------------------------------------------------------------------
\* generateAndReloadConfigFile: "If this completes successfully it will also
\* force FRR to reload that configuration file."
LatestIsLoaded == ~queued /\ pc = "idle" /\ Active = {} => running = wanted

=============================================================================
