------------------------------- MODULE NetNS -------------------------------
(***************************************************************************)
(* Running code in another network namespace.  A namespace belongs to an   *)
(* OS thread, and Go moves goroutines between threads.  inNamespace        *)
(* (internal/hostnetwork/namespace.go) switches the caller's thread and    *)
(* back; Do, WithNetNSPath and TempNetNS (internal/ns/ns_linux.go) switch  *)
(* the thread of a new goroutine, which dies if it cannot switch back.     *)
(*                                                                         *)
(* A goroutine that holds no lock runs on any idle thread.  The calls a    *)
(* goroutine is in are a stack of frames; the last one is at work.         *)
(***************************************************************************)
EXTENDS Naturals, Sequences

CONSTANTS
    Goroutine,   \* callers
    Thread,      \* bound: OS threads at a time
    Home,        \* the namespace the process starts in
    Named,       \* namespaces with a path
    Temp,        \* bound: namespaces TempNetNS can create
    None,
    MaxDepth,    \* bound: calls nested in closures
    MaxCalls,    \* bound: calls
    MaxFaults    \* bound: system calls that fail

NS == {Home} \cup Named \cup Temp

ASSUME NSAssumption == Home \notin Named \cup Temp /\ Named \cap Temp = {} /\ None \notin NS \cup Thread
ASSUME BoundAssumption == MaxDepth \in Nat /\ MaxCalls \in Nat /\ MaxFaults \in Nat

VARIABLES
    status,  \* status[t]: the thread does not exist, is idle, or is locked
    ns,      \* ns[t]: its namespace
    stack,   \* stack[g]: the calls goroutine g is in
    open,    \* namespaces the callers have an open NetNS object of
    made,    \* temporary namespaces already used
    fds,     \* descriptors the calls themselves have open
    lost,    \* history: inNamespace failed to switch a thread back
    calls, faults

threads == <<status, ns>>
vars == <<threads, stack, open, made, fds, lost, calls, faults>>

Frame == [kind : {"in", "do", "path", "temp"},
          step : {"spawn", "get", "set", "unshare", "handle", "body", "restore", "done"},
          target : NS,
          thread : Thread \cup {None},
          object : NS \cup {None},   \* what the object it hands out, hostNS or tempNS, refers to
          saved : NS \cup {None},    \* what origns or threadNS refers to
          undone : BOOLEAN]          \* history: a nested inNamespace did not switch back

Init ==
    /\ status = [t \in Thread |-> IF t = CHOOSE u \in Thread : TRUE THEN "idle" ELSE "none"]
    /\ ns = [t \in Thread |-> Home]
    /\ stack = [g \in Goroutine |-> <<>>]
    /\ open = {} /\ made = {}
    /\ fds = 0
    /\ lost = FALSE
    /\ calls = 0 /\ faults = 0

-----------------------------------------------------------------------------
(***************************************************************************)
(* Threads, as the Go runtime hands them out.                              *)
(***************************************************************************)

\* A goroutine can be put on thread t, then in namespace n: an idle thread, or a
\* new one, which is a copy of an idle thread or of the runtime's template.
Available(t, n) ==
    \/ status[t] = "idle" /\ n = ns[t]
    \/ /\ status[t] = "none" /\ t = CHOOSE u \in Thread : status[u] = "none"
       /\ n \in {Home} \cup {ns[i] : i \in {j \in Thread : status[j] = "idle"}}

LockOSThread(t, n) ==
    /\ status' = [status EXCEPT ![t] = "locked"]
    /\ ns' = [ns EXCEPT ![t] = n]

\* The thread ends in namespace n and is unlocked, or ends with its goroutine.
Release(t, n, s) ==
    /\ status' = [status EXCEPT ![t] = s]
    /\ ns' = [ns EXCEPT ![t] = IF s = "none" THEN Home ELSE n]

Top(g) == stack[g][Len(stack[g])]
Under(s) == SubSeq(s, 1, Len(s) - 1)     \* the calls under the last one
Push(g, f) == stack' = [stack EXCEPT ![g] = Append(@, f)]
Pop(g) == stack' = [stack EXCEPT ![g] = Under(@)]
Update(g, f) == stack' = [stack EXCEPT ![g] = Append(Under(@), f)]

\* The thread is locked by the call under the last one, too.
Nested(g) == Len(stack[g]) > 1 /\ stack[g][Len(stack[g]) - 1].thread = Top(g).thread

At(g, kinds, step) == stack[g] # <<>> /\ Top(g).kind \in kinds /\ Top(g).step = step
Own == {"do", "path", "temp"}     \* calls that work in a goroutine of their own

Fault == faults < MaxFaults /\ faults' = faults + 1
Works == UNCHANGED faults

\* A call is made by a goroutine that is in no call, or in the closure of one.
Call == calls < MaxCalls /\ calls' = calls + 1

MayCall(g) == Len(stack[g]) < MaxDepth /\ (stack[g] # <<>> => Top(g).step = "body")

\* Fault: /proc/self/ns/net is asked, the namespace of the main thread.
OfMainThread(g) == {Home}

\* The namespaces getCurrentThreadNetNSPath can lead g to.
Current(g) == IF stack[g] = <<>>
              THEN {n \in NS : \E t \in Thread : Available(t, n)}
              ELSE {ns[Top(g).thread]}

NewFrame(kind, step, n, t, h) ==
    [kind |-> kind, step |-> step, target |-> n, thread |-> t, object |-> h, saved |-> None, undone |-> FALSE]

-----------------------------------------------------------------------------
(***************************************************************************)
(* Calls.                                                                  *)
(***************************************************************************)
InNamespace(g, n) ==
    /\ MayCall(g) /\ Call
    /\ \E t \in Thread, m \in NS :
          /\ IF stack[g] = <<>> THEN Available(t, m) ELSE t = Top(g).thread /\ m = ns[t]
          /\ LockOSThread(t, m)
          /\ Push(g, NewFrame("in", "get", n, t, None))
    /\ UNCHANGED <<open, made, fds, lost, faults>>

\* Do on an open object; WithNetNSPath opens one of its own.  GetCurrentNS gives
\* the handle the closure is called with.
Do(g, n, kind) ==
    /\ kind = "do" => n \in open
    /\ MayCall(g) /\ Call
    /\ \/ /\ \E h \in Current(g) : Push(g, NewFrame(kind, "spawn", n, None, h))
          /\ fds' = fds + (IF kind = "path" THEN 2 ELSE 1)
          /\ Works
       \/ Fault /\ UNCHANGED <<stack, fds>>
    /\ UNCHANGED <<threads, open, made, lost>>

TempNetNS(g, n) ==
    /\ n \notin made
    /\ made' = made \cup {n}
    /\ MayCall(g) /\ Call
    /\ Push(g, NewFrame("temp", "spawn", n, None, None))
    /\ UNCHANGED <<threads, open, fds, lost, faults>>

GetNS(n) ==
    /\ n \notin open
    /\ Call
    /\ open' = open \cup {n}
    /\ UNCHANGED <<threads, stack, made, fds, lost, faults>>

\* Any goroutine may close an object, also during a call of its Do.
Close(n) ==
    /\ n \in open
    /\ open' = open \ {n}
    /\ UNCHANGED <<threads, stack, made, fds, lost, calls, faults>>

-----------------------------------------------------------------------------
(***************************************************************************)
(* Steps of a call.                                                        *)
(***************************************************************************)
Step == UNCHANGED <<open, made, lost, calls>>

\* The goroutine of the call starts and locks its thread.
Spawn(g) ==
    /\ At(g, Own, "spawn")
    /\ \E t \in Thread, n \in NS :
          /\ Available(t, n)
          /\ LockOSThread(t, n)
          /\ Update(g, [Top(g) EXCEPT !.thread = t, !.step = "get"])
    /\ Works /\ UNCHANGED fds /\ Step

\* The handle to come back with: netns.Get or getCurrentNSNoLock.
Get(g) ==
    /\ At(g, {"in"} \cup Own, "get")
    /\ Update(g, [Top(g) EXCEPT !.saved = ns[Top(g).thread],
                                !.step = IF Top(g).kind = "temp" THEN "unshare" ELSE "set"])
    /\ fds' = fds + 1
    /\ Works /\ UNCHANGED threads /\ Step

Set(g) ==
    /\ At(g, {"in", "do", "path"}, "set")
    /\ Top(g).kind = "do" => Top(g).target \in open
    /\ ns' = [ns EXCEPT ![Top(g).thread] = Top(g).target]
    /\ Update(g, [Top(g) EXCEPT !.step = "body"])
    /\ Works /\ UNCHANGED <<status, fds>> /\ Step

Unshare(g) ==
    /\ At(g, {"temp"}, "unshare")
    /\ ns' = [ns EXCEPT ![Top(g).thread] = Top(g).target]
    /\ Update(g, [Top(g) EXCEPT !.step = "handle"])
    /\ Works /\ UNCHANGED <<status, fds>> /\ Step

\* Without a handle TempNetNS fails, and still switches back.
Handle(g) ==
    /\ At(g, {"temp"}, "handle")
    /\ \/ Update(g, [Top(g) EXCEPT !.object = Top(g).target, !.step = "restore"]) /\ Works
       \/ Update(g, [Top(g) EXCEPT !.step = "restore"]) /\ Fault
    /\ UNCHANGED <<threads, fds>> /\ Step

\* The closure returns.
BodyEnds(g) ==
    /\ At(g, {"in", "do", "path"}, "body")
    /\ Update(g, [Top(g) EXCEPT !.step = "restore"])
    /\ Works /\ UNCHANGED <<threads, fds>> /\ Step

-----------------------------------------------------------------------------
(***************************************************************************)
(* Ends of a call, with the deferred calls.                                *)
(***************************************************************************)

\* inNamespace returns on a thread that is in n.
InReturns(g, n) ==
    /\ Pop(g)
    /\ IF Nested(g) THEN ns' = [ns EXCEPT ![Top(g).thread] = n] /\ UNCHANGED status
                    ELSE Release(Top(g).thread, n, "idle")

\* Fault: the thread is unlocked although it did not come back.
ChildUnlocks(g, n, s) ==
    /\ Release(Top(g).thread, n, "idle")
    /\ Update(g, [Top(g) EXCEPT !.step = "done"])

\* The goroutine of the call ends; a thread it leaves locked dies.
ChildEnds(g, n, s) ==
    /\ Release(Top(g).thread, n, s)
    /\ Update(g, [Top(g) EXCEPT !.step = "done"])

Restore(g) ==
    /\ At(g, {"in"} \cup Own, "restore")
    /\ IF Top(g).kind = "in" THEN InReturns(g, Top(g).saved) ELSE ChildEnds(g, Top(g).saved, "idle")
    /\ fds' = fds - 1
    /\ Works /\ Step

\* setns back fails: inNamespace ignores it.
InNotRestored(g) ==
    /\ At(g, {"in"}, "restore")
    /\ Fault
    /\ IF Nested(g)
       THEN /\ stack' = [stack EXCEPT ![g] = [Under(@) EXCEPT ![Len(stack[g]) - 1].undone = TRUE]]
            /\ UNCHANGED threads
       ELSE InReturns(g, ns[Top(g).thread])
    /\ fds' = fds - 1
    /\ lost' = TRUE
    /\ UNCHANGED <<open, made, calls>>

ChildNotRestored(g) ==
    /\ At(g, Own, "restore")
    /\ Fault
    /\ ChildEnds(g, ns[Top(g).thread], "none")
    /\ fds' = fds - 1
    /\ Step

GetFails(g) ==
    /\ stack[g] # <<>> /\ Top(g).step = "get"
    /\ Fault
    /\ IF Top(g).kind = "in" THEN InReturns(g, ns[Top(g).thread]) ELSE ChildEnds(g, Home, "none")
    /\ UNCHANGED fds
    /\ Step

\* Fault: the switch waits until the object is open.
WaitsForObject(g) ==
    /\ stack[g] # <<>> /\ Top(g).step \in {"set", "unshare"}
    /\ Fault
    /\ IF Top(g).kind = "in" THEN InReturns(g, ns[Top(g).thread]) ELSE ChildEnds(g, Home, "none")
    /\ fds' = fds - 1
    /\ Step

\* setns or unshare fails, or the object was closed meanwhile.
SetFails(g) ==
    /\ stack[g] # <<>> /\ Top(g).step \in {"set", "unshare"}
    /\ IF Top(g).kind = "do" /\ Top(g).target \notin open THEN Works ELSE Fault
    /\ IF Top(g).kind = "in" THEN InReturns(g, ns[Top(g).thread]) ELSE ChildEnds(g, Home, "none")
    /\ fds' = fds - 1
    /\ Step

\* Fault: WithNetNSPath and Do both close the object.
ClosedTwice(g) ==
    /\ At(g, Own, "done")
    /\ Pop(g)
    /\ fds' = fds - (CASE Top(g).kind = "path" -> 3 [] Top(g).kind = "do" -> 1 [] OTHER -> 0)
    /\ open' = open \cup (IF Top(g).kind = "temp" THEN {Top(g).object} \ {None} ELSE {})
    /\ UNCHANGED <<threads, made, lost, calls, faults>>

\* wg.Wait returns.
Return(g) ==
    /\ At(g, Own, "done")
    /\ Pop(g)
    /\ fds' = fds - (CASE Top(g).kind = "path" -> 2 [] Top(g).kind = "do" -> 1 [] OTHER -> 0)
    /\ open' = open \cup (IF Top(g).kind = "temp" THEN {Top(g).object} \ {None} ELSE {})
    /\ UNCHANGED <<threads, made, lost, calls, faults>>

-----------------------------------------------------------------------------
Work(g) ==
    \/ Spawn(g) \/ Get(g) \/ Set(g) \/ Unshare(g) \/ Handle(g) \/ BodyEnds(g) \/ Restore(g) \/ Return(g)
    \/ (SetFails(g) /\ Works)

Next ==
    \/ \E g \in Goroutine :
          \/ \E n \in Named : InNamespace(g, n) \/ Do(g, n, "path")
          \/ \E n \in NS : Do(g, n, "do")
          \/ \E n \in Temp : TempNetNS(g, n)
          \/ Work(g)
          \/ InNotRestored(g) \/ ChildNotRestored(g) \/ GetFails(g) \/ SetFails(g)
    \/ \E n \in Named : GetNS(n)
    \/ \E n \in NS : Close(n)

Spec == Init /\ [][Next]_vars

\* System calls and closures return; the runtime starts a thread when it has none.
FairSpec == Spec /\ \A g \in Goroutine : WF_vars(Work(g))

-----------------------------------------------------------------------------
TypeOK ==
    /\ status \in [Thread -> {"none", "idle", "locked"}]
    /\ ns \in [Thread -> NS]
    /\ \A g \in Goroutine :
          Len(stack[g]) <= MaxDepth /\ \A i \in DOMAIN stack[g] : stack[g][i] \in Frame
    /\ open \subseteq NS /\ made \subseteq Temp
    /\ fds \in Nat /\ lost \in BOOLEAN
    /\ calls \in 0..MaxCalls /\ faults \in 0..MaxFaults

\* A closure runs in the namespace its call is for, whatever other goroutines do
\* with their threads and whichever calls it has made itself, unless an
\* inNamespace it called could not switch the common thread back.  The object Do
\* passes to it is of the namespace of Do's caller, although the closure runs on
\* another thread: that of the closure around the call, or that of the process.
RunsInTarget ==
    \A g \in Goroutine :
        /\ stack[g] # <<>> /\ Top(g).step = "body" /\ ~Top(g).undone => ns[Top(g).thread] = Top(g).target
        /\ ~lost => \A i \in DOMAIN stack[g] :
                       stack[g][i].kind \in {"do", "path"} =>
                           stack[g][i].object = IF i = 1 THEN Home ELSE stack[g][i - 1].target

\* Calls leave nothing behind, whatever fails.  A thread other goroutines can be put
\* on is in the namespace of the process; only inNamespace, which ignores a failed
\* switch back, leaves threads in the namespaces of router pods, never in a
\* temporary one.  And when all calls have returned, with or without an error, what
\* they opened is closed: origns, threadNS, hostNS and the object of WithNetNSPath.
NothingLeftBehind ==
    /\ \A t \in Thread : status[t] = "idle" => ns[t] = Home \/ (lost /\ ns[t] \in Named)
    /\ (\A g \in Goroutine : stack[g] = <<>>) => fds = 0

\* Every call returns: no failure leaves the caller waiting for a goroutine that
\* has ended, and nested calls do not wait for each other's threads.
CallsReturn == \A g \in Goroutine : stack[g] # <<>> ~> stack[g] = <<>>

=============================================================================
