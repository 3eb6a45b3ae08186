---------------------------- MODULE NetNSProofs ----------------------------
(***************************************************************************)
(* Proofs about NetNS, for any number of goroutines, threads, namespaces,  *)
(* calls, faults and any depth of nesting.                                 *)
(***************************************************************************)
EXTENDS NetNS, TLAPS

Depth(g) == Len(stack[g])

\* The types, with stacks as functions to sequences of frames.
Types ==
    /\ status \in [Thread -> {"none", "idle", "locked"}]
    /\ ns \in [Thread -> NS]
    /\ stack \in [Goroutine -> Seq(Frame)]
    /\ \A g \in Goroutine : Depth(g) <= MaxDepth
    /\ open \subseteq NS /\ made \subseteq Temp
    /\ lost \in BOOLEAN
    /\ calls \in 0..MaxCalls /\ faults \in 0..MaxFaults

\* Steps at which a frame has its handle to come back with.
Saved == {"set", "unshare", "handle", "body", "restore"}

\* A frame holds its thread.
Holds(f) == f.step \notin {"spawn", "done"}

\* A frame that starts on a thread of its own, not on that of the closure it is
\* called from.
Base(g, i) == i = 1 \/ stack[g][i].kind # "in"

\* The frames: only the last one is not in its closure, each kind of call has its
\* own steps, and only inNamespace works on the thread of the closure around it.
FrameOK(g, i) ==
    LET f == stack[g][i]
    IN  /\ i < Depth(g) => f.step = "body"
        /\ f.kind = "in" => f.target \in Named /\ f.step \in {"get", "set", "body", "restore"}
        /\ f.kind \in {"do", "path"} => f.step \in {"spawn", "get", "set", "body", "restore", "done"}
        /\ f.kind = "temp" => f.step \in {"spawn", "get", "unshare", "handle", "restore", "done"}
        /\ f.step = "spawn" <=> f.thread = None
        /\ f.step \in Saved => f.saved \in NS
        /\ f.undone => lost
        /\ i > 1 => (f.kind = "in" <=> f.thread = stack[g][i - 1].thread)

Frames == \A g \in Goroutine : \A i \in 1..Depth(g) : FrameOK(g, i)

\* A thread that a frame holds is locked, and held for one goroutine only, there
\* by one call and the inNamespace calls nested in it.
Locked ==
    \A g \in Goroutine : \A i \in 1..Depth(g) :
        Holds(stack[g][i]) => status[stack[g][i].thread] = "locked"

Exclusive ==
    \A g, h \in Goroutine : \A i \in 1..Depth(g), j \in 1..Depth(h) :
        Holds(stack[g][i]) /\ Holds(stack[h][j]) /\ stack[g][i].thread = stack[h][j].thread
        => g = h /\ (i < j => \A k \in (i + 1)..j : stack[g][k].kind = "in")

\* Namespaces in which other goroutines may find a thread.
Safe == {Home} \cup (IF lost THEN Named ELSE {})

Threads ==
    \A t \in Thread : /\ status[t] = "idle" => ns[t] \in Safe
                      /\ status[t] = "none" => ns[t] = Home

\* A closure that no call works under is where it should be, ...
InPlace(g, i) ==
    LET f == stack[g][i]
    IN  /\ f.step = "body" /\ ~f.undone /\ (i = Depth(g) \/ stack[g][i + 1].kind # "in")
           => ns[f.thread] = f.target
        \* ... a nested inNamespace comes back to where the closure around it was,
        /\ f.kind = "in" /\ i > 1 /\ ~stack[g][i - 1].undone
           => /\ f.step \in {"get", "set"} => ns[f.thread] = stack[g][i - 1].target
              /\ f.step \in Saved => f.saved = stack[g][i - 1].target
        \* ... and any other call to where a thread may be found.
        /\ Base(g, i)
           => /\ f.step \in {"get", "set", "unshare"} => ns[f.thread] \in Safe
              /\ f.step \in Saved => f.saved \in Safe

Placed == \A g \in Goroutine : \A i \in 1..Depth(g) : InPlace(g, i)

\* A thread held by inNamespace calls only, or not held, is in no temporary
\* namespace, and does not come back to one.
InOnly(t) ==
    \A g \in Goroutine : \A i \in 1..Depth(g) :
        Holds(stack[g][i]) /\ stack[g][i].thread = t => stack[g][i].kind = "in"

NotTemp ==
    \A t \in Thread : InOnly(t) =>
        /\ ns[t] \in {Home} \cup Named
        /\ \A g \in Goroutine : \A i \in 1..Depth(g) :
              Holds(stack[g][i]) /\ stack[g][i].thread = t /\ stack[g][i].step \in Saved
              => stack[g][i].saved \in {Home} \cup Named

\* The object a closure is called with.
Objects ==
    ~lost => \A g \in Goroutine : \A i \in 1..Depth(g) :
                stack[g][i].kind \in {"do", "path"} =>
                    stack[g][i].object = IF i = 1 THEN Home ELSE stack[g][i - 1].target

-----------------------------------------------------------------------------
\* The frames of a stack are frames.
LEMMA StackFrames ==
    ASSUME Types, NEW g \in Goroutine
    PROVE  /\ Depth(g) \in Nat
           /\ stack[g] = <<>> <=> Depth(g) = 0
           /\ \A i \in 1..Depth(g) : stack[g][i] \in Frame
BY DEF Types, Depth

\* The frame at work is the last one.
LEMMA TopFrame ==
    ASSUME Types, NEW g \in Goroutine, stack[g] # <<>>
    PROVE  /\ Depth(g) \in Nat /\ Depth(g) > 0
           /\ Top(g) = stack[g][Depth(g)] /\ Top(g) \in Frame
BY StackFrames DEF Top, Depth

\* What a call pushes comes on top; nothing else changes.
LEMMA PushFacts ==
    ASSUME Types, NEW g \in Goroutine, NEW f \in Frame, Push(g, f)
    PROVE  /\ stack' \in [Goroutine -> Seq(Frame)]
           /\ \A h \in Goroutine : h # g => stack'[h] = stack[h]
           /\ Depth(g)' = Depth(g) + 1
           /\ \A i \in 1..Depth(g) : stack'[g][i] = stack[g][i]
           /\ stack'[g][Depth(g) + 1] = f
BY DEF Types, Push, Depth

\* All frames but the last.
LEMMA UnderFacts ==
    ASSUME Types, NEW g \in Goroutine, stack[g] # <<>>
    PROVE  /\ Under(stack[g]) \in Seq(Frame) /\ Len(Under(stack[g])) = Depth(g) - 1
           /\ \A i \in 1..(Depth(g) - 1) : Under(stack[g])[i] = stack[g][i]
<1>1. stack[g] \in Seq(Frame) /\ Depth(g) \in Nat /\ Depth(g) > 0 /\ Len(stack[g]) = Depth(g)
  BY TopFrame, Zenon DEF Types, Depth
<1>2. QED
  BY <1>1 DEF Under

\* A call that returns takes the last frame away; nothing else changes.
LEMMA PopFacts ==
    ASSUME Types, NEW g \in Goroutine, stack[g] # <<>>, Pop(g)
    PROVE  /\ stack' \in [Goroutine -> Seq(Frame)]
           /\ \A h \in Goroutine : h # g => stack'[h] = stack[h]
           /\ Depth(g)' = Depth(g) - 1
           /\ \A i \in 1..(Depth(g) - 1) : stack'[g][i] = stack[g][i]
<1>1. stack' = [stack EXCEPT ![g] = Under(stack[g])]
  BY Zenon DEF Pop
<1>2. stack'[g] = Under(stack[g])
  BY <1>1, Zenon DEF Types
<1>3. stack' \in [Goroutine -> Seq(Frame)] /\ \A h \in Goroutine : h # g => stack'[h] = stack[h]
  BY <1>1, UnderFacts, Zenon DEF Types
<1>4. QED
  BY <1>2, <1>3, UnderFacts, Zenon DEF Depth

\* A step of a call replaces the last frame; nothing else changes.
LEMMA UpdateFacts ==
    ASSUME Types, NEW g \in Goroutine, stack[g] # <<>>, NEW f \in Frame, Update(g, f)
    PROVE  /\ stack' \in [Goroutine -> Seq(Frame)]
           /\ \A h \in Goroutine : h # g => stack'[h] = stack[h]
           /\ Depth(g)' = Depth(g)
           /\ \A i \in 1..(Depth(g) - 1) : stack'[g][i] = stack[g][i]
           /\ stack'[g][Depth(g)] = f
<1> DEFINE s == Under(stack[g])
<1>1. /\ s \in Seq(Frame) /\ Len(s) = Depth(g) - 1
      /\ \A i \in 1..(Depth(g) - 1) : s[i] = stack[g][i]
  BY UnderFacts, Zenon
<1> HIDE DEF s
<1>2. /\ Append(s, f) \in Seq(Frame) /\ Len(Append(s, f)) = Len(s) + 1
      /\ \A i \in 1..Len(s) : Append(s, f)[i] = s[i]
      /\ Append(s, f)[Len(s) + 1] = f
  BY <1>1
<1>3. stack' = [stack EXCEPT ![g] = Append(s, f)]
  BY Zenon DEF Update, s
<1>4. stack'[g] = Append(s, f)
  BY <1>3, Zenon DEF Types
<1>5. stack' \in [Goroutine -> Seq(Frame)] /\ \A h \in Goroutine : h # g => stack'[h] = stack[h]
  BY <1>2, <1>3, Zenon DEF Types
<1>6. Depth(g) \in Nat /\ Depth(g) > 0
  BY TopFrame, Zenon
<1>7. QED
  BY <1>1, <1>2, <1>4, <1>5, <1>6 DEF Depth

-----------------------------------------------------------------------------
\* What is shown of threads and frames, without the descriptors.
Core == Types /\ Frames /\ Locked /\ Exclusive /\ Threads /\ Placed /\ NotTemp /\ Objects

\* A step of goroutine g that leaves its first d frames, all in their closures, and
\* all threads but t alone; t is held by no other goroutine.
Local(g, d, t) ==
    /\ d \in Nat /\ d <= Depth(g) /\ Depth(g)' \in {d, d + 1}
    /\ \A h \in Goroutine : h # g => stack'[h] = stack[h] /\ Depth(h)' = Depth(h)
    /\ \A i \in 1..d : stack'[g][i] = stack[g][i] /\ stack[g][i].step = "body"
    /\ \A u \in Thread : u # t => ns'[u] = ns[u] /\ status'[u] = status[u]
    /\ lost => lost'
    /\ \A h \in Goroutine : \A i \in 1..Depth(h) :
          Holds(stack[h][i]) /\ stack[h][i].thread = t => h = g /\ (i < d => stack[g][d].thread = t)
    /\ \A i \in (d + 1)..Depth(g) : Holds(stack[g][i]) => stack[g][i].thread = t

\* What remains to be shown: of the frame at work after the step, ...
TopOK(g, d, t) ==
    Depth(g)' = d + 1 =>
        LET f == stack'[g][d + 1]
        IN  /\ FrameOK(g, d + 1)' /\ InPlace(g, d + 1)'
            /\ Holds(f) => f.thread = t /\ status'[t] = "locked"
            /\ ~lost' /\ f.kind \in {"do", "path"} =>
                  f.object = IF d = 0 THEN Home ELSE stack[g][d].target

\* ... of the closure under it, ...
UnderOK(g, d, t) ==
    d > 0 => LET f == stack[g][d]
             IN  /\ f.thread = t => status'[t] = "locked"
                 /\ ~f.undone /\ (Depth(g)' = d \/ stack'[g][d + 1].kind # "in")
                    => ns'[f.thread] = f.target

\* ... and of the thread.
ThreadOK(g, d, t) ==
    t \in Thread =>
        /\ status'[t] = "idle" => ns'[t] \in Safe'
        /\ status'[t] = "none" => ns'[t] = Home
        /\ InOnly(t)' =>
              /\ ns'[t] \in {Home} \cup Named
              /\ Depth(g)' = d + 1 /\ stack'[g][d + 1].step \in Saved
                 => stack'[g][d + 1].saved \in {Home} \cup Named

\* The frames after such a step: those of other goroutines, the ones it left, and
\* the one at work.
LEMMA LocalCases ==
    ASSUME Core, NEW g \in Goroutine, NEW d, NEW t, Local(g, d, t),
           NEW h \in Goroutine, NEW i \in 1..Depth(h)'
    PROVE  /\ Depth(h)' \in Nat /\ Depth(h) \in Nat /\ d \in Nat
           /\ \/ /\ h # g /\ i \in 1..Depth(h) /\ Depth(h)' = Depth(h) /\ stack'[h] = stack[h]
              \/ /\ h = g /\ i \in 1..d /\ i \in 1..Depth(h)
                 /\ stack'[h][i] = stack[h][i] /\ stack[h][i].step = "body"
              \/ h = g /\ i = d + 1 /\ Depth(h)' = d + 1
BY StackFrames DEF Local, Core

\* A frame that is not at work is as it was.
LEMMA LocalFrames ==
    ASSUME Core, NEW g \in Goroutine, NEW d, NEW t, Local(g, d, t), TopOK(g, d, t)
    PROVE  Frames'
<1> SUFFICES ASSUME NEW h \in Goroutine, NEW i \in 1..Depth(h)' PROVE FrameOK(h, i)'
  BY Zenon DEF Frames
<1>1. CASE h # g /\ i \in 1..Depth(h) /\ Depth(h)' = Depth(h) /\ stack'[h] = stack[h]
  <2>1. FrameOK(h, i) /\ (lost => lost')
    BY <1>1, Zenon DEF Core, Frames, Local
  <2>2. QED
    BY <1>1, <2>1, Zenon DEF FrameOK
<1>2. CASE h = g /\ i \in 1..d /\ i \in 1..Depth(h) /\ stack'[h][i] = stack[h][i] /\ stack[h][i].step = "body"
  <2>1. FrameOK(h, i) /\ (lost => lost')
    BY <1>2, Zenon DEF Core, Frames, Local
  <2>2. d \in Nat /\ (i > 1 => stack'[h][i - 1] = stack[h][i - 1])
    BY <1>2 DEF Local
  <2>3. QED
    BY <1>2, <2>1, <2>2, Zenon DEF FrameOK
<1>3. CASE h = g /\ i = d + 1 /\ Depth(h)' = d + 1
  BY <1>3, Zenon DEF TopOK
<1>4. QED
  BY <1>1, <1>2, <1>3, LocalCases

\* Threads that frames hold are still locked.
LEMMA LocalLocked ==
    ASSUME Core, NEW g \in Goroutine, NEW d, NEW t, Local(g, d, t), TopOK(g, d, t), UnderOK(g, d, t)
    PROVE  Locked'
<1> SUFFICES ASSUME NEW h \in Goroutine, NEW i \in 1..Depth(h)', Holds(stack'[h][i])
             PROVE  status'[stack'[h][i].thread] = "locked"
  BY Zenon DEF Locked
<1>1. ASSUME i \in 1..Depth(h), stack'[h][i] = stack[h][i], h = g => i <= d
      PROVE  status'[stack'[h][i].thread] = "locked"
  <2>1. status[stack[h][i].thread] = "locked" /\ FrameOK(h, i) /\ stack[h][i] \in Frame
    BY <1>1, StackFrames, Zenon DEF Core, Locked, Frames
  <2>2. stack[h][i].thread \in Thread
    BY <1>1, <2>1, Zenon DEF FrameOK, Holds, Frame
  <2>3. CASE stack[h][i].thread # t
    BY <1>1, <2>1, <2>2, <2>3, Zenon DEF Local
  <2>4. CASE stack[h][i].thread = t
    <3>1. h = g /\ stack[g][d].thread = t /\ d > 0
      BY <1>1, <2>4 DEF Local
    <3>2. QED
      BY <1>1, <2>4, <3>1, Zenon DEF UnderOK
  <2>5. QED
    BY <2>3, <2>4, Zenon
<1>2. CASE h = g /\ i = d + 1 /\ Depth(h)' = d + 1
  BY <1>2, Zenon DEF TopOK
<1>3. QED
  BY <1>1, <1>2, LocalCases

\* No thread gets a second holder.
LEMMA LocalExclusive ==
    ASSUME Core, NEW g \in Goroutine, NEW d, NEW t, Local(g, d, t), TopOK(g, d, t)
    PROVE  Exclusive'
<1> DEFINE Old(h, i) == /\ i \in 1..Depth(h) /\ stack'[h][i] = stack[h][i] /\ (h = g => i <= d)
           New(h, i) == h = g /\ i = d + 1 /\ Depth(h)' = d + 1
<1>1. \A h \in Goroutine : \A i \in 1..Depth(h)' : Old(h, i) \/ New(h, i)
  BY LocalCases
<1>2. d \in Nat /\ \A h \in Goroutine : Depth(h) \in Nat
  BY StackFrames, Zenon DEF Local, Core
<1> SUFFICES ASSUME NEW h \in Goroutine, NEW k \in Goroutine,
                    NEW i \in 1..Depth(h)', NEW j \in 1..Depth(k)',
                    Holds(stack'[h][i]), Holds(stack'[k][j]), stack'[h][i].thread = stack'[k][j].thread
             PROVE  h = k /\ (i < j => \A m \in (i + 1)..j : stack'[h][m].kind = "in")
  BY DEF Exclusive
<1>3. CASE Old(h, i) /\ Old(k, j)
  <2>1. h = k /\ (i < j => \A m \in (i + 1)..j : stack[h][m].kind = "in")
    BY <1>3 DEF Core, Exclusive
  <2>2. ASSUME NEW m \in (i + 1)..j, i < j PROVE stack'[h][m] = stack[h][m]
    BY <1>2, <1>3, <2>1, <2>2 DEF Local
  <2>3. QED
    BY <2>1, <2>2, Zenon
<1>4. CASE Old(h, i) /\ New(k, j)
  <2>1. stack[h][i].thread = t /\ Holds(stack[h][i])
    BY <1>4, Zenon DEF TopOK
  <2>2. h = g /\ d > 0 /\ stack[g][d].thread = t
    BY <1>2, <1>4, <2>1 DEF Local
  <2>3. d \in 1..Depth(g) /\ stack'[g][d] = stack[g][d] /\ stack[g][d].step = "body" /\ Holds(stack[g][d])
    BY <1>2, <2>2 DEF Local, Holds
  <2>4. i < d => \A m \in (i + 1)..d : stack[g][m].kind = "in"
    BY <1>4, <2>1, <2>2, <2>3 DEF Core, Exclusive
  <2>5. stack'[g][d + 1].kind = "in"
    BY <1>2, <1>4, <2>2, <2>3 DEF TopOK, FrameOK
  <2>6. ASSUME NEW m \in (i + 1)..(d + 1) PROVE stack'[g][m].kind = "in"
    <3>1. CASE m = d + 1
      BY <2>5, <3>1, Zenon
    <3>2. CASE m # d + 1
      <4>1. m \in (i + 1)..d /\ i < d /\ m \in 1..d
        BY <1>2, <2>6, <3>2
      <4>2. QED
        BY <2>4, <4>1, Zenon DEF Local
    <3>3. QED
      BY <3>1, <3>2, Zenon
  <2>7. QED
    BY <1>4, <2>2, <2>6, Zenon
<1>5. CASE New(h, i) /\ Old(k, j)
  <2>1. stack[k][j].thread = t /\ Holds(stack[k][j])
    BY <1>5, Zenon DEF TopOK
  <2>2. k = g /\ j <= d
    BY <1>5, <2>1, Zenon DEF Local
  <2>3. QED
    BY <1>2, <1>5, <2>2
<1>6. CASE New(h, i) /\ New(k, j)
  BY <1>2, <1>6
<1>7. QED
  BY <1>1, <1>3, <1>4, <1>5, <1>6, Zenon

\* Threads that other goroutines can be put on are where they may be.
LEMMA LocalThreads ==
    ASSUME Core, NEW g \in Goroutine, NEW d, NEW t, Local(g, d, t), ThreadOK(g, d, t)
    PROVE  Threads'
<1> SUFFICES ASSUME NEW u \in Thread
             PROVE  /\ status'[u] = "idle" => ns'[u] \in Safe'
                    /\ status'[u] = "none" => ns'[u] = Home
  BY Zenon DEF Threads
<1>1. CASE u = t
  BY <1>1, Zenon DEF ThreadOK
<1>2. CASE u # t
  <2>1. ns'[u] = ns[u] /\ status'[u] = status[u] /\ (lost => lost')
    BY <1>2, Zenon DEF Local
  <2>2. QED
    BY <2>1, Zenon DEF Core, Threads, Safe
<1>3. QED
  BY <1>1, <1>2, Zenon

\* A closure that is not at work stays in its namespace.
LEMMA LocalPlaced ==
    ASSUME Core, NEW g \in Goroutine, NEW d, NEW t, Local(g, d, t), TopOK(g, d, t), UnderOK(g, d, t)
    PROVE  Placed'
<1> SUFFICES ASSUME NEW h \in Goroutine, NEW i \in 1..Depth(h)' PROVE InPlace(h, i)'
  BY Zenon DEF Placed
<1>1. Safe \subseteq Safe'
  BY Zenon DEF Safe, Local
<1>2. CASE h # g /\ i \in 1..Depth(h) /\ Depth(h)' = Depth(h) /\ stack'[h] = stack[h]
  <2>1. InPlace(h, i) /\ FrameOK(h, i) /\ stack[h][i] \in Frame
    BY <1>2, StackFrames, Zenon DEF Core, Placed, Frames
  <2>2. CASE ~Holds(stack[h][i])
    BY <1>1, <1>2, <2>1, <2>2, Zenon DEF InPlace, Holds, Saved
  <2>3. CASE Holds(stack[h][i])
    <3>1. stack[h][i].thread \in Thread /\ stack[h][i].thread # t
      BY <1>2, <2>1, <2>3, Zenon DEF FrameOK, Holds, Frame, Local
    <3>2. ns'[stack[h][i].thread] = ns[stack[h][i].thread]
      BY <3>1, Zenon DEF Local
    <3>3. QED
      BY <1>1, <1>2, <2>1, <3>2, Zenon DEF InPlace, Base
  <2>4. QED
    BY <2>2, <2>3, Zenon
<1>3. CASE h = g /\ i \in 1..d /\ i \in 1..Depth(h) /\ stack'[h][i] = stack[h][i] /\ stack[h][i].step = "body"
  <2>1. InPlace(h, i) /\ FrameOK(h, i) /\ stack[h][i] \in Frame /\ d \in Nat /\ Depth(h) \in Nat
    BY <1>3, StackFrames, Zenon DEF Core, Placed, Frames, Local
  <2>2. stack[h][i].thread \in Thread /\ Holds(stack[h][i])
    BY <1>3, <2>1, Zenon DEF FrameOK, Holds, Frame
  <2>3. i > 1 => stack'[h][i - 1] = stack[h][i - 1]
    BY <1>3, <2>1 DEF Local
  <2>4. ~stack[h][i].undone /\ (i = Depth(h)' \/ stack'[h][i + 1].kind # "in")
        => ns'[stack[h][i].thread] = stack[h][i].target
    <3>1. CASE i = d
      <4>1. i = Depth(h)' => Depth(g)' = d
        BY <1>3, <3>1, Zenon
      <4>2. d > 0
        BY <2>1, <3>1
      <4>3. QED
        BY <1>3, <3>1, <4>1, <4>2, Zenon DEF UnderOK
    <3>2. CASE i # d
      <4>1. i < d /\ i + 1 \in 1..d /\ d \in 1..Depth(g) /\ i # Depth(h)' /\ i # Depth(h)
        BY <1>3, <2>1, <3>2 DEF Local
      <4>2. stack'[h][i + 1] = stack[h][i + 1] /\ stack[g][d].step = "body"
        BY <1>3, <2>1, <4>1 DEF Local
      <4>3. CASE stack[h][i].thread = t
        <5>1. stack[g][d].thread = t /\ Holds(stack[g][d])
          BY <1>3, <2>2, <4>1, <4>2, <4>3, Zenon DEF Local, Holds
        <5>2. stack[h][i + 1].kind = "in"
          BY <1>3, <2>2, <4>1, <4>3, <5>1 DEF Core, Exclusive
        <5>3. QED
          BY <4>1, <4>2, <5>2, Zenon
      <4>4. CASE stack[h][i].thread # t
        <5>1. ns'[stack[h][i].thread] = ns[stack[h][i].thread]
          BY <2>2, <4>4, Zenon DEF Local
        <5>2. QED
          BY <1>3, <2>1, <4>1, <4>2, <5>1, Zenon DEF InPlace
      <4>5. QED
        BY <4>3, <4>4, Zenon
    <3>3. QED
      BY <3>1, <3>2, Zenon
  <2>5. QED
    BY <1>1, <1>3, <2>1, <2>3, <2>4, Zenon DEF InPlace, Base
<1>4. CASE h = g /\ i = d + 1 /\ Depth(h)' = d + 1
  BY <1>4, Zenon DEF TopOK
<1>5. QED
  BY <1>2, <1>3, <1>4, LocalCases

\* A thread of inNamespace calls only is not taken to a temporary namespace.
LEMMA LocalNotTemp ==
    ASSUME Core, NEW g \in Goroutine, NEW d, NEW t, Local(g, d, t), TopOK(g, d, t), ThreadOK(g, d, t)
    PROVE  NotTemp'
<1> DEFINE Old(h, i) == /\ i \in 1..Depth(h) /\ stack'[h][i] = stack[h][i] /\ (h = g => i <= d)
           New(h, i) == h = g /\ i = d + 1 /\ Depth(h)' = d + 1
<1>1. \A h \in Goroutine : \A i \in 1..Depth(h)' : Old(h, i) \/ New(h, i)
  BY LocalCases
<1>2. d \in Nat /\ \A h \in Goroutine : Depth(h) \in Nat
  BY StackFrames, Zenon DEF Local, Core
<1>3. \A h \in Goroutine : \A i \in 1..Depth(h) : (h = g => i <= d) => i \in 1..Depth(h)' /\ stack'[h][i] = stack[h][i]
  BY <1>2 DEF Local
<1> SUFFICES ASSUME NEW u \in Thread, InOnly(u)'
             PROVE  /\ ns'[u] \in {Home} \cup Named
                    /\ \A h \in Goroutine : \A i \in 1..Depth(h)' :
                          Holds(stack'[h][i]) /\ stack'[h][i].thread = u /\ stack'[h][i].step \in Saved
                          => stack'[h][i].saved \in {Home} \cup Named
  BY Zenon DEF NotTemp
<1>4. ASSUME NEW h \in Goroutine, NEW i, Old(h, i), Holds(stack[h][i]), stack[h][i].thread = u
      PROVE  InOnly(u)
  <2> SUFFICES ASSUME NEW k \in Goroutine, NEW j \in 1..Depth(k), Holds(stack[k][j]), stack[k][j].thread = u
               PROVE  stack[k][j].kind = "in"
    BY Zenon DEF InOnly
  <2>1. CASE k = g => j <= d
    BY <1>3, <2>1, Zenon DEF InOnly
  <2>2. CASE k = g /\ j > d
    <3>1. h = k /\ i < j
      BY <1>2, <1>4, <2>2 DEF Core, Exclusive
    <3>2. QED
      BY <1>2, <1>4, <3>1 DEF Core, Exclusive
  <2>3. QED
    BY <1>2, <2>1, <2>2
<1>5. ns'[u] \in {Home} \cup Named
  <2>1. CASE u = t
    BY <2>1, Zenon DEF ThreadOK
  <2>2. CASE u # t
    <3>1. ns'[u] = ns[u]
      BY <2>2, Zenon DEF Local
    <3>2. CASE \E h \in Goroutine : \E i \in 1..Depth(h) : Old(h, i) /\ Holds(stack[h][i]) /\ stack[h][i].thread = u
      BY <1>4, <3>1, <3>2, Zenon DEF Core, NotTemp
    <3>3. CASE \A h \in Goroutine : \A i \in 1..Depth(h) : Old(h, i) => ~(Holds(stack[h][i]) /\ stack[h][i].thread = u)
      <4>1. ASSUME NEW k \in Goroutine, NEW j \in 1..Depth(k), Holds(stack[k][j]), stack[k][j].thread = u
            PROVE  FALSE
        <5>1. CASE k = g => j <= d
          BY <1>3, <3>3, <4>1, <5>1, Zenon
        <5>2. CASE k = g /\ j > d
          <6>1. j \in (d + 1)..Depth(g)
            BY <1>2, <5>2
          <6>2. QED
            BY <2>2, <4>1, <5>2, <6>1, Zenon DEF Local
        <5>3. QED
          BY <1>2, <5>1, <5>2
      <4>2. InOnly(u)
        BY <4>1, Zenon DEF InOnly
      <4>3. QED
        BY <3>1, <4>2, Zenon DEF Core, NotTemp
    <3>4. QED
      BY <3>2, <3>3, Zenon
  <2>3. QED
    BY <2>1, <2>2, Zenon
<1>6. ASSUME NEW h \in Goroutine, NEW i \in 1..Depth(h)',
             Holds(stack'[h][i]), stack'[h][i].thread = u, stack'[h][i].step \in Saved
      PROVE  stack'[h][i].saved \in {Home} \cup Named
  <2>1. CASE Old(h, i)
    <3>1. InOnly(u)
      BY <1>4, <1>6, <2>1, Zenon
    <3>2. QED
      BY <1>6, <2>1, <3>1, Zenon DEF Core, NotTemp
  <2>2. CASE New(h, i)
    BY <1>6, <2>2, Zenon DEF TopOK, ThreadOK
  <2>3. QED
    BY <1>1, <2>1, <2>2, Zenon
<1>7. QED
  BY <1>5, <1>6, Zenon

\* A step that keeps to its own thread and frame keeps what is shown of all of them.
LEMMA LocalCore ==
    ASSUME Core, NEW g \in Goroutine, NEW d, NEW t, Local(g, d, t), Types',
           TopOK(g, d, t), UnderOK(g, d, t), ThreadOK(g, d, t)
    PROVE  Core'
<1>1. Objects'
  <2> SUFFICES ASSUME ~lost', NEW h \in Goroutine, NEW i \in 1..Depth(h)', stack'[h][i].kind \in {"do", "path"}
               PROVE  stack'[h][i].object = IF i = 1 THEN Home ELSE stack'[h][i - 1].target
    BY Zenon DEF Objects
  <2>1. ~lost /\ d \in Nat
    BY Zenon DEF Local
  <2>2. CASE h # g /\ i \in 1..Depth(h) /\ Depth(h)' = Depth(h) /\ stack'[h] = stack[h]
    BY <2>1, <2>2, Zenon DEF Core, Objects
  <2>3. CASE h = g /\ i \in 1..d /\ i \in 1..Depth(h) /\ stack'[h][i] = stack[h][i] /\ stack[h][i].step = "body"
    <3>1. i > 1 => stack'[h][i - 1] = stack[h][i - 1]
      BY <2>1, <2>3 DEF Local
    <3>2. QED
      BY <2>1, <2>3, <3>1 DEF Core, Objects
  <2>4. CASE h = g /\ i = d + 1 /\ Depth(h)' = d + 1
    <3>1. i > 1 => stack'[h][i - 1] = stack[g][d]
      BY <2>1, <2>4 DEF Local
    <3>2. QED
      BY <2>1, <2>4, <3>1 DEF TopOK
  <2>5. QED
    BY <2>2, <2>3, <2>4, LocalCases
<1>2. QED
  BY <1>1, LocalFrames, LocalLocked, LocalExclusive, LocalThreads, LocalPlaced, LocalNotTemp, Zenon DEF Core

-----------------------------------------------------------------------------
\* The frame at work, and those under it.
LEMMA AtWork ==
    ASSUME Core, NEW g \in Goroutine, stack[g] # <<>>
    PROVE  \E d \in Nat :
              /\ Depth(g) = d + 1 /\ d + 1 \in 1..Depth(g)
              /\ Top(g) = stack[g][d + 1] /\ Top(g) \in Frame
              /\ FrameOK(g, d + 1) /\ InPlace(g, d + 1)
              /\ \A i \in 1..d : stack[g][i].step = "body" /\ stack[g][i] \in Frame
              /\ Nested(g) <=> d > 0 /\ Top(g).kind = "in"
<1>1. Types /\ Depth(g) \in Nat /\ Depth(g) > 0 /\ Top(g) = stack[g][Depth(g)] /\ Top(g) \in Frame
  BY TopFrame, Zenon DEF Core
<1> DEFINE d == Depth(g) - 1
<1>2. d \in Nat /\ Depth(g) = d + 1 /\ d + 1 \in 1..Depth(g) /\ Top(g) = stack[g][d + 1]
  BY <1>1
<1>3. FrameOK(g, d + 1) /\ InPlace(g, d + 1)
  BY <1>2, Zenon DEF Core, Frames, Placed
<1>4. ASSUME NEW i \in 1..d PROVE stack[g][i].step = "body" /\ stack[g][i] \in Frame
  <2>1. i \in 1..Depth(g) /\ i < Depth(g)
    BY <1>1
  <2>2. FrameOK(g, i)
    BY <2>1, Zenon DEF Core, Frames
  <2>3. QED
    BY <1>1, <2>1, <2>2, StackFrames, Zenon DEF FrameOK
<1>5. Nested(g) <=> d > 0 /\ Top(g).kind = "in"
  <2>1. Len(stack[g]) = d + 1 /\ Len(stack[g]) - 1 = d
    BY <1>2, Zenon DEF Depth
  <2>2. d > 0 => (Top(g).kind = "in" <=> Top(g).thread = stack[g][d].thread)
    BY <1>2, <1>3 DEF FrameOK
  <2>3. QED
    BY <1>2, <2>1, <2>2 DEF Nested
<1>6. QED
  BY <1>1, <1>2, <1>3, <1>4, <1>5, Zenon

\* The thread of the frame at work belongs to its goroutine, and to the closure
\* under it only when the frame is that of an inNamespace.
LEMMA OwnThread ==
    ASSUME Core, NEW g \in Goroutine, NEW d \in Nat, Depth(g) = d + 1, Holds(stack[g][d + 1])
    PROVE  /\ stack[g][d + 1].thread \in Thread /\ status[stack[g][d + 1].thread] = "locked"
           /\ \A h \in Goroutine : \A i \in 1..Depth(h) :
                Holds(stack[h][i]) /\ stack[h][i].thread = stack[g][d + 1].thread
                => h = g /\ (i < d => stack[g][d].thread = stack[g][d + 1].thread)
           /\ d > 0 => /\ stack[g][d].thread \in Thread
                       /\ stack[g][d + 1].kind = "in" <=> stack[g][d].thread = stack[g][d + 1].thread
<1>1. d + 1 \in 1..Depth(g) /\ FrameOK(g, d + 1) /\ stack[g][d + 1] \in Frame /\ stack[g] # <<>>
  BY StackFrames DEF Core, Frames
<1>2. stack[g][d + 1].thread \in Thread /\ status[stack[g][d + 1].thread] = "locked"
  BY <1>1, Zenon DEF Core, Locked, FrameOK, Holds, Frame
<1>3. ASSUME d > 0
      PROVE  /\ stack[g][d].thread \in Thread
             /\ stack[g][d + 1].kind = "in" <=> stack[g][d].thread = stack[g][d + 1].thread
  <2>1. d \in 1..Depth(g) /\ d < Depth(g) /\ FrameOK(g, d) /\ stack[g][d] \in Frame
    BY <1>3, StackFrames DEF Core, Frames
  <2>2. stack[g][d].thread \in Thread
    BY <2>1, Zenon DEF FrameOK, Frame
  <2>3. QED
    BY <1>1, <1>3, <2>2 DEF FrameOK
<1>4. ASSUME NEW h \in Goroutine, NEW i \in 1..Depth(h), Holds(stack[h][i]),
             stack[h][i].thread = stack[g][d + 1].thread
      PROVE  h = g /\ (i < d => stack[g][d].thread = stack[g][d + 1].thread)
  <2>1. h = g /\ (i < d + 1 => \A k \in (i + 1)..(d + 1) : stack[g][k].kind = "in")
    BY <1>1, <1>4 DEF Core, Exclusive
  <2>2. ASSUME i < d PROVE stack[g][d].thread = stack[g][d + 1].thread
    <3>1. stack[g][d + 1].kind = "in" /\ d > 0
      BY <2>1, <2>2
    <3>2. QED
      BY <1>3, <3>1, Zenon
  <2>3. QED
    BY <2>1, <2>2, Zenon
<1>5. QED
  BY <1>2, <1>3, <1>4, Zenon

\* The step changes the frame at work only, which becomes f.
Replaces(g, d, f) ==
    /\ d \in Nat /\ Depth(g) = d + 1 /\ Depth(g)' = d + 1
    /\ \A h \in Goroutine : h # g => stack'[h] = stack[h] /\ Depth(h)' = Depth(h)
    /\ \A i \in 1..d : stack'[g][i] = stack[g][i]
    /\ stack'[g][d + 1] = f

\* The step takes the frame at work away.
Removes(g, d) ==
    /\ d \in Nat /\ Depth(g) = d + 1 /\ Depth(g)' = d
    /\ \A h \in Goroutine : h # g => stack'[h] = stack[h] /\ Depth(h)' = Depth(h)
    /\ \A i \in 1..d : stack'[g][i] = stack[g][i]

\* Other threads than t stay as they are.
Spares(t) == \A u \in Thread : u # t => ns'[u] = ns[u] /\ status'[u] = status[u]

\* A step of a frame that holds its thread keeps to that thread.
LEMMA KeepsToThread ==
    ASSUME Core, NEW g \in Goroutine, NEW d \in Nat, Holds(stack[g][d + 1]),
           Removes(g, d) \/ Replaces(g, d, stack'[g][d + 1]),
           Spares(stack[g][d + 1].thread), lost => lost'
    PROVE  Local(g, d, stack[g][d + 1].thread)
<1>1. Depth(g) = d + 1
  BY Zenon DEF Removes, Replaces
<1>2. ASSUME NEW i \in 1..d PROVE stack[g][i].step = "body"
  <2>1. FrameOK(g, i) /\ i < Depth(g)
    BY <1>1 DEF Core, Frames
  <2>2. QED
    BY <2>1, Zenon DEF FrameOK
<1>3. ASSUME NEW i \in (d + 1)..Depth(g) PROVE stack[g][i].thread = stack[g][d + 1].thread
  <2>1. i = d + 1
    BY <1>1
  <2>2. QED
    BY <2>1, Zenon
<1>4. \A h \in Goroutine : \A i \in 1..Depth(h) :
         Holds(stack[h][i]) /\ stack[h][i].thread = stack[g][d + 1].thread
         => h = g /\ (i < d => stack[g][d].thread = stack[g][d + 1].thread)
  BY <1>1, OwnThread, Zenon
<1>5. /\ d <= Depth(g) /\ Depth(g)' \in {d, d + 1}
      /\ \A h \in Goroutine : h # g => stack'[h] = stack[h] /\ Depth(h)' = Depth(h)
      /\ \A i \in 1..d : stack'[g][i] = stack[g][i]
  BY <1>1 DEF Removes, Replaces
<1>6. QED
  BY <1>2, <1>3, <1>4, <1>5, Zenon DEF Local, Spares

\* The closure under a frame that stays, or that ends on a thread of its own, is
\* left as it was.
LEMMA UnderStays ==
    ASSUME Core, NEW g \in Goroutine, NEW d \in Nat, NEW f, Holds(stack[g][d + 1]),
           Replaces(g, d, f), f.kind = stack[g][d + 1].kind,
           Spares(stack[g][d + 1].thread),
           f.kind = "in" => status' = status
    PROVE  UnderOK(g, d, stack[g][d + 1].thread)
<1> SUFFICES ASSUME d > 0
             PROVE  /\ stack[g][d].thread = stack[g][d + 1].thread
                       => status'[stack[g][d + 1].thread] = "locked"
                    /\ ~stack[g][d].undone /\ f.kind # "in"
                       => ns'[stack[g][d].thread] = stack[g][d].target
  BY DEF UnderOK, Replaces
<1>1. Depth(g) = d + 1 /\ d \in 1..Depth(g) /\ d < Depth(g)
  BY DEF Replaces
<1>2. /\ status[stack[g][d + 1].thread] = "locked"
      /\ stack[g][d].thread \in Thread
      /\ stack[g][d + 1].kind = "in" <=> stack[g][d].thread = stack[g][d + 1].thread
  BY <1>1, OwnThread, Zenon
<1>3. FrameOK(g, d) /\ InPlace(g, d)
  BY <1>1, Zenon DEF Core, Frames, Placed
<1>4. ~stack[g][d].undone /\ f.kind # "in" => ns[stack[g][d].thread] = stack[g][d].target
  BY <1>1, <1>3, Zenon DEF FrameOK, InPlace
<1>5. QED
  BY <1>2, <1>4, Zenon DEF Spares

\* A thread that only inNamespace calls hold after a step did not have another
\* holder before, but for the frame at work.
LEMMA InOnlyBefore ==
    ASSUME Core, NEW g \in Goroutine, NEW d \in Nat, NEW t, InOnly(t)',
           Removes(g, d) \/ Replaces(g, d, stack'[g][d + 1]),
           stack[g][d + 1].kind = "in"
    PROVE  InOnly(t)
<1> SUFFICES ASSUME NEW h \in Goroutine, NEW i \in 1..Depth(h), Holds(stack[h][i]), stack[h][i].thread = t
             PROVE  stack[h][i].kind = "in"
  BY Zenon DEF InOnly
<1>1. Depth(g) = d + 1 /\ Depth(h) \in Nat
  BY StackFrames, Zenon DEF Removes, Replaces, Core
<1>2. CASE h # g
  <2>1. stack'[h] = stack[h] /\ Depth(h)' = Depth(h)
    BY <1>2, Zenon DEF Removes, Replaces
  <2>2. QED
    BY <2>1, Zenon DEF InOnly
<1>3. CASE h = g /\ i <= d
  <2>1. stack'[h][i] = stack[h][i] /\ i \in 1..Depth(h)'
    BY <1>1, <1>3 DEF Removes, Replaces
  <2>2. QED
    BY <2>1, Zenon DEF InOnly
<1>4. CASE h = g /\ i = d + 1
  BY <1>4, Zenon
<1>5. QED
  BY <1>1, <1>2, <1>3, <1>4

\* A step of a call that goes on keeps what is shown of threads and frames.
LEMMA StepCore ==
    ASSUME Core, NEW g \in Goroutine, NEW d \in Nat, NEW e, NEW f, Types',
           e = stack[g][d + 1], Replaces(g, d, f), Holds(e), Holds(f),
           f.kind = e.kind, f.target = e.target, f.thread = e.thread,
           e.kind \in {"do", "path"} => f.object = e.object,
           status' = status, \A u \in Thread : u # e.thread => ns'[u] = ns[u],
           lost' = lost, FrameOK(g, d + 1)', InPlace(g, d + 1)',
           e.kind = "in" => /\ ns'[e.thread] \in {ns[e.thread], e.target}
                            /\ f.step \in Saved => \/ f.saved = ns[e.thread]
                                                   \/ f.saved = e.saved /\ e.step \in Saved
    PROVE  Core'
<1>1. Depth(g) = d + 1 /\ d + 1 \in 1..Depth(g) /\ Depth(g)' = d + 1 /\ stack'[g][d + 1] = f
  BY DEF Replaces
<1>2. Spares(e.thread) /\ e.thread \in Thread /\ status[e.thread] = "locked" /\ FrameOK(g, d + 1)
  <2>1. e.thread \in Thread /\ status[e.thread] = "locked"
    BY <1>1, OwnThread, Zenon
  <2>2. FrameOK(g, d + 1)
    BY <1>1, Zenon DEF Core, Frames
  <2>3. QED
    BY <2>1, <2>2, Zenon DEF Spares
<1>3. Local(g, d, e.thread)
  BY <1>1, <1>2, KeepsToThread, Zenon
<1>4. UnderOK(g, d, e.thread)
  BY <1>2, UnderStays, Zenon
<1>5. TopOK(g, d, e.thread)
  <2>1. ~lost' /\ f.kind \in {"do", "path"} => f.object = IF d = 0 THEN Home ELSE stack[g][d].target
    BY <1>1 DEF Core, Objects
  <2>2. QED
    BY <1>1, <1>2, <2>1, Zenon DEF TopOK
<1>6. ThreadOK(g, d, e.thread)
  <2> SUFFICES ASSUME InOnly(e.thread)'
               PROVE  /\ ns'[e.thread] \in {Home} \cup Named
                      /\ f.step \in Saved => f.saved \in {Home} \cup Named
    BY <1>1, <1>2, Zenon DEF ThreadOK
  <2>1. e.kind = "in"
    BY <1>1, Zenon DEF InOnly
  <2>2. InOnly(e.thread)
    BY <1>1, <2>1, InOnlyBefore, Zenon
  <2>3. /\ ns[e.thread] \in {Home} \cup Named
        /\ e.step \in Saved => e.saved \in {Home} \cup Named
    BY <1>1, <1>2, <2>2, Zenon DEF Core, NotTemp
  <2>4. e.target \in Named
    BY <1>2, <2>1, Zenon DEF FrameOK
  <2>5. QED
    BY <2>1, <2>3, <2>4, Zenon
<1>7. QED
  BY <1>3, <1>4, <1>5, <1>6, LocalCore, Zenon

-----------------------------------------------------------------------------
\* Types of what the steps of calls change.
LEMMA StepTypes ==
    ASSUME Types, Step, Fault \/ Works, status' \in [Thread -> {"none", "idle", "locked"}],
           ns' \in [Thread -> NS], stack' \in [Goroutine -> Seq(Frame)],
           \A g \in Goroutine : Depth(g)' <= MaxDepth
    PROVE  Types'
BY BoundAssumption DEF Types, Step, Fault, Works

\* A step of a call, as a change of its frame.
LEMMA UpdateStep ==
    ASSUME Types, NEW g \in Goroutine, NEW d \in Nat, Depth(g) = d + 1, stack[g] # <<>>,
           NEW f \in Frame, Update(g, f)
    PROVE  /\ Replaces(g, d, f) /\ stack' \in [Goroutine -> Seq(Frame)]
           /\ \A h \in Goroutine : Depth(h)' <= MaxDepth
<1>1. /\ stack' \in [Goroutine -> Seq(Frame)]
      /\ \A h \in Goroutine : h # g => stack'[h] = stack[h]
      /\ Depth(g)' = Depth(g)
      /\ \A i \in 1..(Depth(g) - 1) : stack'[g][i] = stack[g][i]
      /\ stack'[g][Depth(g)] = f
  BY UpdateFacts, Zenon
<1>2. \A h \in Goroutine : h # g => Depth(h)' = Depth(h)
  BY <1>1, Zenon DEF Depth
<1>3. Depth(g) - 1 = d
  OBVIOUS
<1>4. \A h \in Goroutine : Depth(h)' <= MaxDepth
  BY <1>1, <1>2, Zenon DEF Types
<1>5. QED
  BY <1>1, <1>2, <1>3, <1>4, Zenon DEF Replaces

\* The return of a call, as a change of the stack.
LEMMA PopStep ==
    ASSUME Types, NEW g \in Goroutine, NEW d \in Nat, Depth(g) = d + 1, stack[g] # <<>>, Pop(g)
    PROVE  /\ Removes(g, d) /\ stack' \in [Goroutine -> Seq(Frame)]
           /\ \A h \in Goroutine : Depth(h)' <= MaxDepth
<1>1. /\ stack' \in [Goroutine -> Seq(Frame)]
      /\ \A h \in Goroutine : h # g => stack'[h] = stack[h]
      /\ Depth(g)' = Depth(g) - 1
      /\ \A i \in 1..(Depth(g) - 1) : stack'[g][i] = stack[g][i]
  BY PopFacts, Zenon
<1>2. \A h \in Goroutine : h # g => Depth(h)' = Depth(h)
  BY <1>1, Zenon DEF Depth
<1>3. Depth(g) - 1 = d
  OBVIOUS
<1>4. ASSUME NEW h \in Goroutine PROVE Depth(h)' <= MaxDepth
  <2>1. Depth(h) <= MaxDepth /\ d + 1 <= MaxDepth
    BY Zenon DEF Types
  <2>2. d <= MaxDepth
    BY <2>1, BoundAssumption
  <2>3. QED
    BY <1>1, <1>2, <1>3, <2>1, <2>2, Zenon
<1>5. QED
  BY <1>1, <1>2, <1>3, <1>4, Zenon DEF Removes

\* The position after another one.
LEMMA Above ==
    ASSUME NEW d \in Nat
    PROVE  /\ (d + 1) - 1 = d /\ d + 1 # d /\ ~(d + 1 < d + 1)
           /\ d + 1 > 1 <=> d > 0
           /\ d + 1 = 1 <=> d = 0
           /\ d > 0 => d \in 1..d
           /\ d = 0 \/ d > 0
OBVIOUS

\* A call goes on to another of its steps: the frame is as before but for the step
\* and the handle.
LEMMA FrameMoves ==
    ASSUME NEW g \in Goroutine, NEW d \in Nat, NEW e, NEW f, e = stack[g][d + 1], FrameOK(g, d + 1),
           stack'[g][d + 1] = f, Depth(g)' = d + 1, d > 0 => stack'[g][d] = stack[g][d],
           f.kind = e.kind, f.target = e.target, f.thread = e.thread,
           f.undone => lost', f.step \in Saved, f.saved \in NS, e.step # "spawn",
           f.kind = "in" => f.step \in {"set", "body", "restore"},
           f.kind \in {"do", "path"} => f.step \in {"set", "body", "restore"},
           f.kind = "temp" => f.step \in {"unshare", "handle", "restore"}
    PROVE  FrameOK(g, d + 1)'
<1>1. (d + 1) - 1 = d /\ ~(d + 1 < d + 1) /\ (d + 1 > 1 <=> d > 0)
  BY Above, Zenon
<1>2. /\ e.kind = "in" => e.target \in Named
      /\ e.thread # None
      /\ d > 0 => (e.kind = "in" <=> e.thread = stack[g][d].thread)
  BY <1>1, Zenon DEF FrameOK
<1>3. f.step # "spawn"
  BY Zenon DEF Saved
<1>4. d > 0 => (f.kind = "in" <=> f.thread = stack'[g][d].thread)
  BY <1>2, Zenon
<1>5. QED
  BY <1>1, <1>2, <1>3, <1>4, Zenon DEF FrameOK

\* A call that has its handle comes back to the same place.
LEMMA PlaceMoves ==
    ASSUME NEW g \in Goroutine, NEW d \in Nat, NEW e, NEW f, e = stack[g][d + 1], InPlace(g, d + 1),
           stack'[g][d + 1] = f, Depth(g)' = d + 1, d > 0 => stack'[g][d] = stack[g][d],
           f.kind = e.kind, f.saved = e.saved, e.step \in Saved,
           f.step \in {"handle", "body", "restore"},
           f.step = "body" /\ ~f.undone => ns'[f.thread] = f.target,
           Safe \subseteq Safe'
    PROVE  InPlace(g, d + 1)'
<1>1. (d + 1) - 1 = d /\ (d + 1 > 1 <=> d > 0) /\ (d + 1 = 1 <=> d = 0)
  BY Above, Zenon
<1>2. e.kind = "in" /\ d > 0 /\ ~stack[g][d].undone => e.saved = stack[g][d].target
  BY <1>1, Zenon DEF InPlace
<1>3. d = 0 \/ e.kind # "in" => e.saved \in Safe
  BY <1>1, Zenon DEF InPlace, Base
<1>4. f.kind = "in" /\ d > 0 /\ ~stack'[g][d].undone => f.saved = stack'[g][d].target
  BY <1>2, Zenon
<1>5. d = 0 \/ f.kind # "in" => f.saved \in Safe'
  BY <1>3, Zenon
<1>6. f.step \notin {"get", "set", "unshare"}
  BY Zenon
<1>7. QED
  BY <1>1, <1>4, <1>5, <1>6, Zenon DEF InPlace, Base

\* netns.Get and getCurrentNSNoLock: the handle is of the namespace of the thread.
LEMMA GetCore ==
    ASSUME Core, NEW g \in Goroutine, Get(g)
    PROVE  Core'
<1>1. stack[g] # <<>> /\ Top(g).step = "get"
  BY Zenon DEF Get, At
<1>2. PICK d \in Nat : /\ Depth(g) = d + 1 /\ d + 1 \in 1..Depth(g)
                       /\ Top(g) = stack[g][d + 1] /\ Top(g) \in Frame
                       /\ FrameOK(g, d + 1) /\ InPlace(g, d + 1)
                       /\ \A i \in 1..d : stack[g][i].step = "body" /\ stack[g][i] \in Frame
  BY <1>1, AtWork, Zenon
<1> DEFINE e == Top(g)
           f == [e EXCEPT !.saved = ns[e.thread], !.step = IF e.kind = "temp" THEN "unshare" ELSE "set"]
<1>3. Types /\ Holds(e)
  BY <1>1, Zenon DEF Core, Holds
<1>4. e.thread \in Thread /\ ns[e.thread] \in NS
  <2>1. e.thread \in Thread
    BY <1>2, <1>3, OwnThread, Zenon
  <2>2. QED
    BY <1>3, <2>1, Zenon DEF Types
<1>5. /\ f \in Frame /\ f.kind = e.kind /\ f.target = e.target /\ f.thread = e.thread /\ f.object = e.object
      /\ f.undone = e.undone /\ f.saved = ns[e.thread] /\ f.step = IF e.kind = "temp" THEN "unshare" ELSE "set"
  BY <1>2, <1>4, Zenon DEF Frame
<1>6. Update(g, f) /\ UNCHANGED threads /\ Works /\ Step
  BY Zenon DEF Get
<1> HIDE DEF f
<1>7. Replaces(g, d, f) /\ Types'
  BY <1>1, <1>2, <1>3, <1>5, <1>6, UpdateStep, StepTypes, Zenon DEF Types, threads
<1>8. stack'[g][d + 1] = f /\ Depth(g)' = d + 1 /\ lost' = lost /\ ns' = ns /\ status' = status
      /\ (d > 0 => stack'[g][d] = stack[g][d])
  BY <1>6, <1>7, Above, Zenon DEF Replaces, Step, threads
<1>9. FrameOK(g, d + 1)'
  <2>1. /\ f.step \in Saved /\ f.saved \in NS /\ e.step # "spawn" /\ (f.undone => lost')
        /\ f.kind # "temp" => f.step \in {"set", "body", "restore"}
        /\ f.kind = "temp" => f.step \in {"unshare", "handle", "restore"}
    BY <1>1, <1>2, <1>4, <1>5, <1>8, Zenon DEF FrameOK, Saved
  <2>2. QED
    BY <1>2, <1>5, <1>8, <2>1, FrameMoves, Zenon
<1>10. InPlace(g, d + 1)'
  BY <1>1, <1>2, <1>5, <1>8 DEF InPlace, Base, Saved, Safe
<1>11. Holds(f)
  BY <1>5, Zenon DEF Holds
<1>12. QED
  BY <1>2, <1>3, <1>5, <1>7, <1>8, <1>9, <1>10, <1>11, StepCore, Zenon

\* A frame one step further.
Moved(e, a) == [e EXCEPT !.step = a]

\* Only its step changes.
LEMMA WithStep ==
    ASSUME NEW e \in Frame,
           NEW a \in {"spawn", "get", "set", "unshare", "handle", "body", "restore", "done"}
    PROVE  /\ Moved(e, a) \in Frame /\ Moved(e, a).kind = e.kind /\ Moved(e, a).target = e.target
           /\ Moved(e, a).thread = e.thread /\ Moved(e, a).object = e.object
           /\ Moved(e, a).undone = e.undone /\ Moved(e, a).saved = e.saved /\ Moved(e, a).step = a
           /\ e.target \in NS
<1>1. Moved(e, a) \in Frame /\ e.target \in NS
  BY Zenon DEF Frame, Moved
<1>2. /\ Moved(e, a).kind = e.kind /\ Moved(e, a).target = e.target
      /\ Moved(e, a).thread = e.thread /\ Moved(e, a).object = e.object
  BY Zenon DEF Frame, Moved
<1>3. Moved(e, a).undone = e.undone /\ Moved(e, a).saved = e.saved /\ Moved(e, a).step = a
  BY Zenon DEF Frame, Moved
<1>4. QED
  BY <1>1, <1>2, <1>3, Zenon

\* setns into the target: the closure runs there.
LEMMA SetCore ==
    ASSUME Core, NEW g \in Goroutine, Set(g)
    PROVE  Core'
<1>1. stack[g] # <<>> /\ Top(g).step = "set"
  BY Zenon DEF Set, At
<1>2. PICK d \in Nat : /\ Depth(g) = d + 1 /\ d + 1 \in 1..Depth(g)
                       /\ Top(g) = stack[g][d + 1] /\ Top(g) \in Frame
                       /\ FrameOK(g, d + 1) /\ InPlace(g, d + 1)
  BY <1>1, AtWork, Zenon
<1> DEFINE e == Top(g)
           f == Moved(e, "body")
<1>3. Types /\ Holds(e) /\ e.kind \in {"in", "do", "path"}
  BY <1>1, Zenon DEF Core, Holds, Set, At
<1>4. e.thread \in Thread
  BY <1>1, <1>2, Zenon DEF FrameOK, Frame
<1>5. /\ f \in Frame /\ f.kind = e.kind /\ f.target = e.target /\ f.thread = e.thread /\ f.object = e.object
      /\ f.undone = e.undone /\ f.saved = e.saved /\ f.step = "body" /\ e.target \in NS
  BY <1>2, WithStep, Zenon
<1>6. Update(g, f) /\ status' = status /\ Works /\ Step /\ ns' = [ns EXCEPT ![e.thread] = e.target]
  BY Zenon DEF Set, threads, Moved
<1> HIDE DEF f
<1>7. ns' \in [Thread -> NS] /\ (\A u \in Thread : u # e.thread => ns'[u] = ns[u]) /\ ns'[e.thread] = e.target
  BY <1>3, <1>4, <1>5, <1>6, Zenon DEF Types
<1>8. Replaces(g, d, f) /\ stack' \in [Goroutine -> Seq(Frame)] /\ \A h \in Goroutine : Depth(h)' <= MaxDepth
  BY <1>1, <1>2, <1>3, <1>5, <1>6, UpdateStep, Zenon
<1>9. Types'
  <2>1. status' \in [Thread -> {"none", "idle", "locked"}]
    BY <1>3, <1>6, Zenon DEF Types
  <2>2. QED
    BY <1>3, <1>6, <1>7, <1>8, <2>1, StepTypes, Zenon
<1>10. stack'[g][d + 1] = f /\ Depth(g)' = d + 1 /\ lost' = lost /\ (d > 0 => stack'[g][d] = stack[g][d])
  BY <1>6, <1>8, Above, Zenon DEF Replaces, Step
<1>11. FrameOK(g, d + 1)'
  <2>1. f.step \in Saved /\ f.saved \in NS /\ e.step # "spawn" /\ (f.undone => lost')
    BY <1>1, <1>2, <1>5, <1>10, Zenon DEF FrameOK, Saved
  <2>2. QED
    BY <1>2, <1>3, <1>5, <1>10, <2>1, FrameMoves, Zenon
<1>12. InPlace(g, d + 1)'
  <2>1. e.step \in Saved /\ Safe \subseteq Safe' /\ (f.step = "body" => ns'[f.thread] = f.target)
    BY <1>1, <1>5, <1>7, <1>10, Zenon DEF Saved, Safe
  <2>2. QED
    BY <1>2, <1>5, <1>10, <2>1, PlaceMoves, Zenon
<1>13. Holds(f) /\ e.step \in Saved
  BY <1>1, <1>5, Zenon DEF Holds, Saved
<1>14. QED
  BY <1>2, <1>3, <1>5, <1>6, <1>7, <1>8, <1>9, <1>10, <1>11, <1>12, <1>13, StepCore, Zenon

\* unshare gives the thread of TempNetNS a new namespace.
LEMMA UnshareCore ==
    ASSUME Core, NEW g \in Goroutine, Unshare(g)
    PROVE  Core'
<1>1. stack[g] # <<>> /\ Top(g).step = "unshare"
  BY Zenon DEF Unshare, At
<1>2. PICK d \in Nat : /\ Depth(g) = d + 1 /\ d + 1 \in 1..Depth(g)
                       /\ Top(g) = stack[g][d + 1] /\ Top(g) \in Frame
                       /\ FrameOK(g, d + 1) /\ InPlace(g, d + 1)
  BY <1>1, AtWork, Zenon
<1> DEFINE e == Top(g)
           f == Moved(e, "handle")
<1>3. Types /\ Holds(e) /\ e.kind \in {"temp"}
  BY <1>1, Zenon DEF Core, Holds, Unshare, At
<1>4. e.thread \in Thread
  BY <1>1, <1>2, Zenon DEF FrameOK, Frame
<1>5. /\ f \in Frame /\ f.kind = e.kind /\ f.target = e.target /\ f.thread = e.thread /\ f.object = e.object
      /\ f.undone = e.undone /\ f.saved = e.saved /\ f.step = "handle" /\ e.target \in NS
  BY <1>2, WithStep, Zenon
<1>6. Update(g, f) /\ status' = status /\ Works /\ Step /\ ns' = [ns EXCEPT ![e.thread] = e.target]
  BY Zenon DEF Unshare, threads, Moved
<1> HIDE DEF f
<1>7. ns' \in [Thread -> NS] /\ (\A u \in Thread : u # e.thread => ns'[u] = ns[u]) /\ ns'[e.thread] = e.target
  BY <1>3, <1>4, <1>5, <1>6, Zenon DEF Types
<1>8. Replaces(g, d, f) /\ stack' \in [Goroutine -> Seq(Frame)] /\ \A h \in Goroutine : Depth(h)' <= MaxDepth
  BY <1>1, <1>2, <1>3, <1>5, <1>6, UpdateStep, Zenon
<1>9. Types'
  <2>1. status' \in [Thread -> {"none", "idle", "locked"}]
    BY <1>3, <1>6, Zenon DEF Types
  <2>2. QED
    BY <1>3, <1>6, <1>7, <1>8, <2>1, StepTypes, Zenon
<1>10. stack'[g][d + 1] = f /\ Depth(g)' = d + 1 /\ lost' = lost /\ (d > 0 => stack'[g][d] = stack[g][d])
  BY <1>6, <1>8, Above, Zenon DEF Replaces, Step
<1>11. FrameOK(g, d + 1)'
  <2>1. f.step \in Saved /\ f.saved \in NS /\ e.step # "spawn" /\ (f.undone => lost')
    BY <1>1, <1>2, <1>5, <1>10, Zenon DEF FrameOK, Saved
  <2>2. QED
    BY <1>2, <1>3, <1>5, <1>10, <2>1, FrameMoves, Zenon
<1>12. InPlace(g, d + 1)'
  <2>1. e.step \in Saved /\ Safe \subseteq Safe' /\ (f.step = "body" => ns'[f.thread] = f.target)
    BY <1>1, <1>5, <1>7, <1>10, Zenon DEF Saved, Safe
  <2>2. QED
    BY <1>2, <1>5, <1>10, <2>1, PlaceMoves, Zenon
<1>13. Holds(f) /\ e.step \in Saved
  BY <1>1, <1>5, Zenon DEF Holds, Saved
<1>14. QED
  BY <1>2, <1>3, <1>5, <1>6, <1>7, <1>8, <1>9, <1>10, <1>11, <1>12, <1>13, StepCore, Zenon

\* The closure returns; the thread is where it was.
LEMMA BodyEndsCore ==
    ASSUME Core, NEW g \in Goroutine, BodyEnds(g)
    PROVE  Core'
<1>1. stack[g] # <<>> /\ Top(g).step = "body"
  BY Zenon DEF BodyEnds, At
<1>2. PICK d \in Nat : /\ Depth(g) = d + 1 /\ d + 1 \in 1..Depth(g)
                       /\ Top(g) = stack[g][d + 1] /\ Top(g) \in Frame
                       /\ FrameOK(g, d + 1) /\ InPlace(g, d + 1)
  BY <1>1, AtWork, Zenon
<1> DEFINE e == Top(g)
           f == Moved(e, "restore")
<1>3. Types /\ Holds(e) /\ e.kind \in {"in", "do", "path"}
  BY <1>1, Zenon DEF Core, Holds, BodyEnds, At
<1>4. e.thread \in Thread
  BY <1>1, <1>2, Zenon DEF FrameOK, Frame
<1>5. /\ f \in Frame /\ f.kind = e.kind /\ f.target = e.target /\ f.thread = e.thread /\ f.object = e.object
      /\ f.undone = e.undone /\ f.saved = e.saved /\ f.step = "restore" /\ e.target \in NS
  BY <1>2, WithStep, Zenon
<1>6. Update(g, f) /\ status' = status /\ Works /\ Step /\ ns' = ns
  BY Zenon DEF BodyEnds, threads, Moved
<1> HIDE DEF f
<1>7. ns' \in [Thread -> NS] /\ (\A u \in Thread : u # e.thread => ns'[u] = ns[u]) /\ ns'[e.thread] = ns[e.thread]
  BY <1>3, <1>4, <1>5, <1>6, Zenon DEF Types
<1>8. Replaces(g, d, f) /\ stack' \in [Goroutine -> Seq(Frame)] /\ \A h \in Goroutine : Depth(h)' <= MaxDepth
  BY <1>1, <1>2, <1>3, <1>5, <1>6, UpdateStep, Zenon
<1>9. Types'
  <2>1. status' \in [Thread -> {"none", "idle", "locked"}]
    BY <1>3, <1>6, Zenon DEF Types
  <2>2. QED
    BY <1>3, <1>6, <1>7, <1>8, <2>1, StepTypes, Zenon
<1>10. stack'[g][d + 1] = f /\ Depth(g)' = d + 1 /\ lost' = lost /\ (d > 0 => stack'[g][d] = stack[g][d])
  BY <1>6, <1>8, Above, Zenon DEF Replaces, Step
<1>11. FrameOK(g, d + 1)'
  <2>1. f.step \in Saved /\ f.saved \in NS /\ e.step # "spawn" /\ (f.undone => lost')
    BY <1>1, <1>2, <1>5, <1>10, Zenon DEF FrameOK, Saved
  <2>2. QED
    BY <1>2, <1>3, <1>5, <1>10, <2>1, FrameMoves, Zenon
<1>12. InPlace(g, d + 1)'
  <2>1. e.step \in Saved /\ Safe \subseteq Safe' /\ (f.step = "body" => ns'[f.thread] = f.target)
    BY <1>1, <1>5, <1>7, <1>10, Zenon DEF Saved, Safe
  <2>2. QED
    BY <1>2, <1>5, <1>10, <2>1, PlaceMoves, Zenon
<1>13. Holds(f) /\ e.step \in Saved
  BY <1>1, <1>5, Zenon DEF Holds, Saved
<1>14. QED
  BY <1>2, <1>3, <1>5, <1>6, <1>7, <1>8, <1>9, <1>10, <1>11, <1>12, <1>13, StepCore, Zenon

\* TempNetNS has its handle, or does without: the thread stays where it is.
LEMMA HandleCore ==
    ASSUME Core, NEW g \in Goroutine, Handle(g)
    PROVE  Core'
<1>1. stack[g] # <<>> /\ Top(g).step = "handle" /\ Top(g).kind = "temp"
  BY Zenon DEF Handle, At
<1>2. PICK d \in Nat : /\ Depth(g) = d + 1 /\ d + 1 \in 1..Depth(g)
                       /\ Top(g) = stack[g][d + 1] /\ Top(g) \in Frame
                       /\ FrameOK(g, d + 1) /\ InPlace(g, d + 1)
  BY <1>1, AtWork, Zenon
<1> DEFINE e == Top(g)
<1>3. Types /\ Holds(e)
  BY <1>1, Zenon DEF Core, Holds
<1>4. e.thread \in Thread
  BY <1>1, <1>2, Zenon DEF FrameOK, Frame
<1>5. PICK f \in Frame :
        /\ f.kind = e.kind /\ f.target = e.target /\ f.thread = e.thread
        /\ f.undone = e.undone /\ f.saved = e.saved /\ f.step = "restore"
        /\ Update(g, f)
  <2>1. CASE Update(g, [e EXCEPT !.object = e.target, !.step = "restore"])
    <3> DEFINE f == [e EXCEPT !.object = e.target, !.step = "restore"]
    <3>1. f \in Frame
      BY <1>2, Zenon DEF Frame
    <3>2. /\ f.kind = e.kind /\ f.target = e.target /\ f.thread = e.thread
          /\ f.undone = e.undone /\ f.saved = e.saved /\ f.step = "restore"
      BY <1>2, Zenon DEF Frame
    <3>3. QED
      BY <2>1, <3>1, <3>2, Zenon
  <2>2. CASE Update(g, [e EXCEPT !.step = "restore"])
    BY <1>2, <2>2, WithStep, Zenon DEF Moved
  <2>3. QED
    BY <2>1, <2>2, Zenon DEF Handle
<1>6. UNCHANGED <<status, ns>> /\ (Fault \/ Works) /\ Step
  BY Zenon DEF Handle, threads
<1>7. Replaces(g, d, f) /\ stack' \in [Goroutine -> Seq(Frame)] /\ \A h \in Goroutine : Depth(h)' <= MaxDepth
  BY <1>1, <1>2, <1>3, <1>5, UpdateStep, Zenon
<1>8. Types'
  BY <1>3, <1>6, <1>7, StepTypes, Zenon DEF Types
<1>9. stack'[g][d + 1] = f /\ Depth(g)' = d + 1 /\ lost' = lost /\ (d > 0 => stack'[g][d] = stack[g][d])
  BY <1>6, <1>7, Above, Zenon DEF Replaces, Step
<1>10. FrameOK(g, d + 1)'
  <2>1. f.step \in Saved /\ f.saved \in NS /\ e.step # "spawn" /\ (f.undone => lost')
    BY <1>1, <1>2, <1>5, <1>9, Zenon DEF FrameOK, Saved
  <2>2. QED
    BY <1>2, <1>5, <1>9, <2>1, FrameMoves, Zenon
<1>11. InPlace(g, d + 1)'
  BY <1>1, <1>2, <1>5, <1>6, <1>9, Zenon DEF InPlace, Base, Saved, Safe
<1>12. Holds(f)
  BY <1>5, Zenon DEF Holds
<1>13. QED
  BY <1>1, <1>2, <1>3, <1>5, <1>6, <1>7, <1>8, <1>9, <1>10, <1>11, <1>12, StepCore, Zenon

-----------------------------------------------------------------------------
\* What a step of a call may change, and its types.
Shape ==
    /\ status \in [Thread -> {"none", "idle", "locked"}]
    /\ ns \in [Thread -> NS]
    /\ stack \in [Goroutine -> Seq(Frame)]
    /\ \A g \in Goroutine : Depth(g) <= MaxDepth

\* inNamespace returns: on the thread of the closure it was called from, which is
\* back, or on a thread that others may then find.
LEMMA InReturnsCore ==
    ASSUME Core, NEW g \in Goroutine, NEW d \in Nat, NEW n \in NS, InReturns(g, n),
           NEW t, t = Top(g).thread,
           Depth(g) = d + 1, stack[g] # <<>>, Top(g) = stack[g][d + 1], Nested(g) <=> d > 0,
           Top(g).kind = "in", Holds(Top(g)),
           Shape' => Types', lost => lost',
           d > 0 => (~stack[g][d].undone => n = stack[g][d].target),
           d = 0 => n \in Safe',
           InOnly(t) => n \in {Home} \cup Named
    PROVE  Core'
<1>1. Types
  BY Zenon DEF Core
<1>2. /\ t \in Thread /\ status[t] = "locked"
      /\ d > 0 => stack[g][d].thread = t
  <2>1. Holds(stack[g][d + 1]) /\ stack[g][d + 1].kind = "in"
    BY Zenon
  <2>2. /\ stack[g][d + 1].thread \in Thread /\ status[stack[g][d + 1].thread] = "locked"
        /\ d > 0 => stack[g][d].thread = stack[g][d + 1].thread
    BY <2>1, OwnThread, Zenon
  <2>3. QED
    BY <2>2, Zenon
<1>3. Removes(g, d) /\ stack' \in [Goroutine -> Seq(Frame)] /\ \A h \in Goroutine : Depth(h)' <= MaxDepth
  BY <1>1, PopStep, Zenon DEF InReturns
<1>4. /\ ns' = [ns EXCEPT ![t] = n]
      /\ d > 0 => status' = status
      /\ d = 0 => status' = [status EXCEPT ![t] = "idle"]
  BY DEF InReturns, Release
<1>5. /\ ns' \in [Thread -> NS] /\ status' \in [Thread -> {"none", "idle", "locked"}]
      /\ ns'[t] = n /\ status'[t] = (IF d = 0 THEN "idle" ELSE "locked")
      /\ Spares(t)
  <2>1. ns' \in [Thread -> NS] /\ ns'[t] = n /\ \A u \in Thread : u # t => ns'[u] = ns[u]
    BY <1>1, <1>2, <1>4, Zenon DEF Types
  <2>2. CASE d > 0
    BY <1>1, <1>2, <1>4, <2>1, <2>2, Zenon DEF Types, Spares
  <2>3. CASE d = 0
    BY <1>1, <1>2, <1>4, <2>1, <2>3, Zenon DEF Types, Spares
  <2>4. QED
    BY <2>2, <2>3
<1>6. Types'
  BY <1>3, <1>5, Zenon DEF Shape
<1>7. Local(g, d, t)
  BY <1>3, <1>5, KeepsToThread, Zenon
<1>8. TopOK(g, d, t)
  BY <1>3 DEF TopOK, Removes
<1>9. UnderOK(g, d, t)
  BY <1>2, <1>5 DEF UnderOK
<1>10. ThreadOK(g, d, t)
  <2>1. ASSUME InOnly(t)' PROVE n \in {Home} \cup Named
    <3>1. stack[g][d + 1].kind = "in"
      BY Zenon
    <3>2. InOnly(t)
      BY <1>3, <2>1, <3>1, InOnlyBefore, Zenon
    <3>3. QED
      BY <3>2, Zenon
  <2>2. Depth(g)' = d
    BY <1>3, Zenon DEF Removes
  <2>3. QED
    BY <1>5, <2>1, <2>2 DEF ThreadOK
<1>11. QED
  BY <1>6, <1>7, <1>8, <1>9, <1>10, LocalCore, Zenon

\* The goroutine of Do, WithNetNSPath or TempNetNS ends: its thread is back where
\* others may find it, or dies.
LEMMA ChildEndsCore ==
    ASSUME Core, NEW g \in Goroutine, NEW d \in Nat, NEW n \in NS, NEW s \in {"idle", "none"},
           ChildEnds(g, n, s), NEW e, e = Top(g), NEW t, t = e.thread,
           Depth(g) = d + 1, stack[g] # <<>>, e = stack[g][d + 1], e \in Frame,
           FrameOK(g, d + 1), e.kind \in Own, Holds(e),
           Fault \/ Works, Step, s = "idle" => n \in Safe
    PROVE  Core'
<1> DEFINE f == Moved(e, "done")
<1>1. Types /\ d + 1 \in 1..Depth(g)
  BY DEF Core
<1>2. t \in Thread /\ status[t] = "locked"
  BY OwnThread, Zenon
<1>3. /\ f \in Frame /\ f.kind = e.kind /\ f.target = e.target /\ f.thread = e.thread /\ f.object = e.object
      /\ f.undone = e.undone /\ f.saved = e.saved /\ f.step = "done"
  BY WithStep, Zenon
<1>4. Update(g, f)
  BY Zenon DEF ChildEnds, Moved
<1> HIDE DEF f
<1>5. Replaces(g, d, f) /\ stack' \in [Goroutine -> Seq(Frame)] /\ \A h \in Goroutine : Depth(h)' <= MaxDepth
  BY <1>1, <1>3, <1>4, UpdateStep, Zenon
<1>6. ns' = [ns EXCEPT ![t] = IF s = "none" THEN Home ELSE n] /\ status' = [status EXCEPT ![t] = s]
  BY Zenon DEF ChildEnds, Release
<1>7. ns' \in [Thread -> NS] /\ status' \in [Thread -> {"none", "idle", "locked"}]
  BY <1>1, <1>6, Zenon DEF Types, NS
<1>8. ns'[t] = (IF s = "none" THEN Home ELSE n) /\ status'[t] = s /\ Spares(t)
  BY <1>1, <1>2, <1>6, Zenon DEF Types, Spares
<1>9. Types'
  BY <1>1, <1>5, <1>7, StepTypes, Zenon
<1>10. stack'[g][d + 1] = f /\ Depth(g)' = d + 1 /\ lost' = lost /\ (d > 0 => stack'[g][d] = stack[g][d])
  BY <1>5 DEF Replaces, Step
<1>11. Local(g, d, t)
  BY <1>5, <1>8, <1>10, KeepsToThread, Zenon
<1>12. TopOK(g, d, t)
  <2>1. FrameOK(g, d + 1)'
    BY <1>2, <1>3, <1>10, NSAssumption DEF FrameOK, Saved, Own
  <2>2. InPlace(g, d + 1)'
    BY <1>3, <1>10, Zenon DEF InPlace, Saved, Own
  <2>3. ~lost /\ e.kind \in {"do", "path"} => e.object = IF d = 0 THEN Home ELSE stack[g][d].target
    BY <1>1 DEF Core, Objects
  <2>4. ~Holds(f)
    BY <1>3, Zenon DEF Holds
  <2>5. QED
    BY <1>3, <1>10, <2>1, <2>2, <2>3, <2>4, Zenon DEF TopOK
<1>13. UnderOK(g, d, t)
  BY <1>3, <1>5, <1>8, UnderStays, Zenon DEF Own
<1>14. ThreadOK(g, d, t)
  <2>1. f.step \notin Saved /\ Safe' = Safe /\ Safe \subseteq {Home} \cup Named
    BY <1>3, <1>10, Zenon DEF Saved, Safe
  <2>2. QED
    BY <1>8, <1>10, <2>1, Zenon DEF ThreadOK
<1>15. QED
  BY <1>9, <1>11, <1>12, <1>13, <1>14, LocalCore, Zenon

\* wg.Wait returns in the closure around the call.
LEMMA ReturnCore ==
    ASSUME Core, NEW g \in Goroutine, Return(g)
    PROVE  Core'
<1>1. stack[g] # <<>> /\ Top(g).step = "done" /\ Top(g).kind # "in" /\ Pop(g)
  BY Zenon DEF Return, At, Own
<1>2. PICK d \in Nat : /\ Depth(g) = d + 1 /\ d + 1 \in 1..Depth(g)
                       /\ Top(g) = stack[g][d + 1] /\ Top(g) \in Frame
                       /\ \A i \in 1..d : stack[g][i].step = "body" /\ stack[g][i] \in Frame
  BY <1>1, AtWork, Zenon
<1>3. UNCHANGED <<status, ns, made, lost, calls, faults>> /\ Types
  BY Zenon DEF Return, threads, Core
<1>4. Removes(g, d) /\ stack' \in [Goroutine -> Seq(Frame)] /\ \A h \in Goroutine : Depth(h)' <= MaxDepth
  BY <1>1, <1>2, <1>3, PopStep, Zenon
<1>5. open' \subseteq NS
  <2>1. open' = open \cup (IF Top(g).kind = "temp" THEN {Top(g).object} \ {None} ELSE {})
    BY Zenon DEF Return
  <2>2. Top(g).object \in NS \cup {None} /\ open \subseteq NS
    BY <1>2, <1>3, Zenon DEF Frame, Types
  <2>3. QED
    BY <2>1, <2>2, Zenon
<1>6. Types'
  BY <1>3, <1>4, <1>5, Zenon DEF Types
<1>7. Local(g, d, None)
  <2>1. \A h \in Goroutine : \A i \in 1..Depth(h) : Holds(stack[h][i]) => stack[h][i].thread # None
    BY Zenon DEF Core, Frames, FrameOK, Holds
  <2>2. \A i \in (d + 1)..Depth(g) : ~Holds(stack[g][i])
    BY <1>1, <1>2 DEF Holds
  <2>3. QED
    BY <1>2, <1>3, <1>4, <2>1, <2>2 DEF Local, Removes
<1>8. TopOK(g, d, None) /\ ThreadOK(g, d, None)
  BY <1>4, NSAssumption DEF TopOK, ThreadOK, Removes
<1>9. UnderOK(g, d, None)
  <2> SUFFICES ASSUME d > 0
               PROVE  /\ stack[g][d].thread # None
                      /\ ~stack[g][d].undone => ns[stack[g][d].thread] = stack[g][d].target
    BY <1>3, Zenon DEF UnderOK
  <2>1. d \in 1..Depth(g) /\ FrameOK(g, d) /\ InPlace(g, d) /\ stack[g][d].step = "body"
    BY <1>2 DEF Core, Frames, Placed
  <2>2. QED
    BY <1>1, <1>2, <2>1, Zenon DEF FrameOK, InPlace
<1>10. QED
  BY <1>6, <1>7, <1>8, <1>9, LocalCore, Zenon

\* setns back works: the thread is where the call found it.
LEMMA RestoreCore ==
    ASSUME Core, NEW g \in Goroutine, Restore(g)
    PROVE  Core'
<1>1. stack[g] # <<>> /\ Top(g).step = "restore" /\ Works /\ Step
  BY Zenon DEF Restore, At
<1>2. PICK d \in Nat : /\ Depth(g) = d + 1 /\ d + 1 \in 1..Depth(g)
                       /\ Top(g) = stack[g][d + 1] /\ Top(g) \in Frame
                       /\ FrameOK(g, d + 1) /\ InPlace(g, d + 1)
                       /\ Nested(g) <=> d > 0 /\ Top(g).kind = "in"
  BY <1>1, AtWork, Zenon
<1>3. PICK e : e = Top(g)
  BY Zenon
<1>4. PICK t : t = e.thread
  BY Zenon
<1>5. Types /\ Holds(e) /\ lost' = lost /\ e.step \in Saved /\ e.saved \in NS /\ t \in Thread
  BY <1>1, <1>2, <1>3, <1>4, Zenon DEF Core, Holds, Step, Saved, FrameOK, Frame
<1>6. CASE e.kind = "in"
  <2>1. InReturns(g, e.saved)
    BY <1>3, <1>6, Zenon DEF Restore
  <2>2. Shape' => Types'
    BY <1>1, <1>5, StepTypes, Zenon DEF Shape
  <2>3. d > 0 => (~stack[g][d].undone => e.saved = stack[g][d].target)
    BY <1>2, <1>3, <1>5, <1>6, Above, Zenon DEF InPlace
  <2>4. d = 0 => e.saved \in Safe'
    BY <1>2, <1>3, <1>5 DEF InPlace, Base, Safe
  <2>5. InOnly(t) => e.saved \in {Home} \cup Named
    BY <1>2, <1>3, <1>4, <1>5, Zenon DEF Core, NotTemp
  <2>6. QED
    BY <1>1, <1>2, <1>3, <1>4, <1>5, <1>6, <2>1, <2>2, <2>3, <2>4, <2>5, InReturnsCore, Zenon
<1>7. CASE e.kind # "in"
  <2>1. ChildEnds(g, e.saved, "idle") /\ e.kind \in Own
    BY <1>3, <1>7, Zenon DEF Restore, At
  <2>2. e.saved \in Safe
    BY <1>2, <1>3, <1>5, <1>7, Zenon DEF InPlace, Base
  <2>3. QED
    BY <1>1, <1>2, <1>3, <1>4, <1>5, <2>1, <2>2, ChildEndsCore, Zenon
<1>8. QED
  BY <1>6, <1>7, Zenon

\* A call that fails before the thread has moved returns on it, or lets it die.
LEMMA FailsCore ==
    ASSUME Core, NEW g \in Goroutine, stack[g] # <<>>, Top(g).step \in {"get", "set", "unshare"},
           Fault \/ Works, Step,
           IF Top(g).kind = "in" THEN InReturns(g, ns[Top(g).thread]) ELSE ChildEnds(g, Home, "none")
    PROVE  Core'
<1>1. PICK d \in Nat : /\ Depth(g) = d + 1 /\ d + 1 \in 1..Depth(g)
                       /\ Top(g) = stack[g][d + 1] /\ Top(g) \in Frame
                       /\ FrameOK(g, d + 1) /\ InPlace(g, d + 1)
                       /\ Nested(g) <=> d > 0 /\ Top(g).kind = "in"
  BY AtWork, Zenon
<1>2. PICK e : e = Top(g)
  BY Zenon
<1>3. PICK t : t = e.thread
  BY Zenon
<1>4. Types /\ Holds(e) /\ lost' = lost /\ t \in Thread
  BY <1>1, <1>2, <1>3, Zenon DEF Core, Holds, Step, FrameOK, Frame
<1>5. CASE e.kind = "in"
  <2>1. PICK n \in NS : n = ns[t] /\ InReturns(g, n)
    BY <1>2, <1>3, <1>4, <1>5, Zenon DEF Types
  <2>2. Shape' => Types'
    BY <1>4, StepTypes, Zenon DEF Shape
  <2>3. e.step \in {"get", "set"}
    BY <1>1, <1>2, <1>5, Zenon DEF FrameOK
  <2>4. d > 0 => (~stack[g][d].undone => n = stack[g][d].target)
    BY <1>1, <1>2, <1>3, <1>5, <2>1, <2>3, Above, Zenon DEF InPlace
  <2>5. d = 0 => n \in Safe'
    BY <1>1, <1>2, <1>3, <1>4, <2>1, <2>3 DEF InPlace, Base, Safe
  <2>6. InOnly(t) => n \in {Home} \cup Named
    BY <1>4, <2>1, Zenon DEF Core, NotTemp
  <2>7. QED
    BY <1>1, <1>2, <1>3, <1>4, <1>5, <2>1, <2>2, <2>4, <2>5, <2>6, InReturnsCore, Zenon
<1>6. CASE e.kind # "in"
  <2>1. ChildEnds(g, Home, "none") /\ Home \in NS
    BY <1>2, <1>6, Zenon DEF NS
  <2>2. e.kind \in Own
    BY <1>1, <1>2, <1>6, Zenon DEF Frame, Own
  <2>3. QED
    BY <1>1, <1>2, <1>3, <1>4, <2>1, <2>2, ChildEndsCore, Zenon
<1>7. QED
  BY <1>5, <1>6, Zenon

\* The goroutine of a call cannot switch back: its thread dies.
LEMMA ChildNotRestoredCore ==
    ASSUME Core, NEW g \in Goroutine, ChildNotRestored(g)
    PROVE  Core'
<1>1. stack[g] # <<>> /\ Top(g).step = "restore" /\ Top(g).kind \in Own /\ Fault /\ Step
  BY Zenon DEF ChildNotRestored, At
<1>2. PICK d \in Nat : /\ Depth(g) = d + 1 /\ d + 1 \in 1..Depth(g)
                       /\ Top(g) = stack[g][d + 1] /\ Top(g) \in Frame
                       /\ FrameOK(g, d + 1) /\ InPlace(g, d + 1)
  BY <1>1, AtWork, Zenon
<1>3. PICK e : e = Top(g)
  BY Zenon
<1>4. PICK t : t = e.thread
  BY Zenon
<1>5. Types /\ Holds(e) /\ t \in Thread
  BY <1>1, <1>2, <1>3, <1>4, Zenon DEF Core, Holds, FrameOK, Frame
<1>6. PICK n \in NS : ChildEnds(g, n, "none")
  BY <1>3, <1>4, <1>5, Zenon DEF Types, ChildNotRestored
<1>7. QED
  BY <1>1, <1>2, <1>3, <1>4, <1>5, <1>6, ChildEndsCore, Zenon

\* The step takes the frame at work away and marks the closure under it.
Marks(g, c, f) ==
    /\ Depth(g)' = c + 1
    /\ \A h \in Goroutine : h # g => stack'[h] = stack[h] /\ Depth(h)' = Depth(h)
    /\ \A i \in 1..c : stack'[g][i] = stack[g][i]
    /\ stack'[g][c + 1] = f

\* How inNamespace leaves the stack when setns back fails in a nested call.
LEMMA MarkStep ==
    ASSUME Types, NEW g \in Goroutine, NEW c \in Nat, Depth(g) = c + 2, stack[g] # <<>>,
           stack' = [stack EXCEPT ![g] = [Under(stack[g]) EXCEPT ![c + 1].undone = TRUE]],
           NEW e \in Frame, e = stack[g][c + 1], NEW f \in Frame, f = [e EXCEPT !.undone = TRUE]
    PROVE  /\ Marks(g, c, f) /\ stack' \in [Goroutine -> Seq(Frame)]
           /\ \A h \in Goroutine : Depth(h)' <= MaxDepth
<1> DEFINE s == Under(stack[g])
<1>1. s \in Seq(Frame) /\ Len(s) = c + 1 /\ \A i \in 1..(c + 1) : s[i] = stack[g][i]
  BY UnderFacts
<1> HIDE DEF s
<1>2. c + 1 \in 1..Len(s) /\ s[c + 1] = e
  BY <1>1
<1>3. PICK r : r = [s EXCEPT ![c + 1] = f]
  BY Zenon
<1>4. /\ r \in Seq(Frame) /\ Len(r) = c + 1 /\ r[c + 1] = f
      /\ \A i \in 1..(c + 1) : i # c + 1 => r[i] = s[i]
  BY <1>1, <1>2, <1>3
<1>5. [s EXCEPT ![c + 1].undone = TRUE] = r
  BY <1>2, <1>3, Zenon
<1>6. stack' = [stack EXCEPT ![g] = r]
  BY <1>5, Zenon DEF s
<1>7. stack' \in [Goroutine -> Seq(Frame)] /\ stack'[g] = r /\ \A h \in Goroutine : h # g => stack'[h] = stack[h]
  BY <1>4, <1>6, Zenon DEF Types
<1>8. Depth(g)' = c + 1 /\ \A h \in Goroutine : h # g => Depth(h)' = Depth(h)
  BY <1>4, <1>7, Zenon DEF Depth
<1>9. stack'[g][c + 1] = f /\ \A i \in 1..c : stack'[g][i] = stack[g][i]
  <2>1. \A i \in 1..c : i \in 1..(c + 1) /\ i # c + 1
    OBVIOUS
  <2>2. QED
    BY <1>1, <1>4, <1>7, <2>1, Zenon
<1>10. ASSUME NEW h \in Goroutine PROVE Depth(h)' <= MaxDepth
  <2>1. Depth(h) <= MaxDepth /\ c + 2 <= MaxDepth
    BY Zenon DEF Types
  <2>2. c + 1 <= MaxDepth
    BY <2>1, BoundAssumption
  <2>3. QED
    BY <1>8, <2>1, <2>2, Zenon
<1>11. QED
  BY <1>7, <1>8, <1>9, <1>10, Zenon DEF Marks

\* inNamespace does not come back, under a closure that works on the same thread:
\* the closure is marked.
LEMMA UndoneCore ==
    ASSUME Core, NEW g \in Goroutine, NEW c \in Nat, Depth(g) = c + 2, NEW e, e = stack[g][c + 1],
           NEW f \in Frame, Marks(g, c, f), Types', status' = status, ns' = ns, lost' = TRUE,
           stack[g][c + 2].kind = "in", stack[g][c + 2].step = "restore",
           f.kind = e.kind, f.step = e.step, f.target = e.target,
           f.thread = e.thread, f.object = e.object, f.saved = e.saved, f.undone = TRUE
    PROVE  Core'
<1>1. Types /\ c + 1 \in 1..Depth(g) /\ c + 2 \in 1..Depth(g) /\ c + 1 < Depth(g)
  BY DEF Core
<1>2. /\ e \in Frame /\ FrameOK(g, c + 1) /\ InPlace(g, c + 1) /\ FrameOK(g, c + 2)
  BY <1>1, StackFrames, Zenon DEF Core, Frames, Placed
<1>3. e.step = "body" /\ e.thread \in Thread /\ stack[g][c + 2].thread = e.thread
  BY <1>1, <1>2 DEF FrameOK, Frame
<1>4. PICK t : t = e.thread
  BY Zenon
<1>5. Depth(g)' = c + 1 /\ \A h \in Goroutine : h # g => stack'[h] = stack[h] /\ Depth(h)' = Depth(h)
  BY Zenon DEF Marks
<1>6. stack'[g][c + 1] = f /\ \A i \in 1..c : stack'[g][i] = stack[g][i]
  BY Zenon DEF Marks
<1>7. Holds(stack[g][c + 2]) /\ Holds(e) /\ Holds(f)
  BY <1>3, Zenon DEF Holds
<1>8. Local(g, c, t)
  <2>1. ASSUME NEW i \in 1..c PROVE stack[g][i].step = "body"
    <3>1. FrameOK(g, i) /\ i < Depth(g)
      BY DEF Core, Frames
    <3>2. QED
      BY <3>1, Zenon DEF FrameOK
  <2>2. ASSUME NEW h \in Goroutine, NEW i \in 1..Depth(h), Holds(stack[h][i]), stack[h][i].thread = t
        PROVE  h = g /\ (i < c => stack[g][c].thread = t)
    <3>1. h = g /\ (i < c + 1 => \A k \in (i + 1)..(c + 1) : stack[g][k].kind = "in")
      <4>1. Exclusive
        BY Zenon DEF Core
      <4>2. Holds(stack[g][c + 1]) /\ stack[h][i].thread = stack[g][c + 1].thread
        BY <1>4, <1>7, <2>2, Zenon
      <4>3. h = g /\ (i < c + 1 => \A k \in (i + 1)..(c + 1) : stack[h][k].kind = "in")
        BY <1>1, <2>2, <4>1, <4>2, Zenon DEF Exclusive
      <4>4. QED
        BY <4>3, Zenon
    <3>2. ASSUME i < c PROVE stack[g][c].thread = t
      <4>1. stack[g][c + 1].kind = "in" /\ c > 0
        BY <3>1, <3>2
      <4>2. QED
        BY <1>2, <1>4, <4>1 DEF FrameOK
    <3>3. QED
      BY <3>1, <3>2, Zenon
  <2>3. ASSUME NEW i \in (c + 1)..Depth(g) PROVE stack[g][i].thread = t
    <3>1. i = c + 1 \/ i = c + 2
      OBVIOUS
    <3>2. QED
      BY <1>3, <1>4, <3>1, Zenon
  <2>4. QED
    BY <1>5, <1>6, <2>1, <2>2, <2>3 DEF Local
<1>9. TopOK(g, c, t)
  <2>1. status[t] = "locked"
    BY <1>1, <1>4, <1>7, Zenon DEF Core, Locked
  <2>2. c > 0 => stack'[g][c] = stack[g][c]
    BY <1>6, Above, Zenon
  <2>3. FrameOK(g, c + 1)'
    <3>1. /\ f.step \in Saved /\ f.saved \in NS /\ e.step # "spawn" /\ (f.undone => lost')
          /\ f.kind # "temp" /\ f.step \in {"set", "body", "restore"}
      BY <1>2, <1>3, Zenon DEF FrameOK, Saved
    <3>2. Depth(g)' = c + 1 /\ stack'[g][c + 1] = f
      BY <1>5, <1>6, Zenon
    <3>3. QED
      BY <1>2, <2>2, <3>1, <3>2, FrameMoves, Zenon
  <2>4. InPlace(g, c + 1)'
    <3>1. e.step \in Saved /\ Safe \subseteq Safe' /\ f.undone /\ f.step = "body"
      BY <1>3, Zenon DEF Saved, Safe
    <3>2. QED
      BY <1>2, <1>3, <1>5, <1>6, <2>2, <3>1, PlaceMoves, Zenon
  <2>5. QED
    BY <1>4, <1>5, <1>6, <2>1, <2>3, <2>4, Zenon DEF TopOK
<1>10. UnderOK(g, c, t)
  <2> SUFFICES ASSUME c > 0
               PROVE  /\ stack[g][c].thread = t => status[t] = "locked"
                      /\ ~stack[g][c].undone /\ f.kind # "in" => ns[stack[g][c].thread] = stack[g][c].target
    BY <1>5, <1>6, Above, Zenon DEF UnderOK
  <2>1. c \in 1..Depth(g) /\ c < Depth(g) /\ FrameOK(g, c) /\ InPlace(g, c)
    <3>1. c \in 1..(c + 2) /\ c < c + 2
      OBVIOUS
    <3>2. QED
      BY <3>1, Zenon DEF Core, Frames, Placed
  <2>2. status[t] = "locked"
    BY <1>1, <1>4, <1>7, Zenon DEF Core, Locked
  <2>3. QED
    BY <2>1, <2>2, Zenon DEF FrameOK, InPlace
<1>11. ThreadOK(g, c, t)
  <2>1. status[t] = "locked"
    BY <1>1, <1>4, <1>7, Zenon DEF Core, Locked
  <2>2. ASSUME InOnly(t)' PROVE InOnly(t)
    <3> SUFFICES ASSUME NEW h \in Goroutine, NEW i \in 1..Depth(h), Holds(stack[h][i]), stack[h][i].thread = t
                 PROVE  stack[h][i].kind = "in"
      BY Zenon DEF InOnly
    <3>1. ASSUME i \in 1..Depth(h)', Holds(stack'[h][i]), stack'[h][i].thread = t
          PROVE  stack'[h][i].kind = "in"
      BY <2>2, <3>1, Zenon DEF InOnly
    <3>2. CASE h # g
      BY <1>5, <3>1, <3>2, Zenon
    <3>3. CASE h = g /\ i \in 1..c
      <4>1. i \in 1..(c + 1)
        BY <3>3
      <4>2. QED
        BY <1>5, <1>6, <3>1, <3>3, <4>1, Zenon
    <3>4. CASE h = g /\ i = c + 1
      <4>1. c + 1 \in 1..(c + 1)
        OBVIOUS
      <4>2. QED
        BY <1>4, <1>5, <1>6, <1>7, <3>1, <3>4, <4>1, Zenon
    <3>5. CASE h = g /\ i = c + 2
      BY <3>5, Zenon
    <3>6. h = g => i \in 1..c \/ i = c + 1 \/ i = c + 2
      OBVIOUS
    <3>7. QED
      BY <3>2, <3>3, <3>4, <3>5, <3>6, Zenon
  <2>3. ASSUME InOnly(t) PROVE ns[t] \in {Home} \cup Named /\ (e.step \in Saved => e.saved \in {Home} \cup Named)
    BY <1>1, <1>3, <1>4, <1>7, <2>3, Zenon DEF Core, NotTemp
  <2>4. QED
    BY <1>5, <1>6, <2>1, <2>2, <2>3, Zenon DEF ThreadOK
<1>12. QED
  BY <1>8, <1>9, <1>10, <1>11, LocalCore, Zenon

\* setns back fails in inNamespace, which returns all the same.
LEMMA InNotRestoredCore ==
    ASSUME Core, NEW g \in Goroutine, InNotRestored(g)
    PROVE  Core'
<1>1. stack[g] # <<>> /\ Top(g).step = "restore" /\ Top(g).kind = "in" /\ Fault
  BY Zenon DEF InNotRestored, At
<1>2. PICK d \in Nat : /\ Depth(g) = d + 1 /\ d + 1 \in 1..Depth(g)
                       /\ Top(g) = stack[g][d + 1] /\ Top(g) \in Frame
                       /\ FrameOK(g, d + 1) /\ InPlace(g, d + 1)
                       /\ Nested(g) <=> d > 0 /\ Top(g).kind = "in"
  BY <1>1, AtWork, Zenon
<1>3. Types /\ lost' = TRUE /\ UNCHANGED <<open, made, calls>>
  BY Zenon DEF Core, InNotRestored
<1>4. Shape' => Types'
  BY <1>1, <1>3, BoundAssumption DEF Types, Shape, Fault
<1>5. CASE d > 0
  <2>1. PICK c \in Nat : d = c + 1
    <3>1. d - 1 \in Nat /\ d = (d - 1) + 1
      BY <1>5
    <3>2. QED
      BY <3>1, Zenon
  <2>2. Depth(g) = c + 2 /\ c + 1 \in 1..Depth(g) /\ d + 1 = c + 2 /\ Len(stack[g]) - 1 = c + 1
    BY <1>2, <2>1 DEF Depth
  <2>3. PICK e \in Frame : e = stack[g][c + 1]
    BY <1>3, <2>2, StackFrames, Zenon
  <2>4. PICK f : f = [e EXCEPT !.undone = TRUE]
    BY Zenon
  <2>5. f \in Frame
    BY <2>4, Zenon DEF Frame
  <2>6. /\ f.kind = e.kind /\ f.step = e.step /\ f.target = e.target
        /\ f.thread = e.thread /\ f.object = e.object /\ f.saved = e.saved /\ f.undone = TRUE
    BY <2>4, Zenon DEF Frame
  <2>7. /\ stack' = [stack EXCEPT ![g] = [Under(stack[g]) EXCEPT ![c + 1].undone = TRUE]]
        /\ status' = status /\ ns' = ns
    BY <1>1, <1>2, <1>5, <2>2, Zenon DEF InNotRestored, threads
  <2>8. /\ Marks(g, c, f) /\ stack' \in [Goroutine -> Seq(Frame)]
        /\ \A h \in Goroutine : Depth(h)' <= MaxDepth
    BY <1>1, <1>3, <2>2, <2>3, <2>4, <2>5, <2>7, MarkStep, Zenon
  <2>9. Types'
    <3>1. status' \in [Thread -> {"none", "idle", "locked"}] /\ ns' \in [Thread -> NS]
      BY <1>3, <2>7, Zenon DEF Types
    <3>2. QED
      BY <1>4, <2>8, <3>1, Zenon DEF Shape
  <2>10. stack[g][c + 2].kind = "in" /\ stack[g][c + 2].step = "restore"
    BY <1>1, <1>2, <2>2, Zenon
  <2>11. status' = status /\ ns' = ns
    BY <2>7, Zenon
  <2>12. QED
    BY <1>3, <2>2, <2>3, <2>5, <2>6, <2>8, <2>9, <2>10, <2>11, UndoneCore, Zenon
<1>6. CASE d = 0
  <2>1. PICK t : t = Top(g).thread
    BY Zenon
  <2>2. t \in Thread /\ Holds(Top(g)) /\ Holds(stack[g][d + 1])
    BY <1>1, <1>2, <2>1, Zenon DEF FrameOK, Frame, Holds
  <2>3. PICK n \in NS : n = ns[t]
    BY <1>3, <2>2, Zenon DEF Types
  <2>4. InReturns(g, n)
    BY <1>2, <1>6, <2>1, <2>3 DEF InNotRestored
  <2>5. InOnly(t)
    <3> SUFFICES ASSUME NEW h \in Goroutine, NEW i \in 1..Depth(h), Holds(stack[h][i]), stack[h][i].thread = t
                 PROVE  stack[h][i].kind = "in"
      BY Zenon DEF InOnly
    <3>1. h = g
      BY <1>2, <2>1, <2>2, Zenon DEF Core, Exclusive
    <3>2. i = d + 1
      BY <1>2, <1>6, <3>1
    <3>3. QED
      BY <1>1, <1>2, <3>1, <3>2, Zenon
  <2>6. n \in {Home} \cup Named
    BY <2>2, <2>3, <2>5, Zenon DEF Core, NotTemp
  <2>7. n \in Safe'
    BY <1>3, <2>6, Zenon DEF Safe
  <2>8. QED
    BY <1>1, <1>2, <1>3, <1>4, <1>6, <2>1, <2>2, <2>4, <2>6, <2>7, InReturnsCore
<1>7. QED
  BY <1>5, <1>6

-----------------------------------------------------------------------------
\* A thread the runtime hands out is held by no call, and is in the namespace of
\* the process or in one that a failed inNamespace left it in.
LEMMA AvailableThread ==
    ASSUME Core, NEW t \in Thread, NEW n, Available(t, n)
    PROVE  /\ n \in Safe /\ t # None
           /\ \A h \in Goroutine : \A i \in 1..Depth(h) : Holds(stack[h][i]) => stack[h][i].thread # t
<1>1. n \in Safe
  BY Zenon DEF Available, Core, Threads, Safe
<1>2. status[t] # "locked"
  BY Zenon DEF Available
<1>3. QED
  BY <1>1, <1>2, NSAssumption, Zenon DEF Core, Locked

\* The goroutine of a call starts and locks its thread.
LEMMA SpawnCore ==
    ASSUME Core, NEW g \in Goroutine, Spawn(g)
    PROVE  Core'
<1>1. stack[g] # <<>> /\ Top(g).step = "spawn" /\ Top(g).kind \in Own /\ Works /\ Step
  BY Zenon DEF Spawn, At
<1>2. PICK d \in Nat : /\ Depth(g) = d + 1 /\ d + 1 \in 1..Depth(g)
                       /\ Top(g) = stack[g][d + 1] /\ Top(g) \in Frame
                       /\ FrameOK(g, d + 1) /\ InPlace(g, d + 1)
                       /\ \A i \in 1..d : stack[g][i].step = "body" /\ stack[g][i] \in Frame
  BY <1>1, AtWork, Zenon
<1>3. PICK t \in Thread, n \in NS :
         /\ Available(t, n) /\ LockOSThread(t, n)
         /\ Update(g, [Top(g) EXCEPT !.thread = t, !.step = "get"])
  BY Zenon DEF Spawn
<1>4. PICK e : e = Top(g)
  BY Zenon
<1>5. PICK f : f = [e EXCEPT !.thread = t, !.step = "get"]
  BY Zenon
<1>6. f \in Frame
  BY <1>2, <1>4, <1>5, Zenon DEF Frame
<1>7. /\ f.kind = e.kind /\ f.step = "get" /\ f.target = e.target
      /\ f.thread = t /\ f.object = e.object /\ f.saved = e.saved /\ f.undone = e.undone
  BY <1>2, <1>4, <1>5, Zenon DEF Frame
<1>8. Types /\ Update(g, f) /\ lost' = lost
  BY <1>1, <1>3, <1>4, <1>5, Zenon DEF Core, Step
<1>9. Replaces(g, d, f) /\ stack' \in [Goroutine -> Seq(Frame)] /\ \A h \in Goroutine : Depth(h)' <= MaxDepth
  BY <1>1, <1>2, <1>6, <1>8, UpdateStep, Zenon
<1>10. /\ ns' \in [Thread -> NS] /\ status' \in [Thread -> {"none", "idle", "locked"}]
       /\ ns'[t] = n /\ status'[t] = "locked" /\ Spares(t)
  BY <1>3, <1>8, Zenon DEF LockOSThread, Types, Spares
<1>11. Types'
  BY <1>1, <1>8, <1>9, <1>10, StepTypes, Zenon
<1>12. /\ n \in Safe /\ t # None
       /\ \A h \in Goroutine : \A i \in 1..Depth(h) : Holds(stack[h][i]) => stack[h][i].thread # t
  BY <1>3, AvailableThread, Zenon
<1>13. stack'[g][d + 1] = f /\ Depth(g)' = d + 1 /\ (d > 0 => stack'[g][d] = stack[g][d])
  BY <1>9, Above, Zenon DEF Replaces
<1>14. d > 0 => /\ d \in 1..Depth(g) /\ stack[g][d].thread # t /\ stack[g][d].thread \in Thread
                /\ InPlace(g, d)
  <2> SUFFICES ASSUME d > 0
               PROVE  /\ d \in 1..Depth(g) /\ stack[g][d].thread # t /\ stack[g][d].thread \in Thread
                      /\ InPlace(g, d)
    BY Zenon
  <2>1. d \in 1..Depth(g) /\ d \in 1..d /\ stack[g][d].step = "body" /\ stack[g][d] \in Frame
    BY <1>2
  <2>2. FrameOK(g, d) /\ InPlace(g, d) /\ Holds(stack[g][d])
    BY <2>1, Zenon DEF Core, Frames, Placed, Holds
  <2>3. QED
    BY <1>12, <2>1, <2>2, Zenon DEF FrameOK, Frame
<1>15. Local(g, d, t)
  <2>1. \A i \in (d + 1)..Depth(g) : ~Holds(stack[g][i])
    BY <1>1, <1>2 DEF Holds
  <2>2. QED
    BY <1>2, <1>8, <1>9, <1>10, <1>12, <2>1 DEF Local, Replaces, Spares
<1>16. TopOK(g, d, t)
  <2>1. FrameOK(g, d + 1)'
    <3>1. (d + 1) - 1 = d /\ ~(d + 1 < d + 1) /\ (d + 1 > 1 <=> d > 0)
      BY Above, Zenon
    <3>2. f.kind # "in" /\ f.kind \in {"do", "path", "temp"} /\ f.step = "get" /\ f.thread # None
      BY <1>1, <1>4, <1>7, <1>12, Zenon DEF Own
    <3>3. f.undone => lost'
      BY <1>2, <1>4, <1>7, <1>8, Zenon DEF FrameOK
    <3>4. d > 0 => f.thread # stack'[g][d].thread
      BY <1>7, <1>13, <1>14, Zenon
    <3>5. QED
      BY <1>13, <3>1, <3>2, <3>3, <3>4, Zenon DEF FrameOK, Saved
  <2>2. InPlace(g, d + 1)'
    BY <1>1, <1>4, <1>7, <1>8, <1>10, <1>12, <1>13, Zenon DEF InPlace, Saved, Own, Safe
  <2>3. ~lost /\ e.kind \in {"do", "path"} => e.object = IF d = 0 THEN Home ELSE stack[g][d].target
    <3>1. (d + 1) - 1 = d /\ (d + 1 = 1 <=> d = 0)
      BY Above, Zenon
    <3>2. QED
      BY <1>2, <1>4, <3>1, Zenon DEF Core, Objects
  <2>4. QED
    BY <1>7, <1>8, <1>10, <1>13, <2>1, <2>2, <2>3, Zenon DEF TopOK
<1>17. UnderOK(g, d, t)
  <2> SUFFICES ASSUME d > 0
               PROVE  /\ stack[g][d].thread # t
                      /\ ~stack[g][d].undone => ns'[stack[g][d].thread] = stack[g][d].target
    BY Zenon DEF UnderOK
  <2>1. stack[g][d].step = "body" /\ stack[g][d + 1].kind # "in"
    BY <1>1, <1>2, Above, Zenon DEF Own
  <2>2. ns'[stack[g][d].thread] = ns[stack[g][d].thread]
    BY <1>10, <1>14, Zenon DEF Spares
  <2>3. QED
    BY <1>14, <2>1, <2>2, Zenon DEF InPlace
<1>18. ThreadOK(g, d, t)
  <2>1. Safe \subseteq {Home} \cup Named /\ f.step \notin Saved
    BY <1>7, Zenon DEF Safe, Saved
  <2>2. QED
    BY <1>10, <1>12, <1>13, <2>1, Zenon DEF ThreadOK
<1>19. QED
  BY <1>11, <1>15, <1>16, <1>17, <1>18, LocalCore, Zenon

-----------------------------------------------------------------------------
\* The step puts a frame on top of the d frames of g, all in their closures.
Adds(g, d, f) ==
    /\ d \in Nat /\ Depth(g) = d /\ Depth(g)' = d + 1
    /\ \A h \in Goroutine : h # g => stack'[h] = stack[h] /\ Depth(h)' = Depth(h)
    /\ \A i \in 1..d : stack'[g][i] = stack[g][i] /\ stack[g][i].step = "body"
    /\ stack'[g][d + 1] = f
    /\ stack[g] = <<>> <=> d = 0
    /\ d > 0 => /\ Top(g) = stack[g][d] /\ stack[g][d] \in Frame /\ stack'[g][d] = stack[g][d]
                /\ FrameOK(g, d) /\ InPlace(g, d) /\ Holds(stack[g][d]) /\ stack[g][d].thread \in Thread

\* A call, as a change of the stack.
LEMMA PushStep ==
    ASSUME Core, NEW g \in Goroutine, MayCall(g), NEW f \in Frame, Push(g, f)
    PROVE  /\ \E d \in Nat : Adds(g, d, f)
           /\ stack' \in [Goroutine -> Seq(Frame)]
           /\ \A h \in Goroutine : Depth(h)' <= MaxDepth
<1>1. Types
  BY Zenon DEF Core
<1>2. /\ stack' \in [Goroutine -> Seq(Frame)]
      /\ \A h \in Goroutine : h # g => stack'[h] = stack[h]
      /\ Depth(g)' = Depth(g) + 1
      /\ \A i \in 1..Depth(g) : stack'[g][i] = stack[g][i]
      /\ stack'[g][Depth(g) + 1] = f
  BY <1>1, PushFacts, Zenon
<1>3. /\ Depth(g) \in Nat /\ (stack[g] = <<>> <=> Depth(g) = 0)
      /\ Depth(g) < MaxDepth /\ (stack[g] # <<>> => Top(g).step = "body")
  BY <1>1, StackFrames, Zenon DEF MayCall, Depth
<1>4. PICK d \in Nat : d = Depth(g)
  BY <1>3, Zenon
<1>5. \A h \in Goroutine : h # g => Depth(h)' = Depth(h)
  BY <1>2, Zenon DEF Depth
<1>6. ASSUME NEW h \in Goroutine PROVE Depth(h)' <= MaxDepth
  <2>1. d + 1 <= MaxDepth /\ Depth(h) <= MaxDepth
    BY <1>1, <1>3, <1>4, BoundAssumption DEF Types
  <2>2. QED
    BY <1>2, <1>4, <1>5, <2>1, Zenon
<1>7. d > 0 => Top(g) = stack[g][d]
  BY <1>1, <1>3, <1>4, TopFrame
<1>8. ASSUME NEW i \in 1..d PROVE stack[g][i].step = "body"
  <2>1. FrameOK(g, i)
    BY <1>4, Zenon DEF Core, Frames
  <2>2. QED
    BY <1>3, <1>4, <1>7, <2>1 DEF FrameOK
<1>9. ASSUME d > 0
      PROVE  /\ stack[g][d] \in Frame /\ stack'[g][d] = stack[g][d] /\ FrameOK(g, d) /\ InPlace(g, d)
             /\ Holds(stack[g][d]) /\ stack[g][d].thread \in Thread
  <2>1. d \in 1..Depth(g)
    BY <1>4, <1>9
  <2>2. stack[g][d] \in Frame /\ stack'[g][d] = stack[g][d]
    BY <1>1, <1>2, <2>1, StackFrames, Zenon
  <2>3. FrameOK(g, d) /\ InPlace(g, d) /\ stack[g][d].step = "body"
    BY <1>4, <1>8, <2>1, Zenon DEF Core, Frames, Placed
  <2>4. QED
    BY <2>2, <2>3, Zenon DEF FrameOK, Frame, Holds
<1>10. Adds(g, d, f)
  BY <1>2, <1>3, <1>4, <1>5, <1>7, <1>8, <1>9, Zenon DEF Adds
<1>11. QED
  BY <1>2, <1>6, <1>10, Zenon

\* The closure a call is made from is in its namespace when nothing was lost, and
\* a goroutine that is in no call is in that of the process.
LEMMA CallerPlace ==
    ASSUME Core, NEW g \in Goroutine, NEW d, NEW f, Adds(g, d, f), NEW n \in Current(g)
    PROVE  /\ n \in NS
           /\ ~lost => n = IF d = 0 THEN Home ELSE stack[g][d].target
<1>1. CASE d = 0
  <2>1. PICK t \in Thread : Available(t, n) /\ n \in NS
    BY <1>1, Zenon DEF Current, Adds
  <2>2. n \in Safe
    BY <2>1, AvailableThread, Zenon
  <2>3. QED
    BY <1>1, <2>1, <2>2, Zenon DEF Safe
<1>2. CASE d # 0
  <2>1. d > 0 /\ n = ns[stack[g][d].thread] /\ stack[g][d].thread \in Thread /\ d = Depth(g)
    BY <1>2 DEF Current, Adds
  <2>2. n \in NS
    BY <2>1, Zenon DEF Core, Types
  <2>3. FrameOK(g, d) /\ InPlace(g, d) /\ stack[g][d].step = "body"
    BY <2>1 DEF Adds
  <2>4. ~lost => n = stack[g][d].target
    BY <2>1, <2>3, Zenon DEF FrameOK, InPlace
  <2>5. QED
    BY <1>2, <2>2, <2>4, Zenon
<1>3. QED
  BY <1>1, <1>2, Zenon

\* A call that works in a goroutine of its own: Do, WithNetNSPath or TempNetNS.
LEMMA OwnCallCore ==
    ASSUME Core, NEW g \in Goroutine, NEW d, NEW f \in Frame, Adds(g, d, f), Types',
           status' = status, ns' = ns, lost' = lost,
           f.kind \in Own, f.step = "spawn", f.thread = None, f.undone = FALSE,
           ~lost /\ f.kind \in {"do", "path"} => f.object = IF d = 0 THEN Home ELSE stack[g][d].target
    PROVE  Core'
<1>1. Local(g, d, None)
  <2>1. \A h \in Goroutine : \A i \in 1..Depth(h) : Holds(stack[h][i]) => stack[h][i].thread # None
    BY Zenon DEF Core, Frames, FrameOK, Holds
  <2>2. (d + 1)..Depth(g) = {}
    BY DEF Adds
  <2>3. QED
    BY <2>1, <2>2 DEF Local, Adds
<1>2. /\ stack'[g][d + 1] = f /\ Depth(g)' = d + 1 /\ d \in Nat
      /\ d > 0 => stack'[g][d] = stack[g][d] /\ stack[g][d].thread \in Thread
  BY Zenon DEF Adds
<1>3. TopOK(g, d, None)
  <2>1. FrameOK(g, d + 1)'
    BY <1>2, NSAssumption DEF FrameOK, Saved, Own
  <2>2. InPlace(g, d + 1)'
    BY <1>2, Zenon DEF InPlace, Saved, Own
  <2>3. ~Holds(f)
    BY Zenon DEF Holds
  <2>4. QED
    BY <1>2, <2>1, <2>2, <2>3, Zenon DEF TopOK
<1>4. UnderOK(g, d, None)
  <2> SUFFICES ASSUME d > 0
               PROVE  /\ stack[g][d].thread # None
                      /\ ~stack[g][d].undone => ns[stack[g][d].thread] = stack[g][d].target
    BY Zenon DEF UnderOK
  <2>1. d = Depth(g) /\ d \in 1..d /\ InPlace(g, d) /\ stack[g][d].step = "body"
    BY DEF Adds
  <2>2. QED
    BY <1>2, <2>1, NSAssumption, Zenon DEF InPlace
<1>5. ThreadOK(g, d, None)
  BY NSAssumption, Zenon DEF ThreadOK
<1>6. QED
  BY <1>1, <1>3, <1>4, <1>5, LocalCore, Zenon

\* What is shown of threads and frames says nothing else.
LEMMA SameCore ==
    ASSUME Core, UNCHANGED <<status, ns, stack, lost>>, Types'
    PROVE  Core'
<1>1. Frames'
  BY DEF Core, Frames, FrameOK, Depth
<1>2. Locked' /\ Exclusive'
  BY DEF Core, Locked, Exclusive, Depth
<1>3. Threads'
  BY Zenon DEF Core, Threads, Safe
<1>4. Placed'
  BY DEF Core, Placed, InPlace, Depth, Base, Safe
<1>5. NotTemp'
  BY DEF Core, NotTemp, InOnly, Depth
<1>6. Objects'
  BY Zenon DEF Core, Objects, Depth
<1>7. QED
  BY <1>1, <1>2, <1>3, <1>4, <1>5, <1>6, Zenon DEF Core

\* Do and WithNetNSPath: the object is of the namespace of the caller.
LEMMA DoCore ==
    ASSUME Core, NEW g \in Goroutine, NEW n \in NS, NEW kind \in {"do", "path"}, Do(g, n, kind)
    PROVE  Core'
<1>1. /\ Types /\ UNCHANGED <<status, ns, open, made, lost>> /\ MayCall(g)
      /\ calls' \in 0..MaxCalls /\ faults' \in 0..MaxFaults
  BY BoundAssumption DEF Core, Types, Do, threads, Call, Fault, Works
<1>2. CASE UNCHANGED stack
  <2>1. Types'
    BY <1>1, <1>2, Zenon DEF Types, Depth
  <2>2. QED
    BY <1>1, <1>2, <2>1, SameCore, Zenon
<1>3. CASE \E h \in Current(g) : Push(g, NewFrame(kind, "spawn", n, None, h))
  <2>1. PICK h \in Current(g) : Push(g, NewFrame(kind, "spawn", n, None, h))
    BY <1>3, Zenon
  <2>2. h \in NS
    <3>1. CASE stack[g] = <<>>
      BY <3>1, Zenon DEF Current
    <3>2. CASE stack[g] # <<>>
      <4>1. PICK d \in Nat : Top(g) = stack[g][d + 1] /\ Top(g) \in Frame /\ FrameOK(g, d + 1)
        BY <3>2, AtWork, Zenon
      <4>2. Top(g).thread \in Thread
        BY <1>1, <3>2, <4>1, Zenon DEF FrameOK, Frame, MayCall
      <4>3. QED
        BY <1>1, <3>2, <4>2, Zenon DEF Current, Types
    <3>3. QED
      BY <3>1, <3>2, Zenon
  <2>3. PICK f : f = NewFrame(kind, "spawn", n, None, h)
    BY Zenon
  <2>4. /\ f \in Frame /\ f.kind = kind /\ f.step = "spawn" /\ f.thread = None /\ f.object = h /\ f.undone = FALSE
    BY <2>2, <2>3, Zenon DEF NewFrame, Frame
  <2>5. Push(g, f)
    BY <2>1, <2>3, Zenon
  <2>6. /\ stack' \in [Goroutine -> Seq(Frame)] /\ \A k \in Goroutine : Depth(k)' <= MaxDepth
    BY <1>1, <2>4, <2>5, PushStep, Zenon
  <2>7. PICK d \in Nat : Adds(g, d, f)
    BY <1>1, <2>4, <2>5, PushStep, Zenon
  <2>8. ~lost => h = IF d = 0 THEN Home ELSE stack[g][d].target
    BY <2>1, <2>7, CallerPlace, Zenon
  <2>9. Types'
    BY <1>1, <2>6, Zenon DEF Types
  <2>10. status' = status /\ ns' = ns /\ lost' = lost /\ f.kind \in Own
    BY <1>1, <2>4, Zenon DEF Own
  <2>11. QED
    BY <2>4, <2>7, <2>8, <2>9, <2>10, OwnCallCore, Zenon
<1>4. QED
  BY <1>2, <1>3, Zenon DEF Do

\* TempNetNS.
LEMMA TempNetNSCore ==
    ASSUME Core, NEW g \in Goroutine, NEW n \in Temp, TempNetNS(g, n)
    PROVE  Core'
<1>1. /\ Types /\ UNCHANGED <<status, ns, open, lost, faults>> /\ MayCall(g)
      /\ calls' \in 0..MaxCalls /\ made' \subseteq Temp /\ n \in NS
  BY BoundAssumption DEF Core, Types, TempNetNS, threads, Call, NS
<1>2. PICK f : f = NewFrame("temp", "spawn", n, None, None)
  BY Zenon
<1>3. f \in Frame /\ f.kind = "temp" /\ f.step = "spawn" /\ f.thread = None /\ f.undone = FALSE
  BY <1>1, <1>2, Zenon DEF NewFrame, Frame
<1>4. Push(g, f)
  BY <1>2, Zenon DEF TempNetNS
<1>5. stack' \in [Goroutine -> Seq(Frame)] /\ \A k \in Goroutine : Depth(k)' <= MaxDepth
  BY <1>1, <1>3, <1>4, PushStep, Zenon
<1>6. PICK d \in Nat : Adds(g, d, f)
  BY <1>1, <1>3, <1>4, PushStep, Zenon
<1>7. Types'
  BY <1>1, <1>5, Zenon DEF Types
<1>8. status' = status /\ ns' = ns /\ lost' = lost /\ f.kind \in Own
  BY <1>1, <1>3, Zenon DEF Own
<1>9. QED
  BY <1>3, <1>6, <1>7, <1>8, OwnCallCore, Zenon

\* inNamespace locks the thread it is called on: that of the closure around it, or
\* any thread the runtime hands out.
LEMMA InNamespaceCore ==
    ASSUME Core, NEW g \in Goroutine, NEW n \in Named, InNamespace(g, n)
    PROVE  Core'
<1>1. /\ Types /\ UNCHANGED <<open, made, lost, faults>> /\ MayCall(g)
      /\ calls' \in 0..MaxCalls /\ n \in NS
  BY BoundAssumption DEF Core, Types, InNamespace, Call, NS
<1>2. PICK t \in Thread, m \in NS :
         /\ IF stack[g] = <<>> THEN Available(t, m) ELSE t = Top(g).thread /\ m = ns[t]
         /\ LockOSThread(t, m)
         /\ Push(g, NewFrame("in", "get", n, t, None))
  BY Zenon DEF InNamespace
<1>3. PICK f : f = NewFrame("in", "get", n, t, None)
  BY Zenon
<1>4. f \in Frame /\ f.kind = "in" /\ f.step = "get" /\ f.target = n /\ f.thread = t /\ f.undone = FALSE
  BY <1>1, <1>3, Zenon DEF NewFrame, Frame
<1>5. Push(g, f)
  BY <1>2, <1>3, Zenon
<1>6. stack' \in [Goroutine -> Seq(Frame)] /\ \A k \in Goroutine : Depth(k)' <= MaxDepth
  BY <1>1, <1>4, <1>5, PushStep, Zenon
<1>7. PICK d \in Nat : Adds(g, d, f)
  BY <1>1, <1>4, <1>5, PushStep, Zenon
<1>8. /\ ns' \in [Thread -> NS] /\ status' \in [Thread -> {"none", "idle", "locked"}]
      /\ ns'[t] = m /\ status'[t] = "locked" /\ Spares(t)
  BY <1>1, <1>2, Zenon DEF LockOSThread, Types, Spares
<1>9. Types'
  BY <1>1, <1>6, <1>8, Zenon DEF Types
<1>10. /\ stack'[g][d + 1] = f /\ Depth(g)' = d + 1 /\ Depth(g) = d
       /\ d > 0 => stack'[g][d] = stack[g][d] /\ Holds(stack[g][d]) /\ stack[g][d].step = "body"
  BY <1>7, Above, Zenon DEF Adds
<1>11. d > 0 => t = stack[g][d].thread /\ m = ns[t]
  BY <1>2, <1>7, Above DEF Adds
<1>12. d = 0 => /\ m \in Safe
                /\ \A h \in Goroutine : \A i \in 1..Depth(h) : Holds(stack[h][i]) => stack[h][i].thread # t
  BY <1>2, <1>7, AvailableThread, Zenon DEF Adds
<1>13. t # None
  BY NSAssumption, Zenon
<1>14. Local(g, d, t)
  <2>1. ASSUME NEW h \in Goroutine, NEW i \in 1..Depth(h), Holds(stack[h][i]), stack[h][i].thread = t
        PROVE  h = g /\ (i < d => stack[g][d].thread = t)
    <3>1. d > 0 /\ d \in 1..Depth(g)
      BY <1>10, <1>12, <2>1, Above, Zenon
    <3>2. QED
      BY <1>10, <1>11, <2>1, <3>1, Zenon DEF Core, Exclusive
  <2>2. (d + 1)..Depth(g) = {}
    <3>1. (d + 1)..d = {}
      BY ONLY d \in Nat
    <3>2. QED
      BY <1>10, <3>1, Zenon
  <2>3. /\ d \in Nat /\ d <= Depth(g) /\ Depth(g)' \in {d, d + 1} /\ (lost => lost')
        /\ \A h \in Goroutine : h # g => stack'[h] = stack[h] /\ Depth(h)' = Depth(h)
        /\ \A i \in 1..d : stack'[g][i] = stack[g][i] /\ stack[g][i].step = "body"
    BY <1>1, <1>7 DEF Adds
  <2>4. QED
    BY <1>8, <2>1, <2>2, <2>3, Zenon DEF Local, Spares
<1>15. d > 0 => FrameOK(g, d) /\ InPlace(g, d)
  BY <1>7, Zenon DEF Adds
<1>16. TopOK(g, d, t)
  <2>1. FrameOK(g, d + 1)'
    <3>1. (d + 1) - 1 = d /\ ~(d + 1 < d + 1) /\ (d + 1 > 1 <=> d > 0)
      BY Above, Zenon
    <3>2. d > 0 => f.thread = stack'[g][d].thread
      BY <1>4, <1>10, <1>11, Zenon
    <3>3. n \in Named
      BY <1>1, Zenon
    <3>4. QED
      BY <1>4, <1>10, <1>13, <3>1, <3>2, <3>3, Zenon DEF FrameOK, Saved
  <2>2. InPlace(g, d + 1)'
    <3>1. d > 0 /\ ~stack[g][d].undone => ns[t] = stack[g][d].target
      BY <1>10, <1>11, <1>15, Zenon DEF InPlace
    <3>2. d = 0 => m \in Safe'
      BY <1>1, <1>12, Zenon DEF Safe
    <3>3. QED
      BY <1>4, <1>8, <1>10, <1>11, <3>1, <3>2 DEF InPlace, Base, Saved
  <2>3. QED
    BY <1>4, <1>8, <1>10, <2>1, <2>2, Zenon DEF TopOK
<1>17. UnderOK(g, d, t)
  BY <1>4, <1>8, <1>10, Zenon DEF UnderOK
<1>18. ThreadOK(g, d, t)
  <2>1. f.step \notin Saved
    BY <1>4, Zenon DEF Saved
  <2>2. ASSUME InOnly(t)' PROVE m \in {Home} \cup Named
    <3>1. CASE d = 0
      BY <1>12, <3>1, Zenon DEF Safe
    <3>2. CASE d > 0
      <4>1. ASSUME NEW h \in Goroutine, NEW i \in 1..Depth(h)
            PROVE  i \in 1..Depth(h)' /\ stack'[h][i] = stack[h][i]
        BY <1>7 DEF Adds
      <4>2. \A h \in Goroutine : \A i \in 1..Depth(h)' :
               Holds(stack'[h][i]) /\ stack'[h][i].thread = t => stack'[h][i].kind = "in"
        BY <2>2, Zenon DEF InOnly
      <4>3. ASSUME NEW h \in Goroutine, NEW i \in 1..Depth(h), Holds(stack[h][i]), stack[h][i].thread = t
            PROVE  stack[h][i].kind = "in"
        BY <4>1, <4>2, <4>3, Zenon
      <4>4. InOnly(t)
        BY <4>3, Zenon DEF InOnly
      <4>5. QED
        BY <1>11, <3>2, <4>4, Zenon DEF Core, NotTemp
    <3>3. QED
      BY <3>1, <3>2
  <2>3. QED
    BY <1>8, <1>10, <2>1, <2>2, Zenon DEF ThreadOK
<1>19. QED
  BY <1>9, <1>14, <1>16, <1>17, <1>18, LocalCore, Zenon

-----------------------------------------------------------------------------
\* Every step keeps what is shown of threads and frames.
LEMMA NextCore ==
    ASSUME Core, Next
    PROVE  Core'
<1>1. ASSUME NEW g \in Goroutine, NEW n \in Named, InNamespace(g, n) \/ Do(g, n, "path") PROVE Core'
  <2>1. n \in NS
    BY Zenon DEF NS
  <2>2. QED
    BY <1>1, <2>1, InNamespaceCore, DoCore, Zenon
<1>2. ASSUME NEW g \in Goroutine, NEW n \in NS, Do(g, n, "do") PROVE Core'
  BY <1>2, DoCore, Zenon
<1>3. ASSUME NEW g \in Goroutine, NEW n \in Temp, TempNetNS(g, n) PROVE Core'
  BY <1>3, TempNetNSCore, Zenon
<1>4. ASSUME NEW g \in Goroutine, SetFails(g) \/ GetFails(g) PROVE Core'
  BY <1>4, FailsCore, Zenon DEF SetFails, GetFails
<1>5. ASSUME NEW g \in Goroutine, Work(g) PROVE Core'
  BY <1>4, <1>5, SpawnCore, GetCore, SetCore, UnshareCore, HandleCore, BodyEndsCore, RestoreCore, ReturnCore, Zenon
     DEF Work
<1>6. ASSUME NEW g \in Goroutine, InNotRestored(g) \/ ChildNotRestored(g) PROVE Core'
  BY <1>6, InNotRestoredCore, ChildNotRestoredCore, Zenon
<1>7. ASSUME NEW n \in Named, GetNS(n) PROVE Core'
  <2>1. Types'
    BY <1>7, BoundAssumption DEF GetNS, Core, Types, Call, threads, NS, Depth
  <2>2. QED
    BY <1>7, <2>1, SameCore, Zenon DEF GetNS, threads
<1>8. ASSUME NEW n \in NS, Close(n) PROVE Core'
  <2>1. Types'
    BY <1>8, Zenon DEF Close, Core, Types, threads, Depth
  <2>2. QED
    BY <1>8, <2>1, SameCore, Zenon DEF Close, threads
<1>9. QED
  BY <1>1, <1>2, <1>3, <1>4, <1>5, <1>6, <1>7, <1>8, Zenon DEF Next

-----------------------------------------------------------------------------
\* The descriptors the calls have open: the handle to come back with, hostNS, and
\* the object of WithNetNSPath.
Has(f, k) ==
    \/ k = "saved" /\ f.step \in Saved
    \/ k = "host" /\ f.kind \in {"do", "path"}
    \/ k = "path" /\ f.kind = "path"

Opened ==
    {x \in Goroutine \X Nat \X {"saved", "host", "path"} :
        x[2] \in 1..Depth(x[1]) /\ Has(stack[x[1]][x[2]], x[3])}

\* S has n elements: they can be numbered 1, ..., n.
Numbers(f, n, S) ==
    /\ f \in [1..n -> S]
    /\ \A x \in S : \E i \in 1..n : f[i] = x
    /\ \A i, j \in 1..n : f[i] = f[j] => i = j

HasSize(S, n) == n \in Nat /\ \E f : Numbers(f, n, S)

Counted == HasSize(Opened, fds)

\* The inductive invariant.
Inv == /\ Types /\ Frames /\ Locked /\ Exclusive /\ Threads /\ Placed /\ NotTemp /\ Objects
       /\ Counted

\* The empty set has no elements.
LEMMA EmptySize ==
    /\ HasSize({}, 0)
    /\ \A n : HasSize({}, n) => n = 0
<1>1. HasSize({}, 0)
  <2>1. Numbers([i \in 1..0 |-> i], 0, {})
    BY DEF Numbers
  <2>2. QED
    BY <2>1 DEF HasSize
<1>2. ASSUME NEW n, HasSize({}, n) PROVE n = 0
  <2>1. PICK f : Numbers(f, n, {})
    BY <1>2, Zenon DEF HasSize
  <2>2. \A i \in 1..n : f[i] \in {}
    BY <2>1, Zenon DEF Numbers
  <2>3. QED
    BY <1>2, <2>2 DEF HasSize
<1>3. QED
  BY <1>1, <1>2, Zenon

\* An element more.
LEMMA AddSize ==
    ASSUME NEW S, NEW n, HasSize(S, n), NEW x, x \notin S
    PROVE  HasSize(S \cup {x}, n + 1)
<1>1. PICK f : Numbers(f, n, S)
  BY Zenon DEF HasSize
<1>2. PICK h : h = [i \in 1..(n + 1) |-> IF i = n + 1 THEN x ELSE f[i]]
  BY Zenon
<1>3. n \in Nat /\ n + 1 \in 1..(n + 1) /\ 1..(n + 1) = 1..n \cup {n + 1} /\ n + 1 \notin 1..n
  BY DEF HasSize
<1>4. h[n + 1] = x /\ \A i \in 1..n : h[i] = f[i] /\ h[i] \in S
  BY <1>1, <1>2, <1>3 DEF Numbers
<1>5. h \in [1..(n + 1) -> S \cup {x}]
  BY <1>2, <1>3, <1>4
<1>6. \A y \in S \cup {x} : \E i \in 1..(n + 1) : h[i] = y
  BY <1>1, <1>3, <1>4 DEF Numbers
<1>7. \A i, j \in 1..(n + 1) : h[i] = h[j] => i = j
  BY <1>1, <1>3, <1>4 DEF Numbers
<1>8. Numbers(h, n + 1, S \cup {x})
  BY <1>5, <1>6, <1>7, Zenon DEF Numbers
<1>9. n + 1 \in Nat
  BY <1>3
<1>10. QED
  BY <1>8, <1>9, Zenon DEF HasSize

\* An element less: the last one takes its number.
LEMMA RemoveSize ==
    ASSUME NEW S, NEW n, HasSize(S, n), NEW x, x \in S
    PROVE  HasSize(S \ {x}, n - 1)
<1>1. PICK f : Numbers(f, n, S)
  BY Zenon DEF HasSize
<1>2. PICK k \in 1..n : f[k] = x
  BY <1>1, Zenon DEF Numbers
<1>3. PICK h : h = [i \in 1..(n - 1) |-> IF i = k THEN f[n] ELSE f[i]]
  BY Zenon
<1>4. n \in Nat /\ n - 1 \in Nat /\ n \in 1..n /\ 1..n = 1..(n - 1) \cup {n} /\ n \notin 1..(n - 1)
  BY <1>2 DEF HasSize
<1>5. \A i \in 1..(n - 1) : h[i] = IF i = k THEN f[n] ELSE f[i]
  BY <1>3, Zenon
<1>6. \A i \in 1..(n - 1) : h[i] \in S \ {x}
  BY <1>1, <1>2, <1>4, <1>5 DEF Numbers
<1>7. h \in [1..(n - 1) -> S \ {x}]
  BY <1>3, <1>5, <1>6
<1>8. ASSUME NEW y \in S \ {x} PROVE \E i \in 1..(n - 1) : h[i] = y
  <2>1. PICK j \in 1..n : f[j] = y
    BY <1>1, Zenon DEF Numbers
  <2>2. j # k
    BY <1>2, <2>1, Zenon
  <2>3. CASE j = n
    BY <1>4, <1>5, <2>1, <2>2, <2>3, <1>2
  <2>4. CASE j # n
    BY <1>4, <1>5, <2>1, <2>2, <2>4
  <2>5. QED
    BY <2>3, <2>4, Zenon
<1>9. \A i, j \in 1..(n - 1) : h[i] = h[j] => i = j
  BY <1>1, <1>2, <1>4, <1>5 DEF Numbers
<1>10. Numbers(h, n - 1, S \ {x})
  BY <1>7, <1>8, <1>9, Zenon DEF Numbers
<1>11. QED
  BY <1>4, <1>10, Zenon DEF HasSize

\* The number of descriptors follows one that is opened, ...
LEMMA OneOpened ==
    ASSUME Counted, NEW x, x \notin Opened, Opened' = Opened \cup {x}, fds' = fds + 1
    PROVE  Counted'
  BY AddSize, Zenon DEF Counted

\* ... one that is closed, ...
LEMMA OneClosed ==
    ASSUME Counted, NEW x, x \in Opened, Opened' = Opened \ {x}, fds' = fds - 1
    PROVE  Counted'
  BY RemoveSize, Zenon DEF Counted

\* ... and the two of WithNetNSPath.
LEMMA TwoOpened ==
    ASSUME Counted, NEW x, NEW y, x # y, x \notin Opened, y \notin Opened,
           Opened' = Opened \cup {x, y}, fds' = fds + 2
    PROVE  Counted'
<1>1. y \notin Opened \cup {x} /\ (Opened \cup {x}) \cup {y} = Opened \cup {x, y}
  BY Zenon
<1>2. HasSize(Opened \cup {x, y}, (fds + 1) + 1)
  BY <1>1, AddSize, Zenon DEF Counted
<1>3. fds \in Nat
  BY Zenon DEF Counted, HasSize
<1>4. fds' = (fds + 1) + 1
  BY <1>3
<1>5. QED
  BY <1>2, <1>4, Zenon DEF Counted

\* WithNetNSPath closes both.
LEMMA TwoClosed ==
    ASSUME Counted, NEW x, NEW y, x # y, x \in Opened, y \in Opened,
           Opened' = Opened \ {x, y}, fds' = fds - 2
    PROVE  Counted'
<1>1. y \in Opened \ {x} /\ (Opened \ {x}) \ {y} = Opened \ {x, y}
  BY Zenon
<1>2. HasSize(Opened \ {x, y}, (fds - 1) - 1)
  BY <1>1, RemoveSize, Zenon DEF Counted
<1>3. fds \in Nat
  BY Zenon DEF Counted, HasSize
<1>4. fds' = (fds - 1) - 1
  BY ONLY <1>3, fds' = fds - 2
<1>5. QED
  BY <1>2, <1>4, Zenon DEF Counted

\* A step that changes what frame d + 1 of g has open, if there is one, and that of
\* no other frame.
Touches(g, d) ==
    /\ d \in Nat /\ Depth(g) \in {d, d + 1} /\ Depth(g)' \in {d, d + 1}
    /\ \A h \in Goroutine : h # g => stack'[h] = stack[h] /\ Depth(h)' = Depth(h)
    /\ \A i \in 1..d : stack'[g][i].kind = stack[g][i].kind /\ stack'[g][i].step = stack[g][i].step

Here(g, d, k) == Depth(g) = d + 1 /\ Has(stack[g][d + 1], k)

\* The descriptors after such a step.
LEMMA OpenedThen ==
    ASSUME NEW g \in Goroutine, NEW d, Touches(g, d),
           NEW h \in Goroutine, NEW i \in Nat, NEW k \in {"saved", "host", "path"}
    PROVE  /\ ~(h = g /\ i = d + 1) => (<<h, i, k>> \in Opened' <=> <<h, i, k>> \in Opened)
           /\ h = g /\ i = d + 1 => /\ <<h, i, k>> \in Opened <=> Here(g, d, k)
                                    /\ <<h, i, k>> \in Opened' <=> Here(g, d, k)'
<1>1. <<h, i, k>> \in Opened <=> i \in 1..Depth(h) /\ Has(stack[h][i], k)
  BY Zenon DEF Opened
<1>2. <<h, i, k>> \in Opened' <=> i \in 1..Depth(h)' /\ Has(stack'[h][i], k)
  BY Zenon DEF Opened, Has, Saved
<1>3. CASE h # g
  BY <1>1, <1>2, <1>3, Zenon DEF Touches
<1>4. CASE h = g /\ i > d + 1
  <2>1. i \notin 1..Depth(g) /\ i \notin 1..Depth(g)'
    BY <1>4 DEF Touches
  <2>2. QED
    BY <1>1, <1>2, <1>4, <2>1 DEF Touches
<1>5. CASE h = g /\ i <= d
  <2>1. i > 0 => i \in 1..d
    BY <1>5 DEF Touches
  <2>2. i > 0 => (Has(stack'[g][i], k) <=> Has(stack[g][i], k))
    BY <2>1, Zenon DEF Touches, Has
  <2>3. (i \in 1..Depth(g) <=> i > 0) /\ (i \in 1..Depth(g)' <=> i > 0) /\ i # d + 1
    BY <1>5 DEF Touches
  <2>4. QED
    BY <1>1, <1>2, <1>5, <2>2, <2>3, Zenon
<1>6. CASE h = g /\ i = d + 1
  <2>1. (i \in 1..Depth(g) <=> Depth(g) = d + 1) /\ (i \in 1..Depth(g)' <=> Depth(g)' = d + 1)
    BY <1>6 DEF Touches
  <2>2. Here(g, d, k) <=> Depth(g) = d + 1 /\ Has(stack[g][i], k)
    BY <1>6, Zenon DEF Here
  <2>3. Here(g, d, k)' <=> Depth(g)' = d + 1 /\ Has(stack'[g][i], k)
    BY <1>6, Zenon DEF Here, Has, Saved
  <2>4. QED
    BY <1>1, <1>2, <1>6, <2>1, <2>2, <2>3, Zenon
<1>7. QED
  BY <1>3, <1>4, <1>5, <1>6 DEF Touches

\* A set of descriptors, by its elements.
LEMMA SameOpened ==
    ASSUME NEW S, S \subseteq Goroutine \X Nat \X {"saved", "host", "path"},
           \A h \in Goroutine, i \in Nat, k \in {"saved", "host", "path"} :
              <<h, i, k>> \in Opened' <=> <<h, i, k>> \in S
    PROVE  Opened' = S
<1>1. Opened' \subseteq Goroutine \X Nat \X {"saved", "host", "path"}
  BY Zenon DEF Opened
<1>2. \A x \in Goroutine \X Nat \X {"saved", "host", "path"} :
         \E h \in Goroutine, i \in Nat, k \in {"saved", "host", "path"} : x = <<h, i, k>>
  OBVIOUS
<1>3. ASSUME NEW x PROVE x \in Opened' <=> x \in S
  <2>1. CASE x \in Goroutine \X Nat \X {"saved", "host", "path"}
    <3>1. PICK h \in Goroutine, i \in Nat, k \in {"saved", "host", "path"} : x = <<h, i, k>>
      BY <1>2, <2>1, Zenon
    <3>2. QED
      BY <3>1, Zenon
  <2>2. CASE x \notin Goroutine \X Nat \X {"saved", "host", "path"}
    BY <1>1, <2>2, Zenon
  <2>3. QED
    BY <2>1, <2>2, Zenon
<1>4. QED
  BY <1>3, Zenon

\* A frame that goes on with or without the handle to come back with.
LEMMA HandleCounted ==
    ASSUME Counted, NEW g \in Goroutine, NEW d, Touches(g, d),
           \A k \in {"host", "path"} : Here(g, d, k)' <=> Here(g, d, k),
           \/ Here(g, d, "saved")' /\ ~Here(g, d, "saved") /\ fds' = fds + 1
           \/ ~Here(g, d, "saved")' /\ Here(g, d, "saved") /\ fds' = fds - 1
           \/ (Here(g, d, "saved")' <=> Here(g, d, "saved")) /\ fds' = fds
    PROVE  Counted'
<1> DEFINE x == <<g, d + 1, "saved">>
           K == {"saved", "host", "path"}
<1>1. x \in Goroutine \X Nat \X K /\ Opened \subseteq Goroutine \X Nat \X K /\ d + 1 \in Nat
  BY DEF Touches, Opened
<1>2. \A h \in Goroutine, i \in Nat, k \in K :
         <<h, i, k>> # x => (<<h, i, k>> \in Opened' <=> <<h, i, k>> \in Opened)
  <2> SUFFICES ASSUME NEW h \in Goroutine, NEW i \in Nat, NEW k \in K, <<h, i, k>> # x
               PROVE  <<h, i, k>> \in Opened' <=> <<h, i, k>> \in Opened
    BY Zenon
  <2>1. CASE ~(h = g /\ i = d + 1)
    BY <2>1, OpenedThen, Zenon
  <2>2. CASE h = g /\ i = d + 1
    <3>1. k \in {"host", "path"}
      BY <2>2, Zenon
    <3>2. QED
      BY <2>2, <3>1, OpenedThen, Zenon
  <2>3. QED
    BY <2>1, <2>2, Zenon
<1>3. (x \in Opened <=> Here(g, d, "saved")) /\ (x \in Opened' <=> Here(g, d, "saved")')
  BY <1>1, OpenedThen, Zenon
<1> HIDE DEF x
<1>4. CASE Here(g, d, "saved")' /\ ~Here(g, d, "saved") /\ fds' = fds + 1
  <2>1. Opened' = Opened \cup {x}
    <3>1. PICK S : S = Opened \cup {x}
      BY Zenon
    <3>2. S \subseteq Goroutine \X Nat \X K
      BY <1>1, <3>1, Zenon
    <3>3. \A h \in Goroutine, i \in Nat, k \in K : <<h, i, k>> \in Opened' <=> <<h, i, k>> \in S
      BY <1>2, <1>3, <1>4, <3>1, Zenon
    <3>4. QED
      BY <3>1, <3>2, <3>3, SameOpened, Zenon
  <2>2. QED
    BY <1>3, <1>4, <2>1, OneOpened, Zenon
<1>5. CASE ~Here(g, d, "saved")' /\ Here(g, d, "saved") /\ fds' = fds - 1
  <2>1. Opened' = Opened \ {x}
    <3>1. PICK S : S = Opened \ {x}
      BY Zenon
    <3>2. S \subseteq Goroutine \X Nat \X K
      BY <1>1, <3>1, Zenon
    <3>3. \A h \in Goroutine, i \in Nat, k \in K : <<h, i, k>> \in Opened' <=> <<h, i, k>> \in S
      BY <1>2, <1>3, <1>5, <3>1, Zenon
    <3>4. QED
      BY <3>1, <3>2, <3>3, SameOpened, Zenon
  <2>2. QED
    BY <1>3, <1>5, <2>1, OneClosed, Zenon
<1>6. CASE (Here(g, d, "saved")' <=> Here(g, d, "saved")) /\ fds' = fds
  <2>1. Opened' = Opened
    <3>1. PICK S : S = Opened
      BY Zenon
    <3>2. \A h \in Goroutine, i \in Nat, k \in K : <<h, i, k>> \in Opened' <=> <<h, i, k>> \in S
      BY <1>2, <1>3, <1>6, <3>1, Zenon
    <3>3. QED
      BY <1>1, <3>1, <3>2, SameOpened, Zenon
  <2>2. QED
    BY <1>6, <2>1, Zenon DEF Counted
<1>7. QED
  BY <1>4, <1>5, <1>6, Zenon

\* A frame without that handle that comes or goes, with hostNS and the object of
\* WithNetNSPath.
LEMMA CallCounted ==
    ASSUME Counted, NEW g \in Goroutine, NEW d, Touches(g, d),
           ~Here(g, d, "saved") /\ ~Here(g, d, "saved")',
           \/ /\ Here(g, d, "host")' /\ Here(g, d, "path")' /\ ~Here(g, d, "host") /\ ~Here(g, d, "path")
              /\ fds' = fds + 2
           \/ /\ Here(g, d, "host")' /\ ~Here(g, d, "path")' /\ ~Here(g, d, "host") /\ ~Here(g, d, "path")
              /\ fds' = fds + 1
           \/ /\ ~Here(g, d, "host")' /\ ~Here(g, d, "path")' /\ Here(g, d, "host") /\ Here(g, d, "path")
              /\ fds' = fds - 2
           \/ /\ ~Here(g, d, "host")' /\ ~Here(g, d, "path")' /\ Here(g, d, "host") /\ ~Here(g, d, "path")
              /\ fds' = fds - 1
           \/ /\ ~Here(g, d, "host")' /\ ~Here(g, d, "path")' /\ ~Here(g, d, "host") /\ ~Here(g, d, "path")
              /\ fds' = fds
    PROVE  Counted'
<1> DEFINE x == <<g, d + 1, "host">>
           y == <<g, d + 1, "path">>
           K == {"saved", "host", "path"}
<1>1. /\ x \in Goroutine \X Nat \X K /\ y \in Goroutine \X Nat \X K /\ x # y
      /\ Opened \subseteq Goroutine \X Nat \X K /\ d + 1 \in Nat
  BY DEF Touches, Opened
<1>2. \A h \in Goroutine, i \in Nat, k \in K :
         <<h, i, k>> # x /\ <<h, i, k>> # y => (<<h, i, k>> \in Opened' <=> <<h, i, k>> \in Opened)
  <2> SUFFICES ASSUME NEW h \in Goroutine, NEW i \in Nat, NEW k \in K, <<h, i, k>> # x, <<h, i, k>> # y
               PROVE  <<h, i, k>> \in Opened' <=> <<h, i, k>> \in Opened
    BY Zenon
  <2>1. CASE ~(h = g /\ i = d + 1)
    BY <2>1, OpenedThen, Zenon
  <2>2. CASE h = g /\ i = d + 1
    <3>1. k = "saved"
      BY <2>2, Zenon
    <3>2. QED
      BY <2>2, <3>1, OpenedThen, Zenon
  <2>3. QED
    BY <2>1, <2>2, Zenon
<1>3. (x \in Opened <=> Here(g, d, "host")) /\ (x \in Opened' <=> Here(g, d, "host")')
  BY <1>1, OpenedThen, Zenon
<1>4. (y \in Opened <=> Here(g, d, "path")) /\ (y \in Opened' <=> Here(g, d, "path")')
  BY <1>1, OpenedThen, Zenon
<1> HIDE DEF x, y
<1>5. ASSUME NEW S, S \subseteq Goroutine \X Nat \X K,
             x \in Opened' <=> x \in S, y \in Opened' <=> y \in S,
             \A z : z # x /\ z # y => (z \in S <=> z \in Opened)
      PROVE  Opened' = S
  BY <1>2, <1>5, SameOpened
<1>6. CASE x \in Opened' /\ y \in Opened' /\ x \notin Opened /\ y \notin Opened /\ fds' = fds + 2
  <2>1. PICK S : S = Opened \cup {x, y}
    BY Zenon
  <2>2. Opened' = S
    BY <1>1, <1>5, <1>6, <2>1
  <2>3. QED
    BY <1>1, <1>6, <2>1, <2>2, TwoOpened, Zenon
<1>7. CASE x \in Opened' /\ y \notin Opened' /\ x \notin Opened /\ y \notin Opened /\ fds' = fds + 1
  <2>1. PICK S : S = Opened \cup {x}
    BY Zenon
  <2>2. Opened' = S
    BY <1>1, <1>5, <1>7, <2>1, Zenon
  <2>3. QED
    BY <1>7, <2>1, <2>2, OneOpened, Zenon
<1>8. CASE x \notin Opened' /\ y \notin Opened' /\ x \in Opened /\ y \in Opened /\ fds' = fds - 2
  <2>1. PICK S : S = Opened \ {x, y}
    BY Zenon
  <2>2. Opened' = S
    BY <1>1, <1>5, <1>8, <2>1, Zenon
  <2>3. QED
    BY <1>1, <1>8, <2>1, <2>2, TwoClosed, Zenon
<1>9. CASE x \notin Opened' /\ y \notin Opened' /\ x \in Opened /\ y \notin Opened /\ fds' = fds - 1
  <2>1. PICK S : S = Opened \ {x}
    BY Zenon
  <2>2. Opened' = S
    BY <1>1, <1>5, <1>9, <2>1, Zenon
  <2>3. QED
    BY <1>9, <2>1, <2>2, OneClosed, Zenon
<1>10. CASE x \notin Opened' /\ y \notin Opened' /\ x \notin Opened /\ y \notin Opened /\ fds' = fds
  <2>1. PICK S : S = Opened
    BY Zenon
  <2>2. Opened' = S
    BY <1>1, <1>5, <1>10, <2>1, Zenon
  <2>3. QED
    BY <1>10, <2>1, <2>2, Zenon DEF Counted
<1>11. QED
  BY <1>3, <1>4, <1>6, <1>7, <1>8, <1>9, <1>10, Zenon

\* A step of a call opens or closes the handle to come back with, or nothing.
LEMMA UpdateCounted ==
    ASSUME Types, Counted, NEW g \in Goroutine, stack[g] # <<>>, NEW f, Update(g, f),
           f.kind = Top(g).kind,
           \/ f.step \in Saved /\ Top(g).step \notin Saved /\ fds' = fds + 1
           \/ f.step \notin Saved /\ Top(g).step \in Saved /\ fds' = fds - 1
           \/ (f.step \in Saved <=> Top(g).step \in Saved) /\ fds' = fds
    PROVE  Counted'
<1> DEFINE s == Under(stack[g])
<1>1. Depth(g) \in Nat /\ Depth(g) > 0 /\ Top(g) = stack[g][Depth(g)]
  BY TopFrame, Zenon
<1>2. PICK d \in Nat : Depth(g) = d + 1
  <2>1. Depth(g) - 1 \in Nat /\ Depth(g) = (Depth(g) - 1) + 1
    BY <1>1
  <2>2. QED
    BY <2>1, Zenon
<1>3. s \in Seq(Frame) /\ Len(s) = d /\ \A i \in 1..d : s[i] = stack[g][i]
  BY <1>2, UnderFacts
<1> HIDE DEF s
<1>4. /\ Len(Append(s, f)) = d + 1 /\ Append(s, f)[d + 1] = f
      /\ \A i \in 1..d : Append(s, f)[i] = s[i]
  BY <1>3
<1>5. stack' = [stack EXCEPT ![g] = Append(s, f)]
  BY Zenon DEF Update, s
<1>6. stack'[g] = Append(s, f) /\ \A h \in Goroutine : h # g => stack'[h] = stack[h]
  BY <1>5, Zenon DEF Types
<1>7. Depth(g)' = d + 1 /\ \A h \in Goroutine : h # g => Depth(h)' = Depth(h)
  BY <1>4, <1>6, Zenon DEF Depth
<1>8. stack'[g][d + 1] = f /\ \A i \in 1..d : stack'[g][i] = stack[g][i]
  BY <1>3, <1>4, <1>6, Zenon
<1>9. Touches(g, d)
  BY <1>2, <1>6, <1>7, <1>8, Zenon DEF Touches
<1>10. \A k \in {"saved", "host", "path"} : /\ Here(g, d, k) <=> Has(Top(g), k)
                                            /\ Here(g, d, k)' <=> Has(f, k)
  BY <1>1, <1>2, <1>7, <1>8, Zenon DEF Here, Has, Saved
<1>11. \A k \in {"host", "path"} : Here(g, d, k)' <=> Here(g, d, k)
  BY <1>10, Zenon DEF Has
<1>12. (Has(f, "saved") <=> f.step \in Saved) /\ (Has(Top(g), "saved") <=> Top(g).step \in Saved)
  BY Zenon DEF Has
<1>13. QED
  BY <1>9, <1>10, <1>11, <1>12, HandleCounted, Zenon

\* inNamespace closes its handle when it returns.
LEMMA InPopCounted ==
    ASSUME Types, Counted, NEW g \in Goroutine, stack[g] # <<>>, Pop(g), Top(g).kind = "in",
           fds' = IF Top(g).step \in Saved THEN fds - 1 ELSE fds
    PROVE  Counted'
<1>1. Depth(g) \in Nat /\ Depth(g) > 0 /\ Top(g) = stack[g][Depth(g)]
  BY TopFrame, Zenon
<1>2. PICK d \in Nat : Depth(g) = d + 1
  <2>1. Depth(g) - 1 \in Nat /\ Depth(g) = (Depth(g) - 1) + 1
    BY <1>1
  <2>2. QED
    BY <2>1, Zenon
<1>3. Removes(g, d)
  BY <1>2, PopStep, Zenon
<1>4. Touches(g, d) /\ Depth(g)' # d + 1
  BY <1>3 DEF Removes, Touches
<1>5. \A k \in {"saved", "host", "path"} : /\ Here(g, d, k) <=> Has(Top(g), k)
                                           /\ ~Here(g, d, k)'
  BY <1>1, <1>2, <1>4, Zenon DEF Here
<1>6. (Has(Top(g), "saved") <=> Top(g).step \in Saved) /\ ~Has(Top(g), "host") /\ ~Has(Top(g), "path")
  BY Zenon DEF Has
<1>7. QED
  BY <1>4, <1>5, <1>6, HandleCounted, Zenon

\* Do closes hostNS, WithNetNSPath the object too.
LEMMA ReturnCounted ==
    ASSUME Types, Counted, NEW g \in Goroutine, Return(g)
    PROVE  Counted'
<1>1. /\ stack[g] # <<>> /\ Pop(g) /\ Top(g).step = "done" /\ Top(g).kind \in Own
      /\ fds' = fds - (CASE Top(g).kind = "path" -> 2 [] Top(g).kind = "do" -> 1 [] OTHER -> 0)
  BY Zenon DEF Return, At
<1>2. Depth(g) \in Nat /\ Depth(g) > 0 /\ Top(g) = stack[g][Depth(g)]
  BY <1>1, TopFrame, Zenon
<1>3. PICK d \in Nat : Depth(g) = d + 1
  <2>1. Depth(g) - 1 \in Nat /\ Depth(g) = (Depth(g) - 1) + 1
    BY <1>2
  <2>2. QED
    BY <2>1, Zenon
<1>4. Removes(g, d)
  BY <1>1, <1>3, PopStep, Zenon
<1>5. Touches(g, d) /\ Depth(g)' # d + 1
  BY <1>4 DEF Removes, Touches
<1>6. \A k \in {"saved", "host", "path"} : /\ Here(g, d, k) <=> Has(Top(g), k)
                                           /\ ~Here(g, d, k)'
  BY <1>2, <1>3, <1>5, Zenon DEF Here
<1>7. /\ ~Has(Top(g), "saved")
      /\ Has(Top(g), "host") <=> Top(g).kind \in {"do", "path"}
      /\ Has(Top(g), "path") <=> Top(g).kind = "path"
  BY <1>1, Zenon DEF Has, Saved
<1>8. fds \in Nat
  BY Zenon DEF Counted, HasSize
<1>9. /\ Top(g).kind = "path" => fds' = fds - 2
      /\ Top(g).kind = "do" => fds' = fds - 1
      /\ Top(g).kind = "temp" => fds' = fds
  BY <1>1, <1>8
<1>10. Top(g).kind \in {"path", "do", "temp"}
  BY <1>1, Zenon DEF Own
<1>11. QED
  BY <1>5, <1>6, <1>7, <1>9, <1>10, CallCounted, Zenon

\* A call opens hostNS when it is a Do, and an object when it is a WithNetNSPath.
LEMMA PushCounted ==
    ASSUME Core, Counted, NEW g \in Goroutine, MayCall(g), NEW f \in Frame, Push(g, f), f.step \notin Saved,
           \/ f.kind = "path" /\ fds' = fds + 2
           \/ f.kind = "do" /\ fds' = fds + 1
           \/ f.kind \in {"in", "temp"} /\ fds' = fds
    PROVE  Counted'
<1>1. PICK d \in Nat : Adds(g, d, f)
  BY PushStep, Zenon
<1>2. Touches(g, d) /\ Depth(g) # d + 1 /\ Depth(g)' = d + 1 /\ stack'[g][d + 1] = f
  BY <1>1 DEF Adds, Touches
<1>3. \A k \in {"saved", "host", "path"} : /\ ~Here(g, d, k)
                                           /\ Here(g, d, k)' <=> Has(f, k)
  BY <1>2, Zenon DEF Here, Has, Saved
<1>4. /\ ~Has(f, "saved")
      /\ Has(f, "host") <=> f.kind \in {"do", "path"}
      /\ Has(f, "path") <=> f.kind = "path"
  BY Zenon DEF Has
<1>5. QED
  BY <1>2, <1>3, <1>4, CallCounted, Zenon

\* Steps of a call that goes on.
LEMMA WorkCounted ==
    ASSUME Core, Counted, NEW g \in Goroutine,
           Spawn(g) \/ Get(g) \/ Set(g) \/ Unshare(g) \/ Handle(g) \/ BodyEnds(g)
    PROVE  Counted'
<1>1. stack[g] # <<>> /\ Types
  BY Zenon DEF Core, Spawn, Get, Set, Unshare, Handle, BodyEnds, At
<1>2. PICK e \in Frame : e = Top(g)
  BY <1>1, TopFrame, Zenon
<1>3. ASSUME NEW f, Update(g, f), f.kind = e.kind, fds' = fds, f.step \in Saved <=> e.step \in Saved
      PROVE  Counted'
  BY <1>1, <1>2, <1>3, UpdateCounted, Zenon
<1>4. CASE Spawn(g)
  <2>1. PICK t : Update(g, [e EXCEPT !.thread = t, !.step = "get"])
    BY <1>2, <1>4, Zenon DEF Spawn
  <2>2. PICK f : f = [e EXCEPT !.thread = t, !.step = "get"]
    BY Zenon
  <2>3. f.kind = e.kind /\ f.step = "get"
    BY <2>2, Zenon DEF Frame
  <2>4. e.step = "spawn" /\ fds' = fds /\ Update(g, f)
    BY <1>2, <1>4, <2>1, <2>2, Zenon DEF Spawn, At
  <2>5. QED
    BY <1>3, <2>3, <2>4, Zenon DEF Saved
<1>5. CASE Get(g)
  <2>1. PICK f : f = [e EXCEPT !.saved = ns[e.thread], !.step = IF e.kind = "temp" THEN "unshare" ELSE "set"]
    BY Zenon
  <2>2. f.kind = e.kind /\ f.step \in {"unshare", "set"}
    BY <2>1, Zenon DEF Frame
  <2>3. e.step = "get" /\ fds' = fds + 1 /\ Update(g, f)
    BY <1>2, <1>5, <2>1, Zenon DEF Get, At
  <2>4. f.step \in Saved /\ e.step \notin Saved
    BY <2>2, <2>3, Zenon DEF Saved
  <2>5. QED
    BY <1>1, <1>2, <2>2, <2>3, <2>4, UpdateCounted, Zenon
<1>6. CASE Set(g) \/ Unshare(g) \/ BodyEnds(g)
  <2>1. PICK a \in {"body", "handle", "restore"} : Update(g, Moved(e, a)) /\ e.step \in Saved /\ fds' = fds
    BY <1>2, <1>6, Zenon DEF Set, Unshare, BodyEnds, At, Moved, Saved
  <2>2. Moved(e, a).kind = e.kind /\ Moved(e, a).step \in Saved
    BY WithStep DEF Saved
  <2>3. QED
    BY <1>3, <2>1, <2>2, Zenon
<1>7. CASE Handle(g)
  <2>1. PICK f : /\ Update(g, f)
                 /\ \/ f = [e EXCEPT !.object = e.target, !.step = "restore"]
                    \/ f = [e EXCEPT !.step = "restore"]
    BY <1>2, <1>7, Zenon DEF Handle
  <2>2. f.kind = e.kind /\ f.step = "restore"
    BY <2>1, Zenon DEF Frame
  <2>3. e.step = "handle" /\ fds' = fds
    BY <1>2, <1>7, Zenon DEF Handle, At
  <2>4. QED
    BY <1>3, <2>1, <2>2, <2>3, Zenon DEF Saved
<1>8. QED
  BY <1>4, <1>5, <1>6, <1>7, Zenon

\* A call that ends has its handle closed, if it had come to open it.
LEMMA EndCounted ==
    ASSUME Core, Counted, NEW g \in Goroutine, stack[g] # <<>>, NEW n, NEW a,
           fds' = IF Top(g).step \in Saved THEN fds - 1 ELSE fds,
           IF Top(g).kind = "in" THEN InReturns(g, n) ELSE ChildEnds(g, Home, a) \/ ChildEnds(g, n, a)
    PROVE  Counted'
<1>1. Types
  BY Zenon DEF Core
<1>2. PICK e \in Frame : e = Top(g)
  BY <1>1, TopFrame, Zenon
<1>3. CASE Top(g).kind = "in"
  BY <1>1, <1>3, InPopCounted, Zenon DEF InReturns
<1>4. CASE Top(g).kind # "in"
  <2>1. Update(g, Moved(e, "done"))
    BY <1>2, <1>4, Zenon DEF ChildEnds, Moved
  <2>2. Moved(e, "done").kind = e.kind /\ Moved(e, "done").step \notin Saved
    BY WithStep, Zenon DEF Saved
  <2>3. QED
    BY <1>1, <1>2, <2>1, <2>2, UpdateCounted, Zenon
<1>5. QED
  BY <1>3, <1>4, Zenon

\* inNamespace closes its handle also when it could not come back.
LEMMA InNotRestoredCounted ==
    ASSUME Core, Counted, NEW g \in Goroutine, InNotRestored(g)
    PROVE  Counted'
<1>1. stack[g] # <<>> /\ Top(g).step = "restore" /\ Top(g).kind = "in" /\ fds' = fds - 1 /\ Top(g).step \in Saved
  BY Zenon DEF InNotRestored, At, Saved
<1>2. PICK d \in Nat : /\ Depth(g) = d + 1 /\ Top(g) = stack[g][d + 1]
                       /\ Nested(g) <=> d > 0 /\ Top(g).kind = "in"
  BY <1>1, AtWork, Zenon
<1>3. Types
  BY Zenon DEF Core
<1>4. CASE d = 0
  <2>1. Pop(g)
    BY <1>2, <1>4 DEF InNotRestored, InReturns
  <2>2. QED
    BY <1>1, <1>3, <2>1, InPopCounted, Zenon
<1>5. CASE d > 0
  <2>1. PICK c \in Nat : d = c + 1
    <3>1. d - 1 \in Nat /\ d = (d - 1) + 1
      BY <1>5
    <3>2. QED
      BY <3>1, Zenon
  <2>2. Depth(g) = c + 2 /\ c + 1 \in 1..Depth(g) /\ Len(stack[g]) - 1 = c + 1
    BY <1>2, <2>1 DEF Depth
  <2>3. PICK e \in Frame : e = stack[g][c + 1]
    BY <1>3, <2>2, StackFrames, Zenon
  <2>4. PICK f : f = [e EXCEPT !.undone = TRUE]
    BY Zenon
  <2>5. f \in Frame /\ f.kind = e.kind /\ f.step = e.step
    BY <2>4, Zenon DEF Frame
  <2>6. stack' = [stack EXCEPT ![g] = [Under(stack[g]) EXCEPT ![c + 1].undone = TRUE]]
    BY <1>1, <1>2, <1>5, <2>2, Zenon DEF InNotRestored
  <2>7. Marks(g, c, f)
    BY <1>1, <1>3, <2>2, <2>3, <2>4, <2>5, <2>6, MarkStep, Zenon
  <2>8. /\ Depth(g)' = d /\ \A h \in Goroutine : h # g => stack'[h] = stack[h] /\ Depth(h)' = Depth(h)
    BY <2>1, <2>7, Zenon DEF Marks
  <2>9. ASSUME NEW i \in 1..d
        PROVE  stack'[g][i].kind = stack[g][i].kind /\ stack'[g][i].step = stack[g][i].step
    <3>1. i \in 1..c \/ i = c + 1
      BY <2>1
    <3>2. QED
      BY <2>3, <2>5, <2>7, <3>1, Zenon DEF Marks
  <2>10. Touches(g, d) /\ Depth(g)' # d + 1
    BY <1>2, <2>8, <2>9 DEF Touches
  <2>11. \A k \in {"saved", "host", "path"} : /\ Here(g, d, k) <=> Has(Top(g), k)
                                              /\ ~Here(g, d, k)'
    BY <1>2, <2>10, Zenon DEF Here
  <2>12. Has(Top(g), "saved") /\ ~Has(Top(g), "host") /\ ~Has(Top(g), "path")
    BY <1>1, Zenon DEF Has
  <2>13. QED
    BY <1>1, <2>10, <2>11, <2>12, HandleCounted, Zenon
<1>6. QED
  BY <1>4, <1>5

\* A new call.
LEMMA NewCallCounted ==
    ASSUME Core, Counted, NEW g \in Goroutine, NEW n \in NS,
           InNamespace(g, n) \/ Do(g, n, "path") \/ Do(g, n, "do") \/ TempNetNS(g, n)
    PROVE  Counted'
<1>1. MayCall(g) /\ Types
  BY Zenon DEF InNamespace, Do, TempNetNS, Core
<1>2. CASE InNamespace(g, n)
  <2>1. PICK f : /\ \E t \in Thread : f = NewFrame("in", "get", n, t, None)
                /\ Push(g, f) /\ fds' = fds
    BY <1>2, Zenon DEF InNamespace
  <2>2. f \in Frame /\ f.kind = "in" /\ f.step = "get"
    <3>1. PICK t \in Thread : f = NewFrame("in", "get", n, t, None)
      BY <2>1, Zenon
    <3>2. QED
      BY <3>1, Zenon DEF NewFrame, Frame
  <2>3. f.step \notin Saved
    BY <2>2, Zenon DEF Saved
  <2>4. QED
    BY <1>1, <2>1, <2>2, <2>3, PushCounted, Zenon
<1>3. CASE TempNetNS(g, n)
  <2>1. PICK f : f = NewFrame("temp", "spawn", n, None, None) /\ Push(g, f) /\ fds' = fds
    BY <1>3, Zenon DEF TempNetNS
  <2>2. f \in Frame /\ f.kind = "temp" /\ f.step = "spawn"
    BY <2>1, Zenon DEF NewFrame, Frame
  <2>3. f.step \notin Saved
    BY <2>2, Zenon DEF Saved
  <2>4. QED
    BY <1>1, <2>1, <2>2, <2>3, PushCounted, Zenon
<1>4. ASSUME NEW kind \in {"do", "path"}, Do(g, n, kind)
      PROVE  Counted'
  <2>1. CASE UNCHANGED <<stack, fds>>
    BY <2>1, Zenon DEF Counted, Opened, Depth
  <2>2. CASE \E h \in Current(g) : Push(g, NewFrame(kind, "spawn", n, None, h))
    <3>1. PICK f : Push(g, f) /\ \E h \in Current(g) : f = NewFrame(kind, "spawn", n, None, h)
      BY <2>2, Zenon
    <3>2. Current(g) \subseteq NS
      <4>1. CASE stack[g] = <<>>
        BY <4>1, Zenon DEF Current
      <4>2. CASE stack[g] # <<>>
        <5>1. PICK d \in Nat : Top(g) = stack[g][d + 1] /\ Top(g) \in Frame /\ FrameOK(g, d + 1)
          BY <4>2, AtWork, Zenon
        <5>2. Top(g).thread \in Thread
          BY <1>1, <4>2, <5>1, Zenon DEF FrameOK, Frame, MayCall
        <5>3. QED
          BY <1>1, <4>2, <5>2, Zenon DEF Current, Types
      <4>3. QED
        BY <4>1, <4>2, Zenon
    <3>3. f \in Frame /\ f.kind = kind /\ f.step = "spawn"
      <4>1. PICK h \in NS : f = NewFrame(kind, "spawn", n, None, h)
        BY <3>1, <3>2, Zenon
      <4>2. QED
        BY <4>1, Zenon DEF NewFrame, Frame
    <3>4. f.step \notin Saved
      BY <3>3, Zenon DEF Saved
    <3>5. stack' # stack
      <4>1. Depth(g)' = Depth(g) + 1 /\ Depth(g) \in Nat
        BY <1>1, <3>1, <3>3, PushFacts, StackFrames, Zenon
      <4>2. QED
        BY <4>1 DEF Depth
    <3>6. fds' = fds + (IF kind = "path" THEN 2 ELSE 1)
      BY <1>4, <3>5, Zenon DEF Do
    <3>7. QED
      BY <1>1, <3>1, <3>3, <3>4, <3>6, PushCounted, Zenon
  <2>3. QED
    BY <1>4, <2>1, <2>2, Zenon DEF Do
<1>5. QED
  BY <1>2, <1>3, <1>4, Zenon

\* Every step keeps the count of the descriptors.
LEMMA NextCounted ==
    ASSUME Core, Counted, Next
    PROVE  Counted'
<1>1. Named \subseteq NS /\ Temp \subseteq NS
  BY Zenon DEF NS
<1>2. ASSUME NEW g \in Goroutine, Restore(g) PROVE Counted'
  <2>1. stack[g] # <<>> /\ fds' = fds - 1 /\ Top(g).step \in Saved
    BY <1>2, Zenon DEF Restore, At, Saved
  <2>2. IF Top(g).kind = "in" THEN InReturns(g, Top(g).saved) ELSE ChildEnds(g, Top(g).saved, "idle")
    BY <1>2, Zenon DEF Restore
  <2>3. QED
    BY <2>1, <2>2, EndCounted, Zenon
<1>3. ASSUME NEW g \in Goroutine, ChildNotRestored(g) PROVE Counted'
  <2>1. stack[g] # <<>> /\ fds' = fds - 1 /\ Top(g).step \in Saved /\ Top(g).kind # "in"
    BY <1>3, Zenon DEF ChildNotRestored, At, Saved, Own
  <2>2. ChildEnds(g, ns[Top(g).thread], "none")
    BY <1>3, Zenon DEF ChildNotRestored
  <2>3. QED
    BY <2>1, <2>2, EndCounted, Zenon
<1>4. ASSUME NEW g \in Goroutine, GetFails(g) PROVE Counted'
  <2>1. stack[g] # <<>> /\ fds' = fds /\ Top(g).step \notin Saved
    BY <1>4, Zenon DEF GetFails, Saved
  <2>2. IF Top(g).kind = "in" THEN InReturns(g, ns[Top(g).thread]) ELSE ChildEnds(g, Home, "none")
    BY <1>4, Zenon DEF GetFails
  <2>3. QED
    BY <2>1, <2>2, EndCounted, Zenon
<1>5. ASSUME NEW g \in Goroutine, SetFails(g) PROVE Counted'
  <2>1. stack[g] # <<>> /\ fds' = fds - 1 /\ Top(g).step \in Saved
    BY <1>5, Zenon DEF SetFails, Saved
  <2>2. IF Top(g).kind = "in" THEN InReturns(g, ns[Top(g).thread]) ELSE ChildEnds(g, Home, "none")
    BY <1>5, Zenon DEF SetFails
  <2>3. QED
    BY <2>1, <2>2, EndCounted, Zenon
<1>6. ASSUME NEW g \in Goroutine, Return(g) PROVE Counted'
  BY <1>6, ReturnCounted, Zenon DEF Core
<1>7. ASSUME UNCHANGED <<stack, fds>> PROVE Counted'
  BY <1>7, Zenon DEF Counted, Opened, Depth
<1>8. (\E n \in Named : GetNS(n)) \/ (\E n \in NS : Close(n)) => UNCHANGED <<stack, fds>>
  BY Zenon DEF GetNS, Close
<1>9. ASSUME NEW g \in Goroutine, Work(g) PROVE Counted'
  BY <1>2, <1>5, <1>6, <1>9, WorkCounted, Zenon DEF Work
<1>10. ASSUME NEW g \in Goroutine, NEW n \in NS,
              InNamespace(g, n) \/ Do(g, n, "path") \/ Do(g, n, "do") \/ TempNetNS(g, n)
       PROVE  Counted'
  BY <1>10, NewCallCounted, Zenon
<1>11. QED
  BY <1>1, <1>3, <1>4, <1>5, <1>7, <1>8, <1>9, <1>10, InNotRestoredCounted, Zenon DEF Next

-----------------------------------------------------------------------------
\* No call is made at first, and every thread is in the namespace of the process.
LEMMA InitInv ==
    ASSUME Init
    PROVE  Inv
<1>1. \A g \in Goroutine : stack[g] = <<>> /\ Depth(g) = 0 /\ 1..Depth(g) = {}
  <2>1. \A g \in Goroutine : stack[g] = <<>>
    BY Zenon DEF Init
  <2>2. Len(<<>>) = 0 /\ 1..0 = {}
    OBVIOUS
  <2>3. QED
    BY <2>1, <2>2, Zenon DEF Depth
<1>2. Types
  <2>1. stack \in [Goroutine -> Seq(Frame)]
    BY DEF Init
  <2>2. status \in [Thread -> {"none", "idle", "locked"}] /\ ns \in [Thread -> NS]
    BY Zenon DEF Init, NS
  <2>3. calls \in 0..MaxCalls /\ faults \in 0..MaxFaults /\ \A g \in Goroutine : Depth(g) <= MaxDepth
    BY <1>1, BoundAssumption DEF Init
  <2>4. open \subseteq NS /\ made \subseteq Temp /\ lost \in BOOLEAN
    BY Zenon DEF Init
  <2>5. QED
    BY <2>1, <2>2, <2>3, <2>4, Zenon DEF Types
<1>3. Frames /\ Locked /\ Exclusive /\ Placed /\ Objects
  BY <1>1, Zenon DEF Frames, Locked, Exclusive, Placed, Objects
<1>4. Threads /\ NotTemp
  BY <1>1, Zenon DEF Init, Threads, NotTemp, Safe
<1>5. Opened = {}
  BY <1>1, Zenon DEF Opened
<1>6. Counted
  BY <1>5, EmptySize, Zenon DEF Counted, Init
<1>7. QED
  BY <1>2, <1>3, <1>4, <1>6, Zenon DEF Inv

\* The invariant holds throughout, with any number of goroutines, threads and
\* namespaces, calls nested to any depth and any number of failing system calls.
THEOREM Invariance == Spec => []Inv
<1>1. Init => Inv
  BY InitInv, Zenon
<1>2. Inv /\ [Next]_vars => Inv'
  <2> SUFFICES ASSUME Inv, [Next]_vars PROVE Inv'
    BY Zenon
  <2>1. Core /\ Counted
    BY Zenon DEF Inv, Core
  <2>2. CASE Next
    BY <2>1, <2>2, NextCore, NextCounted, Zenon DEF Inv, Core
  <2>3. CASE UNCHANGED vars
    <3>1. UNCHANGED <<status, ns, stack, open, made, fds, lost, calls, faults>>
      BY <2>3, Zenon DEF vars, threads
    <3>2. Types'
      BY <2>1, <3>1, Zenon DEF Core, Types, Depth
    <3>3. Core'
      BY <2>1, <3>1, <3>2, SameCore, Zenon
    <3>4. Counted'
      BY <2>1, <3>1, Zenon DEF Counted, Opened, Depth
    <3>5. QED
      BY <3>3, <3>4, Zenon DEF Inv, Core
  <2>4. QED
    BY <2>2, <2>3, Zenon
<1>3. QED
  BY <1>1, <1>2, PTL DEF Spec

\* Threads, frames, objects and counters of inNamespace, Do, WithNetNSPath and
\* TempNetNS have their types; the number of descriptors is never negative.
THEOREM TypeCorrect == Spec => []TypeOK
<1>1. Inv => TypeOK
  <2> SUFFICES ASSUME Inv PROVE TypeOK
    BY Zenon
  <2>1. Types
    BY Zenon DEF Inv
  <2>2. fds \in Nat
    BY Zenon DEF Inv, Counted, HasSize
  <2>3. ASSUME NEW g \in Goroutine
        PROVE  Len(stack[g]) <= MaxDepth /\ \A i \in DOMAIN stack[g] : stack[g][i] \in Frame
    <3>1. stack[g] \in Seq(Frame) /\ Depth(g) <= MaxDepth
      BY <2>1, Zenon DEF Types
    <3>2. DOMAIN stack[g] = 1..Depth(g)
      BY <3>1 DEF Depth
    <3>3. QED
      BY <2>1, <3>1, <3>2, StackFrames, Zenon DEF Depth
  <2>4. QED
    BY <2>1, <2>2, <2>3, Zenon DEF TypeOK, Types
<1>2. QED
  BY <1>1, Invariance, PTL

\* A closure passed to inNamespace, Do or WithNetNSPath runs in the namespace the
\* call is for, and the object Do passes to it is of the namespace of the caller.
THEOREM ClosuresRunInTarget == Spec => []RunsInTarget
<1>1. Inv => RunsInTarget
  <2> SUFFICES ASSUME Inv, NEW g \in Goroutine
               PROVE  /\ stack[g] # <<>> /\ Top(g).step = "body" /\ ~Top(g).undone
                         => ns[Top(g).thread] = Top(g).target
                      /\ ~lost => \A i \in DOMAIN stack[g] :
                                    stack[g][i].kind \in {"do", "path"} =>
                                       stack[g][i].object = IF i = 1 THEN Home ELSE stack[g][i - 1].target
    BY Zenon DEF RunsInTarget
  <2>1. Types /\ Core
    BY Zenon DEF Inv, Core
  <2>2. ASSUME stack[g] # <<>>, Top(g).step = "body", ~Top(g).undone
        PROVE  ns[Top(g).thread] = Top(g).target
    <3>1. PICK d \in Nat : Depth(g) = d + 1 /\ Top(g) = stack[g][d + 1] /\ InPlace(g, d + 1)
      BY <2>1, <2>2, AtWork, Zenon
    <3>2. QED
      BY <2>2, <3>1, Zenon DEF InPlace
  <2>3. DOMAIN stack[g] = 1..Depth(g)
    <3>1. stack[g] \in Seq(Frame)
      BY <2>1, Zenon DEF Types
    <3>2. QED
      BY <3>1 DEF Depth
  <2>4. QED
    BY <2>2, <2>3, Zenon DEF Inv, Objects
<1>2. QED
  BY <1>1, Invariance, PTL

\* No call leaves a thread others are put on in a temporary namespace, nor, unless
\* inNamespace could not switch back, in that of a router pod; and no call leaves a
\* descriptor open once all have returned, whatever failed in them.
THEOREM CallsLeaveNothingBehind == Spec => []NothingLeftBehind
<1>1. Inv => NothingLeftBehind
  <2> SUFFICES ASSUME Inv PROVE NothingLeftBehind
    BY Zenon
  <2>1. \A t \in Thread : status[t] = "idle" => ns[t] = Home \/ (lost /\ ns[t] \in Named)
    BY Zenon DEF Inv, Threads, Safe
  <2>2. ASSUME \A g \in Goroutine : stack[g] = <<>>
        PROVE  fds = 0
    <3>1. \A g \in Goroutine : 1..Depth(g) = {}
      <4>1. \A g \in Goroutine : Depth(g) = 0
        BY <2>2, StackFrames, Zenon DEF Inv
      <4>2. 1..0 = {}
        OBVIOUS
      <4>3. QED
        BY <4>1, <4>2, Zenon
    <3>2. Opened = {}
      BY <3>1, Zenon DEF Opened
    <3>3. QED
      BY <3>2, EmptySize, Zenon DEF Inv, Counted
  <2>3. QED
    BY <2>1, <2>2, Zenon DEF NothingLeftBehind
<1>2. QED
  BY <1>1, Invariance, PTL

=============================================================================
