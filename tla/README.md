# A TLA+ model of OpenPERouter

OpenPERouter makes each node of a Kubernetes cluster a provider-edge router: a
*router pod* runs FRR, and a *controller* on the same node configures FRR and
the pod's network namespace from the objects `Underlay` and `VNI`. This
directory holds TLA+ modules of the controller and of the reloader in the
router pod, TLC configurations for small instances, and TLAPS proofs of the safety
properties of every part that has state. Paths below are relative to `src/`.

## The system

| part | state | operations | what is hard about it |
|---|---|---|---|
| underlay setup, `internal/hostnetwork/underlay.go`, `properties.go` | where a host interface is, its addresses and flags; the loopback device with the VTEP address | `SetupUnderlay` | a dozen netlink requests without a transaction; moving an interface drops its addresses; it is recognised later by a marker address; the pod can die with the interface inside |
| VNI setup, `vni.go`, `veth.go`, `vrf.go`, `bridge.go`, `vxlan.go` | per VNI a veth pair, VRF, bridge and VXLAN | `SetupVNI`, `RemoveNonConfiguredVNIs` | finds half-made, foreign or outdated links; addresses links by an index that a move changes; allocates routing tables; leaks namespace handles |
| FRR update, `internal/frr/config.go`, `internal/frrconfig`, `cmd/reloader` | a file shared by both pods, FRR's running configuration | write and post; the handler's test and reload | concurrent handlers, non-atomic writes, lost answers, restarts |
| reconciler, `internal/controller` | informer caches, work queue | `Reconcile` | stale caches, lists read one after the other, filtered events, pod and sandbox restarts |
| node index and addresses, `nodes.go`, `internal/ipam` | the node list in each node's own cache | `nodeIndex`, `VTEPIp`, `VethIPs` | addresses without coordination, index shifts, pool ends |
| conversion, `internal/conversion`, template functions in `internal/frr/config.go` | none | `APItoFRR`, `APItoHostConfig`, `parseTimers` | the same lists are converted twice, by code that accepts different inputs; timers are cut after they were compared |
| pod runtime, `internal/pods` | sandboxes in the container runtime | `NetworkNamespace` | several sandboxes of one pod |
| namespace switching, `namespace.go`, `internal/ns` | the namespace of an OS thread | `inNamespace`; `Do`, `WithNetNSPath`, `TempNetNS` | goroutines move between threads; switching back can fail |
| parsers, `internal/frr/parse.go`; address families, `internal/ipfamily` | none | `ParseNeighbours`, `ParseRoutes`, ...; `ForAddresses` | maps are visited in any order |
| API types, `cp-tool`, logging | none | | declarations and I/O |

A reconciliation is: node index, router pod, underlays, VNIs, then
`reloadFRRConfig` (file, post, handler in the router pod), then
`configureInterfaces` (namespace of the pod, `SetupUnderlay`, `SetupVNI` for
each VNI). An error anywhere queues it again.

## Modules

### Underlay

One action per netlink request that changes the kernel, with the reads and tests
before it; `pc` is the next request. `where`, `addrs`, `up`, `lound`, `vteps`
are the kernel's state, `par`, `old`, `mv`, `saved` the call's parameters and
locals (`oldUnderlayNic`, the link being moved, the saved address list).
`MoveLink` is `AddrList` with `LinkSetNsFd`, after which the kernel has taken the
interface down and dropped its addresses. `RestoreAddress` restores one address.
`Fail` ends the call at any point with an error, `ControllerDies` with the
process, `PodDies` and `NamespaceDestroyed` the namespace; a namespace lives while
its pod or an open handle does. `handles` are those that `SetupVNI`, which
`configureInterfaces` calls next, opens and never closes; they end with the
process. When a namespace is destroyed a physical interface returns to the host
without addresses; a virtual one (a VLAN, a veth) is gone. As long as a handle
keeps a dead pod's namespace the interface stays inside, where no call finds it
(`KeptInDeadPod`).

Two history variables say what cannot be expected: `torn`, interfaces whose move
was cut short before the addresses were back or whose namespace was destroyed
around them; `stray`, interfaces that a call cut short left unmarked in a
namespace.

### VNI

Links are indexed by VRF or VNI, since the code derives their names from these,
and a name can also be held by a link of another kind (`Other`). `SetupVNI`
opens a handle that is never closed (`handles`); `Crash` closes them all.
`Touch` is another user deleting a link or taking a name. `RemoveStep` is
`RemoveNonConfiguredVNIs`, which only tests call; the model
lets it run between calls of `SetupVNI`. `LinkDel` has the kernel's side effects: slaves lose
their master, a veth dies with its peer.

`SetupVNI` addresses the PE leg by the index it had when it was found. `peVeth` is
the link of the namespace that this index names: the leg itself when it was found
there, and after a move the leg or, when the kernel gave it another index, any link
of the namespace (`InNamespace`; a link of somebody else is `Outside`), which then
gets the leg's address and VRF. A peer left in the namespace of a dead pod is not
found, or some link with its index is. Creating a bridge or a VXLAN takes two
requests, since `LinkAdd` sets the master with one of its own; `made` says that
this call created the bridge. Not in the model: which numbers indexes have, the
subject of `VethIndex`, and the VXLAN's device and learning flag, which only
`createVXLan` sets and always in the same way.

### VethIndex

The same `SetupVNI`, seen through interface indexes. `setupVeth` asks the kernel
for the index of the host leg's peer, looks that index up on the host and then in
the pod, and `SetupVNI` configures whatever link has it. `index`, `counter` and
`Free` are the kernel's numbering per namespace; `LinkSetNsFd` keeps a link's
index if it is free in the new namespace and takes another one otherwise, while
`peIndex`, the index in `vethPE`, stays. `renumbered` records the VRFs whose PE leg
this happened to, `moved` that the call in progress moved the leg. Links that exist
at the start are numbers only (`first`): none of them is ever looked up by index,
which `OldLinksAreSafe` proves. Other properties of the links, and pod restarts, are left to `VNI`.

### FRRReload

The updater truncates and writes the file (two steps: `StartUpdate`,
`WriteFile`), posts and waits. Each request has a handler that tests (reads the
file), reads it again and loads it. Handlers are concurrent and outlive their
requester. `Torn` is a part of a configuration, in the file or in FRR after a
failed reload. `Request` is a set of slots used again and again, so the number of
updates is not bounded. `overlapped` records that the file was written under a
running handler.

`ConfigService` is what the controller may rely on: an update is asked for, tried,
applied and finished, FRR changes only while one is pending, and only to the
configuration of the last attempt or to a broken one, and it is finished only when
FRR runs the wanted configuration. There is no file, request or handler in it.
`FRRReload` implements it under `pending <- queued \/ pc # "idle"`,
`attempt <- config` and `void <- overlapped`: truncating the file is `Try`, a
handler's reload is `Apply`, a good answer with nothing queued is `Finish`, and
everything else is a stutter, `Ask` or `Restart`. After an overlap the service
promises nothing; MCFRRReloadOverlap shows why it cannot.

### Reconciler

`underlays`, `vnis`, `pods` are the API, `cUnderlays`, `cVnis`, `cPods` the
caches, `podWatch` the pod events on their way. The initial states are a
controller that has just started, in a cluster with any underlays and VNIs and
with the router pod absent, starting or ready. `Reconcile` ignores its request
and one worker runs it, so the work queue is a flag. `PodEventPasses` is the two
predicates of `SetupWithManager`. `frr`, `nic` and `links` record what was last
configured in each pod, with the node index and the underlay it was derived
from. `SandboxRestarts` replaces the sandbox of a pod: `box` numbers them,
`rBox` is the one `NetworkNamespace` found, and what is configured in an older
one is lost. While the old sandbox is still listed (`leftover`)
`NetworkNamespace` fails. `RelistPods` is a broken watch: intermediate pod states
are never seen, and `missed` records a restart that passes unnoticed.

`SetupVNI` leaves a handle open on the namespace it configures (`pinned`) until the
controller restarts. When the sandbox of such a pod ends its namespace lives on with
the underlay's interface and the VNIs' legs inside (`stuck`), and from then on
`SetupUnderlay` and `SetupVNI` fail for them, as MCVNIRestart shows for one VNI.
`Converges` therefore has the premise `<>[]~Blocked`: that no interface the
configuration needs is, in the end, stuck so.

`ControllerService` is the same seen from outside, with the API, the pods and
what is configured in them, and no cache, queue, watch or sandbox. The
configuration changes only while the controller works (`busy`), one item at a
time: FRR to what the API says, then the underlay and the VNIs with the index and
the underlay FRR was given; or else the controller will start over (`again`). It
rests only when every ready pod is configured as the API says. `Reconciler`
implements it under `busy <- pc # "idle"`, `again <- Expecting` (something is
queued, or the caches lag) and `void <- missed`: the requests of `Reconcile` are
`ConfigureFRR`, `SetUpUnderlay` and `SetUpVNI`, all its reads and the informers'
deliveries are `Turn`. A pod of another namespace and a restart that a relist hid
are excused, since there the code does not come back.

### NodeIndex

Every node's controller sorts its own view of the node list. Addresses are
offsets in their pool; `Positions` is the set of indices the unstable sort can
give. `vtep` and `veth` are the addresses on a node's interfaces, to which each
reconciliation adds (`assignIPToInterface` removes none); `index` is what FRR and
the VXLANs are configured for. `RouterReplaced` empties the loopback with the
namespace, and the host legs if that is destroyed. `fresh` are the nodes reconciled
with the present list, `left` counts the deleted nodes. `Ipam` has the addresses
an index gives. `NodeJoins` assumes that a controller's first list has its own node
and all older ones: its pod is bound to a Node object that exists. A list served by
an API server that lags behind would not have it.

### NetNS

OS threads are idle, locked or do not exist, and each is in a namespace. A
goroutine without a lock runs on any idle thread or on a new one, which starts as
a copy of an existing thread. `stack[g]` holds the calls goroutine `g` is in, one
frame each, so that closures can make calls themselves: `inNamespace` on the same
thread, the others on the thread of a new goroutine. System calls fail (`Fault`),
objects are closed during a call (`Close`). A thread left locked when its
goroutine ends dies (`ChildEnds` with `"none"`). `fds` counts what the calls have
open; `lost` and `undone` record that `inNamespace` ignored a failed switch back.
Nothing in the repository imports `internal/ns`; it does with care what
`inNamespace` does in short.

### Conversion, Ipam, IPFamily, VtyshParse and Codecs

The functions without state, as operators. `Conversion` has both conversions of
the API lists, with timers in milliseconds that are compared, cut to seconds and
taken modulo `Word`, and what the templates write for a neighbour. `IPFamily`
takes from constants how an address is read. In `VtyshParse` a JSON object is a
function on its keys and a parser is the set of results it can have, one for each
order in which Go visits the map. `Codecs` calls them one at a time on all inputs
of given sets and states what their results must satisfy.

## Runs

`MCX.tla` instantiates module `X`; each `.cfg` is one run.

| run | result | states | what it shows |
|---|---|---|---|
| MCUnderlay | holds | 539,130 | marker unique; a successful call has installed everything; complete moves keep addresses; other interfaces are moved back; a repeated call changes nothing; retries serve the wanted interface, unless it was virtual and died with a pod or a leaked handle keeps it in one |
| MCUnderlayPodRestart | violated | | interface installed without addresses after a pod died and its namespace was destroyed |
| MCVNI | holds | 616,799 | a successful call leaves host leg, VRF, bridge and VXLAN as asked, the PE leg if its index still names it, and the bridge in the VRF if it made the bridge; a repeated call changes nothing; tables distinct; removal complete and harmless to the rest; retries set every wanted VNI up |
| MCVNIRestart | violated | | the leaked handle blocks the VNI after a pod restart |
| MCVethIndex | holds | 1,097,718 | unless the PE leg has a new index only the peer is moved and no call disturbs another VNI; a call configures the peer unless it moved it and the index changed |
| MCVethIndexSecond | violated | | the second VNI's PE address goes to another link |
| MCFRRReload | holds | 232,700 | success is about the written configuration; rejected ones never run; quiet means current; FRR converges; `ConfigService` is implemented |
| MCFRRReloadOverlap | violated | | an abandoned handler overwrites a newer configuration |
| MCReconciler | holds | 453,163 | nothing left to do means configured; interfaces are set up next to the FRR configuration of the same lists; a pod that stays ready is configured unless a leaked handle keeps its interfaces; `ControllerService` is implemented |
| MCNodeIndex | holds | 735,844 | while nodes only join no addresses clash; the addresses that fresh nodes use never clash and are on their interfaces; pools fail only when exhausted |
| MCNetNS | holds | 92,212 | closures run in their namespace; threads return to the pool at home or die; nothing stays open; every call returns |
| MCCodecs | holds | 66,172 | timers BGP allows; the two conversions agree; families, parsers against reference definitions and against each other |

The violated properties state what a comment, test or document of the
repository says; `findings` in `PROJECT.json` quotes it.

More differences are visible in the modules and have no run of their own.

- A call cut short between the removal of the marker and the move leaves the old
  interface in the namespace for good (`stray` in `OthersMovedBack`).
- After two calls cut short, the early return "nothing to do" is taken while the
  interface is down (`torn` in `AddressesFollow`).
- `routerPodForNode` lists pods of all namespaces, so `Reconcile` can configure a
  pod the event filter ignores (`Foreign` in `Reconciler`).
- A bridge that exists keeps its master when its VNI gets another VRF, or when a call
  ended between the two requests that create a bridge (`made` in `VNIReady`).
- When the oldest node leaves, a new node can get an address that a remaining node
  still has: `JoinsKeepDistinct` needs that no node left, `FreshDistinct` that both
  have reconciled since, and it is about the addresses in use; those of earlier
  indexes stay on the interfaces and may clash.
- A second call for a PE leg that got a new index can find a host link, added by
  somebody else, with that index, and moves it (`renumbered` in `OnlyPeerMoves`).
- The underlay's interface, too, is out of reach while a leaked handle keeps a dead
  pod's namespace (`KeptInDeadPod` in `EventuallyServed`, `Blocked` in `Converges`).
- A keepalive time of minus one second or less passes `parseTimers` and wraps
  (`TimersAllowed` leaves it out).
- Of two prefixes with the same address, `ParseRoutes` keeps one, and which one
  depends on the order of the map (`OrderInvisible`).

### Bounds

- Underlay: two interfaces (one physical with two addresses, one virtual) and
  two namespaces make every change between interfaces and pods happen; two
  failures are needed for the sequences in which one cut-short call meets the
  remains of another.
- VNI: one VNI, replaced by the same VNI with another VRF, address and port beside
  a second one that takes over the old VRF; as many tables as VRFs, so that reuse
  of tables is needed; one fault, which is a call cut short, a crash or a link
  changed by somebody else (`MaxFaults`). There is one namespace: with a second pod `EventuallyReady` does not hold,
  which is what MCVNIRestart shows. The safety properties are proved for any number
  of namespaces, VNIs and tables.
- VethIndex: three VNIs, so that the index of one can be taken by links of two
  others; hosts that had two to four links before and pods with two, which decides
  whether indexes collide at once, later or not at all; two foreign links.
- FRRReload: two valid configurations and a rejected one; two handlers, so that an
  abandoned one runs beside the awaited one; two faults.
- Reconciler: two underlays (one too many, or a replacement), one VNI, which comes
  and goes (the proofs have any number), a pod, its successor and a pod of another
  namespace, three changes of the API, nodes or pods after the start (a restart of the
  pod's sandbox takes two, with a third in between), one failure or restart. The initial states stand for longer histories.
- NodeIndex: three nodes and two creation times, so that some are created in the
  same second and some are not; two deletions, each of which a node may follow by
  joining again; a VTEP pool smaller than the cluster.
- NetNS: two goroutines, calls nested two deep, three calls and as many threads, so
  that no goroutine waits for a thread, which the Go runtime does not let happen
  either; two failing system calls.
- Codecs: durations around zero, one and three seconds and both signs; pools of one
  to four addresses with indexes up to three; lists of up to two objects and three
  addresses; JSON objects of up to four keys. `Word` is 2^16, far above every
  number of seconds in the run, as 2^64 is above every duration.

Symmetry is used in MCNodeIndex only, over the nodes, which its module does not
tell apart.

CHECK_DEADLOCK is off where the system rests when all is done (FRRReload,
Reconciler), where the bound on calls or links ends every behaviour (NetNS,
VethIndex), and for VNI, where it is the namespace held by a leaked handle.

### Fairness

- Underlay, VNI: the reconciler comes back after every error and after every event
  of a pod or an object, so calls start again and again, and a call in progress goes
  on. After a success without a further event the next call comes with the resync of
  the informers, which is ten hours away by default: "eventually" can be that long
  where only a second call repairs what the first one missed, as with a PE leg that
  got a new index. For
  `SetupVNI` it is assumed per VNI: every reconciliation goes through the list, so a
  VNI that stays wanted while the pod is up is set up again and again, with calls
  for other VNIs in between. `configureInterfaces` calls `SetupUnderlay` before it,
  so the loopback device is made if there is time for it again and again (strong
  fairness of `LoopbackCreated`). The kernel destroys namespaces nobody holds.
- FRRReload: the work queue's worker goes on and `frr-reload.py` terminates. The
  second is an assumption: the request has no timeout.
- Reconciler: informers deliver, the worker works, the kubelet collects dead
  sandboxes. Nothing is assumed of failures, restarts and relists.
- NetNS: system calls and closures return, and the runtime finds or starts a thread
  for a goroutine that can run. Nothing is assumed of failures and of `Close`.

## Proofs

Each `XProofs` proves about module `X`, for all values of the constants, every
safety property and action property the passing run of `X` checks (but for
`OrderInvisible` of Codecs, see below): any number of interfaces, VRFs, VNIs,
namespaces, nodes, pods, goroutines, threads, failures and changes, and calls
nested to any depth. Among them are the two refinements, of `ConfigService` by
`FRRReload` and of `ControllerService` by `Reconciler`. Proved without a run of
their own: the type correctness of Underlay, VNI, VethIndex and Reconciler, that the
calls of Underlay and VNI come to an end (`CallsAdvance`), and that no index SetupVNI
goes by is that of a link there was before (`OldLinksNotFound`). The assumptions are those of the modules, each
evaluated by TLC on the instances: special values are not ordinary ones, the marker
is not an administrator's address, the bounds are natural numbers, and the sets of
nodes, of underlays, of VRFs and of foreign links are finite, as cardinalities and
free indexes need. For Codecs, an address is not of both families, lists are
finite, and the seconds of a duration fit in `uint64`, since a Go duration is an
`int64` of nanoseconds.

In `UnderlayProofs` and `VNIProofs`, no safety property is inductive: each speaks of the end of a call, and a
call is cut short anywhere and started again from what is left.

- `UnderlayProofs`: the inductive invariant says what the call has established at
  each value of `pc` (loopback made, VTEP assigned, old interface found and
  unmarked, interface moved), that an interface carrying the marker is in a
  pod's namespace and alone in it, that `saved` and the addresses on the link add
  up while a move is in progress, and that an unmarked interface in a namespace is
  the one being handled or in `stray`. Idempotence then follows because a call
  for a served interface can only be at steps that change nothing. `CallsEnd` is
  the safety half of termination: `StepsLeft` counts the steps of a call, with those
  of a move twice, and each request lowers it or leaves fewer addresses to restore.
- `VNIProofs`: `Progress` says which links of the call's VNI are ready at each
  `pc`, whichever link `peVeth` is: a request made to the wrong link may bring another
  link up or take a VXLAN out of its bridge, but before the call itself deals with the
  links of its own VNI. `PeerMissed` says that when a call goes by another link the
  leg is elsewhere or was moved and has no address, so that on a configured VNI the
  index names the leg and idempotence holds. `RemovalProgress` which links a removal has cleared; together with type
  correctness and `TablesDistinct` they are inductive. `ProgressStep`,
  `RemovalStep`, `TablesStep` and `TypeStep` treat the actions one by one. Links
  change under a call in progress only by the call itself or by the destruction
  of a namespace, which cannot be its target. `Idempotent` shows for each request
  that it rewrites the value already there; `RemovalSpares` that a deleted link
  is neither a configured one nor the master of one. `CallsEnd` has the measure for
  these calls: a step is repeated only after a link that cannot be used, or a stale
  one, was deleted, and none appears while the call runs.

- `FRRReloadProofs`: `SuccessIsOwn` follows from `OwnRequest`, which is inductive by
  itself: as long as the updater waits, nobody else writes the file. The other
  properties need `Calm`: without an overlap only the handler of the last request
  runs (`OneAtATime`), and FRR runs the wanted configuration or there is work to do
  (`Due`). A handler whose requester went away is the difficult case; it is
  harmless because a reconciliation is then queued. `StepRefines` maps each action
  to a step of `ConfigService` from this invariant, and `Refinement` follows.

- `ReconcilerProofs`: the caches lag behind the API and the local lists behind the
  caches, so the invariant compares neighbours only: unless Reconcile is queued
  again, its lists are what the caches hold (`Read`) and its pod is the only one of
  the namespace in the cache, and ready (`Chosen`). `Seen(p)` says that p is ready in
  the cache and in every state still to be delivered; a pod that restarted is not
  seen until an event has queued Reconcile or a relist has set `missed`. For a pod
  that is seen, with nothing queued, `Kept` says what Reconcile has configured at
  each value of `pc`, and that an idle controller has configured what the caches
  say. It must be the caches: the API can change and change back without an event.
  `ReadIsCurrent` draws from it what the refinement needs: while nothing is expected
  the lists of Reconcile are those of the API, its pod is ready and what it has
  configured is still there. `StepRefines` then maps the actions one by one
  (`ChangesRefine`, `TurnsRefine`, `RequestsRefine`), and `QuietFromInv` shows that
  the controller rests only when the pod is configured.
- `NodeIndexProofs`: `OnlyJoins` says that while no node has left, the list in a
  node's cache has the node itself and everything older (`Covers`), so that a
  position computed from it is one in the full list; `FreshPlaced` is the same for
  nodes that reconciled with the present list: the index they are configured for is a
  position in it, and its addresses are on their interfaces. `Positions` of different creation
  times are disjoint because the older node's second ends before the younger one's
  begins, a fact about cardinalities.
- `VethIndexProofs`: `Kernel` is the kernel's numbering (the indexes of a namespace
  are distinct, those of the host are not above its counter) with what it implies
  for a PE leg that was not renumbered, in the pod or not: nobody on the host gets
  its index. `Found` says that the index the call
  holds is that of the peer, unless the peer was renumbered by a move in this very
  call. That a free index exists is the well-ordering of the natural numbers.
  `Beyond`, inductive on top of it, places the indexes of PE legs above those of all
  links there were at the start, also after a leg was renumbered: the kernel's counter
  in the pod has then passed the index the leg had on the host. It needs that the pod
  starts with no more links than the host.
- `NetNSProofs`: `Exclusive` says that a thread is held for one goroutine, by one
  call and the `inNamespace` calls nested directly in it; `Placed` where the thread
  of each frame is and where it goes back to, which for a nested `inNamespace` is the
  target of the closure around it and for any other call a namespace a thread of the
  pool may be in; `NotTemp` that a thread held only by `inNamespace` calls never is
  in a temporary namespace, so that a failed switch back cannot leave it there;
  `Counted` that the open descriptors are exactly those the frames on the stacks
  have (`Opened`), whose number is stated by a numbering of its elements (`HasSize`).
  The steps that push, replace and pop frames are treated first (`PushStep`,
  `UpdateStep`, `PopStep`), then the actions (`...Core` for threads and namespaces,
  `...Counted` for descriptors).

- `CodecsProofs`: the invariant only says that the result of a call is that of the
  function on its arguments; the work is in the lemmas about the functions.
  `TimersInSeconds` shows that cutting both times to seconds and converting them to
  `uint64` keeps their order once the keepalive time is above minus one second;
  `FamilyOfReverse` and `TwoAddresses` are about lists of addresses; `HostResult`
  computes what `APItoHostConfig` returns from the success of `APItoFRR`, whose
  checks on the same pools are those the host's conversion repeats.

Only model-checked: the liveness properties (fairness is out of the prover's
reach), and `OrderInvisible` of Codecs, which is about folds over sequences of any
length and needs an induction over them.

## Not modelled

- The text of the FRR configuration, but for what depends on a neighbour; a
  configuration is one value in FRRReload.
- `ParseBFDPeers`, which is `json.Unmarshal` alone; `ForCIDR`, `ForCIDRString`,
  `IPsInCIDR`, `nsHasNic` and `addRouteToHost`, which nothing calls outside tests.
- The CRI connection, flags, metrics and probes of the processes, `cp-tool` and
  logging: I/O without state of their own.
- API types and generated code: declarations.
- A switch of namespace inside the host network modules: it is atomic with the
  request made there, which NetNS justifies as long as switching back succeeds.
- Interface indexes together with pod restarts.

## Plan

1. A composition of Reconciler with FRRReload, where the overlap of handlers and
   the retries of `Reconcile` meet.
2. Underlay and VNI as implementations of the single steps `SetUpUnderlay` and
   `SetUpVNI` of `ControllerService`.
3. Pod restarts in VethIndex.
