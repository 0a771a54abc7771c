# TLA+ specifications of envoy-mesh

envoy-mesh turns Kubernetes custom resources (CRs) into Envoy configuration: a
controller collects the CRs that target an `EnvoyProxy`, builds a versioned
xDS snapshot and hands it to an xDS server, from which the Envoys of that
proxy stream. A second program, crd-gen, derives the CRDs from Envoy's protobuf
definitions. This directory models both, checks them with TLC on small instances
and proves their main safety properties with TLAPS for all instances.

## The system and its parts

| Part | Source | State it owns | What changes it |
|---|---|---|---|
| EnvoyProxy controller | `control-plane/internal/controller/envoyproxy_controller.go` | none of its own; Reconcile's locals between two calls | watch events, the workqueue, errors and retries |
| Endpoint discovery | `control-plane/internal/xds/eds.go` | - | - (pure) |
| Snapshot builder | `control-plane/internal/xds/snapshot.go`, `computeVersion` | - | - (pure) |
| xDS server | `control-plane/internal/xds/server.go` | `Cache` (snapshots by node ID), `connected` (node IDs) | SetSnapshot, stream callbacks |
| API types | `control-plane/api/v1alpha1` | the objects in the API server | users; the controller's status updates |
| Process | `control-plane/cmd/main.go` | - | start, restart, leader election |
| crd-gen | `crd-gen` | a registry of protobuf messages; shared schemas | parsing, conversion |
| Charts, CRDs, protos, example | `*/helm`, `crds`, `proto`, `example` | data | - |

What runs concurrently in the control plane: one informer and its handlers per
watched kind (seven of them), one reconcile worker, the workqueue's timers, one
stream loop per connected Envoy. What may fail: any read of Reconcile, a List of
the slice handler, SetSnapshot (only its answers to open watches: some may have been
sent), a status update (a conflict, or lost on the way), the process. What persists:
only the API server.

## Modules

| Module | Models | Checked by |
|---|---|---|
| `Lists` | sequences by their elements; `Concat`, a loop that appends | through the modules below |
| `MeshApi` | objects, references with a defaulted namespace, the map functions of the watches | through the controller |
| `EDS` | `ClusterName`, `SynthesizeCLA`, `resolvePort` | through the controller |
| `Snapshot` | `computeVersion`, `unmarshalAll`, `BuildSnapshot` | through the controller |
| `EnvoyProxyController` | Reconcile, the informers, the workqueue, the API server | `MCController`: `Slices`, `Status`, `Serving` and four disagreements |
| `LevelTriggered` | what the controller promises: an abstract level-triggered controller | implemented by `EnvoyProxyController` |
| `XdsServer` | the connection callbacks, streams and pushes | `MCXdsServer`: `Streams`, `SharedNode` |
| `Delivery` | what the xDS server promises an Envoy | implemented by `XdsServer` |
| `Mesh` | the process: controller, xDS server and Envoys together, leader election | `MCMesh`: `Mesh`, `ReadyPushed` |
| `CrdGen` | crd-gen: parser, schema conversion, generator | `MCCrdGen`: `Manifests` |
| `EnvoyProxyControllerProofs` | type correctness, lemmas on queues and lists | tlapm |
| `SnapshotProofs` | what a snapshot holds and what its version tells | tlapm |
| `NoMissedUpdate` | no update is missed; the controller implements `LevelTriggered` | tlapm |
| `ReadyProofs` | the Ready condition is truthful | tlapm |
| `XdsServerProofs` | no ghost connections; the server implements `Delivery`; no push is lost | tlapm |
| `MeshProofs` | the process implements the controller; Envoys run what the API server holds | tlapm |
| `CrdGenLemmas` | what a loop turn, a call and a return of `msgSchema` do to a schema | tlapm |
| `CrdGenProofs` | bounded recursion, what manifests hold, what a failed run leaves, names, descriptions | tlapm |

### EnvoyProxyController

```
users --> api --watch--> cache --notifs--> dirty --> Reconcile
           ^                 |                         |    |
           |                 +---- Get, List ----------+    v
           +------------- Status().Update -------------  snapshots
```

Every arrow is a step of its own. `api` and `cache` are stores, functions from
object identities to objects. `watch[kind]` holds the events an informer has not
applied; `Deliver` applies one to the cache and queues a notification;
`Handle` runs the event handler, which maps the old and the new object to
requests. The workqueue is a set (`dirty`), with `backoff` for requests delayed
after an error. `Reconcile` is one action per call that reads or writes shared
state: `Get`, the four collect functions, `collectManual` and one `synthesize`
per Cluster (the two halves of `collectEndpoints`), `BuildFails` or
`SetSnapshot`, `IsConnected`, and the two status updates. Each List returns its
objects in an arbitrary order, as the informer's indexer does.

A CR's spec is abstracted to what the code tells apart: whether it is empty,
malformed, rejected by protojson or fine, and its `name` and `cluster_name`. A
snapshot is the version and, for each kind, the resources by name. The version
is the text that is hashed (decimal digits, no separator): SHA-256 is taken to
be injective.

`epCurrent` says whether Reconcile's copy of the EnvoyProxy has the latest
resourceVersion; an update of an outdated copy is refused. `missed` is a history
variable: the proxies whose slice event was dropped because the handler's List
failed, which the code accepts ("the event is dropped", line 285). An update calls
the map function for the old object and for the new one, each with Lists of its own:
one call may fail and the other enqueue its requests (`DropSliceEvent`). The
invariants exempt the proxies of the failed calls until their next reconcile.

`Restart` models `main`: everything in memory is lost, the manager fills the
caches from the API server before it starts the controller, and every object is
announced. The xDS server runs before the manager does, so any set of Envoys may
be connected again by then.

### XdsServer

The two callbacks and the set `connected` are the repository's code; the stream
loop and the snapshot cache belong to go-control-plane and are modelled from how
`server.go` and the controller use them. A stream is at one place: its request is
under way, given to the callback, waiting in a watch, or its response is under
way. The Envoy's end may go away long before the server notices, and the Envoy
may have opened a new stream by then. Replicas of one Envoy Deployment share
their `node.id` (it is `<name>.<namespace>` in the chart). `Streams` are slots
that are used again when a stream is closed, so a behaviour has any number of
streams, of which a bounded number is open at once. An Envoy without a node.id is
streamed to like the others but is never stored in `connected` (`server.go:84`).
`SetSnapshot` stores the snapshot before it answers the watches, and answers them one
by one: if it fails, any part of them has been answered. `failed` holds the nodes whose
last SetSnapshot failed, which Reconcile repeats.

### Mesh

`Mesh` extends the controller and instantiates the xDS server over the same
snapshot cache and connected set: Reconcile's `SetSnapshot` also answers the
watches of the streams (`Push`), all of them if it succeeds and some if it fails, and
what the stream callbacks store is what
Reconcile's `IsConnected` reads. `main` starts the xDS server with the process
and the controller through the manager, which waits for the lease when leader
election is on; `leading` says whether it has. The manager may have filled its
caches earlier than that, but the handlers are registered, and told of every
object, when the controller starts; a cache that lags behind at that moment is
a start before the last write. A replica that loses the lease exits, as it does
on any error, and starts again (`RestartProcess`). A standby is a process with
`leading` false that never gets the lease: the behaviour needs no fairness of
`StartController`. Two replicas share nothing but the API server, so the other
replicas' status updates are the only thing one process does not show.

To the API server and the snapshot cache, this process is the controller of
`EnvoyProxyController` (`ControllerRuns`): a standby is a controller that has not
begun, and `StartController` is a `Restart` that finds streams open. A version is
a digest here, not a number, so `XdsServer`'s count of versions is not used.

### LevelTriggered and Delivery

`LevelTriggered` keeps, of the whole controller, which EnvoyProxies exist, what
is served for each, for which of them that is right, and which are pending. A
step may make proxies pending and then do anything to them; what is served
changes only for a pending proxy, and a proxy stops being pending only when what
is served for it is right, or it does not exist. Informers, handlers, queue,
backoff and the thirteen steps of Reconcile are refined away: `pending` is
everything but `Quiet`, `right` is `ServesStore` for the caches.

`Delivery` keeps, of the server, how many snapshots of a node have been published
and which one each Envoy runs with. An Envoy goes forward through the snapshots
of its own node, skipping some, and loses what it has only when it restarts.

### CrdGen

A run of crd-gen is sequential: it walks the files, then converts one requested
message after the other and writes a manifest for each. A proto name is the
sequence of its parts; declarations are listed in the order in which
`collectElements` visits them. `msgSchema` is recursive in the code; in the model
its calls are a stack of frames, each with its own copy of `visited`, and one
turn of the loop over the fields is one step. A schema is the set of its property
nodes, addressed by the positions of the fields that lead to them. The schemas of
the well-known types are package variables that fields share: `msgSchema` writes
a field's comment through the pointer before it copies the schema, and the items
of arrays and maps keep the pointer until the manifest is marshalled (`shared`,
`marshalled`). The walk, `MkdirAll` and `WriteFile` may fail; a failed write may
leave a torn file. Enum values, scalar formats and the other fields of a manifest
are data and left out.

## What is checked

TLC, exhaustively; the passing runs:

| Run | Instance | Properties | States |
|---|---|---|---|
| `Slices` | a Cluster that joins and leaves a Service; an EndpointSlice that is added, changed, removed, given to another Service and unlabelled; failing calls of the slice handler, lost status updates; two writes, resource versions of one, two and three digits | `QuietServesCache`, `DrainedServesApi`, `ServesOnlyTargeting`, `UnchangedVersionExplained` | 1.73 M |
| `Status` | a listener that may be malformed, a proxy that is deleted, re-created and labelled, streams; failing reads and SetSnapshot, conflicting status updates, restarts; two writes | `QuietServesCache`, `ReadyReportsVersion` | 1.70 M |
| `Serving` | two namespaces, a proxy in each or two listeners of one proxy, whose order in a List varies; a listener that moves between the proxies and may be malformed, a proxy that is deleted; one write; fair | `TypeOK`, `QuietServesCache`, `DrainedServesApi`, `ServesOnlyTargeting`, `LevelsReconciled`, `EventuallyServed`, `Settles` | 163 k |
| `Streams` | two replicas, an Envoy of another node and one without a node.id, two streams at once, three versions of which one is rejected, failing SetSnapshots, restarts; fair | `TypeOK`, `NoGhost`, `WaitingHoldsCurrent`, `Pushed`, `DeliversInOrder` | 948 k |
| `Mesh` | one proxy, a listener that is created, an Envoy that connects again and again; the lease, failing reads, restarts; fair | `EnvoysRunApi`, `ControllerRuns`, `EventuallyRuns` | 158 k |
| `Manifests` | 1080 proto trees: two messages, a nested one, an enum, references of all shapes, a file that declares a message again or does not parse; two requests | `TypeOK`, `DepthBounded`, `SchemasAreUnfoldings`, `Descriptions`, `OutputIsPrefix`, `MirrorsUnlessFullName` | 47 k |

- `QuietServesCache`: when no request, notification, retry or running reconcile
  concerns an EnvoyProxy, its snapshot is one that Reconcile would build from the
  caches as they are now. This is what watches, map functions and workqueue must
  achieve together, although Reconcile reads the caches piecemeal.
- `DrainedServesApi`: the same against the API server once the watches are
  drained.
- `ServesOnlyTargeting`: at every moment, not only in a quiet state, the snapshot of
  a node holds nothing but what was meant for its proxy: specs that unmarshal of CRs
  that target it, and ready endpoints, on the port asked for, of slices of the
  Services its own Clusters refer to. Clusters, manual assignments and slices are
  read by different Lists, between which each of them may be retargeted. `Slices`
  has slices of another Service and of none, `Serving` CRs of another proxy and a
  deleted EnvoyProxy, which keeps its snapshot.
- `UnchangedVersionExplained`: a snapshot with other resources has another version,
  with two exceptions: the text that is hashed can be read as different resource
  versions (`ambiguous`), or two of the Clusters that were collected refer to one
  Service. The first happens in `Slices` (1 and 12 print like 112).
- `ReadyReportsVersion`: in a quiet state a Ready condition that is True quotes the
  version of the stored snapshot, although conflicts are ignored.
- `EventuallyServed`: when users stop writing and failures stop, every proxy whose
  CRs unmarshal ends up with the snapshot its CRs call for, also next to one that is
  retried for ever. `Settles`: and the events that its own status updates cause die
  out once the Lists keep to an order. While they do not, each reconcile may report
  another version, which is a status update and an event: the code bounds that by
  nothing (`ListOrder`).
- `Pushed`: an Envoy that stays connected ends up with its node's last snapshot
  unless it rejects it, if the last SetSnapshot of the node succeeds.
- `WaitingHoldsCurrent`: an Envoy whose stream waits in the cache for another
  version holds its node's snapshot: no SetSnapshot slips between a request and
  its watch. A node whose last SetSnapshot failed is excused until it is repeated.
- `NoGhost`: `IsConnected` never holds for a node without a stream.
- `LevelsReconciled`, `DeliversInOrder`: the refinements described above.
- `ControllerRuns`: the refinement described under Mesh.
- `EnvoysRunApi`: end to end, as a state: once watches and queue have nothing for
  an EnvoyProxy and an Envoy's stream waits, that Envoy runs what the API server's
  objects call for, and, unless status updates are lost, Ready quotes the version it
  runs.
- `EventuallyRuns`: end to end, an Envoy that stays connected to the leader ends
  up running what its CRs call for.
- `DepthBounded`: messages that refer to each other in cycles do not deepen the
  recursion without bound.
- `SchemasAreUnfoldings`: a manifest holds the schema the registry alone defines
  for its message, whatever was converted before it or in sibling fields. The
  registry is that of the files that parse: a file that does not is skipped, and
  references into it become free-form objects. No document says what a run with a
  skipped file owes, so no property does.
- `Descriptions`: the comments that leak through the shared schemas reach only
  fields of the same well-known type, and never replace a field's own comment.
- `OutputIsPrefix`: what a run has written, and what it leaves when it fails.
- `MirrorsUnlessFullName`: how far `resolveFQN` follows protobuf's scoping: for
  every field whose type is written with a leading dot exactly if it is a full name.
  Otherwise it does not: a relative name that is also registered as a full name is
  taken for the full name before any scope is searched (`convert.go:157`).

Bounds. Two writes after a fixed initial store are enough
for a write during a reconcile that another write triggered, which is the shape
of every race here: a reconcile is disturbed by an event or it is not.
`MaxPending = 2` lets the watch of a kind hold two events and its handlers lag
two behind the cache in `Slices`; `Status`, `Serving` and `Mesh`, where failures,
fairness and streams multiply the states, have one. `Serving` has one write: the
status updates of the controller itself are the further events there. In `Mesh` the
one stream slot is enough for every order of reconnects of one Envoy; streams of
several Envoys, an old stream next to a new one and SetSnapshots that fail half-way
are in `Streams`, and dropped slice events in `Slices`. The theorem about `Mesh` has all
of them together.
`Edited` and `Streaming` name what users and Envoys touch in a run. The proofs
have none of these bounds.
Deadlock is not checked because the system may come to rest: users need not
write.

Fairness. Informers, handlers, timers, the worker and the stream loops are
goroutines, each with a loop that never gives up: weak fairness. A request may
be enabled only now and then, while the worker is busy with others, but the
workqueue is first in, first out: strong fairness of `Dequeue`. Users, streams
that break, the lease and failures have no fairness.
`EventuallyServed`, `Settles` and `EventuallyRuns` suppose that reads, SetSnapshot and
the process stop failing and that a dropped slice event is followed by another
reconcile (`Undisturbed`); `Settles` also that the order of the Lists stays and no
stream of the proxy comes or goes; `EventuallyRuns` that the process leads and the Envoy
is connected from some time on. Nothing in the code makes any of these happen.

### Where the code and its documentation disagree

Each of these is a run in which TLC finds the stated property violated.

| Run | Statement | What happens |
|---|---|---|
| `ManualCla` | "Manual CLA CRs always take precedence over auto-synthesised ones." (`control-plane/README.md:13`) | the names of manual assignments are read from the key `name`, which they do not have; the synthesised assignment wins |
| `Connection` | "status conditions reflect connection state" (`control-plane/README.md:21`) | a stream that opens or closes triggers no reconcile |
| `SharedNode` | "IsConnected reports whether an Envoy proxy with the given nodeID is actively streaming." (`server.go:74`) | closing one of two streams of a node reports it disconnected |
| `ListOrder` | "to produce a stable snapshot version" (`envoyproxy_controller.go:251`) | the order of the Lists, which is arbitrary, is hashed |
| `Digits` | "version must change whenever the configuration changes." (`snapshot.go:39`) | versions 1, 12 and 112 are hashed without separators |
| `ReadyPushed` | "ConditionReady is True once at least one xDS snapshot has been pushed to the proxy." (`envoyproxy_types.go:26`) | Ready is set once the snapshot is stored, whether an Envoy has ever connected or not |

## What is proved

For every set of objects, every history of writes and every set of failures that
may happen (`Faults`), but for the exceptions that a property or a hypothesis states
(the proxies of dropped slice events, nodes whose last SetSnapshot failed, lost status
updates), from the assumptions named in `MeshApi` and `EnvoyProxyController`
(identities are finite in number and of the right kinds, a namespace is not
empty and has no dots, a `targetRef` names a possible proxy, what a slice lists is
a sequence; `MaxPending` is any number), in `XdsServer` (streams and versions are
numbers), in `Mesh` (an Envoy's node.id
may stream; `Nil` is not a node, an Envoy or a number) and in `CrdGen` (names,
declarations and fields are sequences, and so is the type of a field):

| Module | Theorem | Statement |
|---|---|---|
| `EnvoyProxyControllerProofs` | `TypeCorrect` | `Spec => []TypeOK` |
| `SnapshotProofs` | `ServesOwn` | `Spec => []ServesOnlyTargeting` |
| `SnapshotProofs` | `VersionsExplained` | `Spec => UnchangedVersionExplained`, if `FreshRevisions` |
| `NoMissedUpdate` | `ServesCache` | `Spec => []QuietServesCache` |
| `NoMissedUpdate` | `ServesApi` | `Spec => []DrainedServesApi` |
| `NoMissedUpdate` | `ImplementsLevelTriggered` | `Spec => LevelsReconciled` |
| `ReadyProofs` | `ReadyTruthful` | `Spec => []ReadyReportsVersion`, if no status update is lost and `Nil` is not a snapshot |
| `XdsServerProofs` | `TypeCorrect` | `Spec => []TypeOK` |
| `XdsServerProofs` | `NoGhostConnection` | `Spec => []NoGhost` |
| `XdsServerProofs` | `StreamsDeliver` | `Spec => DeliversInOrder` |
| `XdsServerProofs` | `WaitingIsCurrent` | `Spec => []WaitingHoldsCurrent` |
| `MeshProofs` | `MeshImplementsController` | `MeshSpec => ControllerRuns`, if the process may restart |
| `MeshProofs` | `EnvoysRun` | `MeshSpec => []EnvoysRunApi`, if the process may restart and `Nil` is neither a snapshot nor a version |
| `CrdGenProofs` | `TypeCorrect` | `Spec => []TypeOK` |
| `CrdGenProofs` | `RecursionBounded` | `Spec => []DepthBounded` |
| `CrdGenProofs` | `ManifestsUnfold` | `Spec => []SchemasAreUnfoldings` |
| `CrdGenProofs` | `OutputPrefix` | `Spec => []OutputIsPrefix` |
| `CrdGenProofs` | `DescriptionsOwn` | `Spec => []Descriptions` |
| `CrdGenProofs` | `MirrorsScoping` | `Spec => []MirrorsUnlessFullName` |

`QuietServesCache` is not inductive: it says nothing of a proxy that is being
reconciled. The invariant `IInv` of `NoMissedUpdate` adds: while no request for
the proxy of the running reconcile is queued, delayed, dropped or about to be
enqueued, everything Reconcile has read so far is what the caches hold now. Its
preservation rests on `UnmappedChange`: a change of the cache that is not mapped
to a proxy changes neither the CRs collected for it nor the slices of their
Services (the filters of the collect functions and the map functions agree), nor
which pending notifications are mapped to it. That last part is needed because
the slice handler looks Clusters up later than the slice changed. SetSnapshot
leaves other proxies' snapshots alone because node IDs are unique
(`NodeIDInjective`). `ServesApi` adds that a cache lags behind the API server
only by the events in flight (`CacheTracksApi`).

`ServesOwn` carries the property back from the snapshot to the reads (`OwnInv`): the
lists Reconcile has gathered so far hold only objects that target the proxy of the
request, and each synthesised assignment names endpoints of slices that one of its
Clusters selects. `SetSnapshot` then copies, drops what does not unmarshal and keeps
one resource of each name. What is synthesised is a concatenation of concatenations
(`SynthesizeCLA`); `ConcatFacts` says what the elements of one are, by taking the
least length at which it could fail (`LeastNumber`), since the library's induction
rules cannot be used. `Manifests`, the constant that says what users may write for an
object, may be taken to be what they did write in one behaviour: the theorem then
says that nothing is served that never targeted the proxy.

`VersionsExplained` reads the resources back from the text that is hashed. Its invariant
(`VersionInv`) carries the history of writes: a function `H` from the resource
versions given out so far to what was written, such that every store, event and list
is one of `H` (`Remembers`). The numbers a text was printed from are one of its
`readings` (`TextReads`), so two equal texts that are not ambiguous were printed from
the same numbers. From the list of numbers, `H` gives the kind and the owner of each;
the kinds come one after the other and, if no two Clusters share a Service, the slices
of a Cluster are together, so the list splits into what each List returned in only one
way (`TagsSplit`, `GroupsTell`). What is left is the same CRs and, Cluster by Cluster,
the same slices, hence the same resources. What the theorem supposes and excepts:

- `FreshRevisions`: the API server does not give out a resource version twice. It
  guarantees that; `MCController` assumes it of its instances, so TLC evaluates it.
- Ambiguous texts. `Digits` shows one. `Revisions` is a constant, so for any behaviour
  it may be taken to be the revisions given out in it: a text is ambiguous only if
  resource versions that occur print to it in two ways. With resource versions of
  one width there is no such text (`OneWidthIsUnambiguous`: `decimal` is injective and
  digits of equal width can be cut in only one way, `WidthSplits`), so only a changing
  number of digits makes one.
- Two Clusters of one Service. A slice that is created between their Lists in one
  reconcile and deleted between their Lists in the next moves its endpoints from one
  Cluster to the other, and the text is the same in both. Clusters of different
  Services are not concerned, whatever was collected at other times.

`NoGhost` needs that the node of a stream never changes once it is known: a
request stores its node again and could otherwise disown a node stored before.

`ImplementsLevelTriggered` maps every step of the controller to one of
`LevelTriggered`. Writes, deliveries, handlers and the queue only observe: a
proxy that is quiet afterwards was quiet before, and what is right for it has
not changed (`UnmappedChange` again). `SetSnapshot` serves the proxy of the
request, which is pending by definition. The step that matters is Reconcile's
return: a proxy that becomes quiet then is served what is right, which is
`QuietServesCache` of the state after the step; if another request is queued or
the error puts it into backoff it stays pending.

`ReadyTruthful` is about the updates Reconcile gives up on. Its invariant adds that
the version about to be reported is that of the snapshot stored (`VersionStored`),
and that Reconcile's copy of the EnvoyProxy is outdated only while a write of it is
on its way, or its notification or request is pending (`CopyCurrent`): a refused
update is made good by the reconcile that follows. An update that is lost in
another way ("status" in `Faults`) is not made good, and the theorem excludes it. What is
proved first is more (`ReportsWhenDone`): in a quiet state of an EnvoyProxy with no event
on its way, Ready *is* True with that version, which `EnvoysRun` needs.

`StreamsDeliver` needs more than the connection callbacks do: the cache holds the
last snapshot published or none (`CachedLast`), an Envoy has at most one stream
whose end it has not left (`OneCurrent`), and the version such a stream carries
is the one its Envoy holds or, in a response, a later one of its node
(`AllFollow`).

`WaitingIsCurrent` rests on `OneCurrent` too. Its invariant `WInv` says what the
streams carry: the version in a request, or in a watch, is the one the Envoy holds,
and a stream waits only while the cache has no other. The latter is excused for the
nodes of a set `F`, a parameter of the invariant: here `failed`, the nodes whose last
SetSnapshot left watches unanswered. It does not mention what a
version is, nor the order of versions, and its lemmas hold for any `publish`, so
they can be used where versions are digests.

`MeshProofs` does that. `MInv` says that nothing of the controller has run before
the manager starts it (`NotBegun`), that only node.ids of Envoys are connected, and
that the streams satisfy `WInv(F)` over the versions of the controller's snapshots for
some `F` that holds no node whose proxy is done with (`Answered`): a SetSnapshot that
failed puts its request into backoff, from where it leads to another one.
Each step of the process then is a step of the controller, or none:
`StartController` is a `Restart` because there is nothing to lose, a stream
callback is a `StreamChange`, and the other stream steps change nothing of it.
"If the process may restart" is because of the first: a controller that never
restarts has no step for a late start. All the theorems about the controller follow for
the process. `EnvoysRun` puts the two halves together: `ServesApi` gives the
snapshot, `ReportedOnceDone` the condition and `WInv` the version the Envoy holds.

For crd-gen, `Building` says of the stack and the nodes built so far that every
node is the one the definition calls for, that a frame's `visited` is the set of
messages named on its path, and that everything behind a frame's position is
complete. `DepthBounded` follows because each call adds a message to `visited`
that was not in it (`CallsBounded`), `SchemasAreUnfoldings` because the last
return leaves nothing incomplete. `OutputIsPrefix` has an invariant of its own
(`OInv`): the message being converted is the one after those handled.
`Descriptions` needs what the shared schemas may say while they are being written
to: `DInv` adds that each carries nothing or the comment of a field of its own type
in the registry, which is complete by then, and that the nodes built so far are
described as they must be. `MirrorsUnlessFullName` follows from the registry alone:
a message lies below its package, so the scan from the package outwards finds
nothing that the scan from the message has not found (`HitsOfPrefix`).

What stays with TLC. Liveness (`EventuallyServed`, `Settles`, `Pushed`,
`EventuallyRuns`) and `ENABLED` are out of the prover's reach. Every invariant, action
property and refinement of a passing run has a theorem. That crd-gen returns follows
from `RecursionBounded` and the finite loops of the code, and is not checked by itself.

## What the runs do not cover

- Two Clusters of one Service, the second exception of `UnchangedVersionExplained`: the
  theorem covers them, no run has them. The reconcile that the deletion of the slice
  triggers sets another version again.
- An Envoy that is connected to a replica that does not lead gets nothing from it until
  it connects to another: the replica accepts the stream and has no snapshot.
  `EventuallyRuns` is about the Envoys of the leader.
- An EnvoyProxy that is deleted keeps its snapshot (`envoyproxy_controller.go:65`).
  No document says what should happen. `QuietServesCache` and `DrainedServesApi` speak
  of EnvoyProxies that exist; `ServesOnlyTargeting` holds of what is kept as well
  (`Serving` and `Status` delete one), and `LevelsReconciled` of when it changes.
- Several replicas of the control plane in one state space: they interact only
  through the API server, and only the leader writes to it.

## Not modelled

- A failure to marshal a synthesised assignment (`envoyproxy_controller.go:239`):
  its strings come out of a JSON decoder and always marshal.
- Informer resyncs (every ten hours by default) would only add reconciles.
- The order in which go-control-plane answers the watches of different resource
  types; one type stands for all.
- Flags, probes, metrics, logging; gRPC keepalive and limits; the listening
  socket (a failure to listen ends the process, which is a restart).
- `extensions.go`, a list of imports: its effect is whether a spec with such an
  extension unmarshals.
- The proto grammar and YAML: the libraries' work.
- Deployment data, generated deep copies, vendored protobuf definitions, the
  example and the end-to-end tests: no state of their own.
