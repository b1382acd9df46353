# cls-controller in TLA+

A verification project for cls-controller, a generic Kubernetes controller
(Go). One deployment of the program serves one `ControllerConfig`: it receives
cluster and nodepool events from cls-backend over Pub/Sub, renders the
resources of its configuration from templates, creates or updates them in a
local or remote cluster, and reports conditions back to cls-backend over HTTP.
Paths below are relative to `src/`.

## Inventory

| Component | Code | State | Operations | Correct when |
|---|---|---|---|---|
| Event pipeline | `internal/sdk/client.go` | client status, context, subscription | Start, Stop, Receive, Ack/Nack, routing, ReportStatus | every event is handled at least once or its loss is harmless; Stop ends |
| Event handlers | `internal/controller/controller.go` | the loaded `controllerConfig` | HandleClusterEvent, HandleNodePoolEvent, created/updated/reconcile/deleted, reportError | a handler acts on one consistent configuration and one cluster snapshot |
| Versioned resources | `internal/controller/resource_manager.go` 390-1040 | Jobs/Pods in the target namespace, found by label | clean old generations, find, recreate, create, trim | one active resource; current work is never destroyed; interval and generation policies hold |
| In-place resources | `resource_manager.go` 356-387, 464-487 | one object, with a resourceVersion | get, create, compare, update | the newest generation's spec wins |
| Cleanup on deletion | `resource_manager.go` 1042-1236, 1731-1842 | labels | delete by labels | nothing of the cluster stays; nothing else goes |
| NodePool twins | `resource_manager.go` 1241-1969 | nodepool labels | as for clusters | isolation between cluster and nodepools |
| Config reconciler | `controller.go` 81-152, 499-524 | `controllerConfig`, CR status | Reconcile | config and templates change together; a bad one is not used |
| Template engine | `internal/template/engine.go` | compiled template maps | Compile, Render | no handler sees a half-filled map |
| Client manager | `internal/client/manager.go` | cache of remote clients | GetClient | the client matches the secret |
| Preconditions | `resource_manager.go` 21-173 | none | evaluate a rule, extract a field | operators mean what the CRD says |
| Version resolution | `internal/cincinnati/client.go`, `controller.go` 390-496 | published graph, controller statuses | ResolveVersion, enrich | a consumer acts on the version of its generation |
| Status updates | `internal/sdk/types.go` 233-448 | list of conditions | AddCondition, ... | one condition of a type, the last one added |
| Configuration, wiring | `internal/config`, `cmd/controller/main.go` | none | Load, main | start-up order |
| SDK helpers | `internal/sdk/helpers.go` | none | WithRetry, ProgressReporter | not used by this program |

Interaction: Pub/Sub runs callbacks concurrently (`NumGoroutines` 10, up to 100
outstanding messages, no ordering keys), so handlers of the same cluster
overlap.  They share the Kubernetes objects, the `Controller` struct, the
template engine and the client cache; only the client cache has a lock.
The reconciler runs in controller-runtime's goroutine and writes
`controllerConfig` and the templates without a lock.  A handler's error return
becomes a Nack and a redelivery; an error it reports to cls-backend becomes an
Ack.

What is hard here: handlers act on what they read several network calls ago;
all memory is in Kubernetes labels; most errors are logged and ignored;
identity is a rendered name with a resolution of one second; deadlines expire
between calls; events are repeated, delayed and lost on purpose. The unit tests
of the repository run none of this concurrently. `PROJECT.json` lists the
hazards line by line, with the properties that cover them.

## Modules

`VersionedResource` is the core: all handlers of one cluster on its versioned
resources, one Kubernetes or backend call per action.

| TLA+ | Code |
|---|---|
| `gen`, `inbox` | cls-backend's generation; unacknowledged events of each controller |
| `jobs` | Jobs in the namespace: labels (controller, generation), name (controller, generation, second), creation time, Complete/Failed |
| `pc`, `egen`, `cgen`, `stamp`, `todo`, `held` | a handler's locals: `event.Generation`, `cluster.Generation`, context start = render time, listed objects, the object in hand |
| `status` | the last status accepted by cls-backend |
| `HandleClusterEvent` | delivery and `GetCluster` |
| `ListOldGenerations`, `DeleteOldGeneration` | `cleanupOldGenerations` |
| `FindResourceForGeneration`, `RefreshFound` | `findResourceForGeneration`, `isResourceRunning`, `shouldRecreateVersionedResource` |
| `DeleteCompleted`, `CreateVersionedResource` | steps 2 and 3 of `getOrCreateVersionedResource` |
| `ListCompletedVersions`, `DeleteOldVersion` | `cleanupCompletedVersions` |
| `RefreshForStatus`, `ReportStatus`, `ReportError`, `Return` | `evaluateAndReportStatus`, `reportError`, Ack/Nack |
| `UpdateSpec`, `PublishReconcile`, `FinishJob`, `RemoveFinishedJob`, `Tick`, `Crash` | environment |

Every call may be answered ("ok"), take effect and be answered with an error
("lost"), or do nothing ("failed"); after the handler's deadline it always
fails. Reads of the API server are current (the remote client has no cache).
An update, a creation and a reconcile event take the same path in the code and
are one kind of event here. A message may be delivered again and to a second
callback while the first runs; an acknowledgement removes it.

`VersionedContract` is the abstract promise: a slot with at most one resource,
emptied only of a completed or outdated resource, filled for a newer
generation or after the interval. `VersionedHistory` adds a history variable,
the last Job created, and maps the protocol to the contract.
`VersionedResourceProofs` and `VersionedHistoryProofs` hold the theorems. `MCVersionedResource` and
`MCVersionedHistory` are the instances TLC checks.

Operators under a comment "Broken variant" are plausible bugs of the code next
to the definition they would replace; each property was seen to fail with one.

`ConfigReconciler` is the `ControllerConfig` and its users: `Reconcile` with
its queue and requeues, `CompileTemplates` entry by entry, and handlers that
read the configuration field and the template map several times per event.

| TLA+ | Code |
|---|---|
| `stored`, `writes` | the object in the API with phase and observed version; `version` stands for its resourceVersion and generation |
| `queued`, `retry` | controller-runtime's queue (one name) and a pending `RequeueAfter` |
| `loaded`, `templates` | `Controller.controllerConfig` ({} is nil), `Engine.templates` (the version each was compiled from) |
| `rpc`, `rconf`, `compiled` | `Reconcile`'s place, its copy of the object, how far `CompileTemplates` is |
| `pc`, `resources`, `seen`, `blank` | a handler's place, the slice it ranges over; which versions its decisions came from and whether a condition had no template (observers) |
| `Reconcile`, `StoreConfig`, `RenewTemplates`, `CompileTemplate`, `MarkValid`, `MarkInvalid` | `Reconcile` in order |
| `HandleClusterEvent`, `EvaluatePreconditions`, `EnterResources`, `RangeResources`, `RenderResource`, `EvaluateStatus`, `RenderConditions`, `ReportStatus`, `ReportError` | one event's reads |
| `Dereference` | a nil pointer in a callback ends the process |
| `ConcurrentMapAccess` | the Go runtime's fatal error for a map read during a write |

A handler's reads with no network call between them are one step, so what these
runs find needs only the interleaving that network calls allow. The contents are
a constant: valid or not, with or without a template that does not compile, with
other resources and conditions, met or unmet preconditions.

`SdkClient` is the life of the process around the handlers: `main`, `Start`,
`Stop`, the two workers, the mutex and the context, and each message's way
through routing, report and acknowledgement. Messages are of three kinds: they
end in a report, end silently, or cannot be decoded.

| TLA+ | Code |
|---|---|
| `main`, `signals` | `main`'s place; signals that came |
| `status`, `mutex`, `cancelled` | the client's fields: status, lock, whether its context is cancelled |
| `receiver`, `health` | the two workers |
| `loaded` | `Controller.controllerConfig` is not nil |
| `pc`, `message` | a callback's place and the message it has |
| `unacked`, `reported`, `ignored` | messages Pub/Sub keeps; events whose report cls-backend accepted, and those a handler ignored (observers) |
| `SpawnWorkers`, `SetRunning`; `CancelContext`, `WorkersDone`, `SetStopped` | `Start`; `Stop` |
| `LoadConfig`, `RemoveConfig` | what `Reconcile` does to the configuration, which only runs in `mgr.Start` (`main.go:145`), after `sdk.Start` (`main.go:123`) |
| `HandleEventMessage` | decoding, routing, and the handlers' first check: without a configuration they return nil and the event is acknowledged (`controller.go:165`, `:238`) |
| `ReportStatus`, `RefuseReport`, `Ack`, `Nack` | the report or the error in its place, and the callback's answer |
| `GiveUp`, `ReceiveMessage`, `Signal`, `Crash`, `Restart` | environment |

Every process starts without a configuration, and its workers receive before it has
one, so any event, also one that comes back after a crash, may be ignored.
`status` is read by `ReportStatus` without the mutex (a data race), but no handler
has a configuration, and comes that far, before the status is "running"; what it may
read during `Stop`, the old string, the new one or a mixture, only decides whether its
report fails there or with the cancelled context.

`OwnedResources` is the loop over a configuration's resources with the in-place
strategy, and what happens on deletion, for a cluster and its nodepools, which
share the code's shape (each function of the cluster has a nodepool twin) and
differ in labels and reports.

| TLA+ | Code |
|---|---|
| `spec`, `deleted`, `inbox` | cls-backend: generations, deleted owners; unacknowledged events |
| `object`, `fresh` | per owner and resource the object, known by the generation it was rendered from (0: others changed what `needsUpdate` compares; negative: others changed something else, see `Contents`, `Altered`); the handlers that hold the current resourceVersion of the one they are at |
| `pc`, `event`, `snap`, `at`, `todo` | a handler's locals: the event, the generation it fetched, how far its loop over the resources is, the objects it listed |
| `made`, `late` | observers: the newest generation an object was ever made for; owners deleted while a handler was creating for them |
| `loaded`, `missed` | `controllerConfig` is not nil; owners whose deletion was acknowledged without a configuration (observer) |
| `LoadConfig`, `RemoveConfig` | what `Reconcile` does to the configuration |
| `IgnoreEvent` | the handlers' first check: without a configuration the event is acknowledged (`controller.go:165`, `:238`) |
| `FindNoConfig`, `Dereference` | the configuration is gone at a later check (`resource_manager.go:255`, `:496`, `:1043` and twins), or between one and a use of it (`:269`, `:282`, `:1058`, `:1070`): an error, a Nack, a skipped deletion; or a panic, which ends the process |
| `HandleEvent`, `FetchCluster` | `HandleClusterEvent`, `HandleNodePoolEvent`: a deletion event needs no fetch, a nodepool is fetched and then its cluster |
| `GetObject`, `CreateObject`, `UpdateObject` | `getOrUpdateInPlaceResource` and its twin |
| `Proceed`, `Fail` | the loop of `getOrCreateAllResources` and its twin: the next resource or the report; the first error ends it |
| `Report`, `ReportOf` | `evaluateAndReportStatus`, `reportError` and their twins: what is sent; nothing reads it back |
| `ListOwned`, `DeleteOwned`, `FinishDeletion` | `deleteAllResources`, `deleteResourcesByLabels` and their twins |

`Templates` has for each resource the `apiVersion` and `kind` lines of its template,
nested ones too; `Extracted` is what `extractGroupVersionKind` takes from them and
`Declared` what they declare. The cleanup finds the objects of a resource if some
template's extraction agrees with its declaration (`Lists`), and all if this is so for
each resource (`Listable`). `Rendered` has the objects that the templates render: a
template of a nodepool fails for a cluster, and the error ends the loop. The models
take it that a template names its object after the owner it renders for. Deletion
is by name; calls fail as in `VersionedResource`. `needsUpdate` compares spec, labels and
annotations only, and the generation is one of the labels: what others write elsewhere,
as in the data of a Secret, no handler notices before the next generation. An object has its ownership labels
as long as it exists, as others leave them alone.

`OwnershipContract` is what this promises about the objects themselves, with no
handlers, events or calls in it: an object is written from a spec its owner had,
removed only with its owner, and not written for an owner that is gone except by
those at work on it when it went. `KeepsOwnership` maps the protocol to it, variable
by variable; every step of a handler that touches no object is a stutter.

`Preconditions` has no variables: `RuleMet` is `evaluatePreconditionRule`,
`Found` and `FieldValue` are `extractFieldValue` with its stop at the first
segment that has the last one's text (`Reached`), and values keep the Go type
they have in the interface, which `compareValues` compares.

`VersionResolution` is two deployments of the program that meet in cls-backend:
the resolver, whose configuration has no resources, resolves `spec.release` and
reports the release as metadata of its status; the consumer has preconditions on
this status and renders the release into its resource.

| TLA+ | Code |
|---|---|
| `gen`, `inbox` | the cluster's generation; unacknowledged events of each deployment's subscription |
| `graph` | the releases in the published graph, each with the channel it is in |
| `status` | the resolver's status in cls-backend: observed generation, metadata |
| `object`, `fresh` | the consumer's in-place resource, known by the release rendered into it; whose resourceVersion is current |
| `pc`, `event`, `snap`, `seen` | a handler's locals: the event, the generation it fetched, the status it fetched |
| `HandleClusterEvent`, `EnrichCluster` | delivery and `GetCluster`; `enrichClusterWithControllerStatuses` and `evaluatePreconditions` |
| `ResolveVersion`, `ReportStatus` | `handleVersionResolution` with `deriveChannel` and `ResolveVersion`; its report |
| `GetObject`, `CreateObject`, `UpdateObject`, `ReportConsumer` | the consumer's in-place resource and report |
| `UpdateSpec`, `PublishReconcile`, `PublishRelease`, `Crash` | environment |

`RemoteClients` is the client manager with those who use it: every event asks for a
client of the configuration's target twice, to apply and to refresh for the report.

| TLA+ | Code |
|---|---|
| `config`, `secrets`, `replaced` | the target in the API; secrets with a version and their usable keys; those replaced in the process's lifetime (observer) |
| `loaded`, `namespace`, `rpc` | `controllerConfig`'s target, `Manager.secretNamespace`, `Reconcile`'s place |
| `cache` | `Manager.remoteClients`, a client being known by what it was made from |
| `pc`, `phase`, `asked`, `source`, `made`, `applied` | a handler's place, which of its two requests it is at, and that request's locals |
| `report` | the clients that the last event was applied and refreshed with |
| `StoreConfig`, `SetSecretNamespace` | the two statements of `Reconcile` |
| `HandleEvent`, `GetClient`, `ReadNamespace`, `GetSecret`, `CacheClient` | the callers and `GetClient`: the look-up under the read lock, the namespace under it again, the secret, the write under the lock |
| `WriteSecret`, `EditTarget`, `Crash` | environment |

`ConfigReconcilerProofs`, `SdkClientProofs`, `OwnedResourcesProofs`,
`PreconditionsProofs`, `VersionResolutionProofs` and `RemoteClientsProofs` hold the
theorems of their modules, the `MC` modules the instances TLC checks.

## Runs

| Run | Shows |
|---|---|
| `versioned_concurrent` | 2 deployments with a handler each in one namespace, 2 generations, clock 0..2, deadline 1, interval 2, TTL: types, `ReportsCurrent`, `RunningJobSurvives` |
| `versioned_serial` | 1 handler, 3 generations, clock 0..4, any number of crashes, no failed call: `ImplementsContract` |
| `versioned_liveness` | 2 handlers, 2 generations, clock 0..1, one fault, any number of crashes, under `Fairness`: `GenerationServed`, `OldGenerationsSwept` |
| `config_reload` | 1 handler, 2 versions of 5 contents, one event, one fault, one crash, under `Fairness`: types, `SettledConfig`, `TemplatesOfOneVersion`, `LatestConfigServes` |
| `owned_deletion` | 2 interchangeable handlers, a cluster with one object and a nodepool with two, one crash, one removal of the configuration, one failed call, either owner may be deleted: types, `DeletedIsGone`, `LiveObjectsStay`, `KeepsOwnership` |
| `owned_updates` | 2 handlers, a cluster with two objects, 2 generations, one fault, one write of somebody else, one crash, one removal of the configuration, no deletion, under `Fairness`: `AppliedWasMade`, `NewestSpecWins` |
| `client_lifecycle` | 2 callbacks, 3 messages, a signal, a crash, a fault, a removal of the configuration, a Receive that gives up, under `Fairness`: types, `NothingLost`, `StoppedIsQuiet`, `StopEnds`, `EventsReportedByReceiver` |
| `version_resolution` | 2 resolver callbacks, 1 consumer callback, 2 generations in two channel groups, a release published late, one fault or crash, under `Fairness`: types, `StatusNotBehind`, `AppliedWasResolved`, `RejectionHasReason`, `ReleaseArrives` |
| `remote_clients` | 2 handlers, 5 targets on one secret, one write of it, one edit of the target, one fault or crash, under `Fairness`: types, `CacheSuits`, `LatestTargetServes` |

Bounds. Two handlers are the least that race, and every race found needs two;
two generations give an old and a current one, three let a handler be two
behind. The clock's ticks stand for a minute or so: what matters is the order of
the interval, the deadline and twice the deadline, and 2 against 1 is the
tightest ratio for which `RunningJobSurvives` is proved (the default is 300 s
against 120 s). A deadline of one tick in a clock of three values is enough for
a Job to be listed, removed by the TTL and made again under its name by a slow
handler. `versioned_concurrent` has no failed calls but those after the deadline,
and no crashes (`MayCrash`): these are in `versioned_serial` and `versioned_liveness`,
and the theorem has them all. Its deployments with their one handler each are
exchanged by the symmetry. With interval 2 and deadline 2 TLC does find a violation: a
handler that rendered its name early re-creates a Job, and one that started
later deletes it, so the ratio is a real condition on `versionInterval`.
Two versions of the ControllerConfig, with deletions between, allow an edit
before, during and after the reconciliation of either (three were run once for
`SettledConfig`, which is proved); handlers share nothing but what they read, so
one handler against the reconciler shows every mixture. Two callbacks let one report
while the other drains, and give a message delivered twice at once.
A cluster and one nodepool are the least with a label of one that the other must
not match; two resources are the least whose loop can stop halfway. Deletions and
updates have a run each to keep both small: what a cleanup removes does not depend
on the generation, so one is enough there, and two handlers let one create while the
other deletes. The second template renders for the nodepool only, so a cluster's event
ends in an error. One crash and one removal of the configuration, which may also lead
to a panic, let a deletion be interrupted and be ignored when it comes again. The
safety properties of both runs are theorems, about deletions and updates together, any
number of handlers and resources and every set of rendered objects.
In `VersionResolution` two resolver callbacks are what lets an old generation's report
come after a new one's; a second consumer callback would only add the update
races that `OwnedResources` has. The release of the second generation exists in the
default channel from the start and in its own later, so a resolver that fails, or
takes the wrong channel, shows. The rules are those of the two Helm charts and a
negative one. In `RemoteClients` the five targets are two keys of one secret, a
workload identity in the same secret, the local cluster, and one that has no
client: the least with two kinds of cache keys and every way out of `GetClient`. One
write lets a handler hold a client made from the secret's earlier content.
A third handler or generation adds states, not new orders of two calls on one
name; the theorems cover all of them.

Fairness. Go schedules every callback, so a handler that can take its next
step takes it (`WF(Step)`); Pub/Sub redelivers what is not acknowledged
(`WF(Deliver)`); cls-backend publishes reconcile events periodically
(`WF(PublishReconcile)`). Nothing is assumed of Job completion, the TTL
controller or faults, whose number is bounded; the processes of `VersionedResource`
crash as often as they like, but not for ever. In `ConfigReconciler` the
reconciler's queue is worked off and its timers fire (controller-runtime); a
concurrent map access counts among the crashes, for it takes an overlap of
microseconds. In `SdkClient` the health worker's `select` takes a ready case at
random, so `ctx.Done` is not passed over for ever, and Pub/Sub delivers each
message it keeps, not only some of them: both are strong fairness. The kubelet
restarts an ended process. In `OwnedResources` Pub/Sub delivers an event of
every owner that has one again and again (strong fairness per owner: the
handlers may be busy with others), and reconcile events come while the owner is
not deleted; nothing is assumed of which of its events comes. The ControllerConfig is
there in the long run, and the reconciler loads it (`WF(LoadConfig)`); `SdkClient`
does not need this, and assumes nothing of it. In `VersionResolution` each deployment has
an event delivered while it has any and a callback that is free, some callback of
each makes its next step, and reconcile events come; nothing is assumed of the
order of events or callbacks, nor that a release is published. In
`RemoteClients` the reconciler runs, events keep coming, and some handler makes its
next step; secrets need never be written. `owned_deletion` does not
look for deadlocks: when cluster and nodepool are deleted and their events are
handled there is nothing left to do.

Runs that show a disagreement between the code and what its documents or
comments say (the quotes are in `PROJECT.json`):

| Run | Violated | Reason |
|---|---|---|
| `two_active` | one active resource per cluster | List and Create of two handlers interleave |
| `foreign_cleanup` | only own resources are deleted | the selectors leave out the controller label |
| `nested_kind` | the cleanup deletes the resources with the template's kind | `extractGroupVersionKind` takes the last line that starts with `kind:`, also a nested one, as in the shipped Certificates |

Other differences were seen while modelling and have no run of their own.

The configuration:

* `Reconcile` sets `controllerConfig` to nil (`controller.go:105`) between a
  handler's check and its use (`resource_manager.go:282`, `:561`): a panic, which
  `Dereference` models. It happens in `config_reload`, where the restarted
  process recovers.
* A configuration is stored before its templates are compiled
  (`controller.go:122`), and stays in use when they do not compile and its phase
  becomes Invalid. `SettledConfig` therefore speaks of Valid ones.
* One event can be handled with two configurations, and its conditions rendered
  without a template (`resource_manager.go:561`, `engine.go:122`).

Versioned resources:

* `observedGeneration` is the event's, although the resources come from the newer
  cluster that was fetched (`:550`; `DESIGN.md:426` asks for the cluster's).
* A completed resource is deleted before it is recreated whatever `keepVersions`
  says (`:430`); the TTL controller removes the only memory of a
  `newGenerationOnly` version (`:862`).
* `two_active` needs no second handler when a List fails, for
  `findResourceForGeneration` answers that as an empty list (`:398`).
* `cleanupCompletedVersions` deletes by name what it listed (`:995`): after the TTL
  removed the listed Job a slow handler that rendered the same name can have made
  it again, and TLC finds the running Job deleted; hence the exception in
  `RunningJobSurvives`, which lasts for twice the deadline from the second in the
  Job's name and not longer.
* The selectors leave out the name of the configuration's resource, too: two
  versioned resources of one kind in one configuration adopt each other (`:718`).

Deletion:

* `deleteAllResources` "deletes all resources created by this controller"
  (`:1041`) except those that another handler is about to create, and those whose
  deletion fails: these errors are logged and the event is acknowledged (`:1223`,
  `controller.go:358`), so nothing comes back for them. Nor does it delete what
  was made in a cluster that is not the target any more (`:1058`).
  `DeletedIsGone` states what holds without these, and if the templates are `Listable`.
* A process that has just started has no configuration yet: the SDK client is started
  (`main.go:123`) before the manager (`:145`), and a deletion event that comes then is
  acknowledged and nothing is deleted (`controller.go:165`, `:238`), now or later. The
  same goes for one that comes back after a crash, and for one that finds the
  ControllerConfig removed (`resource_manager.go:1043`, `:1732`). `NothingLeft` excepts
  the owners of these (`missed`); created and updated events that are ignored are made
  up for by reconcile events, which deletions do not have.
* In the shipped configuration `nested_kind` does no harm: the Certificate's namespace
  is deleted too, and the garbage collector takes the Certificate along. The models
  leave that cascade out.
* The context of a nodepool's templates has the cluster as well (`engine.go:213`). A
  template that uses only the cluster renders the cluster's object on a nodepool's
  event, which overwrites it with the nodepool's labels (`resource_manager.go:1334`);
  the nodepool's deletion would then remove it. The shipped deployments have separate
  topics for clusters and nodepools, which keeps this from happening.

In-place resources:

* `needsUpdate` (`resource_manager.go:464`) compares spec, labels and annotations. The
  signing-key Secret of `helm-cls-hypershift-client` (`controllerconfig.yaml:58-65`) has
  no spec: what others write to its data stays until the next generation changes the
  label. `NewestSpecWins` says that nothing worse than that can last.

Events and reports:

* An event that arrives before the first configuration is acknowledged without a
  report, see Deletion; `NothingLost` and `EventsReportedByReceiver` except such events
  (`ignored`) and no others.
* An error of `Receive` is only logged (`client.go:291`): the process stays up and
  handles nothing, against "Retry logic, circuit breakers, and failure recovery"
  (`DESIGN.md:2303`). `EventsReportedByReceiver` asks for a Receive that works.
* An error report of a nodepool carries the generation 0 (`controller.go:642`).

Preconditions and version resolution:

* `extractFieldValue` recognises the last segment of a path by its text (`:122`): a
  path that repeats a segment is read only up to the first one (`Reached`).
* `getFailedPreconditions` looks at the cluster without its status (`:207`), so a
  negative rule on a status can fail without being named; `RejectionHasReason`
  is about the others.
* `generation` is an int64 in the data and a float64 in a rule: `eq` is never met.
* A resolver's failed or rejected event reports without metadata and so withdraws the
  release of the last good report. The consumer's preconditions are then not met
  until a reconcile event; `ReleaseArrives` holds because these keep coming.
* A status tells which generation it observed but nothing compares it: a consumer
  applies an older generation's release to a newer one until its next event.

Clients:

* `SetSecretNamespace` is called after the configuration is stored
  (`controller.go:125`): an event in between looks in "cls-system", and a client
  found there stays in the cache for the process's lifetime. `LatestTargetServes`
  therefore assumes no secret of that name there.
* A cached client outlives its secret; "Optional secret watching" (`DESIGN.md:899`)
  is not there, and only a restart helps (`Serves`, `Fresh`).
* The refresh asks for the target's client again (`resource_manager.go:503`): after
  an edit in between it looks for the resources in another cluster.

## Theorems

For every value of the constants. The versioned protocol (module `VersionedResourceProofs`):

* `TypeCorrect`: `Spec => []TypeOK`. Inductive with `InboxOK` (events are not
  ahead of the backend) and `LocalsOK` (event <= cluster snapshot <= backend).
* `ReportsAreCurrent`: `Spec => []ReportsCurrent`, from `HeldOK`: a handler
  holds a Job of its snapshot's generation.
* `RunningJobsSurvive`: `Gap => (Spec => RunningJobSurvives)` where `Gap` is
  `NewGenerationOnly \/ 2 * Timeout <= VersionInterval`. The inductive
  invariant `ReuseOK` says what a handler knows of the name it is about to
  delete: between List and Get, the name of a completed Job can be taken by a
  running one only if the handler started within `Timeout` of that name's
  second; from the decision to recreate until the handler's own deadline it
  cannot. Creating under an old name needs a handler that rendered it, and that
  handler's deadline passes before the interval does. In the loop that trims old
  versions nothing decides again, so there the invariant says only how young such a
  name is: a handler that trims a reused name started before that name was a deadline
  old, and deletes before its own deadline. `TodoOK`: outside the loops
  nobody has anything listed.
* `TrimKeepsNewest`: of any list, `cleanupCompletedVersions` deletes no running Job,
  keeps exactly `keepVersions` of the completed ones, or all if there are no more, and
  none older than one it deletes; and there always is such a choice. The newest are
  taken one after the other, and the least number for which this would fail does not
  exist.

The refinement (module `VersionedHistoryProofs`):

* `ContractKept`: `Serial => (HSpec => ImplementsContract)`. `Serial` says that
  deliveries come one at a time, no call fails but for its deadline, and no TTL
  removes Jobs; without any of these two Jobs can be there at once (`two_active`)
  or one comes too early. Crashes may happen anywhere. The invariant on top of
  those above: `SlotOK` (one Job at most, the last created), `VacantFor` (when it
  is gone, a newer generation or the interval allows another), `SweepOK` (before
  its deadline a handler has removed, or has still on its list, all that is
  outdated, and creates only in an empty slot; after it, it creates nothing) and
  `RecreateOK` (what it deletes to recreate is what the namespace holds, completed
  and old enough). `NothingTrimmed`: `cleanupCompletedVersions` then never has
  anything to delete, whatever `keepVersions` is.

The configuration (module `ConfigReconcilerProofs`):

* `TypeCorrect`: `Spec => []TypeOK`.
* `SettledConfigLoaded`: `Spec => []SettledConfig`. `SettledConfig` says nothing
  while the queue is not empty, so the invariant must say what a reconciliation
  under way has achieved: `ReadIsCurrent` (what it read is still stored, or the
  name is queued again) and `CompiledSoFar` (the entries up to `compiled` are of
  its version, and the loaded configuration is the one it read).
* `TemplatesAgree`: `Spec => []TemplatesOfOneVersion`. Versions only grow in the API
  (`EngineInv`): when Reconcile is about to store a configuration no template is newer
  than it, so what the engine has from before is older, and goes before the first
  entry is compiled.

The client (module `SdkClientProofs`):

* `TypeCorrect`: `Spec => []TypeOK`.
* `NoEventIsLost`: `Spec => []NothingLost`, from `CallsOK`: a callback at its
  acknowledgement holds a message whose report was accepted, that a handler ignored
  for want of a configuration, or that needs no report. The theorem does not say that
  nothing is ignored, which is not so.
* `StopIsQuiet`: `Spec => []StoppedIsQuiet`, from `Quiet`: callbacks run only
  while Receive does, and an ended process has no worker.

The in-place resources (module `OwnedResourcesProofs`):

* `TypeCorrect`: `Spec => []TypeOK`.
* `ReportsAreTrue`: `Spec => []AppliedWasMade`, and `LiveObjectsAreKept`:
  `Spec => LiveObjectsStay`, from `Facts`: an event is not newer than its
  owner's spec and tells of a deletion only after it; a handler's snapshot is
  not older than its event, and every object before the one the handler is at was
  made for it (`DoneBefore`), so at the report all were; what is listed for deletion
  is gone from cls-backend.
* `OwnershipKept`: `Spec => KeepsOwnership`, the refinement of `OwnershipContract`,
  from `Owning`: the facts above, that nobody starts to create for an owner that is
  gone (`NoneApplying`), and that what a handler applies is a generation its owner
  had (`SnapsOK`). Writes, deletions and the environment's steps have a lemma each.
* `DeletionIsComplete`: `Spec => []DeletedIsGone`, whose premise `Listable` is one on
  the templates. The invariant `Sweeping` adds to `NoneApplying` that
  a handler that deletes has listed what is left or will still come to a template
  that lists it (`Listed`), and that for
  whatever is left a deletion event is still there (`Pending`), unless one was ignored
  without a configuration (`missed`), as any process may do when it has just started.
  `Listed` needs
  `NoneApplying`: a resource made between List and the acknowledgement would be
  forgotten.
* `OwnLastDeletes`: a condition on templates that an author can see: when the last
  `apiVersion` and `kind` lines of each are its own and no nested object's
  (`OwnLast`), deletion is complete but for the exceptions of `NothingLeft`: failed
  calls, handlers still creating, deletions ignored without a configuration.

Preconditions (module `PreconditionsProofs`):

* `ReadToTheEnd`: `extractFieldValue` reads a path to its end exactly when the text of
  its last segment does not occur before. Which segment stops it is a least number,
  which exists because the natural numbers are well-founded: no induction over paths.

Version resolution (module `VersionResolutionProofs`):

* `TypeCorrect`: `Spec => []TypeOK`.
* `StatusesAreNotBehind`: `Spec => []StatusNotBehind`, and
  `AppliedReleasesWereResolved`: `Spec => []AppliedWasResolved`. Neither is
  inductive. `Ordered` says that a handler's event is not newer than the
  generation it fetched, and that not newer than the backend's, so what is resolved
  of the fetched generation is not older than what the report says it observed.
  `Traced` follows a release from the graph through the status and the hands of
  the consumers to the resource.
* `RejectionsHaveReasons`: `Spec => []RejectionHasReason`. `ReasonStep`: a rejection's
  rules failed on what the handler fetched. A positive rule on a status that fails
  also fails on the cluster without it (`FailsWithoutStatus`: its path leads nowhere
  then), and a rule on anything else reads the same of both, since what
  `extractFieldValue` reads of its path has the first segment of the whole.

The clients (module `RemoteClientsProofs`):

* `TypeCorrect`: `Spec => []TypeOK`.
* `CachedClientsSuit`: `Spec => []CacheSuits`. Between its calls a handler holds
  what will be cached, so `Asked` says that the secret it reads is that of its
  target, and that the client it made suits the target. `SameKey`, on which it
  rests, says that targets with one key of the cache have one use of one secret.

Assumed of the constants: `ContentsAssumption`, the `HandlersAssumption` of two
modules, `KindAssumption`, `OwnersAssumption`, `TemplateAssumption`,
`LinesAssumption`, `RulesAssumption` (a rule's path is not empty: `strings.Split`),
`ReleaseAssumption`, `TargetsAssumption`, `WrittenAssumption`, the `LimitsAssumption` of five modules, `ControllersAssumption`, `PolicyAssumption`,
`BoundsAssumption` (types only), and `Gap` where it is named.

Model-checked only: the liveness properties, which are out of the prover's reach.
Every safety property of a passing run is proved.

## Not modelled

* Text of templates, JSON and HTTP, logging: data, of which the models keep what
  the properties tell apart.
* The construction of status updates (`types.go`): constructors without state.
  `AddCondition` keeps one condition of a type; `HasRequiredConditions` has no caller.
* The SDK's `WithRetry` and `ProgressReporter`: nothing in the program uses them.
* Maestro: stubs that return errors. Generated CRD code: no behaviour.
* Configuration loading: it runs once, before anything else, and has no state.
* The versioned strategy of nodepools: its functions repeat those of clusters with
  other labels. So do a nodepool's preconditions, on other data.
* In `VersionedResource`: preconditions (see `VersionResolution`), other kinds than Job
  and Pod (the List of the versioned strategy asks for `core/v1` of every other kind,
  so it finds nothing of a kind of another group), deletion events (see `OwnedResources`),
  the absence or change of the `ControllerConfig` (see `ConfigReconciler`), and
  errors of `GetClient`, whose effect is that of a failed `GetCluster`.
* In `OwnedResources`: preconditions, the conditions of a report and the Get that
  refreshes them, and deadlines, which are failed calls.
* In `VersionResolution`: the fields of a cluster other than generation and release,
  statuses of other controllers, deletion, and nodepools, for whose templates the
  cluster is enriched in the same way (`controller.go:281`).
* In `VersionResolution` and `VersionedResource`: events acknowledged without a
  configuration. None of them is a deletion, and reconcile events make up for them.
* In `RemoteClients`: the calls made with a client (see the other modules) and the
  removal of the `ControllerConfig`. The target of the refresh is read in the step that
  obtains the client to apply with: the two commute.

## Plan

Done: `VersionedResource` with its contract, `ConfigReconciler`, `SdkClient`,
`OwnedResources` with its contract, `Preconditions` and `VersionResolution`,
`RemoteClients`, each with its theorems. Next:

1. A contract for the client's messages (kept until reported) that `SdkClient`
   implements.
2. A contract for what the consumer of a resolved version applies, that
   `VersionResolution` implements.
3. The nodepools' versioned strategy beside the clusters' in one namespace.
