--------------------------- MODULE OwnedResources ---------------------------
(***************************************************************************)
(* In-place resources of a cluster and of its nodepools, from their        *)
(* creation to their deletion (controller.go, HandleClusterEvent and       *)
(* HandleNodePoolEvent; resource_manager.go, getOrUpdateInPlaceResource,   *)
(* deleteAllResources and their nodepool twins).                           *)
(*                                                                         *)
(* An owner is the cluster or a nodepool.  A configuration has templates,  *)
(* each of which renders one object, with a name of its own, per owner it  *)
(* is meant for, and fails for the others.  Handlers run concurrently, one *)
(* call per action.                                                        *)
(*                                                                         *)
(* Environment: specs change, owners are deleted, others write to the      *)
(* resources, calls fail or are answered too late, the process crashes and *)
(* starts without a configuration, the ControllerConfig is removed.        *)
(***************************************************************************)
EXTENDS Integers, FiniteSets, Sequences

CONSTANTS
  Handlers,    \* concurrent Pub/Sub callbacks
  Cluster,     \* the cluster
  NodePools,   \* its nodepools
  Templates,   \* per resource of the configuration: its template's apiVersion and
               \* kind lines, in order
  Rendered,    \* the objects that the templates render
  Deletable,   \* bound: owners that may be deleted
  MaxGen,      \* bound: generations of a spec
  MaxDrift,    \* bound: writes of others
  MaxFaults,   \* bound: failed calls
  MaxCrashes,  \* bound: crashes
  MaxRemovals  \* bound: removals of the ControllerConfig

Owners == {Cluster} \cup NodePools
Gens   == 1 .. MaxGen

\* The configuration's resources, in order, and the object of each owner for each.
Resources == 1 .. Len(Templates)
Places    == 1 .. Len(Templates) + 1
Objects   == [owner : Owners, resource : Resources]

ASSUME OwnersAssumption ==
  Cluster \notin NodePools /\ Rendered \subseteq Objects /\ Deletable \subseteq Owners
ASSUME LinesAssumption ==
  \A i \in Resources :
    Templates[i] \in Seq([field : {"apiVersion", "kind"}, value : STRING, top : BOOLEAN])
\* A template makes one object, whose apiVersion and kind are top-level lines;
\* others are nested in it.
ASSUME TemplateAssumption ==
  /\ Len(Templates) \in Nat \ {0}
  /\ \A i \in Resources : \A f \in {"apiVersion", "kind"} :
       Cardinality({n \in DOMAIN Templates[i] : Templates[i][n].field = f /\ Templates[i][n].top}) = 1
ASSUME LimitsAssumption ==
  /\ MaxGen \in Nat \ {0}
  /\ MaxDrift \in Nat
  /\ MaxFaults \in Nat
  /\ MaxCrashes \in Nat
  /\ MaxRemovals \in Nat

VARIABLES
  spec,     \* per owner: its generation in cls-backend
  deleted,  \* owners deleted from cls-backend
  inbox,    \* events Pub/Sub still has
  object,   \* per object: {} or what it is, see Contents
  fresh,    \* handlers whose resourceVersion is that of the object they are at
  pc,       \* per handler: its next step
  event,    \* per handler: {} or the event it handles
  snap,     \* per handler: the generation of the spec it fetched
  at,       \* per handler: the resource it is at, or lists next for deletion
  todo,     \* per handler: the objects it listed for deletion
  made,     \* per object: the newest generation it was ever made for
  late,     \* owners that were deleted while a handler was creating for them
  loaded,   \* Controller.controllerConfig is not nil
  missed,   \* owners whose deletion a handler without configuration ignored
  drifts, faults, crashes, removals  \* how often so far

backend  == <<spec, deleted>>
handlers == <<pc, event, snap, at, todo>>
config   == <<loaded, missed>>
counts   == <<drifts, faults, crashes, removals>>
vars == <<backend, inbox, object, fresh, handlers, made, late, config, counts>>

\* An object is known by the generation it was made for, and 0 when others wrote what
\* needsUpdate compares: spec, labels or annotations (not the ownership labels).
Contents == -MaxGen .. MaxGen

\* What is left of it when others wrote anything else, as the data of a Secret.
Altered(g) == IF g > 0 THEN -g ELSE g

Event  == [owner : Owners, type : {"changed", "deleted"}, gen : 0 .. MaxGen]

Changed(o, g) == [owner |-> o, type |-> "changed", gen |-> g]
Deleted(o)    == [owner |-> o, type |-> "deleted", gen |-> 0]

\* An owner is gone with its cluster.
Gone(o) == o \in deleted \/ Cluster \in deleted

\* Broken variant: the nodepool's cleanup selects by the cluster's label.
SelectsAll(owner, o) == TRUE

\* Broken variant: the cluster's cleanup leaves its nodepools' resources.
SelectsOwn(owner, o) == o = owner

\* Labels: every resource carries its cluster's ID, a nodepool's also its own.
\* deleteResourcesByLabels selects by the first, the nodepool's twin by the second.
Selects(owner, o) == owner = Cluster \/ o = owner

\* The apiVersion or kind of the objects of resource i.
Declared(i, field) ==
  LET lines == Templates[i]
  IN {lines[n].value : n \in {m \in DOMAIN lines : lines[m].field = field /\ lines[m].top}}

\* extractGroupVersionKind goes through all lines, whatever their indentation.
Extracted(i, field) ==
  LET lines == Templates[i]
  IN {lines[n].value : n \in {m \in DOMAIN lines :
                                /\ lines[m].field = field
                                /\ \A k \in m + 1 .. Len(lines) : lines[k].field # field}}

\* The cleanup for resource i lists the objects of resource j.
Lists(i, j) == \A field \in {"apiVersion", "kind"} : Extracted(i, field) = Declared(j, field)

\* The cleanup lists the objects of every resource.
Listable == \A j \in Resources : \E i \in Resources : Lists(i, j)

\* Calls fail, or take effect and answer with an error.
Call(r) ==
  \/ r = "ok" /\ UNCHANGED faults
  \/ r # "ok" /\ faults < MaxFaults /\ faults' = faults + 1
Took(r) == r # "failed"

Idle  == [h \in Handlers |-> "idle"]
First == [h \in Handlers |-> 1]

Init ==
  /\ spec = [o \in Owners |-> 1]
  /\ deleted = {}
  /\ inbox = {Changed(o, 1) : o \in Owners}
  /\ object = [x \in Objects |-> {}]
  /\ fresh = {}
  /\ pc = Idle
  /\ event = [h \in Handlers |-> {}]
  /\ snap = [h \in Handlers |-> 0]
  /\ at = First
  /\ todo = [h \in Handlers |-> {}]
  /\ made = [x \in Objects |-> 0]
  /\ late = {}
  /\ loaded = FALSE
  /\ missed = {}
  /\ drifts = 0
  /\ faults = 0
  /\ crashes = 0
  /\ removals = 0

Handles(h, o) == \E e \in event[h] : e.owner = o

\* h is at this object.
IsAt(h, x) == Handles(h, x.owner) /\ at[h] = x.resource

\* h has fetched o's spec and has not written all of o's objects yet.
Applying(h, o) == Handles(h, o) /\ pc[h] \in {"cluster", "get", "create", "update"}

-----------------------------------------------------------------------------
(* The environment.                                                          *)

UpdateSpec(o) ==
  /\ ~Gone(o)
  /\ spec[o] < MaxGen
  /\ spec' = [spec EXCEPT ![o] = @ + 1]
  /\ inbox' = inbox \cup {Changed(o, spec[o] + 1)}
  /\ UNCHANGED <<deleted, object, fresh, handlers, made, late, config, counts>>

PublishReconcile(o) ==
  /\ ~Gone(o)
  /\ inbox' = inbox \cup {Changed(o, spec[o])}
  /\ UNCHANGED <<backend, object, fresh, handlers, made, late, config, counts>>

DeleteOwner(o) ==
  /\ o \in Deletable
  /\ ~Gone(o)
  /\ deleted' = deleted \cup {o}
  /\ inbox' = inbox \cup {Deleted(o)}
  /\ late' = late \cup {p \in Owners : Selects(o, p) /\ \E h \in Handlers : Applying(h, p)}
  /\ UNCHANGED <<spec, object, fresh, handlers, made, config, counts>>

\* The object's resourceVersion changes.
Touch(x) == fresh' = {h \in fresh : ~IsAt(h, x)}

Drift(x) ==
  /\ drifts < MaxDrift
  /\ drifts' = drifts + 1
  /\ \E g \in object[x] : \E a \in {0, Altered(g)} : object' = [object EXCEPT ![x] = {a}]
  /\ Touch(x)
  /\ UNCHANGED <<backend, inbox, handlers, made, late, config, faults, crashes, removals>>

\* The process ends and is started again, and has no configuration at first.
Die ==
  /\ pc' = Idle
  /\ event' = [h \in Handlers |-> {}]
  /\ snap' = [h \in Handlers |-> 0]
  /\ at' = First
  /\ todo' = [h \in Handlers |-> {}]
  /\ fresh' = {}
  /\ loaded' = FALSE

Crash ==
  /\ crashes < MaxCrashes
  /\ crashes' = crashes + 1
  /\ Die
  /\ UNCHANGED <<backend, inbox, object, made, late, missed, drifts, faults, removals>>

-----------------------------------------------------------------------------
(* The configuration (see ConfigReconciler).  Events arrive from sdk.Start on, *)
(* but Reconcile runs only later, in mgr.Start.                                *)

LoadConfig ==
  /\ ~loaded
  /\ loaded' = TRUE
  /\ UNCHANGED <<backend, inbox, object, fresh, handlers, made, late, missed, counts>>

\* Reconcile does not find the ControllerConfig any more.
RemoveConfig ==
  /\ loaded
  /\ removals < MaxRemovals
  /\ removals' = removals + 1
  /\ loaded' = FALSE
  /\ UNCHANGED <<backend, inbox, object, fresh, handlers, made, late, missed, drifts, faults,
                 crashes>>

\* The owners whose deletion e tells of.
Deletes(e) == IF e.type = "deleted" THEN {o \in Owners : Selects(e.owner, o)} ELSE {}

\* HandleClusterEvent and HandleNodePoolEvent without configuration: the event is
\* acknowledged, and nothing is done.
IgnoreEvent(e) ==
  /\ ~loaded
  /\ e \in inbox
  /\ \E h \in Handlers : pc[h] = "idle"
  /\ inbox' = inbox \ {e}
  /\ missed' = missed \cup Deletes(e)
  /\ UNCHANGED <<backend, object, fresh, handlers, made, late, loaded, counts>>

\* A handler between its first and its last read of the configuration for its loop
\* (a call of GetClient is between them), or at the reads for its report.
ReadsConfig(h) == (pc[h] \in {"get", "delete"} /\ at[h] = 1) \/ pc[h] = "report"

\* A nil configuration is dereferenced after the check: a panic ends the process.
Dereference ==
  /\ ~loaded
  /\ \E h \in Handlers : ReadsConfig(h)
  /\ Die
  /\ UNCHANGED <<backend, inbox, object, made, late, missed, counts>>

-----------------------------------------------------------------------------
(* Creation and update.                                                      *)

Goto(h, label) == pc' = [pc EXCEPT ![h] = label]

\* Broken variant: an owner that was deleted is still answered, as from a cache.
FetchCached(h, e, r) ==
  IF r = "ok"
    THEN /\ snap' = [snap EXCEPT ![h] = spec[e.owner]]
         /\ Goto(h, IF e.owner = Cluster THEN "get" ELSE "cluster")
    ELSE Goto(h, "error") /\ UNCHANGED snap

\* GetCluster or GetNodePool: the spec is fetched, not taken from the event.
Fetch(h, e, r) ==
  IF r = "ok" /\ e.owner \notin deleted
    THEN /\ snap' = [snap EXCEPT ![h] = spec[e.owner]]
         /\ Goto(h, IF e.owner = Cluster THEN "get" ELSE "cluster")
    ELSE Goto(h, "error") /\ UNCHANGED snap

\* A deleted owner cannot be fetched, and its event needs no fetch.
HandleEvent(h, e, r) ==
  /\ loaded
  /\ pc[h] = "idle"
  /\ e \in inbox
  /\ event' = [event EXCEPT ![h] = {e}]
  /\ IF e.type = "deleted"
       THEN r = "ok" /\ Goto(h, "delete") /\ UNCHANGED <<snap, faults>>
       ELSE Call(r) /\ Fetch(h, e, r)
  /\ UNCHANGED <<backend, inbox, object, fresh, at, todo, made, late, config, drifts, crashes,
                 removals>>

\* HandleNodePoolEvent also fetches the cluster.
FetchCluster(h, r) ==
  /\ pc[h] = "cluster"
  /\ Call(r)
  /\ Goto(h, IF r = "ok" /\ Cluster \notin deleted THEN "get" ELSE "error")
  /\ UNCHANGED <<backend, inbox, object, fresh, event, snap, at, todo, made, late, config,
                 drifts, crashes, removals>>

\* Broken variant: the loop ends with its first resource.
ProceedToReport(h) == Goto(h, "report") /\ at' = [at EXCEPT ![h] = @ + 1]

\* The loop goes on, or ends with its last resource; an error ends it at once.
Proceed(h) ==
  /\ Goto(h, IF at[h] = Len(Templates) THEN "report" ELSE "get")
  /\ at' = [at EXCEPT ![h] = @ + 1]
Fail(h) == Goto(h, "error") /\ at' = [at EXCEPT ![h] = 1]

\* Broken variant: the generation label is not compared.
NeedsUpdateNever(existing, g) == FALSE

\* The generation is one of the labels that needsUpdate compares.  It compares spec,
\* labels and annotations, and nothing else that others may have written.
NeedsUpdate(existing, g) == existing \notin {{g}, {Altered(g)}}

\* Any error of Get is taken for an absent object.  An object of the same
\* generation is updated too when the API server filled in its spec.
GetObject(h, x, r) ==
  /\ pc[h] = "get"
  /\ IsAt(h, x)
  /\ IF x \notin Rendered
       THEN r = "ok" /\ Fail(h) /\ UNCHANGED <<fresh, faults>>
       ELSE /\ Call(r)
            /\ IF r = "ok" /\ object[x] # {}
                 THEN \/ Goto(h, "update") /\ fresh' = fresh \cup {h} /\ UNCHANGED at
                      \/ ~NeedsUpdate(object[x], snap[h]) /\ Proceed(h) /\ UNCHANGED fresh
                 ELSE Goto(h, "create") /\ UNCHANGED <<at, fresh>>
  /\ UNCHANGED <<backend, inbox, object, event, snap, todo, made, late, config, drifts, crashes,
                 removals>>

\* h writes the object, unless the API server refuses; the answer may be lost.
Write(h, x, accepted, r) ==
  /\ Call(r)
  /\ IF accepted /\ Took(r)
       THEN /\ object' = [object EXCEPT ![x] = {snap[h]}]
            /\ made' = [made EXCEPT ![x] = IF snap[h] > @ THEN snap[h] ELSE @]
            /\ Touch(x)
       ELSE fresh' = fresh \ {h} /\ UNCHANGED <<object, made>>
  /\ IF accepted /\ r = "ok" THEN Proceed(h) ELSE Fail(h)
  /\ UNCHANGED <<backend, inbox, event, snap, todo, late, config, drifts, crashes, removals>>

\* Refused when the object exists.
CreateObject(h, x, r) ==
  pc[h] = "create" /\ IsAt(h, x) /\ Write(h, x, object[x] = {}, r)

\* Refused when the resourceVersion is not the one of Get.
UpdateObject(h, x, r) ==
  pc[h] = "update" /\ IsAt(h, x) /\ Write(h, x, h \in fresh, r)

-----------------------------------------------------------------------------
(* Reports.  cls-backend keeps them and nothing here reads them back: a      *)
(* report is what ReportOf says when it is sent.  The conditions rendered    *)
(* from the resource's status are left out, and so is the Get they are       *)
(* refreshed with, whose failure is ignored.                                 *)

\* A cluster's report carries the generation of the event, a nodepool's that of
\* the nodepool that was fetched.
Observed(h, e) == IF e.owner = Cluster THEN e.gen ELSE snap[h]

\* An error report of a nodepool carries no generation.
ObservedOnError(e) == IF e.owner = Cluster THEN e.gen ELSE 0

\* What h is about to report for e.
ReportOf(h, e) ==
  IF pc[h] = "report" THEN [observed |-> Observed(h, e), applied |-> TRUE]
                      ELSE [observed |-> ObservedOnError(e), applied |-> FALSE]

\* Broken variant: what the callback handled is not forgotten.
ReturnHolding(h, acked) ==
  /\ inbox' = IF acked THEN inbox \ event[h] ELSE inbox
  /\ Goto(h, "idle")
  /\ UNCHANGED <<event, snap, at, todo, fresh>>

\* The callback returns: Ack removes the event.
Return(h, acked) ==
  /\ inbox' = IF acked THEN inbox \ event[h] ELSE inbox
  /\ Goto(h, "idle")
  /\ event' = [event EXCEPT ![h] = {}]
  /\ snap' = [snap EXCEPT ![h] = 0]
  /\ at' = [at EXCEPT ![h] = 1]
  /\ todo' = [todo EXCEPT ![h] = {}]
  /\ fresh' = fresh \ {h}

\* The event is acknowledged when its report is published.
Report(h, r) ==
  /\ pc[h] \in {"report", "error"}
  /\ Call(r)
  /\ Return(h, r = "ok")
  /\ UNCHANGED <<backend, object, made, late, config, drifts, crashes,
                 removals>>

\* The checks that follow when the configuration is gone by then: nothing is applied,
\* the report is refused and the event comes back, the deletion is skipped.
FindNoConfig(h) ==
  /\ ~loaded
  /\ \/ /\ pc[h] = "get"
        /\ at[h] = 1
        /\ Fail(h)
        /\ UNCHANGED <<inbox, event, snap, todo, fresh, missed>>
     \/ /\ pc[h] = "report"
        /\ Return(h, FALSE)
        /\ UNCHANGED missed
     \/ /\ pc[h] = "delete"
        /\ at[h] = 1
        /\ Return(h, TRUE)
        /\ missed' = missed \cup UNION {Deletes(e) : e \in event[h]}
  /\ UNCHANGED <<backend, object, made, late, loaded, counts>>

-----------------------------------------------------------------------------
(* Deletion.                                                                 *)

\* The objects of the kind extracted from the next template, when those of the
\* templates before are dealt with; errors of GetClient and List are logged.
ListOwned(h, r) ==
  /\ pc[h] = "delete"
  /\ todo[h] = {}
  /\ at[h] \in Resources
  /\ Call(r)
  /\ todo' = [todo EXCEPT ![h] =
       IF r = "ok"
         THEN {x \in Objects : /\ object[x] # {}
                               /\ Lists(at[h], x.resource)
                               /\ \E e \in event[h] : Selects(e.owner, x.owner)}
         ELSE {}]
  /\ at' = [at EXCEPT ![h] = @ + 1]
  /\ UNCHANGED <<backend, inbox, object, fresh, pc, event, snap, made, late, config, drifts,
                 crashes, removals>>

\* By name, whatever has it now; errors are logged.
DeleteOwned(h, x, r) ==
  /\ pc[h] = "delete"
  /\ x \in todo[h]
  /\ Call(r)
  /\ todo' = [todo EXCEPT ![h] = @ \ {x}]
  /\ IF Took(r) /\ object[x] # {}
       THEN object' = [object EXCEPT ![x] = {}] /\ Touch(x)
       ELSE UNCHANGED <<object, fresh>>
  /\ UNCHANGED <<backend, inbox, pc, event, snap, at, made, late, config, drifts, crashes,
                 removals>>

\* handleClusterDeleted and handleNodePoolDeleted report nothing and never fail.
FinishDeletion(h) ==
  /\ pc[h] = "delete"
  /\ todo[h] = {}
  /\ at[h] \notin Resources
  /\ Return(h, TRUE)
  /\ UNCHANGED <<backend, object, made, late, config, counts>>

-----------------------------------------------------------------------------
Answers == {"ok", "lost", "failed"}

Step(h) ==
  \/ \E r \in {"ok", "failed"} :
       \/ FetchCluster(h, r)
       \/ ListOwned(h, r)
       \/ Report(h, r)
       \/ \E x \in Objects : GetObject(h, x, r)
  \/ \E r \in Answers :
       \/ \E x \in Objects : CreateObject(h, x, r) \/ UpdateObject(h, x, r) \/ DeleteOwned(h, x, r)
  \/ FinishDeletion(h)
  \/ FindNoConfig(h)

Deliver(e) == IgnoreEvent(e) \/ \E h \in Handlers, r \in {"ok", "failed"} : HandleEvent(h, e, r)

Next ==
  \/ \E o \in Owners : UpdateSpec(o) \/ PublishReconcile(o) \/ DeleteOwner(o)
  \/ \E x \in Objects : Drift(x)
  \/ Crash
  \/ LoadConfig \/ RemoveConfig \/ Dereference
  \/ \E e \in Event : Deliver(e)
  \/ \E h \in Handlers : Step(h)

Spec == Init /\ [][Next]_vars

\* Go runs every callback, Pub/Sub keeps delivering some event of an owner that
\* has any, cls-backend publishes reconcile events of what is not deleted, and the
\* ControllerConfig is there and reconciled in the long run.
Fairness ==
  /\ WF_vars(LoadConfig)
  /\ \A h \in Handlers : WF_vars(Step(h))
  /\ \A o \in Owners : SF_vars(\E g \in Gens : Deliver(Changed(o, g)))
  /\ \A o \in Owners : WF_vars(PublishReconcile(o))

FairSpec == Spec /\ Fairness

-----------------------------------------------------------------------------
(* Properties.                                                               *)

TypeOK ==
  /\ spec \in [Owners -> Gens]
  /\ deleted \in SUBSET Owners
  /\ inbox \in SUBSET Event
  /\ object \in [Objects -> SUBSET Contents]
  /\ fresh \in SUBSET Handlers
  /\ pc \in [Handlers -> {"idle", "cluster", "get", "create", "update", "report",
                          "error", "delete"}]
  /\ event \in [Handlers -> SUBSET Event]
  /\ snap \in [Handlers -> 0 .. MaxGen]
  /\ at \in [Handlers -> Places]
  /\ todo \in [Handlers -> SUBSET Objects]
  /\ \A h \in Handlers : pc[h] = "idle" <=> event[h] = {}
  /\ \A h \in Handlers : \A e, f \in event[h] : e = f
  /\ made \in [Objects -> 0 .. MaxGen]
  /\ late \in SUBSET Owners
  /\ loaded \in BOOLEAN
  /\ missed \in SUBSET Owners
  /\ drifts \in 0 .. MaxDrift
  /\ faults \in 0 .. MaxFaults
  /\ crashes \in 0 .. MaxCrashes
  /\ removals \in 0 .. MaxRemovals

\* A report with Applied True is about a generation that every object of its owner
\* was really made for, that one or a newer: no lost write, conflict, refused
\* creation, late event or failure halfway through the resources passes for an
\* applied spec.
AppliedWasMade ==
  \A h \in Handlers : \A e \in event[h], x \in Objects :
    pc[h] = "report" /\ x.owner = e.owner => ReportOf(h, e).observed <= made[x]

\* An object disappears only when its nodepool or its cluster was deleted,
\* however late or often deletion events are handled.
LiveObjectsStay ==
  [][\A x \in Objects : object[x] # {} /\ object'[x] = {} => Gone(x.owner)]_vars

\* No event about o, or about its cluster's deletion, is left or being handled.
Quiet(o) ==
  /\ \A e \in inbox : e.owner # o /\ e # Deleted(Cluster)
  /\ \A h \in Handlers : \A e \in event[h] : e.owner # o /\ e # Deleted(Cluster)

\* When all events are handled no object of a deleted owner is left, through
\* crashes, repeated deliveries and events that arrive after the deletion; except
\* when a call failed, a handler was applying the owner as it was deleted, or one
\* without configuration ignored the deletion, which any process may do that has
\* just been started.
NothingLeft ==
  \A x \in Objects :
    Gone(x.owner) /\ Quiet(x.owner) /\ faults = 0 /\ x.owner \notin late \cup missed
      => object[x] = {}

\* This is so if the nested objects of the templates do not hide a kind.
DeletedIsGone == Listable => NothingLeft

\* Whatever the handlers do at the same time, fail at or are crashed in, the objects
\* are only what the contract allows: made from specs their owner had, removed only
\* with it, and never brought back by an event that is handled after the deletion.
Contract == INSTANCE OwnershipContract
KeepsOwnership == Contract!Spec

\* In the end every object that the loop over the templates reaches is the one of
\* the newest spec, whatever handlers of older specs, others and failed calls did to
\* it before, and although an error of one object leaves those after it undone, and
\* events are ignored without a configuration.  What others write to the newest object
\* where needsUpdate does not look stays, but only there.
NewestSpecWins ==
  \A x \in Objects :
    (\A i \in 1 .. x.resource : [owner |-> x.owner, resource |-> i] \in Rendered) =>
      (<>[](~Gone(x.owner)) =>
        <>[](object[x] \in {{spec[x.owner]}, {Altered(spec[x.owner])}}))

=============================================================================
