-------------------------- MODULE ConfigReconciler --------------------------
(***************************************************************************)
(* The ControllerConfig and its users.  The reconciler (controller.go,     *)
(* Reconcile) stores the configuration in a field of the controller and    *)
(* compiles its templates into a map of the template engine                *)
(* (template/engine.go, CompileTemplates); the event handlers read both    *)
(* several times while they handle one event.  Neither has a lock.         *)
(*                                                                         *)
(* A handler's reads of the field with no call between them are one step.  *)
(* What it does to Kubernetes is the subject of VersionedResource; here an *)
(* event is followed through the reads, the map and the report.            *)
(*                                                                         *)
(* Environment: the ControllerConfig is created, edited and deleted,       *)
(* cls-backend publishes reconcile events, calls fail, the process crashes *)
(* and is started again.                                                   *)
(***************************************************************************)
EXTENDS Integers, Sequences, FiniteSets

CONSTANTS
  Handlers,     \* concurrent Pub/Sub callbacks
  Names,        \* names of templates: of resources and of status conditions
  Contents,     \* what an operator may write into the ControllerConfig
  MaxVersion,   \* bound: times the ControllerConfig is written
  MaxEvents,    \* bound: unacknowledged events
  MaxFaults,    \* bound: calls that return an error
  MaxCrashes    \* bound: crashes, other than by a nil pointer

\* valid: validateControllerConfig accepts it.  broken: the templates that do not
\* compile.  meets: the cluster meets its preconditions.
ASSUME ContentsAssumption ==
  Contents \subseteq [resources : Seq(Names), conditions : Seq(Names),
                      broken : SUBSET Names, valid : BOOLEAN, meets : BOOLEAN]
ASSUME HandlersAssumption == IsFiniteSet(Handlers)
ASSUME LimitsAssumption ==
  /\ MaxVersion \in Nat
  /\ MaxEvents \in Nat
  /\ MaxFaults \in Nat
  /\ MaxCrashes \in Nat

VARIABLES
  stored,     \* the ControllerConfig in the API: {} or its version, content and status
  writes,     \* how often it was written
  queued,     \* the reconciler's work queue holds its name
  retry,      \* a delayed request (RequeueAfter) is outstanding
  loaded,     \* Controller.controllerConfig: {} (nil) or the configuration
  templates,  \* Engine.templates: per name 0 (none) or the version compiled
  rpc,        \* Reconcile's next step
  rconf,      \* the configuration Reconcile read
  compiled,   \* how many of its templates are compiled; -1 before the map is renewed
  waiting,    \* events that wait for a callback
  pc,         \* per handler: its next step
  resources,  \* per handler: the resources it ranges over and has still to process
  seen,       \* per handler: versions it took a decision from (0: none loaded)
  blank,      \* per handler: a condition was rendered without a template
  report,     \* {} or the last status report cls-backend accepted
  faults,     \* failed calls so far
  crashes     \* crashes so far

api        == <<stored, writes>>
reconciler == <<rpc, rconf, compiled>>
memory     == <<loaded, templates>>
handlers   == <<waiting, pc, resources, seen, blank>>
vars == <<api, queued, retry, memory, reconciler, handlers, report, faults, crashes>>

Versions == 1 .. MaxVersion
Config   == [version : Versions, content : Contents]
Object   == [version : Versions, content : Contents,
             phase : {"", "Valid", "Invalid"}, observed : 0 .. MaxVersion]
Status   == [applied : BOOLEAN, seen : SUBSET (0 .. MaxVersion), blank : BOOLEAN]

\* Broken variant: a map that was not made.
NilTemplates == << >>

NoTemplates == [n \in Names |-> 0]

\* Reads fail; a write may also take effect and answer with an error.
Call(r) ==
  \/ r = "ok" /\ UNCHANGED faults
  \/ r # "ok" /\ faults < MaxFaults /\ faults' = faults + 1
Took(r) == r # "failed"

Init ==
  /\ stored = {}
  /\ writes = 0
  /\ queued = FALSE
  /\ retry = FALSE
  /\ loaded = {}
  /\ templates = NoTemplates
  /\ rpc = "idle"
  /\ rconf = {}
  /\ compiled = -1
  /\ waiting = 0
  /\ pc = [h \in Handlers |-> "idle"]
  /\ resources = [h \in Handlers |-> <<>>]
  /\ seen = [h \in Handlers |-> {}]
  /\ blank = [h \in Handlers |-> FALSE]
  /\ report = {}
  /\ faults = 0
  /\ crashes = 0

-----------------------------------------------------------------------------
(* The environment.                                                          *)

\* kubectl apply: a new spec, the status kept.  The watch queues the name.
WriteConfig(content) ==
  /\ writes < MaxVersion
  /\ writes' = writes + 1
  /\ stored' = IF stored = {}
                 THEN {[version |-> writes + 1, content |-> content,
                        phase |-> "", observed |-> 0]}
                 ELSE {[s EXCEPT !.version = writes + 1, !.content = content] : s \in stored}
  /\ queued' = TRUE
  /\ UNCHANGED <<retry, memory, reconciler, handlers, report, faults, crashes>>

DeleteConfig ==
  /\ stored # {}
  /\ stored' = {}
  /\ queued' = TRUE
  /\ UNCHANGED <<writes, retry, memory, reconciler, handlers, report, faults, crashes>>

Busy == {h \in Handlers : pc[h] # "idle"}

PublishReconcile ==
  /\ waiting + Cardinality(Busy) < MaxEvents
  /\ waiting' = waiting + 1
  /\ UNCHANGED <<api, queued, retry, memory, reconciler, pc, resources, seen, blank,
                 report, faults, crashes>>

\* The process dies and is started again: nothing is loaded, unacknowledged
\* events come back, and the first List of the watch queues the configuration.
Restart ==
  /\ loaded' = {}
  /\ templates' = NoTemplates
  /\ rpc' = "idle"
  /\ rconf' = {}
  /\ compiled' = -1
  /\ queued' = (stored # {})
  /\ retry' = FALSE
  /\ waiting' = waiting + Cardinality(Busy)
  /\ pc' = [h \in Handlers |-> "idle"]
  /\ resources' = [h \in Handlers |-> <<>>]
  /\ seen' = [h \in Handlers |-> {}]
  /\ blank' = [h \in Handlers |-> FALSE]

Crash ==
  /\ crashes < MaxCrashes
  /\ crashes' = crashes + 1
  /\ Restart
  /\ UNCHANGED <<api, report, faults>>

-----------------------------------------------------------------------------
(* Reconcile.                                                                *)

AsConfig(objects) ==
  {[version |-> s.version, content |-> s.content] : s \in objects}

\* Broken variant: the templates of the conditions are not compiled.
ResourcesOnly(c) == c.content.resources

TemplatesOf(c) == c.content.resources \o c.content.conditions

\* Reconcile begins with a Get; an error other than NotFound is returned, and
\* the queue tries again.
Reconcile(r) ==
  /\ rpc = "idle"
  /\ queued
  /\ Call(r)
  /\ IF r = "ok"
       THEN /\ queued' = FALSE
            /\ rconf' = AsConfig(stored)
            /\ rpc' = "store"
       ELSE UNCHANGED <<queued, rconf, rpc>>
  /\ UNCHANGED <<api, retry, memory, compiled, handlers, report, crashes>>

\* NotFound clears the configuration; an invalid one leaves the old one loaded.
StoreConfig ==
  /\ rpc = "store"
  /\ \/ /\ rconf = {}
        /\ loaded' = {}
        /\ rpc' = "idle"
     \/ \E c \in rconf :
          IF c.content.valid
            THEN loaded' = {c} /\ rpc' = "compile"
            ELSE UNCHANGED loaded /\ rpc' = "invalid"
  /\ UNCHANGED <<api, queued, retry, templates, rconf, compiled, handlers, report,
                 faults, crashes>>

\* Broken variant: the templates are compiled into the map there is.
RenewNothing ==
  /\ rpc = "compile"
  /\ compiled = -1
  /\ compiled' = 0
  /\ UNCHANGED <<api, queued, retry, memory, rpc, rconf, handlers, report, faults, crashes>>

\* CompileTemplates first makes an empty map ...
RenewTemplates ==
  /\ rpc = "compile"
  /\ compiled = -1
  /\ templates' = NoTemplates
  /\ compiled' = 0
  /\ UNCHANGED <<api, queued, retry, loaded, rpc, rconf, handlers, report, faults, crashes>>

\* ... and then adds one template after the other, until one does not compile.
CompileTemplate ==
  /\ rpc = "compile"
  /\ \E c \in rconf :
       /\ compiled \in 0 .. Len(TemplatesOf(c)) - 1
       /\ LET name == TemplatesOf(c)[compiled + 1] IN
          IF name \in c.content.broken
            THEN rpc' = "invalid" /\ UNCHANGED <<templates, compiled>>
            ELSE /\ templates' = [templates EXCEPT ![name] = c.version]
                 /\ compiled' = compiled + 1
                 /\ UNCHANGED rpc
  /\ UNCHANGED <<api, queued, retry, loaded, rconf, handlers, report, faults, crashes>>

\* Broken variant: the error of the last status update is logged, not returned.
RequeueNever(answered) == FALSE

\* Reconcile returns the error of the last status update, so the name is queued.
Requeue(answered) == ~answered

\* updateConfigStatus: an optimistic write.  It fails when the object was written
\* or deleted since Reconcile read it; a change of the status wakes the watch.
UpdateConfigStatus(c, phase, r) ==
  LET current == \E s \in stored : s.version = c.version IN
  /\ Call(r)
  /\ stored' = IF Took(r) /\ current
                 THEN {[s EXCEPT !.phase = phase, !.observed = c.version] : s \in stored}
                 ELSE stored
  /\ queued' = (queued \/ stored' # stored
                \/ (phase = "Valid" /\ Requeue(r = "ok" /\ current)))
  /\ rpc' = "idle"
  /\ rconf' = {}
  /\ compiled' = -1
  /\ UNCHANGED <<writes, memory, handlers, report, crashes>>

\* The end of Reconcile: every template is compiled.
MarkValid(r) ==
  /\ rpc = "compile"
  /\ \E c \in rconf :
       compiled = Len(TemplatesOf(c)) /\ UpdateConfigStatus(c, "Valid", r)
  /\ UNCHANGED retry

\* The two early returns of Reconcile: the error of the status update is only
\* logged, and the request comes back after 30 s.
MarkInvalid(r) ==
  /\ rpc = "invalid"
  /\ \E c \in rconf : UpdateConfigStatus(c, "Invalid", r)
  /\ retry' = TRUE

RequeueAfter ==
  /\ retry
  /\ retry' = FALSE
  /\ queued' = TRUE
  /\ UNCHANGED <<api, memory, reconciler, handlers, report, faults, crashes>>

-----------------------------------------------------------------------------
(* A handler.                                                                *)

outside == <<api, retry, queued, memory, reconciler, crashes>>

Goto(h, label) == pc' = [pc EXCEPT ![h] = label]

\* What h decides next comes from these versions.
Sees(h, versions) == seen' = [seen EXCEPT ![h] = @ \cup versions]

Current == {c.version : c \in loaded}

\* The callback returns: Nack gives the message back.
Finish(h, acked) ==
  /\ Goto(h, "idle")
  /\ waiting' = IF acked THEN waiting ELSE waiting + 1
  /\ resources' = [resources EXCEPT ![h] = <<>>]
  /\ seen' = [seen EXCEPT ![h] = {}]
  /\ blank' = [blank EXCEPT ![h] = FALSE]

\* Nothing loaded: the event is ignored, and acknowledged.
HandleClusterEvent(h) ==
  /\ pc[h] = "idle"
  /\ waiting > 0
  /\ waiting' = waiting - 1
  /\ IF loaded = {} THEN UNCHANGED pc ELSE Goto(h, "preconditions")
  /\ UNCHANGED <<outside, resources, seen, blank, report, faults>>

\* evaluatePreconditions, after GetCluster: no configuration, no preconditions.
EvaluatePreconditions(h) ==
  /\ pc[h] = "preconditions"
  /\ IF loaded = {}
       THEN Sees(h, {0}) /\ Goto(h, "enter")
       ELSE /\ Sees(h, Current)
            /\ Goto(h, IF \A c \in loaded : c.content.meets THEN "enter" ELSE "error")
  /\ UNCHANGED <<outside, waiting, resources, blank, report, faults>>

\* getOrCreateAllResources checks the field, then asks for the target's client.
EnterResources(h) ==
  /\ pc[h] = "enter"
  /\ IF loaded = {}
       THEN Goto(h, "error") /\ UNCHANGED seen
       ELSE Sees(h, Current) /\ Goto(h, "range")
  /\ UNCHANGED <<outside, waiting, resources, blank, report, faults>>

\* A nil pointer dereference in a callback ends the process.
Dereference(Then) ==
  IF loaded # {}
    THEN Then /\ UNCHANGED <<outside, report, faults>>
    ELSE Restart /\ UNCHANGED <<api, report, faults, crashes>>

\* The resources are read from the field again; range evaluates them once.
RangeResources(h) ==
  /\ pc[h] = "range"
  /\ Dereference(/\ \E c \in loaded :
                      resources' = [resources EXCEPT ![h] = c.content.resources]
                 /\ Sees(h, Current)
                 /\ Goto(h, "render")
                 /\ UNCHANGED <<waiting, blank>>)

\* RenderResource looks the template up; without one the handler ends in
\* reportError.
RenderResource(h) ==
  /\ pc[h] = "render"
  /\ resources[h] # <<>>
  /\ LET version == templates[Head(resources[h])] IN
     IF version = 0
       THEN Goto(h, "error") /\ UNCHANGED <<seen, resources>>
       ELSE /\ Sees(h, {version})
            /\ resources' = [resources EXCEPT ![h] = Tail(@)]
            /\ UNCHANGED pc
  /\ UNCHANGED <<outside, waiting, blank, report, faults>>

\* evaluateAndReportStatus: without a configuration its error is a Nack.
EvaluateStatus(h) ==
  /\ pc[h] = "render"
  /\ resources[h] = <<>>
  /\ IF loaded = {}
       THEN Finish(h, FALSE)
       ELSE /\ Sees(h, Current)
            /\ Goto(h, "conditions")
            /\ UNCHANGED <<waiting, resources, blank>>
  /\ UNCHANGED <<outside, report, faults>>

\* The conditions, after the resources were refreshed: RenderStatusCondition
\* returns empty strings when it finds no template.
RenderConditions(h) ==
  /\ pc[h] = "conditions"
  /\ Dereference(\E c \in loaded :
       LET names == {c.content.conditions[i] : i \in DOMAIN c.content.conditions} IN
       /\ Sees(h, Current \cup ({templates[n] : n \in names} \ {0}))
       /\ blank' = [blank EXCEPT ![h] = \E n \in names : templates[n] = 0]
       /\ Goto(h, "report")
       /\ UNCHANGED <<waiting, resources>>)

\* A map read while CompileTemplates writes the map: the Go runtime may notice
\* and end the process.  It takes an overlap of microseconds, so it counts among
\* the crashes, whose number is bounded.
ConcurrentMapAccess(h) ==
  /\ crashes < MaxCrashes
  /\ crashes' = crashes + 1
  /\ rpc = "compile"
  /\ compiled >= 0
  /\ pc[h] = "conditions" \/ (pc[h] = "render" /\ resources[h] # <<>>)
  /\ Restart
  /\ UNCHANGED <<api, report, faults>>

\* GetCluster, GetClient or a Kubernetes call of a resource fails.
FailCall(h) ==
  /\ pc[h] \in {"preconditions", "range", "render"}
  /\ Call("failed")
  /\ Goto(h, "error")
  /\ UNCHANGED <<outside, waiting, resources, seen, blank, report>>

Post(h, applied, r) ==
  /\ Call(r)
  /\ report' = IF Took(r)
                 THEN {[applied |-> applied,
                        seen |-> IF applied THEN seen[h] ELSE {},
                        blank |-> applied /\ blank[h]]}
                 ELSE report
  /\ Finish(h, r = "ok")
  /\ UNCHANGED outside

ReportStatus(h, r) == pc[h] = "report" /\ Post(h, TRUE, r)

\* reportError and reportPreconditionFailure: Applied is False.
ReportError(h, r) == pc[h] = "error" /\ Post(h, FALSE, r)

-----------------------------------------------------------------------------
ReconcilerStep ==
  \/ StoreConfig \/ RenewTemplates \/ CompileTemplate
  \/ \E r \in {"ok", "failed"} : Reconcile(r)
  \/ \E r \in {"ok", "lost", "failed"} : MarkValid(r) \/ MarkInvalid(r)

HandlerStep(h) ==
  \/ EvaluatePreconditions(h) \/ EnterResources(h) \/ RangeResources(h)
  \/ RenderResource(h) \/ EvaluateStatus(h) \/ RenderConditions(h)
  \/ ConcurrentMapAccess(h) \/ FailCall(h)
  \/ \E r \in {"ok", "lost", "failed"} : ReportStatus(h, r) \/ ReportError(h, r)

Next ==
  \/ \E content \in Contents : WriteConfig(content)
  \/ DeleteConfig \/ PublishReconcile \/ Crash
  \/ ReconcilerStep \/ RequeueAfter
  \/ \E h \in Handlers : HandleClusterEvent(h) \/ HandlerStep(h)

Spec == Init /\ [][Next]_vars

\* controller-runtime works its queue off and keeps its timers, Go runs the
\* callbacks, Pub/Sub delivers, cls-backend keeps publishing reconcile events.
Fairness ==
  /\ WF_vars(ReconcilerStep)
  /\ WF_vars(RequeueAfter)
  /\ WF_vars(PublishReconcile)
  /\ WF_vars(\E h \in Handlers : HandleClusterEvent(h))
  /\ \A h \in Handlers : WF_vars(HandlerStep(h))

FairSpec == Spec /\ Fairness

-----------------------------------------------------------------------------
(* Properties.                                                               *)

TypeOK ==
  /\ stored \in SUBSET Object
  /\ writes \in 0 .. MaxVersion
  /\ queued \in BOOLEAN
  /\ retry \in BOOLEAN
  /\ loaded \in SUBSET Config
  /\ templates \in [Names -> 0 .. MaxVersion]
  /\ rpc \in {"idle", "store", "compile", "invalid"}
  /\ rconf \in SUBSET Config
  /\ compiled \in Nat \cup {-1}
  /\ waiting \in Nat
  /\ pc \in [Handlers -> {"idle", "preconditions", "enter", "range", "render",
                          "conditions", "report", "error"}]
  /\ resources \in [Handlers -> Seq(Names)]
  /\ seen \in [Handlers -> SUBSET (0 .. MaxVersion)]
  /\ blank \in [Handlers -> BOOLEAN]
  /\ report \in SUBSET Status
  /\ faults \in 0 .. MaxFaults
  /\ crashes \in 0 .. MaxCrashes

Settled == rpc = "idle" /\ ~queued /\ ~retry

\* The configuration a process runs with when the reconciler has nothing left to
\* do is the one in the API, with all its templates, and its status says Valid;
\* when there is none in the API, none is loaded.  Whatever edits, deletions,
\* conflicts, failed calls and restarts came before.
SettledConfig ==
  Settled =>
    /\ loaded = AsConfig(stored)
    /\ \A s \in stored :
         /\ s.phase = "Valid" /\ s.observed = s.version
         /\ \A i \in DOMAIN TemplatesOf(s) : templates[TemplatesOf(s)[i]] = s.version

\* Reconcile has stored a configuration and not yet made the map for its templates.
Renewing == rpc = "compile" /\ compiled = -1

\* The engine never has templates of two versions at once; and beside a loaded
\* configuration it has templates of this one only, or none: older ones are there just
\* until the map is made anew, and newer ones never.  In spite of edits that arrive at
\* any step of Reconcile, of deletions, rejected configurations and templates that do
\* not compile.
TemplatesOfOneVersion ==
  /\ \A m, n \in Names : templates[m] # 0 /\ templates[n] # 0 => templates[m] = templates[n]
  /\ \A c \in loaded, n \in Names :
       \/ templates[n] \in {0, c.version}
       \/ Renewing /\ templates[n] < c.version

Serves(v) ==
  \E s \in stored :
    s.version = v /\ s.content.valid /\ s.content.broken = {} /\ s.content.meets

\* A good configuration that is not changed any more ends up being the only one
\* whose resources and conditions are reported, after whatever half-compiled
\* maps, panics and lost reports.
LatestConfigServes ==
  \A v \in Versions :
    <>[]Serves(v) => <>[](report = {[applied |-> TRUE, seen |-> {v}, blank |-> FALSE]})
=============================================================================
