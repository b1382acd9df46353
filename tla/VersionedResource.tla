------------------------- MODULE VersionedResource -------------------------
(***************************************************************************)
(* The versioned resource protocol of the controller: what the event       *)
(* handlers do to the Jobs (or Pods) of one cluster, one Kubernetes or     *)
(* backend call per action.  src/internal/controller/resource_manager.go,  *)
(* getOrCreateVersionedResource and the functions it calls, entered from   *)
(* HandleClusterEvent and left through ReportStatus.                       *)
(*                                                                         *)
(* Pub/Sub runs the callbacks concurrently, so several handlers (Workers)  *)
(* may be between two calls at once, each with what it read earlier: the   *)
(* cluster's generation, a listed Job, the names it has still to delete.   *)
(*                                                                         *)
(* Environment: cls-backend moves the cluster to the next generation and   *)
(* publishes events, Jobs finish, the TTL controller removes finished      *)
(* Jobs, calls fail before or after they took effect, a process crashes.   *)
(***************************************************************************)
EXTENDS Integers, FiniteSets

CONSTANTS
  Workers,            \* concurrent Pub/Sub callbacks
  Controllers,        \* controller deployments that act on the cluster
  ControllerOf,       \* the deployment a callback runs in
  VersionInterval,    \* resourceManagement.versionInterval, in ticks
  NewGenerationOnly,  \* resourceManagement.newGenerationOnly
  KeepVersions,       \* resourceManagement.keepVersions
  Timeout,            \* the context deadline of getOrCreateAllResources, in ticks
  TTLAfterFinished,   \* whether the template sets ttlSecondsAfterFinished
  MaxGen,             \* bound: generations of the cluster
  MaxTime,            \* bound: ticks of the clock
  MayCrash,           \* bound: controllers whose process may crash
  MaxFaults           \* bound: calls that return an error though their context lives

ASSUME ControllersAssumption ==
  ControllerOf \in [Workers -> Controllers] /\ MayCrash \subseteq Controllers
ASSUME PolicyAssumption ==
  /\ VersionInterval \in Nat
  /\ NewGenerationOnly \in BOOLEAN
  /\ KeepVersions \in Nat \ {0}
  /\ Timeout \in Nat \ {0}
  /\ TTLAfterFinished \in BOOLEAN
ASSUME BoundsAssumption ==
  /\ MaxGen \in Nat \ {0}
  /\ MaxTime \in Nat
  /\ MaxFaults \in Nat

VARIABLES
  gen,       \* the cluster's generation at cls-backend
  inbox,     \* per controller: the generations of its unacknowledged events
  now,       \* the clock
  jobs,      \* the Jobs in the cluster's namespace
  status,    \* per controller: {} or the last status cls-backend accepted
  faults,    \* failed calls so far
  pc,        \* per worker: the call its handler makes next
  egen,      \* per worker: event.Generation
  cgen,      \* per worker: cluster.Generation, as GetCluster returned it
  stamp,     \* per worker: when its context and its resource's name were made
  todo,      \* per worker: listed Jobs it has still to delete
  held       \* per worker: {} or the Job it found, refreshed or created

backend == <<gen, inbox, status>>
locals  == <<egen, cgen, stamp, todo, held>>
vars    == <<gen, inbox, now, jobs, status, faults, pc, locals>>

Gens  == 1 .. MaxGen
Times == 0 .. MaxTime
Job   == [controller : Controllers, gen : Gens, stamp : Times,
          created : Times, done : BOOLEAN]
Report == [observed : Gens, resource : 0 .. MaxGen]

\* The template names a Job after its resource, the generation and the second
\* it was rendered in; Kubernetes identifies it by that name.
Name(j) == <<j.controller, j.gen, j.stamp>>

\* Broken variant: the cluster-generation label left out of the selector.
OfAnyGeneration(g) == jobs

\* The label selectors: cluster-id alone, or with cluster-generation.  Neither
\* selects on the controller label.
OfCluster       == jobs
OfGeneration(g) == {j \in jobs : j.gen = g}

\* Broken variant: no generation is outdated.
OutdatedNever(j, g) == FALSE

\* cleanupOldGenerations compares the generation label with the cluster it was given.
Outdated(j, g) == j.gen < g

\* isResourceRunning: no Complete or Failed condition.
Running(j) == ~j.done

\* The versioned resource the handler of w renders.
Rendered(w) == [controller |-> ControllerOf[w], gen |-> cgen[w],
                stamp |-> stamp[w], created |-> now, done |-> FALSE]

-----------------------------------------------------------------------------
(* Calls.  "ok": done and answered.  "lost": done, but the answer is an      *)
(* error.  "failed": an error and nothing done.                              *)
Reads   == {"ok", "failed"}
Writes  == {"ok", "lost", "failed"}
Took(r) == r # "failed"

\* A call with a background context: it fails only by a fault.
Call(r) ==
  \/ r = "ok" /\ UNCHANGED faults
  \/ r # "ok" /\ faults < MaxFaults /\ faults' = faults + 1

\* Broken variants: the calls use a background context; the context is cancelled
\* before the first call.
ExpiredNever(w)  == FALSE
ExpiredAtOnce(w) == now >= stamp[w]

\* The 120 s context of getOrCreateAllResources.
Expired(w) == now - stamp[w] >= Timeout

\* A call with that context: past the deadline it fails without being sent.
TimedCall(w, r) ==
  IF Expired(w) THEN r = "failed" /\ UNCHANGED faults ELSE Call(r)

\* Delete is by name: no UID or resourceVersion precondition.
Delete(j) == {k \in jobs : Name(k) # Name(j)}

Goto(w, label) == pc' = [pc EXCEPT ![w] = label]

Init ==
  /\ gen = 1
  /\ inbox = [c \in Controllers |-> {1}]
  /\ now = 0
  /\ jobs = {}
  /\ status = [c \in Controllers |-> {}]
  /\ faults = 0
  /\ pc = [w \in Workers |-> "idle"]
  /\ egen = [w \in Workers |-> 0]
  /\ cgen = [w \in Workers |-> 0]
  /\ stamp = [w \in Workers |-> 0]
  /\ todo = [w \in Workers |-> {}]
  /\ held = [w \in Workers |-> {}]

-----------------------------------------------------------------------------
(* The environment.                                                          *)

\* cls-backend stores a new spec and publishes cluster.updated.
UpdateSpec ==
  /\ gen < MaxGen
  /\ gen' = gen + 1
  /\ inbox' = [c \in Controllers |-> inbox[c] \cup {gen + 1}]
  /\ UNCHANGED <<now, jobs, status, faults, pc, locals>>

\* cls-backend publishes the periodic cluster.reconcile; at most one event of a
\* generation is outstanding (a named bound).
PublishReconcile(c) ==
  /\ gen \notin inbox[c]
  /\ inbox' = [inbox EXCEPT ![c] = @ \cup {gen}]
  /\ UNCHANGED <<gen, now, jobs, status, faults, pc, locals>>

FinishJob(j) ==
  /\ Running(j)
  /\ jobs' = (jobs \ {j}) \cup {[j EXCEPT !.done = TRUE]}
  /\ UNCHANGED <<backend, now, faults, pc, locals>>

RemoveFinishedJob(j) ==
  /\ TTLAfterFinished
  /\ ~Running(j)
  /\ jobs' = jobs \ {j}
  /\ UNCHANGED <<backend, now, faults, pc, locals>>

Tick ==
  /\ now < MaxTime
  /\ now' = now + 1
  /\ UNCHANGED <<backend, jobs, faults, pc, locals>>

\* The deployment of c dies and is restarted: its handlers are gone, and their
\* messages were neither acknowledged nor refused.
Crash(c) ==
  LET its(w) == ControllerOf[w] = c IN
  /\ c \in MayCrash
  /\ \E w \in Workers : its(w) /\ pc[w] # "idle"
  /\ pc' = [w \in Workers |-> IF its(w) THEN "idle" ELSE pc[w]]
  /\ egen' = [w \in Workers |-> IF its(w) THEN 0 ELSE egen[w]]
  /\ cgen' = [w \in Workers |-> IF its(w) THEN 0 ELSE cgen[w]]
  /\ stamp' = [w \in Workers |-> IF its(w) THEN 0 ELSE stamp[w]]
  /\ todo' = [w \in Workers |-> IF its(w) THEN {} ELSE todo[w]]
  /\ held' = [w \in Workers |-> IF its(w) THEN {} ELSE held[w]]
  /\ UNCHANGED <<backend, now, jobs, faults>>

-----------------------------------------------------------------------------
(* A handler, call by call.                                                  *)

\* A message is delivered (possibly again, and to a second callback), and
\* HandleClusterEvent fetches the cluster.  Created, updated and reconcile
\* events take the same path.
HandleClusterEvent(w, e, r) ==
  /\ pc[w] = "idle"
  /\ e \in inbox[ControllerOf[w]]
  /\ Call(r)
  /\ egen' = [egen EXCEPT ![w] = e]
  /\ IF r = "ok"
       THEN cgen' = [cgen EXCEPT ![w] = gen] /\ Goto(w, "render")
       ELSE UNCHANGED cgen /\ Goto(w, "error")
  /\ UNCHANGED <<backend, now, jobs, stamp, todo, held>>

\* getOrCreateAllResources makes the context, RenderResource the name, and
\* cleanupOldGenerations lists the cluster's Jobs and picks the older ones.
\* Its error is only logged.
ListOldGenerations(w, r) ==
  /\ pc[w] = "render"
  /\ Call(r)
  /\ stamp' = [stamp EXCEPT ![w] = now]
  /\ IF r = "ok"
       THEN /\ todo' = [todo EXCEPT ![w] = {j \in OfCluster : Outdated(j, cgen[w])}]
            /\ Goto(w, "sweep")
       ELSE UNCHANGED todo /\ Goto(w, "find")
  /\ UNCHANGED <<backend, now, jobs, egen, cgen, held>>

\* One deletion of a loop over listed Jobs; its error is only logged.
DeleteListed(w, j, r) ==
  /\ j \in todo[w]
  /\ TimedCall(w, r)
  /\ jobs' = IF Took(r) THEN Delete(j) ELSE jobs
  /\ todo' = [todo EXCEPT ![w] = @ \ {j}]
  /\ UNCHANGED <<backend, now, pc, egen, cgen, stamp, held>>

DeleteOldGeneration(w, j, r) == pc[w] = "sweep" /\ DeleteListed(w, j, r)

\* findResourceForGeneration lists the Jobs of the generation and takes the
\* first.  No Job and a failed List look the same to the caller.
FindResourceForGeneration(w, r) ==
  /\ pc[w] = "find" \/ (pc[w] = "sweep" /\ todo[w] = {})
  /\ TimedCall(w, r)
  /\ \/ \E j \in OfGeneration(cgen[w]) :
          /\ r = "ok"
          /\ held' = [held EXCEPT ![w] = {j}]
          /\ Goto(w, "refresh")
     \/ /\ r # "ok" \/ OfGeneration(cgen[w]) = {}
        /\ UNCHANGED held
        /\ Goto(w, "create")
  /\ UNCHANGED <<backend, now, jobs, egen, cgen, stamp, todo>>

\* Broken variant: the interval is not compared.
ShouldRecreateAlways(j) == ~NewGenerationOnly

\* shouldRecreateVersionedResource, asked only of a completed resource.
ShouldRecreate(j) == ~NewGenerationOnly /\ now - j.created >= VersionInterval

\* What the last Get of j returned: the Job of that name, or j itself when there
\* is none any more or the Get failed.
Refreshed(j, r) ==
  LET found == {k \in jobs : Name(k) = Name(j)} IN
  IF r = "ok" /\ found # {} THEN found ELSE {j}

\* The Get of findResourceForGeneration, and the decision on what it returned:
\* keep a running or recent Job, or delete and recreate it.
RefreshFound(w, r) ==
  /\ pc[w] = "refresh"
  /\ TimedCall(w, r)
  /\ \E j \in held[w] : \E k \in Refreshed(j, r) :
       /\ held' = [held EXCEPT ![w] = {k}]
       /\ Goto(w, IF Running(k) \/ ~ShouldRecreate(k) THEN "status" ELSE "recreate")
  /\ UNCHANGED <<backend, now, jobs, egen, cgen, stamp, todo>>

\* The deletion of the completed Job; its error is only logged.
DeleteCompleted(w, r) ==
  /\ pc[w] = "recreate"
  /\ TimedCall(w, r)
  /\ \E j \in held[w] : jobs' = IF Took(r) THEN Delete(j) ELSE jobs
  /\ held' = [held EXCEPT ![w] = {}]
  /\ Goto(w, "create")
  /\ UNCHANGED <<backend, now, egen, cgen, stamp, todo>>

\* Create: a name already taken is an error, like a failed call, and ends the
\* handler through reportError.
CreateVersionedResource(w, r) ==
  LET new   == Rendered(w)
      taken == \E j \in jobs : Name(j) = Name(new)
  IN
  /\ pc[w] = "create"
  /\ TimedCall(w, r)
  /\ jobs' = IF Took(r) /\ ~taken THEN jobs \cup {new} ELSE jobs
  /\ IF r = "ok" /\ ~taken
       THEN held' = [held EXCEPT ![w] = {new}] /\ Goto(w, "trim")
       ELSE UNCHANGED held /\ Goto(w, "error")
  /\ UNCHANGED <<backend, now, egen, cgen, stamp, todo>>

\* The completed Jobs cleanupCompletedVersions may delete: all but the newest
\* KeepVersions (equally old ones end up in any order).
Trimmed(listed) ==
  LET completed == {j \in listed : ~Running(j)} IN
  IF Cardinality(completed) <= KeepVersions
    THEN {{}}
    ELSE {completed \ kept : kept \in
           {K \in SUBSET completed :
              /\ Cardinality(K) = KeepVersions
              /\ \A k \in K, j \in completed \ K : k.created >= j.created}}

\* cleanupCompletedVersions lists the generation again; its error is only logged.
ListCompletedVersions(w, r) ==
  /\ pc[w] = "trim"
  /\ TimedCall(w, r)
  /\ IF r = "ok"
       THEN \E old \in Trimmed(OfGeneration(cgen[w])) :
              todo' = [todo EXCEPT ![w] = old]
       ELSE UNCHANGED todo
  /\ Goto(w, "trimming")
  /\ UNCHANGED <<backend, now, jobs, egen, cgen, stamp, held>>

DeleteOldVersion(w, j, r) == pc[w] = "trimming" /\ DeleteListed(w, j, r)

\* evaluateAndReportStatus reads the Job once more, without a deadline.
RefreshForStatus(w, r) ==
  /\ pc[w] = "status" \/ (pc[w] = "trimming" /\ todo[w] = {})
  /\ Call(r)
  /\ \E j \in held[w] : \E k \in Refreshed(j, r) :
       held' = [held EXCEPT ![w] = {k}]
  /\ Goto(w, "report")
  /\ UNCHANGED <<backend, now, jobs, egen, cgen, stamp, todo>>

\* The callback returns: Ack after a status report the backend confirmed, Nack
\* after one that failed.
Return(w, r) ==
  LET c == ControllerOf[w] IN
  /\ inbox' = IF r = "ok" THEN [inbox EXCEPT ![c] = @ \ {egen[w]}] ELSE inbox
  /\ Goto(w, "idle")
  /\ egen' = [egen EXCEPT ![w] = 0]
  /\ cgen' = [cgen EXCEPT ![w] = 0]
  /\ stamp' = [stamp EXCEPT ![w] = 0]
  /\ todo' = [todo EXCEPT ![w] = {}]
  /\ held' = [held EXCEPT ![w] = {}]

\* Broken variant: observedGeneration 0, as reportNodePoolError sends it.
ObservedNothing(w) == 0

\* The update's observedGeneration is event.Generation.
Observed(w) == egen[w]

Post(w, resource, r) ==
  status' = IF Took(r)
              THEN [status EXCEPT ![ControllerOf[w]] =
                      {[observed |-> Observed(w), resource |-> resource]}]
              ELSE status

ReportStatus(w, r) ==
  /\ pc[w] = "report"
  /\ Call(r)
  /\ \E j \in held[w] : Post(w, j.gen, r)
  /\ Return(w, r)
  /\ UNCHANGED <<gen, now, jobs>>

\* reportError: Applied is False and no resource is described (resource = 0).
\* When the report is accepted the message is acknowledged, not retried.
ReportError(w, r) ==
  /\ pc[w] = "error"
  /\ Call(r)
  /\ Post(w, 0, r)
  /\ Return(w, r)
  /\ UNCHANGED <<gen, now, jobs>>

-----------------------------------------------------------------------------
Step(w) ==
  \/ \E r \in Reads :
       \/ ListOldGenerations(w, r)
       \/ FindResourceForGeneration(w, r)
       \/ RefreshFound(w, r)
       \/ ListCompletedVersions(w, r)
       \/ RefreshForStatus(w, r)
  \/ \E r \in Writes :
       \/ \E j \in todo[w] : DeleteOldGeneration(w, j, r) \/ DeleteOldVersion(w, j, r)
       \/ DeleteCompleted(w, r)
       \/ CreateVersionedResource(w, r)
       \/ ReportStatus(w, r)
       \/ ReportError(w, r)

Deliver(w) == \E e \in Gens, r \in Reads : HandleClusterEvent(w, e, r)

Environment ==
  \/ UpdateSpec
  \/ \E c \in Controllers : PublishReconcile(c) \/ Crash(c)
  \/ \E j \in jobs : FinishJob(j) \/ RemoveFinishedJob(j)
  \/ Tick

Next == Environment \/ \E w \in Workers : Deliver(w) \/ Step(w)

Spec == Init /\ [][Next]_vars

\* Go runs every callback, Pub/Sub redelivers what was not acknowledged, and
\* cls-backend keeps publishing reconcile events; the processes crash as often as they
\* like, but not for ever.
Fairness ==
  /\ \A w \in Workers : WF_vars(Step(w))
  /\ \A c \in Controllers :
       /\ WF_vars(\E w \in Workers : ControllerOf[w] = c /\ Deliver(w))
       /\ WF_vars(PublishReconcile(c))
       /\ <>[][~Crash(c)]_vars

FairSpec == Spec /\ Fairness

-----------------------------------------------------------------------------
(* Properties.                                                               *)

TypeOK ==
  /\ gen \in Gens
  /\ inbox \in [Controllers -> SUBSET Gens]
  /\ now \in Times
  /\ jobs \in SUBSET Job
  /\ status \in [Controllers -> SUBSET Report]
  /\ faults \in 0 .. MaxFaults
  /\ pc \in [Workers -> {"idle", "render", "sweep", "find", "refresh", "recreate",
                         "create", "trim", "trimming", "status", "report", "error"}]
  /\ egen \in [Workers -> 0 .. MaxGen]
  /\ cgen \in [Workers -> 0 .. MaxGen]
  /\ stamp \in [Workers -> Times]
  /\ todo \in [Workers -> SUBSET Job]
  /\ held \in [Workers -> SUBSET Job]

Removed(j) == \A k \in jobs' : Name(k) # Name(j)

\* w takes a step of a loop that deletes listed Jobs.
Deletes(w) == todo'[w] # todo[w] /\ pc'[w] = pc[w]

\* A running Job of the current generation is never removed, whatever the
\* handlers read before: cleanupOldGenerations removes older generations only,
\* and the Job getOrCreateVersionedResource deletes to recreate it is still
\* completed when the deletion arrives.  The loop of cleanupCompletedVersions
\* deletes by name what it listed, and a slow handler can have made that Job
\* again under the same name, after the listed one was removed; but it takes both
\* handlers' deadlines, so no Job is in danger for longer than twice the deadline.
RunningJobSurvives ==
  [][\A j \in jobs :
       Running(j) /\ j.gen = gen /\ Removed(j) =>
         /\ now < j.stamp + 2 * Timeout
         /\ \E w \in Workers : pc[w] = "trimming" /\ Deletes(w)]_vars

\* A status with Applied True describes a resource at least as new as the
\* generation it claims to have observed: no report of an older Job's state is
\* passed off as the state of a newer spec.
ReportsCurrent ==
  \A c \in Controllers : \A s \in status[c] :
    s.resource # 0 => s.observed <= s.resource

\* Whatever is lost, repeated or delayed, the last generation gets its Job.
GenerationServed ==
  \A g \in Gens : gen = g ~> gen > g \/ \E j \in jobs : j.gen = g

\* In the end no Job of an older generation is left, also when a slow handler
\* created one after the newer generation's Job.
OldGenerationsSwept == <>[](\A j \in jobs : j.gen = gen)

-----------------------------------------------------------------------------
(* What the documents and comments say and the code does not do.             *)

\* DESIGN.md:1090, "One active resource per cluster at any time".
OneActive == \A j, k \in jobs : Running(j) /\ Running(k) => j = k

\* resource_manager.go:1027, "only delete resources we created".
DeletesOnlyOwn ==
  [][\A w \in Workers : pc'[w] # pc[w] \/ Deletes(w) =>
       \A j \in jobs : Removed(j) => j.controller = ControllerOf[w]]_vars
=============================================================================
