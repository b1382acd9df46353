--------------------------- MODULE VersionResolution ---------------------------
(***************************************************************************)
(* Two deployments of the program that meet in cls-backend: the version    *)
(* resolution controller, which resolves spec.release of a cluster with    *)
(* the published graph and reports the release as metadata of its status,  *)
(* and a controller that reads this status, has preconditions on it and    *)
(* renders the release into its resource (controller.go, HandleClusterEvent *)
(* with enrichClusterWithControllerStatuses and handleVersionResolution;   *)
(* cincinnati/client.go).                                                  *)
(*                                                                         *)
(* A release is a version with the channel it was found in; the image is   *)
(* known by them.  The consumer has one in-place resource.  Handlers run   *)
(* concurrently, one call per action.                                      *)
(*                                                                         *)
(* Environment: the spec changes, versions are published, calls fail or    *)
(* are answered too late, either process crashes.                          *)
(***************************************************************************)
EXTENDS Preconditions, Integers, FiniteSets

CONSTANTS
  Resolvers,   \* callbacks of the version resolution controller
  Consumers,   \* callbacks of the other one
  ReleaseOf,   \* per generation: the version and channel group of its spec
  Minor,       \* per version: its major.minor, {} if it has none
  Published,   \* the releases that are published from the start
  Upcoming,    \* those that may be published later
  Rules,       \* per deployment: its preconditions
  MaxGen,      \* bound: generations of the spec
  MaxFaults    \* bound: failed calls and crashes

Handlers == Resolvers \cup Consumers
Deployments == {"resolver", "consumer"}
Gens == 1 .. MaxGen
Versions == DOMAIN Minor
Groups   == {ReleaseOf[g].channelGroup : g \in Gens} \cup {"stable"}

ASSUME HandlersAssumption == Resolvers \cap Consumers = {}
ASSUME ReleaseAssumption ==
  /\ \A g \in Gens : ReleaseOf[g].version \in Versions
  /\ \A v \in Versions : \A m, n \in Minor[v] : m = n
  /\ Published \cup Upcoming \subseteq
       [version : Versions, channel : Groups \X UNION {Minor[v] : v \in Versions}]
\* A rule's field is split at its dots: there is always one part.
ASSUME RulesAssumption ==
  \A d \in Deployments : \A rule \in Rules[d] : rule.field \in Seq(STRING) \ {<<>>}
ASSUME LimitsAssumption ==
  /\ MaxGen \in Nat \ {0}
  /\ MaxFaults \in Nat

VARIABLES
  gen,      \* the cluster's generation in cls-backend
  graph,    \* the releases that are published
  status,   \* {} or the resolver's status that cls-backend keeps
  inbox,    \* per deployment: generations of the events Pub/Sub still has
  object,   \* {} or the release in the consumer's resource
  fresh,    \* handlers whose resourceVersion is that of the resource
  pc,       \* per handler: its next step
  event,    \* per handler: {} or the generation of its event
  snap,     \* per handler: the generation it fetched
  seen,     \* per handler: {} or the resolver's status it fetched
  faults    \* failed calls and crashes so far

backend  == <<gen, graph, status>>
target   == <<object, fresh>>
handlers == <<pc, event, snap, seen>>
vars == <<backend, inbox, target, handlers, faults>>

Minors   == UNION {Minor[v] : v \in Versions}
Channels == Groups \X Minors
Releases == [version : Versions, channel : Channels]
Status   == [observed : Gens, release : SUBSET Releases]

DeploymentOf(h) == IF h \in Resolvers THEN "resolver" ELSE "consumer"

Call(r) ==
  \/ r = "ok" /\ UNCHANGED faults
  \/ r # "ok" /\ faults < MaxFaults /\ faults' = faults + 1
Took(r) == r # "failed"

Idle == [h \in Handlers |-> "idle"]
None == [h \in Handlers |-> {}]
Unread == [h \in Handlers |-> 0]

Init ==
  /\ gen = 1
  /\ graph = Published
  /\ status = {}
  /\ inbox = [d \in Deployments |-> {1}]
  /\ object = {}
  /\ fresh = {}
  /\ pc = Idle
  /\ event = None
  /\ snap = Unread
  /\ seen = None
  /\ faults = 0

-----------------------------------------------------------------------------
(* The environment.                                                          *)

\* Every deployment has a subscription of its own to the events.
Publish(g) == inbox' = [d \in Deployments |-> inbox[d] \cup {g}]

UpdateSpec ==
  /\ gen < MaxGen
  /\ gen' = gen + 1
  /\ Publish(gen + 1)
  /\ UNCHANGED <<graph, status, target, handlers, faults>>

PublishReconcile ==
  /\ Publish(gen)
  /\ UNCHANGED <<backend, target, handlers, faults>>

PublishRelease(n) ==
  /\ graph' = graph \cup {n}
  /\ UNCHANGED <<gen, status, inbox, target, handlers, faults>>

Crash(d) ==
  /\ faults < MaxFaults
  /\ faults' = faults + 1
  /\ LET dead == {h \in Handlers : DeploymentOf(h) = d}
     IN /\ pc' = [h \in Handlers |-> IF h \in dead THEN "idle" ELSE pc[h]]
        /\ event' = [h \in Handlers |-> IF h \in dead THEN {} ELSE event[h]]
        /\ snap' = [h \in Handlers |-> IF h \in dead THEN 0 ELSE snap[h]]
        /\ seen' = [h \in Handlers |-> IF h \in dead THEN {} ELSE seen[h]]
        /\ fresh' = fresh \ dead
  /\ UNCHANGED <<backend, inbox, object>>

-----------------------------------------------------------------------------
(* What both deployments do with an event.                                   *)

Goto(h, label) == pc' = [pc EXCEPT ![h] = label]

\* GetCluster; it drops the status cls-backend sends along.
HandleClusterEvent(h, g, r) ==
  /\ pc[h] = "idle"
  /\ g \in inbox[DeploymentOf(h)]
  /\ Call(r)
  /\ event' = [event EXCEPT ![h] = {g}]
  /\ IF r = "ok"
       THEN snap' = [snap EXCEPT ![h] = gen] /\ Goto(h, "enrich")
       ELSE Goto(h, "error") /\ UNCHANGED snap
  /\ UNCHANGED <<backend, inbox, target, seen>>

VersionPath  == <<"spec", "release", "version">>
StatusPath   == <<"status", "controller_statuses", "resolver">>
ImagePath    == StatusPath \o <<"metadata", "release_image">>
ObservedPath == StatusPath \o <<"observed_generation">>

\* The part of clusterData that needs no status.
SpecData ==
  [g \in Gens |->
     [path \in {<<"generation">>, VersionPath} |->
        IF path = VersionPath THEN Json(ReleaseOf[g].version) ELSE Int64(g)]]

\* The statuses' part of it.
StatusData(s) ==
  LET images == UNION {x.release : x \in s}
  IN [path \in {ObservedPath : x \in s} \cup {ImagePath : n \in images} |->
        IF path = ObservedPath THEN Json((CHOOSE x \in s : TRUE).observed)
                               ELSE Json(CHOOSE n \in images : TRUE)]

\* clusterData of evaluatePreconditions.
ClusterData(g, s) ==
  LET spec     == SpecData[g]
      reported == StatusData(s)
  IN [path \in DOMAIN spec \cup DOMAIN reported |->
        IF path \in DOMAIN spec THEN spec[path] ELSE reported[path]]

\* Broken variant: it looks at the statuses of the moment.
FailedNow(g, rules) == NotMet(ClusterData(g, status), rules)

\* getFailedPreconditions looks at the cluster without its status.
FailedPreconditions(g, rules) == NotMet(SpecData[g], rules)

\* The answer of cls-backend, or an error.
GetClusterStatus(r) == IF r = "ok" THEN status ELSE {}

\* enrichClusterWithControllerStatuses, whose errors are ignored, and
\* evaluatePreconditions.  Afterwards only templates look at the statuses, and only
\* the resolver at the spec.
EnrichCluster(h, r) ==
  /\ pc[h] = "enrich"
  /\ Call(r)
  /\ LET s   == GetClusterStatus(r)
         met == AllMet(ClusterData(snap[h], s), Rules[DeploymentOf(h)])
     IN /\ seen' = [seen EXCEPT ![h] = IF met /\ h \in Consumers THEN s ELSE {}]
        /\ snap' = [snap EXCEPT ![h] = IF met /\ h \in Consumers THEN 0 ELSE @]
        /\ Goto(h, IF ~met THEN "unmet" ELSE IF h \in Resolvers THEN "resolve" ELSE "get")
  /\ UNCHANGED <<backend, inbox, target, event>>

\* Broken variant: what the callback handled is not forgotten.
ReturnHolding(h, acked) ==
  /\ inbox' = [inbox EXCEPT ![DeploymentOf(h)] = IF acked THEN @ \ event[h] ELSE @]
  /\ Goto(h, "idle")
  /\ UNCHANGED <<event, snap, seen, fresh>>

\* The callback returns: Ack removes the event.
Return(h, acked) ==
  /\ inbox' = [inbox EXCEPT ![DeploymentOf(h)] = IF acked THEN @ \ event[h] ELSE @]
  /\ Goto(h, "idle")
  /\ event' = [event EXCEPT ![h] = {}]
  /\ snap' = [snap EXCEPT ![h] = 0]
  /\ seen' = [seen EXCEPT ![h] = {}]
  /\ fresh' = fresh \ {h}

\* Broken variant: the generation that was fetched is left out, the newest taken.
ObservedNow(h) == {gen}

\* Every report of a cluster carries the generation of the event.
Observed(h) == event[h]

-----------------------------------------------------------------------------
(* The version resolution controller.                                        *)

\* deriveChannel; stable is the default group.
DeriveChannel(g) ==
  LET group == IF ReleaseOf[g].channelGroup = "" THEN "stable" ELSE ReleaseOf[g].channelGroup
  IN {<<group, m>> : m \in Minor[ReleaseOf[g].version]}

\* The release of generation g, if its version has a channel.
Release(g) == {[version |-> ReleaseOf[g].version, channel |-> c] : c \in DeriveChannel(g)}

\* Broken variant: any node of the graph will do.
ResolvedUnseen(g) == Release(g)

\* ResolveVersion on the graph of the channel.
Resolved(g) == Release(g) \cap graph

\* handleVersionResolution up to its report; without a version there is none.
ResolveVersion(h, r) ==
  /\ pc[h] = "resolve"
  /\ IF ReleaseOf[snap[h]].version = ""
       THEN r = "ok" /\ Return(h, TRUE) /\ UNCHANGED <<object, faults>>
       ELSE /\ IF DeriveChannel(snap[h]) = {} THEN r = "ok" /\ UNCHANGED faults ELSE Call(r)
            /\ Goto(h, IF r = "ok" /\ Resolved(snap[h]) # {} THEN "resolved" ELSE "failed")
            /\ UNCHANGED <<inbox, target, event, snap, seen>>
  /\ UNCHANGED backend

\* Only a resolved version has metadata; the other reports have a reason.
StatusUpdate(h) ==
  {[observed |-> g, release |-> IF pc[h] = "resolved" THEN Release(snap[h]) ELSE {}]
     : g \in Observed(h)}

\* cls-backend keeps the last status of a controller, metadata and all.
ReportStatus(h, r) ==
  /\ h \in Resolvers
  /\ pc[h] \in {"resolved", "failed", "unmet", "error"}
  /\ Call(r)
  /\ status' = IF Took(r) THEN StatusUpdate(h) ELSE status
  /\ Return(h, r = "ok")
  /\ UNCHANGED <<gen, graph, object>>

-----------------------------------------------------------------------------
(* The consumer: one resource, updated in place.                             *)

\* The release in the data a template is rendered from.
Rendered(h) == UNION {x.release : x \in seen[h]}

\* Broken variant: the resource is compared by something else.
NeedsUpdateNever(h) == FALSE

NeedsUpdate(h) == object # Rendered(h)

\* What is left to do is the report.
Conclude(h, label) == Goto(h, label) /\ seen' = [seen EXCEPT ![h] = {}]

\* A template without its value is an error; any error of Get is taken for an
\* absent resource.
GetObject(h, r) ==
  /\ pc[h] = "get"
  /\ \/ Rendered(h) = {} /\ r = "ok" /\ Conclude(h, "error") /\ UNCHANGED <<fresh, faults>>
     \/ /\ Rendered(h) # {}
        /\ Call(r)
        /\ IF r = "ok" /\ object # {}
             THEN /\ IF NeedsUpdate(h) THEN Goto(h, "update") /\ UNCHANGED seen
                                       ELSE Conclude(h, "applied")
                  /\ fresh' = fresh \cup {h}
             ELSE Goto(h, "create") /\ UNCHANGED <<seen, fresh>>
  /\ UNCHANGED <<backend, inbox, object, event, snap>>

Write(h, accepted, r) ==
  /\ Call(r)
  /\ IF accepted /\ Took(r)
       THEN object' = Rendered(h) /\ fresh' = {}
       ELSE UNCHANGED target
  /\ Conclude(h, IF accepted /\ r = "ok" THEN "applied" ELSE "error")
  /\ UNCHANGED <<backend, inbox, event, snap>>

\* Refused when the resource exists.
CreateObject(h, r) == pc[h] = "create" /\ Write(h, object = {}, r)

\* Refused when the resourceVersion is not the one of Get.
UpdateObject(h, r) == pc[h] = "update" /\ Write(h, h \in fresh, r)

\* Nothing here reads what the consumer reports.
ReportConsumer(h, r) ==
  /\ h \in Consumers
  /\ pc[h] \in {"applied", "unmet", "error"}
  /\ Call(r)
  /\ Return(h, r = "ok")
  /\ UNCHANGED <<backend, object>>

-----------------------------------------------------------------------------
Answers == {"ok", "lost", "failed"}

Step(h) ==
  \/ \E r \in {"ok", "failed"} :
       EnrichCluster(h, r) \/ ResolveVersion(h, r) \/ GetObject(h, r) \/ ReportConsumer(h, r)
  \/ \E r \in Answers :
       ReportStatus(h, r) \/ CreateObject(h, r) \/ UpdateObject(h, r)

Deliver(d, g) ==
  \E h \in Handlers, r \in {"ok", "failed"} :
    DeploymentOf(h) = d /\ HandleClusterEvent(h, g, r)

Next ==
  \/ UpdateSpec \/ PublishReconcile
  \/ \E d \in Deployments : Crash(d) \/ \E g \in Gens : Deliver(d, g)
  \/ \E n \in Upcoming : PublishRelease(n)
  \/ \E h \in Handlers : Step(h)

Spec == Init /\ [][Next]_vars

\* Go runs some callback of a deployment that has one to run, Pub/Sub delivers
\* some event of a deployment that has any, cls-backend publishes reconcile events.
Fairness ==
  /\ WF_vars(PublishReconcile)
  /\ WF_vars(\E h \in Resolvers : Step(h))
  /\ WF_vars(\E h \in Consumers : Step(h))
  /\ \A d \in Deployments : WF_vars(\E g \in Gens : Deliver(d, g))

FairSpec == Spec /\ Fairness

-----------------------------------------------------------------------------
(* Properties.                                                               *)

TypeOK ==
  /\ gen \in Gens
  /\ graph \in SUBSET Releases
  /\ status \in SUBSET Status
  /\ inbox \in [Deployments -> SUBSET Gens]
  /\ object \in SUBSET Releases
  /\ fresh \in SUBSET Handlers
  /\ pc \in [Handlers -> {"idle", "enrich", "resolve", "resolved", "failed", "unmet", "error",
                          "get", "create", "update", "applied"}]
  /\ event \in [Handlers -> SUBSET Gens]
  /\ snap \in [Handlers -> 0 .. MaxGen]
  /\ seen \in [Handlers -> SUBSET Status]
  /\ \A h \in Handlers : pc[h] = "idle" <=> event[h] = {}
  /\ \A h \in Handlers : \A f, g \in event[h] : f = g
  /\ \A h \in Handlers : pc[h] \in {"enrich", "resolve", "resolved"} => snap[h] \in Gens
  /\ \A x, y \in status : x = y
  /\ faults \in 0 .. MaxFaults

\* A status with a release is never behind itself: the release is that of the
\* generation the status observed, or of a newer one, in cls-backend and in the
\* hands of every handler that read it, whichever order reports arrive in.  So a
\* consumer could tell by observed_generation whether a release is too old for it.
StatusNotBehind ==
  \A s \in status \cup UNION {seen[h] : h \in Handlers} :
    \A n \in s.release : \E g \in s.observed .. gen : n \in Release(g)

\* The consumer's resource has a release that the cluster asked for at some time
\* and that was published in the channel of the group it asked for.
AppliedWasResolved ==
  \A n \in object : n \in graph /\ \E g \in 1 .. gen : n \in Release(g)

\* The rule asks for something to be there; none of the other operators does.
Positive(rule) == rule.operator \in {"exists", "eq", "in"}

\* When a handler reports that preconditions are not met, its report names one,
\* although the description is made without the cluster's status; as long as the
\* rules on the status only ask for something to be there.
RejectionHasReason ==
  \A h \in Handlers :
    LET rules == Rules[DeploymentOf(h)]
    IN pc[h] = "unmet" /\ (\A rule \in rules : rule.field[1] = "status" => Positive(rule))
         => FailedPreconditions(snap[h], rules) # {}

\* The rules of the consumer are met once the resolver has reported g's release.
Accepted(g) ==
  \A o \in 1 .. g :
    AllMet(ClusterData(g, {[observed |-> o, release |-> Release(g)]}), Rules["consumer"])

\* When the spec stays at generation g, whose release is published, the consumer's
\* resource gets this release and keeps it: late resolvers of older generations,
\* reports that dropped the metadata after an error, and preconditions that were
\* not met when the event came do not keep it away.
ReleaseArrives ==
  \A g \in Gens :
    <>[](gen = g /\ Resolved(g) # {} /\ Accepted(g)) => <>[](object = Release(g))

=============================================================================
