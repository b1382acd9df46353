----------------------- MODULE VersionedResourceProofs -----------------------
(***************************************************************************)
(* Machine-checked facts about VersionedResource, for any number of        *)
(* workers, controllers, generations, ticks, faults and crashes.           *)
(***************************************************************************)
EXTENDS VersionedResource, FiniteSetTheorems, WellFoundedInduction, TLAPS

\* Events carry generations cls-backend has published.
InboxOK == \A c \in Controllers : \A e \in inbox[c] : e <= gen

\* A handler works on a cluster at least as new as its event, and not newer than
\* the backend's; one whose GetCluster failed works on none.
LocalsOK ==
  \A w \in Workers : pc[w] # "idle" =>
    /\ egen[w] \in Gens
    /\ egen[w] <= gen
    /\ pc[w] # "error" =>
         cgen[w] \in Gens /\ egen[w] <= cgen[w] /\ cgen[w] <= gen

TypeInv == TypeOK /\ InboxOK /\ LocalsOK

-----------------------------------------------------------------------------
\* cleanupCompletedVersions picks from what it listed.
LEMMA TrimmedIsListed ==
  ASSUME NEW listed, NEW old \in Trimmed(listed) PROVE old \subseteq listed
  BY DEF Trimmed

\* A handler past GetCluster renders a well-formed Job.
LEMMA RenderedIsJob ==
  ASSUME TypeInv, NEW w \in Workers, pc[w] \notin {"idle", "error"}
  PROVE  Rendered(w) \in Job
  BY ControllersAssumption DEF TypeInv, TypeOK, LocalsOK, Rendered, Job

\* Init establishes the type invariant.
LEMMA TypeInit == Init => TypeInv
  BY BoundsAssumption, ControllersAssumption
     DEF Init, TypeInv, TypeOK, InboxOK, LocalsOK, Gens, Times

\* Every action of every worker and of the environment preserves it.
LEMMA TypeNext == TypeInv /\ [Next]_vars => TypeInv'
  <1> SUFFICES ASSUME TypeInv, [Next]_vars PROVE TypeInv'
    OBVIOUS
  <1> USE BoundsAssumption, ControllersAssumption
          DEF TypeInv, TypeOK, InboxOK, LocalsOK, Gens, Times, backend, locals
  <1>1. CASE UpdateSpec
    BY <1>1 DEF UpdateSpec
  <1>2. ASSUME NEW c \in Controllers, PublishReconcile(c) PROVE TypeInv'
    BY <1>2 DEF PublishReconcile
  <1>3. ASSUME NEW c \in Controllers, Crash(c) PROVE TypeInv'
    BY <1>3 DEF Crash
  <1>4. ASSUME NEW j \in jobs, FinishJob(j) PROVE TypeInv'
    BY <1>4 DEF FinishJob, Job
  <1>5. ASSUME NEW j \in jobs, RemoveFinishedJob(j) PROVE TypeInv'
    BY <1>5 DEF RemoveFinishedJob
  <1>6. CASE Tick
    BY <1>6 DEF Tick
  <1>7. ASSUME NEW w \in Workers, NEW e \in Gens, NEW r \in Reads,
               HandleClusterEvent(w, e, r)
        PROVE TypeInv'
    BY <1>7 DEF HandleClusterEvent, Call, Goto
  <1>8. ASSUME NEW w \in Workers, NEW r \in Reads, ListOldGenerations(w, r)
        PROVE TypeInv'
    BY <1>8 DEF ListOldGenerations, Call, Goto, OfCluster
  <1>9. ASSUME NEW w \in Workers, NEW j \in todo[w], NEW r \in Writes, DeleteListed(w, j, r)
        PROVE TypeInv'
    BY <1>9 DEF DeleteListed, TimedCall, Call, Delete
  <1>10. ASSUME NEW w \in Workers, NEW r \in Reads, FindResourceForGeneration(w, r)
         PROVE TypeInv'
    BY <1>10 DEF FindResourceForGeneration, TimedCall, Call, Goto, OfGeneration
  <1>11. ASSUME NEW w \in Workers, NEW r \in Reads, RefreshFound(w, r)
         PROVE TypeInv'
    BY <1>11 DEF RefreshFound, Refreshed, TimedCall, Call, Goto
  <1>12. ASSUME NEW w \in Workers, NEW r \in Writes, DeleteCompleted(w, r)
         PROVE TypeInv'
    BY <1>12 DEF DeleteCompleted, TimedCall, Call, Goto, Delete
  <1>13. ASSUME NEW w \in Workers, NEW r \in Writes, CreateVersionedResource(w, r)
         PROVE TypeInv'
    <2>1. pc[w] = "create" /\ Rendered(w) \in Job
      BY <1>13, RenderedIsJob DEF CreateVersionedResource
    <2>2. jobs' = jobs \/ jobs' = jobs \cup {Rendered(w)}
      BY <1>13 DEF CreateVersionedResource
    <2>3. held' = held \/ held' = [held EXCEPT ![w] = {Rendered(w)}]
      BY <1>13 DEF CreateVersionedResource
    <2>4. jobs' \in SUBSET Job
      BY <2>1, <2>2
    <2>5. held' \in [Workers -> SUBSET Job]
      BY <2>1, <2>3
    <2>6. /\ pc' = [pc EXCEPT ![w] = "trim"] \/ pc' = [pc EXCEPT ![w] = "error"]
          /\ faults' \in 0 .. MaxFaults
          /\ UNCHANGED <<backend, now, egen, cgen, stamp, todo>>
      BY <1>13 DEF CreateVersionedResource, TimedCall, Call, Goto
    <2>7. QED
      BY <2>1, <2>4, <2>5, <2>6
  <1>14. ASSUME NEW w \in Workers, NEW r \in Reads, ListCompletedVersions(w, r)
         PROVE TypeInv'
    <2>1. CASE r = "ok"
      <3>1. PICK old \in Trimmed(OfGeneration(cgen[w])) : todo' = [todo EXCEPT ![w] = old]
        BY <1>14, <2>1 DEF ListCompletedVersions
      <3>2. old \subseteq Job
        BY TrimmedIsListed DEF OfGeneration
      <3>3. todo' \in [Workers -> SUBSET Job]
        BY <3>1, <3>2
      <3>4. /\ pc[w] = "trim"
            /\ pc' = [pc EXCEPT ![w] = "trimming"]
            /\ faults' \in 0 .. MaxFaults
            /\ UNCHANGED <<backend, now, jobs, egen, cgen, stamp, held>>
        BY <1>14 DEF ListCompletedVersions, TimedCall, Call, Goto
      <3>5. QED
        BY <3>3, <3>4
    <2>2. CASE r # "ok"
      BY <1>14, <2>2 DEF ListCompletedVersions, TimedCall, Call, Goto
    <2>3. QED
      BY <2>1, <2>2
  <1>15. ASSUME NEW w \in Workers, NEW r \in Reads, RefreshForStatus(w, r)
         PROVE TypeInv'
    BY <1>15 DEF RefreshForStatus, Refreshed, Call, Goto
  <1>16. ASSUME NEW w \in Workers, NEW r \in Writes, ReportStatus(w, r)
         PROVE TypeInv'
    BY <1>16 DEF ReportStatus, Post, Observed, Return, Call, Goto, Job, Report
  <1>17. ASSUME NEW w \in Workers, NEW r \in Writes, ReportError(w, r)
         PROVE TypeInv'
    BY <1>17 DEF ReportError, Post, Observed, Return, Call, Goto, Report
  <1>18. CASE UNCHANGED vars
    BY <1>18 DEF vars
  <1> QED
    BY <1>1, <1>2, <1>3, <1>4, <1>5, <1>6, <1>7, <1>8, <1>9, <1>10, <1>11, <1>12,
       <1>13, <1>14, <1>15, <1>16, <1>17, <1>18
       DEF Next, Environment, Deliver, Step, DeleteOldGeneration, DeleteOldVersion

\* The type invariant, for every value of the constants.
THEOREM TypeCorrect == Spec => []TypeOK
  <1>1. Spec => []TypeInv
    BY TypeInit, TypeNext, PTL DEF Spec
  <1>2. TypeInv => TypeOK
    BY DEF TypeInv
  <1>3. QED
    BY <1>1, <1>2, PTL

-----------------------------------------------------------------------------
(* What a handler holds.                                                     *)

\* Names identify the Jobs of the namespace, and a Job is created after its name
\* was rendered.
StoreOK ==
  /\ \A j, k \in jobs : Name(j) = Name(k) => j = k
  /\ \A j \in jobs : j.stamp <= j.created

StampOK == \A w \in Workers : stamp[w] <= now

\* A handler holds a Job of its cluster's generation, or none.
HeldOK ==
  \A w \in Workers :
    /\ pc[w] \in {"idle", "render", "sweep", "find", "create", "error"} => held[w] = {}
    /\ \A j \in held[w] : j.gen = cgen[w] /\ j.stamp <= j.created

\* Only the two loops have Jobs to delete; the first one only older ones.
TodoOK ==
  \A w \in Workers :
    /\ pc[w] = "sweep" => \A j \in todo[w] : j.gen < cgen[w]
    /\ pc[w] \notin {"sweep", "trimming"} => todo[w] = {}

HoldInv == StoreOK /\ StampOK /\ HeldOK /\ TodoOK

\* A name tells the controller, the generation and the second.
LEMMA NameFields ==
  ASSUME NEW j, NEW k, Name(j) = Name(k)
  PROVE  j.controller = k.controller /\ j.gen = k.gen /\ j.stamp = k.stamp
  BY DEF Name

LEMMA HoldInit == Init => HoldInv
  BY BoundsAssumption
     DEF Init, HoldInv, StoreOK, StampOK, HeldOK, TodoOK

\* The calls of the handlers and the moves of the environment preserve it.
LEMMA HoldNext == TypeInv /\ HoldInv /\ [Next]_vars => HoldInv'
  <1> SUFFICES ASSUME TypeInv, HoldInv, [Next]_vars PROVE HoldInv'
    OBVIOUS
  <1>0. /\ jobs \in SUBSET Job
        /\ now \in Nat
        /\ pc = [w \in Workers |-> pc[w]]
        /\ cgen \in [Workers -> Int]
        /\ stamp \in [Workers -> Int]
        /\ todo \in [Workers -> SUBSET Job]
        /\ held \in [Workers -> SUBSET Job]
    BY BoundsAssumption DEF TypeInv, TypeOK, Gens, Times
  <1>j. \A j \in Job : j.gen \in Int /\ j.stamp \in Int /\ j.created \in Int
    BY BoundsAssumption DEF Job, Gens, Times
  <1> USE <1>0, <1>j DEF HoldInv, StoreOK, StampOK, HeldOK, TodoOK, backend, locals
  <1>1. CASE UpdateSpec
    BY <1>1 DEF UpdateSpec
  <1>2. ASSUME NEW c \in Controllers, PublishReconcile(c) PROVE HoldInv'
    BY <1>2 DEF PublishReconcile
  <1>3. ASSUME NEW c \in Controllers, Crash(c) PROVE HoldInv'
    BY <1>3 DEF Crash
  <1>4. ASSUME NEW j \in jobs, FinishJob(j) PROVE HoldInv'
    <2> DEFINE fin == [j EXCEPT !.done = TRUE]
    <2>1. fin.stamp = j.stamp /\ fin.created = j.created /\ Name(fin) = Name(j)
      BY DEF Job, Name
    <2>2. jobs' = (jobs \ {j}) \cup {fin}
      BY <1>4 DEF FinishJob
    <2> HIDE DEF fin
    <2>3. StoreOK'
      BY <2>1, <2>2
    <2>4. QED
      BY <1>4, <2>3 DEF FinishJob
  <1>5. ASSUME NEW j \in jobs, RemoveFinishedJob(j) PROVE HoldInv'
    BY <1>5 DEF RemoveFinishedJob
  <1>6. CASE Tick
    BY <1>6 DEF Tick
  <1>7. ASSUME NEW w \in Workers, NEW e \in Gens, NEW r \in Reads,
               HandleClusterEvent(w, e, r)
        PROVE HoldInv'
    BY <1>7 DEF HandleClusterEvent, Goto
  <1>8. ASSUME NEW w \in Workers, NEW r \in Reads, ListOldGenerations(w, r)
        PROVE HoldInv'
    BY <1>8 DEF ListOldGenerations, Outdated, Goto
  <1>9. ASSUME NEW w \in Workers, NEW j \in todo[w], NEW r \in Writes, DeleteListed(w, j, r)
        PROVE HoldInv'
    BY <1>9 DEF DeleteListed, Delete
  <1>10. ASSUME NEW w \in Workers, NEW r \in Reads, FindResourceForGeneration(w, r)
         PROVE HoldInv'
    BY <1>10 DEF FindResourceForGeneration, Goto, OfGeneration
  <1>11. ASSUME NEW w \in Workers, NEW r \in Reads, RefreshFound(w, r)
         PROVE HoldInv'
    BY <1>11, NameFields DEF RefreshFound, Refreshed, Goto
  <1>12. ASSUME NEW w \in Workers, NEW r \in Writes, DeleteCompleted(w, r)
         PROVE HoldInv'
    BY <1>12 DEF DeleteCompleted, Goto, Delete
  <1>13. ASSUME NEW w \in Workers, NEW r \in Writes, CreateVersionedResource(w, r)
         PROVE HoldInv'
    <2> DEFINE new == Rendered(w)
    <2>1. /\ new.gen = cgen[w] /\ new.stamp = stamp[w] /\ new.created = now
          /\ new \in Job
      BY <1>13, RenderedIsJob DEF CreateVersionedResource, Rendered
    <2> HIDE DEF new
    <2>2. \/ jobs' = jobs
          \/ jobs' = jobs \cup {new} /\ \A j \in jobs : Name(j) # Name(new)
      BY <1>13 DEF CreateVersionedResource, new
    <2>3. StoreOK'
      BY <2>1, <2>2
    <2>4. \/ held' = held /\ pc' = [pc EXCEPT ![w] = "error"]
          \/ held' = [held EXCEPT ![w] = {new}] /\ pc' = [pc EXCEPT ![w] = "trim"]
      BY <1>13 DEF CreateVersionedResource, Goto, new
    <2>5. pc[w] = "create" /\ UNCHANGED <<now, cgen, stamp, todo>>
      BY <1>13 DEF CreateVersionedResource
    <2>6. QED
      BY <2>1, <2>3, <2>4, <2>5
  <1>14. ASSUME NEW w \in Workers, NEW r \in Reads, ListCompletedVersions(w, r)
         PROVE HoldInv'
    BY <1>14 DEF ListCompletedVersions, Goto
  <1>15. ASSUME NEW w \in Workers, NEW r \in Reads, RefreshForStatus(w, r)
         PROVE HoldInv'
    BY <1>15, NameFields DEF RefreshForStatus, Refreshed, Goto
  <1>16. ASSUME NEW w \in Workers, NEW r \in Writes, ReportStatus(w, r)
         PROVE HoldInv'
    BY <1>16 DEF ReportStatus, Return, Goto
  <1>17. ASSUME NEW w \in Workers, NEW r \in Writes, ReportError(w, r)
         PROVE HoldInv'
    BY <1>17 DEF ReportError, Return, Goto
  <1>18. CASE UNCHANGED vars
    BY <1>18 DEF vars
  <1> QED
    BY <1>1, <1>2, <1>3, <1>4, <1>5, <1>6, <1>7, <1>8, <1>9, <1>10, <1>11, <1>12,
       <1>13, <1>14, <1>15, <1>16, <1>17, <1>18
       DEF Next, Environment, Deliver, Step, DeleteOldGeneration, DeleteOldVersion

-----------------------------------------------------------------------------
(* The Job a handler is about to delete and recreate.                        *)

\* Handlers end well before a Job made at their start may be recreated (by
\* default 120 s against 5 min), or nothing is recreated.
Gap == NewGenerationOnly \/ 2 * Timeout <= VersionInterval

Finished(j) == \A k \in jobs : Name(k) = Name(j) => k.done

\* Between List and Get, the name of a completed Job is taken by a running one
\* only if the handler started within Timeout of that name's second; after the
\* decision to recreate, not before the handler's own deadline.  What is to be
\* trimmed was completed when it was listed, as what was found.
ReuseOK ==
  \A w \in Workers :
    /\ \A j \in held[w] :
         /\ pc[w] = "refresh" /\ j.done =>
              Finished(j) \/ stamp[w] < j.stamp + Timeout
         /\ pc[w] = "recreate" =>
              ShouldRecreate(j) /\ (~Expired(w) => Finished(j))
    /\ \A j \in todo[w] :
         pc[w] = "trimming" => Finished(j) \/ stamp[w] < j.stamp + Timeout

LEMMA ReuseInit == Init => ReuseOK
  BY DEF Init, ReuseOK

\* Creation of a Job whose name some handler holds as completed: the creator's
\* deadline rules it out after the interval, and bounds the holder's start before.
LEMMA ReuseNext ==
  ASSUME Gap PROVE TypeInv /\ HoldInv /\ ReuseOK /\ [Next]_vars => ReuseOK'
  <1> SUFFICES ASSUME TypeInv, HoldInv, ReuseOK, [Next]_vars PROVE ReuseOK'
    OBVIOUS
  <1>0. /\ jobs \in SUBSET Job
        /\ now \in Nat
        /\ pc = [w \in Workers |-> pc[w]]
        /\ stamp \in [Workers -> Int]
        /\ held \in [Workers -> SUBSET Job]
        /\ todo \in [Workers -> SUBSET Job]
        /\ Timeout \in Nat \ {0} /\ VersionInterval \in Nat
    BY BoundsAssumption, PolicyAssumption DEF TypeInv, TypeOK, Gens, Times
  <1>j. \A j \in Job : j.stamp \in Int /\ j.created \in Int /\ j.done \in BOOLEAN
    BY BoundsAssumption DEF Job, Gens, Times
  <1>h. /\ \A j, k \in jobs : Name(j) = Name(k) => j = k
        /\ \A w \in Workers : stamp[w] <= now
        /\ \A w \in Workers : \A j \in held[w] : j.stamp <= j.created
    BY DEF HoldInv, StoreOK, StampOK, HeldOK
  <1> USE <1>0, <1>j, <1>h
      DEF ReuseOK, Finished, ShouldRecreate, Expired, backend, locals
  <1>1. CASE UpdateSpec
    BY <1>1 DEF UpdateSpec
  <1>2. ASSUME NEW c \in Controllers, PublishReconcile(c) PROVE ReuseOK'
    BY <1>2 DEF PublishReconcile
  <1>3. ASSUME NEW c \in Controllers, Crash(c) PROVE ReuseOK'
    BY <1>3 DEF Crash
  <1>4. ASSUME NEW j \in jobs, FinishJob(j) PROVE ReuseOK'
    BY <1>4 DEF FinishJob, Job
  <1>5. ASSUME NEW j \in jobs, RemoveFinishedJob(j) PROVE ReuseOK'
    BY <1>5 DEF RemoveFinishedJob
  <1>6. CASE Tick
    BY <1>6 DEF Tick
  <1>7. ASSUME NEW w \in Workers, NEW e \in Gens, NEW r \in Reads,
               HandleClusterEvent(w, e, r)
        PROVE ReuseOK'
    BY <1>7 DEF HandleClusterEvent, Goto
  <1>8. ASSUME NEW w \in Workers, NEW r \in Reads, ListOldGenerations(w, r)
        PROVE ReuseOK'
    BY <1>8 DEF ListOldGenerations, Goto
  <1>9. ASSUME NEW w \in Workers, NEW j \in todo[w], NEW r \in Writes, DeleteListed(w, j, r)
        PROVE ReuseOK'
    BY <1>9 DEF DeleteListed, Delete
  <1>10. ASSUME NEW w \in Workers, NEW r \in Reads, FindResourceForGeneration(w, r)
         PROVE ReuseOK'
    BY <1>10 DEF FindResourceForGeneration, Goto, OfGeneration
  <1>11. ASSUME NEW w \in Workers, NEW r \in Reads, RefreshFound(w, r)
         PROVE ReuseOK'
    BY <1>11, NameFields DEF RefreshFound, Refreshed, Running, Goto, Gap
  <1>12. ASSUME NEW w \in Workers, NEW r \in Writes, DeleteCompleted(w, r)
         PROVE ReuseOK'
    BY <1>12 DEF DeleteCompleted, Goto, Delete
  <1>13. ASSUME NEW w \in Workers, NEW r \in Writes, CreateVersionedResource(w, r)
         PROVE ReuseOK'
    <2> DEFINE new == Rendered(w)
    <2>1. new.stamp = stamp[w] /\ ~new.done
      BY DEF Rendered
    <2> HIDE DEF new
    <2>2. \/ jobs' = jobs
          \/ jobs' = jobs \cup {new} /\ now - stamp[w] < Timeout
      BY <1>13 DEF CreateVersionedResource, TimedCall, Took, new
    <2>3. ASSUME NEW v \in Workers, v # w, NEW j \in held[v]
          PROVE  /\ pc[v] = "refresh" /\ j.done =>
                      Finished(j)' \/ stamp[v] < j.stamp + Timeout
                 /\ pc[v] = "recreate" =>
                      ShouldRecreate(j) /\ (~Expired(v) => Finished(j)')
      BY <2>1, <2>2, <2>3, NameFields DEF Gap
    <2>6. ASSUME NEW v \in Workers, v # w, NEW j \in todo[v], pc[v] = "trimming"
          PROVE  Finished(j)' \/ stamp[v] < j.stamp + Timeout
      BY <2>1, <2>2, <2>6, NameFields
    <2>4. /\ \A v \in Workers : v # w => held'[v] = held[v] /\ pc'[v] = pc[v]
          /\ pc'[w] \in {"trim", "error"}
          /\ UNCHANGED <<now, stamp, todo>>
      BY <1>13 DEF CreateVersionedResource, Goto
    <2>5. QED
      BY <2>3, <2>4, <2>6
  <1>14. ASSUME NEW w \in Workers, NEW r \in Reads, ListCompletedVersions(w, r)
         PROVE ReuseOK'
    <2>1. ASSUME NEW old \in Trimmed(OfGeneration(cgen[w])), NEW j \in old
          PROVE  Finished(j)
      BY <2>1 DEF Trimmed, OfGeneration, Running
    <2>2. /\ pc' = [pc EXCEPT ![w] = "trimming"] /\ UNCHANGED <<jobs, held, stamp, now>>
          /\ \/ UNCHANGED todo
             \/ \E old \in Trimmed(OfGeneration(cgen[w])) : todo' = [todo EXCEPT ![w] = old]
      BY <1>14 DEF ListCompletedVersions, Goto
    <2>3. todo[w] = {}
      BY <1>14 DEF ListCompletedVersions, HoldInv, TodoOK
    <2>4. QED
      BY <2>1, <2>2, <2>3
  <1>15. ASSUME NEW w \in Workers, NEW r \in Reads, RefreshForStatus(w, r)
         PROVE ReuseOK'
    BY <1>15 DEF RefreshForStatus, Goto
  <1>16. ASSUME NEW w \in Workers, NEW r \in Writes, ReportStatus(w, r)
         PROVE ReuseOK'
    BY <1>16 DEF ReportStatus, Return, Goto
  <1>17. ASSUME NEW w \in Workers, NEW r \in Writes, ReportError(w, r)
         PROVE ReuseOK'
    BY <1>17 DEF ReportError, Return, Goto
  <1>18. CASE UNCHANGED vars
    BY <1>18 DEF vars
  <1> QED
    BY <1>1, <1>2, <1>3, <1>4, <1>5, <1>6, <1>7, <1>8, <1>9, <1>10, <1>11, <1>12,
       <1>13, <1>14, <1>15, <1>16, <1>17, <1>18
       DEF Next, Environment, Deliver, Step, DeleteOldGeneration, DeleteOldVersion

-----------------------------------------------------------------------------
Inv == TypeInv /\ HoldInv /\ ReuseOK

LEMMA Invariance == ASSUME Gap PROVE Spec => []Inv
  <1>1. Init => Inv
    BY TypeInit, HoldInit, ReuseInit DEF Inv
  <1>2. Inv /\ [Next]_vars => Inv'
    BY Gap, TypeNext, HoldNext, ReuseNext DEF Inv
  <1>3. QED
    BY <1>1, <1>2, PTL DEF Spec

\* A report with Applied True describes a resource at least as new as the
\* generation it claims to have observed.
THEOREM ReportsAreCurrent == Spec => []ReportsCurrent
  <1>1. Init => ReportsCurrent
    BY DEF Init, ReportsCurrent
  <1>2. TypeInv /\ HoldInv /\ ReportsCurrent /\ [Next]_vars => ReportsCurrent'
    <2> SUFFICES ASSUME TypeInv, HoldInv, ReportsCurrent, [Next]_vars
                 PROVE  ReportsCurrent'
      OBVIOUS
    <2>1. CASE UNCHANGED status
      BY <2>1 DEF ReportsCurrent
    <2>2. ASSUME NEW w \in Workers, NEW r \in Writes, ReportStatus(w, r)
          PROVE  ReportsCurrent'
      <3>1. \A j \in held[w] : egen[w] <= j.gen
        BY <2>2 DEF ReportStatus, TypeInv, LocalsOK, HoldInv, HeldOK
      <3>2. ControllerOf[w] \in Controllers /\ status \in [Controllers -> SUBSET Report]
        BY ControllersAssumption DEF TypeInv, TypeOK
      <3>3. QED
        BY <2>2, <3>1, <3>2 DEF ReportStatus, Post, Observed, ReportsCurrent
    <2>3. ASSUME NEW w \in Workers, NEW r \in Writes, ReportError(w, r)
          PROVE  ReportsCurrent'
      <3>1. ControllerOf[w] \in Controllers /\ status \in [Controllers -> SUBSET Report]
        BY ControllersAssumption DEF TypeInv, TypeOK
      <3>2. QED
        BY <2>3, <3>1 DEF ReportError, Post, Observed, ReportsCurrent
    <2>4. QED
      BY <2>1, <2>2, <2>3
         DEF Next, Environment, Deliver, Step, vars, backend,
             UpdateSpec, PublishReconcile, Crash, FinishJob, RemoveFinishedJob, Tick,
             HandleClusterEvent, ListOldGenerations, DeleteOldGeneration, DeleteListed,
             FindResourceForGeneration, RefreshFound, DeleteCompleted,
             CreateVersionedResource, ListCompletedVersions, DeleteOldVersion,
             RefreshForStatus
  <1>3. QED
    BY <1>1, <1>2, TypeInit, TypeNext, HoldInit, HoldNext, PTL DEF Spec

\* No interleaving, redelivery, crash, lost reply or slow handler removes a running
\* Job of the current generation, but for the loop of cleanupCompletedVersions, which
\* removes none that is older than twice the deadline.
THEOREM RunningJobsSurvive == ASSUME Gap PROVE Spec => RunningJobSurvives
  <1> DEFINE Safe ==
        \A j \in jobs :
          Running(j) /\ j.gen = gen /\ Removed(j) =>
            /\ now < j.stamp + 2 * Timeout
            /\ \E w \in Workers : pc[w] = "trimming" /\ Deletes(w)
  <1>1. Inv /\ [Next]_vars => [Safe]_vars
    <2> SUFFICES ASSUME Inv, [Next]_vars,
                        NEW j \in jobs, Running(j), j.gen = gen, Removed(j)
                 PROVE  /\ now < j.stamp + 2 * Timeout
                        /\ \E w \in Workers : pc[w] = "trimming" /\ Deletes(w)
      OBVIOUS
    <2>1. jobs \in SUBSET Job /\ gen \in Int /\ todo = [w \in Workers |-> todo[w]]
          /\ \A k \in Job : k.gen \in Int /\ k.done \in BOOLEAN
      BY BoundsAssumption DEF Inv, TypeInv, TypeOK, Gens, Job
    <2>2. j \notin jobs'
      BY DEF Removed
    <2>3. CASE jobs \subseteq jobs'
      BY <2>2, <2>3
    <2>4. ASSUME NEW k \in jobs, FinishJob(k) PROVE FALSE
      <3>1. k.done \in BOOLEAN /\ Name([k EXCEPT !.done = TRUE]) = Name(k)
        BY <2>1 DEF Name, Job
      <3>2. QED
        BY <2>2, <2>4, <3>1 DEF FinishJob, Removed
    <2>5. ASSUME NEW k \in jobs, RemoveFinishedJob(k) PROVE FALSE
      BY <2>2, <2>5 DEF RemoveFinishedJob, Running
    <2>6. ASSUME NEW w \in Workers, NEW k \in todo[w], NEW r \in Writes,
                 DeleteOldGeneration(w, k, r)
          PROVE  FALSE
      <3>1. Name(j) = Name(k)
        BY <2>2, <2>6 DEF DeleteOldGeneration, DeleteListed, Delete
      <3>2. k.gen < cgen[w] /\ cgen[w] <= gen /\ cgen[w] \in Int
        BY <2>6, BoundsAssumption
           DEF DeleteOldGeneration, Inv, HoldInv, TodoOK, TypeInv, LocalsOK, Gens
      <3>3. k.gen = gen
        BY <3>1, NameFields
      <3>4. QED
        BY <2>1, <3>2, <3>3
    <2>7. ASSUME NEW w \in Workers, NEW k \in todo[w], NEW r \in Writes,
                 DeleteOldVersion(w, k, r)
          PROVE  now < j.stamp + 2 * Timeout /\ pc[w] = "trimming" /\ Deletes(w)
      <3>1. pc[w] = "trimming" /\ Deletes(w)
        BY <2>1, <2>7 DEF DeleteOldVersion, DeleteListed, Deletes
      <3>2. Took(r) /\ Name(j) = Name(k)
        BY <2>2, <2>7 DEF DeleteOldVersion, DeleteListed, Delete
      <3>3. ~Expired(w)
        BY <2>7, <3>2 DEF DeleteOldVersion, DeleteListed, TimedCall, Took
      <3>4. ~Finished(k)
        BY <2>1, <3>2 DEF Finished, Running
      <3>5. stamp[w] < k.stamp + Timeout /\ k.stamp = j.stamp
        BY <3>1, <3>2, <3>4, NameFields DEF Inv, ReuseOK
      <3>6. now \in Nat /\ stamp[w] \in Nat /\ j.stamp \in Nat /\ Timeout \in Nat
        BY PolicyAssumption, BoundsAssumption DEF Inv, TypeInv, TypeOK, Times, Job
      <3>7. now < j.stamp + 2 * Timeout
        BY <3>3, <3>5, <3>6 DEF Expired
      <3>8. QED
        BY <3>1, <3>7
    <2>8. ASSUME NEW w \in Workers, NEW r \in Writes, DeleteCompleted(w, r) PROVE FALSE
      <3>1. PICK k \in held[w] : jobs' = IF Took(r) THEN Delete(k) ELSE jobs
        BY <2>8 DEF DeleteCompleted
      <3>2. Took(r) /\ Name(j) = Name(k)
        BY <2>2, <3>1 DEF Delete
      <3>3. ~Expired(w)
        BY <2>8, <3>2 DEF DeleteCompleted, TimedCall, Took
      <3>4. j.done
        BY <2>8, <3>2, <3>3 DEF DeleteCompleted, Inv, ReuseOK, Finished
      <3>5. QED
        BY <3>4 DEF Running
    <2>9. QED
      BY <2>3, <2>4, <2>5, <2>6, <2>7, <2>8
         DEF Next, Environment, Deliver, Step, vars, backend,
             UpdateSpec, PublishReconcile, Crash, Tick,
             HandleClusterEvent, ListOldGenerations,
             FindResourceForGeneration, RefreshFound,
             CreateVersionedResource, ListCompletedVersions,
             RefreshForStatus, ReportStatus, ReportError
  <1>2. QED
    BY <1>1, Invariance, PTL DEF Spec, RunningJobSurvives

-----------------------------------------------------------------------------
(* What cleanupCompletedVersions keeps.                                      *)

LEMMA LeastNumber ==
  ASSUME NEW S, S \subseteq Nat, S # {}
  PROVE  \E m \in S : \A n \in S : m <= n
  <1> DEFINE Less == {ss \in Nat \X Nat : ss[1] < ss[2]}
  <1>1. IsWellFoundedOn(Less, Nat)
    BY ONLY NatLessThanWellFounded DEF OpToRel
  <1>2. PICK m \in S : \A n \in S : ~ (<<n, m>> \in Less)
    <2> HIDE DEF Less
    <2> QED
      BY <1>1, WFMin
  <1>3. ASSUME NEW n \in S PROVE m <= n
    <2>1. m \in Nat /\ n \in Nat
      OBVIOUS
    <2>2. n < m => <<n, m>> \in Less
      BY <2>1
    <2>3. ~(n < m)
      BY <1>2, <2>2
    <2> QED
      BY <2>1, <2>3
  <1> QED
    BY <1>3

\* n of the Jobs of S are its newest.
Newest(K, S, n) ==
  /\ K \in SUBSET S
  /\ Cardinality(K) = n
  /\ \A k \in K, j \in S \ K : k.created >= j.created

\* A set of Jobs has a newest one,
LEMMA OneIsNewest ==
  ASSUME NEW S \in SUBSET Job, S # {}
  PROVE  \E k \in S : \A j \in S : k.created >= j.created
  <1> DEFINE Age(j) == MaxTime - j.created
             ages == {Age(j) : j \in S}
  <1>1. \A j \in S : j.created \in Nat /\ Age(j) \in Nat
    BY BoundsAssumption DEF Job, Times
  <1>2. PICK m \in ages : \A n \in ages : m <= n
    <2>1. ages \subseteq Nat /\ ages # {}
      BY <1>1
    <2> HIDE DEF ages
    <2> QED
      BY <2>1, LeastNumber
  <1>3. PICK k \in S : m = Age(k)
    BY <1>2
  <1>4. ASSUME NEW j \in S PROVE k.created >= j.created
    <2>1. Age(k) <= Age(j)
      BY <1>2, <1>3
    <2> QED
      BY <1>1, <2>1, BoundsAssumption
  <1> QED
    BY <1>4

\* and, taken one after the other, as many newest ones as one likes.
LEMMA SomeAreNewest ==
  ASSUME NEW S \in SUBSET Job, IsFiniteSet(S), NEW n \in Nat, n <= Cardinality(S)
  PROVE  \E K : Newest(K, S, n)
  <1> DEFINE missing == {i \in Nat : i <= Cardinality(S) /\ ~ \E K : Newest(K, S, i)}
  <1> SUFFICES missing = {}
    OBVIOUS
  <1> SUFFICES ASSUME missing # {} PROVE FALSE
    OBVIOUS
  <1>1. PICK i \in missing : \A k \in missing : i <= k
    <2>1. missing \subseteq Nat
      OBVIOUS
    <2> HIDE DEF missing
    <2> QED
      BY <2>1, LeastNumber
  <1>2. i # 0
    <2>1. Newest({}, S, 0)
      BY FS_EmptySet DEF Newest
    <2> QED
      BY <1>1, <2>1
  <1>3. i \in Nat /\ i - 1 \in Nat /\ i <= Cardinality(S) /\ Cardinality(S) \in Nat
    BY <1>1, <1>2, FS_CardinalityType
  <1>4. PICK K : Newest(K, S, i - 1)
    <2>1. i - 1 \notin missing
      BY <1>1, <1>3
    <2> HIDE DEF missing
    <2>2. i - 1 <= Cardinality(S)
      BY <1>3
    <2> QED
      BY <1>3, <2>1, <2>2 DEF missing
  <1> HIDE DEF missing
  <1>5. K \in SUBSET S /\ IsFiniteSet(K) /\ Cardinality(K) = i - 1
    BY <1>4, FS_Subset DEF Newest
  <1>6. S \ K # {} /\ S \ K \in SUBSET Job
    <2>1. S # K
      BY <1>3, <1>5
    <2> QED
      BY <1>5, <2>1
  <1>7. PICK m \in S \ K : \A j \in S \ K : m.created >= j.created
    BY <1>6, OneIsNewest
  <1>8. Cardinality(K \cup {m}) = i
    <2>1. Cardinality(K \cup {m}) = Cardinality(K) + 1
      BY <1>5, <1>7, FS_AddElement
    <2> QED
      BY <1>3, <1>5, <2>1
  <1>9. Newest(K \cup {m}, S, i)
    BY <1>4, <1>5, <1>7, <1>8 DEF Newest
  <1> QED
    BY <1>1, <1>9 DEF missing

\* Of the listed Jobs, cleanupCompletedVersions deletes no running one, and of the
\* completed ones keeps exactly keepVersions, or all if there are no more, and none
\* that is older than one it deletes; and it always finds such a choice.
THEOREM TrimKeepsNewest ==
  ASSUME NEW listed \in SUBSET Job, IsFiniteSet(listed)
  PROVE  LET completed == {j \in listed : ~Running(j)} IN
         /\ Trimmed(listed) # {}
         /\ \A old \in Trimmed(listed) :
              /\ old \subseteq completed
              /\ Newest(completed \ old, completed,
                        IF Cardinality(completed) <= KeepVersions
                          THEN Cardinality(completed) ELSE KeepVersions)
  <1> DEFINE completed == {j \in listed : ~Running(j)}
  <1>1. completed \in SUBSET Job /\ IsFiniteSet(completed) /\ Cardinality(completed) \in Nat
    BY FS_Subset, FS_CardinalityType
  <1>2. KeepVersions \in Nat
    BY PolicyAssumption
  <1>3. CASE Cardinality(completed) <= KeepVersions
    <2>1. Trimmed(listed) = {{}}
      BY <1>3 DEF Trimmed
    <2>2. Newest(completed \ {}, completed, Cardinality(completed))
      BY DEF Newest
    <2> QED
      BY <1>3, <2>1, <2>2
  <1>4. CASE ~(Cardinality(completed) <= KeepVersions)
    <2>1. Trimmed(listed) = {completed \ kept : kept \in
             {K \in SUBSET completed : Newest(K, completed, KeepVersions)}}
      BY <1>4 DEF Trimmed, Newest
    <2>2. \E K : Newest(K, completed, KeepVersions)
      <3> HIDE DEF completed
      <3> QED
        BY <1>1, <1>2, <1>4, SomeAreNewest
    <2>3. \A K : Newest(K, completed, KeepVersions) => K \in SUBSET completed
      BY DEF Newest
    <2> HIDE DEF completed
    <2>4. /\ Trimmed(listed) # {}
          /\ \A old \in Trimmed(listed) :
               old \subseteq completed /\ Newest(completed \ old, completed, KeepVersions)
      <3>1. Trimmed(listed) # {}
        <4>1. PICK K : Newest(K, completed, KeepVersions)
          BY <2>2
        <4>2. K \in SUBSET completed
          BY <2>3, <4>1
        <4>3. completed \ K \in Trimmed(listed)
          BY <2>1, <4>1, <4>2
        <4> QED
          BY <4>3
      <3>2. ASSUME NEW old \in Trimmed(listed)
            PROVE  old \subseteq completed /\ Newest(completed \ old, completed, KeepVersions)
        <4>1. PICK K \in SUBSET completed :
                old = completed \ K /\ Newest(K, completed, KeepVersions)
          BY <2>1
        <4>2. completed \ old = K
          BY <4>1
        <4> QED
          BY <4>1, <4>2
      <3> QED
        BY <3>1, <3>2
    <2>5. KeepVersions = IF Cardinality(completed) <= KeepVersions
                           THEN Cardinality(completed) ELSE KeepVersions
      BY <1>4 DEF completed
    <2> QED
      BY <2>4, <2>5 DEF completed
  <1> QED
    BY <1>3, <1>4

=============================================================================
