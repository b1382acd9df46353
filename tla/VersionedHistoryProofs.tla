------------------------ MODULE VersionedHistoryProofs ------------------------
(***************************************************************************)
(* The versioned resource protocol implements VersionedContract when its   *)
(* deliveries come one at a time, no call fails but for its deadline, and  *)
(* nothing else removes Jobs: for any number of generations, ticks and     *)
(* crashes.                                                                *)
(***************************************************************************)
EXTENDS VersionedHistory, VersionedResourceProofs, FiniteSetTheorems

Serial ==
  /\ \A v, w \in Workers : v = w
  /\ MaxFaults = 0
  /\ ~TTLAfterFinished

-----------------------------------------------------------------------------
(* What the serial protocol keeps.                                           *)

\* There is one Job at most, the last one created.
SlotOK ==
  /\ \A j, k \in jobs : j = k
  /\ \A j \in jobs : last = [gen |-> j.gen, created |-> j.created]

LastOK ==
  /\ last.gen \in Nat /\ last.gen <= gen
  /\ last.created \in Nat

\* A generation whose last Job is gone may have a new one.
Elapsed      == ~NewGenerationOnly /\ now - last.created >= VersionInterval
VacantFor(g) == jobs = {} => last.gen < g \/ Elapsed

\* The handler works on the generation of the last Job, or on a newer one.
BusyOK ==
  \A w \in Workers : pc[w] \notin {"idle", "error"} =>
    last.gen <= cgen[w] /\ VacantFor(cgen[w])

\* Before its deadline a handler has removed, or will, all that is outdated, and
\* it creates only when nothing is left.
SweepOK ==
  \A w \in Workers :
    /\ pc[w] # "find"
    /\ pc[w] # "sweep" => todo[w] = {}
    /\ pc[w] = "sweep" /\ ~Expired(w) =>
         \A j \in jobs : j.gen < cgen[w] => \E k \in todo[w] : Name(k) = Name(j)
    /\ pc[w] = "create" /\ ~Expired(w) => jobs = {}

\* The Job it may recreate is the one in the namespace, completed and old enough.
RecreateOK ==
  \A w \in Workers : \A j \in held[w] :
    /\ pc[w] \in {"refresh", "recreate"} =>
         \E k \in jobs : /\ Name(k) = Name(j)
                         /\ k.created = j.created
                         /\ j.done => k.done
    /\ pc[w] = "recreate" => j.done /\ ShouldRecreate(j)

SerialInv == SlotOK /\ LastOK /\ VacantFor(gen) /\ BusyOK /\ SweepOK /\ RecreateOK

-----------------------------------------------------------------------------
(* What the calls of the serial protocol return.                             *)

\* No call fails.
LEMMA CallSucceeds ==
  ASSUME Serial, TypeInv, NEW r, Call(r) PROVE r = "ok"
  BY DEF Serial, TypeInv, TypeOK, Call

\* A call with the handler's context fails exactly when the deadline has passed.
LEMMA TimedCallSucceeds ==
  ASSUME Serial, TypeInv, NEW w, NEW r, TimedCall(w, r)
  PROVE  r = IF Expired(w) THEN "failed" ELSE "ok"
  BY CallSucceeds DEF TimedCall

\* With one Job at most, cleanupCompletedVersions has nothing to delete.
LEMMA NothingTrimmed ==
  ASSUME SlotOK, NEW g, NEW old \in Trimmed(OfGeneration(g)) PROVE old = {}
  <1> DEFINE completed == {j \in OfGeneration(g) : ~Running(j)}
  <1>1. completed = {} \/ \E j \in jobs : completed = {j}
    BY DEF SlotOK, OfGeneration
  <1>2. Cardinality(completed) \in {0, 1}
    <2>1. CASE completed = {}
      BY <2>1, FS_EmptySet
    <2>2. ASSUME NEW j \in jobs, completed = {j} PROVE Cardinality(completed) = 1
      BY <2>2, FS_Singleton
    <2>3. QED
      BY <1>1, <2>1, <2>2, FS_EmptySet
  <1>3. Cardinality(completed) <= KeepVersions
    BY <1>2, PolicyAssumption
  <1>4. QED
    BY <1>3 DEF Trimmed

\* A Job of a new name is the last one created.
LEMMA LastCreated ==
  ASSUME HNext
  PROVE  /\ (\A j \in jobs' : \E k \in jobs : Name(k) = Name(j)) => last' = last
         /\ \A n : jobs = {} /\ jobs' = {n} =>
              last' = [gen |-> n.gen, created |-> n.created]
  BY DEF HNext, Created

-----------------------------------------------------------------------------
(* The invariant and the refinement, step by step.                           *)

LEMMA SerialInit == HInit => SerialInv
  BY BoundsAssumption
     DEF HInit, Init, SerialInv, SlotOK, LastOK, VacantFor, BusyOK, SweepOK, RecreateOK

\* Every call of the handler and every move of the environment keeps it.
LEMMA SerialNext ==
  ASSUME Serial PROVE TypeInv /\ HoldInv /\ SerialInv /\ [HNext]_hvars => SerialInv'
  <1> SUFFICES ASSUME TypeInv, HoldInv, SerialInv, [HNext]_hvars PROVE SerialInv'
    OBVIOUS
  <1>0. /\ gen \in Nat /\ now \in Nat
        /\ jobs \in SUBSET Job
        /\ pc = [w \in Workers |-> pc[w]]
        /\ cgen \in [Workers -> Int]
        /\ stamp \in [Workers -> Int]
        /\ todo \in [Workers -> SUBSET Job]
        /\ held \in [Workers -> SUBSET Job]
        /\ Timeout \in Nat \ {0} /\ VersionInterval \in Nat
    BY BoundsAssumption, PolicyAssumption DEF TypeInv, TypeOK, Gens, Times
  <1>j. \A j \in Job : j.gen \in Nat /\ j.created \in Nat /\ j.done \in BOOLEAN
    BY BoundsAssumption DEF Job, Gens, Times
  <1>s. \A v, w \in Workers : v = w
    BY DEF Serial
  <1>u. CASE UNCHANGED hvars
    BY <1>u DEF hvars, vars, locals, backend, SerialInv, SlotOK, LastOK, VacantFor,
                Elapsed, BusyOK, SweepOK, RecreateOK, Expired, ShouldRecreate
  <1>n. ASSUME HNext PROVE SerialInv'
    <2>k. (\A j \in jobs' : \E k \in jobs : Name(k) = Name(j)) => last' = last
      BY <1>n, LastCreated
    <2> USE <1>0, <1>j, <1>s, <2>k
        DEF SerialInv, SlotOK, LastOK, VacantFor, Elapsed, BusyOK, SweepOK, RecreateOK,
            Expired, ShouldRecreate, backend, locals
    <2>1. CASE UpdateSpec
      BY <2>1 DEF UpdateSpec
    <2>2. ASSUME NEW c \in Controllers, PublishReconcile(c) PROVE SerialInv'
      BY <2>2 DEF PublishReconcile
    <2>3. ASSUME NEW c \in Controllers, Crash(c) PROVE SerialInv'
      BY <2>3 DEF Crash
    <2>4. ASSUME NEW j \in jobs, FinishJob(j) PROVE SerialInv'
      <3> DEFINE fin == [j EXCEPT !.done = TRUE]
      <3>1. /\ fin.gen = j.gen /\ fin.created = j.created /\ fin.done
            /\ Name(fin) = Name(j)
        BY DEF Job, Name
      <3>2. jobs = {j} /\ jobs' = {fin}
        BY <2>4 DEF FinishJob
      <3> HIDE DEF fin
      <3>3. UNCHANGED <<gen, now, pc, cgen, stamp, todo, held>>
        BY <2>4 DEF FinishJob
      <3>4. QED
        BY <3>1, <3>2, <3>3
    <2>5. ASSUME NEW j \in jobs, RemoveFinishedJob(j) PROVE FALSE
      BY <2>5 DEF RemoveFinishedJob, Serial
    <2>6. CASE Tick
      BY <2>6 DEF Tick
    <2>7. ASSUME NEW w \in Workers, NEW e \in Gens, NEW r \in Reads,
                 HandleClusterEvent(w, e, r)
          PROVE SerialInv'
      BY <2>7 DEF HandleClusterEvent, Goto
    <2>8. ASSUME NEW w \in Workers, NEW r \in Reads, ListOldGenerations(w, r)
          PROVE SerialInv'
      BY <2>8, CallSucceeds DEF ListOldGenerations, Outdated, OfCluster, Goto
    <2>9. ASSUME NEW w \in Workers, NEW j \in todo[w], NEW r \in Writes, DeleteListed(w, j, r)
          PROVE SerialInv'
      <3>1. pc[w] = "sweep" /\ cgen[w] <= gen /\ j.gen < cgen[w]
        BY <2>9, BoundsAssumption DEF HoldInv, TodoOK, TypeInv, LocalsOK, Gens
      <3>2. /\ todo' = [todo EXCEPT ![w] = @ \ {j}]
            /\ UNCHANGED <<gen, now, pc, cgen, stamp, held>>
        BY <2>9 DEF DeleteListed
      <3>3. CASE jobs' = jobs /\ (Expired(w) \/ \A k \in jobs : Name(k) # Name(j))
        BY <3>1, <3>2, <3>3
      <3>4. CASE jobs' = {} /\ \E k \in jobs : Name(k) = Name(j)
        <4>1. PICK k \in jobs : Name(k) = Name(j)
          BY <3>4
        <4>2. last.gen < cgen[w] /\ last' = last
          BY <3>1, <3>4, <4>1, NameFields
        <4>3. held[w] = {}
          BY <3>1 DEF HoldInv, HeldOK
        <4>4. QED
          BY <3>1, <3>2, <3>4, <4>2, <4>3
      <3>5. QED
        BY <2>9, <3>3, <3>4, TimedCallSucceeds DEF DeleteListed, Delete, Took
    <2>10. ASSUME NEW w \in Workers, NEW r \in Reads, FindResourceForGeneration(w, r)
           PROVE SerialInv'
      BY <2>10, TimedCallSucceeds DEF FindResourceForGeneration, OfGeneration, Goto
    <2>11. ASSUME NEW w \in Workers, NEW r \in Reads, RefreshFound(w, r)
           PROVE SerialInv'
      BY <2>11, NameFields DEF RefreshFound, Refreshed, Running, Goto
    <2>12. ASSUME NEW w \in Workers, NEW r \in Writes, DeleteCompleted(w, r)
           PROVE SerialInv'
      BY <2>12, TimedCallSucceeds DEF DeleteCompleted, Delete, Took, Goto
    <2>13. ASSUME NEW w \in Workers, NEW r \in Writes, CreateVersionedResource(w, r)
           PROVE SerialInv'
      <3> DEFINE new == Rendered(w)
      <3>1. /\ pc[w] = "create" /\ held[w] = {}
            /\ UNCHANGED <<gen, now, cgen, stamp, todo>>
        BY <2>13 DEF CreateVersionedResource, HoldInv, HeldOK
      <3>2. \/ held' = held /\ pc' = [pc EXCEPT ![w] = "error"]
            \/ held' = [held EXCEPT ![w] = {new}] /\ pc' = [pc EXCEPT ![w] = "trim"]
        BY <2>13 DEF CreateVersionedResource, Goto
      <3>3. new.gen = cgen[w] /\ new.created = now
        BY DEF Rendered
      <3> HIDE DEF new
      <3>4. jobs' = jobs \/ (jobs = {} /\ jobs' = {new})
        BY <2>13, TimedCallSucceeds DEF CreateVersionedResource, Took, new
      <3>5. CASE jobs' = jobs
        BY <3>1, <3>2, <3>5
      <3>6. CASE jobs = {} /\ jobs' = {new}
        <4>1. last' = [gen |-> cgen[w], created |-> now]
          BY <1>n, <3>3, <3>6, LastCreated
        <4>2. cgen[w] <= gen /\ cgen[w] \in Nat
          BY <3>1, BoundsAssumption DEF TypeInv, LocalsOK, Gens
        <4>3. QED
          BY <3>1, <3>2, <3>3, <3>6, <4>1, <4>2
      <3>7. QED
        BY <3>4, <3>5, <3>6
    <2>14. ASSUME NEW w \in Workers, NEW r \in Reads, ListCompletedVersions(w, r)
           PROVE SerialInv'
      BY <2>14, NothingTrimmed DEF ListCompletedVersions, Goto
    <2>15. ASSUME NEW w \in Workers, NEW r \in Reads, RefreshForStatus(w, r)
           PROVE SerialInv'
      BY <2>15 DEF RefreshForStatus, Refreshed, Goto
    <2>16. ASSUME NEW w \in Workers, NEW r \in Writes, ReportStatus(w, r)
           PROVE SerialInv'
      BY <2>16 DEF ReportStatus, Return, Goto
    <2>17. ASSUME NEW w \in Workers, NEW r \in Writes, ReportError(w, r)
           PROVE SerialInv'
      BY <2>17 DEF ReportError, Return, Goto
    <2>18. QED
      BY <1>n, <2>1, <2>2, <2>3, <2>4, <2>5, <2>6, <2>7, <2>8, <2>9, <2>10, <2>11,
         <2>12, <2>13, <2>14, <2>15, <2>16, <2>17
         DEF HNext, Next, Environment, Deliver, Step, DeleteOldGeneration, DeleteOldVersion
  <1> QED
    BY <1>u, <1>n

\* Every step is one of the contract's, or leaves its state alone.
LEMMA ContractStep ==
  ASSUME Serial
  PROVE  TypeInv /\ HoldInv /\ SerialInv /\ [HNext]_hvars => [Contract!Next]_Contract!vars
  <1> SUFFICES ASSUME TypeInv, HoldInv, SerialInv, [HNext]_hvars
               PROVE  [Contract!Next]_Contract!vars
    OBVIOUS
  <1> DEFINE slot == {[gen |-> j.gen, done |-> j.done] : j \in jobs}
  <1>0. /\ gen \in Nat /\ jobs \in SUBSET Job
        /\ \A j \in Job : j.gen \in Nat /\ j.created \in Nat /\ j.done \in BOOLEAN
    BY BoundsAssumption DEF TypeInv, TypeOK, Gens, Times, Job
  <1>k. HNext => ((\A j \in jobs' : \E k \in jobs : Name(k) = Name(j)) => last' = last)
    BY LastCreated
  <1> USE DEF backend, locals
  <1>1. CASE UNCHANGED hvars \/ (HNext /\ UNCHANGED <<gen, now, jobs>>)
    BY <1>1, <1>k DEF hvars, vars, Contract!vars
  <1>2. CASE HNext /\ UpdateSpec
    BY <1>2, <1>k DEF UpdateSpec, Contract!Next, Contract!NewGeneration
  <1>3. CASE HNext /\ Tick
    BY <1>3, <1>k DEF Tick, Contract!Next, Contract!Tick
  <1>4. ASSUME HNext, NEW j \in jobs, FinishJob(j) PROVE Contract!Complete
    <2> DEFINE fin == [j EXCEPT !.done = TRUE]
    <2>1. Name(fin) = Name(j) /\ fin.gen = j.gen /\ fin.done = TRUE
      BY <1>0 DEF Name, Job
    <2>2. jobs = {j} /\ jobs' = {fin} /\ UNCHANGED <<gen, now>>
      BY <1>4 DEF FinishJob, SerialInv, SlotOK
    <2> HIDE DEF fin
    <2>3. last' = last
      BY <1>4, <1>k, <2>1, <2>2
    <2>4. slot = {[gen |-> j.gen, done |-> j.done]} /\ slot' = {[gen |-> j.gen, done |-> TRUE]}
      BY <2>1, <2>2
    <2>5. slot' = {[[gen |-> j.gen, done |-> j.done] EXCEPT !.done = TRUE]}
      BY <2>4
    <2>6. QED
      BY <2>2, <2>3, <2>4, <2>5 DEF Contract!Complete
  <1>5. ASSUME HNext, jobs' = {}, UNCHANGED <<gen, now>>,
               NEW j \in jobs, j.done \/ j.gen < gen
        PROVE  Contract!Clear
    <2>1. last' = last /\ slot' = {}
      BY <1>5, <1>k
    <2>2. \E r \in slot : r.done \/ r.gen < gen
      <3>1. [gen |-> j.gen, done |-> j.done] \in slot
        OBVIOUS
      <3>2. QED
        BY <1>5, <3>1
    <2>3. QED
      BY <1>5, <2>1, <2>2 DEF Contract!Clear
  <1>6. ASSUME HNext, NEW w \in Workers, NEW j \in todo[w], NEW r \in Writes, DeleteListed(w, j, r)
        PROVE  Contract!Clear \/ UNCHANGED <<gen, now, jobs>>
    <2>1. pc[w] = "sweep" /\ j.gen < cgen[w] /\ cgen[w] <= gen /\ cgen[w] \in Nat
      BY <1>6, BoundsAssumption
         DEF HoldInv, TodoOK, SerialInv, SweepOK, TypeInv, LocalsOK, Gens
    <2>2. ASSUME NEW k \in jobs, Name(k) = Name(j) PROVE k.gen < gen
      BY <1>0, <2>1, <2>2, NameFields
    <2>3. \/ UNCHANGED <<gen, now, jobs>>
          \/ jobs' = {} /\ UNCHANGED <<gen, now>> /\ \E k \in jobs : Name(k) = Name(j)
      BY <1>6 DEF DeleteListed, Delete, SerialInv, SlotOK
    <2>4. QED
      BY <1>5, <1>6, <2>2, <2>3
  <1>7. ASSUME HNext, NEW w \in Workers, NEW r \in Writes, DeleteCompleted(w, r)
        PROVE  Contract!Clear \/ UNCHANGED <<gen, now, jobs>>
    <2>1. PICK j \in held[w] : jobs' = IF Took(r) THEN Delete(j) ELSE jobs
      BY <1>7 DEF DeleteCompleted
    <2>2. PICK k \in jobs : Name(k) = Name(j) /\ k.done
      BY <1>7, <2>1 DEF DeleteCompleted, SerialInv, RecreateOK
    <2>3. UNCHANGED <<gen, now>> /\ (jobs' = jobs \/ jobs' = {})
      BY <1>7, <2>1, <2>2 DEF DeleteCompleted, Delete, SerialInv, SlotOK
    <2>4. QED
      BY <1>5, <1>7, <2>2, <2>3
  <1>8. ASSUME HNext, NEW w \in Workers, NEW r \in Writes, CreateVersionedResource(w, r)
        PROVE  (\E g \in 1 .. gen : Contract!Create(g)) \/ UNCHANGED <<gen, now, jobs>>
    <2> DEFINE new == Rendered(w)
    <2>1. new.gen = cgen[w] /\ new.created = now /\ new.done = FALSE
      BY DEF Rendered
    <2> HIDE DEF new
    <2>2. \/ jobs' = jobs
          \/ jobs = {} /\ jobs' = {new}
      BY <1>8, TimedCallSucceeds
         DEF CreateVersionedResource, Took, new, SerialInv, SweepOK
    <2>3. pc[w] = "create" /\ UNCHANGED <<gen, now>>
      BY <1>8 DEF CreateVersionedResource
    <2>4. CASE jobs = {} /\ jobs' = {new}
      <3>1. last' = [gen |-> cgen[w], created |-> now]
        BY <1>8, <2>1, <2>4, LastCreated
      <3>2. slot = {} /\ slot' = {[gen |-> cgen[w], done |-> FALSE]}
        BY <2>1, <2>4
      <3>3. cgen[w] \in 1 .. gen
        BY <2>3, BoundsAssumption DEF TypeInv, LocalsOK, Gens
      <3>4. Contract!Due(cgen[w])
        BY <1>0, <2>3, <2>4, <3>3
           DEF SerialInv, LastOK, BusyOK, VacantFor, Elapsed, Contract!Due
      <3>5. QED
        BY <2>3, <3>1, <3>2, <3>3, <3>4 DEF Contract!Create
    <2>5. QED
      BY <2>2, <2>3, <2>4
  <1>9. ASSUME NEW j \in jobs, RemoveFinishedJob(j) PROVE FALSE
    BY <1>9 DEF RemoveFinishedJob, Serial
  <1>10. ASSUME HNext
         PROVE  \/ UpdateSpec \/ Tick \/ \E j \in jobs : FinishJob(j) \/ RemoveFinishedJob(j)
                \/ \E w \in Workers, r \in Writes :
                     \/ \E j \in todo[w] : DeleteListed(w, j, r)
                     \/ DeleteCompleted(w, r)
                     \/ CreateVersionedResource(w, r)
                \/ UNCHANGED <<gen, now, jobs>>
    BY <1>10
       DEF HNext, Next, Environment, Deliver, Step,
           PublishReconcile, Crash, HandleClusterEvent, ListOldGenerations,
           DeleteOldGeneration, DeleteOldVersion, FindResourceForGeneration, RefreshFound,
           ListCompletedVersions, RefreshForStatus, ReportStatus, ReportError
  <1> HIDE DEF slot
  <1>11. ASSUME HNext PROVE [Contract!Next]_Contract!vars
    <2>1. ASSUME Contract!Complete \/ Contract!Clear PROVE Contract!Next
      BY <2>1 DEF Contract!Next
    <2>2. (\E g \in 1 .. gen : Contract!Create(g)) => Contract!Next
      BY DEF Contract!Next
    <2>3. \/ Contract!Next
          \/ UpdateSpec \/ Tick \/ UNCHANGED <<gen, now, jobs>>
      BY <1>4, <1>6, <1>7, <1>8, <1>9, <1>10, <1>11, <2>1, <2>2
    <2>4. QED
      BY <1>1, <1>2, <1>3, <1>11, <2>3
  <1>12. QED
    BY <1>1, <1>11

\* With its deliveries one at a time and no call failing but for its deadline,
\* whatever crashes, repeats or runs into the deadline, the controller fills the
\* slot of the cluster only when it is empty and a new resource is due, and empties
\* it only of a completed or an outdated one.
THEOREM ContractKept == ASSUME Serial PROVE HSpec => ImplementsContract
  <1>1. HInit => Contract!Init
    BY DEF HInit, Init, Contract!Init
  <1>2. HInit => TypeInv /\ HoldInv /\ SerialInv
    BY TypeInit, HoldInit, SerialInit DEF HInit
  <1>3. [HNext]_hvars => [Next]_vars
    BY DEF HNext, hvars
  <1>4. TypeInv /\ HoldInv /\ SerialInv /\ [HNext]_hvars => (TypeInv /\ HoldInv /\ SerialInv)'
    BY <1>3, Serial, TypeNext, HoldNext, SerialNext
  <1>5. TypeInv /\ HoldInv /\ SerialInv /\ [HNext]_hvars => [Contract!Next]_Contract!vars
    BY Serial, ContractStep
  <1>6. QED
    BY <1>1, <1>2, <1>4, <1>5, PTL DEF HSpec, ImplementsContract, Contract!Spec
===============================================================================
