------------------------ MODULE OwnedResourcesProofs ------------------------
(* Proofs about OwnedResources: its types, what reports of success say, that *)
(* no resource of a live owner is deleted, and that deletion is complete.    *)
EXTENDS OwnedResources, FiniteSetTheorems, TLAPS

-----------------------------------------------------------------------------
(* Types.                                                                    *)

Labels == {"idle", "cluster", "get", "create", "update", "report", "error", "delete"}

LEMMA FirstPlace == 1 \in Places /\ 1 \in Resources
  BY TemplateAssumption DEF Places, Resources

LEMMA NextPlace ==
  ASSUME NEW i \in Places, i \in Resources
  PROVE  i + 1 \in Places
  BY TemplateAssumption DEF Places, Resources

\* There is an object.
LEMMA SomeObject == [owner |-> Cluster, resource |-> 1] \in Objects /\ Cluster \in Owners
  BY FirstPlace DEF Objects, Owners

LEMMA TypeInit == Init => TypeOK
  <1> SUFFICES ASSUME Init PROVE TypeOK
    OBVIOUS
  <1>1. pc \in [Handlers -> {"idle"}] /\ pc \in [Handlers -> Labels]
    BY DEF Init, Idle, Labels
  <1>2. inbox \in SUBSET Event /\ spec \in [Owners -> Gens] /\ made \in [Objects -> 0 .. MaxGen]
    BY LimitsAssumption DEF Init, Event, Changed, Gens
  <1>3. /\ snap \in [Handlers -> 0 .. MaxGen]
        /\ at \in [Handlers -> Places]
        /\ drifts \in 0 .. MaxDrift /\ faults \in 0 .. MaxFaults /\ crashes \in 0 .. MaxCrashes
        /\ removals \in 0 .. MaxRemovals
    BY LimitsAssumption, FirstPlace DEF Init, First
  <1> QED
    BY <1>1, <1>2, <1>3 DEF Init, TypeOK, Labels

\* Specs change, owners are deleted, others write.
Outside(o, x) == UpdateSpec(o) \/ PublishReconcile(o) \/ DeleteOwner(o) \/ Drift(x)

\* The process ends.
Dies == Crash \/ Dereference

\* The configuration comes, goes or is missed.
Configures == LoadConfig \/ RemoveConfig \/ \E e \in Event : IgnoreEvent(e)

\* A handler gets an event or makes its next step.
Works(h) == Step(h) \/ \E e \in Event, r \in {"ok", "failed"} : HandleEvent(h, e, r)

LEMMA NextCases ==
  ASSUME Next
  PROVE  \/ \E o \in Owners, x \in Objects : Outside(o, x)
         \/ Dies
         \/ Configures
         \/ \E h \in Handlers : Works(h)
  BY SomeObject DEF Next, Deliver, Outside, Dies, Configures, Works

\* An end of the process counts when it is a crash.
LEMMA DeathFrame ==
  ASSUME TypeOK, Dies
  PROVE  /\ Die
         /\ UNCHANGED <<spec, deleted, inbox, object, made, late, missed, drifts, faults, removals>>
         /\ crashes' \in 0 .. MaxCrashes
  <1> USE LimitsAssumption DEF backend, counts
  <1>1. CASE Crash
    BY <1>1 DEF Crash, TypeOK
  <1>2. CASE Dereference
    BY <1>2 DEF Dereference, TypeOK
  <1> QED
    BY <1>1, <1>2 DEF Dies

\* With the configuration nothing else changes, but events that are ignored are gone.
LEMMA ConfigFrame ==
  ASSUME TypeOK, Configures
  PROVE  /\ UNCHANGED <<spec, deleted, object, fresh, pc, event, snap, at, todo, made, late,
                        drifts, faults, crashes>>
         /\ loaded' \in BOOLEAN /\ removals' \in 0 .. MaxRemovals
         /\ missed \subseteq missed' /\ missed' \in SUBSET Owners
         /\ inbox' \subseteq inbox
         /\ \A e \in inbox \ inbox' : Deletes(e) \subseteq missed'
  <1> USE LimitsAssumption DEF backend, handlers, counts, TypeOK
  <1>1. CASE LoadConfig
    BY <1>1 DEF LoadConfig
  <1>2. CASE RemoveConfig
    <2>1. removals' \in 0 .. MaxRemovals
      BY <1>2 DEF RemoveConfig
    <2> QED
      BY <1>2, <2>1 DEF RemoveConfig
  <1>3. CASE \E e \in Event : IgnoreEvent(e)
    BY <1>3 DEF IgnoreEvent, Deletes
  <1> QED
    BY <1>1, <1>2, <1>3 DEF Configures

LEMMA TypeEnvironment ==
  ASSUME TypeOK,
         \/ \E o \in Owners, x \in Objects : Outside(o, x)
         \/ Dies
         \/ Configures
  PROVE  TypeOK'
  <1> USE LimitsAssumption DEF TypeOK, backend, handlers, config, counts
  <1>1. CASE \E o \in Owners, x \in Objects : Outside(o, x)
    <2> SUFFICES ASSUME NEW o \in Owners, NEW x \in Objects, Outside(o, x) PROVE TypeOK'
      BY <1>1
    <2>1. CASE UpdateSpec(o)
      <3>1. spec[o] + 1 \in Gens
        BY <2>1 DEF UpdateSpec, Gens
      <3>2. Changed(o, spec[o] + 1) \in Event
        BY <3>1 DEF Changed, Event, Gens
      <3> QED
        BY <2>1, <3>1, <3>2 DEF UpdateSpec
    <2>2. CASE PublishReconcile(o)
      BY <2>2 DEF PublishReconcile, Changed, Event, Gens
    <2>3. CASE DeleteOwner(o)
      BY <2>3 DEF DeleteOwner, Deleted, Event
    <2>4. CASE Drift(x)
      <3>1. \A g \in Contents : Altered(g) \in Contents /\ 0 \in Contents
        BY DEF Contents, Altered
      <3>2. object' \in [Objects -> SUBSET Contents]
        BY <2>4, <3>1 DEF Drift
      <3> QED
        BY <2>4, <3>2 DEF Drift, Touch
    <2> QED
      BY <2>1, <2>2, <2>3, <2>4 DEF Outside
  <1>2. CASE Dies
    <2>1. /\ Die
          /\ UNCHANGED <<spec, deleted, inbox, object, made, late, missed, drifts, faults, removals>>
          /\ crashes' \in 0 .. MaxCrashes
      BY <1>2, DeathFrame
    <2>2. /\ pc' \in [Handlers -> {"idle"}] /\ pc' \in [Handlers -> Labels]
          /\ at' \in [Handlers -> Places] /\ loaded' \in BOOLEAN
      BY <2>1, FirstPlace DEF Die, Idle, First, Labels
    <2> QED
      BY <2>1, <2>2 DEF Die, Labels
  <1>3. CASE Configures
    BY <1>3, ConfigFrame
  <1> QED
    BY <1>1, <1>2, <1>3

\* A call counts its failure.
LEMMA TypeCall ==
  ASSUME faults \in 0 .. MaxFaults, NEW r, Call(r)
  PROVE  faults' \in 0 .. MaxFaults /\ faults' >= faults /\ (faults' = 0 => r = "ok")
  BY LimitsAssumption DEF Call

\* A callback that returns leaves nothing behind.
LEMMA TypeReturn ==
  ASSUME TypeOK, NEW h \in Handlers, NEW acked \in BOOLEAN, Return(h, acked),
         UNCHANGED <<backend, object, made, late, loaded, drifts, crashes, removals>>,
         faults' \in 0 .. MaxFaults, missed' \in SUBSET Owners
  PROVE  TypeOK'
  BY LimitsAssumption, FirstPlace DEF TypeOK, backend, Return, Goto

\* Where a handler goes after an object.
LEMMA TypeMove ==
  ASSUME TypeOK, NEW h \in Handlers, NEW x \in Objects, IsAt(h, x), Proceed(h) \/ Fail(h)
  PROVE  /\ at' \in [Handlers -> Places]
         /\ pc' \in [Handlers -> Labels] /\ pc'[h] \in {"report", "get", "error"}
         /\ \A k \in Handlers \ {h} : pc'[k] = pc[k]
  <1>1. at[h] \in Resources /\ at[h] \in Places /\ at[h] + 1 \in Places /\ 1 \in Places
    BY FirstPlace, NextPlace DEF TypeOK, IsAt, Objects
  <1> QED
    BY <1>1 DEF TypeOK, Labels, Proceed, Fail, Goto

LEMMA TypeStep ==
  ASSUME TypeOK, NEW h \in Handlers,
         Works(h)
  PROVE  TypeOK'
  <1> USE LimitsAssumption DEF TypeOK, backend, config, Goto
  <1>1. ASSUME NEW e \in Event, NEW r \in {"ok", "failed"}, HandleEvent(h, e, r) PROVE TypeOK'
    <2>1. faults' \in 0 .. MaxFaults
      BY <1>1, TypeCall DEF HandleEvent
    <2>2. snap' \in [Handlers -> 0 .. MaxGen]
      BY <1>1 DEF HandleEvent, Fetch, Event, Gens
    <2>3. /\ pc' \in [Handlers -> Labels] /\ pc'[h] # "idle"
          /\ \A k \in Handlers \ {h} : pc'[k] = pc[k]
      BY <1>1 DEF HandleEvent, Fetch, Labels
    <2>4. event' = [event EXCEPT ![h] = {e}]
      BY <1>1 DEF HandleEvent
    <2>5. \A k \in Handlers : pc'[k] = "idle" <=> event'[k] = {}
      BY <2>3, <2>4
    <2>6. \A k \in Handlers : \A f, g \in event'[k] : f = g
      BY <2>4
    <2>7. event' \in [Handlers -> SUBSET Event]
      BY <2>4
    <2>8. UNCHANGED <<spec, deleted, inbox, object, fresh, at, todo, made, late, loaded, missed,
                      drifts, crashes, removals>>
      BY <1>1 DEF HandleEvent
    <2> QED
      BY <2>1, <2>2, <2>3, <2>5, <2>6, <2>7, <2>8 DEF Labels
  <1>2. ASSUME NEW r \in {"ok", "failed"}, FetchCluster(h, r) PROVE TypeOK'
    <2>1. faults' \in 0 .. MaxFaults
      BY <1>2, TypeCall DEF FetchCluster
    <2>2. /\ pc' \in [Handlers -> Labels] /\ pc'[h] # "idle" /\ pc[h] # "idle"
          /\ \A k \in Handlers \ {h} : pc'[k] = pc[k]
      BY <1>2 DEF FetchCluster, Labels
    <2> QED
      BY <1>2, <2>1, <2>2 DEF FetchCluster, Labels
  <1>3. ASSUME NEW r \in {"ok", "failed"}, ListOwned(h, r) PROVE TypeOK'
    <2>1. faults' \in 0 .. MaxFaults
      BY <1>3, TypeCall DEF ListOwned
    <2>2. at' \in [Handlers -> Places]
      BY <1>3, NextPlace DEF ListOwned
    <2>3. todo' \in [Handlers -> SUBSET Objects]
      BY <1>3 DEF ListOwned
    <2> QED
      BY <1>3, <2>1, <2>2, <2>3 DEF ListOwned
  <1>4. ASSUME NEW r \in {"ok", "failed"}, Report(h, r) PROVE TypeOK'
    BY <1>4, TypeCall, TypeReturn DEF Report
  <1>5. ASSUME NEW x \in Objects, NEW r \in {"ok", "failed"}, GetObject(h, x, r) PROVE TypeOK'
    <2>1. faults' \in 0 .. MaxFaults
      BY <1>5, TypeCall DEF GetObject
    <2>2. /\ at' \in [Handlers -> Places] /\ fresh' \in SUBSET Handlers
          /\ pc' \in [Handlers -> Labels] /\ pc'[h] # "idle"
          /\ \A k \in Handlers \ {h} : pc'[k] = pc[k]
      BY <1>5, TypeMove DEF GetObject, Labels
    <2> QED
      BY <1>5, <2>1, <2>2 DEF GetObject, Labels
  <1>6. ASSUME NEW x \in Objects, NEW r \in Answers, NEW accepted,
               pc[h] \in {"create", "update"}, IsAt(h, x), Write(h, x, accepted, r)
        PROVE  TypeOK'
    <2>1. faults' \in 0 .. MaxFaults
      BY <1>6, TypeCall DEF Write
    <2>2. snap[h] \in Contents
      BY DEF Contents
    <2>3. /\ object' \in [Objects -> SUBSET Contents]
          /\ made' \in [Objects -> 0 .. MaxGen]
          /\ fresh' \in SUBSET Handlers
      BY <1>6, <2>2 DEF Write, Touch
    <2>4. /\ at' \in [Handlers -> Places]
          /\ pc' \in [Handlers -> Labels] /\ pc'[h] # "idle"
          /\ \A k \in Handlers \ {h} : pc'[k] = pc[k]
      BY <1>6, TypeMove DEF Write
    <2> QED
      BY <1>6, <2>1, <2>3, <2>4 DEF Write, Labels
  <1>7. ASSUME NEW x \in Objects, NEW r \in Answers, DeleteOwned(h, x, r) PROVE TypeOK'
    <2>1. faults' \in 0 .. MaxFaults
      BY <1>7, TypeCall DEF DeleteOwned
    <2>2. object' \in [Objects -> SUBSET Contents] /\ fresh' \in SUBSET Handlers
      BY <1>7 DEF DeleteOwned, Touch
    <2> QED
      BY <1>7, <2>1, <2>2 DEF DeleteOwned
  <1>8. CASE FinishDeletion(h)
    BY <1>8, TypeReturn DEF FinishDeletion, counts
  <1>9. CASE FindNoConfig(h)
    <2>1. UNION {Deletes(e) : e \in event[h]} \in SUBSET Owners
      BY DEF Deletes
    <2>2. missed' \in SUBSET Owners /\ faults' \in 0 .. MaxFaults
      BY <1>9, <2>1 DEF FindNoConfig, counts
    <2>3. UNCHANGED <<backend, object, made, late, loaded, drifts, crashes, removals>>
      BY <1>9 DEF FindNoConfig, counts
    <2>4. CASE Fail(h) /\ UNCHANGED <<inbox, event, snap, todo, fresh>> /\ pc[h] = "get"
      <3>1. /\ at' \in [Handlers -> Places] /\ pc' \in [Handlers -> Labels] /\ pc'[h] # "idle"
            /\ \A k \in Handlers \ {h} : pc'[k] = pc[k]
        BY <2>4, FirstPlace DEF Fail, Labels
      <3> QED
        BY <2>2, <2>3, <2>4, <3>1 DEF Labels
    <2>5. CASE \E acked \in BOOLEAN : Return(h, acked)
      BY <2>2, <2>3, <2>5, TypeReturn
    <2> QED
      BY <1>9, <2>4, <2>5 DEF FindNoConfig
  <1>10. ASSUME NEW x \in Objects, NEW r \in Answers, CreateObject(h, x, r) \/ UpdateObject(h, x, r)
        PROVE  TypeOK'
    <2>1. CASE CreateObject(h, x, r)
      BY <1>6, <2>1 DEF CreateObject
    <2>2. CASE UpdateObject(h, x, r)
      BY <1>6, <2>2 DEF UpdateObject
    <2> QED
      BY <1>10, <2>1, <2>2
  <1> QED
    BY <1>1, <1>2, <1>3, <1>4, <1>5, <1>7, <1>8, <1>9, <1>10 DEF Works, Step

\* A behaviour never leaves the types; a handler has an event exactly when it is busy.
THEOREM TypeCorrect == Spec => []TypeOK
  <1>1. TypeOK /\ [Next]_vars => TypeOK'
    <2> SUFFICES ASSUME TypeOK, [Next]_vars PROVE TypeOK'
      OBVIOUS
    <2>1. CASE UNCHANGED vars
      BY <2>1 DEF TypeOK, vars, backend, handlers, config, counts
    <2>2. CASE Next
      BY <2>2, NextCases, TypeEnvironment, TypeStep
    <2> QED
      BY <2>1, <2>2
  <1> QED
    BY TypeInit, <1>1, PTL DEF Spec

-----------------------------------------------------------------------------
(* What events, handlers, objects and lists for deletion say.                *)

\* No event is newer than its owner's spec, and only deletions are told as such.
EventOK(e) ==
  /\ e.gen <= spec[e.owner]
  /\ e.type = "deleted" => e = Deleted(e.owner) /\ e.owner \in deleted

\* The objects of o before the one h is at were made for the spec it fetched.
DoneBefore(h, o) ==
  \A x \in Objects : x.owner = o /\ x.resource < at[h] => snap[h] <= made[x]

\* The spec a handler fetched is no older than its event; a handler that reports
\* success has gone through all objects.
HandlerOK(h) ==
  \A e \in event[h] :
    /\ EventOK(e)
    /\ pc[h] = "delete" <=> e.type = "deleted"
    /\ pc[h] \in {"cluster", "get", "create", "update", "report"} =>
         e.gen <= snap[h] /\ DoneBefore(h, e.owner)
    /\ pc[h] = "report" => at[h] = Len(Templates) + 1

\* Handlers start with the first resource.
StartOK(h) == pc[h] \in {"idle", "cluster"} => at[h] = 1

EventsOK   == \A e \in inbox : EventOK(e)
HandlersOK == \A h \in Handlers : HandlerOK(h) /\ StartOK(h)
ObjectsOK  == \A x \in Objects : \A g \in object[x] : g <= made[x] /\ -g <= made[x]
TodosOK    == \A h \in Handlers : \A x \in todo[h] : Gone(x.owner)

Facts == TypeOK /\ EventsOK /\ HandlersOK /\ ObjectsOK /\ TodosOK

LEMMA FactsInit == Init => Facts
  <1> SUFFICES ASSUME Init PROVE Facts
    OBVIOUS
  <1>1. TypeOK
    BY TypeInit
  <1>2. EventsOK
    BY LimitsAssumption DEF Init, EventsOK, EventOK, Changed
  <1>3. HandlersOK /\ ObjectsOK /\ TodosOK
    BY DEF Init, First, HandlersOK, HandlerOK, StartOK, ObjectsOK, TodosOK
  <1> QED
    BY <1>1, <1>2, <1>3 DEF Facts

\* Specs, deletions and what was made only grow.
Grows ==
  /\ \A o \in Owners : spec[o] <= spec'[o]
  /\ \A x \in Objects : made[x] <= made'[x]
  /\ deleted \subseteq deleted'

\* As they grow, an event stays right, and so does a handler that does nothing.
LEMMA EventKept ==
  ASSUME TypeOK, TypeOK', Grows, NEW e \in Event, EventOK(e)
  PROVE  EventOK(e)'
  BY DEF TypeOK, Grows, Event, Gens, EventOK, Deleted

LEMMA DoneKept ==
  ASSUME TypeOK, TypeOK', Grows, NEW h \in Handlers, NEW o, DoneBefore(h, o),
         at'[h] = at[h], snap'[h] = snap[h]
  PROVE  DoneBefore(h, o)'
  <1> SUFFICES ASSUME NEW x \in Objects, x.owner = o, x.resource < at[h]
               PROVE  snap[h] <= made'[x]
    BY DEF DoneBefore
  <1>1. snap[h] \in Nat /\ made[x] \in Nat /\ made'[x] \in Nat
    BY DEF TypeOK
  <1> QED
    BY <1>1 DEF DoneBefore, Grows

LEMMA HandlerKept ==
  ASSUME TypeOK, TypeOK', Grows, NEW h \in Handlers, HandlerOK(h), StartOK(h),
         event'[h] = event[h], pc'[h] = pc[h], snap'[h] = snap[h], at'[h] = at[h]
  PROVE  HandlerOK(h)' /\ StartOK(h)'
  <1>1. StartOK(h)'
    BY DEF StartOK
  <1>2. HandlerOK(h)'
    <2> SUFFICES ASSUME NEW e \in event[h]
                 PROVE  /\ EventOK(e)'
                        /\ pc[h] = "delete" <=> e.type = "deleted"
                        /\ pc[h] \in {"cluster", "get", "create", "update", "report"} =>
                             e.gen <= snap[h] /\ DoneBefore(h, e.owner)'
                        /\ pc[h] = "report" => at[h] = Len(Templates) + 1
      BY DEF HandlerOK
    <2>1. EventOK(e)'
      BY EventKept DEF HandlerOK, TypeOK
    <2> QED
      BY <2>1, DoneKept DEF HandlerOK
  <1> QED
    BY <1>1, <1>2

\* A step of the environment.
LEMMA FactsEnvironment ==
  ASSUME Facts, TypeOK', NEW o \in Owners, NEW x \in Objects,
         Outside(o, x)
  PROVE  Facts'
  <1> USE DEF Facts, Outside, backend, handlers
  <1>1. Grows
    BY DEF UpdateSpec, PublishReconcile, DeleteOwner, Drift, TypeOK, Grows, Gens
  <1>2. HandlersOK'
    BY <1>1, HandlerKept DEF HandlersOK, UpdateSpec, PublishReconcile, DeleteOwner, Drift
  <1>3. EventsOK'
    <2> SUFFICES ASSUME NEW e \in inbox' PROVE EventOK(e)'
      BY DEF EventsOK
    <2>1. CASE e \in inbox
      BY <2>1, <1>1, EventKept DEF EventsOK, TypeOK
    <2>2. CASE e \notin inbox
      <3>1. spec'[o] \in Nat
        BY DEF TypeOK, Gens
      <3>2. \/ e = Changed(o, spec'[o])
            \/ e = Deleted(o) /\ o \in deleted'
        BY <2>2 DEF UpdateSpec, PublishReconcile, DeleteOwner, Drift, TypeOK, Gens
      <3> QED
        BY <3>1, <3>2 DEF EventOK, Changed, Deleted
    <2> QED
      BY <2>1, <2>2
  <1>4. ObjectsOK'
    <2>1. CASE Drift(x)
      <3>1. PICK g \in object[x] : \E a \in {0, Altered(g)} : object' = [object EXCEPT ![x] = {a}]
        BY <2>1 DEF Drift
      <3>2. PICK a \in {0, Altered(g)} : object' = [object EXCEPT ![x] = {a}]
        BY <3>1
      <3>3. made' = made /\ made[x] \in Nat /\ g \in Int /\ g <= made[x] /\ -g <= made[x]
        BY <2>1 DEF Drift, TypeOK, Contents, ObjectsOK
      <3>4. a <= made[x] /\ -a <= made[x]
        BY <3>3 DEF Altered
      <3> QED
        BY <3>2, <3>3, <3>4 DEF ObjectsOK, TypeOK
    <2>2. CASE ~Drift(x)
      BY <2>2 DEF ObjectsOK, UpdateSpec, PublishReconcile, DeleteOwner
    <2> QED
      BY <2>1, <2>2
  <1>5. TodosOK'
    BY DEF TodosOK, Gone, UpdateSpec, PublishReconcile, DeleteOwner, Drift
  <1> QED
    BY <1>2, <1>3, <1>4, <1>5

\* h makes the object.
Makes(h, x) ==
  /\ object' = [object EXCEPT ![x] = {snap[h]}]
  /\ made' = [made EXCEPT ![x] = IF snap[h] > @ THEN snap[h] ELSE @]

\* A write makes its object or fails, or both.
LEMMA ObjectWrites ==
  ASSUME NEW h \in Handlers, NEW x \in Objects, NEW r \in Answers,
         CreateObject(h, x, r) \/ UpdateObject(h, x, r)
  PROVE  /\ UNCHANGED <<backend, inbox, event, snap, todo, late, config, drifts, crashes, removals>>
         /\ \/ UNCHANGED <<object, made>> /\ Fail(h)
            \/ Makes(h, x) /\ (Proceed(h) \/ Fail(h))
  BY DEF CreateObject, UpdateObject, Write, Took, Makes

\* What the steps of h leave alone.
LEMMA StepFrame ==
  ASSUME TypeOK, NEW h \in Handlers,
         Works(h)
  PROVE  /\ Grows /\ UNCHANGED <<spec, deleted, late>>
         /\ inbox' \subseteq inbox /\ missed \subseteq missed'
         /\ \A k \in Handlers \ {h} :
              /\ pc'[k] = pc[k] /\ event'[k] = event[k] /\ at'[k] = at[k]
              /\ snap'[k] = snap[k] /\ todo'[k] = todo[k]
  <1> USE DEF TypeOK, backend, config, counts, Grows, Gens, Goto
  <1>1. CASE \E e \in Event, r \in {"ok", "failed"} : HandleEvent(h, e, r)
    BY <1>1 DEF HandleEvent, Fetch
  <1>2. CASE \E r \in {"ok", "failed"} : FetchCluster(h, r) \/ ListOwned(h, r) \/ Report(h, r)
    BY <1>2 DEF FetchCluster, ListOwned, Report, Return
  <1>3. CASE \E x \in Objects, r \in {"ok", "failed"} : GetObject(h, x, r)
    BY <1>3 DEF GetObject, Proceed, Fail
  <1>4. CASE \E x \in Objects, r \in Answers : CreateObject(h, x, r) \/ UpdateObject(h, x, r)
    <2>1. PICK x \in Objects, r \in Answers : CreateObject(h, x, r) \/ UpdateObject(h, x, r)
      BY <1>4
    <2>2. /\ UNCHANGED <<backend, inbox, event, snap, todo, late, config>>
          /\ UNCHANGED <<object, made>> \/ Makes(h, x)
          /\ Proceed(h) \/ Fail(h)
      BY <2>1, ObjectWrites
    <2>3. \A y \in Objects : made[y] <= made'[y]
      BY <2>2 DEF Makes
    <2> QED
      BY <2>2, <2>3 DEF Proceed, Fail
  <1>5. CASE \E x \in Objects, r \in Answers : DeleteOwned(h, x, r)
    BY <1>5 DEF DeleteOwned
  <1>6. CASE FinishDeletion(h)
    BY <1>6 DEF FinishDeletion, Return
  <1>7. CASE FindNoConfig(h)
    BY <1>7 DEF FindNoConfig, Fail, Return
  <1> QED
    BY <1>1, <1>2, <1>3, <1>4, <1>5, <1>6, <1>7 DEF Works, Step

\* A handler that goes on from an object that is made has made all before the next.
LEMMA HandlerProceeds ==
  ASSUME TypeOK, TypeOK', NEW h \in Handlers, NEW x \in Objects, IsAt(h, x), Grows,
         HandlerOK(h), pc[h] \in {"get", "create", "update"}, snap'[h] = snap[h],
         event'[h] = event[h], EventOK(CHOOSE e \in event[h] : TRUE)',
         Proceed(h), snap[h] <= made'[x]
  PROVE  HandlerOK(h)' /\ StartOK(h)'
  <1> SUFFICES ASSUME NEW e \in event[h]
               PROVE  /\ EventOK(e)' /\ e.type # "deleted"
                      /\ pc'[h] \in {"get", "report"}
                      /\ e.gen <= snap[h] /\ DoneBefore(h, e.owner)'
                      /\ pc'[h] = "report" => at'[h] = Len(Templates) + 1
    BY DEF HandlerOK, StartOK, IsAt, Handles
  <1>1. e = (CHOOSE f \in event[h] : TRUE) /\ e.owner = x.owner
    BY DEF TypeOK, IsAt, Handles
  <1>2. /\ at'[h] = at[h] + 1 /\ pc'[h] \in {"get", "report"}
        /\ pc'[h] = "report" => at[h] = Len(Templates)
        /\ at[h] \in Nat /\ Len(Templates) \in Nat
    BY TemplateAssumption DEF Proceed, Goto, TypeOK, Places
  <1>3. DoneBefore(h, e.owner)'
    <2> SUFFICES ASSUME NEW y \in Objects, y.owner = e.owner, y.resource < at[h] + 1
                 PROVE  snap[h] <= made'[y]
      BY <1>2 DEF DoneBefore
    <2>1. y.resource \in Nat /\ x.resource = at[h]
      BY DEF Objects, Resources, IsAt
    <2>2. CASE y.resource = at[h]
      BY <1>1, <2>1, <2>2 DEF Objects
    <2>3. CASE y.resource < at[h]
      <3>1. snap[h] <= made[y]
        BY <2>3 DEF HandlerOK, DoneBefore
      <3>2. snap[h] \in Nat /\ made[y] \in Nat /\ made'[y] \in Nat /\ made[y] <= made'[y]
        BY DEF TypeOK, Grows
      <3> QED
        BY <3>1, <3>2
    <2> QED
      BY <1>2, <2>1, <2>2, <2>3
  <1> QED
    BY <1>1, <1>2, <1>3 DEF HandlerOK

\* A handler that fails claims nothing.
LEMMA HandlerFails ==
  ASSUME TypeOK, NEW h \in Handlers, HandlerOK(h), pc[h] # "delete", event'[h] = event[h],
         EventOK(CHOOSE e \in event[h] : TRUE)', pc'[h] = "error"
  PROVE  HandlerOK(h)' /\ StartOK(h)'
  BY DEF TypeOK, HandlerOK, StartOK

\* The handler that takes a step stays right: when it gets an event,
LEMMA HandlerGetsEvent ==
  ASSUME Facts, TypeOK', NEW h \in Handlers, NEW e \in Event, NEW r \in {"ok", "failed"},
         HandleEvent(h, e, r)
  PROVE  HandlerOK(h)' /\ StartOK(h)'
  <1> USE DEF Facts, Goto
  <1>1. event'[h] = {e} /\ at'[h] = 1 /\ e \in inbox /\ EventOK(e) /\ EventOK(e)'
    <2>1. event'[h] = {e} /\ e \in inbox /\ at'[h] = 1
      BY DEF HandleEvent, TypeOK, HandlersOK, StartOK
    <2> QED
      BY <2>1, StepFrame, EventKept DEF EventsOK, Works
  <1>2. \A o : DoneBefore(h, o)'
    BY <1>1, TemplateAssumption DEF DoneBefore, Objects, Resources
  <1>3. e.gen \in Nat /\ e.type \in {"changed", "deleted"} /\ e.owner \in Owners
    BY DEF Event
  <1>4. \/ e.type = "deleted" /\ pc'[h] = "delete"
        \/ e.type # "deleted" /\ pc'[h] = "error"
        \/ e.type # "deleted" /\ pc'[h] \in {"get", "cluster"} /\ snap'[h] = spec[e.owner]
    BY <1>3 DEF HandleEvent, Fetch, TypeOK
  <1> QED
    BY <1>1, <1>2, <1>4 DEF HandlerOK, StartOK, EventOK

\* when it creates or updates,
LEMMA HandlerApplies ==
  ASSUME Facts, TypeOK', NEW h \in Handlers, Grows, snap'[h] = snap[h], event'[h] = event[h],
         \A e \in event[h] : EventOK(e)',
         NEW x \in Objects,
         \/ \E r \in {"ok", "failed"} : GetObject(h, x, r)
         \/ \E r \in Answers : CreateObject(h, x, r) \/ UpdateObject(h, x, r)
  PROVE  HandlerOK(h)' /\ StartOK(h)'
  <1> USE DEF Facts
  <1>1. TypeOK /\ HandlerOK(h)
    BY DEF HandlersOK
  <1>2. pc[h] \in {"get", "create", "update"} /\ IsAt(h, x)
    BY DEF GetObject, CreateObject, UpdateObject
  <1>3. EventOK(CHOOSE e \in event[h] : TRUE)'
    BY <1>2 DEF IsAt, Handles
  <1>4. CASE Fail(h)
    <2>1. pc'[h] = "error"
      BY <1>4 DEF Fail, Goto, TypeOK
    <2> QED
      BY <1>1, <1>2, <1>3, <2>1, HandlerFails
  <1>5. CASE Proceed(h)
    <2>1. snap[h] <= made'[x]
      <3>1. snap[h] \in Nat /\ made[x] \in Nat /\ made'[x] \in Nat
        BY DEF TypeOK
      <3>2. CASE \E r \in {"ok", "failed"} : GetObject(h, x, r)
        <4>1. pc'[h] \in {"get", "report"} /\ pc[h] = "get"
          BY <1>5, <3>2 DEF Proceed, Goto, TypeOK, GetObject
        <4>2. at'[h] # at[h]
          BY <1>5 DEF Proceed, TypeOK, Places
        <4>3. (\E g \in object[x] : g \in Int /\ snap[h] \in {g, -g}) /\ made' = made
          <5>1. PICK r \in {"ok", "failed"} : GetObject(h, x, r)
            BY <3>2
          <5>2. x \in Rendered /\ ~NeedsUpdate(object[x], snap[h])
            BY <4>1, <4>2, <5>1 DEF GetObject, Goto, Fail, TypeOK
          <5>3. object[x] \in {{snap[h]}, {Altered(snap[h])}} /\ made' = made
            BY <5>1, <5>2 DEF GetObject, NeedsUpdate
          <5>4. Altered(snap[h]) \in {snap[h], -snap[h]}
            BY DEF Altered
          <5> QED
            BY <3>1, <5>3, <5>4
        <4> QED
          BY <4>3, <3>1 DEF ObjectsOK
      <3>3. CASE \E r \in Answers : CreateObject(h, x, r) \/ UpdateObject(h, x, r)
        <4>1. ~Fail(h)
          BY <1>5 DEF Proceed, Fail, Goto, TypeOK
        <4>2. Makes(h, x)
          BY <3>3, <4>1, ObjectWrites
        <4> QED
          BY <3>1, <4>2 DEF Makes, TypeOK
      <3> QED
        BY <3>2, <3>3
    <2> QED
      BY <1>1, <1>2, <1>3, <1>5, <2>1, HandlerProceeds
  <1>6. CASE ~Fail(h) /\ ~Proceed(h)
    <2>1. at'[h] = at[h] /\ pc[h] = "get" /\ pc'[h] \in {"create", "update"}
      BY <1>6 DEF GetObject, CreateObject, UpdateObject, Write, Goto, TypeOK
    <2>2. \A e \in event[h] : e.type # "deleted" /\ e.gen <= snap[h] /\ DoneBefore(h, e.owner)'
      BY <1>1, <2>1, DoneKept DEF HandlerOK
    <2> QED
      BY <2>1, <2>2 DEF HandlerOK, StartOK
  <1> QED
    BY <1>4, <1>5, <1>6

\* and in any other step.
LEMMA HandlerStep ==
  ASSUME Facts, TypeOK', NEW h \in Handlers,
         Works(h)
  PROVE  HandlerOK(h)' /\ StartOK(h)'
  <1> USE DEF Facts, Goto
  <1>1. CASE \E e \in Event, r \in {"ok", "failed"} : HandleEvent(h, e, r)
    BY <1>1, HandlerGetsEvent
  <1>2. ASSUME NEW acked \in BOOLEAN, Return(h, acked)
        PROVE  HandlerOK(h)' /\ StartOK(h)'
    <2>1. event'[h] = {} /\ at'[h] = 1
      BY <1>2 DEF Return, TypeOK
    <2> QED
      BY <2>1 DEF HandlerOK, StartOK
  <1>3. CASE FinishDeletion(h) \/ \E r \in {"ok", "failed"} : Report(h, r)
    BY <1>2, <1>3 DEF FinishDeletion, Report
  <1>4. CASE FindNoConfig(h)
    <2>1. CASE Fail(h) /\ pc[h] = "get" /\ UNCHANGED event
      <3>1. pc'[h] = "error" /\ event'[h] = event[h] /\ TypeOK /\ HandlerOK(h)
        BY <2>1 DEF Fail, TypeOK, HandlersOK
      <3>2. event[h] # {}
        BY <2>1 DEF TypeOK
      <3>3. EventOK(CHOOSE e \in event[h] : TRUE)'
        BY <1>4, <3>1, <3>2 DEF HandlerOK, FindNoConfig, backend, EventOK
      <3> QED
        BY <2>1, <3>1, <3>3, HandlerFails
    <2> QED
      BY <1>2, <1>4, <2>1 DEF FindNoConfig
  <1>5. ASSUME event'[h] = event[h], Step(h)
        PROVE  /\ Grows
               /\ \A e \in event[h] : EventOK(e)'
    <2>1. Grows
      BY <1>5, StepFrame DEF Works
    <2>2. \A e \in event[h] : EventOK(e) /\ e \in Event
      BY DEF HandlersOK, HandlerOK, TypeOK
    <2> QED
      BY <2>1, <2>2, EventKept
  <1>6. ASSUME NEW x \in Objects,
               \/ \E r \in {"ok", "failed"} : GetObject(h, x, r)
               \/ \E r \in Answers : CreateObject(h, x, r) \/ UpdateObject(h, x, r)
        PROVE  HandlerOK(h)' /\ StartOK(h)'
    <2>1. event'[h] = event[h] /\ snap'[h] = snap[h] /\ Step(h)
      BY <1>6 DEF GetObject, CreateObject, UpdateObject, Write, Step
    <2> QED
      BY <1>5, <1>6, <2>1, HandlerApplies
  <1>7. CASE \/ \E r \in {"ok", "failed"} : FetchCluster(h, r) \/ ListOwned(h, r)
             \/ \E x \in Objects, r \in Answers : DeleteOwned(h, x, r)
    <2>1. /\ event'[h] = event[h] /\ snap'[h] = snap[h] /\ made' = made
          /\ \/ pc[h] = "cluster" /\ at'[h] = at[h] /\ pc'[h] \in {"get", "error"}
             \/ pc[h] = "delete" /\ pc'[h] = "delete"
      BY <1>7 DEF FetchCluster, ListOwned, DeleteOwned, TypeOK
    <2>2. \A e \in event[h] : EventOK(e)'
      BY <1>5, <1>7, <2>1 DEF Step, Answers
    <2>3. \A e \in event[h] : at'[h] = at[h] /\ DoneBefore(h, e.owner) => DoneBefore(h, e.owner)'
      BY <2>1 DEF DoneBefore
    <2> QED
      BY <2>1, <2>2, <2>3 DEF HandlersOK, HandlerOK, StartOK
  <1> QED
    BY <1>1, <1>3, <1>6, <1>7, <1>4 DEF Works, Step

\* Only writes and deletions change objects.
LEMMA ObjectStep ==
  ASSUME NEW h \in Handlers,
         Works(h),
         object' # object
  PROVE  \E x \in Objects, r \in Answers :
           CreateObject(h, x, r) \/ UpdateObject(h, x, r) \/ DeleteOwned(h, x, r)
  <1>1. ~ \E e \in Event, r \in {"ok", "failed"} : HandleEvent(h, e, r)
    BY DEF HandleEvent
  <1>2. ~ \E r \in {"ok", "failed"} : FetchCluster(h, r) \/ ListOwned(h, r) \/ Report(h, r)
    BY DEF FetchCluster, ListOwned, Report
  <1>3. ~ \E x \in Objects, r \in {"ok", "failed"} : GetObject(h, x, r)
    BY DEF GetObject
  <1>4. ~ FinishDeletion(h) /\ ~ FindNoConfig(h)
    BY DEF FinishDeletion, FindNoConfig
  <1> QED
    BY <1>1, <1>2, <1>3, <1>4 DEF Works, Step

\* A step of a handler.
LEMMA FactsStep ==
  ASSUME Facts, TypeOK', NEW h \in Handlers,
         Works(h)
  PROVE  Facts'
  <1>1. EventsOK'
    <2> SUFFICES ASSUME NEW e \in inbox' PROVE EventOK(e)'
      BY DEF EventsOK
    <2>1. e \in inbox /\ e \in Event
      BY StepFrame DEF Facts, TypeOK
    <2> QED
      BY <2>1, StepFrame, EventKept DEF Facts, EventsOK
  <1>2. HandlersOK'
    <2> SUFFICES ASSUME NEW k \in Handlers PROVE HandlerOK(k)' /\ StartOK(k)'
      BY DEF HandlersOK
    <2>1. CASE k = h
      BY <2>1, HandlerStep
    <2>2. CASE k # h
      BY <2>2, StepFrame, HandlerKept DEF Facts, HandlersOK
    <2> QED
      BY <2>1, <2>2
  <1>3. ObjectsOK'
    <2> SUFFICES ASSUME NEW x \in Objects, NEW g \in object'[x]
                 PROVE  g <= made'[x] /\ -g <= made'[x]
      BY DEF ObjectsOK
    <2>1. made[x] <= made'[x] /\ made[x] \in Nat /\ made'[x] \in Nat /\ g \in Int
      BY StepFrame DEF Facts, TypeOK, Grows, Contents
    <2>2. CASE g \in object[x]
      BY <2>1, <2>2 DEF Facts, ObjectsOK
    <2>3. CASE g \notin object[x]
      <3> object \in [Objects -> SUBSET Contents] /\ TypeOK
        BY DEF Facts, TypeOK
      <3>1. PICK y \in Objects : Makes(h, y)
        BY <2>3, ObjectStep, ObjectWrites DEF DeleteOwned
      <3>2. /\ y = x /\ g = snap[h] /\ snap[h] \in Nat
            /\ made'[x] = IF snap[h] > made[x] THEN snap[h] ELSE made[x]
        BY <2>3, <3>1 DEF Makes, TypeOK
      <3> QED
        BY <2>1, <3>2
    <2> QED
      BY <2>2, <2>3
  <1>4. TodosOK'
    <2> SUFFICES ASSUME NEW k \in Handlers, NEW x \in todo'[k] PROVE Gone(x.owner)
      BY StepFrame DEF TodosOK, Gone, Facts
    <2>1. CASE x \in todo[k]
      BY <2>1 DEF Facts, TodosOK
    <2>2. CASE x \notin todo[k]
      <3>1. PICK r \in {"ok", "failed"} : k = h /\ ListOwned(h, r)
        BY <2>2, StepFrame
           DEF Facts, TypeOK, Works, Step, HandleEvent, FetchCluster, Report, GetObject, Return,
               CreateObject, UpdateObject, Write, DeleteOwned, FinishDeletion, FindNoConfig
      <3>2. PICK e \in event[h] : pc[h] = "delete" /\ Selects(e.owner, x.owner)
        BY <2>2, <3>1 DEF ListOwned, Facts, TypeOK
      <3>3. e.owner \in deleted
        BY <3>2 DEF Facts, HandlersOK, HandlerOK, EventOK
      <3> QED
        BY <3>2, <3>3 DEF Selects, Gone
    <2> QED
      BY <2>1, <2>2
  <1> QED
    BY <1>1, <1>2, <1>3, <1>4 DEF Facts

LEMMA FactsNext == Facts /\ [Next]_vars => Facts'
  <1> SUFFICES ASSUME Facts, [Next]_vars PROVE Facts'
    OBVIOUS
  <1>1. CASE UNCHANGED vars
    BY <1>1 DEF vars, backend, handlers, config, counts, Facts, TypeOK, EventsOK, EventOK, HandlersOK,
                HandlerOK, StartOK, DoneBefore, ObjectsOK, TodosOK, Gone
  <1>2. CASE Dies
    <2>1. TypeOK'
      BY <1>2, TypeEnvironment DEF Facts
    <2> QED
      BY <1>2, <2>1, DeathFrame DEF Die, Idle, First, Facts, EventsOK, EventOK, HandlersOK,
                        HandlerOK, StartOK, ObjectsOK, TodosOK
  <1>3. CASE \E o \in Owners, x \in Objects : Outside(o, x)
    BY <1>3, TypeEnvironment, FactsEnvironment DEF Facts
  <1>4. CASE Configures
    <2>1. TypeOK'
      BY <1>4, TypeEnvironment DEF Facts
    <2> QED
      BY <1>4, <2>1, ConfigFrame DEF Facts, EventsOK, EventOK, HandlersOK, HandlerOK, StartOK,
                                     DoneBefore, ObjectsOK, TodosOK, Gone
  <1>5. CASE \E h \in Handlers : Works(h)
    BY <1>5, TypeStep, FactsStep DEF Facts
  <1> QED
    BY <1>1, <1>2, <1>3, <1>4, <1>5, NextCases

\* Whatever the interleaving, the faults and the crashes, a report of success is
\* about a spec that each object of its owner was made for.
THEOREM ReportsAreTrue == Spec => []AppliedWasMade
  <1>1. Facts => AppliedWasMade
    <2> SUFFICES ASSUME Facts, NEW h \in Handlers, NEW e \in event[h], NEW x \in Objects,
                        pc[h] = "report", x.owner = e.owner
                 PROVE  ReportOf(h, e).observed <= made[x]
      BY DEF AppliedWasMade
    <2>1. x.resource < at[h]
      BY TemplateAssumption DEF Facts, HandlersOK, HandlerOK, Objects, Resources
    <2>2. /\ e.gen \in Nat /\ snap[h] \in Nat /\ made[x] \in Nat
          /\ e.gen <= snap[h] /\ snap[h] <= made[x]
      BY <2>1 DEF Facts, TypeOK, Event, HandlersOK, HandlerOK, DoneBefore
    <2> QED
      BY <2>2 DEF ReportOf, Observed
  <1> QED
    BY <1>1, FactsInit, FactsNext, PTL DEF Spec

\* An object that disappears is one of a deleted nodepool or cluster.
THEOREM LiveObjectsAreKept == Spec => LiveObjectsStay
  <1>1. Facts /\ [Next]_vars
          => [\A x \in Objects : object[x] # {} /\ object'[x] = {} => Gone(x.owner)]_vars
    <2> SUFFICES ASSUME Facts, Next, NEW x \in Objects, object[x] # {}, object'[x] = {}
                 PROVE  Gone(x.owner)
      OBVIOUS
    <2>1. PICK h \in Handlers, y \in Objects, r \in Answers : DeleteOwned(h, y, r)
      <3>1. ~Dies /\ ~Configures
        BY DeathFrame, ConfigFrame DEF Facts
      <3>2. ASSUME NEW o \in Owners, NEW y \in Objects, Outside(o, y) PROVE FALSE
        <4>1. object \in [Objects -> SUBSET Contents]
          BY DEF Facts, TypeOK
        <4>2. CASE Drift(y)
          BY <4>1, <4>2 DEF Drift
        <4> QED
          BY <3>2, <4>2 DEF Outside, UpdateSpec, PublishReconcile, DeleteOwner
      <3>3. PICK h \in Handlers, y \in Objects, r \in Answers :
              CreateObject(h, y, r) \/ UpdateObject(h, y, r) \/ DeleteOwned(h, y, r)
        BY <3>1, <3>2, NextCases, ObjectStep
      <3>4. ~CreateObject(h, y, r) /\ ~UpdateObject(h, y, r)
        <4>1. object \in [Objects -> SUBSET Contents] /\ {snap[h]} # {} /\ TypeOK
          BY DEF Facts, TypeOK
        <4> QED
          BY <4>1, ObjectWrites DEF Makes
      <3> QED
        BY <3>3, <3>4
    <2>2. x \in todo[h]
      BY <2>1 DEF DeleteOwned, Facts, TypeOK
    <2> QED
      BY <2>2 DEF Facts, TodosOK
  <1> QED
    BY <1>1, FactsInit, FactsNext, PTL DEF Spec, LiveObjectsStay

-----------------------------------------------------------------------------
(* The contract.                                                             *)

\* o is gone, and nothing was creating for it when it went.
Swept(o) == Gone(o) /\ o \notin late

\* Nothing creates for it later either.
NoneApplying ==
  \A h \in Handlers, o \in Owners :
    Swept(o) /\ Handles(h, o) =>
      /\ pc[h] \notin {"get", "create", "update"}
      /\ pc[h] = "cluster" => Cluster \in deleted

\* What a handler applies, its owner had.
SnapsOK ==
  \A h \in Handlers : \A e \in event[h] :
    pc[h] \in {"cluster", "get", "create", "update"} => snap[h] \in 1 .. spec[e.owner]

Owning == Facts /\ NoneApplying /\ SnapsOK

LEMMA OwningInit == Init => Owning
  <1> SUFFICES ASSUME Init PROVE Owning
    OBVIOUS
  <1>1. \A o \in Owners : ~Gone(o)
    BY DEF Init, Gone
  <1> QED
    BY <1>1, FactsInit DEF Init, Owning, NoneApplying, Swept, SnapsOK

\* Who is at work on an owner that goes is late.
LEMMA NoneApplyingEnvironment ==
  ASSUME TypeOK, NoneApplying, NEW p \in Owners, NEW y \in Objects, Outside(p, y)
  PROVE  NoneApplying'
  <1> USE DEF Outside
  <1>1. UNCHANGED <<pc, event>> /\ late \subseteq late'
    BY DEF UpdateSpec, PublishReconcile, DeleteOwner, Drift, handlers
  <1> SUFFICES ASSUME NEW h \in Handlers, NEW o \in Owners, Swept(o)', Handles(h, o)
               PROVE  /\ pc[h] \notin {"get", "create", "update"}
                      /\ pc[h] = "cluster" => Cluster \in deleted'
    BY <1>1 DEF NoneApplying, Handles
  <1>2. CASE DeleteOwner(p)
    <2>1. CASE Gone(o)
      BY <1>2, <2>1, <1>1 DEF DeleteOwner, Swept, NoneApplying
    <2>2. CASE ~Gone(o)
      <3>1. Selects(p, o)
        BY <1>2, <2>2 DEF DeleteOwner, Swept, Gone, Selects
      <3> QED
        BY <1>2, <3>1 DEF DeleteOwner, Swept, Applying
    <2> QED
      BY <2>1, <2>2
  <1>3. CASE ~DeleteOwner(p)
    <2>1. UNCHANGED <<deleted, late>>
      BY <1>3 DEF UpdateSpec, PublishReconcile, Drift, backend
    <2> QED
      BY <2>1 DEF Swept, Gone, NoneApplying
  <1> QED
    BY <1>2, <1>3

\* No step of h starts to create for an owner that is gone.
LEMMA NoneApplyingStep ==
  ASSUME Facts, NoneApplying, NEW h \in Handlers,
         Works(h)
  PROVE  NoneApplying'
  <1> USE DEF Goto
  <1> TypeOK
    BY DEF Facts
  <1> SUFFICES ASSUME NEW k \in Handlers, NEW o \in Owners, Swept(o), Handles(k, o)'
               PROVE  /\ pc'[k] \notin {"get", "create", "update"}
                      /\ pc'[k] = "cluster" => Cluster \in deleted
    BY StepFrame DEF NoneApplying, Swept, Gone
  <1>1. CASE k # h
    BY <1>1, StepFrame DEF Handles, NoneApplying
  <1>2. CASE k = h /\ \E e \in Event, r \in {"ok", "failed"} : HandleEvent(h, e, r)
    <2>1. PICK e \in Event, r \in {"ok", "failed"} : HandleEvent(h, e, r)
      BY <1>2
    <2>2. e.owner = o
      BY <1>2, <2>1 DEF HandleEvent, Handles, TypeOK
    <2> QED
      BY <1>2, <2>1, <2>2 DEF HandleEvent, Fetch, Swept, Gone, TypeOK
  <1>3. CASE k = h /\ Step(h)
    <2>1. /\ Handles(h, o)
             => /\ pc[h] \notin {"get", "create", "update"}
                /\ pc[h] = "cluster" => Cluster \in deleted
      BY DEF NoneApplying
    <2>2. CASE \E r \in {"ok", "failed"} : FetchCluster(h, r)
      BY <1>3, <2>1, <2>2 DEF FetchCluster, Handles, TypeOK
    <2>3. CASE \E r \in {"ok", "failed"} : ListOwned(h, r) \/ Report(h, r)
      BY <1>3, <2>3 DEF ListOwned, Report, Return, Handles, TypeOK
    <2>4. CASE \E x \in Objects, r \in {"ok", "failed"} : GetObject(h, x, r)
      BY <1>3, <2>1, <2>4 DEF GetObject, Handles, TypeOK
    <2>5. CASE \E x \in Objects, r \in Answers : CreateObject(h, x, r) \/ UpdateObject(h, x, r)
      BY <1>3, <2>1, <2>5, ObjectWrites DEF CreateObject, UpdateObject, Handles, TypeOK
    <2>6. CASE \E x \in Objects, r \in Answers : DeleteOwned(h, x, r)
      BY <1>3, <2>1, <2>6 DEF DeleteOwned, Handles, TypeOK
    <2>7. CASE FinishDeletion(h) \/ FindNoConfig(h)
      BY <1>3, <2>7 DEF FinishDeletion, FindNoConfig, Fail, Return, Handles, TypeOK
    <2> QED
      BY <1>3, <2>2, <2>3, <2>4, <2>5, <2>6, <2>7 DEF Step
  <1> QED
    BY <1>1, <1>2, <1>3 DEF Works

\* A snapshot is the spec that a handler got, and specs only grow.
LEMMA SnapsStep ==
  ASSUME Facts, SnapsOK, TypeOK', NEW h \in Handlers,
         Works(h)
  PROVE  SnapsOK'
  <1> USE DEF Goto
  <1> TypeOK
    BY DEF Facts
  <1> SUFFICES ASSUME NEW k \in Handlers, NEW e \in event'[k],
                      pc'[k] \in {"cluster", "get", "create", "update"}
               PROVE  snap'[k] \in 1 .. spec[e.owner]
    BY StepFrame DEF SnapsOK
  <1>1. CASE k # h
    BY <1>1, StepFrame DEF SnapsOK
  <1>2. CASE k = h /\ \E f \in Event, r \in {"ok", "failed"} : HandleEvent(h, f, r)
    <2>1. PICK f \in Event, r \in {"ok", "failed"} : HandleEvent(h, f, r)
      BY <1>2
    <2>2. e = f
      <3>1. event \in [Handlers -> SUBSET Event] /\ event' = [event EXCEPT ![h] = {f}]
        BY <2>1 DEF HandleEvent, TypeOK
      <3> QED
        BY <1>2, <3>1
    <2>3. e.owner \in Owners
      BY <2>2 DEF Event
    <2>4. snap'[h] = spec[e.owner]
      BY <1>2, <2>1, <2>2 DEF HandleEvent, Fetch, TypeOK
    <2> QED
      BY <1>2, <2>3, <2>4 DEF TypeOK, Gens
  <1>3. CASE k = h /\ Step(h)
    <2> SUFFICES event'[h] = event[h] /\ snap'[h] = snap[h]
                 /\ pc[h] \in {"cluster", "get", "create", "update"}
      BY <1>3 DEF SnapsOK
    <2>1. CASE \E r \in {"ok", "failed"} : FetchCluster(h, r) \/ ListOwned(h, r) \/ Report(h, r)
      BY <1>3, <2>1 DEF FetchCluster, ListOwned, Report, Return, TypeOK
    <2>2. CASE \E x \in Objects, r \in {"ok", "failed"} : GetObject(h, x, r)
      BY <1>3, <2>2 DEF GetObject
    <2>3. CASE \E x \in Objects, r \in Answers : CreateObject(h, x, r) \/ UpdateObject(h, x, r)
      BY <2>3, ObjectWrites DEF CreateObject, UpdateObject
    <2>4. CASE \E x \in Objects, r \in Answers : DeleteOwned(h, x, r)
      BY <1>3, <2>4 DEF DeleteOwned
    <2>5. CASE FinishDeletion(h) \/ FindNoConfig(h)
      BY <1>3, <2>5 DEF FinishDeletion, FindNoConfig, Fail, Return, TypeOK
    <2> QED
      BY <1>3, <2>1, <2>2, <2>3, <2>4, <2>5 DEF Step
  <1> QED
    BY <1>1, <1>2, <1>3 DEF Works

LEMMA OwningNext == Owning /\ [Next]_vars => Owning'
  <1> SUFFICES ASSUME Owning, [Next]_vars PROVE NoneApplying' /\ SnapsOK'
    BY FactsNext DEF Owning
  <1> TypeOK /\ TypeOK'
    BY FactsNext DEF Owning, Facts
  <1>1. CASE UNCHANGED vars
    BY <1>1 DEF vars, backend, handlers, Owning, NoneApplying, Handles, SnapsOK, Swept, Gone
  <1>2. CASE Dies
    BY <1>2, DeathFrame DEF Die, Idle, NoneApplying, Handles, SnapsOK
  <1>3. CASE Configures
    BY <1>3, ConfigFrame DEF Owning, NoneApplying, Handles, SnapsOK, Swept, Gone
  <1>4. CASE \E o \in Owners, x \in Objects : Outside(o, x)
    <2>1. NoneApplying'
      BY <1>4, NoneApplyingEnvironment DEF Owning
    <2>2. /\ UNCHANGED <<pc, event, snap>>
          /\ \A o \in Owners : spec[o] \in Nat /\ spec'[o] \in Nat /\ spec[o] <= spec'[o]
      BY <1>4 DEF Outside, UpdateSpec, PublishReconcile, DeleteOwner, Drift, backend, handlers,
                  TypeOK, Gens
    <2>3. SnapsOK'
      <3> SUFFICES ASSUME NEW h \in Handlers, NEW e \in event[h],
                          pc[h] \in {"cluster", "get", "create", "update"}
                   PROVE  snap[h] \in 1 .. spec'[e.owner]
        BY <2>2 DEF SnapsOK
      <3>1. e.owner \in Owners /\ snap[h] \in 1 .. spec[e.owner]
        BY DEF TypeOK, Event, Owning, SnapsOK
      <3> QED
        BY <2>2, <3>1
    <2> QED
      BY <2>1, <2>3
  <1>5. CASE \E h \in Handlers : Works(h)
    BY <1>5, NoneApplyingStep, SnapsStep DEF Owning
  <1> QED
    BY <1>1, <1>2, <1>4, <1>5, <1>3, NextCases

\* A write is one that the contract allows.
LEMMA WriteIsAllowed ==
  ASSUME Owning, NEW h \in Handlers, NEW x \in Objects, NEW r \in Answers,
         CreateObject(h, x, r) \/ UpdateObject(h, x, r), Makes(h, x)
  PROVE  \E g \in 1 .. spec[x.owner] : Contract!Write(x, g)
  <1>1. snap[h] \in 1 .. spec[x.owner]
    BY DEF CreateObject, UpdateObject, IsAt, Handles, Owning, SnapsOK
  <1>2. Gone(x.owner) => x.owner \in late
    BY DEF CreateObject, UpdateObject, IsAt, Objects, Owning, NoneApplying, Swept
  <1>3. UNCHANGED <<spec, deleted, late>>
    BY ObjectWrites DEF backend
  <1> QED
    BY <1>1, <1>2, <1>3 DEF Makes, Gone, Contract!Write, Contract!Gone

\* A deletion is, too: it was listed, so its owner is gone.
LEMMA DeletionIsAllowed ==
  ASSUME Owning, NEW h \in Handlers, NEW x \in Objects, NEW r \in Answers, DeleteOwned(h, x, r),
         object' # object
  PROVE  Contract!Remove(x)
  <1>1. Gone(x.owner) /\ UNCHANGED <<spec, deleted, late>>
    BY DEF DeleteOwned, Owning, Facts, TodosOK, backend
  <1> QED
    BY <1>1 DEF DeleteOwned, Gone, Contract!Remove, Contract!Gone

\* Who is late is of the owner that goes.
LEMMA LossIsAllowed ==
  ASSUME NEW o \in Owners, DeleteOwner(o)
  PROVE  Contract!Delete(o)
  <1> DEFINE S == {p \in Owners : Selects(o, p) /\ \E h \in Handlers : Applying(h, p)}
  <1>1. S \in SUBSET {p \in Owners : o \in {p, Cluster}} /\ late' = late \cup S
    BY DEF DeleteOwner, Selects
  <1> HIDE DEF S
  <1> QED
    BY <1>1 DEF DeleteOwner, Gone, Contract!Delete, Contract!Gone

\* Every step is one of the contract, or changes nothing it speaks of.
LEMMA StepKeepsOwnership ==
  ASSUME Owning, [Next]_vars
  PROVE  [Contract!Next]_Contract!vars
  <1> USE DEF Contract!vars
  <1>1. CASE UNCHANGED vars
    BY <1>1 DEF vars, backend
  <1>2. CASE Dies \/ Configures \/ \E o \in Owners : PublishReconcile(o)
    BY <1>2, DeathFrame, ConfigFrame DEF PublishReconcile, backend, Owning, Facts
  <1>3. CASE \E o \in Owners : UpdateSpec(o)
    BY <1>3 DEF UpdateSpec, Gone, Contract!Next, Contract!UpdateSpec, Contract!Gone
  <1>4. CASE \E o \in Owners : DeleteOwner(o)
    BY <1>4, LossIsAllowed DEF Contract!Next
  <1>5. CASE \E x \in Objects : Drift(x)
    <2>1. PICK x \in Objects : Drift(x)
      BY <1>5
    <2>2. PICK g \in object[x] : \E a \in {0, Altered(g)} : object' = [object EXCEPT ![x] = {a}]
      BY <2>1 DEF Drift
    <2>3. PICK a \in {0, Altered(g)} : object' = [object EXCEPT ![x] = {a}]
      BY <2>2
    <2>4. g \in -MaxGen .. MaxGen
      BY DEF Owning, Facts, TypeOK, Contents
    <2>5. a \in -MaxGen .. 0 /\ a \in {0, g, -g}
      BY <2>4, LimitsAssumption DEF Altered
    <2>6. Contract!Drift(x)
      BY <2>1, <2>3, <2>5 DEF Drift, backend, Contract!Drift
    <2> QED
      BY <2>6 DEF Contract!Next
  <1>6. ASSUME NEW h \in Handlers, Works(h)
        PROVE  [Contract!Next]_Contract!vars
    <2>1. UNCHANGED <<spec, deleted, late>>
      BY <1>6, StepFrame DEF Owning, Facts
    <2>2. CASE object' = object
      BY <2>1, <2>2
    <2>3. CASE object' # object
      <3>1. PICK x \in Objects, r \in Answers :
              CreateObject(h, x, r) \/ UpdateObject(h, x, r) \/ DeleteOwned(h, x, r)
        BY <1>6, <2>3, ObjectStep
      <3>2. CASE DeleteOwned(h, x, r)
        BY <2>3, <3>2, DeletionIsAllowed DEF Contract!Next
      <3>3. CASE CreateObject(h, x, r) \/ UpdateObject(h, x, r)
        BY <2>3, <3>3, ObjectWrites, WriteIsAllowed DEF Contract!Next
      <3> QED
        BY <3>1, <3>2, <3>3
    <2> QED
      BY <2>2, <2>3
  <1> QED
    BY <1>1, <1>2, <1>3, <1>4, <1>5, <1>6, NextCases DEF Outside

\* The handlers keep the contract of ownership, for any number of them and of owners,
\* resources, generations, faults and crashes.
THEOREM OwnershipKept == Spec => KeepsOwnership
  <1>1. Init => Contract!Init
    BY DEF Init, Contract!Init
  <1>2. Owning /\ [Next]_vars => [Contract!Next]_Contract!vars
    BY StepKeepsOwnership
  <1> QED
    BY <1>1, <1>2, OwningInit, OwningNext, PTL DEF Spec, KeepsOwnership, Contract!Spec

-----------------------------------------------------------------------------
(* Deletion is complete.                                                     *)

\* h has listed x for deletion or will still list the objects of its kind.
Finds(h, x) == x \in todo[h] \/ \E i \in Resources : i >= at[h] /\ Lists(i, x.resource)

\* A handler that deletes finds all there is.
Listed ==
  faults = 0 =>
    \A h \in Handlers, x \in Objects : \A e \in event[h] :
      pc[h] = "delete" /\ Selects(e.owner, x.owner) /\ x.owner \notin late /\ object[x] # {}
        => Finds(h, x)

\* What is left of a deleted owner, a deletion event will still find, unless one was
\* ignored for want of a configuration.
Pending ==
  faults = 0 =>
    \A x \in Objects : Swept(x.owner) /\ x.owner \notin missed /\ object[x] # {} =>
      \E e \in inbox : e.type = "deleted" /\ Selects(e.owner, x.owner)

Sweeping == Facts /\ NoneApplying /\ Listed /\ Pending

LEMMA SweepingInit == Init => Sweeping
  <1> SUFFICES ASSUME Init PROVE Sweeping
    OBVIOUS
  <1>1. (\A o \in Owners : ~Gone(o)) /\ (\A x \in Objects : x.owner \in Owners /\ object[x] = {})
    BY DEF Init, Gone, Objects
  <1> QED
    BY <1>1, FactsInit DEF Init, Sweeping, NoneApplying, Swept, Listed, Pending

\* A step of the environment.
LEMMA SweepingEnvironment ==
  ASSUME Sweeping, Facts', NEW p \in Owners, NEW y \in Objects, Outside(p, y)
  PROVE  Sweeping'
  <1> USE DEF Outside, backend, handlers, config, counts
  <1> TypeOK
    BY DEF Sweeping, Facts
  <1>1. /\ UNCHANGED <<pc, event, at, todo, missed, faults>>
        /\ inbox \subseteq inbox' /\ late \subseteq late'
        /\ \A x \in Objects : object'[x] # {} => object[x] # {}
    BY DEF UpdateSpec, PublishReconcile, DeleteOwner, Drift, TypeOK
  <1>2. NoneApplying'
    BY NoneApplyingEnvironment DEF Sweeping
  <1>3. Listed'
    BY <1>1 DEF Sweeping, Listed, Finds
  <1>4. Pending'
    <2> SUFFICES ASSUME faults = 0, NEW x \in Objects, Swept(x.owner)', x.owner \notin missed,
                        object[x] # {}
                 PROVE  \E e \in inbox' : e.type = "deleted" /\ Selects(e.owner, x.owner)
      BY <1>1 DEF Pending
    <2>1. CASE Gone(x.owner)
      BY <2>1, <1>1 DEF Sweeping, Pending, Swept
    <2>2. CASE ~Gone(x.owner)
      <3>1. DeleteOwner(p) /\ Selects(p, x.owner)
        BY <2>2 DEF UpdateSpec, PublishReconcile, DeleteOwner, Drift, Swept, Gone, Selects
      <3>2. Deleted(p) \in inbox' /\ Deleted(p).type = "deleted" /\ Deleted(p).owner = p
        BY <3>1 DEF DeleteOwner, Deleted
      <3> QED
        BY <3>1, <3>2
    <2> QED
      BY <2>1, <2>2
  <1> QED
    BY <1>2, <1>3, <1>4 DEF Sweeping

\* No deletion is forgotten by an end of the process,
LEMMA SweepingDeath == Sweeping /\ Facts' /\ Dies => Sweeping'
  BY DeathFrame
     DEF Facts, Die, Idle, Sweeping, NoneApplying, Handles, Listed, Pending, Swept, Gone

\* and none is missed without a note of it.
LEMMA SweepingConfig ==
  ASSUME Sweeping, Facts', Configures
  PROVE  Sweeping'
  <1>1. /\ UNCHANGED <<deleted, object, pc, event, at, todo, late, faults>>
        /\ missed \subseteq missed'
        /\ \A e \in inbox \ inbox' : Deletes(e) \subseteq missed'
    BY ConfigFrame DEF Sweeping, Facts
  <1>2. NoneApplying' /\ Listed'
    BY <1>1 DEF Sweeping, NoneApplying, Handles, Swept, Gone, Listed, Finds
  <1>3. Pending'
    <2> SUFFICES ASSUME faults = 0, NEW x \in Objects, Swept(x.owner), x.owner \notin missed',
                        object[x] # {}
                 PROVE  \E e \in inbox' : e.type = "deleted" /\ Selects(e.owner, x.owner)
      BY <1>1 DEF Pending, Swept, Gone
    <2>1. PICK e \in inbox : e.type = "deleted" /\ Selects(e.owner, x.owner)
      BY <1>1 DEF Sweeping, Pending
    <2>2. x.owner \in Deletes(e)
      BY <2>1 DEF Deletes, Objects
    <2> QED
      BY <1>1, <2>1, <2>2
  <1> QED
    BY <1>2, <1>3 DEF Sweeping

\* So nothing of an owner that is gone comes back.
LEMMA NothingReturns ==
  ASSUME Sweeping, NEW h \in Handlers,
         Works(h),
         NEW x \in Objects, Swept(x.owner), object'[x] # {}
  PROVE  object[x] # {}
  <1> TypeOK
    BY DEF Sweeping, Facts
  <1> SUFFICES ASSUME object[x] = {} PROVE FALSE
    OBVIOUS
  <1>1. PICK y \in Objects, r \in Answers :
          CreateObject(h, y, r) \/ UpdateObject(h, y, r) \/ DeleteOwned(h, y, r)
    BY ObjectStep
  <1>2. object \in [Objects -> SUBSET Contents]
    BY DEF TypeOK
  <1>3. CASE DeleteOwned(h, y, r)
    BY <1>2, <1>3 DEF DeleteOwned
  <1>4. CASE CreateObject(h, y, r) \/ UpdateObject(h, y, r)
    <2>1. y = x
      BY <1>2, <1>4, ObjectWrites DEF Makes
    <2>2. x.owner \in Owners
      BY DEF Objects
    <2> QED
      BY <1>4, <2>1, <2>2 DEF CreateObject, UpdateObject, IsAt, Sweeping, NoneApplying
  <1> QED
    BY <1>1, <1>3, <1>4

\* A step that counts no failure had none to count, and its call was answered.
LEMMA NoFault ==
  ASSUME TypeOK, NEW h \in Handlers,
         Works(h),
         faults' = 0
  PROVE  faults = 0
  <1>1. faults' # faults => \E r \in Answers : Call(r)
    BY DEF Works, Step, HandleEvent, FetchCluster, ListOwned, Report, GetObject, CreateObject,
           UpdateObject, Write, DeleteOwned, FinishDeletion, FindNoConfig, counts, Answers
  <1> QED
    BY <1>1 DEF Call, TypeOK

\* What a handler has to delete it finds from the start on, and until it is deleted.
LEMMA ListedStep ==
  ASSUME Listable, Sweeping, Facts', NEW h \in Handlers,
         Works(h)
  PROVE  Listed'
  <1> USE DEF Goto
  <1> TypeOK
    BY DEF Sweeping, Facts
  <1> SUFFICES ASSUME faults' = 0, NEW k \in Handlers, NEW x \in Objects, NEW e \in event'[k],
                      pc'[k] = "delete", Selects(e.owner, x.owner), x.owner \notin late,
                      object'[x] # {}
               PROVE  Finds(k, x)'
    BY StepFrame DEF Listed
  <1> x.resource \in Resources
    BY DEF Objects
  <1>1. \A i : Lists(i, x.resource)' <=> Lists(i, x.resource)
    BY DEF Lists, Extracted, Declared
  <1>2. faults = 0
    BY NoFault
  <1>3. CASE k = h /\ \E f \in Event, r \in {"ok", "failed"} : HandleEvent(h, f, r)
    <2>1. at'[h] = 1
      BY <1>3 DEF HandleEvent, TypeOK, Sweeping, Facts, HandlersOK, StartOK
    <2>2. PICK i \in Resources : Lists(i, x.resource)
      BY DEF Listable
    <2> QED
      BY <1>1, <1>3, <2>1, <2>2 DEF Finds, Resources
  <1>4. ASSUME pc[k] = "delete", e \in event[k]
        PROVE  object[x] # {} /\ Finds(k, x)
    <2>1. Swept(x.owner)
      BY <1>4 DEF Sweeping, Facts, HandlersOK, HandlerOK, EventOK, Selects, Swept, Gone
    <2>2. object[x] # {}
      BY <2>1, NothingReturns
    <2> QED
      BY <1>2, <1>4, <2>2 DEF Sweeping, Listed
  <1>5. CASE k = h /\ \E y \in Objects, r \in Answers : DeleteOwned(h, y, r)
    <2>1. PICK y \in Objects, r \in Answers : DeleteOwned(h, y, r)
      BY <1>5
    <2>2. r = "ok"
      BY <1>2, <2>1 DEF DeleteOwned, Call
    <2>3. object'[y] = {}
      BY <2>1, <2>2 DEF DeleteOwned, Took, TypeOK
    <2>4. x # y /\ Finds(h, x)
      BY <1>4, <1>5, <2>1, <2>3 DEF DeleteOwned
    <2> QED
      BY <1>1, <1>5, <2>1, <2>4 DEF DeleteOwned, Finds, TypeOK
  <1>6. CASE k = h /\ \E r \in {"ok", "failed"} : ListOwned(h, r)
    <2>1. PICK r \in {"ok", "failed"} : ListOwned(h, r)
      BY <1>6
    <2>2. r = "ok"
      BY <1>2, <2>1 DEF ListOwned, Call
    <2>3. /\ object[x] # {} /\ e \in event[h]
          /\ \E i \in Resources : i >= at[h] /\ Lists(i, x.resource)
      BY <1>4, <1>6, <2>1 DEF ListOwned, Finds
    <2>4. PICK i \in Resources : i >= at[h] /\ Lists(i, x.resource)
      BY <2>3
    <2>5. at'[h] = at[h] + 1 /\ at[h] \in Nat /\ i \in Nat
      BY <2>1 DEF ListOwned, Resources, TypeOK
    <2>6. CASE i = at[h]
      BY <1>6, <2>1, <2>2, <2>3, <2>4, <2>6 DEF ListOwned, Finds, TypeOK
    <2>7. CASE i # at[h]
      <3>1. i >= at'[h]
        BY <2>4, <2>5, <2>7
      <3> QED
        BY <1>1, <1>6, <2>4, <3>1 DEF Finds
    <2> QED
      BY <2>6, <2>7
  <1>7. CASE k # h
    BY <1>1, <1>4, <1>7, StepFrame DEF Finds
  <1>8. CASE k = h /\ ~(\E y \in Objects, r \in Answers : DeleteOwned(h, y, r))
                  /\ ~(\E r \in {"ok", "failed"} : ListOwned(h, r))
                  /\ ~(\E f \in Event, r \in {"ok", "failed"} : HandleEvent(h, f, r))
    <2>1. pc'[h] # "delete"
      <3>1. CASE \E y \in Objects, r \in Answers : CreateObject(h, y, r) \/ UpdateObject(h, y, r)
        BY <3>1, ObjectWrites DEF Proceed, Fail, TypeOK
      <3> QED
        BY <1>8, <3>1 DEF Works, Step, FetchCluster, Report, GetObject, Proceed, Fail,
                          FinishDeletion, FindNoConfig, Return, TypeOK
    <2> QED
      BY <1>8, <2>1
  <1> QED
    BY <1>3, <1>5, <1>6, <1>7, <1>8

LEMMA PendingStep ==
  ASSUME Sweeping, Facts', NEW h \in Handlers,
         Works(h)
  PROVE  Pending'
  <1> TypeOK
    BY DEF Sweeping, Facts
  <1> SUFFICES ASSUME faults' = 0, NEW x \in Objects, Swept(x.owner), x.owner \notin missed',
                      object'[x] # {}
               PROVE  \E e \in inbox' : e.type = "deleted" /\ Selects(e.owner, x.owner)
    BY StepFrame DEF Pending, Swept, Gone
  <1>1. object[x] # {}
    BY NothingReturns
  <1>2. faults = 0
    BY NoFault
  <1>3. PICK e \in inbox : e.type = "deleted" /\ Selects(e.owner, x.owner)
    BY <1>1, <1>2, StepFrame DEF Sweeping, Pending
  <1>4. CASE e \in inbox'
    BY <1>3, <1>4
  <1>5. CASE e \notin inbox'
    <2>1. ~FindNoConfig(h)
      <3>1. x.owner \in Deletes(e)
        BY <1>3 DEF Deletes, Objects
      <3> QED
        BY <1>5, <3>1 DEF FindNoConfig, Return
    <2>2. e \in event[h] /\ (FinishDeletion(h) \/ pc[h] \in {"report", "error"})
      BY <1>5, <2>1 DEF Works, Step, HandleEvent, FetchCluster, ListOwned, Report, GetObject,
                        CreateObject, UpdateObject, Write, DeleteOwned, FinishDeletion, Return
    <2>3. pc[h] = "delete" /\ todo[h] = {} /\ at[h] \notin Resources
      BY <1>3, <2>2 DEF FinishDeletion, Sweeping, Facts, HandlersOK, HandlerOK
    <2>4. Finds(h, x)
      BY <1>1, <1>2, <1>3, <2>2, <2>3 DEF Sweeping, Listed, Swept
    <2>5. \A i \in Resources : ~(i >= at[h])
      BY <2>3 DEF TypeOK, Places, Resources
    <2> QED
      BY <2>3, <2>4, <2>5 DEF Finds
  <1> QED
    BY <1>4, <1>5

LEMMA SweepingNext ==
  ASSUME Listable PROVE Sweeping /\ [Next]_vars => Sweeping'
  <1> SUFFICES ASSUME Sweeping, [Next]_vars PROVE Sweeping'
    OBVIOUS
  <1>1. Facts'
    BY FactsNext DEF Sweeping
  <1>2. CASE UNCHANGED vars
    BY <1>1, <1>2 DEF vars, backend, handlers, config, counts, Sweeping, NoneApplying, Handles,
                      Listed, Finds, Pending, Swept, Gone
  <1>3. CASE Dies
    BY <1>1, <1>3, SweepingDeath
  <1>4. CASE Configures
    BY <1>1, <1>4, SweepingConfig
  <1>5. CASE \E o \in Owners, x \in Objects : Outside(o, x)
    BY <1>1, <1>5, SweepingEnvironment
  <1>6. CASE \E h \in Handlers : Works(h)
    BY <1>1, <1>6, NoneApplyingStep, ListedStep, PendingStep DEF Sweeping
  <1> QED
    BY <1>2, <1>3, <1>4, <1>5, <1>6, NextCases

LEMMA Complete == ASSUME Listable PROVE Spec => []NothingLeft
  <1>1. Sweeping => NothingLeft
    <2> SUFFICES ASSUME Sweeping, NEW x \in Objects, Gone(x.owner), Quiet(x.owner), faults = 0,
                        x.owner \notin late \cup missed, object[x] # {}
                 PROVE  FALSE
      BY DEF NothingLeft
    <2>1. PICK e \in inbox : e.type = "deleted" /\ Selects(e.owner, x.owner)
      BY DEF Sweeping, Pending, Swept
    <2>2. e = Deleted(e.owner) /\ (e.owner = Cluster \/ e.owner = x.owner)
      BY <2>1 DEF Selects, Sweeping, Facts, EventsOK, EventOK
    <2> QED
      BY <2>1, <2>2 DEF Quiet
  <1>2. Sweeping /\ [Next]_vars => Sweeping'
    BY Listable, SweepingNext
  <1> QED
    BY <1>1, <1>2, SweepingInit, PTL DEF Spec

\* When every event of a deleted owner is handled nothing of it is left, through
\* crashes and redelivery, if no nested object of a template hides a kind, no call
\* failed, nothing was creating for the owner as it was deleted, and no handler without
\* configuration, as there are when a process has just started, ignored the deletion.
THEOREM DeletionIsComplete == Spec => []DeletedIsGone
  <1>1. CASE Listable
    <2>1. NothingLeft => DeletedIsGone
      BY DEF DeletedIsGone
    <2>2. Spec => []NothingLeft
      BY <1>1, Complete
    <2> QED
      BY <2>1, <2>2, PTL
  <1>2. CASE ~Listable
    <2>1. DeletedIsGone
      BY <1>2 DEF DeletedIsGone
    <2> QED
      BY <2>1, PTL
  <1> QED
    BY <1>1, <1>2

\* The last of a template's apiVersion lines is its own and no nested object's, and
\* so is the last of its kind lines.
OwnLast(i) ==
  \A n \in DOMAIN Templates[i] : ~Templates[i][n].top =>
    \E m \in DOMAIN Templates[i] :
      /\ m > n
      /\ Templates[i][m].top
      /\ Templates[i][m].field = Templates[i][n].field

\* Then extractGroupVersionKind takes what the template declares,
LEMMA OwnIsExtracted ==
  ASSUME NEW i \in Resources, OwnLast(i), NEW f \in {"apiVersion", "kind"}
  PROVE  Extracted(i, f) = Declared(i, f)
  <1> DEFINE lines == Templates[i]
             own == {n \in DOMAIN lines : lines[n].field = f /\ lines[n].top}
             last == {n \in DOMAIN lines :
                        /\ lines[n].field = f
                        /\ \A k \in n + 1 .. Len(lines) : lines[k].field # f}
  <1>1. DOMAIN lines = 1 .. Len(lines) /\ Len(lines) \in Nat
    BY LinesAssumption
  <1>2. PICK t : own = {t}
    <2>1. IsFiniteSet(own)
      <3>1. IsFiniteSet(DOMAIN lines)
        BY <1>1, FS_Interval
      <3>2. own \in SUBSET DOMAIN lines
        OBVIOUS
      <3> HIDE DEF own, lines
      <3> QED
        BY <3>1, <3>2, FS_Subset
    <2>2. Cardinality(own) = 1
      BY TemplateAssumption
    <2> QED
      BY <2>1, <2>2, FS_Singleton
  <1>3. t \in DOMAIN lines /\ lines[t].field = f /\ lines[t].top
    BY <1>2
  <1>4. \A k \in DOMAIN lines : lines[k].field = f /\ lines[k].top => k = t
    BY <1>2
  <1>5. \A k \in DOMAIN lines : lines[k].field = f /\ k # t => t > k
    BY <1>4 DEF OwnLast
  <1>6. last = {t}
    <2>1. t \in last
      BY <1>1, <1>3, <1>5
    <2>2. ASSUME NEW n \in last PROVE n = t
      <3>1. n \in DOMAIN lines /\ lines[n].field = f
        OBVIOUS
      <3>2. CASE t > n
        <4>1. t \in n + 1 .. Len(lines)
          BY <1>1, <1>3, <3>1, <3>2
        <4> QED
          BY <1>3, <4>1
      <3> QED
        BY <1>5, <3>1, <3>2
    <2> QED
      BY <2>1, <2>2
  <1> QED
    BY <1>2, <1>6 DEF Extracted, Declared

\* and the cleanup lists the objects of every resource, so that the deletion of an
\* owner is complete, but for the exceptions of NothingLeft, whenever each template's own
\* lines come last: nested objects are harmful only after them, as in the Certificates of
\* nested_kind.
THEOREM OwnLastDeletes == (\A i \in Resources : OwnLast(i)) => (Spec => []NothingLeft)
  <1> SUFFICES ASSUME \A i \in Resources : OwnLast(i) PROVE Spec => []NothingLeft
    OBVIOUS
  <1>1. Listable
    BY OwnIsExtracted DEF Listable, Lists
  <1> QED
    BY <1>1, Complete

=============================================================================
