----------------------- MODULE VersionResolutionProofs -----------------------
(* Proofs about VersionResolution: its types, that no status with a release  *)
(* is behind itself, and that what the consumer applied was asked for and    *)
(* found in the graph.                                                       *)
EXTENDS VersionResolution, PreconditionsProofs, TLAPS

-----------------------------------------------------------------------------
(* Releases.                                                                 *)

\* A generation has at most one release, whose channel is the group's.
LEMMA ReleaseType ==
  ASSUME NEW g \in Gens
  PROVE  /\ Release(g) \in SUBSET Releases
         /\ \A m, n \in Release(g) : m = n
  <1>1. ReleaseOf[g].version \in Versions
    BY ReleaseAssumption
  <1>2. /\ DeriveChannel(g) \subseteq Channels
        /\ \A c, d \in DeriveChannel(g) : c = d
    <2> DEFINE group == IF ReleaseOf[g].channelGroup = "" THEN "stable" ELSE ReleaseOf[g].channelGroup
    <2>1. group \in Groups
      BY DEF Groups
    <2>2. ASSUME NEW m \in Minor[ReleaseOf[g].version] PROVE <<group, m>> \in Channels
      BY <1>1, <2>1 DEF Channels, Minors
    <2>3. \A m, n \in Minor[ReleaseOf[g].version] : m = n
      BY <1>1, ReleaseAssumption
    <2>4. DeriveChannel(g) = {<<group, m>> : m \in Minor[ReleaseOf[g].version]}
      BY DEF DeriveChannel
    <2> HIDE DEF group
    <2> QED
      BY <2>2, <2>3, <2>4
  <1> QED
    BY <1>1, <1>2 DEF Release, Releases

\* What is found in the graph is the whole release.
LEMMA ResolvedIsPublished ==
  ASSUME NEW g \in Gens, Resolved(g) # {}
  PROVE  Release(g) \subseteq graph
  BY ReleaseType DEF Resolved

\* A call counts its failure.
LEMMA CallCounts ==
  ASSUME faults \in 0 .. MaxFaults, NEW r, Call(r)
  PROVE  faults' \in 0 .. MaxFaults
  BY LimitsAssumption DEF Call

-----------------------------------------------------------------------------
(* Types.                                                                    *)

Labels == {"idle", "enrich", "resolve", "resolved", "failed", "unmet", "error",
           "get", "create", "update", "applied"}

LEMMA TypeInit == Init => TypeOK
  <1> SUFFICES ASSUME Init PROVE TypeOK
    OBVIOUS
  <1>1. /\ gen \in Gens /\ inbox \in [Deployments -> SUBSET Gens]
        /\ snap \in [Handlers -> 0 .. MaxGen] /\ faults \in 0 .. MaxFaults
    BY LimitsAssumption DEF Init, Unread, Gens
  <1>2. graph \in SUBSET Releases
    BY ReleaseAssumption DEF Init, Releases, Channels, Minors
  <1> QED
    BY <1>1, <1>2 DEF Init, TypeOK, Idle, None

\* A callback that returns leaves nothing behind.
LEMMA TypeReturn ==
  ASSUME TypeOK, NEW h \in Handlers, NEW acked \in BOOLEAN, Return(h, acked),
         UNCHANGED <<gen, graph, object>>, status' \in SUBSET Status,
         \A x, y \in status' : x = y, faults' \in 0 .. MaxFaults
  PROVE  TypeOK'
  <1>1. inbox' \in [Deployments -> SUBSET Gens]
    BY DEF TypeOK, Return, DeploymentOf, Deployments
  <1>2. /\ pc' = [pc EXCEPT ![h] = "idle"] /\ event' = [event EXCEPT ![h] = {}]
        /\ snap' = [snap EXCEPT ![h] = 0] /\ seen' = [seen EXCEPT ![h] = {}]
        /\ fresh' \in SUBSET Handlers
    BY DEF TypeOK, Return, Goto
  <1>3. /\ snap' \in [Handlers -> 0 .. MaxGen] /\ seen' \in [Handlers -> SUBSET Status]
        /\ event' \in [Handlers -> SUBSET Gens] /\ pc' \in [Handlers -> Labels]
    BY <1>2, LimitsAssumption DEF TypeOK, Labels
  <1>4. /\ \A k \in Handlers : pc'[k] = "idle" <=> event'[k] = {}
        /\ \A k \in Handlers : \A f, g \in event'[k] : f = g
    BY <1>2 DEF TypeOK
  <1>5. \A k \in Handlers : pc'[k] \in {"enrich", "resolve", "resolved"} => snap'[k] \in Gens
    BY <1>2 DEF TypeOK
  <1> QED
    BY <1>1, <1>2, <1>3, <1>4, <1>5 DEF TypeOK, Labels

LEMMA TypeEnvironment ==
  ASSUME TypeOK,
         \/ UpdateSpec \/ PublishReconcile
         \/ \E n \in Upcoming : PublishRelease(n)
         \/ \E d \in Deployments : Crash(d)
  PROVE  TypeOK'
  <1>1. CASE UpdateSpec
    BY <1>1, LimitsAssumption DEF UpdateSpec, Publish, TypeOK, Gens, target, handlers
  <1>2. CASE PublishReconcile
    BY <1>2 DEF PublishReconcile, Publish, TypeOK, backend, target, handlers
  <1>3. ASSUME NEW n \in Upcoming, PublishRelease(n) PROVE TypeOK'
    <2>1. n \in Releases
      BY ReleaseAssumption DEF Releases, Channels, Minors
    <2> QED
      BY <1>3, <2>1 DEF PublishRelease, TypeOK, target, handlers
  <1>4. ASSUME NEW d \in Deployments, Crash(d) PROVE TypeOK'
    <2>1. /\ \A k \in Handlers : pc'[k] = "idle" <=> event'[k] = {}
          /\ \A k \in Handlers : \A f, g \in event'[k] : f = g
          /\ \A k \in Handlers :
               pc'[k] \in {"enrich", "resolve", "resolved"} => snap'[k] \in Gens
      BY <1>4 DEF Crash, TypeOK
    <2>2. /\ faults' \in 0 .. MaxFaults /\ snap' \in [Handlers -> 0 .. MaxGen]
          /\ UNCHANGED <<gen, graph, status, inbox, object>>
      BY <1>4, LimitsAssumption DEF Crash, TypeOK, backend
    <2>3. /\ pc' \in [Handlers -> Labels] /\ event' \in [Handlers -> SUBSET Gens]
          /\ seen' \in [Handlers -> SUBSET Status] /\ fresh' \in SUBSET Handlers
      BY <1>4 DEF Crash, TypeOK, Labels
    <2> QED
      BY <2>1, <2>2, <2>3 DEF TypeOK, Labels
  <1> QED
    BY <1>1, <1>2, <1>3, <1>4

LEMMA TypeStep ==
  ASSUME TypeOK, NEW h \in Handlers,
         Step(h) \/ \E g \in Gens, r \in {"ok", "failed"} : HandleClusterEvent(h, g, r)
  PROVE  TypeOK'
  <1> USE DEF TypeOK, backend, Goto
  <1>1. ASSUME NEW g \in Gens, NEW r \in {"ok", "failed"}, HandleClusterEvent(h, g, r)
        PROVE  TypeOK'
    <2>1. /\ faults' \in 0 .. MaxFaults /\ event' = [event EXCEPT ![h] = {g}]
          /\ UNCHANGED <<gen, graph, status, inbox, object, fresh, seen>>
      BY <1>1, CallCounts DEF HandleClusterEvent, target
    <2>2. snap' \in [Handlers -> 0 .. MaxGen]
      BY <1>1, LimitsAssumption DEF HandleClusterEvent, Gens
    <2>3. /\ pc' \in [Handlers -> Labels] /\ pc'[h] # "idle"
          /\ \A k \in Handlers \ {h} : pc'[k] = pc[k]
      BY <1>1 DEF HandleClusterEvent, Labels
    <2>4. \A k \in Handlers : pc'[k] = "idle" <=> event'[k] = {}
      BY <2>1, <2>3
    <2>5. /\ \A k \in Handlers : \A e, f \in event'[k] : e = f
          /\ event' \in [Handlers -> SUBSET Gens]
      BY <2>1
    <2>6. \A k \in Handlers : pc'[k] \in {"enrich", "resolve", "resolved"} => snap'[k] \in Gens
      BY <1>1 DEF HandleClusterEvent
    <2> QED
      BY <2>1, <2>2, <2>3, <2>4, <2>5, <2>6 DEF Labels
  <1>2. ASSUME NEW r \in {"ok", "failed"}, EnrichCluster(h, r) PROVE TypeOK'
    <2>1. /\ faults' \in 0 .. MaxFaults
          /\ UNCHANGED <<gen, graph, status, inbox, object, fresh, event>>
      BY <1>2, CallCounts DEF EnrichCluster, GetClusterStatus, target
    <2>2. /\ seen' \in [Handlers -> SUBSET Status] /\ snap' \in [Handlers -> 0 .. MaxGen]
      BY <1>2, LimitsAssumption DEF EnrichCluster, GetClusterStatus
    <2>3. /\ pc' \in [Handlers -> Labels] /\ pc'[h] # "idle" /\ pc[h] # "idle"
          /\ \A k \in Handlers \ {h} : pc'[k] = pc[k]
      BY <1>2 DEF EnrichCluster, GetClusterStatus, Labels
    <2>4. \A k \in Handlers : pc'[k] \in {"enrich", "resolve", "resolved"} => snap'[k] \in Gens
      BY <1>2, HandlersAssumption DEF EnrichCluster, GetClusterStatus
    <2> QED
      BY <2>1, <2>2, <2>3, <2>4 DEF Labels
  <1>3. ASSUME NEW r \in {"ok", "failed"}, ResolveVersion(h, r) PROVE TypeOK'
    <2>1. faults' \in 0 .. MaxFaults
      BY <1>3, CallCounts DEF ResolveVersion
    <2>2. CASE Return(h, TRUE)
      BY <1>3, <2>1, <2>2, TypeReturn DEF ResolveVersion, target
    <2>3. CASE ~Return(h, TRUE)
      BY <1>3, <2>1, <2>3 DEF ResolveVersion, target
    <2> QED
      BY <2>2, <2>3
  <1>4. ASSUME NEW r \in Answers, ReportStatus(h, r) PROVE TypeOK'
    <2>1. /\ faults' \in 0 .. MaxFaults /\ UNCHANGED <<gen, graph, object>>
          /\ Return(h, r = "ok")
      BY <1>4, CallCounts DEF ReportStatus
    <2>2. /\ pc[h] = "resolved" => Release(snap[h]) \in SUBSET Releases
          /\ event[h] \in SUBSET Gens /\ \A f, g \in event[h] : f = g
      BY ReleaseType
    <2>3. /\ status' \in SUBSET Status
          /\ \A x, y \in status' : x = y
      <3> DEFINE release == IF pc[h] = "resolved" THEN Release(snap[h]) ELSE {}
      <3>1. release \in SUBSET Releases
        BY <2>2
      <3>2. status' = status \/ status' = {[observed |-> g, release |-> release] : g \in event[h]}
        BY <1>4 DEF ReportStatus, StatusUpdate, Observed
      <3> HIDE DEF release
      <3> QED
        BY <2>2, <3>1, <3>2 DEF Status
    <2> QED
      BY <2>1, <2>3, TypeReturn
  <1>5. ASSUME NEW r \in {"ok", "failed"}, GetObject(h, r) PROVE TypeOK'
    <2>1. /\ faults' \in 0 .. MaxFaults /\ fresh' \in SUBSET Handlers
          /\ UNCHANGED <<gen, graph, status, inbox, object, event, snap>>
      BY <1>5, CallCounts DEF GetObject, Conclude
    <2>2. seen' \in [Handlers -> SUBSET Status]
      BY <1>5 DEF GetObject, Conclude
    <2>3. /\ pc' \in [Handlers -> Labels] /\ pc'[h] # "idle" /\ pc[h] # "idle"
          /\ pc'[h] \notin {"enrich", "resolve", "resolved"}
          /\ \A k \in Handlers \ {h} : pc'[k] = pc[k]
      BY <1>5 DEF GetObject, Conclude, Labels
    <2> QED
      BY <2>1, <2>2, <2>3 DEF Labels
  <1>6. ASSUME NEW r \in Answers, CreateObject(h, r) \/ UpdateObject(h, r) PROVE TypeOK'
    <2>1. PICK accepted \in BOOLEAN : Write(h, accepted, r) /\ pc[h] \in {"create", "update"}
      <3>1. CASE CreateObject(h, r)
        <4> WITNESS (object = {}) \in BOOLEAN
        <4> QED
          BY <3>1 DEF CreateObject
      <3>2. CASE UpdateObject(h, r)
        <4> WITNESS (h \in fresh) \in BOOLEAN
        <4> QED
          BY <3>2 DEF UpdateObject
      <3> QED
        BY <1>6, <3>1, <3>2
    <2>2. Rendered(h) \in SUBSET Releases
      BY DEF Rendered, Status
    <2>3. /\ faults' \in 0 .. MaxFaults /\ object' \in SUBSET Releases
          /\ fresh' \in SUBSET Handlers /\ seen' \in [Handlers -> SUBSET Status]
          /\ UNCHANGED <<gen, graph, status, inbox, event, snap>>
      BY <2>1, <2>2, CallCounts DEF Write, Conclude, target
    <2>4. /\ pc' \in [Handlers -> Labels] /\ pc'[h] # "idle" /\ pc[h] # "idle"
          /\ pc'[h] \notin {"enrich", "resolve", "resolved"}
          /\ \A k \in Handlers \ {h} : pc'[k] = pc[k]
      BY <2>1 DEF Write, Conclude, Labels
    <2> QED
      BY <2>3, <2>4 DEF Labels
  <1>7. ASSUME NEW r \in {"ok", "failed"}, ReportConsumer(h, r) PROVE TypeOK'
    <2>1. faults' \in 0 .. MaxFaults
      BY <1>7, CallCounts DEF ReportConsumer
    <2> QED
      BY <1>7, <2>1, TypeReturn DEF ReportConsumer
  <1> QED
    BY <1>1, <1>2, <1>3, <1>4, <1>5, <1>6, <1>7 DEF Step

\* Types: what cls-backend, the subscriptions, the resource and the handlers hold,
\* whatever is delivered, answered or crashes.
THEOREM TypeCorrect == Spec => []TypeOK
  <1>1. TypeOK /\ [Next]_vars => TypeOK'
    <2> SUFFICES ASSUME TypeOK, [Next]_vars PROVE TypeOK'
      OBVIOUS
    <2>1. CASE UNCHANGED vars
      BY <2>1 DEF TypeOK, vars, backend, target, handlers
    <2>2. CASE Next
      BY <2>2, TypeEnvironment, TypeStep DEF Next, Deliver
    <2> QED
      BY <2>1, <2>2
  <1> QED
    BY TypeInit, <1>1, PTL DEF Spec

-----------------------------------------------------------------------------
(* Where releases come from.                                                 *)

\* n is the release of a generation from lo on, and published.
From(n, lo) == n \in graph /\ \E g \in lo .. gen : n \in Release(g)

\* Nothing runs ahead of the spec, and a handler that fetched the cluster has a
\* generation not older than its event's.
Ordered ==
  /\ \A d \in Deployments : inbox[d] \subseteq 1 .. gen
  /\ \A h \in Handlers :
       /\ event[h] \subseteq 1 .. gen
       /\ snap[h] <= gen
       /\ pc[h] \in {"enrich", "resolve", "resolved"} => \A g \in event[h] : g <= snap[h]

Traced ==
  /\ \A h \in Handlers : pc[h] = "resolved" => Release(snap[h]) \subseteq graph
  /\ \A s \in status : \A n \in s.release : From(n, s.observed)
  /\ \A h \in Handlers : \A s \in seen[h] : \A n \in s.release : From(n, s.observed)
  /\ \A n \in object : From(n, 1)

IInv == TypeOK /\ Ordered /\ Traced

LEMMA IInit == Init => IInv
  <1> SUFFICES ASSUME Init PROVE IInv
    OBVIOUS
  <1>1. Ordered
    BY DEF Init, Ordered, Idle, None, Unread, Deployments
  <1>2. Traced
    BY DEF Init, Traced, Idle, None
  <1> QED
    BY <1>1, <1>2, TypeInit DEF IInv

\* What was traced stays so: the graph and the generation only grow.
LEMMA FromStays ==
  ASSUME TypeOK, TypeOK', gen <= gen', graph \subseteq graph', NEW n, NEW lo \in Nat,
         From(n, lo)
  PROVE  From(n, lo)'
  BY DEF From, TypeOK, Gens

\* A status of cls-backend or of a handler that was traced stays so.
LEMMA StatusStays ==
  ASSUME TypeOK, TypeOK', gen <= gen', graph \subseteq graph', NEW s \in Status,
         \A n \in s.release : From(n, s.observed)
  PROVE  \A n \in s.release : From(n, s.observed)'
  BY FromStays, LimitsAssumption DEF Status, Gens

\* What a step has to keep up for Traced.
LEMMA TracedStays ==
  ASSUME IInv, TypeOK', gen <= gen', graph \subseteq graph',
         \A h \in Handlers : pc'[h] = "resolved" =>
           Release(snap'[h]) \subseteq graph \/ (pc[h] = "resolved" /\ snap'[h] = snap[h]),
         \A s \in status' \ status : \A n \in s.release : From(n, s.observed),
         \A h \in Handlers : seen'[h] \subseteq seen[h] \cup status,
         object' \subseteq object \cup UNION {UNION {s.release : s \in seen[h]} : h \in Handlers}
  PROVE  Traced'
  <1>1. \A h \in Handlers : pc'[h] = "resolved" => Release(snap'[h]) \subseteq graph'
    BY DEF IInv, Traced
  <1>2. \A s \in status' : \A n \in s.release : From(n, s.observed)'
    <2> TAKE s \in status'
    <2>1. s \in Status /\ \A n \in s.release : From(n, s.observed)
      BY DEF IInv, Traced, TypeOK
    <2> QED
      BY <2>1, StatusStays DEF IInv
  <1>3. \A h \in Handlers : \A s \in seen'[h] : \A n \in s.release : From(n, s.observed)'
    <2> TAKE h \in Handlers
    <2> TAKE s \in seen'[h]
    <2>1. s \in Status /\ \A n \in s.release : From(n, s.observed)
      BY DEF IInv, Traced, TypeOK
    <2> QED
      BY <2>1, StatusStays DEF IInv
  <1>4. \A n \in object' : From(n, 1)'
    <2> TAKE n \in object'
    <2>1. From(n, 1)
      <3>1. CASE n \in object
        BY <3>1 DEF IInv, Traced
      <3>2. CASE n \notin object
        <4>1. PICK h \in Handlers : \E s \in seen[h] : n \in s.release
          BY <3>2
        <4>2. PICK s \in seen[h] : n \in s.release
          BY <4>1
        <4>3. From(n, s.observed) /\ s \in Status
          BY <4>2 DEF IInv, Traced, TypeOK
        <4> QED
          BY <4>3 DEF From, Status, Gens, IInv, TypeOK
      <3> QED
        BY <3>1, <3>2
    <2> QED
      BY <2>1, FromStays DEF IInv
  <1> QED
    BY <1>1, <1>2, <1>3, <1>4 DEF Traced

\* A callback that returns: it hands over nothing but the event it may give back.
LEMMA ReturnOrdered ==
  ASSUME IInv, NEW h \in Handlers, NEW acked \in BOOLEAN, Return(h, acked), UNCHANGED gen
  PROVE  Ordered'
  <1>1. \A d \in Deployments : inbox'[d] \subseteq inbox[d]
    BY DEF IInv, TypeOK, Return, Deployments, DeploymentOf
  <1>2. \A k \in Handlers :
          \/ k # h /\ pc'[k] = pc[k] /\ event'[k] = event[k] /\ snap'[k] = snap[k]
          \/ k = h /\ pc'[k] = "idle" /\ event'[k] = {} /\ snap'[k] = 0
    BY DEF IInv, TypeOK, Return, Goto
  <1> QED
    BY <1>1, <1>2 DEF IInv, TypeOK, Ordered, Gens

LEMMA ReturnTraced ==
  ASSUME IInv, TypeOK', NEW h \in Handlers, NEW acked \in BOOLEAN, Return(h, acked),
         UNCHANGED <<gen, graph, object>>,
         \A s \in status' \ status : \A n \in s.release : From(n, s.observed)
  PROVE  Traced'
  <1>1. \A k \in Handlers :
          \/ k # h /\ pc'[k] = pc[k] /\ seen'[k] = seen[k] /\ snap'[k] = snap[k]
          \/ k = h /\ pc'[k] = "idle" /\ seen'[k] = {}
    BY DEF IInv, TypeOK, Return, Goto
  <1> QED
    BY <1>1, TracedStays DEF IInv, TypeOK, Gens

LEMMA EnvironmentKeeps ==
  ASSUME IInv, TypeOK',
         \/ UpdateSpec \/ PublishReconcile
         \/ \E n \in Upcoming : PublishRelease(n)
         \/ \E d \in Deployments : Crash(d)
  PROVE  Ordered' /\ Traced'
  <1> USE DEF IInv, backend, target, handlers
  <1>1. CASE UpdateSpec
    <2>1. Ordered'
      BY <1>1 DEF UpdateSpec, Publish, Ordered, TypeOK, Gens
    <2>2. Traced'
      BY <1>1, TracedStays DEF UpdateSpec, TypeOK, Gens
    <2> QED
      BY <2>1, <2>2
  <1>2. CASE PublishReconcile
    <2>1. Ordered'
      BY <1>2 DEF PublishReconcile, Publish, Ordered, TypeOK, Gens
    <2>2. Traced'
      BY <1>2, TracedStays DEF PublishReconcile, TypeOK, Gens
    <2> QED
      BY <2>1, <2>2
  <1>3. CASE \E n \in Upcoming : PublishRelease(n)
    <2>1. Ordered'
      BY <1>3 DEF PublishRelease, Ordered
    <2>2. Traced'
      BY <1>3, TracedStays DEF PublishRelease, TypeOK, Gens
    <2> QED
      BY <2>1, <2>2
  <1>4. CASE \E d \in Deployments : Crash(d)
    <2>1. \A k \in Handlers :
            \/ pc'[k] = pc[k] /\ event'[k] = event[k] /\ snap'[k] = snap[k] /\ seen'[k] = seen[k]
            \/ pc'[k] = "idle" /\ event'[k] = {} /\ snap'[k] = 0 /\ seen'[k] = {}
      BY <1>4 DEF Crash, TypeOK
    <2>2. UNCHANGED <<gen, graph, status, inbox, object>>
      BY <1>4 DEF Crash
    <2>3. Ordered'
      BY <2>1, <2>2 DEF Ordered, TypeOK, Gens
    <2>4. Traced'
      BY <2>1, <2>2, TracedStays DEF TypeOK, Gens
    <2> QED
      BY <2>3, <2>4
  <1> QED
    BY <1>1, <1>2, <1>3, <1>4

LEMMA StepKeeps ==
  ASSUME IInv, TypeOK', NEW h \in Handlers,
         Step(h) \/ \E g \in Gens, r \in {"ok", "failed"} : HandleClusterEvent(h, g, r)
  PROVE  Ordered' /\ Traced'
  <1> USE DEF IInv, backend, target, Goto
  <1>1. ASSUME NEW g \in Gens, NEW r \in {"ok", "failed"}, HandleClusterEvent(h, g, r)
        PROVE  Ordered' /\ Traced'
    <2>1. g \in inbox[DeploymentOf(h)] /\ DeploymentOf(h) \in Deployments
      BY <1>1 DEF HandleClusterEvent, Deployments, DeploymentOf
    <2>2. g <= gen
      BY <2>1 DEF Ordered, TypeOK, Gens
    <2>3. /\ UNCHANGED <<gen, graph, status, inbox, object, seen>>
          /\ event'[h] = {g}
          /\ (pc'[h] = "enrich" /\ snap'[h] = gen) \/ (pc'[h] = "error" /\ snap'[h] = snap[h])
          /\ \A k \in Handlers \ {h} :
               pc'[k] = pc[k] /\ event'[k] = event[k] /\ snap'[k] = snap[k]
      BY <1>1 DEF HandleClusterEvent, TypeOK
    <2>4. Ordered'
      BY <2>2, <2>3 DEF Ordered, TypeOK, Gens
    <2>5. Traced'
      BY <2>3, TracedStays DEF TypeOK, Gens
    <2> QED
      BY <2>4, <2>5
  <1>2. ASSUME NEW r \in {"ok", "failed"}, EnrichCluster(h, r) PROVE Ordered' /\ Traced'
    <2>1. /\ UNCHANGED <<gen, graph, status, inbox, object, event>>
          /\ pc[h] = "enrich"
          /\ \/ pc'[h] = "resolve" /\ snap'[h] = snap[h]
             \/ pc'[h] = "unmet" /\ snap'[h] \in {snap[h], 0}
             \/ pc'[h] = "get" /\ snap'[h] \in {snap[h], 0}
          /\ seen'[h] \in {status, {}}
          /\ \A k \in Handlers \ {h} :
               pc'[k] = pc[k] /\ seen'[k] = seen[k] /\ snap'[k] = snap[k]
      BY <1>2, HandlersAssumption DEF EnrichCluster, GetClusterStatus, TypeOK
    <2>2. Ordered'
      BY <2>1 DEF Ordered, TypeOK, Gens
    <2>3. Traced'
      BY <2>1, TracedStays DEF TypeOK, Gens
    <2> QED
      BY <2>2, <2>3
  <1>3. ASSUME NEW r \in {"ok", "failed"}, ResolveVersion(h, r) PROVE Ordered' /\ Traced'
    <2>1. CASE Return(h, TRUE)
      BY <1>3, <2>1, ReturnOrdered, ReturnTraced DEF ResolveVersion
    <2>2. CASE ~Return(h, TRUE)
      <3>a. /\ UNCHANGED <<gen, graph, status, inbox, object, event, snap, seen>>
            /\ pc[h] = "resolve"
            /\ pc' = [pc EXCEPT ![h] = IF r = "ok" /\ Resolved(snap[h]) # {} THEN "resolved"
                                                                            ELSE "failed"]
        BY <1>3, <2>2 DEF ResolveVersion
      <3>1. /\ UNCHANGED <<gen, graph, status, inbox, object, event, snap, seen>>
            /\ pc[h] = "resolve" /\ pc'[h] \in {"resolved", "failed"}
            /\ (pc'[h] = "resolved" => Resolved(snap[h]) # {})
            /\ \A k \in Handlers \ {h} : pc'[k] = pc[k]
        BY <3>a DEF TypeOK
      <3>2. pc'[h] = "resolved" => Release(snap[h]) \subseteq graph
        BY <3>1, ResolvedIsPublished DEF TypeOK
      <3>3. Ordered'
        BY <3>1 DEF Ordered
      <3>4. Traced'
        BY <3>1, <3>2, TracedStays DEF TypeOK, Gens
      <3> QED
        BY <3>3, <3>4
    <2> QED
      BY <2>1, <2>2
  <1>4. ASSUME NEW r \in Answers, ReportStatus(h, r) PROVE Ordered' /\ Traced'
    <2>1. UNCHANGED <<gen, graph, object>> /\ Return(h, r = "ok")
      BY <1>4 DEF ReportStatus
    <2>2. ASSUME NEW s \in status' \ status, NEW n \in s.release PROVE From(n, s.observed)
      <3>1. PICK g \in event[h] :
              s = [observed |-> g, release |-> IF pc[h] = "resolved" THEN Release(snap[h]) ELSE {}]
        BY <1>4, <2>2 DEF ReportStatus, StatusUpdate, Observed
      <3>2. pc[h] = "resolved" /\ n \in Release(snap[h]) /\ s.observed = g
        BY <2>2, <3>1
      <3>3. n \in graph /\ g <= snap[h] /\ snap[h] <= gen /\ snap[h] \in Gens /\ g \in Gens
        BY <3>2 DEF Ordered, Traced, TypeOK
      <3>4. snap[h] \in g .. gen
        BY <3>3 DEF TypeOK, Gens
      <3> QED
        BY <3>2, <3>3, <3>4 DEF From
    <2> QED
      BY <2>1, <2>2, ReturnOrdered, ReturnTraced
  <1>5. ASSUME NEW r \in {"ok", "failed"}, GetObject(h, r) PROVE Ordered' /\ Traced'
    <2>1. /\ UNCHANGED <<gen, graph, status, inbox, object, event, snap>>
          /\ pc'[h] \notin {"enrich", "resolve", "resolved"}
          /\ seen'[h] \in {seen[h], {}}
          /\ \A k \in Handlers \ {h} : pc'[k] = pc[k] /\ seen'[k] = seen[k]
      BY <1>5 DEF GetObject, Conclude, TypeOK
    <2>2. Ordered'
      BY <2>1 DEF Ordered
    <2>3. Traced'
      BY <2>1, TracedStays DEF TypeOK, Gens
    <2> QED
      BY <2>2, <2>3
  <1>6. ASSUME NEW r \in Answers, CreateObject(h, r) \/ UpdateObject(h, r)
        PROVE  Ordered' /\ Traced'
    <2>1. /\ UNCHANGED <<gen, graph, status, inbox, event, snap>>
          /\ object' \in {object, Rendered(h)}
          /\ pc'[h] \notin {"enrich", "resolve", "resolved"}
          /\ seen'[h] = {}
          /\ \A k \in Handlers \ {h} : pc'[k] = pc[k] /\ seen'[k] = seen[k]
      BY <1>6 DEF CreateObject, UpdateObject, Write, Conclude, TypeOK
    <2>2. Ordered'
      BY <2>1 DEF Ordered
    <2>3. object' \subseteq object \cup UNION {UNION {s.release : s \in seen[k]} : k \in Handlers}
      BY <2>1 DEF Rendered
    <2>4. Traced'
      BY <2>1, <2>3, TracedStays DEF TypeOK, Gens
    <2> QED
      BY <2>2, <2>4
  <1>7. ASSUME NEW r \in {"ok", "failed"}, ReportConsumer(h, r) PROVE Ordered' /\ Traced'
    BY <1>7, ReturnOrdered, ReturnTraced DEF ReportConsumer
  <1> QED
    BY <1>1, <1>2, <1>3, <1>4, <1>5, <1>6, <1>7 DEF Step

THEOREM Invariant == Spec => []IInv
  <1>1. IInv /\ TypeOK' /\ [Next]_vars => IInv'
    <2> SUFFICES ASSUME IInv, TypeOK', [Next]_vars PROVE IInv'
      OBVIOUS
    <2>1. CASE UNCHANGED vars
      BY <2>1 DEF IInv, TypeOK, Ordered, Traced, From, vars, backend, target, handlers
    <2>2. CASE Next
      BY <2>2, EnvironmentKeeps, StepKeeps DEF Next, Deliver, IInv
    <2> QED
      BY <2>1, <2>2
  <1> QED
    BY IInit, TypeCorrect, <1>1, PTL DEF Spec

\* A status that has a release was not reported under a generation newer than the
\* one the release belongs to, whichever callback reports last and whoever read it.
THEOREM StatusesAreNotBehind == Spec => []StatusNotBehind
  <1>1. IInv => StatusNotBehind
    BY DEF IInv, Traced, From, StatusNotBehind
  <1> QED
    BY Invariant, <1>1, PTL

\* The consumer's resource has a release the cluster asked for and the graph has.
THEOREM AppliedReleasesWereResolved == Spec => []AppliedWasResolved
  <1>1. IInv => AppliedWasResolved
    BY DEF IInv, Traced, From, AppliedWasResolved
  <1> QED
    BY Invariant, <1>1, PTL

-----------------------------------------------------------------------------
(* Why a rejection has a reason.                                             *)

\* Strings, with the ones the paths of the model are made of: the provers do not
\* know a literal for a string.
Keys == STRING \cup {"generation", "spec", "release", "version", "status",
                     "controller_statuses", "resolver", "metadata", "release_image",
                     "observed_generation"}

\* Paths that are written out.
LEMMA TupleIsPath ==
  ASSUME NEW T, NEW a \in T, NEW b \in T, NEW c \in T
  PROVE  /\ <<a>> \in Seq(T) /\ <<a>> # <<>> /\ <<a>>[1] = a
         /\ <<a, b>> \in Seq(T)
         /\ <<a, b, c>> \in Seq(T) /\ <<a, b, c>> # <<>> /\ <<a, b, c>>[1] = a
  <1>1. /\ <<a>> \in Seq(T) /\ <<a, b>> \in Seq(T) /\ <<a, b, c>> \in Seq(T)
    OBVIOUS
  <1> QED
    BY <1>1

LEMMA JoinedIsPath ==
  ASSUME NEW T, NEW p \in Seq(T), NEW q \in Seq(T), p # <<>>
  PROVE  p \o q \in Seq(T) /\ p \o q # <<>> /\ (p \o q)[1] = p[1]
  OBVIOUS

\* The data of a cluster are those without its statuses and leaves under "status".
LEMMA DataUnderStatus ==
  ASSUME NEW g \in Gens, NEW s
  PROVE  /\ DOMAIN SpecData[g] \subseteq Paths(Keys)
         /\ \A leaf \in DOMAIN SpecData[g] : leaf[1] # "status"
         /\ \A key : key # "status" => Extends(ClusterData(g, s), SpecData[g], key, Keys)
  <1>1. DOMAIN SpecData[g] = {<<"generation">>, VersionPath}
    BY DEF SpecData
  <1>2. DOMAIN StatusData(s) \subseteq {ObservedPath, ImagePath}
    BY DEF StatusData
  <1>3. /\ VersionPath \in Paths(Keys) /\ VersionPath[1] = "spec"
        /\ <<"generation">> \in Paths(Keys) /\ <<"generation">>[1] = "generation"
    BY TupleIsPath DEF VersionPath, Paths, Keys
  <1>4. StatusPath \in Seq(Keys) /\ StatusPath # <<>> /\ StatusPath[1] = "status"
    BY TupleIsPath DEF StatusPath, Keys
  <1>5. /\ <<"observed_generation">> \in Seq(Keys)
        /\ <<"metadata", "release_image">> \in Seq(Keys)
    BY TupleIsPath DEF Keys
  <1>6. /\ ObservedPath \in Paths(Keys) /\ ObservedPath[1] = "status"
        /\ ImagePath \in Paths(Keys) /\ ImagePath[1] = "status"
    BY <1>4, <1>5, JoinedIsPath DEF ObservedPath, ImagePath, Paths
  <1>7. /\ DOMAIN ClusterData(g, s) = DOMAIN SpecData[g] \cup DOMAIN StatusData(s)
        /\ \A leaf \in DOMAIN SpecData[g] : ClusterData(g, s)[leaf] = SpecData[g][leaf]
    BY DEF ClusterData
  <1> QED
    BY <1>1, <1>2, <1>3, <1>6, <1>7 DEF Extends

\* A rule that failed on the cluster with its statuses also fails without them, if
\* it is not on the status, or asks for something to be there.
LEMMA FailsWithoutStatus ==
  ASSUME NEW g \in Gens, NEW s, NEW rule, rule.field \in Paths(Keys),
         rule.field[1] = "status" => Positive(rule),
         ~RuleMet(ClusterData(g, s), rule)
  PROVE  ~RuleMet(SpecData[g], rule)
  <1>1. CASE rule.field[1] = "status"
    BY <1>1, DataUnderStatus, PositiveNeedsLeaf DEF Positive
  <1>2. CASE rule.field[1] # "status"
    BY <1>2, DataUnderStatus, SameUnderKey
  <1> QED
    BY <1>1, <1>2

\* What a step has to keep up for RejectionHasReason.
LEMMA ReasonStays ==
  ASSUME RejectionHasReason,
         \A h \in Handlers :
           \/ pc'[h] # "unmet"
           \/ pc'[h] = pc[h] /\ snap'[h] = snap[h]
           \/ /\ snap'[h] \in Gens
              /\ \E s : ~AllMet(ClusterData(snap'[h], s), Rules[DeploymentOf(h)])
  PROVE  RejectionHasReason'
  <1> SUFFICES ASSUME NEW h \in Handlers, pc'[h] = "unmet",
                      \A rule \in Rules[DeploymentOf(h)] :
                        rule.field[1] = "status" => Positive(rule)
               PROVE  FailedPreconditions(snap'[h], Rules[DeploymentOf(h)]) # {}
    BY DEF RejectionHasReason, FailedPreconditions, NotMet, SpecData
  <1>1. CASE pc'[h] = pc[h] /\ snap'[h] = snap[h]
    BY <1>1 DEF RejectionHasReason
  <1>2. ASSUME snap'[h] \in Gens, NEW s,
               ~AllMet(ClusterData(snap'[h], s), Rules[DeploymentOf(h)])
        PROVE  FailedPreconditions(snap'[h], Rules[DeploymentOf(h)]) # {}
    <2>1. PICK rule \in Rules[DeploymentOf(h)] : ~RuleMet(ClusterData(snap'[h], s), rule)
      BY <1>2 DEF AllMet
    <2>2. rule.field \in Paths(Keys)
      BY <2>1, RulesAssumption DEF DeploymentOf, Deployments, Paths, Keys
    <2>3. ~RuleMet(SpecData[snap'[h]], rule)
      BY <1>2, <2>1, <2>2, FailsWithoutStatus
    <2> QED
      BY <2>1, <2>3 DEF FailedPreconditions, NotMet
  <1> QED
    BY <1>1, <1>2

LEMMA ReasonStep ==
  ASSUME TypeOK, RejectionHasReason, NEW h \in Handlers,
         Step(h) \/ \E g \in Gens, r \in {"ok", "failed"} : HandleClusterEvent(h, g, r)
  PROVE  RejectionHasReason'
  <1> USE DEF Goto
  <1>1. ASSUME NEW r \in {"ok", "failed"}, EnrichCluster(h, r) PROVE RejectionHasReason'
    <2>1. /\ pc[h] = "enrich" /\ snap[h] \in Gens
          /\ \A k \in Handlers \ {h} : pc'[k] = pc[k] /\ snap'[k] = snap[k]
      BY <1>1 DEF EnrichCluster, TypeOK
    <2>2. pc'[h] = "unmet" =>
            /\ snap'[h] = snap[h]
            /\ ~AllMet(ClusterData(snap[h], GetClusterStatus(r)), Rules[DeploymentOf(h)])
      BY <1>1 DEF EnrichCluster, TypeOK
    <2> QED
      BY <2>1, <2>2, ReasonStays
  <1> DEFINE Elsewhere ==
        /\ pc'[h] # "unmet"
        /\ \A k \in Handlers \ {h} : pc'[k] = pc[k] /\ snap'[k] = snap[k]
  <1>2. ASSUME NEW g \in Gens, NEW r \in {"ok", "failed"}, HandleClusterEvent(h, g, r)
        PROVE  Elsewhere
    BY <1>2 DEF HandleClusterEvent, TypeOK
  <1>3. ASSUME NEW acked \in BOOLEAN, Return(h, acked) PROVE Elsewhere
    BY <1>3 DEF Return, TypeOK
  <1>4. ASSUME NEW r \in {"ok", "failed"}, ResolveVersion(h, r) PROVE Elsewhere
    BY <1>3, <1>4 DEF ResolveVersion, TypeOK
  <1>5. ASSUME NEW r \in Answers, ReportStatus(h, r) PROVE Elsewhere
    BY <1>3, <1>5 DEF ReportStatus
  <1>6. ASSUME NEW r \in {"ok", "failed"}, GetObject(h, r) PROVE Elsewhere
    BY <1>6 DEF GetObject, Conclude, TypeOK
  <1>7. ASSUME NEW r \in Answers, CreateObject(h, r) \/ UpdateObject(h, r) PROVE Elsewhere
    BY <1>7 DEF CreateObject, UpdateObject, Write, Conclude, TypeOK
  <1>8. ASSUME NEW r \in {"ok", "failed"}, ReportConsumer(h, r) PROVE Elsewhere
    BY <1>3, <1>8 DEF ReportConsumer
  <1>9. Elsewhere => RejectionHasReason'
    BY ReasonStays
  <1> HIDE DEF Elsewhere
  <1> QED
    BY <1>1, <1>2, <1>4, <1>5, <1>6, <1>7, <1>8, <1>9 DEF Step

\* A report that the preconditions are not met names one that is not met, if the
\* rules on the cluster's status ask for something to be there: the description is
\* made without the status, where such rules fail too.
THEOREM RejectionsHaveReasons == Spec => []RejectionHasReason
  <1>1. Init => RejectionHasReason
    BY DEF Init, Idle, RejectionHasReason
  <1>2. TypeOK /\ RejectionHasReason /\ [Next]_vars => RejectionHasReason'
    <2> SUFFICES ASSUME TypeOK, RejectionHasReason, [Next]_vars PROVE RejectionHasReason'
      OBVIOUS
    <2>1. UNCHANGED <<pc, snap>> => RejectionHasReason'
      BY ReasonStays
    <2>2. CASE UNCHANGED vars
      BY <2>1, <2>2 DEF vars, handlers
    <2>3. CASE UpdateSpec \/ PublishReconcile \/ \E n \in Upcoming : PublishRelease(n)
      BY <2>1, <2>3 DEF UpdateSpec, PublishReconcile, PublishRelease, handlers
    <2>4. CASE \E d \in Deployments : Crash(d)
      <3>1. \A k \in Handlers : pc'[k] = "idle" \/ (pc'[k] = pc[k] /\ snap'[k] = snap[k])
        BY <2>4 DEF Crash, TypeOK
      <3> QED
        BY <3>1, ReasonStays
    <2> QED
      BY <2>2, <2>3, <2>4, ReasonStep DEF Next, Deliver
  <1> QED
    BY TypeCorrect, <1>1, <1>2, PTL DEF Spec
=============================================================================
