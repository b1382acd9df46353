------------------------- MODULE RemoteClientsProofs -------------------------
(* Proofs about RemoteClients: its types, and that the cache gives every     *)
(* target a client that suits it.                                            *)
EXTENDS RemoteClients, TLAPS

\* The lock is free between the look-up and the creation of a client: what is kept
\* up is about the clients that handlers have made and not cached yet, too.
Labels == {"idle", "client", "namespace", "secret", "cache"}

\* Targets with the same key ask for the same clients.
LEMMA SameKey ==
  ASSUME NEW t \in Remotes, NEW u \in Remotes, CacheKey(t) = CacheKey(u)
  PROVE  t.auth = u.auth /\ t.name = u.name /\ DataKey(t) = DataKey(u)
  <1>1. \A a, b, c, d, e : <<a, b>> # <<c, d, e>>
    OBVIOUS
  <1> QED
    BY <1>1 DEF CacheKey, DataKey, Remotes

LEMMA RemoteTypes ==
  ASSUME NEW t \in Remotes
  PROVE  /\ t \in Targets /\ t.name \in Names /\ DataKey(t) \in DataKeys
         /\ CacheKey(t) \in CacheKeys
         /\ t.auth \in {"kubeconfig", "workload-identity"}
  BY DEF Remotes, Names, DataKeys, DataKey, CacheKeys

LEMMA CallCounts ==
  ASSUME faults \in 0 .. MaxFaults, NEW r, Call(r)
  PROVE  faults' \in 0 .. MaxFaults
  BY LimitsAssumption DEF Call

-----------------------------------------------------------------------------
(* The inductive invariant.                                                  *)

\* What a handler is about to do fits the target it asked for.
Asked ==
  /\ \A t, u \in loaded : t = u
  /\ \A h \in Handlers :
       /\ pc[h] # "idle" => loaded # {}
       /\ \A t, u \in asked[h] : t = u
       /\ pc[h] \in {"namespace", "secret", "cache"} => asked[h] \subseteq Remotes
       /\ \A s \in source[h], t \in asked[h] : s = <<s[1], t.name>>
       /\ pc[h] = "cache" => \A c \in made[h], t \in asked[h] : Suits(c, t)

IInv == TypeOK /\ Asked /\ CacheSuits

LEMMA IInit == Init => IInv
  <1> SUFFICES ASSUME Init PROVE IInv
    OBVIOUS
  <1>1. /\ secrets \in [Secrets -> [version : Versions, usable : SUBSET DataKeys]]
        /\ writes \in 0 .. MaxWrites /\ edits \in 0 .. MaxEdits /\ faults \in 0 .. MaxFaults
    BY LimitsAssumption DEF Init, Versions
  <1>2. /\ pc \in [Handlers -> Labels] /\ phase \in [Handlers -> {"apply", "refresh"}]
        /\ asked \in [Handlers -> SUBSET Targets] /\ source \in [Handlers -> SUBSET Secrets]
        /\ made \in [Handlers -> SUBSET Remote] /\ applied \in [Handlers -> SUBSET Clients]
        /\ cache \in [CacheKeys -> SUBSET Remote]
        /\ \A h \in Handlers : pc[h] = "idle" /\ asked[h] = {}
    BY DEF Init, Idle, Applying, Nothing, NoClient, Labels
  <1>3. TypeOK
    BY <1>1, <1>2 DEF Init, TypeOK, Labels, Namespaces
  <1>4. Asked
    BY <1>2 DEF Init, Asked, Idle, Nothing
  <1>5. CacheSuits
    BY RemoteTypes DEF Init, CacheSuits, NoClient
  <1> QED
    BY <1>3, <1>4, <1>5 DEF IInv

\* Reports.
Reports == [applied : Clients, refreshed : SUBSET Clients]

\* A step of h that leaves h between two requests for a client, and the others alone.
LEMMA Between ==
  ASSUME IInv, NEW h \in Handlers, UNCHANGED <<outside, memory>>,
         faults' \in 0 .. MaxFaults, report' \in SUBSET Reports,
         cache' \in [CacheKeys -> SUBSET Remote], CacheSuits',
         \/ pc' = [pc EXCEPT ![h] = "idle"] /\ asked' = [asked EXCEPT ![h] = {}]
         \/ /\ pc' = [pc EXCEPT ![h] = "client"] /\ asked' = [asked EXCEPT ![h] = loaded]
            /\ loaded # {},
         source' = [source EXCEPT ![h] = {}], made' = [made EXCEPT ![h] = {}],
         phase' \in [Handlers -> {"apply", "refresh"}], applied' \in [Handlers -> SUBSET Clients]
  PROVE  IInv'
  <1> USE DEF IInv, outside, memory
  <1>1. /\ pc' \in [Handlers -> Labels] /\ asked' \in [Handlers -> SUBSET Targets]
        /\ source' \in [Handlers -> SUBSET Secrets] /\ made' \in [Handlers -> SUBSET Remote]
        /\ \A k \in Handlers : pc'[k] = "idle" <=> asked'[k] = {}
    BY DEF TypeOK, Labels
  <1>2. TypeOK'
    BY <1>1 DEF TypeOK, Labels, Reports
  <1>3. \A k \in Handlers \ {h} :
          /\ pc'[k] = pc[k] /\ asked'[k] = asked[k] /\ source'[k] = source[k]
          /\ made'[k] = made[k]
    BY DEF TypeOK
  <1>4. /\ pc'[h] \in {"idle", "client"} /\ asked'[h] \in {{}, loaded} /\ source'[h] = {}
        /\ pc'[h] = "client" => loaded # {}
    BY DEF TypeOK
  <1>5. Asked'
    BY <1>3, <1>4 DEF Asked, Suits, Fresh
  <1> QED
    BY <1>2, <1>5

\* What GetClient's caller does with the result.
LEMMA GotClientKeeps ==
  ASSUME IInv, NEW h \in Handlers, pc[h] # "idle",
         NEW clients \in SUBSET Clients, GotClient(h, clients), UNCHANGED <<outside, memory>>,
         faults' \in 0 .. MaxFaults, cache' \in [CacheKeys -> SUBSET Remote], CacheSuits'
  PROVE  IInv'
  <1> USE DEF GotClient, Goto
  <1>1. CASE Finish(h, {})
    BY <1>1, Between DEF Finish, IInv, TypeOK
  <1>2. CASE phase[h] # "apply"
    <2>1. {[applied |-> a, refreshed |-> clients] : a \in applied[h]} \in SUBSET Reports
      BY DEF IInv, TypeOK, Reports
    <2> QED
      BY <1>2, <2>1, Between DEF Finish, IInv, TypeOK
  <1>3. CASE ~Finish(h, {}) /\ phase[h] = "apply"
    <2>1. loaded # {}
      BY DEF IInv, Asked
    <2>2. report' \in SUBSET Reports
      BY <1>3 DEF IInv, TypeOK, Reports
    <2> QED
      BY <1>3, <2>1, <2>2, Between DEF Ask, IInv, TypeOK
  <1> QED
    BY <1>1, <1>2, <1>3

\* The cache changes only with the secrets.
LEMMA CacheKeeps ==
  ASSUME IInv, UNCHANGED <<secrets, replaced, cache>>
  PROVE  CacheSuits' /\ cache' \in [CacheKeys -> SUBSET Remote]
  BY DEF IInv, TypeOK, CacheSuits, Suits, Fresh

LEMMA StepKeeps ==
  ASSUME IInv, NEW h \in Handlers, HandleEvent(h) \/ Step(h)
  PROVE  IInv'
  <1>1. CASE HandleEvent(h)
    <2>1. faults' \in 0 .. MaxFaults /\ report' \in SUBSET Reports /\ UNCHANGED <<outside, memory>>
      BY <1>1 DEF HandleEvent, IInv, TypeOK, Reports
    <2> QED
      BY <1>1, <2>1, CacheKeeps, Between
         DEF HandleEvent, Ask, Goto, IInv, TypeOK, outside, memory
  <1>2. CASE GetClient(h)
    <2>1. pc[h] = "client" /\ UNCHANGED <<outside, memory, cache, faults>>
      BY <1>2 DEF GetClient
    <2>2. /\ faults' \in 0 .. MaxFaults
          /\ CacheSuits' /\ cache' \in [CacheKeys -> SUBSET Remote]
      BY <2>1, CacheKeeps DEF IInv, TypeOK, outside
    <2>3. ASSUME NEW t \in asked[h], t \in Remotes, Goto(h, "namespace"),
                 UNCHANGED <<phase, asked, source, made, applied, report>>
          PROVE  IInv'
      <3>1. pc' = [pc EXCEPT ![h] = "namespace"] /\ pc' \in [Handlers -> Labels]
        BY <2>3 DEF Goto, IInv, TypeOK, Labels
      <3>2. TypeOK'
        BY <2>1, <2>2, <2>3, <3>1 DEF IInv, TypeOK, outside, memory, Labels
      <3>3. asked[h] \subseteq Remotes
        BY <2>3 DEF IInv, Asked
      <3>4. \A k \in Handlers : k # h => pc'[k] = pc[k]
        BY <3>1 DEF IInv, TypeOK
      <3>5. pc'[h] = "namespace"
        BY <3>1 DEF IInv, TypeOK
      <3>6. Asked'
        BY <2>1, <2>3, <3>3, <3>4, <3>5 DEF IInv, Asked, Suits, Fresh, outside, memory
      <3> QED
        BY <2>2, <3>2, <3>6 DEF IInv
    <2>4. ASSUME NEW t \in asked[h], NEW clients \in {{Local}, {}}, GotClient(h, clients)
          PROVE  IInv'
      BY <2>1, <2>2, <2>4, GotClientKeeps DEF Clients
    <2>5. ASSUME NEW t \in asked[h], t \in Remotes, GotClient(h, cache[CacheKey(t)])
          PROVE  IInv'
      <3>1. cache[CacheKey(t)] \in SUBSET Clients
        BY <2>5, RemoteTypes DEF IInv, TypeOK, Clients
      <3> QED
        BY <2>1, <2>2, <2>5, <3>1, GotClientKeeps
    <2> QED
      BY <1>2, <2>3, <2>4, <2>5 DEF GetClient
  <1>3. CASE ReadNamespace(h)
    <2> USE DEF IInv, TypeOK, outside, memory
    <2>1. /\ pc[h] = "namespace"
          /\ pc' = [pc EXCEPT ![h] = "secret"] /\ pc' \in [Handlers -> Labels]
          /\ source' = [source EXCEPT ![h] = {<<namespace, t.name>> : t \in asked[h]}]
          /\ UNCHANGED <<outside, memory, cache, phase, asked, made, applied, report, faults>>
      BY <1>3 DEF ReadNamespace, Goto, Labels
    <2>2. asked[h] \subseteq Remotes
      BY <2>1 DEF Asked
    <2>3. source'[h] = {<<namespace, t.name>> : t \in asked[h]}
      BY <2>1
    <2>4. source'[h] \in SUBSET Secrets
      BY <2>2, <2>3, RemoteTypes DEF Secrets
    <2>5. source' \in [Handlers -> SUBSET Secrets]
      BY <2>1, <2>4
    <2>6. \A t, u \in asked[h] : t = u
      BY DEF Asked
    <2>7. \A s \in source'[h], t \in asked[h] : s = <<s[1], t.name>>
      BY <2>3, <2>6
    <2>8. \A k \in Handlers : k # h => pc'[k] = pc[k] /\ source'[k] = source[k]
      BY <2>1
    <2>9. TypeOK'
      BY <2>1, <2>5 DEF Labels
    <2>10. Asked'
      BY <2>1, <2>2, <2>7, <2>8 DEF Asked, Suits, Fresh
    <2> QED
      BY <2>1, <2>9, <2>10, CacheKeeps
  <1>4. ASSUME NEW r \in {"ok", "failed"}, GetSecret(h, r) PROVE IInv'
    <2>1. /\ pc[h] = "secret" /\ UNCHANGED <<outside, memory, cache>>
          /\ faults' \in 0 .. MaxFaults
      BY <1>4, CallCounts DEF GetSecret, IInv, TypeOK
    <2>2. CacheSuits' /\ cache' \in [CacheKeys -> SUBSET Remote]
      BY <2>1, CacheKeeps DEF outside
    <2>3. CASE GotClient(h, {})
      BY <2>1, <2>2, <2>3, GotClientKeeps
    <2>4. CASE ~GotClient(h, {})
      <3> USE DEF IInv, TypeOK, outside, memory
      <3>1. PICK t \in asked[h] : \E s \in source[h] :
               /\ DataKey(t) \in secrets[s].usable
               /\ made' = [made EXCEPT ![h] = {ClientOf(t, s, secrets[s].version)}]
               /\ Goto(h, "cache")
               /\ UNCHANGED <<phase, asked, source, applied, report>>
        BY <1>4, <2>4 DEF GetSecret
      <3>2. PICK s \in source[h] :
               /\ DataKey(t) \in secrets[s].usable
               /\ made' = [made EXCEPT ![h] = {ClientOf(t, s, secrets[s].version)}]
               /\ Goto(h, "cache")
               /\ UNCHANGED <<phase, asked, source, applied, report>>
        BY <3>1
      <3>3. /\ t \in Remotes /\ s = <<s[1], t.name>> /\ s \in Secrets /\ s[1] \in Namespaces
            /\ \A u \in asked[h] : u = t
        BY <2>1 DEF Asked, Secrets
      <3>4. DEFINE c == ClientOf(t, s, secrets[s].version)
      <3>5. c \in Remote /\ Suits(c, t)
        BY <3>2, <3>3, RemoteTypes DEF ClientOf, Remote, Suits, Fresh
      <3>6. made'[h] = {c} /\ pc' = [pc EXCEPT ![h] = "cache"] /\ pc' \in [Handlers -> Labels]
        BY <3>2 DEF Goto, Labels
      <3> HIDE DEF c
      <3>7. made' \in [Handlers -> SUBSET Remote]
        BY <3>2, <3>5, <3>6
      <3>8. TypeOK'
        BY <2>1, <2>2, <3>2, <3>6, <3>7 DEF Labels
      <3>9. \A d, u : Suits(d, u)' <=> Suits(d, u)
        BY <2>1 DEF Suits, Fresh
      <3>10. \A k \in Handlers : k # h => pc'[k] = pc[k] /\ made'[k] = made[k]
        BY <3>2, <3>6
      <3>11. \A u \in asked[h] : \A d \in made'[h] : Suits(d, u)'
        BY <3>3, <3>5, <3>6, <3>9
      <3>12. UNCHANGED <<asked, source>> /\ pc'[h] = "cache"
        BY <3>2, <3>6
      <3>13. ASSUME NEW k \in Handlers, k # h
             PROVE  /\ pc'[k] # "idle" => loaded # {}
                    /\ \A u, v \in asked[k] : u = v
                    /\ pc'[k] \in {"namespace", "secret", "cache"} => asked[k] \subseteq Remotes
                    /\ \A z \in source[k], u \in asked[k] : z = <<z[1], u.name>>
                    /\ pc'[k] = "cache" => \A d \in made'[k], u \in asked[k] : Suits(d, u)'
        BY <3>9, <3>10, <3>13 DEF Asked
      <3>14. /\ \A u, v \in asked[h] : u = v
             /\ asked[h] \subseteq Remotes /\ loaded # {}
             /\ \A z \in source[h], u \in asked[h] : z = <<z[1], u.name>>
        BY <2>1 DEF Asked
      <3>15. ASSUME NEW k \in Handlers
             PROVE  /\ pc'[k] # "idle" => loaded # {}
                    /\ \A u, v \in asked[k] : u = v
                    /\ pc'[k] \in {"namespace", "secret", "cache"} => asked[k] \subseteq Remotes
                    /\ \A z \in source[k], u \in asked[k] : z = <<z[1], u.name>>
                    /\ pc'[k] = "cache" => \A d \in made'[k], u \in asked[k] : Suits(d, u)'
        <4>1. CASE k = h
          BY <3>11, <3>12, <3>14, <4>1
        <4>2. CASE k # h
          BY <3>13, <4>2
        <4> QED
          BY <4>1, <4>2
      <3>16. UNCHANGED loaded /\ \A t1, u \in loaded : t1 = u
        BY <2>1 DEF Asked
      <3>17. Asked'
        BY <3>12, <3>15, <3>16 DEF Asked
      <3> QED
        BY <2>2, <3>8, <3>17
    <2> QED
      BY <2>3, <2>4
  <1>5. ASSUME NEW r \in {"ok", "failed"}, CacheClient(h, r) PROVE IInv'
    <2>1. /\ pc[h] = "cache" /\ UNCHANGED <<outside, memory>> /\ faults' \in 0 .. MaxFaults
      BY <1>5, CallCounts DEF CacheClient, IInv, TypeOK
    <2>2. PICK t \in asked[h] :
             \/ cache' = [cache EXCEPT ![CacheKey(t)] = made[h]] /\ GotClient(h, made[h])
             \/ UNCHANGED cache /\ GotClient(h, {})
      BY <1>5 DEF CacheClient
    <2>3. t \in Remotes /\ CacheKey(t) \in CacheKeys
      BY <2>1, RemoteTypes DEF IInv, Asked
    <2>4. CASE cache' = [cache EXCEPT ![CacheKey(t)] = made[h]] /\ GotClient(h, made[h])
      <3>1. made[h] \in SUBSET Remote /\ made[h] \in SUBSET Clients
        BY DEF IInv, TypeOK, Clients
      <3>2. cache' \in [CacheKeys -> SUBSET Remote]
        BY <2>4, <3>1 DEF IInv, TypeOK
      <3>3. ASSUME NEW u \in Remotes, NEW c \in cache'[CacheKey(u)] PROVE Suits(c, u)'
        <4>1. CacheKey(u) \in CacheKeys
          BY RemoteTypes
        <4>2. CASE CacheKey(u) = CacheKey(t)
          <5>1. c \in made[h]
            BY <2>3, <2>4, <4>2 DEF IInv, TypeOK
          <5>2. Suits(c, t)
            BY <2>1, <5>1 DEF IInv, Asked
          <5> QED
            BY <2>1, <2>3, <4>2, <5>2, SameKey DEF Suits, Fresh, outside
        <4>3. CASE CacheKey(u) # CacheKey(t)
          <5>1. c \in cache[CacheKey(u)]
            BY <2>4, <4>1, <4>3 DEF IInv, TypeOK
          <5> QED
            BY <2>1, <5>1 DEF IInv, CacheSuits, Suits, Fresh, outside
        <4> QED
          BY <4>2, <4>3
      <3>4. CacheSuits'
        BY <3>3 DEF CacheSuits
      <3> QED
        BY <2>1, <2>4, <3>1, <3>2, <3>4, GotClientKeeps
    <2>5. CASE UNCHANGED cache /\ GotClient(h, {})
      BY <2>1, <2>5, CacheKeeps, GotClientKeeps DEF outside
    <2> QED
      BY <2>2, <2>4, <2>5
  <1> QED
    BY <1>1, <1>2, <1>3, <1>4, <1>5 DEF Step

\* Replaced secrets are remembered; those that had no data made no client.
LEMMA EnvironmentKeeps ==
  ASSUME IInv,
         \/ \E s \in Written, keys \in SUBSET DataKeys : WriteSecret(s, keys)
         \/ \E t \in Targets : EditTarget(t)
         \/ Crash \/ ReconcilerStep
  PROVE  IInv'
  <1>1. ASSUME NEW s \in Written, NEW keys \in SUBSET DataKeys, WriteSecret(s, keys)
        PROVE  IInv'
    <2>1. /\ s \in Secrets /\ writes' \in 0 .. MaxWrites
          /\ secrets' = [secrets EXCEPT ![s] = [version |-> writes + 1, usable |-> keys]]
          /\ replaced' = IF secrets[s].usable = {} THEN replaced ELSE replaced \cup {s}
          /\ UNCHANGED <<config, edits, memory, cache, handlers, report, faults>>
      BY <1>1, WrittenAssumption, LimitsAssumption DEF WriteSecret, IInv, TypeOK
    <2>2. [version |-> writes + 1, usable |-> keys] \in [version : Versions, usable : SUBSET DataKeys]
      BY <1>1, LimitsAssumption DEF WriteSecret, IInv, TypeOK, Versions
    <2>3. TypeOK'
      BY <2>1, <2>2 DEF IInv, TypeOK, memory, handlers
    <2>4. \A c : Fresh(c) /\ <<c.namespace, c.name>> \in Secrets => Fresh(c)'
      BY <2>1 DEF Fresh, IInv, TypeOK
    <2>5. \A c \in Remote : \A t : Suits(c, t) => Suits(c, t)'
      BY <2>4 DEF Suits, Remote, Secrets
    <2>6. CacheSuits'
      BY <2>1, <2>5, RemoteTypes DEF IInv, TypeOK, CacheSuits
    <2>7. Asked'
      BY <2>1, <2>5 DEF IInv, TypeOK, Asked, memory, handlers
    <2> QED
      BY <2>3, <2>6, <2>7 DEF IInv
  <1>2. ASSUME NEW t \in Targets, EditTarget(t) PROVE IInv'
    BY <1>2, LimitsAssumption
       DEF EditTarget, IInv, TypeOK, Asked, CacheSuits, Suits, Fresh, handlers
  <1>3. CASE Crash
    <2>1. /\ pc' \in [Handlers -> Labels] /\ phase' \in [Handlers -> {"apply", "refresh"}]
          /\ asked' \in [Handlers -> SUBSET Targets] /\ source' \in [Handlers -> SUBSET Secrets]
          /\ made' \in [Handlers -> SUBSET Remote] /\ applied' \in [Handlers -> SUBSET Clients]
          /\ cache' \in [CacheKeys -> SUBSET Remote]
          /\ \A h \in Handlers : pc'[h] = "idle" /\ asked'[h] = {} /\ source'[h] = {}
      BY <1>3 DEF Crash, Idle, Applying, Nothing, NoClient, Labels
    <2>2. faults' \in 0 .. MaxFaults
      BY <1>3, LimitsAssumption DEF Crash, IInv, TypeOK
    <2>3. TypeOK'
      BY <1>3, <2>1, <2>2 DEF Crash, IInv, TypeOK, Labels, Namespaces
    <2>4. Asked' /\ CacheSuits'
      BY <1>3, <2>1, RemoteTypes DEF Crash, Asked, CacheSuits, NoClient
    <2> QED
      BY <2>3, <2>4 DEF IInv
  <1>4. CASE StoreConfig
    BY <1>4 DEF StoreConfig, IInv, TypeOK, Asked, CacheSuits, Suits, Fresh, outside, handlers
  <1>5. CASE SetSecretNamespace
    BY <1>5 DEF SetSecretNamespace, ConfigNamespace, IInv, TypeOK, Asked, CacheSuits, Suits,
                Fresh, Namespaces, outside, handlers
  <1> QED
    BY <1>1, <1>2, <1>3, <1>4, <1>5 DEF ReconcilerStep

THEOREM Invariant == Spec => []IInv
  <1>1. IInv /\ [Next]_vars => IInv'
    <2> SUFFICES ASSUME IInv, [Next]_vars PROVE IInv'
      OBVIOUS
    <2>1. CASE UNCHANGED vars
      BY <2>1 DEF IInv, TypeOK, Asked, CacheSuits, Suits, Fresh, vars, outside, memory, handlers
    <2>2. CASE Next
      BY <2>2, EnvironmentKeeps, StepKeeps DEF Next
    <2> QED
      BY <2>1, <2>2
  <1> QED
    BY IInit, <1>1, PTL DEF Spec

\* Types: the manager, its callers and the secrets.
THEOREM TypeCorrect == Spec => []TypeOK
  BY Invariant, PTL DEF IInv

\* Whatever targets were asked for, and whatever was replaced, read late or lost in
\* a crash, the cache has only clients that suit the targets that find them.
THEOREM CachedClientsSuit == Spec => []CacheSuits
  BY Invariant, PTL DEF IInv
=============================================================================
