---------------------------- MODULE RemoteClients ----------------------------
(***************************************************************************)
(* The clients of target clusters (client/manager.go).  A handler asks for *)
(* the client of the ControllerConfig's target twice: to apply its         *)
(* resources and to refresh them for the report.  The manager makes a      *)
(* client from a secret and keeps it for as long as the process lives;     *)
(* its lock covers the map and the namespace, not the calls in between.    *)
(*                                                                         *)
(* A client is known by what it was made from: the cache key's parts, the  *)
(* namespace and the version of the secret.                                *)
(*                                                                         *)
(* Environment: the target is edited, secrets are written and deleted,     *)
(* calls fail, the process crashes.  The ControllerConfig is not deleted   *)
(* here, see ConfigReconciler.                                             *)
(***************************************************************************)
EXTENDS Naturals, FiniteSets

CONSTANTS
  Handlers,    \* concurrent Pub/Sub callbacks
  Targets,     \* targets an operator may write
  Configured,  \* the namespace of the ControllerConfig
  Written,     \* the secrets that exist: pairs of namespace and name
  MaxWrites,   \* bound: writes of secrets
  MaxEdits,    \* bound: edits of the target
  MaxFaults    \* bound: failed calls and crashes

\* NewManager's namespace until SetSecretNamespace is called.
DefaultNamespace == "cls-system"

\* auth: "local" without a secret, "kubeconfig" (or empty), "workload-identity";
\* "maestro" stands for every target the manager has no client for.
Auths == {"local", "kubeconfig", "workload-identity", "maestro"}

\* Targets whose client is made from a secret.
Remotes == {t \in Targets : t.auth \in {"kubeconfig", "workload-identity"}}

Names      == {t.name : t \in Targets}
DataKeys   == {t.key : t \in Targets} \cup {"endpoint"}
Namespaces == {DefaultNamespace, Configured}
Secrets    == Namespaces \X Names

ASSUME TargetsAssumption ==
  Targets # {} /\ \A t \in Targets : DOMAIN t = {"auth", "name", "key"} /\ t.auth \in Auths
ASSUME WrittenAssumption == Written \subseteq Secrets
ASSUME LimitsAssumption == MaxWrites \in Nat /\ MaxEdits \in Nat /\ MaxFaults \in Nat

VARIABLES
  config,     \* the target in the API
  secrets,    \* per secret: its version and the keys that hold usable data
  replaced,   \* secrets whose data were replaced since the process started
  loaded,     \* Controller.controllerConfig: {} or the target
  namespace,  \* Manager.secretNamespace
  rpc,        \* Reconcile's next step
  cache,      \* Manager.remoteClients: per key {} or a client
  pc,         \* per handler: its next step
  phase,      \* per handler: "apply" or "refresh"
  asked,      \* per handler: {} or the target it asks a client for
  source,     \* per handler: {} or the secret it is going to read
  made,       \* per handler: {} or the client it made
  applied,    \* per handler: {} or the client it applied its resources with
  report,     \* {} or the clients the last event was applied and refreshed with
  writes, edits, faults   \* how often so far

outside  == <<config, secrets, replaced, writes, edits>>
memory   == <<loaded, namespace, rpc>>
handlers == <<pc, phase, asked, source, made, applied>>
vars == <<outside, memory, cache, handlers, report, faults>>

\* Broken variant: one client per secret.
KeyByName(t) == <<t.name>>

\* The key of the cache.  A workload identity's secret has only one use.
CacheKey(t) ==
  IF t.auth = "workload-identity" THEN <<"wi-", t.name>> ELSE <<t.name, "/", t.key>>

\* The datum of the secret that the client is made from.
DataKey(t) == IF t.auth = "workload-identity" THEN "endpoint" ELSE t.key

\* A client for target t, made from version v of the secret s.
ClientOf(t, s, v) ==
  [auth |-> t.auth, name |-> t.name, data |-> DataKey(t), namespace |-> s[1], version |-> v]
Local == [auth |-> "local", name |-> "", data |-> "", namespace |-> "", version |-> 0]

CacheKeys == {CacheKey(t) : t \in Remotes}
Versions  == 0 .. MaxWrites
Remote    == [auth : {"kubeconfig", "workload-identity"}, name : Names, data : DataKeys,
              namespace : Namespaces, version : Versions]
Clients   == Remote \cup {Local}

Call(r) ==
  \/ r = "ok" /\ UNCHANGED faults
  \/ r # "ok" /\ faults < MaxFaults /\ faults' = faults + 1

Nothing  == [h \in Handlers |-> {}]
Idle     == [h \in Handlers |-> "idle"]
Applying == [h \in Handlers |-> "apply"]
NoClient == [k \in CacheKeys |-> {}]

Init ==
  /\ config \in Targets
  /\ secrets = [s \in Secrets |->
                  [version |-> 0, usable |-> IF s \in Written THEN DataKeys ELSE {}]]
  /\ replaced = {}
  /\ loaded = {}
  /\ namespace = DefaultNamespace
  /\ rpc = "store"
  /\ cache = NoClient
  /\ pc = Idle
  /\ phase = Applying
  /\ asked = Nothing
  /\ source = Nothing
  /\ made = Nothing
  /\ applied = Nothing
  /\ report = {}
  /\ writes = 0
  /\ edits = 0
  /\ faults = 0

-----------------------------------------------------------------------------
(* The environment.                                                          *)

\* Any change of a secret; without usable data it stands for a deletion, too.
WriteSecret(s, keys) ==
  /\ writes < MaxWrites
  /\ writes' = writes + 1
  /\ secrets' = [secrets EXCEPT ![s] = [version |-> writes + 1, usable |-> keys]]
  /\ replaced' = IF secrets[s].usable = {} THEN replaced ELSE replaced \cup {s}
  /\ UNCHANGED <<config, edits, memory, cache, handlers, report, faults>>

EditTarget(t) ==
  /\ edits < MaxEdits
  /\ edits' = edits + 1
  /\ config' = t
  /\ rpc' = "store"
  /\ UNCHANGED <<secrets, replaced, writes, loaded, namespace, cache, handlers, report, faults>>

\* The process dies; the next one has New and NewManager behind it.
Crash ==
  /\ faults < MaxFaults
  /\ faults' = faults + 1
  /\ replaced' = {}
  /\ loaded' = {}
  /\ namespace' = DefaultNamespace
  /\ rpc' = "store"
  /\ cache' = NoClient
  /\ pc' = Idle
  /\ phase' = Applying
  /\ asked' = Nothing
  /\ source' = Nothing
  /\ made' = Nothing
  /\ applied' = Nothing
  /\ UNCHANGED <<config, secrets, writes, edits, report>>

-----------------------------------------------------------------------------
(* Reconcile, as far as it is about the target.                              *)

\* Broken variant: the namespace the process runs in.
OwnNamespace == DefaultNamespace

\* controllerConfig.GetNamespace().
ConfigNamespace == Configured

StoreConfig ==
  /\ rpc = "store"
  /\ loaded' = {config}
  /\ rpc' = "namespace"
  /\ UNCHANGED <<outside, namespace, cache, handlers, report, faults>>

\* The next statement; handlers may get in between.
SetSecretNamespace ==
  /\ rpc = "namespace"
  /\ namespace' = ConfigNamespace
  /\ rpc' = "idle"
  /\ UNCHANGED <<outside, loaded, cache, handlers, report, faults>>

-----------------------------------------------------------------------------
(* A handler.                                                                *)

Goto(h, label) == pc' = [pc EXCEPT ![h] = label]

\* getOrCreateAllResources and evaluateAndReportStatus ask for the target that is
\* loaded when they begin.
Ask(h, label, p) ==
  /\ Goto(h, label)
  /\ phase' = [phase EXCEPT ![h] = p]
  /\ asked' = [asked EXCEPT ![h] = loaded]
  /\ source' = [source EXCEPT ![h] = {}]
  /\ made' = [made EXCEPT ![h] = {}]

HandleEvent(h) ==
  /\ pc[h] = "idle"
  /\ loaded # {}
  /\ Ask(h, "client", "apply")
  /\ UNCHANGED <<outside, memory, cache, applied, report, faults>>

\* Broken variant: the target is not forgotten.
FinishHolding(h, clients) ==
  /\ Goto(h, "idle")
  /\ report' = clients
  /\ UNCHANGED <<phase, asked, source, made, applied>>

\* The event is answered; its report is about what was done with these clients.
Finish(h, clients) ==
  /\ Goto(h, "idle")
  /\ phase' = [phase EXCEPT ![h] = "apply"]
  /\ asked' = [asked EXCEPT ![h] = {}]
  /\ source' = [source EXCEPT ![h] = {}]
  /\ made' = [made EXCEPT ![h] = {}]
  /\ applied' = [applied EXCEPT ![h] = {}]
  /\ report' = clients

\* What the caller does with the result of GetClient: it applies the resources and
\* asks again; it refreshes them and reports.  An error is reported when nothing
\* was applied; without a client the report is about the resources as applied.
GotClient(h, clients) ==
  IF phase[h] = "apply"
    THEN IF clients = {}
           THEN Finish(h, {})
           ELSE /\ applied' = [applied EXCEPT ![h] = clients]
                /\ Ask(h, "client", "refresh")
                /\ UNCHANGED report
    ELSE Finish(h, {[applied |-> a, refreshed |-> clients] : a \in applied[h]})

\* GetClient: the local client, no client, or the cache under the read lock.
GetClient(h) ==
  /\ pc[h] = "client"
  /\ \E t \in asked[h] :
       \/ t.auth = "local" /\ GotClient(h, {Local})
       \/ t.auth = "maestro" /\ GotClient(h, {})
       \/ /\ t \in Remotes
          /\ cache[CacheKey(t)] # {}
          /\ GotClient(h, cache[CacheKey(t)])
       \/ /\ t \in Remotes
          /\ cache[CacheKey(t)] = {}
          /\ Goto(h, "namespace")
          /\ UNCHANGED <<phase, asked, source, made, applied, report>>
  /\ UNCHANGED <<outside, memory, cache, faults>>

\* The namespace, under the read lock again.
ReadNamespace(h) ==
  /\ pc[h] = "namespace"
  /\ source' = [source EXCEPT ![h] = {<<namespace, t.name>> : t \in asked[h]}]
  /\ Goto(h, "secret")
  /\ UNCHANGED <<outside, memory, cache, phase, asked, made, applied, report, faults>>

\* Get, and the check of the datum: an absent, empty or invalid one is an error.
GetSecret(h, r) ==
  /\ pc[h] = "secret"
  /\ Call(r)
  /\ \E t \in asked[h], s \in source[h] :
       IF r = "ok" /\ DataKey(t) \in secrets[s].usable
         THEN /\ made' = [made EXCEPT ![h] = {ClientOf(t, s, secrets[s].version)}]
              /\ Goto(h, "cache")
              /\ UNCHANGED <<phase, asked, source, applied, report>>
         ELSE GotClient(h, {})
  /\ UNCHANGED <<outside, memory, cache>>

\* The client is created, which may fail, and cached whatever the cache has by now.
CacheClient(h, r) ==
  /\ pc[h] = "cache"
  /\ Call(r)
  /\ \E t \in asked[h] :
       IF r = "ok"
         THEN cache' = [cache EXCEPT ![CacheKey(t)] = made[h]] /\ GotClient(h, made[h])
         ELSE UNCHANGED cache /\ GotClient(h, {})
  /\ UNCHANGED <<outside, memory>>

-----------------------------------------------------------------------------
ReconcilerStep == StoreConfig \/ SetSecretNamespace

Step(h) ==
  \/ GetClient(h) \/ ReadNamespace(h)
  \/ \E r \in {"ok", "failed"} : GetSecret(h, r) \/ CacheClient(h, r)

Next ==
  \/ \E s \in Written, keys \in SUBSET DataKeys : WriteSecret(s, keys)
  \/ \E t \in Targets : EditTarget(t)
  \/ Crash
  \/ ReconcilerStep
  \/ \E h \in Handlers : HandleEvent(h) \/ Step(h)

Spec == Init /\ [][Next]_vars

\* controller-runtime works its queue off, reconcile events keep coming and find
\* a callback, Go runs some callback if there is one to run.
Fairness ==
  /\ WF_vars(ReconcilerStep)
  /\ WF_vars(\E h \in Handlers : HandleEvent(h))
  /\ WF_vars(\E h \in Handlers : Step(h))

FairSpec == Spec /\ Fairness

-----------------------------------------------------------------------------
(* Properties.                                                               *)

TypeOK ==
  /\ config \in Targets
  /\ secrets \in [Secrets -> [version : Versions, usable : SUBSET DataKeys]]
  /\ replaced \in SUBSET Secrets
  /\ loaded \in SUBSET Targets
  /\ namespace \in Namespaces
  /\ rpc \in {"idle", "store", "namespace"}
  /\ cache \in [CacheKeys -> SUBSET Remote]
  /\ pc \in [Handlers -> {"idle", "client", "namespace", "secret", "cache"}]
  /\ phase \in [Handlers -> {"apply", "refresh"}]
  /\ asked \in [Handlers -> SUBSET Targets]
  /\ \A h \in Handlers : pc[h] = "idle" <=> asked[h] = {}
  /\ source \in [Handlers -> SUBSET Secrets]
  /\ made \in [Handlers -> SUBSET Remote]
  /\ applied \in [Handlers -> SUBSET Clients]
  /\ report \in SUBSET [applied : Clients, refreshed : SUBSET Clients]
  /\ writes \in 0 .. MaxWrites
  /\ edits \in 0 .. MaxEdits
  /\ faults \in 0 .. MaxFaults

\* c was made from what its secret has, or had until it was replaced in the
\* lifetime of the process.
Fresh(c) ==
  LET s == <<c.namespace, c.name>>
  IN \/ c.version = secrets[s].version /\ c.data \in secrets[s].usable
     \/ s \in replaced

\* c is what t asks for.
Suits(c, t) == c.auth = t.auth /\ c.name = t.name /\ c.data = DataKey(t) /\ Fresh(c)

\* The cache gives no target a client that was made for another way to
\* authenticate, another secret or another datum of it, and none that was stale
\* when the process started: a restart is enough to get rid of replaced secrets,
\* also with handlers under way that read them before.
CacheSuits == \A t \in Remotes : \A c \in cache[CacheKey(t)] : Suits(c, t)

Current(t) ==
  LET s == <<Configured, t.name>>
  IN IF t.auth = "local" THEN Local ELSE ClientOf(t, s, secrets[s].version)

\* t's secret is as good as when the process started, or better, and there is
\* none of its name in the default namespace.
Serves(t) ==
  LET s == <<Configured, t.name>>
      d == <<DefaultNamespace, t.name>>
  IN \/ t.auth = "local"
     \/ /\ t.auth # "maestro"
        /\ DataKey(t) \in secrets[s].usable /\ s \notin replaced
        /\ s = d \/ (secrets[d].usable = {} /\ d \notin replaced)

\* When the target is not edited any more and serves, every event ends up being
\* applied with the target's client and refreshed with the same one: whatever
\* failed, was cached for earlier targets, or was asked for before the reconciler
\* had set the namespace.
LatestTargetServes ==
  \A t \in Targets :
    <>[](config = t /\ Serves(t)) =>
      <>[](report = {[applied |-> Current(t), refreshed |-> {Current(t)}]})
=============================================================================
