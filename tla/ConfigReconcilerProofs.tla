----------------------- MODULE ConfigReconcilerProofs -----------------------
(* Proofs about ConfigReconciler: its types, and that a settled reconciler   *)
(* leaves the process with the configuration of the API and its templates.   *)
EXTENDS ConfigReconciler, FiniteSetTheorems, TLAPS

\* What a content is made of.
LEMMA ContentTypes ==
  \A c \in Contents :
    /\ c.resources \in Seq(Names)
    /\ c.conditions \in Seq(Names)
    /\ c.resources \o c.conditions \in Seq(Names)
  <1> TAKE c \in Contents
  <1>1. c.resources \in Seq(Names) /\ c.conditions \in Seq(Names)
    BY ContentsAssumption
  <1> QED
    BY <1>1

\* The number of handlers at work is a number.
LEMMA BusyType == Cardinality(Busy) \in Nat
  <1>1. Busy \subseteq Handlers
    BY DEF Busy
  <1>2. IsFiniteSet(Busy)
    BY <1>1, HandlersAssumption, FS_Subset
  <1> QED
    BY <1>2, FS_CardinalityType

\* A configuration read from the API is well typed.
LEMMA AsConfigType ==
  ASSUME NEW S \in SUBSET Object
  PROVE  AsConfig(S) \in SUBSET Config
  <1>1. \A s \in S : [version |-> s.version, content |-> s.content] \in Config
    BY DEF Config, Object
  <1> QED
    BY <1>1 DEF AsConfig

LEMMA TypeInit == Init => TypeOK
  <1> SUFFICES ASSUME Init PROVE TypeOK
    OBVIOUS
  <1>1. templates \in [Names -> 0 .. MaxVersion]
    BY LimitsAssumption DEF Init, NoTemplates
  <1>2. /\ pc \in [Handlers -> {"idle"}]
        /\ resources \in [Handlers -> Seq(Names)]
        /\ seen \in [Handlers -> SUBSET (0 .. MaxVersion)]
        /\ blank \in [Handlers -> BOOLEAN]
    BY DEF Init
  <1>3. faults \in 0 .. MaxFaults /\ crashes \in 0 .. MaxCrashes /\ writes \in 0 .. MaxVersion
    BY LimitsAssumption DEF Init
  <1>4. compiled \in Nat \cup {-1} /\ waiting \in Nat
    BY DEF Init
  <1>5. /\ stored \in SUBSET Object /\ loaded \in SUBSET Config
        /\ rconf \in SUBSET Config /\ report \in SUBSET Status
    BY DEF Init
  <1>6. queued \in BOOLEAN /\ retry \in BOOLEAN /\ rpc \in {"idle", "store", "compile", "invalid"}
    BY DEF Init
  <1>7. pc \in [Handlers -> {"idle", "preconditions", "enter", "range", "render",
                          "conditions", "report", "error"}]
    BY <1>2
  <1> QED
    BY <1>1, <1>2, <1>3, <1>4, <1>5, <1>6, <1>7 DEF TypeOK

\* A restarted process has well-typed memory.
LEMMA TypeRestart ==
  ASSUME TypeOK, Restart
  PROVE  /\ loaded' \in SUBSET Config
         /\ templates' \in [Names -> 0 .. MaxVersion]
         /\ rpc' = "idle"
         /\ rconf' \in SUBSET Config
         /\ compiled' = -1
         /\ queued' \in BOOLEAN
         /\ retry' \in BOOLEAN
         /\ waiting' \in Nat
         /\ pc' \in [Handlers -> {"idle"}]
         /\ resources' \in [Handlers -> Seq(Names)]
         /\ seen' \in [Handlers -> SUBSET (0 .. MaxVersion)]
         /\ blank' \in [Handlers -> BOOLEAN]
  <1>1. waiting' \in Nat
    BY BusyType DEF TypeOK, Restart
  <1>2. templates' \in [Names -> 0 .. MaxVersion]
    BY LimitsAssumption DEF Restart, NoTemplates
  <1>3. /\ pc' \in [Handlers -> {"idle"}]
        /\ resources' \in [Handlers -> Seq(Names)]
        /\ seen' \in [Handlers -> SUBSET (0 .. MaxVersion)]
        /\ blank' \in [Handlers -> BOOLEAN]
    BY DEF Restart
  <1>4. queued' \in BOOLEAN
    BY DEF Restart
  <1> QED
    BY <1>1, <1>2, <1>3, <1>4 DEF Restart

\* The reconciler's steps keep the types.
LEMMA TypeReconciler == TypeOK /\ (ReconcilerStep \/ RequeueAfter) => TypeOK'
  <1> SUFFICES ASSUME TypeOK, ReconcilerStep \/ RequeueAfter PROVE TypeOK'
    OBVIOUS
  <1> USE LimitsAssumption
      DEF TypeOK, api, reconciler, memory, handlers, Call
  <1>1. CASE StoreConfig
    BY <1>1 DEF StoreConfig
  <1>2. CASE RenewTemplates
    BY <1>2 DEF RenewTemplates, NoTemplates
  <1>3. CASE CompileTemplate
    <2>1. PICK c \in rconf :
            /\ compiled \in 0 .. Len(TemplatesOf(c)) - 1
            /\ LET name == TemplatesOf(c)[compiled + 1] IN
               IF name \in c.content.broken
                 THEN rpc' = "invalid" /\ UNCHANGED <<templates, compiled>>
                 ELSE /\ templates' = [templates EXCEPT ![name] = c.version]
                      /\ compiled' = compiled + 1
                      /\ UNCHANGED rpc
      BY <1>3 DEF CompileTemplate
    <2>2. c.version \in 0 .. MaxVersion
      BY DEF Config, Versions
    <2>3. compiled' \in Nat \cup {-1}
      BY <2>1
    <2>5. templates' \in [Names -> 0 .. MaxVersion]
      BY <2>1, <2>2
    <2>4. rpc' \in {"idle", "store", "compile", "invalid"}
      BY <2>1
    <2> QED
      BY <1>3, <2>3, <2>4, <2>5 DEF CompileTemplate
  <1>4. ASSUME NEW r, Reconcile(r) PROVE TypeOK'
    <2>1. rconf' \in SUBSET Config
      BY <1>4, AsConfigType DEF Reconcile
    <2>2. faults' \in 0 .. MaxFaults
      BY <1>4 DEF Reconcile
    <2>3. CASE r = "ok"
      BY <1>4, <2>1, <2>2, <2>3 DEF Reconcile
    <2>4. CASE r # "ok"
      BY <1>4, <2>1, <2>2, <2>4 DEF Reconcile
    <2> QED
      BY <2>3, <2>4
  <1>5. ASSUME NEW r, NEW c \in rconf, NEW phase \in {"Valid", "Invalid"},
               UpdateConfigStatus(c, phase, r), retry' \in BOOLEAN
        PROVE  TypeOK'
    <2>1. c.version \in 0 .. MaxVersion
      BY DEF Config, Versions
    <2>2. \A s \in stored :
            [s EXCEPT !.phase = phase, !.observed = c.version] \in Object
      BY <2>1 DEF Object
    <2>3. stored' \in SUBSET Object
      BY <1>5, <2>2 DEF UpdateConfigStatus
    <2>4. queued' \in BOOLEAN
      BY <1>5, Zenon DEF UpdateConfigStatus
    <2>5. faults' = faults \/ (faults < MaxFaults /\ faults' = faults + 1)
      BY <1>5, Zenon DEF UpdateConfigStatus
    <2>6. faults' \in 0 .. MaxFaults
      BY <2>5
    <2> QED
      BY <1>5, <2>3, <2>4, <2>6 DEF UpdateConfigStatus
  <1>6. ASSUME NEW r, MarkValid(r) PROVE TypeOK'
    BY <1>5, <1>6 DEF MarkValid
  <1>7. ASSUME NEW r, MarkInvalid(r) PROVE TypeOK'
    BY <1>5, <1>7 DEF MarkInvalid
  <1>8. CASE RequeueAfter
    BY <1>8 DEF RequeueAfter
  <1> QED
    BY <1>1, <1>2, <1>3, <1>4, <1>6, <1>7, <1>8 DEF ReconcilerStep

\* The handlers' steps keep the types.
LEMMA TypeHandler ==
  ASSUME TypeOK, NEW h \in Handlers, HandleClusterEvent(h) \/ HandlerStep(h)
  PROVE  TypeOK'
  <1> USE LimitsAssumption
      DEF TypeOK, api, reconciler, memory, handlers, outside, Call, Goto
  <1>c. Current \subseteq 0 .. MaxVersion
    BY DEF Current, Config, Versions
  <1>s. ASSUME NEW V \in SUBSET (0 .. MaxVersion), Sees(h, V)
        PROVE  seen' \in [Handlers -> SUBSET (0 .. MaxVersion)]
    BY <1>s DEF Sees
  <1>1. CASE HandleClusterEvent(h)
    <2>1. waiting' \in Nat
      BY <1>1 DEF HandleClusterEvent
    <2> QED
      BY <1>1, <2>1 DEF HandleClusterEvent
  <1>2. CASE EvaluatePreconditions(h)
    <2>1. seen' \in [Handlers -> SUBSET (0 .. MaxVersion)]
      <3>1. CASE loaded = {}
        <4>1. {0} \in SUBSET (0 .. MaxVersion)
          OBVIOUS
        <4> QED
          BY <1>2, <1>s, <3>1, <4>1 DEF EvaluatePreconditions
      <3>2. CASE loaded # {}
        BY <1>2, <1>c, <1>s, <3>2 DEF EvaluatePreconditions
      <3> QED
        BY <3>1, <3>2
    <2> QED
      BY <1>2, <2>1 DEF EvaluatePreconditions
  <1>3. CASE EnterResources(h)
    BY <1>3, <1>c, <1>s DEF EnterResources
  <1>4. CASE RangeResources(h)
    <2>1. CASE loaded # {}
      <3>1. PICK c \in loaded : resources' = [resources EXCEPT ![h] = c.content.resources]
        BY <1>4, <2>1 DEF RangeResources, Dereference
      <3>2. c.content.resources \in Seq(Names)
        BY ContentTypes DEF Config
      <3>3. resources' \in [Handlers -> Seq(Names)]
        BY <3>1, <3>2
      <3> QED
        BY <1>4, <1>c, <1>s, <2>1, <3>3 DEF RangeResources, Dereference
    <2>2. CASE loaded = {}
      BY <1>4, <2>2, TypeRestart DEF RangeResources, Dereference
    <2> QED
      BY <2>1, <2>2
  <1>5. CASE RenderResource(h)
    <2>1. CASE templates[Head(resources[h])] = 0
      BY <1>5, <2>1 DEF RenderResource
    <2>2. CASE templates[Head(resources[h])] # 0
      <3>1. /\ resources[h] \in Seq(Names) /\ resources[h] # <<>>
        BY <1>5 DEF RenderResource
      <3>2. Head(resources[h]) \in Names /\ Tail(resources[h]) \in Seq(Names)
        BY <3>1
      <3>3. {templates[Head(resources[h])]} \in SUBSET (0 .. MaxVersion)
        BY <3>2
      <3>4. seen' \in [Handlers -> SUBSET (0 .. MaxVersion)]
        BY <1>5, <1>s, <2>2, <3>3 DEF RenderResource
      <3>5. resources' \in [Handlers -> Seq(Names)]
        BY <1>5, <2>2, <3>2 DEF RenderResource
      <3> QED
        BY <1>5, <2>2, <3>4, <3>5 DEF RenderResource
    <2> QED
      BY <2>1, <2>2
  <1>6. CASE EvaluateStatus(h)
    <2>1. CASE loaded = {}
      <3>1. waiting' \in Nat
        BY <1>6, <2>1 DEF EvaluateStatus, Finish
      <3>2. /\ resources' \in [Handlers -> Seq(Names)]
            /\ seen' \in [Handlers -> SUBSET (0 .. MaxVersion)]
            /\ blank' \in [Handlers -> BOOLEAN]
        BY <1>6, <2>1 DEF EvaluateStatus, Finish
      <3> QED
        BY <1>6, <2>1, <3>1, <3>2 DEF EvaluateStatus, Finish
    <2>2. CASE loaded # {}
      BY <1>6, <1>c, <1>s, <2>2 DEF EvaluateStatus
    <2> QED
      BY <2>1, <2>2
  <1>7. CASE RenderConditions(h)
    <2>1. CASE loaded # {}
      <3>1. PICK c \in loaded :
              LET names == {c.content.conditions[i] : i \in DOMAIN c.content.conditions} IN
              /\ Sees(h, Current \cup ({templates[n] : n \in names} \ {0}))
              /\ blank' = [blank EXCEPT ![h] = \E n \in names : templates[n] = 0]
              /\ Goto(h, "report")
              /\ UNCHANGED <<waiting, resources>>
        BY <1>7, <2>1 DEF RenderConditions, Dereference
      <3> DEFINE names == {c.content.conditions[i] : i \in DOMAIN c.content.conditions}
      <3>2. names \subseteq Names
        BY ContentTypes DEF Config
      <3>3. Current \cup ({templates[n] : n \in names} \ {0}) \in SUBSET (0 .. MaxVersion)
        BY <1>c, <3>2
      <3>4. seen' \in [Handlers -> SUBSET (0 .. MaxVersion)]
        BY <1>s, <3>1, <3>3
      <3>5. blank' \in [Handlers -> BOOLEAN]
        BY <3>1, Zenon
      <3> QED
        BY <1>7, <2>1, <3>1, <3>4, <3>5 DEF RenderConditions, Dereference
    <2>2. CASE loaded = {}
      BY <1>7, <2>2, TypeRestart DEF RenderConditions, Dereference
    <2> QED
      BY <2>1, <2>2
  <1>8. CASE ConcurrentMapAccess(h)
    BY <1>8, TypeRestart DEF ConcurrentMapAccess
  <1>9. CASE FailCall(h)
    BY <1>9 DEF FailCall
  <1>10. ASSUME NEW r, NEW applied \in BOOLEAN, Post(h, applied, r) PROVE TypeOK'
    <2>1. [applied |-> applied, seen |-> IF applied THEN seen[h] ELSE {},
           blank |-> applied /\ blank[h]] \in Status
      BY DEF Status
    <2>2. report' \in SUBSET Status
      BY <1>10, <2>1 DEF Post
    <2> QED
      BY <1>10, <2>2 DEF Post, Finish
  <1>11. ASSUME NEW r, ReportStatus(h, r) \/ ReportError(h, r) PROVE TypeOK'
    BY <1>10, <1>11 DEF ReportStatus, ReportError
  <1> QED
    BY <1>1, <1>2, <1>3, <1>4, <1>5, <1>6, <1>7, <1>8, <1>9, <1>11 DEF HandlerStep

LEMMA TypeNext == TypeOK /\ [Next]_vars => TypeOK'
  <1> SUFFICES ASSUME TypeOK, [Next]_vars PROVE TypeOK'
    OBVIOUS
  <1> USE LimitsAssumption DEF TypeOK, api, reconciler, memory, handlers
  <1>1. ASSUME NEW content \in Contents, WriteConfig(content) PROVE TypeOK'
    <2>0. writes < MaxVersion /\ writes' = writes + 1
      BY <1>1 DEF WriteConfig
    <2>1. writes + 1 \in Versions /\ writes' \in 0 .. MaxVersion
      BY <2>0 DEF Versions
    <2>2. ASSUME NEW s \in Object
          PROVE  [s EXCEPT !.version = writes + 1, !.content = content] \in Object
      <3> DEFINE v == writes + 1
      <3>1. v \in Versions
        BY <2>1
      <3> HIDE DEF v, TypeOK
      <3>2. [s EXCEPT !.version = v, !.content = content] \in Object
        BY <3>1 DEF Object
      <3> QED
        BY <3>2 DEF v
    <2>3. [version |-> writes + 1, content |-> content,
           phase |-> "", observed |-> 0] \in Object
      <3>1. 0 \in 0 .. MaxVersion
        OBVIOUS
      <3> HIDE DEF TypeOK
      <3> QED
        BY <2>1, <3>1 DEF Object
    <2>4. stored' \in SUBSET Object
      BY <1>1, <2>2, <2>3 DEF WriteConfig
    <2> QED
      BY <1>1, <2>1, <2>4 DEF WriteConfig
  <1>2. CASE DeleteConfig
    BY <1>2 DEF DeleteConfig
  <1>3. CASE PublishReconcile
    BY <1>3 DEF PublishReconcile
  <1>4. CASE Crash
    BY <1>4, TypeRestart DEF Crash
  <1>5. CASE UNCHANGED vars
    BY <1>5 DEF vars
  <1> QED
    BY <1>1, <1>2, <1>3, <1>4, <1>5, TypeReconciler, TypeHandler DEF Next

\* TypeOK holds in every state, for every number of handlers and configurations.
THEOREM TypeCorrect == Spec => []TypeOK
  BY TypeInit, TypeNext, PTL DEF Spec

-----------------------------------------------------------------------------
Single(S) == \A x, y \in S : x = y

\* What Reconcile read is what the API holds, or the queue holds the name again.
ReadIsCurrent == rpc # "idle" /\ ~queued => rconf = AsConfig(stored)

\* While it compiles, its configuration is loaded and the first templates are its.
CompiledSoFar ==
  /\ rpc \in {"idle", "store"} => compiled = -1
  /\ rpc = "compile" =>
       /\ loaded = rconf
       /\ \A c \in rconf : \A i \in 1 .. compiled : templates[TemplatesOf(c)[i]] = c.version

ConfigInv ==
  /\ Single(stored)
  /\ rpc # "idle" => Single(rconf)
  /\ ReadIsCurrent
  /\ CompiledSoFar
  /\ SettledConfig

LEMMA AsConfigSingle ==
  ASSUME NEW S, Single(S) PROVE Single(AsConfig(S))
  BY DEF Single, AsConfig

LEMMA ConfigInit == Init => ConfigInv
  BY DEF Init, ConfigInv, Single, ReadIsCurrent, CompiledSoFar, SettledConfig, AsConfig

\* A restarted process is settled only when there is nothing to load.
LEMMA ConfigRestart ==
  ASSUME ConfigInv, Restart, UNCHANGED stored
  PROVE  ConfigInv'
  BY DEF ConfigInv, Restart, Single, ReadIsCurrent, CompiledSoFar, SettledConfig,
         Settled, AsConfig

\* Steps that touch neither the API, the reconciler nor what it loaded.
LEMMA ConfigElsewhere ==
  ASSUME ConfigInv, UNCHANGED <<stored, queued, retry, loaded, templates, rpc, rconf, compiled>>
  PROVE  ConfigInv'
  BY DEF ConfigInv, Single, ReadIsCurrent, CompiledSoFar, SettledConfig, Settled,
         AsConfig, TemplatesOf

LEMMA ConfigNext == TypeOK /\ ConfigInv /\ [Next]_vars => ConfigInv'
  <1> SUFFICES ASSUME TypeOK, ConfigInv, [Next]_vars PROVE ConfigInv'
    OBVIOUS
  <1> USE DEF api, reconciler, memory, handlers, outside
  <1>1. ASSUME NEW content \in Contents, WriteConfig(content) PROVE ConfigInv'
    <2>1. Single(stored')
      BY <1>1 DEF WriteConfig, ConfigInv, Single
    <2> QED
      BY <1>1, <2>1
         DEF WriteConfig, ConfigInv, Single, ReadIsCurrent, CompiledSoFar,
             SettledConfig, Settled
  <1>2. CASE DeleteConfig
    BY <1>2 DEF DeleteConfig, ConfigInv, Single, ReadIsCurrent, CompiledSoFar,
                SettledConfig, Settled
  <1>3. CASE PublishReconcile
    BY <1>3, ConfigElsewhere DEF PublishReconcile
  <1>4. CASE Crash
    BY <1>4, ConfigRestart DEF Crash
  <1>5. CASE StoreConfig
    <2>1. CASE rconf = {}
      <3>1. loaded' = {} /\ rpc' = "idle" /\ UNCHANGED <<stored, queued, retry, compiled>>
        BY <1>5, <2>1 DEF StoreConfig
      <3>2. ~queued => stored = {}
        BY <1>5, <2>1 DEF StoreConfig, ConfigInv, ReadIsCurrent, AsConfig
      <3>3. SettledConfig'
        BY <3>1, <3>2 DEF SettledConfig, Settled, AsConfig
      <3> QED
        BY <1>5, <3>1, <3>3
           DEF StoreConfig, ConfigInv, Single, ReadIsCurrent, CompiledSoFar
    <2>2. ASSUME NEW c \in rconf,
                 IF c.content.valid
                   THEN loaded' = {c} /\ rpc' = "compile"
                   ELSE UNCHANGED loaded /\ rpc' = "invalid"
          PROVE  ConfigInv'
      <3>1. rconf = {c} /\ UNCHANGED <<stored, queued, retry, rconf, templates, compiled>>
        BY <1>5 DEF StoreConfig, ConfigInv, Single
      <3>2. compiled = -1
        BY <1>5 DEF StoreConfig, ConfigInv, CompiledSoFar
      <3> QED
        BY <1>5, <2>2, <3>1, <3>2
           DEF StoreConfig, ConfigInv, Single, ReadIsCurrent, CompiledSoFar,
               SettledConfig, Settled, AsConfig
    <2> QED
      BY <1>5, <2>1, <2>2 DEF StoreConfig
  <1>6. CASE RenewTemplates
    BY <1>6 DEF RenewTemplates, ConfigInv, Single, ReadIsCurrent, CompiledSoFar,
                SettledConfig, Settled, AsConfig
  <1>7. CASE CompileTemplate
    <2>1. PICK c \in rconf :
            /\ compiled \in 0 .. Len(TemplatesOf(c)) - 1
            /\ LET name == TemplatesOf(c)[compiled + 1] IN
               IF name \in c.content.broken
                 THEN rpc' = "invalid" /\ UNCHANGED <<templates, compiled>>
                 ELSE /\ templates' = [templates EXCEPT ![name] = c.version]
                      /\ compiled' = compiled + 1
                      /\ UNCHANGED rpc
      BY <1>7 DEF CompileTemplate
    <2> DEFINE names == TemplatesOf(c)
               name  == names[compiled + 1]
    <2>2. names \in Seq(Names)
      BY ContentTypes DEF TemplatesOf, TypeOK, Config
    <2>3. rconf = {c}
      BY <1>7 DEF CompileTemplate, ConfigInv, Single
    <2>4. /\ templates \in [Names -> 0 .. MaxVersion]
          /\ \A i \in 1 .. compiled : templates[names[i]] = c.version
      BY <1>7 DEF CompileTemplate, ConfigInv, CompiledSoFar, TypeOK
    <2>5. CASE name \in c.content.broken
      BY <1>7, <2>1, <2>5
         DEF CompileTemplate, ConfigInv, Single, ReadIsCurrent, CompiledSoFar,
             SettledConfig, Settled, AsConfig
    <2>6. CASE name \notin c.content.broken
      <3>1. /\ templates' = [templates EXCEPT ![name] = c.version]
            /\ compiled' = compiled + 1
            /\ rpc' = rpc
        BY <2>1, <2>6
      <3>2. \A i \in 1 .. compiled' : names[i] \in Names
        BY <2>1, <2>2, <3>1
      <3>3. \A i \in 1 .. compiled' : templates'[names[i]] = c.version
        <4> TAKE i \in 1 .. compiled'
        <4> HIDE DEF names
        <4>1. CASE i = compiled + 1
          BY <2>4, <3>1, <3>2, <4>1
        <4>2. CASE i \in 1 .. compiled
          BY <2>4, <3>1, <3>2, <4>2
        <4> QED
          BY <2>1, <3>1, <4>1, <4>2
      <3> QED
        BY <1>7, <2>3, <3>1, <3>3
           DEF CompileTemplate, ConfigInv, Single, ReadIsCurrent, CompiledSoFar,
               SettledConfig, Settled, AsConfig
    <2> QED
      BY <2>5, <2>6
  <1>8. ASSUME NEW r, Reconcile(r) PROVE ConfigInv'
    BY <1>8, AsConfigSingle
       DEF Reconcile, ConfigInv, Single, ReadIsCurrent, CompiledSoFar, SettledConfig,
           Settled
  <1>9. ASSUME NEW c \in rconf, NEW phase, NEW r, UpdateConfigStatus(c, phase, r)
        PROVE  Single(stored') /\ rpc' = "idle" /\ compiled' = -1 /\ UNCHANGED <<loaded, templates>>
    BY <1>9 DEF UpdateConfigStatus, ConfigInv, Single
  <1>10. ASSUME NEW r, MarkValid(r) PROVE ConfigInv'
    <2>1. PICK c \in rconf :
            compiled = Len(TemplatesOf(c)) /\ UpdateConfigStatus(c, "Valid", r)
      BY <1>10 DEF MarkValid
    <2>2. SettledConfig'
      <3> SUFFICES ASSUME ~queued' PROVE SettledConfig'
        BY DEF SettledConfig, Settled
      <3>1. /\ stored' = stored /\ ~queued
            /\ r = "ok" /\ \E s \in stored : s.version = c.version
            /\ stored' = {[s EXCEPT !.phase = "Valid", !.observed = c.version] : s \in stored}
        BY <2>1 DEF UpdateConfigStatus, Requeue, Took
      <3>2. PICK s \in stored : s.version = c.version
        BY <3>1
      <3>3. stored = {s}
        BY DEF ConfigInv, Single
      <3>4. s = [s EXCEPT !.phase = "Valid", !.observed = c.version]
        BY <3>1, <3>3
      <3>5. s \in Object
        BY DEF TypeOK
      <3>6. s.phase = "Valid" /\ s.observed = s.version
        BY <3>2, <3>4, <3>5 DEF Object
      <3>7. /\ rconf = AsConfig(stored) /\ loaded = rconf
            /\ \A i \in 1 .. compiled : templates[TemplatesOf(c)[i]] = c.version
        BY <1>10, <3>1 DEF MarkValid, ConfigInv, ReadIsCurrent, CompiledSoFar
      <3>8. c.content = s.content
        BY <3>3, <3>7 DEF AsConfig
      <3>9. TemplatesOf(c) = TemplatesOf(s)
        BY <3>8 DEF TemplatesOf
      <3>10. DOMAIN TemplatesOf(s) = 1 .. compiled
        <4>1. TemplatesOf(c) \in Seq(Names)
          BY ContentTypes DEF TemplatesOf, TypeOK, Config
        <4> QED
          BY <2>1, <3>9, <4>1
      <3>11. loaded' = loaded /\ templates' = templates
        BY <1>9, <2>1
      <3> QED
        BY <3>1, <3>2, <3>3, <3>6, <3>7, <3>9, <3>10, <3>11 DEF SettledConfig, AsConfig, TemplatesOf
    <2> QED
      BY <1>9, <2>1, <2>2 DEF ConfigInv, ReadIsCurrent, CompiledSoFar
  <1>11. ASSUME NEW r, MarkInvalid(r) PROVE ConfigInv'
    <2>1. PICK c \in rconf : UpdateConfigStatus(c, "Invalid", r)
      BY <1>11 DEF MarkInvalid
    <2>2. retry'
      BY <1>11 DEF MarkInvalid
    <2> QED
      BY <1>9, <2>1, <2>2 DEF ConfigInv, ReadIsCurrent, CompiledSoFar, SettledConfig, Settled
  <1>12. CASE RequeueAfter
    BY <1>12 DEF RequeueAfter, ConfigInv, Single, ReadIsCurrent, CompiledSoFar,
                 SettledConfig, Settled
  <1>13. ASSUME NEW h \in Handlers, HandleClusterEvent(h) PROVE ConfigInv'
    BY <1>13, ConfigElsewhere DEF HandleClusterEvent
  <1>14. ASSUME NEW h \in Handlers, HandlerStep(h) PROVE ConfigInv'
    <2>1. CASE EvaluatePreconditions(h)
      BY <2>1, ConfigElsewhere DEF EvaluatePreconditions
    <2>2. CASE EnterResources(h)
      BY <2>2, ConfigElsewhere DEF EnterResources
    <2>3. CASE RangeResources(h)
      BY <2>3, ConfigElsewhere, ConfigRestart DEF RangeResources, Dereference
    <2>4. CASE RenderResource(h)
      BY <2>4, ConfigElsewhere DEF RenderResource
    <2>5. CASE EvaluateStatus(h)
      BY <2>5, ConfigElsewhere DEF EvaluateStatus
    <2>6. CASE RenderConditions(h)
      BY <2>6, ConfigElsewhere, ConfigRestart DEF RenderConditions, Dereference
    <2>7. CASE ConcurrentMapAccess(h)
      BY <2>7, ConfigRestart DEF ConcurrentMapAccess
    <2>8. CASE FailCall(h)
      BY <2>8, ConfigElsewhere DEF FailCall
    <2>9. ASSUME NEW r, ReportStatus(h, r) \/ ReportError(h, r) PROVE ConfigInv'
      BY <2>9, ConfigElsewhere DEF ReportStatus, ReportError, Post
    <2> QED
      BY <1>14, <2>1, <2>2, <2>3, <2>4, <2>5, <2>6, <2>7, <2>8, <2>9 DEF HandlerStep
  <1>15. CASE UNCHANGED vars
    BY <1>15, ConfigElsewhere DEF vars
  <1> QED
    BY <1>1, <1>2, <1>3, <1>4, <1>5, <1>6, <1>7, <1>8, <1>10, <1>11, <1>12, <1>13,
       <1>14, <1>15 DEF Next, ReconcilerStep

\* SettledConfig: when the reconciler has nothing left to do, the process holds the
\* configuration of the API and its templates, whatever happened before.
THEOREM SettledConfigLoaded == Spec => []SettledConfig
  <1>1. ConfigInv => SettledConfig
    BY DEF ConfigInv
  <1> QED
    BY ConfigInit, ConfigNext, TypeCorrect, <1>1, PTL DEF Spec

-----------------------------------------------------------------------------
(* The templates of the engine.                                              *)

\* The API holds what was written last; no template is newer, and none is newer than
\* what Reconcile is about to store.
EngineInv ==
  /\ TemplatesOfOneVersion
  /\ \A s \in stored : s.version = writes
  /\ \A c \in rconf : c.version <= writes
  /\ \A n \in Names : templates[n] <= writes
  /\ rpc = "store" => \A c \in rconf, n \in Names : templates[n] <= c.version

LEMMA EngineInit == Init => EngineInv
  BY DEF Init, EngineInv, TemplatesOfOneVersion, NoTemplates

LEMMA EngineRestart ==
  ASSUME TypeOK, EngineInv, Restart, UNCHANGED api
  PROVE  EngineInv'
  BY LimitsAssumption DEF EngineInv, TemplatesOfOneVersion, Restart, NoTemplates, api, TypeOK

LEMMA EngineElsewhere ==
  ASSUME EngineInv, UNCHANGED <<api, loaded, templates, rpc, rconf, compiled>>
  PROVE  EngineInv'
  BY DEF EngineInv, TemplatesOfOneVersion, Renewing, api

LEMMA EngineReconciler == TypeOK /\ ConfigInv /\ EngineInv /\ ReconcilerStep => EngineInv'
  <1> SUFFICES ASSUME TypeOK, ConfigInv, EngineInv, ReconcilerStep PROVE EngineInv'
    OBVIOUS
  <1> USE DEF api, reconciler, memory, EngineInv
  <1>0. /\ templates \in [Names -> Nat] /\ writes \in Nat
        /\ \A c \in rconf : c.version \in Nat
        /\ \A c \in loaded : c.version \in Nat
    BY LimitsAssumption DEF TypeOK, Config, Versions
  <1>1. CASE StoreConfig
    <2>1. UNCHANGED <<stored, writes, templates, rconf, compiled>> /\ compiled = -1 /\ rpc' # "store"
      BY <1>1 DEF StoreConfig, ConfigInv, CompiledSoFar
    <2>2. \/ loaded' = loaded \/ loaded' = {}
          \/ \E c \in rconf : loaded' = {c} /\ rpc' = "compile"
      BY <1>1 DEF StoreConfig
    <2>3. ~Renewing /\ \A c \in rconf, n \in Names : templates[n] <= c.version
      BY <1>1 DEF StoreConfig, Renewing
    <2>4. TemplatesOfOneVersion'
      BY <1>0, <2>1, <2>2, <2>3 DEF TemplatesOfOneVersion, Renewing
    <2> QED
      BY <2>1, <2>4
  <1>2. CASE RenewTemplates
    BY <1>2, <1>0 DEF RenewTemplates, NoTemplates, TemplatesOfOneVersion
  <1>3. CASE CompileTemplate
    <2>1. PICK c \in rconf :
            \/ UNCHANGED templates
            \/ templates' = [templates EXCEPT ![TemplatesOf(c)[compiled + 1]] = c.version]
      BY <1>3 DEF CompileTemplate
    <2>2. loaded = {c} /\ ~Renewing
      BY <1>3 DEF CompileTemplate, ConfigInv, CompiledSoFar, Single, Renewing
    <2>3. \A n \in Names : templates[n] \in {0, c.version}
      BY <2>2 DEF TemplatesOfOneVersion
    <2>4. /\ \A n \in Names : templates'[n] \in {0, c.version}
          /\ UNCHANGED <<api, loaded, rconf>> /\ rpc' # "store"
      BY <1>0, <1>3, <2>1, <2>3 DEF CompileTemplate
    <2> QED
      BY <1>0, <2>2, <2>4 DEF TemplatesOfOneVersion
  <1>4. ASSUME NEW r, Reconcile(r) PROVE EngineInv'
    <2>1. UNCHANGED <<api, loaded, templates, compiled>> /\ rpc = "idle"
      BY <1>4 DEF Reconcile
    <2>2. \/ UNCHANGED <<rconf, rpc>>
          \/ \A c \in rconf' : c.version = writes
      <3>1. \A c \in AsConfig(stored) : c.version = writes
        BY DEF AsConfig
      <3> QED
        BY <1>4, <3>1 DEF Reconcile
    <2>3. rpc' # "compile"
      BY <1>4 DEF Reconcile
    <2> QED
      BY <1>0, <2>1, <2>2, <2>3 DEF TemplatesOfOneVersion, Renewing
  <1>5. ASSUME NEW r, MarkValid(r) \/ MarkInvalid(r) PROVE EngineInv'
    <2>1. PICK c \in rconf, phase \in {"Valid", "Invalid"} : UpdateConfigStatus(c, phase, r)
      BY <1>5 DEF MarkValid, MarkInvalid
    <2>2. ~Renewing
      <3>1. \A d \in rconf : Len(TemplatesOf(d)) # -1
        <4>1. \A d \in rconf : TemplatesOf(d) \in Seq(Names)
          BY ContentTypes DEF TemplatesOf, TypeOK, Config
        <4> QED
          BY <4>1
      <3> QED
        BY <1>5, <3>1 DEF MarkValid, MarkInvalid, Renewing
    <2>3. \A s \in stored' : s.version = writes
      <3>1. \A s \in stored : [s EXCEPT !.phase = phase, !.observed = c.version].version = s.version
        BY DEF TypeOK, Object
      <3> QED
        BY <2>1, <3>1 DEF UpdateConfigStatus
    <2>4. /\ UNCHANGED <<writes, loaded, templates>> /\ rconf' = {} /\ rpc' = "idle"
      BY <2>1 DEF UpdateConfigStatus
    <2> QED
      BY <1>0, <2>2, <2>3, <2>4 DEF TemplatesOfOneVersion
  <1> QED
    BY <1>1, <1>2, <1>3, <1>4, <1>5 DEF ReconcilerStep

LEMMA EngineHandler ==
  ASSUME TypeOK, EngineInv, NEW h \in Handlers, HandleClusterEvent(h) \/ HandlerStep(h)
  PROVE  EngineInv'
  <1> USE DEF outside, reconciler, memory
  <1>1. CASE HandleClusterEvent(h)
    BY <1>1, EngineElsewhere DEF HandleClusterEvent
  <1>2. CASE EvaluatePreconditions(h)
    BY <1>2, EngineElsewhere DEF EvaluatePreconditions
  <1>3. CASE EnterResources(h)
    BY <1>3, EngineElsewhere DEF EnterResources
  <1>4. CASE RangeResources(h)
    BY <1>4, EngineElsewhere, EngineRestart DEF RangeResources, Dereference
  <1>5. CASE RenderResource(h)
    BY <1>5, EngineElsewhere DEF RenderResource
  <1>6. CASE EvaluateStatus(h)
    BY <1>6, EngineElsewhere DEF EvaluateStatus
  <1>7. CASE RenderConditions(h)
    BY <1>7, EngineElsewhere, EngineRestart DEF RenderConditions, Dereference
  <1>8. CASE ConcurrentMapAccess(h)
    BY <1>8, EngineRestart DEF ConcurrentMapAccess
  <1>9. CASE FailCall(h)
    BY <1>9, EngineElsewhere DEF FailCall
  <1>10. ASSUME NEW r, ReportStatus(h, r) \/ ReportError(h, r) PROVE EngineInv'
    BY <1>10, EngineElsewhere DEF ReportStatus, ReportError, Post
  <1> QED
    BY <1>1, <1>2, <1>3, <1>4, <1>5, <1>6, <1>7, <1>8, <1>9, <1>10 DEF HandlerStep

LEMMA EngineNext == TypeOK /\ ConfigInv /\ EngineInv /\ [Next]_vars => EngineInv'
  <1> SUFFICES ASSUME TypeOK, ConfigInv, EngineInv, [Next]_vars PROVE EngineInv'
    OBVIOUS
  <1> USE DEF reconciler, memory
  <1>1. ASSUME NEW content \in Contents, WriteConfig(content) PROVE EngineInv'
    <2>1. /\ writes' = writes + 1
          /\ UNCHANGED <<loaded, templates, rpc, rconf, compiled>>
      BY <1>1 DEF WriteConfig
    <2>2. /\ writes \in Nat /\ templates \in [Names -> Nat]
          /\ \A c \in rconf : c.version \in Nat
      BY LimitsAssumption DEF TypeOK, Config, Versions
    <2>3. \A s \in stored' : s.version = writes'
      <3>1. ASSUME NEW s \in Object, NEW v
            PROVE  [s EXCEPT !.version = v, !.content = content].version = v
        BY DEF Object
      <3>2. PICK v : v = writes'
        OBVIOUS
      <3>3. \/ stored' = {[version |-> v, content |-> content, phase |-> "", observed |-> 0]}
            \/ stored' = {[s EXCEPT !.version = v, !.content = content] : s \in stored}
        BY <1>1, <3>2 DEF WriteConfig
      <3>4. stored \subseteq Object
        BY DEF TypeOK
      <3>5. \A s \in stored' : s.version = v
        <4>1. ASSUME NEW s \in stored' PROVE s.version = v
          <5>1. \/ s = [version |-> v, content |-> content, phase |-> "", observed |-> 0]
                \/ \E o \in Object : s = [o EXCEPT !.version = v, !.content = content]
            BY ONLY <3>3, <3>4, <4>1
          <5>2. [version |-> v, content |-> content, phase |-> "", observed |-> 0].version = v
            OBVIOUS
          <5> QED
            BY <3>1, <5>1, <5>2
        <4> QED
          BY <4>1
      <3> QED
        BY <3>2, <3>5
    <2> QED
      BY <2>1, <2>2, <2>3 DEF EngineInv, TemplatesOfOneVersion, Renewing
  <1>2. CASE DeleteConfig
    BY <1>2 DEF DeleteConfig, EngineInv, TemplatesOfOneVersion, Renewing
  <1>3. CASE PublishReconcile
    BY <1>3, EngineElsewhere DEF PublishReconcile
  <1>4. CASE Crash
    BY <1>4, EngineRestart DEF Crash
  <1>5. CASE RequeueAfter
    BY <1>5, EngineElsewhere DEF RequeueAfter
  <1>6. CASE UNCHANGED vars
    BY <1>6, EngineElsewhere DEF vars
  <1> QED
    BY <1>1, <1>2, <1>3, <1>4, <1>5, <1>6, EngineReconciler, EngineHandler DEF Next

\* The templates of the engine are of one version, and beside a loaded configuration
\* of that one, but for the moment before the map is made anew.
THEOREM TemplatesAgree == Spec => []TemplatesOfOneVersion
  <1>1. EngineInv => TemplatesOfOneVersion
    BY DEF EngineInv
  <1> QED
    BY ConfigInit, ConfigNext, EngineInit, EngineNext, TypeCorrect, <1>1, PTL DEF Spec
=============================================================================
