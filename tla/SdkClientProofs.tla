--------------------------- MODULE SdkClientProofs ---------------------------
(* Proofs about SdkClient: its types, that no event is lost but by a handler  *)
(* without configuration, and that nothing runs when Stop has returned.       *)
EXTENDS SdkClient, TLAPS

-----------------------------------------------------------------------------
(* Types.                                                                    *)

LEMMA TypeInit == Init => TypeOK
  <1> SUFFICES ASSUME Init PROVE TypeOK
    OBVIOUS
  <1>1. pc \in [Callbacks -> {"idle"}] /\ message \in [Callbacks -> SUBSET Messages]
    BY DEF Init, Idle, None
  <1>2. pc \in [Callbacks -> {"idle", "handle", "report", "ack", "nack"}]
    BY <1>1
  <1>3. /\ signals \in 0 .. MaxSignals /\ crashes \in 0 .. MaxCrashes
        /\ faults \in 0 .. MaxFaults /\ givenUp \in 0 .. MaxGivenUp
        /\ removals \in 0 .. MaxRemovals
    BY LimitsAssumption DEF Init
  <1> QED
    BY <1>1, <1>2, <1>3 DEF Init, TypeOK

\* The steps of main and of the workers keep the types.
LEMMA TypeProcess ==
  ASSUME TypeOK,
         \/ Main \/ Signal \/ Crash \/ LoadConfig \/ RemoveConfig \/ Receiver \/ GiveUp
         \/ PerformHealthCheck \/ HealthChecked \/ HealthReturns
  PROVE  TypeOK'
  <1> USE LimitsAssumption DEF TypeOK, process, workers, calls, outcome, counts
  <1>1. CASE Main
    BY <1>1 DEF Main, SpawnWorkers, SetRunning, CancelContext, SetStopped, Restart
  <1>2. CASE Signal
    BY <1>2 DEF Signal
  <1>3. CASE Crash
    <2>1. pc' \in [Callbacks -> {"idle"}] /\ message' \in [Callbacks -> SUBSET Messages]
      BY <1>3 DEF Crash, Idle, None
    <2>2. pc' \in [Callbacks -> {"idle", "handle", "report", "ack", "nack"}]
      BY <2>1
    <2>3. crashes' \in 0 .. MaxCrashes
      BY <1>3 DEF Crash
    <2> QED
      BY <1>3, <2>1, <2>2, <2>3 DEF Crash
  <1>4. CASE Receiver
    BY <1>4 DEF Receiver, StopReceiving, ReceiverReturns
  <1>5. CASE GiveUp
    BY <1>5 DEF GiveUp
  <1>6. CASE PerformHealthCheck \/ HealthChecked \/ HealthReturns
    BY <1>6 DEF PerformHealthCheck, HealthChecked, HealthReturns
  <1>7. CASE LoadConfig
    BY <1>7 DEF LoadConfig
  <1>8. CASE RemoveConfig
    <2>1. removals' \in 0 .. MaxRemovals /\ loaded' = FALSE
      BY <1>8 DEF RemoveConfig
    <2> QED
      BY <1>8, <2>1 DEF RemoveConfig
  <1> QED
    BY <1>1, <1>2, <1>3, <1>4, <1>5, <1>6, <1>7, <1>8

\* The steps of a callback keep the types.
LEMMA TypeCallback ==
  ASSUME TypeOK, NEW c \in Callbacks,
         Callback(c) \/ \E m \in Messages : ReceiveMessage(c, m)
  PROVE  TypeOK'
  <1> USE LimitsAssumption DEF TypeOK, process, workers, calls, outcome, counts, Goto, Return
  <1>1. CASE HandleEventMessage(c)
    <2>1. PICK m \in message[c] :
            /\ pc' = [pc EXCEPT ![c] =
                 CASE Kind[m] = "malformed" -> "nack"
                   [] Kind[m] = "silent"    -> "ack"
                   [] Kind[m] = "reported"  -> IF loaded THEN "report" ELSE "ack"]
            /\ ignored' = IF Kind[m] = "reported" /\ ~loaded THEN ignored \cup {m} ELSE ignored
      BY <1>1 DEF HandleEventMessage
    <2>2. Kind[m] \in Kinds
      BY KindAssumption
    <2>3. pc' \in [Callbacks -> {"idle", "handle", "report", "ack", "nack"}]
      BY <2>1, <2>2 DEF Kinds
    <2>4. ignored' \in SUBSET Messages
      BY <2>1
    <2> QED
      BY <1>1, <2>3, <2>4 DEF HandleEventMessage
  <1>2. ASSUME NEW r \in {"ok", "lost", "failed"}, ReportStatus(c, r) PROVE TypeOK'
    <2>1. faults' \in 0 .. MaxFaults
      BY <1>2 DEF ReportStatus
    <2>2. reported' \in SUBSET Messages
      BY <1>2 DEF ReportStatus
    <2>3. pc' \in [Callbacks -> {"idle", "handle", "report", "ack", "nack"}]
      BY <1>2 DEF ReportStatus, Answer
    <2> QED
      BY <1>2, <2>1, <2>2, <2>3 DEF ReportStatus
  <1>3. ASSUME NEW lost \in BOOLEAN, Ack(c, lost) PROVE TypeOK'
    <2>1. faults' \in 0 .. MaxFaults /\ unacked' \in SUBSET Messages
      BY <1>3 DEF Ack
    <2> QED
      BY <1>3, <2>1 DEF Ack
  <1>4. CASE Nack(c)
    BY <1>4 DEF Nack
  <1>5. ASSUME NEW m \in Messages, ReceiveMessage(c, m) PROVE TypeOK'
    BY <1>5 DEF ReceiveMessage
  <1>6. CASE RefuseReport(c)
    BY <1>6 DEF RefuseReport, Answer
  <1> QED
    BY <1>1, <1>2, <1>3, <1>4, <1>5, <1>6 DEF Callback

\* A behaviour of the client never leaves the types.
THEOREM TypeCorrect == Spec => []TypeOK
  <1>1. TypeOK /\ [Next]_vars => TypeOK'
    <2> SUFFICES ASSUME TypeOK, [Next]_vars PROVE TypeOK'
      OBVIOUS
    <2>1. CASE UNCHANGED vars
      BY <2>1 DEF TypeOK, vars, process, workers, calls, outcome, counts
    <2> QED
      BY <2>1, TypeProcess, TypeCallback DEF Next
  <1> QED
    BY TypeInit, <1>1, PTL DEF Spec

-----------------------------------------------------------------------------
(* No event is lost.                                                         *)

\* What Pub/Sub may forget.
Settled(m) == Kind[m] # "malformed" /\ (Kind[m] = "reported" => m \in reported \cup ignored)

\* A callback holds one message, and is only at the acknowledgement when the
\* message may be forgotten.
CallOK(c) ==
  /\ \A m, n \in message[c] : m = n
  /\ pc[c] = "report" => \A m \in message[c] : Kind[m] = "reported"
  /\ pc[c] = "ack" => \A m \in message[c] : Settled(m)

CallsOK == \A c \in Callbacks : CallOK(c)

\* A step that changes no callback, no message and no report keeps both.
LEMMA LostUnchanged ==
  ASSUME CallsOK, NothingLost, UNCHANGED <<calls, unacked, outcome>>
  PROVE  CallsOK' /\ NothingLost'
  BY DEF CallsOK, CallOK, Settled, NothingLost, calls, outcome

LEMMA LostProcess ==
  ASSUME TypeOK, CallsOK, NothingLost,
         \/ Main \/ Signal \/ Crash \/ LoadConfig \/ RemoveConfig \/ Receiver \/ GiveUp
         \/ PerformHealthCheck \/ HealthChecked \/ HealthReturns
  PROVE  CallsOK' /\ NothingLost'
  <1>1. CASE Crash
    BY <1>1 DEF Crash, Idle, None, CallsOK, CallOK, NothingLost, outcome
  <1>2. CASE Main
    BY <1>2, LostUnchanged
       DEF Main, SpawnWorkers, SetRunning, CancelContext, SetStopped, Restart
  <1>3. CASE Signal \/ GiveUp \/ Receiver
    BY <1>3, LostUnchanged DEF Signal, GiveUp, Receiver, StopReceiving, ReceiverReturns
  <1>4. CASE PerformHealthCheck \/ HealthChecked \/ HealthReturns
    BY <1>4, LostUnchanged DEF PerformHealthCheck, HealthChecked, HealthReturns
  <1>5. CASE LoadConfig \/ RemoveConfig
    BY <1>5, LostUnchanged DEF LoadConfig, RemoveConfig
  <1> QED
    BY <1>1, <1>2, <1>3, <1>4, <1>5

\* Callbacks other than c keep what they have, and reports are not withdrawn.
LEMMA OtherCalls ==
  ASSUME TypeOK, CallsOK, NEW c \in Callbacks, reported \subseteq reported',
         ignored \subseteq ignored',
         \A d \in Callbacks \ {c} : pc'[d] = pc[d] /\ message'[d] = message[d],
         CallOK(c)'
  PROVE  CallsOK'
  BY DEF CallsOK, CallOK, Settled

LEMMA LostCallback ==
  ASSUME TypeOK, CallsOK, NothingLost, NEW c \in Callbacks,
         Callback(c) \/ \E m \in Messages : ReceiveMessage(c, m)
  PROVE  CallsOK' /\ NothingLost'
  <1>0. CallOK(c)
    BY DEF CallsOK
  <1> USE DEF TypeOK, Goto, outcome
  <1>1. CASE HandleEventMessage(c)
    <2>1. PICK m \in message[c] :
            /\ Goto(c, CASE Kind[m] = "malformed" -> "nack"
                         [] Kind[m] = "silent"    -> "ack"
                         [] Kind[m] = "reported"  -> IF loaded THEN "report" ELSE "ack")
            /\ ignored' = IF Kind[m] = "reported" /\ ~loaded THEN ignored \cup {m} ELSE ignored
      BY <1>1 DEF HandleEventMessage
    <2>2. \A n \in message[c] : n = m
      BY <1>0 DEF CallOK
    <2>3. m \in Messages /\ Kind[m] \in Kinds
      BY KindAssumption
    <2>4. /\ pc'[c] = "report" => Kind[m] = "reported"
          /\ pc'[c] = "ack" => Kind[m] # "malformed" /\ (Kind[m] = "reported" => m \in ignored')
          /\ ignored \subseteq ignored'
      BY <2>1, <2>3 DEF Kinds
    <2>5. CallOK(c)'
      BY <1>0, <1>1, <2>2, <2>4 DEF HandleEventMessage, CallOK, Settled
    <2>6. CallsOK'
      BY <1>1, <2>1, <2>4, <2>5, OtherCalls DEF HandleEventMessage
    <2> QED
      BY <1>1, <2>4, <2>6 DEF HandleEventMessage, NothingLost
  <1>2. ASSUME NEW r \in {"ok", "lost", "failed"}, ReportStatus(c, r)
        PROVE  CallsOK' /\ NothingLost'
    <2>1. /\ pc'[c] = Answer(r)
          /\ message' = message /\ unacked' = unacked
          /\ reported \subseteq reported' /\ ignored' = ignored
          /\ r # "failed" => message[c] \subseteq reported'
      BY <1>2 DEF ReportStatus
    <2>2. pc'[c] = "ack" => r = "ok"
      BY <2>1 DEF Answer
    <2>3. \A m \in message[c] : Kind[m] = "reported"
      BY <1>0, <1>2 DEF ReportStatus, CallOK
    <2>4. pc'[c] # "report"
      BY <2>1 DEF Answer
    <2>5. CallOK(c)'
      BY <1>0, <2>1, <2>2, <2>3, <2>4 DEF CallOK, Settled
    <2>6. CallsOK'
      BY <1>2, <2>1, <2>5, OtherCalls DEF ReportStatus
    <2> QED
      BY <2>1, <2>6 DEF NothingLost
  <1>3. ASSUME NEW lost \in BOOLEAN, Ack(c, lost) PROVE CallsOK' /\ NothingLost'
    <2>1. /\ pc'[c] = "idle" /\ message'[c] = {}
          /\ reported' = reported /\ ignored' = ignored
          /\ unacked \ message[c] \subseteq unacked'
      BY <1>3 DEF Ack, Return
    <2>2. CallOK(c)'
      BY <2>1 DEF CallOK
    <2>3. CallsOK'
      BY <1>3, <2>1, <2>2, OtherCalls DEF Ack, Return
    <2>4. \A m \in message[c] : Settled(m)
      BY <1>0, <1>3 DEF Ack, CallOK
    <2> QED
      BY <2>1, <2>3, <2>4 DEF NothingLost, Settled
  <1>4. CASE Nack(c)
    <2>1. CallOK(c)'
      BY <1>4 DEF Nack, Return, CallOK
    <2>2. CallsOK'
      BY <1>4, <2>1, OtherCalls DEF Nack, Return
    <2> QED
      BY <1>4, <2>2 DEF Nack, NothingLost
  <1>5. ASSUME NEW m \in Messages, ReceiveMessage(c, m) PROVE CallsOK' /\ NothingLost'
    <2>1. CallOK(c)'
      BY <1>5 DEF ReceiveMessage, CallOK
    <2>2. CallsOK'
      BY <1>5, <2>1, OtherCalls DEF ReceiveMessage
    <2> QED
      BY <1>5, <2>2 DEF ReceiveMessage, NothingLost
  <1>6. CASE RefuseReport(c)
    <2>1. CallOK(c)'
      BY <1>0, <1>6 DEF RefuseReport, Answer, CallOK
    <2>2. CallsOK'
      BY <1>6, <2>1, OtherCalls DEF RefuseReport
    <2> QED
      BY <1>6, <2>2 DEF RefuseReport, NothingLost
  <1> QED
    BY <1>1, <1>2, <1>3, <1>4, <1>5, <1>6 DEF Callback

\* Pub/Sub forgets no event before the backend accepted its report or a handler without
\* configuration ignored it, whatever crashes, shutdowns, failed reports and lost
\* acknowledgements.
THEOREM NoEventIsLost == Spec => []NothingLost
  <1>1. Init => CallsOK /\ NothingLost
    BY DEF Init, Idle, None, CallsOK, CallOK, NothingLost
  <1>2. TypeOK /\ CallsOK /\ NothingLost /\ [Next]_vars => CallsOK' /\ NothingLost'
    <2> SUFFICES ASSUME TypeOK, CallsOK, NothingLost, [Next]_vars
                 PROVE  CallsOK' /\ NothingLost'
      OBVIOUS
    <2>1. CASE UNCHANGED vars
      BY <2>1, LostUnchanged DEF vars
    <2> QED
      BY <2>1, LostProcess, LostCallback DEF Next
  <1> QED
    BY TypeCorrect, <1>1, <1>2, PTL DEF Spec

-----------------------------------------------------------------------------
(* Nothing runs after Stop.                                                  *)

\* Callbacks run while Receive does, an ended process has no worker, and a
\* stopped client is one whose main has ended with both workers.
Quiet ==
  /\ receiver \in {"none", "done"} => \A c \in Callbacks : pc[c] = "idle"
  /\ main = "exited" => receiver = "done"
  /\ status = "stopped" => main = "exited" /\ receiver = "done" /\ health = "done"

\* When Stop has returned no worker and no callback runs any more.
THEOREM StopIsQuiet == Spec => []StoppedIsQuiet
  <1>1. Init => Quiet
    BY DEF Init, Idle, Quiet
  <1>2. TypeOK /\ Quiet /\ [Next]_vars => Quiet'
    <2> SUFFICES ASSUME TypeOK, Quiet, [Next]_vars PROVE Quiet'
      OBVIOUS
    <2> USE DEF TypeOK, Quiet, process, workers, calls, counts
    <2>1. CASE Main
      <3>1. pc' = pc
        BY <2>1 DEF Main, SpawnWorkers, SetRunning, CancelContext, SetStopped, Restart
      <3>2. CASE SpawnWorkers
        BY <3>2 DEF SpawnWorkers
      <3>3. CASE SetRunning
        BY <3>3 DEF SetRunning
      <3>4. CASE CancelContext
        BY <3>4 DEF CancelContext
      <3>5. CASE SetStopped
        BY <3>5 DEF SetStopped, WorkersDone
      <3>6. CASE Restart
        <4>1. \A c \in Callbacks : pc[c] = "idle"
          BY <3>6 DEF Restart
        <4> QED
          BY <3>6, <4>1 DEF Restart
      <3> QED
        BY <2>1, <3>2, <3>3, <3>4, <3>5, <3>6 DEF Main
    <2>2. CASE Signal \/ Crash
      BY <2>2 DEF Signal, Crash, Idle
    <2>3. CASE Receiver \/ GiveUp
      BY <2>3 DEF Receiver, StopReceiving, ReceiverReturns, GiveUp
    <2>4. CASE PerformHealthCheck \/ HealthChecked \/ HealthReturns
      BY <2>4 DEF PerformHealthCheck, HealthChecked, HealthReturns
    <2>5. ASSUME NEW c \in Callbacks, Callback(c) PROVE Quiet'
      <3>1. pc[c] # "idle" /\ UNCHANGED <<process, workers>>
        BY <2>5 DEF Callback, HandleEventMessage, ReportStatus, RefuseReport, Ack, Nack
      <3>2. receiver \notin {"none", "done"}
        BY <3>1
      <3> QED
        BY <3>1, <3>2
    <2>6. ASSUME NEW c \in Callbacks, NEW m \in Messages, ReceiveMessage(c, m) PROVE Quiet'
      BY <2>6 DEF ReceiveMessage
    <2>7. CASE UNCHANGED vars
      BY <2>7 DEF vars
    <2>8. CASE LoadConfig \/ RemoveConfig
      BY <2>8 DEF LoadConfig, RemoveConfig
    <2> QED
      BY <2>1, <2>2, <2>3, <2>4, <2>5, <2>6, <2>7, <2>8 DEF Next
  <1>3. Quiet => StoppedIsQuiet
    BY DEF Quiet, StoppedIsQuiet
  <1> QED
    BY TypeCorrect, <1>1, <1>2, <1>3, PTL DEF Spec
=============================================================================
