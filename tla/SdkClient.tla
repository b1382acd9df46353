------------------------------ MODULE SdkClient ------------------------------
(***************************************************************************)
(* The life of the SDK client (sdk/client.go) in its process (main.go):    *)
(* Start and Stop, the subscription worker with its concurrent callbacks,  *)
(* the health worker, the mutex and the context they share, and the way of *)
(* an event from Pub/Sub through routing and ReportStatus to Ack or Nack.  *)
(*                                                                         *)
(* What a handler does between its check for a configuration and its       *)
(* report is one step here; see VersionedResource and ConfigReconciler.    *)
(*                                                                         *)
(* Environment: signals, crashes (also a panic, or SIGKILL when the grace  *)
(* period is over), restarts by the kubelet, a ControllerConfig that is    *)
(* removed, failed calls, Receive giving up, Pub/Sub delivering a message  *)
(* again or to two callbacks, and losing an Ack.                           *)
(***************************************************************************)
EXTENDS Integers, FiniteSets

CONSTANTS
  Callbacks,   \* callbacks Receive may run at once
  Messages,    \* the messages of the subscription
  Kind,        \* what routing makes of a message, see Kinds
  MaxSignals,  \* bound: terminations by a signal
  MaxCrashes,  \* bound: crashes of the process
  MaxFaults,   \* bound: failed reports and lost Acks
  MaxGivenUp,  \* bound: times Receive ends with an error
  MaxRemovals  \* bound: removals of the ControllerConfig

\* "reported": the handler ends in ReportStatus, if it has a configuration.  "silent": it has nothing to
\* report (deletions, controller events, unknown types).  "malformed": no
\* event_type, or data that does not decode.
Kinds == {"reported", "silent", "malformed"}

ASSUME KindAssumption == Kind \in [Messages -> Kinds]
ASSUME LimitsAssumption ==
  /\ MaxSignals \in Nat
  /\ MaxCrashes \in Nat
  /\ MaxFaults \in Nat
  /\ MaxGivenUp \in Nat
  /\ MaxRemovals \in Nat

VARIABLES
  main,       \* what main() is doing
  status,     \* Client.status
  mutex,      \* Client.mu is held (by Start or Stop)
  cancelled,  \* Client.ctx is cancelled
  loaded,     \* Controller.controllerConfig is not nil
  receiver,   \* eventSubscriptionWorker
  health,     \* healthCheckWorker
  pc,         \* per callback: its next step
  message,    \* per callback: {} or the message it was given
  unacked,    \* messages Pub/Sub still has
  reported,   \* messages whose status cls-backend accepted
  ignored,    \* messages that call for a report and met a handler without configuration
  signals, crashes, faults, givenUp, removals  \* how often so far

process == <<main, status, mutex, cancelled, loaded>>
workers == <<receiver, health>>
calls   == <<pc, message>>
outcome == <<reported, ignored>>
counts  == <<signals, crashes, faults, givenUp, removals>>
vars    == <<process, workers, calls, unacked, outcome, counts>>

Idle == [c \in Callbacks |-> "idle"]
None == [c \in Callbacks |-> {}]

Init ==
  /\ main = "start"
  /\ status = "initialized"
  /\ mutex = FALSE
  /\ cancelled = FALSE
  /\ loaded = FALSE
  /\ receiver = "none"
  /\ health = "none"
  /\ pc = Idle
  /\ message = None
  /\ unacked = Messages
  /\ reported = {}
  /\ ignored = {}
  /\ signals = 0
  /\ crashes = 0
  /\ faults = 0
  /\ givenUp = 0
  /\ removals = 0

-----------------------------------------------------------------------------
(* main, Start and Stop.                                                     *)

\* Start: lock, and run the two workers.
SpawnWorkers ==
  /\ main = "start"
  /\ ~mutex
  /\ status # "running"
  /\ mutex' = TRUE
  /\ receiver' = "receiving"
  /\ health' = "waiting"
  /\ main' = "spawned"
  /\ UNCHANGED <<status, cancelled, loaded, calls, unacked, outcome, counts>>

\* The status changes when the workers run already.
SetRunning ==
  /\ main = "spawned"
  /\ status' = "running"
  /\ mutex' = FALSE
  /\ main' = "serving"
  /\ UNCHANGED <<cancelled, loaded, workers, calls, unacked, outcome, counts>>

\* SIGINT or SIGTERM ends mgr.Start, and main calls Stop.
Signal ==
  /\ main = "serving"
  /\ signals < MaxSignals
  /\ signals' = signals + 1
  /\ main' = "stop"
  /\ UNCHANGED <<status, mutex, cancelled, loaded, workers, calls, unacked, outcome,
                 crashes, faults, givenUp, removals>>

\* Stop: lock, cancel the context ...
CancelContext ==
  /\ main = "stop"
  /\ ~mutex
  /\ status = "running"
  /\ mutex' = TRUE
  /\ cancelled' = TRUE
  /\ main' = "waiting"
  /\ UNCHANGED <<status, loaded, workers, calls, unacked, outcome, counts>>

\* Broken variant: Stop does not wait.
NoWait == TRUE

\* wg.Wait
WorkersDone == receiver = "done" /\ health = "done"

\* ... and wait for the workers with the mutex held.
SetStopped ==
  /\ main = "waiting"
  /\ WorkersDone
  /\ status' = "stopped"
  /\ mutex' = FALSE
  /\ main' = "exited"
  /\ UNCHANGED <<cancelled, loaded, workers, calls, unacked, outcome, counts>>

\* The process dies: its callbacks answer nothing.
Crash ==
  /\ main # "exited"
  /\ crashes < MaxCrashes
  /\ crashes' = crashes + 1
  /\ main' = "exited"
  /\ receiver' = "done"
  /\ health' = "done"
  /\ pc' = Idle
  /\ message' = None
  /\ UNCHANGED <<status, mutex, cancelled, loaded, unacked, outcome, signals, faults,
                 givenUp, removals>>

\* The kubelet starts the process again, with a new client and no configuration yet.
Restart ==
  /\ main = "exited"
  /\ main' = "start"
  /\ status' = "initialized"
  /\ mutex' = FALSE
  /\ cancelled' = FALSE
  /\ loaded' = FALSE
  /\ receiver' = "none"
  /\ health' = "none"
  /\ UNCHANGED <<calls, unacked, outcome, counts>>

-----------------------------------------------------------------------------
(* The configuration (see ConfigReconciler).  Reconcile runs in mgr.Start, so *)
(* only when the callbacks already run.                                       *)

LoadConfig ==
  /\ main = "serving"
  /\ ~loaded
  /\ loaded' = TRUE
  /\ UNCHANGED <<main, status, mutex, cancelled, workers, calls, unacked, outcome, counts>>

\* Reconcile does not find the ControllerConfig any more.
RemoveConfig ==
  /\ main = "serving"
  /\ loaded
  /\ removals < MaxRemovals
  /\ removals' = removals + 1
  /\ loaded' = FALSE
  /\ UNCHANGED <<main, status, mutex, cancelled, workers, calls, unacked, outcome,
                 signals, crashes, faults, givenUp>>

-----------------------------------------------------------------------------
(* The workers.                                                              *)

\* Broken variant: the workers run with a context of their own.
ContextNever == FALSE

\* c.ctx.Done()
ContextDone == cancelled

\* Receive notices the cancellation and calls no more callbacks.
StopReceiving ==
  /\ receiver = "receiving"
  /\ ContextDone
  /\ receiver' = "draining"
  /\ UNCHANGED <<process, health, calls, unacked, outcome, counts>>

\* Receive ends with an error it does not retry (the subscription is gone, access
\* is denied).  The worker logs it.
GiveUp ==
  /\ receiver = "receiving"
  /\ givenUp < MaxGivenUp
  /\ givenUp' = givenUp + 1
  /\ receiver' = "draining"
  /\ UNCHANGED <<process, health, calls, unacked, outcome, signals, crashes, faults,
                 removals>>

\* Receive returns after the last callback, and the worker ends.
ReceiverReturns ==
  /\ receiver = "draining"
  /\ \A c \in Callbacks : pc[c] = "idle"
  /\ receiver' = "done"
  /\ UNCHANGED <<process, health, calls, unacked, outcome, counts>>

\* The select of the health worker; what performHealthCheck finds is logged.
PerformHealthCheck ==
  /\ health = "waiting"
  /\ health' = "checking"
  /\ UNCHANGED <<process, receiver, calls, unacked, outcome, counts>>

HealthChecked ==
  /\ health = "checking"
  /\ health' = "waiting"
  /\ UNCHANGED <<process, receiver, calls, unacked, outcome, counts>>

HealthReturns ==
  /\ health = "waiting"
  /\ ContextDone
  /\ health' = "done"
  /\ UNCHANGED <<process, receiver, calls, unacked, outcome, counts>>

-----------------------------------------------------------------------------
(* A callback.                                                               *)

Goto(c, label) == pc' = [pc EXCEPT ![c] = label]

\* Pub/Sub delivers at least once: also what another callback holds.
ReceiveMessage(c, m) ==
  /\ receiver = "receiving"
  /\ pc[c] = "idle"
  /\ m \in unacked
  /\ message' = [message EXCEPT ![c] = {m}]
  /\ Goto(c, "handle")
  /\ UNCHANGED <<process, workers, unacked, outcome, counts>>

\* handleEventMessage decodes and routes.  A handler without configuration ignores
\* the event, which the callback then acknowledges; otherwise it runs until its report.
HandleEventMessage(c) ==
  /\ pc[c] = "handle"
  /\ \E m \in message[c] :
       /\ Goto(c, CASE Kind[m] = "malformed" -> "nack"
                    [] Kind[m] = "silent"    -> "ack"
                    [] Kind[m] = "reported"  -> IF loaded THEN "report" ELSE "ack")
       /\ ignored' = IF Kind[m] = "reported" /\ ~loaded THEN ignored \cup {m} ELSE ignored
  /\ UNCHANGED <<process, workers, message, unacked, reported, counts>>

\* Broken variant: an error is logged, and the event acknowledged.
AnswerAck(r) == "ack"

\* Broken variant: the answer is what the report came to.
AnswerResult(r) == r

\* eventSubscriptionWorker: the callback acknowledges only without an error.
Answer(r) == IF r = "ok" THEN "ack" ELSE "nack"

\* ReportStatus reads the status without the mutex, so it does not wait for Stop.
\* No handler has a configuration, and gets this far, before the status is "running".
\* The report goes out with the client's context: cancelled, it fails, before or after
\* the backend took it.
ReportStatus(c, r) ==
  /\ pc[c] = "report"
  /\ IF status # "running"
       THEN r = "failed" /\ UNCHANGED faults
       ELSE \/ r = "ok" /\ ~cancelled /\ UNCHANGED faults
            \/ r # "ok" /\ cancelled /\ UNCHANGED faults
            \/ r # "ok" /\ ~cancelled /\ faults < MaxFaults /\ faults' = faults + 1
  /\ reported' = IF r = "failed" THEN reported ELSE reported \cup message[c]
  /\ Goto(c, Answer(r))
  /\ UNCHANGED <<process, workers, message, unacked, ignored, signals, crashes, givenUp,
                 removals>>

\* evaluateAndReportStatus checks for a configuration again, and fails without one.
RefuseReport(c) ==
  /\ pc[c] = "report"
  /\ ~loaded
  /\ Goto(c, Answer("failed"))
  /\ UNCHANGED <<process, workers, message, unacked, outcome, counts>>

Return(c) ==
  /\ Goto(c, "idle")
  /\ message' = [message EXCEPT ![c] = {}]

\* The callback acknowledges; the acknowledgement may be lost on its way.
Ack(c, lost) ==
  /\ pc[c] = "ack"
  /\ IF lost
       THEN faults < MaxFaults /\ faults' = faults + 1 /\ UNCHANGED unacked
       ELSE unacked' = unacked \ message[c] /\ UNCHANGED faults
  /\ Return(c)
  /\ UNCHANGED <<process, workers, outcome, signals, crashes, givenUp, removals>>

Nack(c) ==
  /\ pc[c] = "nack"
  /\ Return(c)
  /\ UNCHANGED <<process, workers, unacked, outcome, counts>>

-----------------------------------------------------------------------------
Main     == SpawnWorkers \/ SetRunning \/ CancelContext \/ SetStopped \/ Restart
Receiver == StopReceiving \/ ReceiverReturns

Callback(c) ==
  \/ HandleEventMessage(c)
  \/ \E r \in {"ok", "lost", "failed"} : ReportStatus(c, r)
  \/ RefuseReport(c)
  \/ \E lost \in BOOLEAN : Ack(c, lost)
  \/ Nack(c)

Next ==
  \/ Main \/ Signal \/ Crash
  \/ LoadConfig \/ RemoveConfig
  \/ Receiver \/ GiveUp
  \/ PerformHealthCheck \/ HealthChecked \/ HealthReturns
  \/ \E c \in Callbacks : Callback(c) \/ \E m \in Messages : ReceiveMessage(c, m)

Spec == Init /\ [][Next]_vars

\* Every goroutine runs on.  A select with two ready cases takes either one in
\* the long run, and Pub/Sub delivers every message it has in the long run, not
\* only some of them: strong fairness of the two.  Nothing is assumed of the
\* ControllerConfig, which may never be there.
Fairness ==
  /\ WF_vars(Main)
  /\ WF_vars(Receiver)
  /\ WF_vars(HealthChecked)
  /\ SF_vars(HealthReturns)
  /\ \A c \in Callbacks : WF_vars(Callback(c))
  /\ \A m \in Messages : SF_vars(\E c \in Callbacks : ReceiveMessage(c, m))

FairSpec == Spec /\ Fairness

-----------------------------------------------------------------------------
(* Properties.                                                               *)

TypeOK ==
  /\ main \in {"start", "spawned", "serving", "stop", "waiting", "exited"}
  /\ status \in {"initialized", "running", "stopped"}
  /\ mutex \in BOOLEAN
  /\ cancelled \in BOOLEAN
  /\ loaded \in BOOLEAN
  /\ receiver \in {"none", "receiving", "draining", "done"}
  /\ health \in {"none", "waiting", "checking", "done"}
  /\ pc \in [Callbacks -> {"idle", "handle", "report", "ack", "nack"}]
  /\ message \in [Callbacks -> SUBSET Messages]
  /\ unacked \in SUBSET Messages
  /\ reported \in SUBSET Messages
  /\ ignored \in SUBSET Messages
  /\ signals \in 0 .. MaxSignals
  /\ crashes \in 0 .. MaxCrashes
  /\ faults \in 0 .. MaxFaults
  /\ givenUp \in 0 .. MaxGivenUp
  /\ removals \in 0 .. MaxRemovals

\* Pub/Sub forgets a message that calls for a report only after the backend accepted
\* one, or after a handler ignored it for want of a configuration, which happens
\* between Start and the first Reconcile of every process.  Nothing else loses an event:
\* no shutdown in mid-report, crash, failed report or lost acknowledgement.  A
\* malformed message is never forgotten.
NothingLost ==
  \A m \in Messages \ unacked :
    Kind[m] # "malformed" /\ (Kind[m] = "reported" => m \in reported \cup ignored)

\* When Stop has returned nothing of the client runs any more: no callback is cut
\* off between its report and its acknowledgement by the end of main.
StoppedIsQuiet ==
  status = "stopped" =>
    receiver = "done" /\ health = "done" /\ \A c \in Callbacks : pc[c] = "idle"

\* Stop ends, though it holds the mutex while it waits for callbacks that may be
\* about to report.
StopEnds == main = "stop" ~> main = "exited"

\* Every event that calls for a report is reported in the end unless some handler
\* ignored it, as long as Receive does not give up: signals, crashes, failed reports,
\* a configuration removed under a handler and messages that come back for ever do
\* not keep it from that.
EventsReportedByReceiver ==
  [](givenUp = 0) =>
    \A m \in Messages : Kind[m] = "reported" => <>(m \in reported \cup ignored)
=============================================================================
