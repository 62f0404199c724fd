-------------------------------- MODULE Workers --------------------------------
(***************************************************************************)
(* The five worker services (metadata, thumbnail, transcode, segment,      *)
(* publish) as an open system.  They run the same protocol: take a step    *)
(* message, do the work, move the step's row to done through the upload    *)
(* service, and send a result if that move was Applied.  When the retries  *)
(* are exhausted the message goes to the DLQ and ReportFailed runs after   *)
(* its ack.  The work itself (fetch, probe, transcode, upload, rows of     *)
(* videos and video_renditions) is one step that succeeds or fails.        *)
(*                                                                         *)
(* The environment, the orchestrator, may move any row as the orchestrator *)
(* can, and dispatch a step again whenever its row is past pending.        *)
(***************************************************************************)
EXTENDS StepTable, Broker

CONSTANTS
    Uploads,
    Replicas        \* instances of each worker service

VARIABLES
    steps,          \* rows of upload_steps, shared with the orchestrator
    status,         \* uploads.status, shared with the orchestrator
    stepQ,          \* the five step queues bound to pipeline-steps
    stepDlq,        \* the messages in their .dlq queues
    reported,       \* reported[u][s][o]: results published to upload-process-step
    wjob            \* wjob[w]: what each worker is doing

wprivate == <<stepQ, stepDlq, reported, wjob>>

wvars == <<steps, status, wprivate>>

Outcomes == {"done", "failed"}

UploadStatuses == {"processing", "finished", "failed"}

StepMsgs == [upload : Uploads, step : Steps, attempt : Attempts]

(* A consumer of step w[1]'s queue. *)
WorkerIds == Steps \X Replicas

Idle == [pc |-> "idle"]

(* Before its ack a message is held by the broker for this consumer; after  *)
(* it, ReportFailed runs with nothing to redeliver.                         *)
Holding == {"work", "commit", "report", "retry", "ack", "ackdlq"}

Reporting == {"failstep", "failupload", "sendfailed"}

(* applied: the reply of UpdateUploadStep(failed), read after failupload.   *)
(* closed: the channel of the delivery is closed and the broker has         *)
(* requeued it, but the handler goes on; results have their own channels.   *)
WorkerJobs == [pc : Holding \cup Reporting, msg : StepMsgs, applied : BOOLEAN,
               closed : BOOLEAN]

NewJob(m) == [pc |-> "work", msg |-> m, applied |-> FALSE, closed |-> FALSE]

At(w, pc) == wjob[w].pc = pc

Goto(w, pc) == wjob' = [wjob EXCEPT ![w].pc = pc]

Release(w) == wjob' = [wjob EXCEPT ![w] = Idle]

RowOf(m) == steps[m.upload][m.step]

SetRowOf(m, row) == steps' = [steps EXCEPT ![m.upload][m.step] = row]

Init ==
    /\ steps = [u \in Uploads |-> [s \in Steps |-> "absent"]]
    /\ status = [u \in Uploads |-> "processing"]
    /\ stepQ = [m \in StepMsgs |-> 0]
    /\ stepDlq = {}
    /\ reported = [u \in Uploads |-> [s \in Steps |-> [o \in Outcomes |-> 0]]]
    /\ wjob = [w \in WorkerIds |-> Idle]

--------------------------------------------------------------------------------
(* Mutant of Receive: the consumers share one queue. *)
ReceiveAny(w) ==
    /\ At(w, "idle")
    /\ \E m \in StepMsgs :
          /\ stepQ[m] > 0
          /\ stepQ' = Take(stepQ, m)
          /\ wjob' = [wjob EXCEPT ![w] = NewJob(m)]
    /\ UNCHANGED <<steps, status, stepDlq, reported>>

(* A delivery arrives at a consumer of its step's queue. *)
Receive(w) ==
    /\ At(w, "idle")
    /\ \E m \in StepMsgs :
          /\ m.step = w[1] /\ stepQ[m] > 0
          /\ stepQ' = Take(stepQ, m)
          /\ wjob' = [wjob EXCEPT ![w] = NewJob(m)]
    /\ UNCHANGED <<steps, status, stepDlq, reported>>

(* Everything of the handler before its UpdateUploadStep(done) succeeded. *)
WorkDone(w) ==
    /\ At(w, "work")
    /\ Goto(w, "commit")
    /\ UNCHANGED <<steps, status, stepQ, stepDlq, reported>>

(* One of the calls before UpdateUploadStep(done) returned an error. *)
WorkFails(w) ==
    /\ At(w, "work")
    /\ Goto(w, "retry")
    /\ UNCHANGED <<steps, status, stepQ, stepDlq, reported>>

(* Mutant of Commit: the row is set without the condition on its status. *)
CommitUnguarded(w) ==
    /\ At(w, "commit")
    /\ SetRowOf(wjob[w].msg, "done")
    /\ Goto(w, "report")
    /\ UNCHANGED <<status, stepQ, stepDlq, reported>>

(* Mutant of Commit: the handler does not read Applied. *)
CommitUnread(w) ==
    /\ At(w, "commit")
    /\ SetRowOf(wjob[w].msg, Update(RowOf(wjob[w].msg), "done"))
    /\ Goto(w, "report")
    /\ UNCHANGED <<status, stepQ, stepDlq, reported>>

(* UpdateUploadStep(done): a result follows only if it was Applied. *)
Commit(w) ==
    /\ At(w, "commit")
    /\ LET m == wjob[w].msg
       IN  IF Applies(RowOf(m), "done")
           THEN SetRowOf(m, "done") /\ Goto(w, "report")
           ELSE UNCHANGED steps /\ Goto(w, "ack")
    /\ UNCHANGED <<status, stepQ, stepDlq, reported>>

(* PublishStepResult(done). *)
ReportDone(w) ==
    /\ At(w, "report")
    /\ reported' = [reported EXCEPT ![wjob[w].msg.upload][wjob[w].msg.step]["done"] = @ + 1]
    /\ Goto(w, "ack")
    /\ UNCHANGED <<steps, status, stepQ, stepDlq>>

(* d.Ack after the handler returned nil or after HandleRetry republished. *)
Ack(w) ==
    /\ At(w, "ack")
    /\ Release(w)
    /\ UNCHANGED <<steps, status, stepQ, stepDlq, reported>>

(* HandleRetry: a copy with the next attempt goes to the delay queue. *)
RetryLater(w) ==
    /\ At(w, "retry") /\ ~wjob[w].closed /\ ~Exhausted(wjob[w].msg)
    /\ stepQ' = Put(stepQ, Again(wjob[w].msg))
    /\ Goto(w, "ack")
    /\ UNCHANGED <<steps, status, stepDlq, reported>>

(* Mutant of DeadLetter: an exhausted message is acked without a DLQ copy. *)
DeadLetterDropped(w) ==
    /\ At(w, "retry") /\ ~wjob[w].closed /\ Exhausted(wjob[w].msg)
    /\ Goto(w, "ackdlq")
    /\ UNCHANGED <<steps, status, stepQ, stepDlq, reported>>

(* HandleRetry: retries are exhausted, the message goes to the .dlq queue. *)
DeadLetter(w) ==
    /\ At(w, "retry") /\ ~wjob[w].closed /\ Exhausted(wjob[w].msg)
    /\ stepDlq' = stepDlq \cup {wjob[w].msg}
    /\ Goto(w, "ackdlq")
    /\ UNCHANGED <<steps, status, stepQ, reported>>

(* Mutant of AckDeadLettered: the consumer never calls ReportFailed. *)
DeadLetteredSilently(w) ==
    /\ At(w, "ackdlq")
    /\ Release(w)
    /\ UNCHANGED <<steps, status, stepQ, stepDlq, reported>>

(* HandleRetry acks and returns true; the consumer calls ReportFailed. *)
AckDeadLettered(w) ==
    /\ At(w, "ackdlq")
    /\ Goto(w, "failstep")
    /\ UNCHANGED <<steps, status, stepQ, stepDlq, reported>>

(* Mutant of FailStep: ReportFailed does not read Applied. *)
FailStepUnread(w) ==
    /\ At(w, "failstep")
    /\ LET m == wjob[w].msg
       IN  /\ SetRowOf(m, Update(RowOf(m), "failed"))
           /\ wjob' = [wjob EXCEPT ![w].applied = TRUE,
                                   ![w].pc = IF m.step = "publish" THEN "failupload"
                                                                   ELSE "sendfailed"]
    /\ UNCHANGED <<status, stepQ, stepDlq, reported>>

(* ReportFailed: UpdateUploadStep(failed); publish goes on in either case. *)
FailStep(w) ==
    /\ At(w, "failstep")
    /\ LET m == wjob[w].msg
           applied == Applies(RowOf(m), "failed")
       IN  /\ SetRowOf(m, Update(RowOf(m), "failed"))
           /\ IF m.step = "publish" \/ applied
              THEN wjob' = [wjob EXCEPT ![w].applied = applied,
                                        ![w].pc = IF m.step = "publish" THEN "failupload"
                                                                        ELSE "sendfailed"]
              ELSE Release(w)
    /\ UNCHANGED <<status, stepQ, stepDlq, reported>>

(* The publish worker's ReportFailed: UpdateUploadStatus(failed). *)
FailUpload(w) ==
    /\ At(w, "failupload")
    /\ status' = [status EXCEPT ![wjob[w].msg.upload] = "failed"]
    /\ IF wjob[w].applied THEN Goto(w, "sendfailed") ELSE Release(w)
    /\ UNCHANGED <<steps, stepQ, stepDlq, reported>>

(* ReportFailed: PublishStepResult(failed). *)
ReportFailed(w) ==
    /\ At(w, "sendfailed")
    /\ reported' = [reported EXCEPT ![wjob[w].msg.upload][wjob[w].msg.step]["failed"] = @ + 1]
    /\ Release(w)
    /\ UNCHANGED <<steps, status, stepQ, stepDlq>>

--------------------------------------------------------------------------------
(* Failed calls, lost replies, lost connections. *)

(* UpdateUploadStep(done) or PublishStepResult(done) took no effect. *)
CallFails(w) ==
    /\ wjob[w].pc \in {"commit", "report"}
    /\ Goto(w, "retry")
    /\ UNCHANGED <<steps, status, stepQ, stepDlq, reported>>

(* UpdateUploadStep(done) was executed, but the worker got an error. *)
CommitReplyLost(w) ==
    /\ At(w, "commit")
    /\ SetRowOf(wjob[w].msg, Update(RowOf(wjob[w].msg), "done"))
    /\ Goto(w, "retry")
    /\ UNCHANGED <<status, stepQ, stepDlq, reported>>

(* ReportFailed: UpdateUploadStep(failed) returned an error, executed or not. *)
FailStepFails(w) ==
    /\ At(w, "failstep")
    /\ LET m == wjob[w].msg
       IN  /\ \/ UNCHANGED steps
              \/ SetRowOf(m, Update(RowOf(m), "failed"))
           /\ IF m.step = "publish" THEN Goto(w, "failupload") ELSE Release(w)
    /\ UNCHANGED <<status, stepQ, stepDlq, reported>>

(* The publish worker discards the error of its UpdateUploadStatus(failed). *)
FailUploadFails(w) ==
    /\ At(w, "failupload")
    /\ IF wjob[w].applied THEN Goto(w, "sendfailed") ELSE Release(w)
    /\ UNCHANGED <<steps, status, stepQ, stepDlq, reported>>

(* ReportFailed discards the error of PublishStepResult(failed). *)
ReportFailedFails(w) ==
    /\ At(w, "sendfailed")
    /\ Release(w)
    /\ UNCHANGED <<steps, status, stepQ, stepDlq, reported>>

(* Mutant of RetryFails: Nack(false, false) instead of Nack(false, true). *)
RetryFailsDropped(w) ==
    /\ At(w, "retry")
    /\ Release(w)
    /\ UNCHANGED <<steps, status, stepQ, stepDlq, reported>>

(* The broker requeues an unacked delivery once: when its channel closes.   *)
Requeue(w) == stepQ' = IF wjob[w].closed THEN stepQ ELSE Put(stepQ, wjob[w].msg)

(* HandleRetry: its publish failed, so the delivery is nacked and requeued. *)
RetryFails(w) ==
    /\ At(w, "retry")
    /\ Requeue(w)
    /\ Release(w)
    /\ UNCHANGED <<steps, status, stepDlq, reported>>

(* The process dies before the ack: the broker redelivers. *)
Crash(w) ==
    /\ wjob[w].pc \in Holding
    /\ Requeue(w)
    /\ Release(w)
    /\ UNCHANGED <<steps, status, stepDlq, reported>>

(* The delivery's channel closes under the handler (the connection breaks,  *)
(* or the broker waits no longer for the ack), and the handler goes on.     *)
ChannelCloses(w) ==
    /\ wjob[w].pc \in Holding /\ ~wjob[w].closed
    /\ Requeue(w)
    /\ wjob' = [wjob EXCEPT ![w].closed = TRUE]
    /\ UNCHANGED <<steps, status, stepDlq, reported>>

(* HandleRetry publishes on the closed channel, unconfirmed: it gets nil,   *)
(* discards the error of its ack and returns as if the copy had arrived.    *)
RetryUnheard(w) ==
    /\ At(w, "retry") /\ wjob[w].closed
    /\ Goto(w, IF Exhausted(wjob[w].msg) THEN "ackdlq" ELSE "ack")
    /\ UNCHANGED <<steps, status, stepQ, stepDlq, reported>>

(* The process dies inside ReportFailed, whose message is already acked. *)
CrashReporting(w) ==
    /\ wjob[w].pc \in Reporting
    /\ Release(w)
    /\ UNCHANGED <<steps, status, stepQ, stepDlq, reported>>

--------------------------------------------------------------------------------
(* The environment: what the orchestrator does to the shared state. *)

(* A PublishStep of the orchestrator reaches the step's queue. *)
Dispatch(u, s) ==
    /\ steps[u][s] \notin {"absent", "pending"}
    /\ stepQ' = Put(stepQ, [upload |-> u, step |-> s, attempt |-> 0])
    /\ UNCHANGED <<steps, status, stepDlq, reported, wjob>>

(* The orchestrator inserts a row, or updates it to a status it uses. *)
OrchestratorMoves(u, s, row) ==
    /\ row \in {Insert(steps[u][s])}
                  \cup {Update(steps[u][s], t) : t \in {"processing", "done", "canceled"}}
    /\ steps' = [steps EXCEPT ![u][s] = row]
    /\ UNCHANGED <<status, wprivate>>

(* The orchestrator fails or finishes the upload, or a late finalize sets   *)
(* it back to processing.                                                   *)
StatusMoves(u, st) ==
    /\ status' = [status EXCEPT ![u] = st]
    /\ UNCHANGED <<steps, wprivate>>

--------------------------------------------------------------------------------
(* Everything a worker does except handing a result to the orchestrator. *)
Inner(w) ==
    \/ Receive(w) \/ WorkDone(w) \/ WorkFails(w) \/ Commit(w)
    \/ RetryLater(w) \/ DeadLetter(w) \/ Ack(w)
    \/ AckDeadLettered(w) \/ FailStep(w) \/ FailUpload(w)

Work(w) == Inner(w) \/ ReportDone(w) \/ ReportFailed(w)

Fault(w) ==
    \/ CallFails(w) \/ CommitReplyLost(w) \/ FailStepFails(w) \/ FailUploadFails(w)
    \/ ReportFailedFails(w) \/ RetryFails(w) \/ Crash(w) \/ CrashReporting(w)
    \/ ChannelCloses(w) \/ RetryUnheard(w)

Environment ==
    \E u \in Uploads :
        \/ \E s \in Steps : Dispatch(u, s)
        \/ \E s \in Steps, row \in RowStates : OrchestratorMoves(u, s, row)
        \/ \E st \in UploadStatuses : StatusMoves(u, st)

Next == (\E w \in WorkerIds : Work(w) \/ Fault(w)) \/ Environment

Spec == Init /\ [][Next]_wvars

--------------------------------------------------------------------------------
(* Every variable stays in its domain, and a worker handles only messages   *)
(* of the step whose queue it consumes.                                     *)
TypeOK ==
    /\ steps \in [Uploads -> [Steps -> RowStates]]
    /\ status \in [Uploads -> UploadStatuses]
    /\ stepQ \in [StepMsgs -> Nat]
    /\ stepDlq \in SUBSET StepMsgs
    /\ reported \in [Uploads -> [Steps -> [Outcomes -> Nat]]]
    /\ DOMAIN wjob = WorkerIds
    /\ \A w \in WorkerIds :
          wjob[w] = Idle \/ (wjob[w] \in WorkerJobs /\ wjob[w].msg.step = w[1])

(* A result on the wire agrees with the row for good: no step is reported   *)
(* done while its row is failed or canceled, nor the other way round, and a *)
(* done result always finds the row already done.                           *)
ResultMatchesRow ==
    \A u \in Uploads, s \in Steps, o \in Outcomes :
        reported[u][s][o] > 0 => steps[u][s] = o

(* A step has at most one result, of one outcome, however often its message *)
(* is dispatched, redelivered, retried or handled by two replicas at once.  *)
ReportedOnce ==
    \A u \in Uploads, s \in Steps : reported[u][s]["done"] + reported[u][s]["failed"] \leq 1

(* A row is set to failed only when its message is in the DLQ, except by a  *)
(* worker that lost the channel on which it parked the message.             *)
FailedIsDeadLettered ==
    [][\A u \in Uploads, s \in Steps :
          steps[u][s] # "failed" /\ steps'[u][s] = "failed" =>
              \/ \E m \in stepDlq : m.upload = u /\ m.step = s
              \/ \E w \in WorkerIds : /\ At(w, "failstep") /\ wjob[w].closed
                                      /\ wjob[w].msg.upload = u /\ wjob[w].msg.step = s]_wvars

(* A message of the step that is queued, being handled, or in the DLQ.      *)
StepPending(u, s) ==
    \/ \E m \in StepMsgs : m.upload = u /\ m.step = s /\ stepQ[m] > 0
    \/ \E m \in stepDlq : m.upload = u /\ m.step = s
    \/ \E w \in WorkerIds :
          ~At(w, "idle") /\ wjob[w].msg.upload = u /\ wjob[w].msg.step = s

(* The last message of a step disappears only when its row is settled: no   *)
(* crash, failed call or failed retry loses work that was dispatched.       *)
StepNotLost ==
    [][\A u \in Uploads, s \in Steps :
          StepPending(u, s) /\ ~StepPending(u, s)' => steps'[u][s] \in Terminal]_wvars

--------------------------------------------------------------------------------
(* The inductive invariant behind ResultMatchesRow, ReportedOnce and        *)
(* FailedIsDeadLettered.                                                    *)

(* The worker's own update was Applied and its result is still to be sent.  *)
Claims(w) == \/ wjob[w].pc \in {"report", "sendfailed"}
             \/ At(w, "failupload") /\ wjob[w].applied

ClaimedOutcome(w) == IF At(w, "report") THEN "done" ELSE "failed"

(* A claim is borne out by the row, is nobody else's, and is still unpaid.  *)
ClaimAlone ==
    /\ \A w \in WorkerIds : Claims(w) =>
          /\ RowOf(wjob[w].msg) = ClaimedOutcome(w)
          /\ \A o \in Outcomes : reported[wjob[w].msg.upload][wjob[w].msg.step][o] = 0
    /\ \A w, v \in WorkerIds :
          Claims(w) /\ Claims(v) /\ wjob[w].msg.upload = wjob[v].msg.upload
                                /\ wjob[w].msg.step = wjob[v].msg.step
          => w = v
    /\ \A w \in WorkerIds : wjob[w].pc \in Holding \cup {"failstep"} => ~wjob[w].applied

(* ReportFailed runs only for a message whose DLQ copy exists, or was lost  *)
(* with its channel.                                                        *)
ReportingIsDeadLettered ==
    \A w \in WorkerIds :
        wjob[w].pc \in {"ackdlq"} \cup Reporting => wjob[w].msg \in stepDlq \/ wjob[w].closed

(* Inductive: whoever moved a row to done or failed is the one worker that  *)
(* may still report it, until it has.                                       *)
IndInv ==
    /\ TypeOK
    /\ ClaimAlone
    /\ ResultMatchesRow
    /\ ReportedOnce
    /\ ReportingIsDeadLettered

--------------------------------------------------------------------------------
(* The inductive invariant behind StepNotLost; it rests on IndInv.          *)

(* A worker whose delivery the broker will not give out again: it is about  *)
(* to ack it, or its channel is closed and that has happened.               *)
LetsGo(w) == ~At(w, "idle") /\ (At(w, "ack") \/ wjob[w].closed)

(* A message of the step that will be handled again, or is in the DLQ.      *)
StepKept(u, s) ==
    \/ \E m \in StepMsgs : m.upload = u /\ m.step = s /\ stepQ[m] > 0
    \/ \E m \in stepDlq : m.upload = u /\ m.step = s
    \/ \E w \in WorkerIds : /\ ~At(w, "idle") /\ ~LetsGo(w)
                            /\ wjob[w].msg.upload = u /\ wjob[w].msg.step = s

(* A row changed by the trigger that dispatched its step, or later.         *)
PastPending(m) == RowOf(m) \notin {"absent", "pending"}

(* Inductive with IndInv: only dispatched steps have messages, and a worker *)
(* lets go when the row is settled or somebody else still has a message.    *)
KeepInv ==
    /\ \A m \in StepMsgs : stepQ[m] > 0 => PastPending(m)
    /\ \A w \in WorkerIds : ~At(w, "idle") => PastPending(wjob[w].msg)
    /\ \A w \in WorkerIds : LetsGo(w) =>
          RowOf(wjob[w].msg) \in Terminal \/ StepKept(wjob[w].msg.upload, wjob[w].msg.step)
================================================================================
