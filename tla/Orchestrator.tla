------------------------------ MODULE Orchestrator -----------------------------
(***************************************************************************)
(* The orchestrator service as an open system.  Starters are the           *)
(* upload-process consumers, Handlers the upload-process-step consumers;   *)
(* each handles one delivery at a time.  One action is one call that       *)
(* leaves the process: a gRPC call to the upload service (which runs one   *)
(* SQL statement), a publish, or an ack.  Between two calls of a handler   *)
(* any other consumer, worker or redelivery may run.                       *)
(*                                                                         *)
(* The environment is as free as the code allows it to be: the dispatcher  *)
(* may publish the same start event any number of times, any worker may    *)
(* settle a row or send a result at any time, in any order, and a late     *)
(* finalize request may set the upload back to processing.                 *)
(***************************************************************************)
EXTENDS StepTable, Broker

CONSTANTS
    Uploads,
    Starters,       \* goroutines in RunUploadProcessConsumer
    Handlers        \* goroutines in RunStepResultConsumer

ASSUME ConsumersAssumption == Starters \cap Handlers = {}

VARIABLES
    steps,          \* steps[u][s]: row (u, s) of upload_steps
    status,         \* status[u]: uploads.status, from the moment it is 'processing'
    inbox,          \* upload-process and upload-process-step: copies of each message
    dlq,            \* the messages in their two .dlq queues
    triggered,      \* triggered[u][s]: PublishStep(s, u) calls that returned nil
    job             \* what each consumer is doing

vars == <<steps, status, inbox, dlq, triggered, job>>

Consumers == Starters \cup Handlers

Outcomes == {"done", "failed"}

StartMsgs == [kind : {"start"}, upload : Uploads, attempt : Attempts]

ResultMsgs == [kind : {"result"}, upload : Uploads, step : Steps,
               outcome : Outcomes, attempt : Attempts]

Msgs == StartMsgs \cup ResultMsgs

UploadStatuses == {"processing", "finished", "failed"}

(***************************************************************************)
(* A consumer is idle or holds an unacknowledged message, the call it is   *)
(* about to make, the index of the loop that call is in, and whether the   *)
(* channel of the delivery is closed: the broker has then requeued it, but *)
(* the handler goes on, and PublishStep has a channel of its own.          *)
(***************************************************************************)
Idle == [pc |-> "idle"]

StartJobs ==
    [pc : {"create"}, msg : StartMsgs, k : 1..5, closed : BOOLEAN]
        \cup [pc : {"trigger", "publish"}, msg : StartMsgs, k : 1..2, closed : BOOLEAN]
        \cup [pc : {"retry", "ack"}, msg : StartMsgs, k : {1}, closed : BOOLEAN]

ResultJobs ==
    [pc : {"cancel"}, msg : ResultMsgs, k : 1..5, closed : BOOLEAN]
        \cup [pc : {"complete", "trigger", "publish", "finish", "fail", "retry", "ack"},
              msg : ResultMsgs, k : {1}, closed : BOOLEAN]

Jobs == {Idle} \cup StartJobs \cup ResultJobs

JobsOf(c) == {Idle} \cup (IF c \in Starters THEN StartJobs ELSE ResultJobs)

At(c, pc) == job[c].pc = pc

NewJob(pc, m) == [pc |-> pc, msg |-> m, k |-> 1, closed |-> FALSE]

Goto(c, pc, k) ==
    job' = [job EXCEPT ![c] = [pc |-> pc, msg |-> job[c].msg, k |-> k, closed |-> job[c].closed]]

Release(c) == job' = [job EXCEPT ![c] = Idle]

Row(u, s) == steps[u][s]

SetRow(u, s, row) == steps' = [steps EXCEPT ![u][s] = row]

(* The step a triggerStep call of this job is for. *)
Target(j) == IF j.msg.kind = "start" THEN initialSteps[j.k] ELSE Downstream[j.msg.step]

(* triggerStep returned nil: the next call of the caller's loop, or the ack. *)
Return(c) ==
    IF job[c].msg.kind = "start" /\ job[c].k = 1 THEN Goto(c, "trigger", 2)
                                                 ELSE Goto(c, "ack", 1)

Init ==
    /\ steps = [u \in Uploads |-> [s \in Steps |-> "absent"]]
    /\ status = [u \in Uploads |-> "processing"]
    /\ inbox = [m \in Msgs |-> 0]
    /\ dlq = {}
    /\ triggered = [u \in Uploads |-> [s \in Steps |-> 0]]
    /\ job = [c \in Consumers |-> Idle]

--------------------------------------------------------------------------------
(* The two consumer loops. *)

(* A delivery arrives at an upload-process consumer. *)
ReceiveStart(c) ==
    /\ c \in Starters /\ At(c, "idle")
    /\ \E m \in StartMsgs :
          /\ inbox[m] > 0
          /\ inbox' = Take(inbox, m)
          /\ job' = [job EXCEPT ![c] = NewJob("create", m)]
    /\ UNCHANGED <<steps, status, dlq, triggered>>

(* A delivery arrives at an upload-process-step consumer. *)
ReceiveResult(c) ==
    /\ c \in Handlers /\ At(c, "idle")
    /\ \E m \in ResultMsgs :
          /\ inbox[m] > 0
          /\ inbox' = Take(inbox, m)
          /\ job' = [job EXCEPT ![c] =
                       NewJob(IF m.outcome = "failed" THEN "fail" ELSE "complete", m)]
    /\ UNCHANGED <<steps, status, dlq, triggered>>

(* d.Ack after the handler returned nil, or after HandleRetry republished. *)
Ack(c) ==
    /\ At(c, "ack")
    /\ Release(c)
    /\ UNCHANGED <<steps, status, inbox, dlq, triggered>>

(* HandleRetry: a copy with the next attempt goes to the delay queue. *)
RetryLater(c) ==
    /\ At(c, "retry") /\ ~job[c].closed /\ ~Exhausted(job[c].msg)
    /\ inbox' = Put(inbox, Again(job[c].msg))
    /\ Goto(c, "ack", 1)
    /\ UNCHANGED <<steps, status, dlq, triggered>>

(* HandleRetry: retries are exhausted, the message goes to the .dlq queue. *)
DeadLetter(c) ==
    /\ At(c, "retry") /\ ~job[c].closed /\ Exhausted(job[c].msg)
    /\ dlq' = dlq \cup {job[c].msg}
    /\ Goto(c, "ack", 1)
    /\ UNCHANGED <<steps, status, inbox, triggered>>

--------------------------------------------------------------------------------
(* ProcessUploadProcess, HandleStepResult and triggerStep. *)

(* Mutant of CreateRow: the loop runs one row too far. *)
CreateRowPastEnd(c) ==
    /\ At(c, "create")
    /\ LET u == job[c].msg.upload
           s == pipelineSteps[job[c].k]
       IN  SetRow(u, s, Insert(Row(u, s)))
    /\ IF job[c].k \leq Len(pipelineSteps) THEN Goto(c, "create", job[c].k + 1)
                                           ELSE Goto(c, "trigger", 1)
    /\ UNCHANGED <<status, inbox, dlq, triggered>>

(* One INSERT of the loop in CreateSteps, reached by the CreateUploadSteps call. *)
CreateRow(c) ==
    /\ At(c, "create")
    /\ LET u == job[c].msg.upload
           s == pipelineSteps[job[c].k]
       IN  SetRow(u, s, Insert(Row(u, s)))
    /\ IF job[c].k < Len(pipelineSteps) THEN Goto(c, "create", job[c].k + 1)
                                        ELSE Goto(c, "trigger", 1)
    /\ UNCHANGED <<status, inbox, dlq, triggered>>

(* Mutant of TriggerApplied: the step is published before its row is moved. *)
TriggerBeforeUpdate(c) ==
    /\ At(c, "trigger")
    /\ Applies(Row(job[c].msg.upload, Target(job[c])), "processing")
    /\ Goto(c, "publish", job[c].k)
    /\ UNCHANGED <<steps, status, inbox, dlq, triggered>>

(* triggerStep: UpdateUploadStep(processing) changed the row. *)
TriggerApplied(c) ==
    /\ At(c, "trigger")
    /\ LET u == job[c].msg.upload
           t == Target(job[c])
       IN  /\ Applies(Row(u, t), "processing")
           /\ SetRow(u, t, "processing")
    /\ Goto(c, "publish", job[c].k)
    /\ UNCHANGED <<status, inbox, dlq, triggered>>

(* Mutant of TriggerNotApplied: triggerStep publishes without reading Applied. *)
TriggerUnchecked(c) ==
    /\ At(c, "trigger")
    /\ ~Applies(Row(job[c].msg.upload, Target(job[c])), "processing")
    /\ Goto(c, "publish", job[c].k)
    /\ UNCHANGED <<steps, status, inbox, dlq, triggered>>

(* triggerStep: the row was not pending, so nothing is published. *)
TriggerNotApplied(c) ==
    /\ At(c, "trigger")
    /\ ~Applies(Row(job[c].msg.upload, Target(job[c])), "processing")
    /\ Return(c)
    /\ UNCHANGED <<steps, status, inbox, dlq, triggered>>

(* triggerStep: PublishStep to the pipeline-steps exchange. *)
PublishStep(c) ==
    /\ At(c, "publish")
    /\ triggered' = [triggered EXCEPT ![job[c].msg.upload][Target(job[c])] = @ + 1]
    /\ Return(c)
    /\ UNCHANGED <<steps, status, inbox, dlq>>

(* HandleStepResult: what is called after UpdateUploadStep(done) was Applied. *)
AfterDone(s) ==
    IF s \in Chained THEN "trigger" ELSE IF s = "publish" THEN "finish" ELSE "ack"

(* HandleStepResult(done): UpdateUploadStep(done) changed the row. *)
CompleteApplied(c) ==
    /\ At(c, "complete")
    /\ LET m == job[c].msg
       IN  /\ Applies(Row(m.upload, m.step), "done")
           /\ SetRow(m.upload, m.step, "done")
           /\ Goto(c, AfterDone(m.step), 1)
    /\ UNCHANGED <<status, inbox, dlq, triggered>>

(* Mutant of CompleteNotApplied: HandleStepResult advances without reading Applied. *)
CompleteUnchecked(c) ==
    /\ At(c, "complete")
    /\ ~Applies(Row(job[c].msg.upload, job[c].msg.step), "done")
    /\ Goto(c, AfterDone(job[c].msg.step), 1)
    /\ UNCHANGED <<steps, status, inbox, dlq, triggered>>

(* HandleStepResult(done): !res.Applied, the message is dropped. *)
CompleteNotApplied(c) ==
    /\ At(c, "complete")
    /\ ~Applies(Row(job[c].msg.upload, job[c].msg.step), "done")
    /\ Goto(c, "ack", 1)
    /\ UNCHANGED <<steps, status, inbox, dlq, triggered>>

(* HandleStepResult(done) of publish: UpdateUploadStatus(finished). *)
Finish(c) ==
    /\ At(c, "finish")
    /\ status' = [status EXCEPT ![job[c].msg.upload] = "finished"]
    /\ Goto(c, "ack", 1)
    /\ UNCHANGED <<steps, inbox, dlq, triggered>>

(* HandleStepResult(failed): UpdateUploadStatus(failed). *)
Fail(c) ==
    /\ At(c, "fail")
    /\ status' = [status EXCEPT ![job[c].msg.upload] = "failed"]
    /\ Goto(c, "cancel", 1)
    /\ UNCHANGED <<steps, inbox, dlq, triggered>>

(* Mutant of NextCancel: the loop leaves out the last step. *)
NextCancelShort(c) ==
    IF job[c].k + 1 < Len(pipelineSteps) THEN Goto(c, "cancel", job[c].k + 1)
                                         ELSE Goto(c, "ack", 1)

(* The next turn of the loop over pipelineSteps, or the ack. *)
NextCancel(c) ==
    IF job[c].k < Len(pipelineSteps) THEN Goto(c, "cancel", job[c].k + 1)
                                     ELSE Goto(c, "ack", 1)

(* HandleStepResult(failed): one UpdateUploadStep(canceled) of its loop. *)
CancelStep(c) ==
    /\ At(c, "cancel")
    /\ LET u == job[c].msg.upload
           s == pipelineSteps[job[c].k]
       IN  SetRow(u, s, Update(Row(u, s), "canceled"))
    /\ NextCancel(c)
    /\ UNCHANGED <<status, inbox, dlq, triggered>>

--------------------------------------------------------------------------------
(* What can go wrong: failed calls, lost replies, lost connections. *)

(* Mutant of CallFails: ProcessUploadProcess ignores the error of CreateUploadSteps. *)
CreateErrorIgnored(c) ==
    /\ job[c].pc \in {"create", "trigger", "publish", "complete", "finish", "fail"}
    /\ IF At(c, "create") THEN Goto(c, "trigger", 1) ELSE Goto(c, "retry", 1)
    /\ UNCHANGED <<steps, status, inbox, dlq, triggered>>

(* The call or the publish did not take effect and returned an error. *)
CallFails(c) ==
    /\ job[c].pc \in {"create", "trigger", "publish", "complete", "finish", "fail"}
    /\ Goto(c, "retry", 1)
    /\ UNCHANGED <<steps, status, inbox, dlq, triggered>>

(* The statement was executed, but the caller got an error for a reply. *)
ReplyLost(c) ==
    /\ job[c].pc # "idle"
    /\ LET m == job[c].msg
           u == m.upload
       IN  \/ /\ At(c, "create")
              /\ LET s == pipelineSteps[job[c].k] IN SetRow(u, s, Insert(Row(u, s)))
              /\ UNCHANGED status
           \/ /\ At(c, "trigger")
              /\ LET t == Target(job[c]) IN SetRow(u, t, Update(Row(u, t), "processing"))
              /\ UNCHANGED status
           \/ /\ At(c, "complete")
              /\ SetRow(u, m.step, Update(Row(u, m.step), "done"))
              /\ UNCHANGED status
           \/ /\ At(c, "finish")
              /\ status' = [status EXCEPT ![u] = "finished"]
              /\ UNCHANGED steps
           \/ /\ At(c, "fail")
              /\ status' = [status EXCEPT ![u] = "failed"]
              /\ UNCHANGED steps
    /\ Goto(c, "retry", 1)
    /\ UNCHANGED <<inbox, dlq, triggered>>

(* HandleStepResult(failed): the error of a cancel is discarded. *)
CancelFails(c) ==
    /\ At(c, "cancel")
    /\ NextCancel(c)
    /\ UNCHANGED <<steps, status, inbox, dlq, triggered>>

(* Mutant of RetryFails: Nack(false, false) instead of Nack(false, true). *)
RetryFailsDropped(c) ==
    /\ At(c, "retry")
    /\ Release(c)
    /\ UNCHANGED <<steps, status, inbox, dlq, triggered>>

(* The broker requeues an unacked delivery once: when its channel closes.   *)
Requeue(c) == inbox' = IF job[c].closed THEN inbox ELSE Put(inbox, job[c].msg)

(* HandleRetry: its publish failed, so the delivery is nacked and requeued. *)
RetryFails(c) ==
    /\ At(c, "retry")
    /\ Requeue(c)
    /\ Release(c)
    /\ UNCHANGED <<steps, status, dlq, triggered>>

(* The process dies: the broker requeues the unacked delivery. *)
Crash(c) ==
    /\ ~At(c, "idle")
    /\ Requeue(c)
    /\ Release(c)
    /\ UNCHANGED <<steps, status, dlq, triggered>>

(* The delivery's channel closes under the handler (the connection breaks,  *)
(* or the broker waits no longer for the ack), and the handler goes on.     *)
ChannelCloses(c) ==
    /\ ~At(c, "idle") /\ ~job[c].closed
    /\ Requeue(c)
    /\ job' = [job EXCEPT ![c].closed = TRUE]
    /\ UNCHANGED <<steps, status, dlq, triggered>>

(* HandleRetry publishes on the closed channel, unconfirmed: it gets nil,   *)
(* and discards the error of its ack.                                       *)
RetryUnheard(c) ==
    /\ At(c, "retry") /\ job[c].closed
    /\ Goto(c, "ack", 1)
    /\ UNCHANGED <<steps, status, inbox, dlq, triggered>>

--------------------------------------------------------------------------------
(* The environment: outbox dispatcher and workers. *)

(* The outbox dispatcher publishes the upload-process event (perhaps again). *)
EventArrives(u) ==
    /\ inbox' = Put(inbox, [kind |-> "start", upload |-> u, attempt |-> 0])
    /\ UNCHANGED <<steps, status, dlq, triggered, job>>

(* A worker's own UpdateUploadStep(done or failed). *)
WorkerSettles(u, s, o) ==
    /\ SetRow(u, s, Update(Row(u, s), o))
    /\ UNCHANGED <<status, inbox, dlq, triggered, job>>

(* A worker's PublishStepResult. *)
WorkerReports(u, s, o) ==
    /\ inbox' = Put(inbox, [kind |-> "result", upload |-> u, step |-> s,
                            outcome |-> o, attempt |-> 0])
    /\ UNCHANGED <<steps, status, dlq, triggered, job>>

(* The publish worker's ReportFailed sets the upload's status itself. *)
WorkerFailsUpload(u) ==
    /\ status' = [status EXCEPT ![u] = "failed"]
    /\ UNCHANGED <<steps, inbox, dlq, triggered, job>>

(* A second finalize request that read the upload as pending writes late:   *)
(* its UPDATE has no condition on the status.                               *)
FinalizedAgain(u) ==
    /\ status' = [status EXCEPT ![u] = "processing"]
    /\ UNCHANGED <<steps, inbox, dlq, triggered, job>>

--------------------------------------------------------------------------------
(* Everything a consumer does except handing a step to the exchange. *)
Inner(c) ==
    \/ ReceiveStart(c) \/ ReceiveResult(c)
    \/ CreateRow(c) \/ TriggerApplied(c) \/ TriggerNotApplied(c)
    \/ CompleteApplied(c) \/ CompleteNotApplied(c) \/ Finish(c)
    \/ Fail(c) \/ CancelStep(c)
    \/ RetryLater(c) \/ DeadLetter(c) \/ Ack(c)

Work(c) == Inner(c) \/ PublishStep(c)

Fault(c) ==
    \/ CallFails(c) \/ ReplyLost(c) \/ CancelFails(c) \/ RetryFails(c) \/ Crash(c)
    \/ ChannelCloses(c) \/ RetryUnheard(c)

Environment ==
    \E u \in Uploads :
        \/ EventArrives(u)
        \/ WorkerFailsUpload(u)
        \/ FinalizedAgain(u)
        \/ \E s \in Steps, o \in Outcomes : WorkerSettles(u, s, o) \/ WorkerReports(u, s, o)

Next == (\E c \in Consumers : Work(c) \/ Fault(c)) \/ Environment

Spec == Init /\ [][Next]_vars

--------------------------------------------------------------------------------
(* Every variable stays in its domain; a consumer's loop index stays in the *)
(* slice it indexes (pipelineSteps, initialSteps).                          *)
TypeOK ==
    /\ steps \in [Uploads -> [Steps -> RowStates]]
    /\ status \in [Uploads -> UploadStatuses]
    /\ inbox \in [Msgs -> Nat]
    /\ dlq \in SUBSET Msgs
    /\ triggered \in [Uploads -> [Steps -> Nat]]
    /\ job \in [Consumers -> Jobs]
    /\ \A c \in Consumers : job[c] \in JobsOf(c)

(* PublishStep(s, u) succeeds at most once, whatever start                  *)
(* events and results are duplicated, redelivered, retried or handled by    *)
(* several replicas at the same time (the Applied check of triggerStep).    *)
DispatchOnce == \A u \in Uploads, s \in Steps : triggered[u][s] \leq 1

(* A chained step starts, and is dispatched, only after the step before it  *)
(* is done, whatever results arrive out of order (HandleStepResult).        *)
ChainInOrder ==
    \A u \in Uploads, s \in Chained :
        (Row(u, Downstream[s]) \in Entered \/ triggered[u][Downstream[s]] > 0)
            => Row(u, s) = "done"

(* An upload the orchestrator calls finished has its whole chain done:      *)
(* extract_metadata, transcode, segment and publish.                        *)
FinishedMeansChainDone ==
    \A u \in Uploads : status[u] = "finished" =>
        \A s \in Chained \cup {"publish"} : Row(u, s) = "done"

(* A step is dispatched only when all five rows exist, so a later trigger   *)
(* is never dropped as step_not_found after a half-done CreateSteps.        *)
RowsBeforeDispatch ==
    \A u \in Uploads : (\E s \in Steps : triggered[u][s] > 0) =>
        \A s \in Steps : Row(u, s) # "absent"

(* A start event of u that is queued, being handled, or parked in the DLQ.  *)
StartPending(u) ==
    \/ \E m \in StartMsgs : m.upload = u /\ inbox[m] > 0
    \/ \E m \in dlq : m.kind = "start" /\ m.upload = u
    \/ \E c \in Starters : ~At(c, "idle") /\ job[c].msg.upload = u

Launched(u) == \A i \in DOMAIN initialSteps : Row(u, initialSteps[i]) \notin {"absent", "pending"}

(* The last copy of a start event disappears only once both initial steps   *)
(* have been moved past pending: no crash, failed call or failed retry      *)
(* publish loses an upload before its pipeline was launched.                *)
StartNotLost ==
    [][\A u \in Uploads : StartPending(u) /\ ~StartPending(u)' => Launched(u)']_vars

(* Consumers, messages, retries and faults hidden, the orchestrator does to *)
(* its uploads what Chain allows: every step of a row, a dispatch or a      *)
(* status is one of the six of an upload that is processed once, in order.  *)
C == INSTANCE Chain

ImplementsChain == C!Spec

--------------------------------------------------------------------------------
(* The inductive invariant behind DispatchOnce, ChainInOrder and            *)
(* FinishedMeansChainDone.                                                  *)

Moved(u, s) == Row(u, s) \notin {"absent", "pending"}

(* A consumer between its applied update and its publish is the only one    *)
(* that may publish this step, and nobody has published it yet.             *)
PublisherAlone ==
    /\ \A c \in Consumers : At(c, "publish") =>
          LET u == job[c].msg.upload
              t == Target(job[c])
          IN  Moved(u, t) /\ triggered[u][t] = 0
    /\ \A c, d \in Consumers :
          /\ At(c, "publish") /\ At(d, "publish")
          /\ job[c].msg.upload = job[d].msg.upload
          /\ Target(job[c]) = Target(job[d])
          => c = d

(* A dispatched step has left pending, so no other trigger can apply to it. *)
DispatchedHasMoved ==
    \A u \in Uploads, s \in Steps : triggered[u][s] > 0 => Moved(u, s)

(* A result handler that goes on after UpdateUploadStep(done) found it      *)
(* Applied, and done is never left.                                         *)
HandlerFollowsDone ==
    \A c \in Handlers :
        /\ job[c].pc \in {"trigger", "publish"} =>
              /\ job[c].msg.step \in Chained
              /\ Row(job[c].msg.upload, job[c].msg.step) = "done"
        /\ At(c, "finish") =>
              job[c].msg.step = "publish" /\ Row(job[c].msg.upload, "publish") = "done"

FinishedMeansPublished ==
    \A u \in Uploads : status[u] = "finished" => Row(u, "publish") = "done"

(* Inductive: a dispatch has a unique owner from its applied update to its  *)
(* publish, and every step past pending has its predecessor done.           *)
IndInv ==
    /\ TypeOK
    /\ PublisherAlone
    /\ DispatchedHasMoved
    /\ DispatchOnce
    /\ HandlerFollowsDone
    /\ ChainInOrder
    /\ FinishedMeansPublished

--------------------------------------------------------------------------------
(* The inductive invariant behind RowsBeforeDispatch and StartNotLost; it   *)
(* rests on IndInv.                                                         *)

Created(u) == \A s \in Steps : Row(u, s) # "absent"

(* A consumer whose delivery the broker will not give out again: it is      *)
(* about to ack it, or its channel is closed and that has happened.         *)
LetsGo(c) == ~At(c, "idle") /\ (At(c, "ack") \/ job[c].closed)

(* A start event of u that will be handled again, or is parked in the DLQ.  *)
StartKept(u) ==
    \/ \E m \in StartMsgs : m.upload = u /\ inbox[m] > 0
    \/ \E m \in dlq : m.kind = "start" /\ m.upload = u
    \/ \E c \in Starters : ~At(c, "idle") /\ ~LetsGo(c) /\ job[c].msg.upload = u

(* What a starter has behind it: the rows its loop has inserted, all five   *)
(* before it triggers, its first step before the second.                    *)
RowsBehind(c) ==
    /\ At(c, "create") =>
          \A i \in 1..5 : i < job[c].k => Row(job[c].msg.upload, pipelineSteps[i]) # "absent"
    /\ job[c].pc \in {"trigger", "publish"} => Created(job[c].msg.upload)
    /\ job[c].pc \in {"trigger", "publish"} /\ job[c].k = 2 =>
          Moved(job[c].msg.upload, initialSteps[1])

(* And when it lets go of the event both steps, or a copy to be handled.    *)
StarterOnItsWay(c) ==
    /\ RowsBehind(c)
    /\ LetsGo(c) => Launched(job[c].msg.upload) \/ StartKept(job[c].msg.upload)

(* A step is entered only when all rows of its upload exist.                *)
EnteredMeansCreated == \A u \in Uploads, s \in Steps : Row(u, s) \in Entered => Created(u)

(* Inductive with IndInv: rows come before triggers, and an event is let go *)
(* of only when it has done its work or somebody else still has a copy.     *)
LaunchInv ==
    /\ \A c \in Starters : StarterOnItsWay(c)
    /\ EnteredMeansCreated
    /\ RowsBeforeDispatch
================================================================================
