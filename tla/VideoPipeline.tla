----------------------------- MODULE VideoPipeline -----------------------------
(***************************************************************************)
(* The processing pipeline as deployed: the orchestrator and the five      *)
(* workers over the same upload_steps and uploads rows, joined by the      *)
(* pipeline-steps exchange (PublishStep puts a message in a step queue)    *)
(* and by the upload-process-step queue (a result becomes a message of the *)
(* orchestrator).  Each side is the environment of the other; left outside *)
(* are the outbox dispatcher, which relays each upload's event, and late   *)
(* finalize requests, which write an upload's status.                      *)
(***************************************************************************)
EXTENDS Naturals

CONSTANTS Uploads, Starters, Handlers, Replicas, MaxRetries

(* What Orchestrator and Workers assume of them. *)
ASSUME PipelineAssumption == MaxRetries \in Nat /\ Starters \cap Handlers = {}

VARIABLES
    steps, status,                          \* shared, behind the upload service
    inbox, dlq, triggered, job,             \* the orchestrator's
    stepQ, stepDlq, reported, wjob,         \* the workers'
    relayed                                 \* uploads whose event was first relayed

O == INSTANCE Orchestrator

W == INSTANCE Workers

overs == <<inbox, dlq, triggered, job>>

wprivate == <<stepQ, stepDlq, reported, wjob>>

vars == <<steps, status, overs, wprivate, relayed>>

Init == O!Init /\ W!Init /\ relayed = {}

(* The dispatcher relays the upload-process event of u for the first time.  *)
Relay(u) ==
    /\ u \notin relayed
    /\ relayed' = relayed \cup {u}
    /\ O!EventArrives(u)
    /\ UNCHANGED wprivate

(* It relays it again: its publish succeeded, but reported an error.        *)
RelayAgain(u) ==
    /\ u \in relayed
    /\ O!EventArrives(u)
    /\ UNCHANGED <<wprivate, relayed>>

(* A second finalize request writes its upload's status late.               *)
FinalizedAgain(u) == O!FinalizedAgain(u) /\ UNCHANGED <<wprivate, relayed>>

OrchestratorWorks(c) == O!Inner(c) /\ UNCHANGED <<wprivate, relayed>>

OrchestratorFaults(c) == O!Fault(c) /\ UNCHANGED <<wprivate, relayed>>

(* The exchange routes a dispatched step to the queue bound to its key.     *)
DispatchStep(c) ==
    /\ O!PublishStep(c)
    /\ stepQ' = W!Put(stepQ, [upload |-> job[c].msg.upload, step |-> O!Target(job[c]),
                              attempt |-> 0])
    /\ UNCHANGED <<stepDlq, reported, wjob, relayed>>

(* The worker has not bound its queue yet, and the exchange drops the       *)
(* message; or it was lost with the connection, unconfirmed.                *)
DispatchUnrouted(c) ==
    /\ O!PublishStep(c)
    /\ UNCHANGED <<wprivate, relayed>>

WorkerWorks(w) == W!Inner(w) /\ UNCHANGED <<overs, relayed>>

WorkerFaults(w) == W!Fault(w) /\ UNCHANGED <<overs, relayed>>

(* A worker's result is a message of the upload-process-step queue.         *)
Report(w, o) ==
    /\ IF o = "done" THEN W!ReportDone(w) ELSE W!ReportFailed(w)
    /\ inbox' = O!Put(inbox, [kind |-> "result", upload |-> wjob[w].msg.upload,
                              step |-> wjob[w].msg.step, outcome |-> o, attempt |-> 0])
    /\ UNCHANGED <<dlq, triggered, job, relayed>>

Work ==
    \/ \E u \in Uploads : Relay(u)
    \/ \E c \in O!Consumers : OrchestratorWorks(c) \/ DispatchStep(c)
    \/ \E w \in W!WorkerIds : WorkerWorks(w) \/ \E o \in O!Outcomes : Report(w, o)

Fault ==
    \/ \E u \in Uploads : RelayAgain(u) \/ FinalizedAgain(u)
    \/ \E c \in O!Consumers : OrchestratorFaults(c) \/ DispatchUnrouted(c)
    \/ \E w \in W!WorkerIds : WorkerFaults(w)

Next == Work \/ Fault

Spec == Init /\ [][Next]_vars

(* Each goroutine keeps running: a consumer that can take its next step     *)
(* takes it, the broker delivers to an idle consumer, the dispatcher's      *)
(* ticker relays.  Nothing is promised of faults.                           *)
Fairness ==
    /\ \A u \in Uploads : WF_vars(Relay(u))
    /\ \A c \in O!Consumers : WF_vars(OrchestratorWorks(c) \/ DispatchStep(c))
    /\ \A w \in W!WorkerIds : WF_vars(WorkerWorks(w) \/ \E o \in O!Outcomes : Report(w, o))

(* The pipeline when no call fails and nothing crashes: the work of a step  *)
(* may still fail, any number of times.                                     *)
FaultFreeSpec == Init /\ [][Work]_vars /\ Fairness

--------------------------------------------------------------------------------
(* The workers keep the protocol the orchestrator is verified against, and  *)
(* the orchestrator the one the workers are verified against.               *)
ImplementsOrchestrator == O!Spec

ImplementsWorkers == W!Spec

(* A result message is queued, parked in the DLQ, or held by a handler.     *)
InSight(m) == inbox[m] > 0 \/ m \in dlq \/ \E c \in Handlers : ~O!At(c, "idle") /\ job[c].msg = m

(* A result is queued or handled only once its row holds that outcome: the  *)
(* worker commits the row itself before it reports.                         *)
ResultsAreCommitted ==
    \A m \in O!ResultMsgs : InSight(m) => steps[m.upload][m.step] = m.outcome

(* What follows from it: UpdateUploadStep(done) of HandleStepResult never   *)
(* finds a row in processing, so no step after the initial pair is ever     *)
(* triggered and no upload is ever finished, whatever the workers do.       *)
StallsAfterInitialSteps ==
    \A u \in Uploads :
        /\ status[u] # "finished"
        /\ \A s \in O!Steps \ {"extract_metadata", "generate_thumbnail"} :
              triggered[u][s] = 0 /\ steps[u][s] \in {"absent", "pending", "canceled"}

(* A step is dispatched only when all five rows exist, so no trigger is     *)
(* dropped as step_not_found after a half-done CreateSteps.                 *)
RowsBeforeDispatch == O!RowsBeforeDispatch

(* The last copy of a start event disappears only once both initial steps   *)
(* were moved past pending, whatever call, retry or consumer fails.         *)
StartNotLost == O!StartNotLost

(* A relayed upload's initial steps both come to an end: done, failed       *)
(* after their retries, or canceled because the other failed.               *)
InitialStepsSettle ==
    \A u \in Uploads :
        u \in relayed ~> \A s \in {"extract_metadata", "generate_thumbnail"} :
                              steps[u][s] \in O!Terminal

(* A failed step stops its upload: the upload is marked failed and every    *)
(* other step is settled or canceled, for good.                             *)
FailureStopsUpload ==
    \A u \in Uploads :
        (\E s \in O!Steps : steps[u][s] = "failed")
            ~> [](status[u] = "failed" /\ \A s \in O!Steps : steps[u][s] \in O!Terminal)

(* What the orchestrator's integration test expects of the result consumer: *)
(* "transcode to be triggered after extract_metadata done", unless a step   *)
(* of the upload failed.                                                    *)
TranscodeFollowsMetadata ==
    \A u \in Uploads :
        steps[u]["extract_metadata"] = "done"
            ~> (triggered[u]["transcode"] > 0 \/ \E s \in O!Steps : steps[u][s] = "failed")

--------------------------------------------------------------------------------
(* Every result the orchestrator sees was reported by its worker.           *)
ResultsWereReported ==
    \A m \in O!ResultMsgs : InSight(m) => reported[m.upload][m.step][m.outcome] > 0

(* A handler never gets past its own update of the row.                     *)
HandlersStop ==
    \A c \in Handlers :
        /\ job[c].pc \notin {"trigger", "publish", "finish"}
        /\ O!At(c, "complete") => job[c].msg.outcome = "done"

(* Inductive: the two sides' own invariants, each the guarantee the other   *)
(* relies on, and why no result ever moves the pipeline.                    *)
PipelineInv ==
    /\ O!IndInv /\ O!LaunchInv
    /\ W!IndInv /\ W!KeepInv
    /\ ResultsWereReported
    /\ HandlersStop
    /\ StallsAfterInitialSteps

--------------------------------------------------------------------------------
(* Nothing of u is queued or being handled: no consumer will touch it again *)
(* unless its event is relayed again.                                       *)
Quiet(u) ==
    /\ \A m \in O!Msgs : m.upload = u => inbox[m] = 0
    /\ \A m \in W!StepMsgs : m.upload = u => stepQ[m] = 0
    /\ \A c \in O!Consumers : ~O!At(c, "idle") => job[c].msg.upload # u
    /\ \A w \in W!WorkerIds : ~W!At(w, "idle") => wjob[w].msg.upload # u

Stopped(u) == status[u] = "failed" /\ \A s \in O!Steps : steps[u][s] \in O!Terminal

InitialStep == {"extract_metadata", "generate_thumbnail"}

(* Without faults a relayed upload comes to rest in one of two ways: a step *)
(* failed and the whole upload was stopped, or both initial steps are done  *)
(* and the other three wait for ever (the stall), the status unchanged.     *)
AtRest ==
    \A u \in relayed : Quiet(u) =>
        \/ Stopped(u) /\ \E s \in O!Steps : steps[u][s] = "failed"
        \/ /\ status[u] = "processing"
           /\ \A s \in O!Steps : steps[u][s] = IF s \in InitialStep THEN "done" ELSE "pending"

(* No call fails, so no start event and no result is retried or parked.     *)
NothingRetried == dlq = {} /\ \A c \in O!Consumers : ~O!At(c, "retry")

(* A relayed event is kept until both initial steps have left pending.      *)
RelayedIsKept ==
    relayed \subseteq Uploads /\ \A u \in relayed : O!StartKept(u) \/ O!Launched(u)

(* A worker that has yet to settle its row.                                 *)
Working(w) == wjob[w].pc \in {"work", "commit", "retry", "ackdlq", "failstep"}

(* Whoever moved a row to processing still has to publish its step, or the  *)
(* step's message is queued or with a worker that has yet to settle it.     *)
ProcessingIsHeld ==
    \A u \in Uploads, s \in O!Steps : steps[u][s] = "processing" =>
        \/ \E c \in O!Consumers :
              O!At(c, "publish") /\ job[c].msg.upload = u /\ O!Target(job[c]) = s
        \/ \E m \in W!StepMsgs : m.upload = u /\ m.step = s /\ stepQ[m] > 0
        \/ \E w \in W!WorkerIds : Working(w) /\ wjob[w].msg.upload = u /\ wjob[w].msg.step = s

(* A handler in the cancel loop: the upload is marked, and the rows its     *)
(* loop has passed are settled.                                             *)
Canceling(c) ==
    LET u == job[c].msg.upload
    IN  /\ O!At(c, "cancel")
        /\ status[u] = "failed"
        /\ \A i \in 1..5 : i < job[c].k => steps[u][O!pipelineSteps[i]] \in O!Terminal

(* A failed row's news is on its way: with the worker that is to report it, *)
(* queued, with a handler about to mark the upload or in the cancel loop;   *)
(* or it has arrived.                                                       *)
FailureTravels ==
    \A u \in Uploads : (\E s \in O!Steps : steps[u][s] = "failed") =>
        \/ \E w \in W!WorkerIds : W!At(w, "sendfailed") /\ wjob[w].msg.upload = u
        \/ \E m \in O!ResultMsgs : m.upload = u /\ m.outcome = "failed" /\ inbox[m] > 0
        \/ \E c \in Handlers : job[c].pc # "idle" /\ job[c].msg.upload = u
                                 /\ (O!At(c, "fail") \/ Canceling(c))
        \/ Stopped(u)

(* An upload is marked failed because of a failed row, and a row is         *)
(* canceled because its upload is marked.                                   *)
FailureHasCause ==
    /\ \A u \in Uploads : status[u] = "failed" => \E s \in O!Steps : steps[u][s] = "failed"
    /\ \A u \in Uploads, s \in O!Steps : steps[u][s] = "canceled" => status[u] = "failed"
    /\ \A c \in Handlers :
          /\ job[c].pc \in {"fail", "cancel"} => job[c].msg.outcome = "failed"
          /\ O!At(c, "cancel") => Canceling(c)

(* Only the initial steps have messages, so nobody is in the call that only *)
(* the publish worker makes.                                                *)
OnlyInitialTravel ==
    /\ \A m \in W!StepMsgs : stepQ[m] > 0 => m.step \in InitialStep
    /\ \A w \in W!WorkerIds :
          ~W!At(w, "idle") => wjob[w].msg.step \in InitialStep /\ ~W!At(w, "failupload")

(* Inductive, without faults: whatever is not settled is on its way.        *)
WorkInv ==
    /\ PipelineInv
    /\ NothingRetried
    /\ RelayedIsKept
    /\ ProcessingIsHeld
    /\ FailureTravels
    /\ FailureHasCause
    /\ OnlyInitialTravel
================================================================================
