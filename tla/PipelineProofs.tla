----------------------------- MODULE PipelineProofs ----------------------------
(***************************************************************************)
(* Proofs about VideoPipeline, for every set of uploads, consumers and     *)
(* replicas and every retry limit, with any number of faults: each side    *)
(* keeps the protocol the other was verified against, so what was proved   *)
(* of either alone holds of both together, and the pipeline stalls.        *)
(***************************************************************************)
EXTENDS VideoPipeline, Sequences, TLAPS

(* The facts proved of the two sides.  OP is O and WP is W, under the names *)
(* that come with the theorems.                                             *)
OP == INSTANCE OrchestratorProofs

WP == INSTANCE WorkersProofs

(* Two instances of one module with the same parameters are the same. *)
LEMMA SameOrchestrator ==
    /\ O!Init <=> OP!Init
    /\ O!Next <=> OP!Next
    /\ O!vars = OP!vars /\ O!vars' = OP!vars'
    /\ O!IndInv <=> OP!IndInv
    /\ O!IndInv' <=> OP!IndInv'
    /\ O!LaunchInv <=> OP!LaunchInv
    /\ O!LaunchInv' <=> OP!LaunchInv'
    /\ O!TypeOK <=> OP!TypeOK
    /\ O!Consumers = OP!Consumers
BY DEF O!Init, OP!Init, O!Next, OP!Next, O!vars, OP!vars, O!IndInv, OP!IndInv,
    O!LaunchInv, OP!LaunchInv, O!Steps, OP!Steps, O!Msgs, OP!Msgs, O!Consumers,
    OP!Consumers, O!Idle, OP!Idle, O!Work, OP!Work, O!Fault, OP!Fault, O!Environment,
    OP!Environment, O!TypeOK, OP!TypeOK, O!PublisherAlone, OP!PublisherAlone,
    O!DispatchedHasMoved, OP!DispatchedHasMoved, O!DispatchOnce, OP!DispatchOnce,
    O!HandlerFollowsDone, OP!HandlerFollowsDone, O!ChainInOrder, OP!ChainInOrder,
    O!FinishedMeansPublished, OP!FinishedMeansPublished, O!StarterOnItsWay,
    OP!StarterOnItsWay, O!EnteredMeansCreated, OP!EnteredMeansCreated,
    O!RowsBeforeDispatch, OP!RowsBeforeDispatch, O!StartMsgs, OP!StartMsgs,
    O!ResultMsgs, OP!ResultMsgs, O!Inner, OP!Inner, O!PublishStep, OP!PublishStep,
    O!CallFails, OP!CallFails, O!ReplyLost, OP!ReplyLost, O!CancelFails,
    OP!CancelFails, O!RetryFails, OP!RetryFails, O!Crash, OP!Crash, O!EventArrives,
    OP!EventArrives, O!WorkerFailsUpload, OP!WorkerFailsUpload, O!FinalizedAgain,
    OP!FinalizedAgain, O!Outcomes,
    OP!Outcomes, O!WorkerSettles, OP!WorkerSettles, O!WorkerReports, OP!WorkerReports,
    O!RowStates, OP!RowStates, O!UploadStatuses, OP!UploadStatuses, O!Jobs, OP!Jobs,
    O!JobsOf, OP!JobsOf, O!At, OP!At, O!Target, OP!Target, O!Moved, OP!Moved,
    O!Chained, OP!Chained, O!Row, OP!Row, O!Downstream, OP!Downstream, O!Entered,
    OP!Entered, O!pipelineSteps, OP!pipelineSteps, O!Created, OP!Created,
    O!initialSteps, OP!initialSteps, O!Launched, OP!Launched, O!StartKept,
    OP!StartKept, O!Attempts, OP!Attempts, O!ReceiveStart, OP!ReceiveStart,
    O!ReceiveResult, OP!ReceiveResult, O!CreateRow, OP!CreateRow, O!TriggerApplied,
    OP!TriggerApplied, O!TriggerNotApplied, OP!TriggerNotApplied, O!CompleteApplied,
    OP!CompleteApplied, O!CompleteNotApplied, OP!CompleteNotApplied, O!Finish,
    OP!Finish, O!Fail, OP!Fail, O!CancelStep, OP!CancelStep, O!RetryLater,
    OP!RetryLater, O!DeadLetter, OP!DeadLetter, O!Ack, OP!Ack, O!Return, OP!Return,
    O!Goto, OP!Goto, O!SetRow, OP!SetRow, O!Insert, OP!Insert, O!Update, OP!Update,
    O!NextCancel, OP!NextCancel, O!Put, OP!Put, O!Release, OP!Release, O!StartJobs,
    OP!StartJobs, O!ResultJobs, OP!ResultJobs, O!Take, OP!Take, O!Applies, OP!Applies,
    O!AfterDone, OP!AfterDone, O!Exhausted, OP!Exhausted, O!Again, OP!Again,
    O!Allowed, OP!Allowed, O!RowsBehind, OP!RowsBehind, O!LetsGo, OP!LetsGo, O!NewJob,
    OP!NewJob, O!Requeue, OP!Requeue, O!ChannelCloses, OP!ChannelCloses, O!RetryUnheard,
    OP!RetryUnheard

(* The same of the workers. *)
LEMMA SameWorkers ==
    /\ W!Init <=> WP!Init
    /\ W!Next <=> WP!Next
    /\ W!wvars = WP!wvars /\ W!wvars' = WP!wvars'
    /\ W!IndInv <=> WP!IndInv
    /\ W!IndInv' <=> WP!IndInv'
    /\ W!KeepInv <=> WP!KeepInv
    /\ W!KeepInv' <=> WP!KeepInv'
    /\ W!TypeOK <=> WP!TypeOK
    /\ W!WorkerIds = WP!WorkerIds
BY DEF W!Init, WP!Init, W!Next, WP!Next, W!wvars, WP!wvars, W!IndInv, WP!IndInv,
    W!KeepInv, WP!KeepInv, W!Steps, WP!Steps, W!StepMsgs, WP!StepMsgs, W!Outcomes,
    WP!Outcomes, W!WorkerIds, WP!WorkerIds, W!Idle, WP!Idle, W!Work, WP!Work, W!Fault,
    WP!Fault, W!Environment, WP!Environment, W!wprivate, WP!wprivate, W!TypeOK,
    WP!TypeOK, W!ClaimAlone, WP!ClaimAlone, W!ResultMatchesRow, WP!ResultMatchesRow,
    W!ReportedOnce, WP!ReportedOnce, W!ReportingIsDeadLettered,
    WP!ReportingIsDeadLettered, W!LetsGo, WP!LetsGo, W!NewJob, WP!NewJob, W!Requeue,
    WP!Requeue, W!ChannelCloses, WP!ChannelCloses, W!RetryUnheard, WP!RetryUnheard,
    W!PastPending, WP!PastPending, W!At, WP!At, W!RowOf, WP!RowOf, W!Terminal,
    WP!Terminal, W!StepKept, WP!StepKept, W!Attempts, WP!Attempts, W!Inner, WP!Inner,
    W!ReportDone, WP!ReportDone, W!ReportFailed, WP!ReportFailed, W!CallFails,
    WP!CallFails, W!CommitReplyLost, WP!CommitReplyLost, W!FailStepFails,
    WP!FailStepFails, W!FailUploadFails, WP!FailUploadFails, W!ReportFailedFails,
    WP!ReportFailedFails, W!RetryFails, WP!RetryFails, W!Crash, WP!Crash,
    W!CrashReporting, WP!CrashReporting, W!Dispatch, WP!Dispatch, W!RowStates,
    WP!RowStates, W!OrchestratorMoves, WP!OrchestratorMoves, W!StatusMoves,
    WP!StatusMoves, W!UploadStatuses, WP!UploadStatuses, W!WorkerJobs,
    WP!WorkerJobs, W!Claims, WP!Claims, W!ClaimedOutcome, WP!ClaimedOutcome,
    W!Holding, WP!Holding, W!Reporting, WP!Reporting, W!Receive, WP!Receive,
    W!WorkDone, WP!WorkDone, W!WorkFails, WP!WorkFails, W!Commit, WP!Commit,
    W!RetryLater, WP!RetryLater, W!DeadLetter, WP!DeadLetter, W!Ack, WP!Ack,
    W!AckDeadLettered, WP!AckDeadLettered, W!FailStep, WP!FailStep, W!FailUpload,
    WP!FailUpload, W!Goto, WP!Goto, W!Release, WP!Release, W!SetRowOf, WP!SetRowOf,
    W!Update, WP!Update, W!Put, WP!Put, W!Insert, WP!Insert, W!Take, WP!Take,
    W!Applies, WP!Applies, W!Exhausted, WP!Exhausted, W!Again, WP!Again, W!Allowed,
    WP!Allowed

(* Whatever preserves the orchestrator's protocol preserves its invariants. *)
LEMMA OrchestratorStep ==
    ASSUME O!IndInv, O!LaunchInv, [O!Next]_O!vars
    PROVE  O!IndInv' /\ O!LaunchInv'
<1>1. OP!IndInv /\ OP!LaunchInv /\ [OP!Next]_OP!vars
  BY SameOrchestrator
<1>2. OP!IndInv' /\ OP!LaunchInv'
  BY <1>1, OP!StepInv, OP!LaunchStep, PipelineAssumption
<1>3. QED
  BY <1>2, SameOrchestrator

(* Whatever preserves the workers' protocol preserves their invariants. *)
LEMMA WorkersStep ==
    ASSUME W!IndInv, W!KeepInv, [W!Next]_W!wvars
    PROVE  W!IndInv' /\ W!KeepInv'
<1>1. WP!IndInv /\ WP!KeepInv /\ [WP!Next]_WP!wvars
  BY SameWorkers
<1>2. WP!IndInv' /\ WP!KeepInv'
  BY <1>1, WP!Step, WP!KeepStep, PipelineAssumption
<1>3. QED
  BY <1>2, SameWorkers

(* The initial states are initial states of both sides. *)
LEMMA InitBoth ==
    ASSUME Init
    PROVE  O!IndInv /\ O!LaunchInv /\ W!IndInv /\ W!KeepInv
<1>1. OP!Init /\ WP!Init
  BY SameOrchestrator, SameWorkers DEF Init
<1>2. OP!IndInv /\ OP!LaunchInv
  BY <1>1, OP!InitInv, OP!LaunchInit, PipelineAssumption
<1>3. WP!IndInv /\ WP!KeepInv
  BY <1>1, WP!Start, WP!KeepStart, PipelineAssumption
<1>4. QED
  BY <1>2, <1>3, SameOrchestrator, SameWorkers

--------------------------------------------------------------------------------
(* What a consumer holds, and what it may be about to do.                   *)

LEMMA Tables ==
    /\ O!Steps = W!Steps /\ O!Outcomes = W!Outcomes /\ O!RowStates = W!RowStates
    /\ O!Outcomes = {"done", "failed"}
    /\ O!Steps = {"generate_thumbnail", "extract_metadata", "transcode", "segment", "publish"}
    /\ \A k \in 1..5 : O!pipelineSteps[k] \in O!Steps
    /\ \A k \in 1..2 : O!initialSteps[k] \in {"extract_metadata", "generate_thumbnail"}
BY DEF O!Steps, W!Steps, O!Outcomes, W!Outcomes, O!RowStates, W!RowStates,
   O!pipelineSteps, O!initialSteps

(* A busy consumer of the orchestrator. *)
LEMMA ConsumerFields ==
    ASSUME O!IndInv, NEW c \in O!Consumers, job[c].pc # "idle"
    PROVE  /\ job[c].msg.upload \in Uploads
           /\ job[c].pc \in {"create", "cancel"} => job[c].k \in 1..5
           /\ job[c].pc \in {"trigger", "publish"} => O!Target(job[c]) \in O!Steps
           /\ c \in Starters =>
                 /\ job[c].msg \in O!StartMsgs /\ job[c].msg.kind = "start"
                 /\ job[c].pc \notin {"complete", "finish", "fail", "cancel"}
                 /\ job[c].pc \in {"trigger", "publish"} => job[c].k \in 1..2
           /\ c \notin Starters =>
                 /\ c \in Handlers
                 /\ job[c].msg \in O!ResultMsgs
                 /\ job[c].msg.step \in O!Steps /\ job[c].msg.outcome \in O!Outcomes
                 /\ job[c].pc # "create"
           /\ job[c].pc \in {"complete", "finish", "fail", "cancel"} => c \notin Starters
<1>1. OP!IndInv /\ OP!TypeOK /\ c \in OP!Consumers
  BY SameOrchestrator DEF OP!IndInv
<1>2. /\ job[c].msg.upload \in Uploads
      /\ c \in Starters => job[c].msg \in OP!StartMsgs /\ job[c].msg.kind = "start"
      /\ c \notin Starters => /\ job[c].msg \in OP!ResultMsgs
                              /\ job[c].msg.step \in OP!Steps
                              /\ job[c].msg.outcome \in OP!Outcomes
      /\ job[c].pc \in {"create", "cancel"} => job[c].k \in 1..5
      /\ job[c].pc = "create" => c \in Starters
      /\ job[c].pc \in {"trigger", "publish"} /\ c \in Starters => job[c].k \in 1..2
      /\ job[c].pc \in {"cancel", "complete", "finish", "fail"} => c \notin Starters
  BY <1>1, OP!JobFields, PipelineAssumption
<1>3. job[c].pc \in {"trigger", "publish"} => OP!Target(job[c]) \in OP!Steps
  BY <1>1, OP!TargetTyped, PipelineAssumption DEF OP!IndInv
<1>4. O!Target(job[c]) = OP!Target(job[c])
  BY DEF O!Target, OP!Target, O!initialSteps, OP!initialSteps, O!Downstream, OP!Downstream,
     O!Chained, OP!Chained
<1>5. /\ O!Steps = OP!Steps /\ O!Outcomes = OP!Outcomes
      /\ O!StartMsgs = OP!StartMsgs /\ O!ResultMsgs = OP!ResultMsgs
  BY DEF O!Steps, OP!Steps, O!Outcomes, OP!Outcomes, O!StartMsgs, OP!StartMsgs,
     O!ResultMsgs, OP!ResultMsgs, O!Attempts, OP!Attempts
<1>6. c \notin Starters => c \in Handlers
  BY DEF O!Consumers
<1>7. QED
  BY <1>2, <1>3, <1>4, <1>5, <1>6

(* A busy worker. *)
LEMMA WorkerFields ==
    ASSUME W!IndInv, NEW w \in W!WorkerIds, wjob[w].pc # "idle"
    PROVE  /\ wjob[w].msg.upload \in Uploads /\ wjob[w].msg.step \in O!Steps
           /\ W!RowOf(wjob[w].msg) \in W!RowStates
<1>1. WP!IndInv /\ w \in WP!WorkerIds
  BY SameWorkers
<1>2. /\ wjob[w].msg.upload \in Uploads /\ wjob[w].msg.step \in WP!Steps
      /\ WP!RowOf(wjob[w].msg) \in WP!RowStates
  BY <1>1, WP!JobFields, PipelineAssumption DEF WP!IndInv
<1>3. O!Steps = WP!Steps /\ W!RowStates = WP!RowStates
  BY DEF O!Steps, WP!Steps, W!RowStates, WP!RowStates
<1>4. QED
  BY <1>2, <1>3 DEF W!RowOf, WP!RowOf

--------------------------------------------------------------------------------
(* Every step of the pipeline is a step of the orchestrator's specification *)
(* and of the workers'.                                                     *)

(* What a worker does to shared state is in the orchestrator's environment. *)
LEMMA WorkerIsEnvironment ==
    ASSUME W!IndInv, NEW w \in W!WorkerIds, W!Inner(w) \/ W!Fault(w), UNCHANGED overs
    PROVE  [O!Next]_O!vars
<1>1. ASSUME wjob[w].pc # "idle", NEW o \in {"done", "failed"}, UNCHANGED status,
             W!SetRowOf(wjob[w].msg, W!Update(W!RowOf(wjob[w].msg), o))
      PROVE  O!Next
  <2>1. wjob[w].msg.upload \in Uploads /\ wjob[w].msg.step \in O!Steps
    BY <1>1, WorkerFields
  <2>2. O!WorkerSettles(wjob[w].msg.upload, wjob[w].msg.step, o)
    BY <1>1 DEF O!WorkerSettles, O!SetRow, O!Row, O!Update, O!Applies, O!Allowed, overs,
       W!SetRowOf, W!RowOf, W!Update, W!Applies, W!Allowed
  <2>3. QED
    BY <2>1, <2>2, Tables DEF O!Next, O!Environment
<1>2. CASE UNCHANGED <<steps, status>>
  BY <1>2 DEF O!vars, overs
<1>3. CASE W!Commit(w)
  <2>1. CASE W!Applies(W!RowOf(wjob[w].msg), "done")
    <3>1. /\ wjob[w].pc # "idle" /\ UNCHANGED status
          /\ W!SetRowOf(wjob[w].msg, W!Update(W!RowOf(wjob[w].msg), "done"))
      BY <1>3, <2>1 DEF W!Commit, W!At, W!Update
    <3>2. QED
      BY <1>1, <3>1
  <2>2. CASE ~W!Applies(W!RowOf(wjob[w].msg), "done")
    BY <1>2, <1>3, <2>2 DEF W!Commit
  <2>3. QED
    BY <2>1, <2>2
<1>4. CASE W!FailStep(w)
  BY <1>1, <1>4 DEF W!FailStep, W!At
<1>5. CASE W!FailUpload(w)
  <2>1. wjob[w].msg.upload \in Uploads
    BY <1>5, WorkerFields DEF W!FailUpload, W!At
  <2>2. O!WorkerFailsUpload(wjob[w].msg.upload)
    BY <1>5 DEF W!FailUpload, O!WorkerFailsUpload, overs
  <2>3. QED
    BY <2>1, <2>2 DEF O!Next, O!Environment
<1>6. CASE W!CommitReplyLost(w)
  BY <1>1, <1>6 DEF W!CommitReplyLost, W!At
<1>7. CASE W!FailStepFails(w)
  BY <1>1, <1>2, <1>7 DEF W!FailStepFails, W!At
<1>8. QED
  BY <1>2, <1>3, <1>4, <1>5, <1>6, <1>7
  DEF W!Inner, W!Fault, W!Receive, W!WorkDone, W!WorkFails, W!RetryLater, W!DeadLetter, W!Ack,
      W!AckDeadLettered, W!CallFails, W!FailUploadFails, W!ReportFailedFails, W!RetryFails,
      W!Crash, W!CrashReporting, W!ChannelCloses, W!RetryUnheard

(* Every step of the pipeline is one the orchestrator is verified against.  *)
LEMMA StepIsOrchestrators ==
    ASSUME O!IndInv, W!IndInv, [Next]_vars
    PROVE  [O!Next]_O!vars
<1>1. CASE \E u \in Uploads : Relay(u) \/ RelayAgain(u) \/ FinalizedAgain(u)
  BY <1>1 DEF Relay, RelayAgain, FinalizedAgain, O!Next, O!Environment
<1>2. CASE \E c \in O!Consumers : \/ OrchestratorWorks(c) \/ OrchestratorFaults(c)
                                  \/ DispatchStep(c) \/ DispatchUnrouted(c)
  BY <1>2 DEF OrchestratorWorks, OrchestratorFaults, DispatchStep, DispatchUnrouted, O!Next,
     O!Work
<1>3. CASE \E w \in W!WorkerIds : WorkerWorks(w) \/ WorkerFaults(w)
  BY <1>3, WorkerIsEnvironment DEF WorkerWorks, WorkerFaults
<1>4. ASSUME NEW w \in W!WorkerIds, NEW o \in O!Outcomes, Report(w, o)
      PROVE  O!Next
  <2>1. wjob[w].pc # "idle" /\ UNCHANGED <<steps, status>>
    BY <1>4 DEF Report, W!ReportDone, W!ReportFailed, W!At
  <2>2. wjob[w].msg.upload \in Uploads /\ wjob[w].msg.step \in O!Steps
    BY <2>1, WorkerFields
  <2>3. O!WorkerReports(wjob[w].msg.upload, wjob[w].msg.step, o)
    BY <1>4, <2>1 DEF Report, O!WorkerReports
  <2>4. QED
    BY <2>2, <2>3 DEF O!Next, O!Environment
<1>5. CASE UNCHANGED vars
  BY <1>5 DEF vars, overs, O!vars
<1>6. QED
  BY <1>1, <1>2, <1>3, <1>4, <1>5 DEF Next, Work, Fault

(* What a consumer does to shared state is in the workers' environment. *)
LEMMA ConsumerIsEnvironment ==
    ASSUME O!IndInv, NEW c \in O!Consumers, O!Inner(c) \/ O!Fault(c), UNCHANGED wprivate
    PROVE  [W!Next]_W!wvars
<1> DEFINE u == job[c].msg.upload
<1>1. ASSUME NEW s \in O!Steps, UNCHANGED status, job[c].pc # "idle",
             NEW row \in {O!Insert(O!Row(u, s))}
                            \cup {O!Update(O!Row(u, s), t) : t \in {"processing", "done", "canceled"}},
             O!SetRow(u, s, row)
      PROVE  W!Next
  <2>1. u \in Uploads
    BY <1>1, ConsumerFields
  <2>2. O!Row(u, s) \in O!RowStates
    BY <2>1 DEF O!IndInv, O!TypeOK, O!Row
  <2>3. row \in W!RowStates
    BY <1>1, <2>2 DEF O!Insert, O!Update, O!Applies, O!Allowed, O!RowStates, W!RowStates
  <2>4. W!OrchestratorMoves(u, s, row)
    BY <1>1 DEF W!OrchestratorMoves, O!SetRow, O!Row, O!Insert, O!Update, O!Applies, O!Allowed,
       W!Insert, W!Update, W!Applies, W!Allowed, wprivate, W!wprivate
  <2>5. QED
    BY <2>1, <2>3, <2>4, Tables DEF W!Next, W!Environment
<1>2. CASE UNCHANGED <<steps, status>>
  BY <1>2 DEF W!wvars, W!wprivate, wprivate
<1>3. ASSUME NEW st \in W!UploadStatuses, job[c].pc # "idle", UNCHANGED steps,
             status' = [status EXCEPT ![u] = st]
      PROVE  W!Next
  BY <1>3, ConsumerFields
  DEF W!StatusMoves, W!Next, W!Environment, wprivate, W!wprivate
<1>4. CASE O!CreateRow(c)
  <2>1. job[c].pc = "create" /\ O!pipelineSteps[job[c].k] \in O!Steps
    BY <1>4, ConsumerFields, Tables DEF O!CreateRow, O!At
  <2>2. QED
    BY <1>1, <1>4, <2>1 DEF O!CreateRow
<1>5. CASE O!TriggerApplied(c)
  <2>1. job[c].pc = "trigger" /\ O!Target(job[c]) \in O!Steps
    BY <1>5, ConsumerFields DEF O!TriggerApplied, O!At
  <2>2. O!SetRow(u, O!Target(job[c]), O!Update(O!Row(u, O!Target(job[c])), "processing"))
    BY <1>5 DEF O!TriggerApplied, O!Update
  <2>3. QED
    BY <1>1, <1>5, <2>1, <2>2 DEF O!TriggerApplied
<1>6. CASE O!CompleteApplied(c)
  <2>1. job[c].pc = "complete" /\ job[c].msg.step \in O!Steps
    BY <1>6, ConsumerFields DEF O!CompleteApplied, O!At
  <2>2. O!SetRow(u, job[c].msg.step, O!Update(O!Row(u, job[c].msg.step), "done"))
    BY <1>6 DEF O!CompleteApplied, O!Update
  <2>3. QED
    BY <1>1, <1>6, <2>1, <2>2 DEF O!CompleteApplied
<1>7. CASE O!CancelStep(c)
  <2>1. job[c].pc = "cancel" /\ O!pipelineSteps[job[c].k] \in O!Steps
    BY <1>7, ConsumerFields, Tables DEF O!CancelStep, O!At
  <2>2. QED
    BY <1>1, <1>7, <2>1 DEF O!CancelStep
<1>8. CASE O!Finish(c) \/ O!Fail(c)
  BY <1>3, <1>8 DEF O!Finish, O!Fail, O!At, W!UploadStatuses
<1>9. CASE O!ReplyLost(c)
  <2>1. job[c].pc # "idle"
    BY <1>9 DEF O!ReplyLost
  <2>2. CASE O!At(c, "create") /\ UNCHANGED status /\
             LET s == O!pipelineSteps[job[c].k] IN O!SetRow(u, s, O!Insert(O!Row(u, s)))
    <3>1. O!pipelineSteps[job[c].k] \in O!Steps
      BY <2>2, ConsumerFields, Tables DEF O!At
    <3>2. QED
      BY <1>1, <2>1, <2>2, <3>1
  <2>3. CASE O!At(c, "trigger") /\ UNCHANGED status /\
             LET t == O!Target(job[c]) IN O!SetRow(u, t, O!Update(O!Row(u, t), "processing"))
    <3>1. O!Target(job[c]) \in O!Steps
      BY <2>3, ConsumerFields DEF O!At
    <3>2. QED
      BY <1>1, <2>1, <2>3, <3>1
  <2>4. CASE O!At(c, "complete") /\ UNCHANGED status /\
             O!SetRow(u, job[c].msg.step, O!Update(O!Row(u, job[c].msg.step), "done"))
    <3>1. job[c].msg.step \in O!Steps
      BY <2>4, ConsumerFields DEF O!At
    <3>2. QED
      BY <1>1, <2>1, <2>4, <3>1
  <2>5. CASE UNCHANGED steps /\ \E st \in W!UploadStatuses :
                                    status' = [status EXCEPT ![u] = st]
    BY <1>3, <2>1, <2>5
  <2>6. QED
    BY <1>9, <2>2, <2>3, <2>4, <2>5 DEF O!ReplyLost, W!UploadStatuses
<1>10. QED
  BY <1>2, <1>4, <1>5, <1>6, <1>7, <1>8, <1>9
  DEF O!Inner, O!Fault, O!ReceiveStart, O!ReceiveResult, O!TriggerNotApplied,
      O!CompleteNotApplied, O!RetryLater, O!DeadLetter, O!Ack, O!CallFails, O!CancelFails,
      O!RetryFails, O!Crash, O!ChannelCloses, O!RetryUnheard

(* Every step of the pipeline is one the workers are verified against: a    *)
(* step is dispatched only after its row has moved.                         *)
LEMMA StepIsWorkers ==
    ASSUME O!IndInv, W!IndInv, [Next]_vars
    PROVE  [W!Next]_W!wvars
<1>1. CASE \E u \in Uploads : Relay(u) \/ RelayAgain(u)
  BY <1>1 DEF Relay, RelayAgain, O!EventArrives, wprivate, W!wvars, W!wprivate
<1>2. CASE \E c \in O!Consumers : OrchestratorWorks(c) \/ OrchestratorFaults(c)
  BY <1>2, ConsumerIsEnvironment DEF OrchestratorWorks, OrchestratorFaults
<1>3. CASE \E c \in O!Consumers : DispatchUnrouted(c)
  BY <1>3 DEF DispatchUnrouted, O!PublishStep, wprivate, W!wvars, W!wprivate
<1>4. ASSUME NEW c \in O!Consumers, DispatchStep(c)
      PROVE  W!Next
  <2>1. job[c].pc = "publish" /\ UNCHANGED <<steps, status, stepDlq, reported, wjob>>
    BY <1>4 DEF DispatchStep, O!PublishStep, O!At
  <2>2. job[c].msg.upload \in Uploads /\ O!Target(job[c]) \in W!Steps
    BY <2>1, ConsumerFields, Tables
  <2>3. steps[job[c].msg.upload][O!Target(job[c])] \notin {"absent", "pending"}
    BY <2>1 DEF O!IndInv, O!PublisherAlone, O!At, O!Moved, O!Row
  <2>4. W!Dispatch(job[c].msg.upload, O!Target(job[c]))
    BY <1>4, <2>1, <2>3 DEF DispatchStep, W!Dispatch
  <2>5. QED
    BY <2>2, <2>4 DEF W!Next, W!Environment
<1>5. CASE \E w \in W!WorkerIds : \/ WorkerWorks(w) \/ WorkerFaults(w)
                                  \/ \E o \in O!Outcomes : Report(w, o)
  BY <1>5 DEF WorkerWorks, WorkerFaults, Report, W!Next, W!Work
<1>6. CASE UNCHANGED vars
  BY <1>6 DEF vars, wprivate, W!wvars, W!wprivate
<1>7. ASSUME NEW u \in Uploads, FinalizedAgain(u)
      PROVE  W!Next
  <2>1. W!StatusMoves(u, "processing")
    BY <1>7 DEF FinalizedAgain, O!FinalizedAgain, W!StatusMoves, wprivate, W!wprivate
  <2>2. QED
    BY <2>1 DEF W!Next, W!Environment, W!UploadStatuses
<1>8. QED
  BY <1>1, <1>2, <1>3, <1>4, <1>5, <1>6, <1>7 DEF Next, Work, Fault

(* So both sides keep their invariants. *)
LEMMA BothStep ==
    ASSUME O!IndInv, O!LaunchInv, W!IndInv, W!KeepInv, [Next]_vars
    PROVE  O!IndInv' /\ O!LaunchInv' /\ W!IndInv' /\ W!KeepInv'
BY StepIsOrchestrators, StepIsWorkers, OrchestratorStep, WorkersStep

--------------------------------------------------------------------------------
(* Every result in sight was reported.                                      *)

Result(m, n) == n.upload = m.upload /\ n.step = m.step /\ n.outcome = m.outcome

(* No report is ever taken back. *)
LEMMA ReportsStand ==
    ASSUME W!IndInv, [Next]_vars, NEW u \in Uploads, NEW s \in O!Steps, NEW o \in O!Outcomes,
           reported[u][s][o] > 0
    PROVE  reported'[u][s][o] > 0
<1>1. /\ reported \in [Uploads -> [O!Steps -> [O!Outcomes -> Nat]]]
  BY Tables DEF W!IndInv, W!TypeOK
<1>2. ASSUME NEW w \in W!WorkerIds, NEW r \in {"done", "failed"},
             reported' = [reported EXCEPT ![wjob[w].msg.upload][wjob[w].msg.step][r] = @ + 1]
      PROVE  reported'[u][s][o] > 0
  BY <1>1, <1>2
<1>3. CASE UNCHANGED reported
  BY <1>3
<1>4. CASE \E w \in W!WorkerIds, r \in O!Outcomes : Report(w, r)
  BY <1>2, <1>4 DEF Report, W!ReportDone, W!ReportFailed
<1>5. CASE \E w \in W!WorkerIds : WorkerWorks(w) \/ WorkerFaults(w)
  BY <1>3, <1>5 DEF WorkerWorks, WorkerFaults, W!Inner, W!Fault, W!Receive, W!WorkDone,
     W!WorkFails, W!Commit, W!RetryLater, W!DeadLetter, W!Ack, W!AckDeadLettered, W!FailStep,
     W!FailUpload, W!CallFails, W!CommitReplyLost, W!FailStepFails, W!FailUploadFails,
     W!ReportFailedFails, W!RetryFails, W!Crash, W!CrashReporting, W!ChannelCloses,
     W!RetryUnheard
<1>6. QED
  BY <1>3, <1>4, <1>5 DEF Next, Work, Fault, Relay, RelayAgain, FinalizedAgain, OrchestratorWorks,
     OrchestratorFaults, DispatchStep, DispatchUnrouted, wprivate, vars

(* A consumer's next call, once it has its delivery. *)
Handling(c) ==
    \/ O!CreateRow(c) \/ O!TriggerApplied(c) \/ O!TriggerNotApplied(c) \/ O!PublishStep(c)
    \/ O!CompleteApplied(c) \/ O!CompleteNotApplied(c) \/ O!Finish(c) \/ O!Fail(c)
    \/ O!CancelStep(c) \/ O!RetryLater(c) \/ O!DeadLetter(c) \/ O!Ack(c) \/ O!Fault(c)

(* The channel of its delivery closes: its next call is the one it was.     *)
LEMMA ConsumerCloses ==
    ASSUME O!IndInv, NEW c \in O!Consumers, O!ChannelCloses(c)
    PROVE  /\ job[c].pc # "idle"
           /\ \A d \in O!Consumers \ {c} : job'[d] = job[d]
           /\ job'[c].pc = job[c].pc /\ job'[c].msg = job[c].msg /\ job'[c].k = job[c].k
<1>1. OP!TypeOK /\ c \in OP!Consumers
  BY SameOrchestrator DEF OP!IndInv
<1>2. OP!ChannelCloses(c)
  BY DEF O!ChannelCloses, OP!ChannelCloses, O!Requeue, OP!Requeue, O!At, OP!At, O!Put, OP!Put
<1>3. QED
  BY <1>1, <1>2, OP!ClosedFields, SameOrchestrator, PipelineAssumption

(* It makes no message but copies of its own. *)
LEMMA HandlingCopies ==
    ASSUME O!IndInv, NEW c \in O!Consumers, Handling(c)
    PROVE  /\ job[c].pc # "idle"
           /\ \A d \in O!Consumers : job'[d].pc # "idle" =>
                 job[d].pc # "idle" /\ job'[d].msg = job[d].msg
           /\ \/ inbox' = inbox
              \/ inbox' = O!Put(inbox, job[c].msg)
              \/ inbox' = O!Put(inbox, O!Again(job[c].msg))
           /\ dlq' \subseteq dlq \cup {job[c].msg}
<1>1. DOMAIN job = O!Consumers
  BY DEF O!IndInv, O!TypeOK
<1>2. job[c].pc # "idle"
  BY DEF Handling, O!CreateRow, O!TriggerApplied, O!TriggerNotApplied, O!PublishStep,
     O!CompleteApplied, O!CompleteNotApplied, O!Finish, O!Fail, O!CancelStep, O!RetryLater,
     O!DeadLetter, O!Ack, O!Fault, O!CallFails, O!ReplyLost, O!CancelFails, O!RetryFails,
     O!Crash, O!ChannelCloses, O!RetryUnheard, O!At
<1>3. (\E pc, k : O!Goto(c, pc, k)) \/ O!Release(c) \/ O!ChannelCloses(c)
  BY DEF Handling, O!CreateRow, O!TriggerApplied, O!TriggerNotApplied, O!PublishStep,
     O!CompleteApplied, O!CompleteNotApplied, O!Finish, O!Fail, O!CancelStep, O!RetryLater,
     O!DeadLetter, O!Ack, O!Fault, O!CallFails, O!ReplyLost, O!CancelFails, O!RetryFails,
     O!Crash, O!RetryUnheard, O!Return, O!NextCancel
<1>4. \A d \in O!Consumers : job'[d].pc # "idle" =>
         job[d].pc # "idle" /\ job'[d].msg = job[d].msg
  <2>1. CASE O!ChannelCloses(c)
    BY <2>1, ConsumerCloses
  <2>2. CASE (\E pc, k : O!Goto(c, pc, k)) \/ O!Release(c)
    BY <1>1, <1>2, <2>2 DEF O!Goto, O!Release, O!Idle
  <2>3. QED
    BY <1>3, <2>1, <2>2
<1>5. /\ \/ inbox' = inbox
         \/ inbox' = O!Put(inbox, job[c].msg)
         \/ inbox' = O!Put(inbox, O!Again(job[c].msg))
      /\ dlq' \subseteq dlq \cup {job[c].msg}
  BY DEF Handling, O!CreateRow, O!TriggerApplied, O!TriggerNotApplied, O!PublishStep,
     O!CompleteApplied, O!CompleteNotApplied, O!Finish, O!Fail, O!CancelStep, O!RetryLater,
     O!DeadLetter, O!Ack, O!Fault, O!CallFails, O!ReplyLost, O!CancelFails, O!RetryFails,
     O!Crash, O!ChannelCloses, O!RetryUnheard, O!Requeue
<1>6. QED
  BY <1>2, <1>4, <1>5

(* A result seen after a consumer's step was there before it. *)
LEMMA SeenBefore ==
    ASSUME O!IndInv, NEW c \in O!Consumers, O!ReceiveStart(c) \/ O!ReceiveResult(c) \/ Handling(c),
           NEW m \in O!ResultMsgs, InSight(m)'
    PROVE  \E n \in O!ResultMsgs : InSight(n) /\ Result(m, n)
<1>1. /\ inbox \in [O!Msgs -> Nat] /\ DOMAIN job = O!Consumers
      /\ m \in O!Msgs /\ m.kind = "result"
  BY DEF O!IndInv, O!TypeOK, O!Msgs, O!ResultMsgs
<1>2. CASE O!ReceiveStart(c) \/ O!ReceiveResult(c)
  <2>1. PICK n \in O!Msgs : /\ inbox[n] > 0 /\ inbox' = O!Take(inbox, n) /\ dlq' = dlq
                            /\ \A d \in O!Consumers : d # c => job'[d] = job[d]
                            /\ job'[c].msg = n
    BY <1>1, <1>2 DEF O!ReceiveStart, O!ReceiveResult, O!Msgs, O!NewJob
  <2>2. inbox'[m] > 0 => inbox[m] > 0
    BY <1>1, <2>1 DEF O!Take
  <2>3. ASSUME NEW d \in Handlers, job'[d].pc # "idle", job'[d].msg = m
        PROVE  InSight(m)
    BY <2>1, <2>3 DEF InSight, O!At, O!Consumers
  <2>4. InSight(m)
    BY <2>1, <2>2, <2>3 DEF InSight, O!At
  <2>5. QED
    BY <2>4 DEF Result
<1>3. CASE Handling(c)
  <2>1. /\ job[c].pc # "idle"
        /\ \A d \in O!Consumers : job'[d].pc # "idle" =>
              job[d].pc # "idle" /\ job'[d].msg = job[d].msg
        /\ \/ inbox' = inbox
           \/ inbox' = O!Put(inbox, job[c].msg)
           \/ inbox' = O!Put(inbox, O!Again(job[c].msg))
        /\ dlq' \subseteq dlq \cup {job[c].msg}
    BY <1>3, HandlingCopies
  <2>2. InSight(m) \/ m = job[c].msg \/ m = O!Again(job[c].msg)
    <3>1. inbox'[m] > 0 => inbox[m] > 0 \/ m = job[c].msg \/ m = O!Again(job[c].msg)
      BY <1>1, <2>1 DEF O!Put
    <3>2. (\E d \in Handlers : ~O!At(d, "idle")' /\ job'[d].msg = m) => InSight(m)
      BY <2>1 DEF InSight, O!At, O!Consumers
    <3>3. QED
      BY <2>1, <3>1, <3>2 DEF InSight
  <2>3. CASE InSight(m)
    BY <2>3 DEF Result
  <2>4. CASE m = job[c].msg \/ m = O!Again(job[c].msg)
    <3>1. c \notin Starters
      <4>1. SUFFICES ASSUME c \in Starters
                     PROVE  FALSE
        OBVIOUS
      <4>2. job[c].msg \in O!StartMsgs /\ job[c].msg.kind = "start"
        BY <2>1, <4>1, ConsumerFields
      <4>3. O!Again(job[c].msg).kind = "start"
        BY <4>2 DEF O!Again, O!StartMsgs
      <4>4. QED
        BY <1>1, <2>4, <4>2, <4>3
    <3>2. c \in Handlers /\ job[c].msg \in O!ResultMsgs
      BY <2>1, <3>1, ConsumerFields
    <3>3. Result(m, job[c].msg)
      BY <2>4, <3>2 DEF Result, O!Again, O!ResultMsgs
    <3>4. InSight(job[c].msg)
      BY <2>1, <3>2 DEF InSight, O!At
    <3>5. QED
      BY <3>2, <3>3, <3>4
  <2>5. QED
    BY <2>2, <2>3, <2>4
<1>4. QED
  BY <1>2, <1>3

(* What a consumer does, seen from the pipeline. *)
LEMMA ConsumerSteps ==
    ASSUME NEW c \in O!Consumers,
           OrchestratorWorks(c) \/ OrchestratorFaults(c) \/ DispatchStep(c) \/ DispatchUnrouted(c)
    PROVE  O!ReceiveStart(c) \/ O!ReceiveResult(c) \/ Handling(c)
BY DEF OrchestratorWorks, OrchestratorFaults, DispatchStep, DispatchUnrouted, O!Inner, Handling

LEMMA ReportedStep ==
    ASSUME PipelineInv, [Next]_vars
    PROVE  ResultsWereReported'
<1> SUFFICES ASSUME NEW m \in O!ResultMsgs, InSight(m)'
             PROVE  reported'[m.upload][m.step][m.outcome] > 0
  BY DEF ResultsWereReported
<1> USE DEF PipelineInv
<1>1. /\ m.upload \in Uploads /\ m.step \in O!Steps /\ m.outcome \in O!Outcomes
      /\ m.kind = "result" /\ m \in O!Msgs
  BY DEF O!ResultMsgs, O!Msgs
<1>2. ASSUME NEW n \in O!ResultMsgs, InSight(n), Result(m, n)
      PROVE  reported'[m.upload][m.step][m.outcome] > 0
  <2>1. reported[n.upload][n.step][n.outcome] > 0
    BY <1>2 DEF ResultsWereReported
  <2>2. reported[m.upload][m.step][m.outcome] > 0
    BY <1>2, <2>1 DEF Result
  <2>3. QED
    BY <1>1, <2>2, ReportsStand
<1>3. CASE InSight(m)
  BY <1>2, <1>3 DEF Result
<1>4. inbox \in [O!Msgs -> Nat] /\ reported \in [Uploads -> [O!Steps -> [O!Outcomes -> Nat]]]
  BY Tables DEF O!IndInv, O!TypeOK, W!IndInv, W!TypeOK
<1>5. CASE \E c \in O!Consumers : \/ OrchestratorWorks(c) \/ OrchestratorFaults(c)
                                  \/ DispatchStep(c) \/ DispatchUnrouted(c)
  BY <1>2, <1>5, ConsumerSteps, SeenBefore
<1>6. ASSUME NEW w \in W!WorkerIds, NEW o \in O!Outcomes, Report(w, o)
      PROVE  reported'[m.upload][m.step][m.outcome] > 0
  <2> DEFINE r == [kind |-> "result", upload |-> wjob[w].msg.upload,
                   step |-> wjob[w].msg.step, outcome |-> o, attempt |-> 0]
  <2>1. inbox' = O!Put(inbox, r) /\ UNCHANGED <<dlq, job>>
    BY <1>6 DEF Report
  <2>2. CASE m # r
    <3>1. inbox'[m] = inbox[m]
      BY <1>1, <1>4, <2>1, <2>2 DEF O!Put
    <3>2. InSight(m)
      BY <2>1, <3>1 DEF InSight, O!At
    <3>3. QED
      BY <1>3, <3>2
  <2>3. CASE m = r
    <3>1. reported' = [reported EXCEPT ![m.upload][m.step][m.outcome] = @ + 1]
      BY <1>6, <2>3, Tables DEF Report, W!ReportDone, W!ReportFailed
    <3>2. reported'[m.upload][m.step][m.outcome] = reported[m.upload][m.step][m.outcome] + 1
      BY <1>1, <1>4, <3>1
    <3>3. reported[m.upload][m.step][m.outcome] \in Nat
      BY <1>1, <1>4
    <3>4. QED
      BY <3>2, <3>3
  <2>4. QED
    BY <2>2, <2>3
<1>7. CASE \E u \in Uploads : Relay(u) \/ RelayAgain(u)
  <2>1. PICK u \in Uploads : O!EventArrives(u)
    BY <1>7 DEF Relay, RelayAgain
  <2>2. inbox'[m] = inbox[m] /\ UNCHANGED <<dlq, job>>
    BY <1>1, <1>4, <2>1 DEF O!EventArrives, O!Put
  <2>3. InSight(m)
    BY <2>2 DEF InSight, O!At
  <2>4. QED
    BY <1>3, <2>3
<1>8. CASE UNCHANGED <<inbox, dlq, job>>
  BY <1>3, <1>8 DEF InSight, O!At
<1>9. QED
  BY <1>5, <1>6, <1>7, <1>8 DEF Next, Work, Fault, FinalizedAgain, O!FinalizedAgain,
     WorkerWorks, WorkerFaults, overs, vars

--------------------------------------------------------------------------------
(* No result moves the pipeline.                                            *)

(* A result in sight agrees with its row: the worker reports only what it   *)
(* has committed.                                                           *)
LEMMA ReportedIsCommitted ==
    ASSUME W!IndInv, ResultsWereReported
    PROVE  ResultsAreCommitted
<1> SUFFICES ASSUME NEW m \in O!ResultMsgs, InSight(m)
             PROVE  steps[m.upload][m.step] = m.outcome
  BY DEF ResultsAreCommitted
<1>1. m.upload \in Uploads /\ m.step \in W!Steps /\ m.outcome \in W!Outcomes
  BY Tables DEF O!ResultMsgs
<1>2. reported[m.upload][m.step][m.outcome] > 0
  BY DEF ResultsWereReported
<1>3. QED
  BY <1>1, <1>2 DEF W!IndInv, W!ResultMatchesRow

(* A handler about to complete a step finds it done already. *)
LEMMA CompletedAlready ==
    ASSUME PipelineInv, NEW c \in O!Consumers, O!At(c, "complete")
    PROVE  /\ job[c].msg.upload \in Uploads /\ job[c].msg.step \in O!Steps
           /\ steps[job[c].msg.upload][job[c].msg.step] = "done"
<1>1. /\ c \in Handlers /\ job[c].msg \in O!ResultMsgs
      /\ job[c].msg.upload \in Uploads /\ job[c].msg.step \in O!Steps
  BY ConsumerFields DEF PipelineInv, O!At
<1>2. InSight(job[c].msg) /\ job[c].msg.outcome = "done"
  BY <1>1 DEF InSight, PipelineInv, HandlersStop, O!At
<1>3. ResultsAreCommitted
  BY ReportedIsCommitted DEF PipelineInv
<1>4. QED
  BY <1>1, <1>2, <1>3 DEF ResultsAreCommitted

LEMMA NothingCompletes ==
    ASSUME PipelineInv, NEW c \in O!Consumers
    PROVE  /\ ~O!CompleteApplied(c) /\ ~O!Finish(c)
           /\ O!TriggerApplied(c) \/ O!PublishStep(c) => c \in Starters
<1>1. ~O!CompleteApplied(c)
  BY CompletedAlready DEF O!CompleteApplied, O!Applies, O!Allowed, O!Row
<1>2. c \in Handlers => job[c].pc \notin {"trigger", "publish", "finish"}
  BY DEF PipelineInv, HandlersStop
<1>3. ~O!Finish(c)
  BY <1>2, ConsumerFields DEF O!Finish, O!At, PipelineInv
<1>4. QED
  BY <1>1, <1>2, <1>3 DEF O!TriggerApplied, O!PublishStep, O!At, O!Consumers

LEMMA HandlersStopStep ==
    ASSUME PipelineInv, [Next]_vars
    PROVE  HandlersStop'
<1> SUFFICES ASSUME NEW d \in Handlers
             PROVE  /\ job'[d].pc \notin {"trigger", "publish", "finish"}
                    /\ job'[d].pc = "complete" => job'[d].msg.outcome = "done"
  BY DEF HandlersStop, O!At
<1>1. DOMAIN job = O!Consumers /\ d \in O!Consumers /\ d \notin Starters
  BY PipelineAssumption DEF PipelineInv, O!IndInv, O!TypeOK, O!Consumers
<1>2. CASE job'[d] = job[d]
  BY <1>2 DEF PipelineInv, HandlersStop, O!At
<1>3. ASSUME job'[d].pc \in {"idle", "fail", "cancel", "retry", "ack"}
      PROVE  /\ job'[d].pc \notin {"trigger", "publish", "finish"}
             /\ job'[d].pc = "complete" => job'[d].msg.outcome = "done"
  BY <1>3
<1>4. CASE O!ReceiveResult(d)
  BY <1>1, <1>4 DEF O!ReceiveResult, O!NewJob, O!ResultMsgs, O!Outcomes
<1>5. ASSUME Handling(d), ~O!ChannelCloses(d)
      PROVE  job'[d].pc \in {"idle", "fail", "cancel", "retry", "ack"}
  <2>1. job[d].pc \in {"complete", "fail", "cancel", "retry", "ack"}
    <3>1. /\ ~O!CreateRow(d) /\ ~O!TriggerApplied(d) /\ ~O!TriggerNotApplied(d)
          /\ ~O!PublishStep(d) /\ ~O!Finish(d)
      BY <1>1, ConsumerFields DEF PipelineInv, HandlersStop, O!CreateRow, O!TriggerApplied,
         O!TriggerNotApplied, O!PublishStep, O!Finish, O!At
    <3>2. /\ job[d].pc # "idle" => job[d].pc # "create"
          /\ job[d].pc \notin {"trigger", "publish", "finish"}
      BY <1>1, ConsumerFields DEF PipelineInv, HandlersStop
    <3>3. CASE \/ O!CompleteApplied(d) \/ O!CompleteNotApplied(d) \/ O!Fail(d)
               \/ O!CancelStep(d) \/ O!RetryLater(d) \/ O!DeadLetter(d) \/ O!Ack(d)
      BY <3>3 DEF O!CompleteApplied, O!CompleteNotApplied, O!Fail, O!CancelStep,
         O!RetryLater, O!DeadLetter, O!Ack, O!At
    <3>4. CASE O!Fault(d)
      <4>1. job[d].pc \in {"idle", "create", "trigger", "publish", "finish", "complete", "fail",
                           "cancel", "retry", "ack"}
        BY <1>1 DEF PipelineInv, O!IndInv, O!TypeOK, O!Jobs, O!Idle, O!StartJobs, O!ResultJobs
      <4>2. job[d].pc # "idle"
        BY <1>1, <1>5, HandlingCopies DEF PipelineInv
      <4>3. QED
        BY <3>2, <4>1, <4>2
    <3>5. QED
      BY <1>5, <3>1, <3>3, <3>4 DEF Handling
  <2>2. ~O!CompleteApplied(d)
    BY <1>1, NothingCompletes
  <2>3. (\E pc \in {"cancel", "retry", "ack"}, k \in Nat \cup {job[d].k + 1} : O!Goto(d, pc, k))
            \/ O!Release(d)
    BY <1>5, <2>1, <2>2 DEF Handling, O!CreateRow, O!TriggerApplied, O!TriggerNotApplied,
       O!PublishStep, O!CompleteNotApplied, O!Finish, O!Fail, O!CancelStep, O!RetryLater,
       O!DeadLetter, O!Ack, O!Fault, O!CallFails, O!ReplyLost, O!CancelFails, O!RetryFails,
       O!Crash, O!RetryUnheard, O!NextCancel, O!At
  <2>4. QED
    BY <1>1, <2>3 DEF O!Goto, O!Release, O!Idle
<1>6. ASSUME NEW c \in O!Consumers, c # d,
             O!ReceiveStart(c) \/ O!ReceiveResult(c) \/ Handling(c)
      PROVE  job'[d] = job[d]
  <2>1. CASE O!ReceiveStart(c) \/ O!ReceiveResult(c)
    BY <1>1, <1>6, <2>1 DEF O!ReceiveStart, O!ReceiveResult
  <2>2. CASE Handling(c)
    <3>1. (\E pc, k : O!Goto(c, pc, k)) \/ O!Release(c) \/ O!ChannelCloses(c)
      BY <2>2 DEF Handling, O!CreateRow, O!TriggerApplied, O!TriggerNotApplied, O!PublishStep,
         O!CompleteApplied, O!CompleteNotApplied, O!Finish, O!Fail, O!CancelStep, O!RetryLater,
         O!DeadLetter, O!Ack, O!Fault, O!CallFails, O!ReplyLost, O!CancelFails, O!RetryFails,
         O!Crash, O!RetryUnheard, O!Return, O!NextCancel
    <3>2. CASE O!ChannelCloses(c)
      BY <1>1, <1>6, <3>2, ConsumerCloses DEF PipelineInv
    <3>3. QED
      BY <1>1, <1>6, <3>1, <3>2 DEF O!Goto, O!Release
  <2>3. QED
    BY <1>6, <2>1, <2>2
<1>7. CASE \E c \in O!Consumers : \/ OrchestratorWorks(c) \/ OrchestratorFaults(c)
                                  \/ DispatchStep(c) \/ DispatchUnrouted(c)
  <2>1. PICK c \in O!Consumers : O!ReceiveStart(c) \/ O!ReceiveResult(c) \/ Handling(c)
    BY <1>7, ConsumerSteps
  <2>2. CASE c = d
    <3>1. ~O!ReceiveStart(d)
      BY <1>1 DEF O!ReceiveStart
    <3>2. CASE O!ChannelCloses(d)
      <4>1. job'[d].pc = job[d].pc /\ job'[d].msg = job[d].msg
        BY <1>1, <3>2, ConsumerCloses DEF PipelineInv
      <4>2. QED
        BY <4>1 DEF PipelineInv, HandlersStop, O!At
    <3>3. QED
      BY <1>3, <1>4, <1>5, <2>1, <2>2, <3>1, <3>2
  <2>3. CASE c # d
    BY <1>2, <1>6, <2>1, <2>3
  <2>4. QED
    BY <2>2, <2>3
<1>8. CASE UNCHANGED job
  BY <1>2, <1>8
<1>9. QED
  BY <1>7, <1>8 DEF Next, Work, Fault, Relay, RelayAgain, O!EventArrives, FinalizedAgain,
     O!FinalizedAgain, WorkerWorks,
     WorkerFaults, Report, overs, vars

(* The three steps after the initial pair, and the rows they stay in. *)
Later == O!Steps \ {"extract_metadata", "generate_thumbnail"}

Waiting == {"absent", "pending", "canceled"}

RowsWait == \A u \in Uploads, s \in Later : steps[u][s] \in Waiting

LEMMA SetRowWaits ==
    ASSUME O!IndInv, RowsWait, NEW u \in Uploads, NEW s \in O!Steps, NEW row,
           s \in Later => row \in Waiting, steps' = [steps EXCEPT ![u][s] = row]
    PROVE  RowsWait'
<1>1. steps \in [Uploads -> [O!Steps -> O!RowStates]]
  BY DEF O!IndInv, O!TypeOK
<1>2. QED
  BY <1>1 DEF RowsWait, Later

(* Only a trigger takes a row out of waiting. *)
LEMMA UpdateWaits ==
    ASSUME NEW row \in Waiting
    PROVE  /\ O!Insert(row) \in Waiting
           /\ \A t \in {"done", "failed", "canceled"} : O!Update(row, t) \in Waiting
           /\ \A t \in {"done", "failed"} : W!Update(row, t) \in Waiting
BY DEF Waiting, O!Insert, O!Update, O!Applies, O!Allowed, W!Update, W!Applies, W!Allowed

LEMMA ConsumerStalls ==
    ASSUME PipelineInv, NEW c \in O!Consumers,
           O!ReceiveStart(c) \/ O!ReceiveResult(c) \/ Handling(c)
    PROVE  StallsAfterInitialSteps'
<1> DEFINE up == job[c].msg.upload
<1>1. O!IndInv /\ RowsWait
  BY DEF PipelineInv, StallsAfterInitialSteps, RowsWait, Later, Waiting
<1>2. /\ \A u \in Uploads : status[u] # "finished"
      /\ \A u \in Uploads, s \in Later : triggered[u][s] = 0
  BY DEF PipelineInv, StallsAfterInitialSteps, Later
<1>3. /\ status \in [Uploads -> O!UploadStatuses]
      /\ triggered \in [Uploads -> [O!Steps -> Nat]]
  BY <1>1 DEF O!IndInv, O!TypeOK
<1>4. ASSUME RowsWait', UNCHANGED triggered, \A u \in Uploads : status'[u] # "finished"
      PROVE  StallsAfterInitialSteps'
  BY <1>2, <1>4 DEF StallsAfterInitialSteps, RowsWait, Later, Waiting
<1>5. CASE UNCHANGED <<steps, status, triggered>>
  BY <1>1, <1>2, <1>4, <1>5 DEF RowsWait
<1>6. ASSUME NEW s \in O!Steps, NEW row, job[c].pc # "idle", s \in Later => row \in Waiting,
             O!SetRow(up, s, row), UNCHANGED <<status, triggered>>
      PROVE  StallsAfterInitialSteps'
  <2>1. up \in Uploads
    BY <1>1, <1>6, ConsumerFields
  <2>2. RowsWait'
    BY <1>1, <1>6, <2>1, SetRowWaits DEF O!SetRow
  <2>3. QED
    BY <1>2, <1>4, <1>6, <2>2
<1>7. ASSUME NEW s \in O!Steps, job[c].pc # "idle", s \in Later
      PROVE  O!Row(up, s) \in Waiting
  BY <1>1, <1>7, ConsumerFields DEF RowsWait, O!Row
<1>8. ASSUME c \in Starters, job[c].pc \in {"trigger", "publish"}
      PROVE  O!Target(job[c]) \in O!Steps \ Later
  BY <1>1, <1>8, ConsumerFields, Tables DEF O!Target, Later
<1>9. CASE O!CreateRow(c)
  <2> DEFINE s == O!pipelineSteps[job[c].k]
  <2>1. job[c].pc # "idle" /\ s \in O!Steps
    BY <1>1, <1>9, ConsumerFields, Tables DEF O!CreateRow, O!At
  <2>2. s \in Later => O!Insert(O!Row(up, s)) \in Waiting
    BY <1>7, <2>1, UpdateWaits
  <2>3. QED
    BY <1>6, <1>9, <2>1, <2>2 DEF O!CreateRow
<1>10. CASE O!TriggerApplied(c)
  <2>1. c \in Starters /\ job[c].pc = "trigger"
    BY <1>10, NothingCompletes DEF O!TriggerApplied, O!At
  <2>2. QED
    BY <1>6, <1>8, <1>10, <2>1 DEF O!TriggerApplied
<1>11. CASE O!PublishStep(c)
  <2>1. c \in Starters /\ job[c].pc = "publish"
    BY <1>11, NothingCompletes DEF O!PublishStep, O!At
  <2>2. O!Target(job[c]) \notin Later /\ up \in Uploads
    BY <1>1, <1>8, <2>1, ConsumerFields
  <2>3. UNCHANGED <<steps, status>>
        /\ triggered' = [triggered EXCEPT ![up][O!Target(job[c])] = @ + 1]
    BY <1>11 DEF O!PublishStep
  <2>4. \A u \in Uploads, s \in Later : triggered'[u][s] = triggered[u][s]
    BY <1>3, <2>2, <2>3 DEF Later
  <2>5. QED
    BY <1>1, <1>2, <2>3, <2>4 DEF StallsAfterInitialSteps, RowsWait, Later, Waiting
<1>12. CASE O!CancelStep(c)
  <2> DEFINE s == O!pipelineSteps[job[c].k]
  <2>1. job[c].pc # "idle" /\ s \in O!Steps
    BY <1>1, <1>12, ConsumerFields, Tables DEF O!CancelStep, O!At
  <2>2. s \in Later => O!Update(O!Row(up, s), "canceled") \in Waiting
    BY <1>7, <2>1, UpdateWaits
  <2>3. QED
    BY <1>6, <1>12, <2>1, <2>2 DEF O!CancelStep
<1>13. ASSUME status' = [status EXCEPT ![up] = "failed"], UNCHANGED <<steps, triggered>>
       PROVE  StallsAfterInitialSteps'
  <2>1. \A u \in Uploads : status'[u] # "finished"
    BY <1>2, <1>3, <1>13
  <2>2. RowsWait'
    BY <1>1, <1>13 DEF RowsWait
  <2>3. QED
    BY <1>4, <1>13, <2>1, <2>2
<1>14. CASE O!ReplyLost(c)
  <2>1. job[c].pc # "idle" /\ UNCHANGED triggered
    BY <1>14 DEF O!ReplyLost
  <2>2. CASE O!At(c, "create") /\ UNCHANGED status /\
             LET s == O!pipelineSteps[job[c].k] IN O!SetRow(up, s, O!Insert(O!Row(up, s)))
    <3> DEFINE s == O!pipelineSteps[job[c].k]
    <3>1. s \in O!Steps
      BY <1>1, <2>2, ConsumerFields, Tables DEF O!At
    <3>2. s \in Later => O!Insert(O!Row(up, s)) \in Waiting
      BY <1>7, <2>1, <3>1, UpdateWaits
    <3>3. QED
      BY <1>6, <2>1, <2>2, <3>1, <3>2
  <2>3. CASE O!At(c, "trigger") /\ UNCHANGED status /\
             LET t == O!Target(job[c]) IN O!SetRow(up, t, O!Update(O!Row(up, t), "processing"))
    <3>1. c \in Starters /\ job[c].pc = "trigger"
      BY <2>3 DEF PipelineInv, HandlersStop, O!At, O!Consumers
    <3>2. O!Target(job[c]) \in O!Steps \ Later
      BY <1>8, <3>1
    <3>3. QED
      BY <1>6, <2>1, <2>3, <3>2
  <2>4. CASE O!At(c, "complete") /\ UNCHANGED status /\
             O!SetRow(up, job[c].msg.step, O!Update(O!Row(up, job[c].msg.step), "done"))
    <3>1. job[c].msg.step \in O!Steps
      BY <2>4, CompletedAlready
    <3>2. job[c].msg.step \in Later => O!Update(O!Row(up, job[c].msg.step), "done") \in Waiting
      BY <1>7, <2>1, <3>1, UpdateWaits
    <3>3. QED
      BY <1>6, <2>1, <2>4, <3>1, <3>2
  <2>5. CASE O!At(c, "fail") /\ UNCHANGED steps /\ status' = [status EXCEPT ![up] = "failed"]
    BY <1>13, <2>1, <2>5
  <2>6. ~O!At(c, "finish")
    BY <1>1, ConsumerFields DEF PipelineInv, HandlersStop, O!At
  <2>7. QED
    BY <1>14, <2>2, <2>3, <2>4, <2>5, <2>6 DEF O!ReplyLost
<1>15. CASE O!Fail(c)
  BY <1>13, <1>15 DEF O!Fail
<1>16. QED
  BY <1>5, <1>9, <1>10, <1>11, <1>12, <1>14, <1>15, NothingCompletes
  DEF Handling, O!ReceiveStart, O!ReceiveResult, O!TriggerNotApplied, O!CompleteNotApplied,
      O!RetryLater, O!DeadLetter, O!Ack, O!Fault, O!CallFails, O!CancelFails, O!RetryFails,
      O!Crash, O!ChannelCloses, O!RetryUnheard

LEMMA WorkerStalls ==
    ASSUME PipelineInv, NEW w \in W!WorkerIds, W!Inner(w) \/ W!Fault(w), UNCHANGED triggered
    PROVE  StallsAfterInitialSteps'
<1> DEFINE m == wjob[w].msg
<1>1. /\ O!IndInv /\ W!IndInv /\ RowsWait
      /\ \A u \in Uploads : status[u] # "finished"
      /\ \A u \in Uploads, s \in Later : triggered[u][s] = 0
      /\ status \in [Uploads -> O!UploadStatuses]
  BY DEF PipelineInv, StallsAfterInitialSteps, RowsWait, Later, Waiting, O!IndInv, O!TypeOK
<1>2. ASSUME RowsWait', \A u \in Uploads : status'[u] # "finished"
      PROVE  StallsAfterInitialSteps'
  BY <1>1, <1>2 DEF StallsAfterInitialSteps, RowsWait, Later, Waiting
<1>3. CASE UNCHANGED <<steps, status>>
  BY <1>1, <1>2, <1>3 DEF RowsWait
<1>4. ASSUME wjob[w].pc # "idle", NEW o \in {"done", "failed"}, UNCHANGED status,
             W!SetRowOf(m, W!Update(W!RowOf(m), o))
      PROVE  StallsAfterInitialSteps'
  <2>1. m.upload \in Uploads /\ m.step \in O!Steps
    BY <1>1, <1>4, WorkerFields
  <2>2. m.step \in Later => W!RowOf(m) \in Waiting
    BY <1>1, <2>1 DEF RowsWait, W!RowOf
  <2>3. m.step \in Later => W!Update(W!RowOf(m), o) \in Waiting
    BY <2>2, UpdateWaits
  <2>4. RowsWait'
    BY <1>1, <1>4, <2>1, <2>3, SetRowWaits DEF W!SetRowOf
  <2>5. QED
    BY <1>1, <1>2, <1>4, <2>4
<1>5. CASE W!Commit(w)
  <2>1. CASE W!Applies(W!RowOf(m), "done")
    <3>1. wjob[w].pc # "idle" /\ UNCHANGED status /\ W!SetRowOf(m, W!Update(W!RowOf(m), "done"))
      BY <1>5, <2>1 DEF W!Commit, W!At, W!Update
    <3>2. QED
      BY <1>4, <3>1
  <2>2. CASE ~W!Applies(W!RowOf(m), "done")
    BY <1>3, <1>5, <2>2 DEF W!Commit
  <2>3. QED
    BY <2>1, <2>2
<1>6. CASE W!FailStep(w)
  BY <1>4, <1>6 DEF W!FailStep, W!At
<1>7. CASE W!FailUpload(w)
  BY <1>1, <1>2, <1>7 DEF W!FailUpload, RowsWait
<1>8. CASE W!CommitReplyLost(w)
  BY <1>4, <1>8 DEF W!CommitReplyLost, W!At
<1>9. CASE W!FailStepFails(w)
  BY <1>3, <1>4, <1>9 DEF W!FailStepFails, W!At
<1>10. QED
  BY <1>3, <1>5, <1>6, <1>7, <1>8, <1>9
  DEF W!Inner, W!Fault, W!Receive, W!WorkDone, W!WorkFails, W!RetryLater, W!DeadLetter, W!Ack,
      W!AckDeadLettered, W!CallFails, W!FailUploadFails, W!ReportFailedFails, W!RetryFails,
      W!Crash, W!CrashReporting, W!ChannelCloses, W!RetryUnheard

LEMMA StallsStep ==
    ASSUME PipelineInv, [Next]_vars
    PROVE  StallsAfterInitialSteps'
<1>1. CASE \E c \in O!Consumers : \/ OrchestratorWorks(c) \/ OrchestratorFaults(c)
                                  \/ DispatchStep(c) \/ DispatchUnrouted(c)
  BY <1>1, ConsumerSteps, ConsumerStalls
<1>2. CASE \E w \in W!WorkerIds : WorkerWorks(w) \/ WorkerFaults(w)
  BY <1>2, WorkerStalls DEF WorkerWorks, WorkerFaults, overs
<1>3. CASE UNCHANGED <<steps, status, triggered>>
  BY <1>3 DEF PipelineInv, StallsAfterInitialSteps
<1>4. CASE \E u \in Uploads : FinalizedAgain(u)
  <2>1. /\ UNCHANGED <<steps, triggered>>
        /\ \E u \in Uploads : status' = [status EXCEPT ![u] = "processing"]
    BY <1>4 DEF FinalizedAgain, O!FinalizedAgain
  <2>2. status \in [Uploads -> O!UploadStatuses]
    BY DEF PipelineInv, O!IndInv, O!TypeOK
  <2>3. \A u \in Uploads : status'[u] # "finished"
    BY <2>1, <2>2 DEF PipelineInv, StallsAfterInitialSteps
  <2>4. QED
    BY <2>1, <2>3 DEF PipelineInv, StallsAfterInitialSteps
<1>5. QED
  BY <1>1, <1>2, <1>3, <1>4 DEF Next, Work, Fault, Relay, RelayAgain, O!EventArrives, Report,
     W!ReportDone, W!ReportFailed, overs, vars

--------------------------------------------------------------------------------
LEMMA PipelineInit == Init => PipelineInv
<1> SUFFICES ASSUME Init
             PROVE  PipelineInv
  OBVIOUS
<1>1. O!Init
  BY DEF Init
<1>2. O!IndInv /\ O!LaunchInv /\ W!IndInv /\ W!KeepInv
  BY InitBoth
<1>3. \A c \in O!Consumers : job[c].pc = "idle"
  BY <1>1 DEF O!Init, O!Idle
<1>4. HandlersStop
  BY <1>3 DEF HandlersStop, O!At, O!Consumers
<1>5. ResultsWereReported
  BY <1>1, <1>3 DEF ResultsWereReported, InSight, O!Init, O!At, O!Msgs, O!Consumers
<1>6. StallsAfterInitialSteps
  BY <1>1 DEF StallsAfterInitialSteps, O!Init
<1>7. QED
  BY <1>2, <1>4, <1>5, <1>6 DEF PipelineInv

LEMMA PipelineStep ==
    ASSUME PipelineInv, [Next]_vars
    PROVE  PipelineInv'
<1>1. O!IndInv' /\ O!LaunchInv' /\ W!IndInv' /\ W!KeepInv'
  BY BothStep DEF PipelineInv
<1>2. ResultsWereReported' /\ HandlersStop' /\ StallsAfterInitialSteps'
  BY ReportedStep, HandlersStopStep, StallsStep
<1>3. QED
  BY <1>1, <1>2 DEF PipelineInv

(* A start event is let go of only once both initial steps have moved. *)
LEMMA LostOnlyLaunched ==
    ASSUME PipelineInv, [Next]_vars, NEW u \in Uploads, O!StartPending(u), ~O!StartPending(u)'
    PROVE  O!Launched(u)'
<1>1. OP!IndInv /\ OP!LaunchInv /\ [OP!Next]_OP!vars
  BY StepIsOrchestrators, SameOrchestrator DEF PipelineInv
<1>2. /\ O!StartPending(u) <=> OP!StartPending(u)
      /\ O!StartPending(u)' <=> OP!StartPending(u)'
      /\ O!Launched(u)' <=> OP!Launched(u)'
  BY DEF O!StartPending, OP!StartPending, O!Launched, OP!Launched, O!StartMsgs, OP!StartMsgs,
     O!Attempts, OP!Attempts, O!At, OP!At, O!Row, OP!Row, O!initialSteps, OP!initialSteps
<1>3. OP!Launched(u)'
  BY <1>1, <1>2, OP!LostOnlyLaunched, PipelineAssumption
<1>4. QED
  BY <1>2, <1>3

(* Every step of the pipeline is a step of Chain, or none. *)
LEMMA StepIsChain ==
    ASSUME PipelineInv, [Next]_vars
    PROVE  [O!C!Next]_(O!C!chainVars)
<1>1. OP!IndInv /\ OP!LaunchInv /\ [OP!Next]_OP!vars
  BY StepIsOrchestrators, SameOrchestrator DEF PipelineInv
<1>2. OP!ChainStep
  BY <1>1, OP!StepRefines, PipelineAssumption
<1>3. (O!C!Next <=> OP!C!Next) /\ O!C!chainVars = OP!C!chainVars /\ O!C!chainVars' = OP!C!chainVars'
  BY DEF O!C!Next, OP!C!Next, O!C!chainVars, OP!C!chainVars, O!C!Create, OP!C!Create,
     O!C!Begin, OP!C!Begin, O!C!Dispatch, OP!C!Dispatch, O!C!Settle, OP!C!Settle,
     O!C!Cancel, OP!C!Cancel, O!C!SetStatus, OP!C!SetStatus, O!C!Move, OP!C!Move,
     O!C!Complete, OP!C!Complete, O!C!Enabled, OP!C!Enabled, O!C!Steps, OP!C!Steps,
     O!C!Chained, OP!C!Chained, O!C!Downstream, OP!C!Downstream
<1>4. QED
  BY <1>2, <1>3 DEF OP!ChainStep

(* The composition keeps both sides' inductive invariants: whatever calls,  *)
(* replies, messages and processes the deployed pipeline loses, each side   *)
(* meets only what it was verified against.                                 *)
THEOREM PipelineInvariance == Spec => []PipelineInv
<1>1. Init => PipelineInv
  BY PipelineInit
<1>2. PipelineInv /\ [Next]_vars => PipelineInv'
  BY PipelineStep
<1>3. QED
  BY <1>1, <1>2, PTL DEF Spec

(* A result message agrees with its row from the moment it is queued until  *)
(* its last copy is gone (each worker's UpdateUploadStep before its         *)
(* PublishStepResult).                                                      *)
THEOREM ResultsCommitted == Spec => []ResultsAreCommitted
<1>1. PipelineInv => ResultsAreCommitted
  BY ReportedIsCommitted DEF PipelineInv
<1>2. QED
  BY <1>1, PipelineInvariance, PTL

(* No schedule and no fault ever gets an upload past its two initial steps: *)
(* HandleStepResult needs to move a row that the worker has moved already.  *)
THEOREM PipelineStalls == Spec => []StallsAfterInitialSteps
<1>1. PipelineInv => StallsAfterInitialSteps
  BY DEF PipelineInv
<1>2. QED
  BY <1>1, PipelineInvariance, PTL

(* In the composed pipeline too, all five rows exist before the first step  *)
(* is published (CreateUploadSteps before triggerStep).                     *)
THEOREM RowsFirst == Spec => []RowsBeforeDispatch
<1>1. PipelineInv => RowsBeforeDispatch
  BY DEF PipelineInv, O!LaunchInv, RowsBeforeDispatch
<1>2. QED
  BY <1>1, PipelineInvariance, PTL

(* The workers keep the protocol the orchestrator was verified against, so  *)
(* every theorem of OrchestratorProofs holds of the pipeline.               *)
THEOREM PipelineImplementsOrchestrator == Spec => ImplementsOrchestrator
<1>1. Init => O!Init
  BY DEF Init
<1>2. PipelineInv /\ [Next]_vars => [O!Next]_O!vars
  BY StepIsOrchestrators DEF PipelineInv
<1>3. QED
  BY <1>1, <1>2, PipelineInvariance, PTL DEF Spec, ImplementsOrchestrator, O!Spec

(* The orchestrator keeps the protocol the workers were verified against,   *)
(* so every theorem of WorkersProofs holds of the pipeline.                 *)
THEOREM PipelineImplementsWorkers == Spec => ImplementsWorkers
<1>1. Init => W!Init
  BY DEF Init
<1>2. PipelineInv /\ [Next]_vars => [W!Next]_W!wvars
  BY StepIsWorkers DEF PipelineInv
<1>3. QED
  BY <1>1, <1>2, PipelineInvariance, PTL DEF Spec, ImplementsWorkers, W!Spec

(* With the broker, the workers and every fault hidden, the deployed        *)
(* pipeline processes each upload as Chain says: rows created before the    *)
(* first step, each step begun and handed out once, in the order of         *)
(* HandleStepResult, and nothing settled ever reopened.                     *)
THEOREM PipelineImplementsChain == Spec => O!ImplementsChain
<1>1. Init => O!C!Init
  BY DEF Init, O!Init, O!C!Init, O!Steps, O!C!Steps
<1>2. PipelineInv /\ [Next]_vars => [O!C!Next]_(O!C!chainVars)
  BY StepIsChain
<1>3. QED
  BY <1>1, <1>2, PipelineInvariance, PTL DEF Spec, O!ImplementsChain, O!C!Spec

(* The last copy of a start event goes only when both initial steps have    *)
(* been moved past pending (runUploadProcessConsumer and HandleRetry).      *)
THEOREM StartsKept == Spec => StartNotLost
<1>1. PipelineInv /\ [Next]_vars =>
         [\A u \in Uploads : O!StartPending(u) /\ ~O!StartPending(u)' => O!Launched(u)']_O!vars
  BY LostOnlyLaunched
<1>2. QED
  BY <1>1, PipelineInvariance, PTL DEF Spec, StartNotLost, O!StartNotLost

--------------------------------------------------------------------------------
(* Without faults.  What the consumers and the workers still do.            *)

StarterWork(c) ==
    \/ O!ReceiveStart(c) \/ O!CreateRow(c) \/ O!TriggerApplied(c) \/ O!TriggerNotApplied(c)
    \/ O!Ack(c)

HandlerWork(c) ==
    O!ReceiveResult(c) \/ O!CompleteNotApplied(c) \/ O!Fail(c) \/ O!CancelStep(c) \/ O!Ack(c)

WorkerWork(w) ==
    \/ W!Receive(w) \/ W!WorkDone(w) \/ W!WorkFails(w) \/ W!Commit(w) \/ W!RetryLater(w)
    \/ W!DeadLetter(w) \/ W!Ack(w) \/ W!AckDeadLettered(w) \/ W!FailStep(w)

(* No result advances anything, nothing is retried, and nobody is in the    *)
(* call of the publish worker.                                              *)
LEMMA WorkCases ==
    ASSUME WorkInv, [Work]_vars
    PROVE  \/ \E u \in Uploads : Relay(u)
           \/ \E c \in Starters : StarterWork(c) /\ UNCHANGED <<wprivate, relayed>>
           \/ \E c \in Starters : DispatchStep(c)
           \/ \E c \in Handlers : HandlerWork(c) /\ UNCHANGED <<wprivate, relayed>>
           \/ \E w \in W!WorkerIds : WorkerWork(w) /\ UNCHANGED <<overs, relayed>>
           \/ \E w \in W!WorkerIds, o \in O!Outcomes : Report(w, o)
           \/ UNCHANGED vars
<1>1. PipelineInv /\ O!IndInv /\ NothingRetried
  BY DEF WorkInv, PipelineInv
<1>2. ASSUME NEW c \in O!Consumers, OrchestratorWorks(c)
      PROVE  \/ c \in Starters /\ StarterWork(c) /\ UNCHANGED <<wprivate, relayed>>
             \/ c \in Handlers /\ HandlerWork(c) /\ UNCHANGED <<wprivate, relayed>>
  <2>1. O!Inner(c) /\ UNCHANGED <<wprivate, relayed>>
    BY <1>2 DEF OrchestratorWorks
  <2>2. ~O!RetryLater(c) /\ ~O!DeadLetter(c)
    BY <1>1 DEF NothingRetried, O!RetryLater, O!DeadLetter
  <2>3. /\ ~O!CompleteApplied(c) /\ ~O!Finish(c)
        /\ O!TriggerApplied(c) => c \in Starters
    BY <1>1, NothingCompletes
  <2>4. O!CreateRow(c) \/ O!TriggerNotApplied(c) => c \in Starters
    BY <1>1, ConsumerFields DEF O!CreateRow, O!TriggerNotApplied, O!At, PipelineInv, HandlersStop,
       O!Consumers
  <2>5. O!CompleteNotApplied(c) \/ O!Fail(c) \/ O!CancelStep(c) => c \in Handlers
    BY <1>1, ConsumerFields DEF O!CompleteNotApplied, O!Fail, O!CancelStep, O!At, O!Consumers
  <2>6. (O!ReceiveStart(c) => c \in Starters) /\ (O!ReceiveResult(c) => c \in Handlers)
    BY DEF O!ReceiveStart, O!ReceiveResult
  <2>7. QED
    BY <2>1, <2>2, <2>3, <2>4, <2>5, <2>6 DEF O!Inner, StarterWork, HandlerWork, O!Consumers
<1>3. ASSUME NEW c \in O!Consumers, DispatchStep(c)
      PROVE  c \in Starters
  BY <1>1, <1>3, NothingCompletes DEF DispatchStep
<1>4. ASSUME NEW w \in W!WorkerIds, WorkerWorks(w)
      PROVE  WorkerWork(w) /\ UNCHANGED <<overs, relayed>>
  <2>1. ~W!FailUpload(w)
    BY DEF WorkInv, OnlyInitialTravel, W!FailUpload, W!At
  <2>2. QED
    BY <1>4, <2>1 DEF WorkerWorks, W!Inner, WorkerWork
<1>5. QED
  BY <1>2, <1>3, <1>4 DEF Work

(* A starter's step. *)
LEMMA StarterNext ==
    ASSUME PipelineInv, NEW c \in Starters, StarterWork(c) \/ O!PublishStep(c)
    PROVE  /\ \A d \in O!Consumers \ {c} : job'[d] = job[d]
           /\ job'[c].pc \in {"idle", "create", "trigger", "publish", "ack"}
           /\ dlq' = dlq /\ status' = status
           /\ \A m \in O!ResultMsgs : inbox'[m] = inbox[m]
<1>1. /\ DOMAIN job = O!Consumers /\ c \in O!Consumers /\ inbox \in [O!Msgs -> Nat]
  BY DEF PipelineInv, O!IndInv, O!TypeOK, O!Consumers
<1>2. CASE O!ReceiveStart(c)
  <2>1. PICK n \in O!StartMsgs :
           /\ inbox' = O!Take(inbox, n)
           /\ job' = [job EXCEPT ![c] = O!NewJob("create", n)]
           /\ dlq' = dlq /\ status' = status
    BY <1>2 DEF O!ReceiveStart
  <2>2. \A m \in O!ResultMsgs : m # n
    BY <2>1 DEF O!ResultMsgs, O!StartMsgs
  <2>3. \A m \in O!ResultMsgs : inbox'[m] = inbox[m]
    BY <1>1, <2>1, <2>2 DEF O!Take, O!Msgs
  <2>4. QED
    BY <1>1, <2>1, <2>3 DEF O!NewJob
<1>3. CASE O!CreateRow(c) \/ O!TriggerApplied(c) \/ O!TriggerNotApplied(c) \/ O!PublishStep(c)
  <2>1. \E pc \in {"create", "trigger", "publish", "ack"} : \E k : O!Goto(c, pc, k)
    BY <1>3 DEF O!CreateRow, O!TriggerApplied, O!TriggerNotApplied, O!PublishStep, O!Return
  <2>2. UNCHANGED <<inbox, dlq, status>>
    BY <1>3 DEF O!CreateRow, O!TriggerApplied, O!TriggerNotApplied, O!PublishStep
  <2>3. QED
    BY <1>1, <2>1, <2>2 DEF O!Goto
<1>4. CASE O!Ack(c)
  BY <1>1, <1>4 DEF O!Ack, O!Release, O!Idle
<1>5. QED
  BY <1>2, <1>3, <1>4 DEF StarterWork

(* A handler's step. *)
LEMMA HandlerNext ==
    ASSUME PipelineInv, NEW c \in Handlers, HandlerWork(c)
    PROVE  /\ \A d \in O!Consumers \ {c} : job'[d] = job[d]
           /\ job'[c].pc \in {"idle", "complete", "fail", "cancel", "ack"}
           /\ dlq' = dlq
           /\ ~O!ReceiveResult(c) => inbox' = inbox
<1>1. DOMAIN job = O!Consumers /\ c \in O!Consumers
  BY DEF PipelineInv, O!IndInv, O!TypeOK, O!Consumers
<1>2. CASE O!ReceiveResult(c)
  <2>1. PICK n \in O!ResultMsgs, pc \in {"fail", "complete"} :
           job' = [job EXCEPT ![c] = O!NewJob(pc, n)]
    BY <1>2 DEF O!ReceiveResult
  <2>2. dlq' = dlq
    BY <1>2 DEF O!ReceiveResult
  <2>3. QED
    BY <1>1, <1>2, <2>1, <2>2 DEF O!NewJob
<1>3. CASE O!CompleteNotApplied(c) \/ O!Fail(c) \/ O!CancelStep(c)
  <2>1. \E pc \in {"cancel", "ack"} : \E k : O!Goto(c, pc, k)
    BY <1>3 DEF O!CompleteNotApplied, O!Fail, O!CancelStep, O!NextCancel
  <2>2. QED
    BY <1>1, <1>3, <2>1 DEF O!Goto, O!CompleteNotApplied, O!Fail, O!CancelStep
<1>4. CASE O!Ack(c)
  BY <1>1, <1>4 DEF O!Ack, O!Release, O!Idle
<1>5. QED
  BY <1>2, <1>3, <1>4 DEF HandlerWork

(* A worker's step: between its delivery and its last call it keeps its     *)
(* message.                                                                 *)
LEMMA WorkerNext ==
    ASSUME PipelineInv, NEW w \in W!WorkerIds,
           WorkerWork(w) \/ W!ReportDone(w) \/ W!ReportFailed(w)
    PROVE  /\ \A v \in W!WorkerIds \ {w} : wjob'[v] = wjob[v]
           /\ ~W!Receive(w) => /\ wjob[w].pc # "idle"
                               /\ wjob'[w].pc = "idle" \/ wjob'[w].msg = wjob[w].msg
           /\ status' = status
<1>1. W!TypeOK
  BY DEF PipelineInv, W!IndInv
<1>2. WP!TypeOK /\ w \in WP!WorkerIds
  BY <1>1, SameWorkers
<1>3. DOMAIN wjob = W!WorkerIds
  BY <1>1 DEF W!TypeOK
<1>4. wjob[w].pc # "idle" => wjob[w] \in WP!WorkerJobs
  BY <1>2, WP!JobFields, PipelineAssumption
<1>5. ASSUME wjob[w].pc # "idle", NEW pc, W!Goto(w, pc)
      PROVE  wjob'[w].msg = wjob[w].msg /\ \A v \in W!WorkerIds \ {w} : wjob'[v] = wjob[v]
  BY <1>3, <1>4, <1>5 DEF W!Goto, WP!WorkerJobs
<1>6. ASSUME W!Release(w)
      PROVE  wjob'[w].pc = "idle" /\ \A v \in W!WorkerIds \ {w} : wjob'[v] = wjob[v]
  BY <1>3, <1>6 DEF W!Release, W!Idle
<1>7. CASE W!Receive(w)
  BY <1>3, <1>7 DEF W!Receive
<1>8. CASE W!FailStep(w)
  <2>1. wjob[w].pc # "idle" /\ status' = status /\ ~W!Receive(w)
    BY <1>8 DEF W!FailStep, W!Receive, W!At
  <2>2. CASE W!Release(w)
    BY <1>6, <2>1, <2>2
  <2>3. CASE \E a, pc : wjob' = [wjob EXCEPT ![w].applied = a, ![w].pc = pc]
    <3>1. PICK a, pc : wjob' = [wjob EXCEPT ![w].applied = a, ![w].pc = pc]
      BY <2>3
    <3>2. wjob'[w].msg = wjob[w].msg
      BY <1>3, <1>4, <2>1, <3>1 DEF WP!WorkerJobs
    <3>3. QED
      BY <1>3, <2>1, <3>1, <3>2
  <2>4. QED
    BY <1>8, <2>2, <2>3 DEF W!FailStep
<1>9. CASE \/ W!WorkDone(w) \/ W!WorkFails(w) \/ W!Commit(w) \/ W!RetryLater(w)
           \/ W!DeadLetter(w) \/ W!Ack(w) \/ W!AckDeadLettered(w) \/ W!ReportDone(w)
           \/ W!ReportFailed(w)
  <2>1. wjob[w].pc # "idle" /\ status' = status /\ ~W!Receive(w)
    BY <1>9 DEF W!WorkDone, W!WorkFails, W!Commit, W!RetryLater, W!DeadLetter, W!Ack,
       W!AckDeadLettered, W!ReportDone, W!ReportFailed, W!Receive, W!At
  <2>2. W!Release(w) \/ \E pc : W!Goto(w, pc)
    BY <1>9 DEF W!WorkDone, W!WorkFails, W!Commit, W!RetryLater, W!DeadLetter, W!Ack,
       W!AckDeadLettered, W!ReportDone, W!ReportFailed
  <2>3. QED
    BY <1>5, <1>6, <2>1, <2>2
<1>10. QED
  BY <1>7, <1>8, <1>9 DEF WorkerWork

(* What can happen to a row, and who does it. *)
LEMMA RowChanges ==
    ASSUME WorkInv, [Work]_vars, NEW u \in Uploads, NEW s \in O!Steps,
           steps'[u][s] # steps[u][s]
    PROVE  \/ steps[u][s] = "absent" /\ steps'[u][s] = "pending"
           \/ /\ steps[u][s] = "pending" /\ steps'[u][s] = "processing"
              /\ \E c \in Starters : /\ O!TriggerApplied(c)
                                     /\ job[c].msg.upload = u /\ O!Target(job[c]) = s
           \/ /\ steps[u][s] \in {"pending", "processing"} /\ steps'[u][s] = "canceled"
              /\ \E c \in Handlers : O!CancelStep(c) /\ job[c].msg.upload = u
           \/ steps[u][s] = "processing" /\ steps'[u][s] = "done"
           \/ /\ steps[u][s] = "processing" /\ steps'[u][s] = "failed"
              /\ \E w \in W!WorkerIds : /\ W!FailStep(w) /\ W!Applies(W!RowOf(wjob[w].msg), "failed")
                                        /\ wjob[w].msg.upload = u /\ wjob[w].msg.step = s
<1>1. /\ PipelineInv /\ O!IndInv /\ W!IndInv
      /\ steps \in [Uploads -> [O!Steps -> O!RowStates]]
  BY DEF WorkInv, PipelineInv, O!IndInv, O!TypeOK
<1>2. ASSUME NEW v, NEW r, NEW row, steps' = [steps EXCEPT ![v][r] = row]
      PROVE  v = u /\ r = s /\ steps'[u][s] = row
  BY <1>1, <1>2
<1>3. ASSUME NEW c \in O!Consumers, O!CreateRow(c)
      PROVE  steps[u][s] = "absent" /\ steps'[u][s] = "pending"
  <2>1. steps'[u][s] = O!Insert(steps[u][s])
    BY <1>2, <1>3 DEF O!CreateRow, O!SetRow, O!Row
  <2>2. QED
    BY <2>1 DEF O!Insert
<1>4. ASSUME NEW c \in Starters, O!TriggerApplied(c)
      PROVE  /\ steps[u][s] = "pending" /\ steps'[u][s] = "processing"
             /\ job[c].msg.upload = u /\ O!Target(job[c]) = s
  <2>1. steps' = [steps EXCEPT ![job[c].msg.upload][O!Target(job[c])] = "processing"]
    BY <1>4 DEF O!TriggerApplied, O!SetRow
  <2>2. job[c].msg.upload = u /\ O!Target(job[c]) = s /\ steps'[u][s] = "processing"
    BY <1>2, <2>1
  <2>3. QED
    BY <1>4, <2>2 DEF O!TriggerApplied, O!Applies, O!Allowed, O!Row
<1>5. ASSUME NEW c \in Handlers, O!CancelStep(c)
      PROVE  /\ steps[u][s] \in {"pending", "processing"} /\ steps'[u][s] = "canceled"
             /\ job[c].msg.upload = u
  <2> DEFINE v == job[c].msg.upload
             r == O!pipelineSteps[job[c].k]
  <2>1. steps' = [steps EXCEPT ![v][r] = O!Update(O!Row(v, r), "canceled")]
    BY <1>5 DEF O!CancelStep, O!SetRow
  <2>2. v = u /\ r = s /\ steps'[u][s] = O!Update(O!Row(v, r), "canceled")
    BY <1>2, <2>1
  <2>3. QED
    BY <2>2 DEF O!Update, O!Applies, O!Allowed, O!Row
<1>6. ASSUME NEW w \in W!WorkerIds, W!Commit(w)
      PROVE  steps[u][s] = "processing" /\ steps'[u][s] = "done"
  <2>1. W!Applies(W!RowOf(wjob[w].msg), "done") /\ W!SetRowOf(wjob[w].msg, "done")
    BY <1>6 DEF W!Commit
  <2>2. /\ wjob[w].msg.upload = u /\ wjob[w].msg.step = s /\ steps'[u][s] = "done"
    BY <1>2, <2>1 DEF W!SetRowOf
  <2>3. QED
    BY <2>1, <2>2 DEF W!Applies, W!Allowed, W!RowOf
<1>7. ASSUME NEW w \in W!WorkerIds, W!FailStep(w)
      PROVE  /\ steps[u][s] = "processing" /\ steps'[u][s] = "failed"
             /\ W!Applies(W!RowOf(wjob[w].msg), "failed")
             /\ wjob[w].msg.upload = u /\ wjob[w].msg.step = s
  <2>1. W!SetRowOf(wjob[w].msg, W!Update(W!RowOf(wjob[w].msg), "failed"))
    BY <1>7 DEF W!FailStep
  <2>2. /\ wjob[w].msg.upload = u /\ wjob[w].msg.step = s
        /\ steps'[u][s] = W!Update(W!RowOf(wjob[w].msg), "failed")
    BY <1>2, <2>1 DEF W!SetRowOf
  <2>3. QED
    BY <2>2 DEF W!Update, W!Applies, W!Allowed, W!RowOf
<1>8. CASE \E c \in Starters : StarterWork(c)
  BY <1>3, <1>4, <1>8 DEF StarterWork, O!ReceiveStart, O!TriggerNotApplied, O!Ack, O!Consumers
<1>9. CASE \E c \in Handlers : HandlerWork(c)
  BY <1>5, <1>9 DEF HandlerWork, O!ReceiveResult, O!CompleteNotApplied, O!Fail, O!Ack
<1>10. CASE \E w \in W!WorkerIds : WorkerWork(w)
  BY <1>6, <1>7, <1>10 DEF WorkerWork, W!Receive, W!WorkDone, W!WorkFails, W!RetryLater,
     W!DeadLetter, W!Ack, W!AckDeadLettered
<1>11. CASE UNCHANGED steps
  BY <1>11
<1>12. QED
  BY <1>8, <1>9, <1>10, <1>11, WorkCases DEF Relay, O!EventArrives, DispatchStep, O!PublishStep,
     Report, W!ReportDone, W!ReportFailed, vars

(* A settled row stays, and so does a row that exists. *)
LEMMA SettledStays ==
    ASSUME WorkInv, [Work]_vars, NEW u \in Uploads, NEW s \in O!Steps
    PROVE  /\ steps[u][s] \in O!Terminal => steps'[u][s] = steps[u][s]
           /\ steps[u][s] # "absent" => steps'[u][s] # "absent"
BY RowChanges DEF O!Terminal

(* Only a handler's UpdateUploadStatus(failed) moves an upload's status. *)
LEMMA StatusChanges ==
    ASSUME WorkInv, [Work]_vars, NEW u \in Uploads, status'[u] # status[u]
    PROVE  /\ status'[u] = "failed"
           /\ \E c \in Handlers : O!Fail(c) /\ job[c].msg.upload = u
<1>1. PipelineInv /\ status \in [Uploads -> O!UploadStatuses]
  BY DEF WorkInv, PipelineInv, O!IndInv, O!TypeOK
<1>2. CASE \E c \in Handlers : HandlerWork(c)
  <2>1. PICK c \in Handlers : HandlerWork(c)
    BY <1>2
  <2>2. O!Fail(c)
    BY <2>1 DEF HandlerWork, O!ReceiveResult, O!CompleteNotApplied, O!CancelStep, O!Ack
  <2>3. status' = [status EXCEPT ![job[c].msg.upload] = "failed"]
    BY <2>2 DEF O!Fail
  <2>4. QED
    BY <1>1, <2>2, <2>3
<1>3. CASE status' = status
  BY <1>3
<1>4. CASE \E c \in Starters : StarterWork(c) \/ DispatchStep(c)
  BY <1>1, <1>3, <1>4, StarterNext DEF DispatchStep
<1>5. CASE \E w \in W!WorkerIds : WorkerWork(w) \/ \E o \in O!Outcomes : Report(w, o)
  BY <1>1, <1>3, <1>5, WorkerNext DEF Report
<1>6. QED
  BY <1>2, <1>3, <1>4, <1>5, WorkCases DEF Relay, O!EventArrives, vars

(* An upload with a failed row has all its rows. *)
LEMMA FailedIsCreated ==
    ASSUME PipelineInv, NEW u \in Uploads, NEW s \in O!Steps, steps[u][s] = "failed"
    PROVE  \A r \in O!Steps : steps[u][r] # "absent"
BY DEF PipelineInv, O!LaunchInv, O!EnteredMeansCreated, O!Created, O!Row, O!Entered

(* Whoever was not moved by the step is where he was. *)
LEMMA WhoMoves ==
    ASSUME WorkInv, [Work]_vars
    PROVE  /\ \A c \in Starters : \/ job'[c] = job[c]
                                  \/ StarterWork(c) /\ UNCHANGED <<wprivate, relayed>>
                                  \/ DispatchStep(c)
           /\ \A c \in Handlers : \/ job'[c] = job[c]
                                  \/ HandlerWork(c) /\ UNCHANGED <<wprivate, relayed>>
           /\ \A w \in W!WorkerIds : \/ wjob'[w] = wjob[w]
                                     \/ WorkerWork(w) /\ UNCHANGED <<overs, relayed>>
                                     \/ \E o \in O!Outcomes : Report(w, o)
<1>1. PipelineInv /\ Starters \cap Handlers = {}
  BY PipelineAssumption DEF WorkInv
<1>2. CASE \E c \in Starters : \/ StarterWork(c) /\ UNCHANGED <<wprivate, relayed>>
                               \/ DispatchStep(c)
  <2>1. PICK c \in Starters : \/ StarterWork(c) /\ UNCHANGED <<wprivate, relayed>>
                              \/ DispatchStep(c)
    BY <1>2
  <2>2. \A d \in O!Consumers \ {c} : job'[d] = job[d]
    BY <1>1, <2>1, StarterNext DEF DispatchStep
  <2>3. wjob' = wjob
    BY <2>1 DEF DispatchStep, wprivate
  <2>4. QED
    BY <1>1, <2>1, <2>2, <2>3 DEF O!Consumers
<1>3. CASE \E c \in Handlers : HandlerWork(c) /\ UNCHANGED <<wprivate, relayed>>
  <2>1. PICK c \in Handlers : HandlerWork(c) /\ UNCHANGED <<wprivate, relayed>>
    BY <1>3
  <2>2. \A d \in O!Consumers \ {c} : job'[d] = job[d]
    BY <1>1, <2>1, HandlerNext
  <2>3. QED
    BY <1>1, <2>1, <2>2 DEF O!Consumers, wprivate
<1>4. CASE \E w \in W!WorkerIds : \/ WorkerWork(w) /\ UNCHANGED <<overs, relayed>>
                                  \/ \E o \in O!Outcomes : Report(w, o)
  <2>1. PICK w \in W!WorkerIds : \/ WorkerWork(w) /\ UNCHANGED <<overs, relayed>>
                                 \/ \E o \in O!Outcomes : Report(w, o)
    BY <1>4
  <2>2. \A v \in W!WorkerIds \ {w} : wjob'[v] = wjob[v]
    BY <1>1, <2>1, WorkerNext DEF Report
  <2>3. job' = job
    BY <2>1 DEF Report, overs
  <2>4. QED
    BY <2>1, <2>2, <2>3
<1>5. CASE UNCHANGED <<job, wjob>>
  BY <1>5
<1>6. QED
  BY <1>2, <1>3, <1>4, <1>5, WorkCases DEF Relay, O!EventArrives, wprivate, vars, overs

LEMMA NothingRetriedStep ==
    ASSUME WorkInv, [Work]_vars
    PROVE  NothingRetried'
<1>1. PipelineInv /\ NothingRetried
  BY DEF WorkInv
<1>2. \A c \in O!Consumers : job'[c].pc # "retry"
  <2>1. \A c \in Starters : StarterWork(c) \/ O!PublishStep(c) => job'[c].pc # "retry"
    BY <1>1, StarterNext
  <2>2. \A c \in Handlers : HandlerWork(c) => job'[c].pc # "retry"
    BY <1>1, HandlerNext
  <2>3. QED
    BY <1>1, <2>1, <2>2, WhoMoves DEF NothingRetried, O!At, O!Consumers, DispatchStep
<1>3. dlq' = dlq
  <2>1. \A c \in Starters : StarterWork(c) \/ O!PublishStep(c) => dlq' = dlq
    BY <1>1, StarterNext
  <2>2. \A c \in Handlers : HandlerWork(c) => dlq' = dlq
    BY <1>1, HandlerNext
  <2>3. QED
    BY <2>1, <2>2, WorkCases DEF DispatchStep, Relay, O!EventArrives, Report, overs, vars
<1>4. QED
  BY <1>1, <1>2, <1>3 DEF NothingRetried, O!At

(* Only the dispatcher's relay adds an upload; until it is launched a start *)
(* event of it stays.                                                       *)
LEMMA RelayedIsKeptStep ==
    ASSUME WorkInv, [Work]_vars
    PROVE  RelayedIsKept'
<1>1. /\ PipelineInv /\ O!IndInv /\ O!LaunchInv /\ W!IndInv
      /\ [Next]_vars
  BY DEF WorkInv, PipelineInv, Next
<1>2. ASSUME NEW u \in Uploads, Relay(u)
      PROVE  O!StartKept(u)'
  <2> DEFINE e == [kind |-> "start", upload |-> u, attempt |-> 0]
  <2>1. e \in O!StartMsgs /\ e \in O!Msgs /\ e.upload = u
    BY <1>2, PipelineAssumption DEF O!StartMsgs, O!Msgs, O!Attempts
  <2>2. inbox \in [O!Msgs -> Nat]
    BY <1>1 DEF O!IndInv, O!TypeOK
  <2>3. inbox' = O!Put(inbox, e)
    BY <1>2 DEF Relay, O!EventArrives
  <2>4. inbox'[e] = inbox[e] + 1 /\ inbox[e] \in Nat
    BY <2>1, <2>2, <2>3 DEF O!Put
  <2>5. inbox'[e] > 0
    BY <2>4
  <2>6. QED
    BY <2>1, <2>5 DEF O!StartKept
<1>3. ASSUME NEW u \in Uploads, u \in relayed
      PROVE  O!StartKept(u)' \/ O!Launched(u)'
  <2>1. OP!IndInv /\ OP!LaunchInv /\ [OP!Next]_OP!vars
    BY <1>1, StepIsOrchestrators, SameOrchestrator
  <2>2. OP!RowsStand /\ OP!StartsStand
    BY <2>1, OP!StepStands, PipelineAssumption
  <2>3. /\ O!StartKept(u) <=> OP!StartKept(u)
        /\ O!StartKept(u)' <=> OP!StartKept(u)'
        /\ O!Launched(u) <=> OP!Launched(u)
        /\ O!Launched(u)' <=> OP!Launched(u)'
    BY DEF O!StartKept, OP!StartKept, O!Launched, OP!Launched, O!StartMsgs, OP!StartMsgs,
       O!Attempts, OP!Attempts, O!Row, OP!Row, O!initialSteps, OP!initialSteps,
       O!LetsGo, OP!LetsGo, O!At, OP!At
  <2>4. OP!Launched(u) => OP!Launched(u)'
    BY <1>3, <2>2, OP!CreatedStands, PipelineAssumption
  <2>5. OP!StartKept(u) => OP!StartKept(u)' \/ OP!Launched(u)'
    BY <1>3, <2>2 DEF OP!StartsStand
  <2>6. O!StartKept(u) \/ O!Launched(u)
    BY <1>3 DEF WorkInv, RelayedIsKept
  <2>7. QED
    BY <2>3, <2>4, <2>5, <2>6
<1>4. relayed \subseteq Uploads
  BY DEF WorkInv, RelayedIsKept
<1>5. CASE \E v \in Uploads : Relay(v)
  <2>1. PICK v \in Uploads : Relay(v)
    BY <1>5
  <2>2. relayed' = relayed \cup {v}
    BY <2>1 DEF Relay
  <2>3. O!StartKept(v)'
    BY <1>2, <2>1
  <2>4. \A u \in relayed : O!StartKept(u)' \/ O!Launched(u)'
    BY <1>3, <1>4
  <2>5. QED
    BY <1>4, <2>2, <2>3, <2>4 DEF RelayedIsKept
<1>6. CASE relayed' = relayed
  <2>1. \A u \in relayed : O!StartKept(u)' \/ O!Launched(u)'
    BY <1>3, <1>4
  <2>2. QED
    BY <1>4, <1>6, <2>1 DEF RelayedIsKept
<1>7. QED
  BY <1>5, <1>6, WorkCases DEF DispatchStep, Report, vars

(* A message of a worker that starts it over has a place in the queue. *)
LEMMA QueuedAgain ==
    ASSUME PipelineInv, NEW m \in W!StepMsgs, stepQ' = W!Put(stepQ, m)
    PROVE  stepQ'[m] > 0 /\ \A n \in W!StepMsgs : stepQ'[n] > 0 <=> n = m \/ stepQ[n] > 0
<1>1. stepQ \in [W!StepMsgs -> Nat]
  BY DEF PipelineInv, W!IndInv, W!TypeOK
<1>2. stepQ'[m] = stepQ[m] + 1 /\ stepQ[m] \in Nat
  BY <1>1 DEF W!Put
<1>3. QED
  BY <1>1, <1>2 DEF W!Put

(* The message a consumer dispatches, and the one a worker starts over. *)
LEMMA DispatchedMsg ==
    ASSUME PipelineInv, NEW c \in O!Consumers, DispatchStep(c)
    PROVE  LET m == [upload |-> job[c].msg.upload, step |-> O!Target(job[c]), attempt |-> 0]
           IN  m \in W!StepMsgs /\ stepQ' = W!Put(stepQ, m)
<1>1. job[c].pc = "publish"
  BY DEF DispatchStep, O!PublishStep, O!At
<1>2. job[c].msg.upload \in Uploads /\ O!Target(job[c]) \in W!Steps
  BY <1>1, ConsumerFields, Tables DEF PipelineInv
<1>3. QED
  BY <1>2, PipelineAssumption DEF DispatchStep, W!StepMsgs, W!Attempts

LEMMA RetriedMsg ==
    ASSUME PipelineInv, NEW w \in W!WorkerIds, W!RetryLater(w)
    PROVE  LET m == W!Again(wjob[w].msg)
           IN  /\ m \in W!StepMsgs /\ stepQ' = W!Put(stepQ, m)
               /\ m.upload = wjob[w].msg.upload /\ m.step = wjob[w].msg.step
<1>1. WP!TypeOK /\ w \in WP!WorkerIds
  BY SameWorkers DEF PipelineInv, W!IndInv
<1>2. wjob[w].msg \in WP!StepMsgs
  BY <1>1, WP!JobFields, PipelineAssumption DEF W!RetryLater, W!At
<1>3. wjob[w].msg \in W!StepMsgs
  BY <1>2 DEF W!StepMsgs, WP!StepMsgs, W!Steps, WP!Steps, W!Attempts, WP!Attempts
<1>4. wjob[w].msg.attempt + 1 \leq MaxRetries
  BY <1>3, PipelineAssumption DEF W!RetryLater, W!Exhausted, W!StepMsgs, W!Attempts
<1>5. QED
  BY <1>3, <1>4, PipelineAssumption DEF W!RetryLater, W!StepMsgs, W!Attempts, W!Again

(* A step message stays queued until a worker takes it. *)
LEMMA QueuedOrTaken ==
    ASSUME WorkInv, [Work]_vars, NEW m \in W!StepMsgs, stepQ[m] > 0
    PROVE  \/ stepQ'[m] > 0
           \/ \E w \in W!WorkerIds : wjob'[w].pc = "work" /\ wjob'[w].msg = m
<1>1. PipelineInv /\ stepQ \in [W!StepMsgs -> Nat] /\ DOMAIN wjob = W!WorkerIds
  BY DEF WorkInv, PipelineInv, W!IndInv, W!TypeOK
<1>2. ASSUME NEW c \in Starters, DispatchStep(c)
      PROVE  stepQ'[m] > 0
  BY <1>1, <1>2, DispatchedMsg, QueuedAgain DEF O!Consumers
<1>3. ASSUME NEW w \in W!WorkerIds, W!RetryLater(w)
      PROVE  stepQ'[m] > 0
  BY <1>1, <1>3, RetriedMsg, QueuedAgain
<1>4. ASSUME NEW w \in W!WorkerIds, W!Receive(w)
      PROVE  stepQ'[m] > 0 \/ (wjob'[w].pc = "work" /\ wjob'[w].msg = m)
  <2>1. PICK n \in W!StepMsgs :
           /\ stepQ' = W!Take(stepQ, n)
           /\ wjob' = [wjob EXCEPT ![w] = W!NewJob(n)]
    BY <1>4 DEF W!Receive
  <2>2. CASE m = n
    BY <1>1, <2>1, <2>2 DEF W!NewJob
  <2>3. CASE m # n
    BY <1>1, <2>1, <2>3 DEF W!Take
  <2>4. QED
    BY <2>2, <2>3
<1>5. CASE stepQ' = stepQ
  BY <1>5
<1>6. ASSUME NEW w \in W!WorkerIds, WorkerWork(w) \/ \E o \in O!Outcomes : Report(w, o)
      PROVE  W!RetryLater(w) \/ W!Receive(w) \/ stepQ' = stepQ
  BY <1>6 DEF WorkerWork, W!WorkDone, W!WorkFails, W!Commit, W!DeadLetter, W!Ack,
     W!AckDeadLettered, W!FailStep, Report, W!ReportDone, W!ReportFailed
<1>7. QED
  BY <1>2, <1>3, <1>4, <1>5, <1>6, WorkCases DEF Relay, wprivate, vars

(* A row stays with whoever is to settle it: the trigger that moved it      *)
(* publishes its step, the message reaches a worker, and the worker keeps   *)
(* it, or queues it again, until it has settled the row.                    *)
LEMMA ProcessingIsHeldStep ==
    ASSUME WorkInv, [Work]_vars
    PROVE  ProcessingIsHeld'
<1> SUFFICES ASSUME NEW u \in Uploads, NEW s \in O!Steps, steps'[u][s] = "processing"
             PROVE  \/ \E c \in O!Consumers :
                          /\ job'[c].pc = "publish" /\ job'[c].msg.upload = u
                          /\ O!Target(job'[c]) = s
                    \/ \E m \in W!StepMsgs : m.upload = u /\ m.step = s /\ stepQ'[m] > 0
                    \/ \E w \in W!WorkerIds :
                          /\ wjob'[w].pc \in {"work", "commit", "retry", "ackdlq", "failstep"}
                          /\ wjob'[w].msg.upload = u /\ wjob'[w].msg.step = s
  BY DEF ProcessingIsHeld, Working, O!At, O!Target
<1>1. PipelineInv /\ DOMAIN job = O!Consumers /\ O!IndInv
  BY DEF WorkInv, PipelineInv, O!IndInv, O!TypeOK
<1>2. CASE steps[u][s] # "processing"
  <2>1. PICK c \in Starters : /\ O!TriggerApplied(c)
                              /\ job[c].msg.upload = u /\ O!Target(job[c]) = s
    BY <1>2, RowChanges
  <2>2. O!Goto(c, "publish", job[c].k)
    BY <2>1 DEF O!TriggerApplied
  <2>3. /\ job'[c].pc = "publish" /\ job'[c].msg = job[c].msg /\ job'[c].k = job[c].k
    BY <1>1, <2>2 DEF O!Consumers, O!Goto
  <2>4. O!Target(job'[c]) = O!Target(job[c])
    BY <2>3 DEF O!Target
  <2>5. QED
    BY <2>1, <2>3, <2>4 DEF O!Consumers
<1>3. CASE \E c \in O!Consumers :
              job[c].pc = "publish" /\ job[c].msg.upload = u /\ O!Target(job[c]) = s
  <2>1. PICK c \in O!Consumers :
           job[c].pc = "publish" /\ job[c].msg.upload = u /\ O!Target(job[c]) = s
    BY <1>3
  <2>2. CASE job'[c] = job[c]
    BY <2>1, <2>2
  <2>3. CASE DispatchStep(c)
    <3>1. PICK m \in W!StepMsgs : m.upload = u /\ m.step = s /\ stepQ' = W!Put(stepQ, m)
      BY <1>1, <2>1, <2>3, DispatchedMsg
    <3>2. QED
      BY <1>1, <3>1, QueuedAgain
  <2>4. ~StarterWork(c) /\ ~HandlerWork(c)
    BY <2>1 DEF StarterWork, HandlerWork, O!ReceiveStart, O!CreateRow, O!TriggerApplied,
       O!TriggerNotApplied, O!Ack, O!ReceiveResult, O!CompleteNotApplied, O!Fail, O!CancelStep,
       O!At
  <2>5. QED
    BY <2>2, <2>3, <2>4, WhoMoves DEF O!Consumers
<1>4. CASE \E m \in W!StepMsgs : m.upload = u /\ m.step = s /\ stepQ[m] > 0
  BY <1>4, QueuedOrTaken
<1>5. CASE /\ steps[u][s] = "processing"
           /\ \E w \in W!WorkerIds :
                 Working(w) /\ wjob[w].msg.upload = u /\ wjob[w].msg.step = s
  <2>1. PICK w \in W!WorkerIds : Working(w) /\ wjob[w].msg.upload = u /\ wjob[w].msg.step = s
    BY <1>5
  <2>2. CASE wjob'[w] = wjob[w]
    BY <2>1, <2>2 DEF Working
  <2>3. CASE W!RetryLater(w)
    BY <1>1, <2>1, <2>3, RetriedMsg, QueuedAgain
  <2>4. ~W!Commit(w) /\ ~W!FailStep(w)
    <3>1. W!Applies(W!RowOf(wjob[w].msg), "done") /\ W!Applies(W!RowOf(wjob[w].msg), "failed")
      BY <1>5, <2>1 DEF W!Applies, W!Allowed, W!RowOf
    <3>2. ASSUME NEW row, row # "processing", W!SetRowOf(wjob[w].msg, row)
          PROVE  FALSE
      <4>1. steps' = [steps EXCEPT ![u][s] = row]
        BY <2>1, <3>2 DEF W!SetRowOf
      <4>2. steps'[u][s] = row
        BY <1>1, <4>1 DEF O!IndInv, O!TypeOK
      <4>3. QED
        BY <3>2, <4>2
    <3>3. ~W!Commit(w)
      BY <3>1, <3>2 DEF W!Commit
    <3>4. ~W!FailStep(w)
      BY <3>1, <3>2 DEF W!FailStep, W!Update
    <3>5. QED
      BY <3>3, <3>4
  <2>5. CASE W!WorkDone(w) \/ W!WorkFails(w) \/ W!DeadLetter(w) \/ W!AckDeadLettered(w)
    <3>1. \E pc \in {"commit", "retry", "ackdlq", "failstep"} : W!Goto(w, pc)
      BY <2>5 DEF W!WorkDone, W!WorkFails, W!DeadLetter, W!AckDeadLettered
    <3>2. wjob'[w].pc \in {"commit", "retry", "ackdlq", "failstep"}
      BY <1>1, <3>1 DEF W!Goto, PipelineInv, W!IndInv, W!TypeOK
    <3>3. wjob'[w].msg = wjob[w].msg
      BY <1>1, <2>5, <3>2, WorkerNext DEF WorkerWork, W!Receive, W!WorkDone, W!WorkFails,
         W!DeadLetter, W!AckDeadLettered, W!At
    <3>4. QED
      BY <2>1, <3>2, <3>3
  <2>6. ~W!Receive(w) /\ ~W!Ack(w) /\ \A o \in O!Outcomes : ~Report(w, o)
    BY <2>1 DEF Working, W!Receive, W!Ack, Report, W!ReportDone, W!ReportFailed, W!At
  <2>7. QED
    BY <2>2, <2>3, <2>4, <2>5, <2>6, WhoMoves DEF WorkerWork
<1>6. QED
  BY <1>2, <1>3, <1>4, <1>5 DEF WorkInv, ProcessingIsHeld, O!At

(* The loop over pipelineSteps passes every row, and settles what it finds. *)
LEMMA CancelLoop ==
    /\ \A s \in O!Steps : \E i \in 1..5 : O!pipelineSteps[i] = s
    /\ Len(O!pipelineSteps) = 5
    /\ \A row \in O!RowStates \ {"absent"} : O!Update(row, "canceled") \in O!Terminal
BY DEF O!Steps, O!pipelineSteps, O!RowStates, O!Update, O!Applies, O!Allowed, O!Terminal

(* One turn of it. *)
LEMMA CancelTurn ==
    ASSUME WorkInv, [Work]_vars, NEW c \in Handlers, O!CancelStep(c)
    PROVE  /\ Canceling(c) /\ job[c].k \in 1..5 /\ job[c].msg.upload \in Uploads
           /\ status' = status
           /\ \A i \in 1..5 : i \leq job[c].k =>
                 steps'[job[c].msg.upload][O!pipelineSteps[i]] \in O!Terminal
<1> DEFINE u == job[c].msg.upload
<1>1. PipelineInv /\ O!IndInv /\ c \in O!Consumers
  BY DEF WorkInv, PipelineInv, O!Consumers
<1>2. /\ job[c].pc = "cancel" /\ status' = status
      /\ steps' = [steps EXCEPT ![u][O!pipelineSteps[job[c].k]] =
                       O!Update(O!Row(u, O!pipelineSteps[job[c].k]), "canceled")]
  BY DEF O!CancelStep, O!At, O!SetRow
<1>3. u \in Uploads /\ job[c].k \in 1..5
  BY <1>1, <1>2, ConsumerFields
<1>4. Canceling(c)
  BY <1>2 DEF WorkInv, FailureHasCause, O!At
<1>5. \A s \in O!Steps : steps[u][s] # "absent" /\ steps[u][s] \in O!RowStates
  <2>1. \E s \in O!Steps : steps[u][s] = "failed"
    BY <1>3, <1>4 DEF WorkInv, FailureHasCause, Canceling
  <2>2. \A s \in O!Steps : steps[u][s] # "absent"
    BY <1>1, <1>3, <2>1, FailedIsCreated
  <2>3. QED
    BY <1>1, <1>3, <2>2 DEF O!IndInv, O!TypeOK
<1>6. \A i \in 1..5 : O!pipelineSteps[i] \in O!Steps
  BY Tables
<1>7. steps'[u][O!pipelineSteps[job[c].k]] \in O!Terminal
  <2>1. steps'[u][O!pipelineSteps[job[c].k]] =
           O!Update(steps[u][O!pipelineSteps[job[c].k]], "canceled")
    BY <1>1, <1>2, <1>3, <1>6 DEF O!IndInv, O!TypeOK, O!Row
  <2>2. QED
    BY <1>3, <1>5, <1>6, <2>1, CancelLoop
<1>8. ASSUME NEW i \in 1..5, i \leq job[c].k
      PROVE  steps'[u][O!pipelineSteps[i]] \in O!Terminal
  <2>1. CASE i = job[c].k
    BY <1>7, <2>1
  <2>2. CASE i # job[c].k
    <3>1. i < job[c].k
      BY <1>3, <1>8, <2>2
    <3>2. steps[u][O!pipelineSteps[i]] \in O!Terminal
      BY <1>4, <3>1 DEF Canceling
    <3>3. QED
      BY <1>3, <1>6, <3>2, SettledStays
  <2>3. QED
    BY <2>1, <2>2
<1>9. QED
  BY <1>2, <1>3, <1>4, <1>8

(* A handler that is in the cancel loop after a step has settled the rows   *)
(* before its index, in an upload that is marked failed.                    *)
LEMMA CancelingStep ==
    ASSUME WorkInv, [Work]_vars, NEW c \in Handlers, job'[c].pc = "cancel"
    PROVE  Canceling(c)'
<1>1. /\ PipelineInv /\ O!IndInv /\ c \in O!Consumers /\ DOMAIN job = O!Consumers
      /\ status \in [Uploads -> O!UploadStatuses]
  BY DEF WorkInv, PipelineInv, O!IndInv, O!TypeOK, O!Consumers
<1>2. CASE job'[c] = job[c]
  <2> DEFINE u == job[c].msg.upload
  <2>1. Canceling(c) /\ u \in Uploads
    BY <1>1, <1>2, ConsumerFields DEF WorkInv, FailureHasCause, O!At
  <2>2. status'[u] = "failed"
    BY <2>1, StatusChanges DEF Canceling
  <2>3. \A i \in 1..5 : i < job[c].k => steps'[u][O!pipelineSteps[i]] \in O!Terminal
    BY <2>1, SettledStays, Tables DEF Canceling
  <2>4. QED
    BY <1>2, <2>2, <2>3 DEF Canceling, O!At
<1>3. CASE O!Fail(c)
  <2> DEFINE u == job[c].msg.upload
  <2>1. job[c].pc = "fail" /\ status' = [status EXCEPT ![u] = "failed"]
        /\ O!Goto(c, "cancel", 1)
    BY <1>3 DEF O!Fail, O!At
  <2>2. u \in Uploads
    BY <1>1, <2>1, ConsumerFields
  <2>3. status'[u] = "failed" /\ job'[c].msg.upload = u /\ job'[c].k = 1
    BY <1>1, <2>1, <2>2 DEF O!Goto
  <2>4. \A i \in 1..5 : ~(i < job'[c].k)
    BY <2>3
  <2>5. QED
    BY <2>3, <2>4 DEF Canceling, O!At
<1>4. CASE O!CancelStep(c)
  <2> DEFINE u == job[c].msg.upload
  <2>1. /\ Canceling(c) /\ job[c].k \in 1..5 /\ u \in Uploads /\ status' = status
        /\ \A i \in 1..5 : i \leq job[c].k => steps'[u][O!pipelineSteps[i]] \in O!Terminal
    BY <1>4, CancelTurn
  <2>2. O!Goto(c, "cancel", job[c].k + 1)
    <3>1. O!Goto(c, "cancel", job[c].k + 1) \/ O!Goto(c, "ack", 1)
      BY <1>4 DEF O!CancelStep, O!NextCancel
    <3>2. ~O!Goto(c, "ack", 1)
      BY <1>1 DEF O!Goto
    <3>3. QED
      BY <3>1, <3>2
  <2>3. job'[c].msg = job[c].msg /\ job'[c].k = job[c].k + 1
    BY <1>1, <2>2 DEF O!Goto
  <2>4. \A i \in 1..5 : i < job'[c].k => steps'[u][O!pipelineSteps[i]] \in O!Terminal
    BY <2>1, <2>3
  <2>5. QED
    BY <2>1, <2>3, <2>4 DEF Canceling, O!At
<1>5. ~O!ReceiveResult(c) /\ ~O!CompleteNotApplied(c) /\ ~O!Ack(c)
  BY <1>1 DEF O!ReceiveResult, O!NewJob, O!CompleteNotApplied, O!Ack, O!Goto, O!Release, O!Idle
<1>6. QED
  BY <1>2, <1>3, <1>4, <1>5, WhoMoves DEF HandlerWork

(* The news of a failed row gets from its worker to the queue, to a handler,*)
(* and through that handler's loop.                                         *)
LEMMA FailureTravelsStep ==
    ASSUME WorkInv, [Work]_vars
    PROVE  FailureTravels'
<1> SUFFICES ASSUME NEW u \in Uploads, NEW s \in O!Steps, steps'[u][s] = "failed"
             PROVE  \/ \E w \in W!WorkerIds : wjob'[w].pc = "sendfailed" /\ wjob'[w].msg.upload = u
                    \/ \E m \in O!ResultMsgs : m.upload = u /\ m.outcome = "failed" /\ inbox'[m] > 0
                    \/ \E c \in Handlers : /\ job'[c].pc # "idle" /\ job'[c].msg.upload = u
                                           /\ job'[c].pc = "fail" \/ Canceling(c)'
                    \/ Stopped(u)'
  BY DEF FailureTravels, O!At, W!At
<1>1. /\ PipelineInv /\ O!IndInv /\ DOMAIN job = O!Consumers /\ DOMAIN wjob = W!WorkerIds
      /\ inbox \in [O!Msgs -> Nat] /\ Handlers \subseteq O!Consumers
  BY DEF WorkInv, PipelineInv, O!IndInv, O!TypeOK, W!IndInv, W!TypeOK, O!Consumers
<1>2. CASE steps[u][s] # "failed"
  <2>1. PICK w \in W!WorkerIds : /\ W!FailStep(w) /\ W!Applies(W!RowOf(wjob[w].msg), "failed")
                                 /\ wjob[w].msg.upload = u /\ wjob[w].msg.step = s
    BY <1>2, RowChanges
  <2>2. wjob[w].msg.step # "publish"
    BY <2>1 DEF WorkInv, OnlyInitialTravel, InitialStep, W!FailStep, W!At
  <2>3. wjob' = [wjob EXCEPT ![w].applied = TRUE, ![w].pc = "sendfailed"]
    BY <2>1, <2>2 DEF W!FailStep
  <2>4. wjob'[w].pc = "sendfailed"
    BY <1>1, <2>1, <2>3, WP!JobFields, SameWorkers
    DEF PipelineInv, W!IndInv, W!FailStep, W!At, WP!WorkerJobs
  <2>5. wjob'[w].msg = wjob[w].msg
    BY <1>1, <2>1, <2>4, WorkerNext DEF WorkerWork, W!Receive, W!FailStep, W!At
  <2>6. QED
    BY <2>1, <2>4, <2>5
<1>3. CASE \E w \in W!WorkerIds : wjob[w].pc = "sendfailed" /\ wjob[w].msg.upload = u
  <2>1. PICK w \in W!WorkerIds : wjob[w].pc = "sendfailed" /\ wjob[w].msg.upload = u
    BY <1>3
  <2>2. CASE wjob'[w] = wjob[w]
    BY <2>1, <2>2
  <2>3. ASSUME NEW o \in O!Outcomes, Report(w, o)
        PROVE  \E m \in O!ResultMsgs : m.upload = u /\ m.outcome = "failed" /\ inbox'[m] > 0
    <3> DEFINE r == [kind |-> "result", upload |-> wjob[w].msg.upload,
                     step |-> wjob[w].msg.step, outcome |-> o, attempt |-> 0]
    <3>1. o = "failed" /\ inbox' = O!Put(inbox, r)
      BY <2>1, <2>3 DEF Report, W!ReportDone, W!At, O!Outcomes
    <3>2. wjob[w].msg.step \in O!Steps
      BY <1>1, <2>1, WorkerFields DEF PipelineInv
    <3>3. r \in O!ResultMsgs /\ r \in O!Msgs /\ r.upload = u /\ r.outcome = "failed"
      BY <2>1, <3>1, <3>2, PipelineAssumption DEF O!ResultMsgs, O!Msgs, O!Attempts
    <3>4. inbox'[r] = inbox[r] + 1 /\ inbox[r] \in Nat
      BY <1>1, <3>1, <3>3 DEF O!Put
    <3>5. inbox'[r] > 0
      BY <3>4
    <3>6. QED
      BY <3>3, <3>5
  <2>4. ~WorkerWork(w)
    BY <2>1 DEF WorkerWork, W!Receive, W!WorkDone, W!WorkFails, W!Commit, W!RetryLater,
       W!DeadLetter, W!Ack, W!AckDeadLettered, W!FailStep, W!At
  <2>5. QED
    BY <2>2, <2>3, <2>4, WhoMoves
<1>4. CASE \E m \in O!ResultMsgs : m.upload = u /\ m.outcome = "failed" /\ inbox[m] > 0
  <2>1. PICK m \in O!ResultMsgs : m.upload = u /\ m.outcome = "failed" /\ inbox[m] > 0
    BY <1>4
  <2>2. m \in O!Msgs
    BY <2>1 DEF O!Msgs
  <2>3. CASE inbox'[m] > 0
    BY <2>1, <2>3
  <2>4. ASSUME NEW c \in Handlers, O!ReceiveResult(c)
        PROVE  inbox'[m] > 0 \/ (job'[c].pc = "fail" /\ job'[c].msg = m)
    <3>1. PICK n \in O!ResultMsgs :
             /\ inbox' = O!Take(inbox, n)
             /\ job' = [job EXCEPT ![c] =
                          O!NewJob(IF n.outcome = "failed" THEN "fail" ELSE "complete", n)]
      BY <2>4 DEF O!ReceiveResult
    <3>2. CASE m = n
      BY <1>1, <2>1, <3>1, <3>2 DEF O!NewJob
    <3>3. CASE m # n
      BY <1>1, <2>1, <2>2, <3>1, <3>3 DEF O!Take
    <3>4. QED
      BY <3>2, <3>3
  <2>5. ASSUME \/ \E v \in Uploads : Relay(v)
               \/ \E w \in W!WorkerIds, o \in O!Outcomes : Report(w, o)
        PROVE  inbox'[m] > 0
    <3>1. \E n : inbox' = O!Put(inbox, n)
      BY <2>5 DEF Relay, O!EventArrives, Report
    <3>2. QED
      BY <1>1, <2>1, <2>2, <3>1 DEF O!Put
  <2>6. inbox' = inbox => inbox'[m] > 0
    BY <2>1
  <2>7. \A c \in Starters : StarterWork(c) \/ O!PublishStep(c) => inbox'[m] > 0
    BY <1>1, <2>1, StarterNext
  <2>8. \A c \in Handlers : HandlerWork(c) => O!ReceiveResult(c) \/ inbox'[m] > 0
    BY <1>1, <2>1, HandlerNext
  <2>9. inbox'[m] > 0 \/ \E c \in Handlers : O!ReceiveResult(c)
    <3>1. CASE \E c \in Starters : StarterWork(c) \/ DispatchStep(c)
      BY <2>7, <3>1 DEF DispatchStep
    <3>2. CASE \E c \in Handlers : HandlerWork(c)
      BY <2>8, <3>2
    <3>3. CASE UNCHANGED overs
      BY <2>6, <3>3 DEF overs
    <3>4. QED
      BY <2>5, <3>1, <3>2, <3>3, WorkCases DEF vars
  <2>10. QED
    BY <2>1, <2>3, <2>4, <2>9
<1>5. CASE \E c \in Handlers : /\ job[c].pc # "idle" /\ job[c].msg.upload = u
                               /\ job[c].pc = "fail" \/ Canceling(c)
  <2>1. PICK c \in Handlers : /\ job[c].pc # "idle" /\ job[c].msg.upload = u
                              /\ job[c].pc = "fail" \/ Canceling(c)
    BY <1>5
  <2>2. job[c].pc \in {"fail", "cancel"}
    BY <2>1 DEF Canceling, O!At
  <2>3. CASE job'[c] = job[c]
    BY <2>1, <2>2, <2>3, CancelingStep
  <2>4. CASE O!Fail(c)
    <3>1. job'[c].pc = "cancel" /\ job'[c].msg = job[c].msg
      BY <1>1, <2>4 DEF O!Fail, O!Goto
    <3>2. QED
      BY <2>1, <3>1, CancelingStep
  <2>5. CASE O!CancelStep(c)
    <3>1. /\ Canceling(c) /\ job[c].k \in 1..5 /\ status' = status
          /\ \A i \in 1..5 : i \leq job[c].k => steps'[u][O!pipelineSteps[i]] \in O!Terminal
      BY <2>1, <2>5, CancelTurn
    <3>2. CASE job[c].k < 5
      <4>1. O!Goto(c, "cancel", job[c].k + 1)
        BY <2>5, <3>2, CancelLoop DEF O!CancelStep, O!NextCancel
      <4>2. job'[c].pc = "cancel" /\ job'[c].msg = job[c].msg
        BY <1>1, <4>1 DEF O!Goto
      <4>3. QED
        BY <2>1, <4>2, CancelingStep
    <3>3. CASE job[c].k = 5
      <4>1. \A r \in O!Steps : steps'[u][r] \in O!Terminal
        BY <3>1, <3>3, CancelLoop
      <4>2. status'[u] = "failed"
        BY <2>1, <3>1 DEF Canceling
      <4>3. QED
        BY <4>1, <4>2 DEF Stopped
    <3>4. QED
      BY <3>1, <3>2, <3>3
  <2>6. ~O!ReceiveResult(c) /\ ~O!CompleteNotApplied(c) /\ ~O!Ack(c)
    BY <2>2 DEF O!ReceiveResult, O!CompleteNotApplied, O!Ack, O!At
  <2>7. QED
    BY <2>3, <2>4, <2>5, <2>6, WhoMoves DEF HandlerWork
<1>6. CASE Stopped(u)
  <2>1. status'[u] = "failed"
    BY <1>6, StatusChanges DEF Stopped
  <2>2. \A r \in O!Steps : steps'[u][r] \in O!Terminal
    BY <1>6, SettledStays DEF Stopped
  <2>3. QED
    BY <2>1, <2>2 DEF Stopped
<1>7. QED
  BY <1>2, <1>3, <1>4, <1>5, <1>6 DEF WorkInv, FailureTravels, O!At, W!At

(* Only a failed result marks an upload, and only a marked upload's rows    *)
(* are canceled.                                                            *)
LEMMA FailureHasCauseStep ==
    ASSUME WorkInv, [Work]_vars
    PROVE  FailureHasCause'
<1>1. /\ PipelineInv /\ O!IndInv /\ W!IndInv /\ ResultsWereReported /\ FailureHasCause
      /\ Handlers \subseteq O!Consumers
  BY DEF WorkInv, PipelineInv, O!Consumers
<1>2. ASSUME NEW u \in Uploads, status'[u] = "failed"
      PROVE  \E s \in O!Steps : steps'[u][s] = "failed"
  <2>1. \E s \in O!Steps : steps[u][s] = "failed"
    <3>1. CASE status[u] = "failed"
      BY <1>1, <3>1 DEF FailureHasCause
    <3>2. CASE status[u] # "failed"
      <4>1. PICK c \in Handlers : O!Fail(c) /\ job[c].msg.upload = u
        BY <1>2, <3>2, StatusChanges
      <4>2. job[c].pc = "fail" /\ job[c].msg.outcome = "failed"
        BY <1>1, <4>1 DEF FailureHasCause, O!Fail, O!At
      <4>3. job[c].msg \in O!ResultMsgs /\ InSight(job[c].msg) /\ job[c].msg.step \in O!Steps
        BY <1>1, <4>1, <4>2, ConsumerFields, PipelineAssumption DEF InSight, O!At
      <4>4. steps[u][job[c].msg.step] = "failed"
        BY <1>1, <4>1, <4>2, <4>3, ReportedIsCommitted DEF ResultsAreCommitted
      <4>5. QED
        BY <4>3, <4>4
    <3>3. QED
      BY <3>1, <3>2
  <2>2. QED
    BY <2>1, SettledStays DEF O!Terminal
<1>3. ASSUME NEW u \in Uploads, NEW s \in O!Steps, steps'[u][s] = "canceled"
      PROVE  status'[u] = "failed"
  <2>1. status[u] = "failed"
    <3>1. CASE steps[u][s] = "canceled"
      BY <1>1, <3>1 DEF FailureHasCause
    <3>2. CASE steps[u][s] # "canceled"
      <4>1. PICK c \in Handlers : O!CancelStep(c) /\ job[c].msg.upload = u
        BY <1>3, <3>2, RowChanges
      <4>2. QED
        BY <4>1, CancelTurn DEF Canceling
    <3>3. QED
      BY <3>1, <3>2
  <2>2. QED
    BY <2>1, StatusChanges
<1>4. ASSUME NEW c \in Handlers, job'[c].pc \in {"fail", "cancel"}
      PROVE  job'[c].msg.outcome = "failed"
  <2>1. DOMAIN job = O!Consumers
    BY <1>1 DEF O!IndInv, O!TypeOK
  <2>2. CASE job'[c] = job[c]
    BY <1>1, <1>4, <2>2 DEF FailureHasCause
  <2>3. CASE O!ReceiveResult(c)
    <3>1. PICK n \in O!ResultMsgs :
             job' = [job EXCEPT ![c] =
                       O!NewJob(IF n.outcome = "failed" THEN "fail" ELSE "complete", n)]
      BY <2>3 DEF O!ReceiveResult
    <3>2. QED
      BY <1>1, <1>4, <2>1, <3>1 DEF O!NewJob
  <2>4. CASE O!Fail(c) \/ O!CancelStep(c)
    <3>1. job[c].msg.outcome = "failed"
      BY <1>1, <2>4 DEF FailureHasCause, O!Fail, O!CancelStep, O!At
    <3>2. job'[c].msg = job[c].msg
      BY <1>1, <2>1, <2>4 DEF O!Fail, O!CancelStep, O!NextCancel, O!Goto
    <3>3. QED
      BY <3>1, <3>2
  <2>5. ~O!CompleteNotApplied(c) /\ ~O!Ack(c)
    BY <1>1, <1>4, <2>1 DEF O!CompleteNotApplied, O!Ack, O!Goto, O!Release, O!Idle
  <2>6. QED
    BY <2>2, <2>3, <2>4, <2>5, WhoMoves DEF HandlerWork
<1>5. \A c \in Handlers : job'[c].pc = "cancel" => Canceling(c)'
  BY CancelingStep
<1>6. QED
  BY <1>2, <1>3, <1>4, <1>5 DEF FailureHasCause, O!At

(* A starter dispatches the initial steps only, and no worker gets into the *)
(* publish worker's call.                                                   *)
LEMMA OnlyInitialTravelStep ==
    ASSUME WorkInv, [Work]_vars
    PROVE  OnlyInitialTravel'
<1>1. /\ PipelineInv /\ OnlyInitialTravel /\ DOMAIN wjob = W!WorkerIds
      /\ stepQ \in [W!StepMsgs -> Nat]
  BY DEF WorkInv, PipelineInv, W!IndInv, W!TypeOK
<1>2. ASSUME NEW m \in W!StepMsgs, stepQ'[m] > 0
      PROVE  m.step \in InitialStep
  <2>1. CASE stepQ[m] > 0
    BY <1>1, <2>1 DEF OnlyInitialTravel
  <2>2. ASSUME NEW c \in Starters, DispatchStep(c)
        PROVE  m.step \in InitialStep
    <3> DEFINE n == [upload |-> job[c].msg.upload, step |-> O!Target(job[c]), attempt |-> 0]
    <3>1. n \in W!StepMsgs /\ stepQ' = W!Put(stepQ, n) /\ c \in O!Consumers
      BY <1>1, <2>2, DispatchedMsg DEF O!Consumers
    <3>2. O!Target(job[c]) \in InitialStep
      BY <1>1, <2>2, <3>1, ConsumerFields, Tables
      DEF PipelineInv, DispatchStep, O!PublishStep, O!At, O!Target, InitialStep
    <3>3. m = n \/ stepQ[m] > 0
      BY <1>1, <1>2, <3>1, QueuedAgain
    <3>4. QED
      BY <2>1, <3>2, <3>3
  <2>3. ASSUME NEW w \in W!WorkerIds, W!RetryLater(w)
        PROVE  m.step \in InitialStep
    <3> DEFINE n == W!Again(wjob[w].msg)
    <3>1. n \in W!StepMsgs /\ stepQ' = W!Put(stepQ, n) /\ n.step = wjob[w].msg.step
      BY <1>1, <2>3, RetriedMsg
    <3>2. wjob[w].msg.step \in InitialStep
      BY <1>1, <2>3 DEF OnlyInitialTravel, W!RetryLater, W!At
    <3>3. m = n \/ stepQ[m] > 0
      BY <1>1, <1>2, <3>1, QueuedAgain
    <3>4. QED
      BY <2>1, <3>1, <3>2, <3>3
  <2>4. ASSUME NEW w \in W!WorkerIds, W!Receive(w)
        PROVE  stepQ[m] > 0
    BY <1>1, <1>2, <2>4 DEF W!Receive, W!Take
  <2>5. CASE stepQ' = stepQ
    BY <1>2, <2>1, <2>5
  <2>6. ASSUME NEW w \in W!WorkerIds, WorkerWork(w) \/ \E o \in O!Outcomes : Report(w, o)
        PROVE  W!RetryLater(w) \/ W!Receive(w) \/ stepQ' = stepQ
    BY <2>6 DEF WorkerWork, W!WorkDone, W!WorkFails, W!Commit, W!DeadLetter, W!Ack,
       W!AckDeadLettered, W!FailStep, Report, W!ReportDone, W!ReportFailed
  <2>7. QED
    BY <2>1, <2>2, <2>3, <2>4, <2>5, <2>6, WorkCases DEF Relay, wprivate, vars
<1>3. ASSUME NEW w \in W!WorkerIds, wjob'[w].pc # "idle"
      PROVE  wjob'[w].msg.step \in InitialStep /\ wjob'[w].pc # "failupload"
  <2>1. CASE wjob'[w] = wjob[w]
    BY <1>1, <1>3, <2>1 DEF OnlyInitialTravel, W!At
  <2>2. CASE W!Receive(w)
    BY <1>1, <2>2 DEF W!Receive, W!NewJob, OnlyInitialTravel
  <2>3. ASSUME WorkerWork(w) \/ W!ReportDone(w) \/ W!ReportFailed(w), ~W!Receive(w)
        PROVE  wjob'[w].msg.step \in InitialStep /\ wjob'[w].pc # "failupload"
    <3>1. wjob[w].pc # "idle" /\ wjob'[w].msg = wjob[w].msg
      BY <1>1, <1>3, <2>3, WorkerNext
    <3>2. wjob[w].msg.step \in InitialStep
      BY <1>1, <3>1 DEF OnlyInitialTravel, W!At
    <3>3. wjob[w] \in WP!WorkerJobs
      BY <1>1, <3>1, WP!JobFields, SameWorkers, PipelineAssumption DEF PipelineInv, W!IndInv
    <3>4. ASSUME NEW pc, pc # "failupload",
                 \/ W!Goto(w, pc)
                 \/ \E a : wjob' = [wjob EXCEPT ![w].applied = a, ![w].pc = pc]
          PROVE  wjob'[w].pc # "failupload"
      <4>1. CASE W!Goto(w, pc)
        BY <1>1, <3>3, <3>4, <4>1 DEF W!Goto, WP!WorkerJobs
      <4>2. CASE \E a : wjob' = [wjob EXCEPT ![w].applied = a, ![w].pc = pc]
        BY <1>1, <3>3, <3>4, <4>2 DEF WP!WorkerJobs
      <4>3. QED
        BY <3>4, <4>1, <4>2
    <3>5. ~W!Release(w)
      BY <1>1, <1>3 DEF W!Release, W!Idle
    <3>6. CASE W!FailStep(w)
      <4>1. wjob[w].msg.step # "publish"
        BY <3>2 DEF InitialStep
      <4>2. \E a : wjob' = [wjob EXCEPT ![w].applied = a, ![w].pc = "sendfailed"]
        BY <3>5, <3>6, <4>1 DEF W!FailStep
      <4>3. wjob'[w].pc # "failupload"
        BY <3>4, <4>2
      <4>4. QED
        BY <3>1, <3>2, <4>3
    <3>7. CASE ~W!FailStep(w)
      <4>1. \E pc \in {"commit", "retry", "report", "ack", "ackdlq", "failstep"} : W!Goto(w, pc)
        BY <2>3, <3>5, <3>7 DEF WorkerWork, W!WorkDone, W!WorkFails, W!Commit, W!RetryLater,
           W!DeadLetter, W!Ack, W!AckDeadLettered, W!ReportDone, W!ReportFailed
      <4>2. wjob'[w].pc # "failupload"
        BY <3>4, <4>1
      <4>3. QED
        BY <3>1, <3>2, <4>2
    <3>8. QED
      BY <3>6, <3>7
  <2>4. QED
    BY <2>1, <2>2, <2>3, WhoMoves DEF Report
<1>4. QED
  BY <1>2, <1>3 DEF OnlyInitialTravel, W!At

LEMMA WorkInit == Init => WorkInv
<1> SUFFICES ASSUME Init
             PROVE  WorkInv
  OBVIOUS
<1>1. PipelineInv
  BY PipelineInit
<1>2. O!Init /\ W!Init /\ relayed = {}
  BY DEF Init
<1>3. /\ \A c \in O!Consumers : job[c].pc = "idle"
      /\ \A w \in W!WorkerIds : wjob[w].pc = "idle"
      /\ \A u \in Uploads, s \in O!Steps : steps[u][s] = "absent"
      /\ \A u \in Uploads : status[u] = "processing"
      /\ \A m \in W!StepMsgs : stepQ[m] = 0
      /\ dlq = {}
  BY <1>2 DEF O!Init, W!Init, O!Idle, W!Idle
<1>4. NothingRetried /\ RelayedIsKept
  BY <1>2, <1>3 DEF NothingRetried, RelayedIsKept, O!At
<1>5. ProcessingIsHeld /\ FailureTravels
  BY <1>3 DEF ProcessingIsHeld, FailureTravels
<1>6. FailureHasCause
  BY <1>3 DEF FailureHasCause, O!At, O!Consumers
<1>7. OnlyInitialTravel
  BY <1>3 DEF OnlyInitialTravel, W!At
<1>8. QED
  BY <1>1, <1>4, <1>5, <1>6, <1>7 DEF WorkInv

LEMMA WorkStep ==
    ASSUME WorkInv, [Work]_vars
    PROVE  WorkInv'
<1>1. PipelineInv'
  BY PipelineStep DEF WorkInv, Next
<1>2. NothingRetried' /\ RelayedIsKept' /\ ProcessingIsHeld'
  BY NothingRetriedStep, RelayedIsKeptStep, ProcessingIsHeldStep
<1>3. FailureTravels' /\ FailureHasCause' /\ OnlyInitialTravel'
  BY FailureTravelsStep, FailureHasCauseStep, OnlyInitialTravelStep
<1>4. QED
  BY <1>1, <1>2, <1>3 DEF WorkInv

(* A relayed upload that nobody has anything of is stopped or stalled. *)
LEMMA RestsWhenQuiet ==
    ASSUME WorkInv
    PROVE  AtRest
<1> SUFFICES ASSUME NEW u \in relayed, Quiet(u)
             PROVE  \/ Stopped(u) /\ \E s \in O!Steps : steps[u][s] = "failed"
                    \/ /\ status[u] = "processing"
                       /\ \A s \in O!Steps :
                             steps[u][s] = IF s \in InitialStep THEN "done" ELSE "pending"
  BY DEF AtRest
<1>1. /\ u \in Uploads /\ PipelineInv /\ O!IndInv /\ O!LaunchInv /\ StallsAfterInitialSteps
      /\ dlq = {} /\ Starters \subseteq O!Consumers /\ Handlers \subseteq O!Consumers
  BY DEF WorkInv, PipelineInv, RelayedIsKept, NothingRetried, O!Consumers
<1>2. /\ status[u] \in O!UploadStatuses /\ status[u] # "finished"
      /\ \A s \in O!Steps : steps[u][s] \in O!RowStates
  BY <1>1 DEF O!IndInv, O!TypeOK, StallsAfterInitialSteps
<1>3. \A s \in O!Steps : steps[u][s] # "processing"
  <2>1. ASSUME NEW s \in O!Steps, steps[u][s] = "processing"
        PROVE  FALSE
    <3>1. ~\E c \in O!Consumers :
              O!At(c, "publish") /\ job[c].msg.upload = u /\ O!Target(job[c]) = s
      BY DEF Quiet, O!At
    <3>2. ~\E m \in W!StepMsgs : m.upload = u /\ m.step = s /\ stepQ[m] > 0
      BY DEF Quiet
    <3>3. ~\E w \in W!WorkerIds : Working(w) /\ wjob[w].msg.upload = u /\ wjob[w].msg.step = s
      BY DEF Quiet, Working, W!At
    <3>4. QED
      BY <1>1, <2>1, <3>1, <3>2, <3>3 DEF WorkInv, ProcessingIsHeld
  <2>2. QED
    BY <2>1
<1>4. O!Launched(u)
  <2>1. ~O!StartKept(u)
    BY <1>1 DEF O!StartKept, Quiet, O!At, O!Msgs
  <2>2. QED
    BY <2>1 DEF WorkInv, RelayedIsKept
<1>5. \A s \in InitialStep : s \in O!Steps /\ steps[u][s] \in {"done", "failed", "canceled"}
  <2>1. \A s \in InitialStep : s \in O!Steps /\ \E i \in DOMAIN O!initialSteps : O!initialSteps[i] = s
    BY DEF InitialStep, O!initialSteps, O!Steps
  <2>2. \A s \in InitialStep : steps[u][s] \notin {"absent", "pending"}
    BY <1>4, <2>1 DEF O!Launched, O!Row
  <2>3. QED
    BY <1>2, <1>3, <2>1, <2>2 DEF O!RowStates
<1>6. CASE \E s \in O!Steps : steps[u][s] = "failed"
  <2>1. ~\E w \in W!WorkerIds : W!At(w, "sendfailed") /\ wjob[w].msg.upload = u
    BY DEF Quiet, W!At
  <2>2. ~\E m \in O!ResultMsgs : m.upload = u /\ m.outcome = "failed" /\ inbox[m] > 0
    BY DEF Quiet, O!Msgs
  <2>3. ~\E c \in Handlers : job[c].pc # "idle" /\ job[c].msg.upload = u
                               /\ (O!At(c, "fail") \/ Canceling(c))
    BY <1>1 DEF Quiet, O!At
  <2>4. Stopped(u)
    BY <1>1, <1>6, <2>1, <2>2, <2>3 DEF WorkInv, FailureTravels
  <2>5. QED
    BY <1>6, <2>4
<1>7. CASE ~\E s \in O!Steps : steps[u][s] = "failed"
  <2>1. status[u] = "processing"
    BY <1>1, <1>2, <1>7 DEF WorkInv, FailureHasCause, O!UploadStatuses
  <2>2. \A s \in O!Steps : steps[u][s] # "canceled"
    BY <1>1, <2>1 DEF WorkInv, FailureHasCause
  <2>3. \A s \in InitialStep : steps[u][s] = "done"
    BY <1>5, <1>7, <2>2
  <2>4. \A s \in O!Steps : steps[u][s] # "absent"
    <3>1. "extract_metadata" \in InitialStep
      BY DEF InitialStep
    <3>2. QED
      BY <1>1, <1>5, <2>3, <3>1 DEF O!LaunchInv, O!EnteredMeansCreated, O!Created, O!Row, O!Entered
  <2>5. \A s \in O!Steps \ InitialStep : steps[u][s] = "pending"
    BY <1>1, <2>2, <2>4 DEF StallsAfterInitialSteps, InitialStep
  <2>6. QED
    BY <2>1, <2>3, <2>5
<1>8. QED
  BY <1>6, <1>7

(* Without faults everything that is not settled is on its way: a relayed   *)
(* event to the update of its initial steps, a row in processing to the     *)
(* worker that settles it, a failed row to the handler that marks the       *)
(* upload and runs through the cancel loop.                                 *)
THEOREM WorkInvariance == FaultFreeSpec => []WorkInv
<1>1. Init => WorkInv
  BY WorkInit
<1>2. WorkInv /\ [Work]_vars => WorkInv'
  BY WorkStep
<1>3. QED
  BY <1>1, <1>2, PTL DEF FaultFreeSpec

(* Without faults a relayed upload of which nothing is queued or handled    *)
(* any more was stopped as a whole after a failed step, or has both initial *)
(* steps done and waits for ever: no third way to end, whatever the number  *)
(* of consumers and replicas and the order in which they ran.               *)
THEOREM RestsStoppedOrStalled == FaultFreeSpec => []AtRest
<1>1. WorkInv => AtRest
  BY RestsWhenQuiet
<1>2. QED
  BY <1>1, WorkInvariance, PTL
================================================================================
