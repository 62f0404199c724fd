--------------------------- MODULE OrchestratorProofs --------------------------
(***************************************************************************)
(* Proofs about Orchestrator, for every set of uploads and consumers and   *)
(* every retry limit, with any number of faults.                           *)
(***************************************************************************)
EXTENDS Orchestrator, TLAPS

(* The tables, as the provers use them. *)
LEMMA StepFacts ==
    /\ Len(pipelineSteps) = 5
    /\ \A k \in 1..5 : pipelineSteps[k] \in Steps
    /\ \A k \in 1..2 : initialSteps[k] \in Steps /\ initialSteps[k] \notin {"transcode", "segment", "publish"}
    /\ \A s \in Chained : s \in Steps /\ Downstream[s] \in Steps /\ Downstream[s] # s
    /\ \A s, t \in Chained : Downstream[s] = Downstream[t] => s = t
    /\ \A s \in Chained : Downstream[s] \in {"transcode", "segment", "publish"}
    /\ \A s \in Steps : s \notin Chained /\ s # "publish" => s = "generate_thumbnail"
    /\ Chained \subseteq Steps
    /\ Downstream["segment"] = "publish"
    /\ Downstream["transcode"] = "segment"
    /\ Downstream["extract_metadata"] = "transcode"
BY DEF pipelineSteps, initialSteps, Steps, Chained, Downstream

(* A row only takes the values of its domain. *)
LEMMA RowFacts ==
    /\ \A row \in RowStates : Insert(row) \in RowStates
    /\ \A row \in RowStates, t \in Targets : Update(row, t) \in RowStates
BY DEF RowStates, Targets, Insert, Update, Applies, Allowed

(* The fields of a consumer's job. *)
LEMMA JobFields ==
    ASSUME TypeOK, NEW c \in Consumers, job[c].pc # "idle"
    PROVE  /\ job[c].msg \in Msgs
           /\ job[c].msg.upload \in Uploads
           /\ c \in Starters => /\ job[c] \in StartJobs
                                /\ job[c].msg \in StartMsgs
                                /\ job[c].msg.kind = "start"
           /\ c \notin Starters => /\ job[c] \in ResultJobs
                                   /\ job[c].msg \in ResultMsgs
                                   /\ job[c].msg.kind = "result"
                                   /\ job[c].msg.step \in Steps
                                   /\ job[c].msg.outcome \in Outcomes
           /\ job[c].closed \in BOOLEAN
           /\ job[c].pc \in {"create", "cancel"} => job[c].k \in 1..5
           /\ job[c].pc = "create" => c \in Starters
           /\ job[c].pc \in {"trigger", "publish"} /\ c \in Starters => job[c].k \in 1..2
           /\ job[c].pc \in {"cancel", "complete", "finish", "fail"} => c \notin Starters
<1>1. job[c] \in JobsOf(c)
  BY DEF TypeOK
<1>2. job[c] # Idle
  BY DEF Idle
<1>3. CASE c \in Starters
  <2>1. job[c] \in StartJobs
    BY <1>1, <1>2, <1>3 DEF JobsOf
  <2>2. QED
    BY <2>1, <1>3 DEF StartJobs, StartMsgs, Msgs
<1>4. CASE c \notin Starters
  <2>1. job[c] \in ResultJobs
    BY <1>1, <1>2, <1>4 DEF JobsOf
  <2>2. QED
    BY <2>1, <1>4 DEF ResultJobs, ResultMsgs, Msgs
<1>5. QED
  BY <1>3, <1>4

(* The job of a consumer that goes on to another call. *)
JobAt(c, pc, k) == [pc |-> pc, msg |-> job[c].msg, k |-> k, closed |-> job[c].closed]

(* Moving a consumer to a job of its own kind keeps the jobs well typed. *)
LEMMA GotoTyped ==
    ASSUME TypeOK, NEW c \in Consumers, NEW pc, NEW k, Goto(c, pc, k),
           JobAt(c, pc, k) \in JobsOf(c)
    PROVE  /\ job' \in [Consumers -> Jobs]
           /\ \A d \in Consumers : job'[d] \in JobsOf(d)
<1>1. JobAt(c, pc, k) \in Jobs
  BY DEF Jobs, JobsOf
<1>2. QED
  BY <1>1 DEF Goto, TypeOK, JobAt

(* An idle consumer is well typed. *)
LEMMA ReleaseTyped ==
    ASSUME TypeOK, NEW c \in Consumers, Release(c)
    PROVE  /\ job' \in [Consumers -> Jobs]
           /\ \A d \in Consumers : job'[d] \in JobsOf(d)
BY DEF Release, TypeOK, Jobs, JobsOf

(* The target of a triggerStep call is a step. *)
LEMMA TargetTyped ==
    ASSUME TypeOK, HandlerFollowsDone, NEW c \in Consumers,
           job[c].pc \in {"trigger", "publish"}
    PROVE  Target(job[c]) \in Steps
<1>1. CASE c \in Starters
  BY <1>1, JobFields, StepFacts DEF Target
<1>2. CASE c \notin Starters
  BY <1>2, JobFields, StepFacts DEF Target, HandlerFollowsDone, Consumers
<1>3. QED
  BY <1>1, <1>2

--------------------------------------------------------------------------------
(* Type correctness. *)

(* One consumer's job typed, case by case of where Goto sends it. *)
LEMMA JobTyped ==
    ASSUME TypeOK, NEW c \in Consumers, job[c].pc # "idle"
    PROVE  /\ JobAt(c, "retry", 1) \in JobsOf(c)
           /\ JobAt(c, "ack", 1) \in JobsOf(c)
           /\ c \in Starters =>
                /\ \A k \in 1..5 : JobAt(c, "create", k) \in JobsOf(c)
                /\ \A k \in 1..2, pc \in {"trigger", "publish"} : JobAt(c, pc, k) \in JobsOf(c)
           /\ c \notin Starters =>
                /\ \A k \in 1..5 : JobAt(c, "cancel", k) \in JobsOf(c)
                /\ \A pc \in {"trigger", "publish", "finish"} : JobAt(c, pc, 1) \in JobsOf(c)
                /\ job[c].k = 1 \/ job[c].pc = "cancel"
<1>1. CASE c \in Starters
  <2>1. job[c].msg \in StartMsgs /\ job[c].closed \in BOOLEAN
    BY <1>1, JobFields
  <2>2. QED
    BY <2>1, <1>1 DEF JobsOf, StartJobs, JobAt
<1>2. CASE c \notin Starters
  <2>1. job[c].msg \in ResultMsgs /\ job[c] \in ResultJobs /\ job[c].closed \in BOOLEAN
    BY <1>2, JobFields
  <2>2. QED
    BY <2>1, <1>2 DEF JobsOf, ResultJobs, JobAt
<1>3. QED
  BY <1>1, <1>2

(* Setting one typed row, or counting a message, keeps the types. *)
LEMMA SetRowTyped ==
    ASSUME TypeOK, NEW u \in Uploads, NEW s \in Steps, NEW row \in RowStates,
           SetRow(u, s, row)
    PROVE  steps' \in [Uploads -> [Steps -> RowStates]]
BY DEF TypeOK, SetRow

(* A queue with one more copy is a queue. *)
LEMMA PutTyped ==
    ASSUME TypeOK, NEW m \in Msgs, inbox' = Put(inbox, m)
    PROVE  inbox' \in [Msgs -> Nat]
BY DEF TypeOK, Put

(* So is one to which a delivery was returned, if it had not been before.   *)
LEMMA RequeueTyped ==
    ASSUME TypeOK, NEW c \in Consumers, job[c].pc # "idle", Requeue(c)
    PROVE  inbox' \in [Msgs -> Nat]
<1>1. CASE job[c].closed
  BY <1>1 DEF Requeue, TypeOK
<1>2. CASE ~job[c].closed
  BY <1>2, JobFields, PutTyped DEF Requeue
<1>3. QED
  BY <1>1, <1>2

(* What the closing of its channel does to a consumer's job. *)
LEMMA ClosedFields ==
    ASSUME TypeOK, NEW c \in Consumers, ChannelCloses(c)
    PROVE  /\ \A d \in Consumers \ {c} : job'[d] = job[d]
           /\ job'[c].pc = job[c].pc /\ job'[c].msg = job[c].msg /\ job'[c].k = job[c].k
           /\ job'[c].closed = TRUE /\ job[c].pc # "idle"
           /\ job' \in [Consumers -> Jobs]
           /\ \A d \in Consumers : job'[d] \in JobsOf(d)
<1>1. job[c].pc # "idle"
  BY DEF ChannelCloses, At
<1>2. /\ \A d \in Consumers \ {c} : job'[d] = job[d]
      /\ job'[c] = [job[c] EXCEPT !.closed = TRUE]
      /\ DOMAIN job' = Consumers
  BY DEF TypeOK, ChannelCloses
<1>3. /\ job'[c] \in JobsOf(c) /\ job'[c] \in Jobs
      /\ job'[c].pc = job[c].pc /\ job'[c].msg = job[c].msg /\ job'[c].k = job[c].k
      /\ job'[c].closed = TRUE
  <2>1. CASE c \in Starters
    <3>1. job[c] \in StartJobs
      BY <1>1, <2>1, JobFields
    <3>2. QED
      BY <1>2, <2>1, <3>1 DEF StartJobs, JobsOf, Jobs
  <2>2. CASE c \notin Starters
    <3>1. job[c] \in ResultJobs
      BY <1>1, <2>2, JobFields
    <3>2. QED
      BY <1>2, <2>2, <3>1 DEF ResultJobs, JobsOf, Jobs
  <2>3. QED
    BY <2>1, <2>2
<1>4. job' \in [Consumers -> Jobs]
  BY <1>2, <1>3 DEF TypeOK, ChannelCloses
<1>5. \A d \in Consumers : job'[d] \in JobsOf(d)
  BY <1>2, <1>3 DEF TypeOK
<1>6. QED
  BY <1>1, <1>2, <1>3, <1>4, <1>5

(* The steps of a start consumer keep the types. *)
LEMMA StartStepTyped ==
    ASSUME IndInv, NEW c \in Consumers,
           \/ ReceiveStart(c) \/ ReceiveResult(c) \/ Ack(c) \/ RetryLater(c) \/ DeadLetter(c)
    PROVE  TypeOK'
<1> USE DEF IndInv
<1>1. CASE ReceiveStart(c)
  <2>1. PICK m \in StartMsgs :
           /\ inbox[m] > 0
           /\ inbox' = Take(inbox, m)
           /\ job' = [job EXCEPT ![c] = NewJob("create", m)]
    BY <1>1 DEF ReceiveStart
  <2>2. m \in Msgs
    BY DEF Msgs
  <2>3. inbox' \in [Msgs -> Nat]
    BY <2>1, <2>2 DEF TypeOK, Take
  <2>4. NewJob("create", m) \in StartJobs
    BY DEF StartJobs, NewJob
  <2>5. /\ job' \in [Consumers -> Jobs]
        /\ \A d \in Consumers : job'[d] \in JobsOf(d)
    BY <1>1, <2>1, <2>4 DEF ReceiveStart, TypeOK, Jobs, JobsOf
  <2>6. QED
    BY <1>1, <2>3, <2>5 DEF ReceiveStart, TypeOK, JobsOf
<1>2. CASE ReceiveResult(c)
  <2>1. PICK m \in ResultMsgs :
           /\ inbox[m] > 0
           /\ inbox' = Take(inbox, m)
           /\ job' = [job EXCEPT ![c] =
                        NewJob(IF m.outcome = "failed" THEN "fail" ELSE "complete", m)]
    BY <1>2 DEF ReceiveResult
  <2>2. m \in Msgs
    BY DEF Msgs
  <2>3. inbox' \in [Msgs -> Nat]
    BY <2>1, <2>2 DEF TypeOK, Take
  <2>4. NewJob(IF m.outcome = "failed" THEN "fail" ELSE "complete", m) \in ResultJobs
    BY DEF ResultJobs, NewJob
  <2>5. c \notin Starters
    BY <1>2, ConsumersAssumption DEF ReceiveResult
  <2>6. /\ job' \in [Consumers -> Jobs]
        /\ \A d \in Consumers : job'[d] \in JobsOf(d)
    BY <2>1, <2>4, <2>5 DEF TypeOK, Jobs, JobsOf
  <2>7. QED
    BY <1>2, <2>3, <2>6 DEF ReceiveResult, TypeOK, JobsOf
<1>3. CASE Ack(c)
  BY <1>3, ReleaseTyped DEF Ack, TypeOK, JobsOf
<1>4. CASE RetryLater(c)
  <2>1. job[c].pc # "idle" /\ job[c].msg \in Msgs
    BY <1>4, JobFields DEF RetryLater, At
  <2>2. Again(job[c].msg) \in Msgs
    BY <1>4, <2>1, MaxRetriesAssumption
    DEF RetryLater, Again, Exhausted, Msgs, StartMsgs, ResultMsgs, Attempts
  <2>3. QED
    BY <1>4, <2>1, <2>2, PutTyped, JobTyped, GotoTyped DEF RetryLater, TypeOK, JobsOf
<1>5. CASE DeadLetter(c)
  <2>1. job[c].pc # "idle" /\ job[c].msg \in Msgs
    BY <1>5, JobFields DEF DeadLetter, At
  <2>2. QED
    BY <1>5, <2>1, JobTyped, GotoTyped DEF DeadLetter, TypeOK, JobsOf
<1>6. QED
  BY <1>1, <1>2, <1>3, <1>4, <1>5

(* The steps of a result handler keep the types. *)
LEMMA HandlerStepTyped ==
    ASSUME IndInv, NEW c \in Consumers,
           \/ CreateRow(c) \/ TriggerApplied(c) \/ TriggerNotApplied(c) \/ PublishStep(c)
           \/ CompleteApplied(c) \/ CompleteNotApplied(c) \/ Finish(c)
           \/ Fail(c) \/ CancelStep(c)
    PROVE  TypeOK'
<1> USE DEF IndInv
<1> DEFINE u == job[c].msg.upload
           t == Target(job[c])
<1>1. job[c].pc # "idle" /\ u \in Uploads
  BY JobFields DEF CreateRow, TriggerApplied, TriggerNotApplied, PublishStep,
     CompleteApplied, CompleteNotApplied, Finish, Fail, CancelStep, At
<1>2. /\ job[c].pc = "create" => c \in Starters /\ job[c].k \in 1..5
      /\ job[c].pc \in {"cancel", "complete", "finish", "fail"} => c \notin Starters
      /\ job[c].pc = "cancel" => job[c].k \in 1..5
      /\ job[c].pc \in {"trigger", "publish"} /\ c \in Starters =>
            job[c].k \in 1..2 /\ job[c].msg.kind = "start"
      /\ c \notin Starters => job[c].msg.kind = "result" /\ job[c].msg.step \in Steps
  BY <1>1, JobFields
<1>3. job[c].pc \in {"trigger", "publish"} => t \in Steps
  BY TargetTyped
<1>4. \A s \in Steps : Row(u, s) \in RowStates
  BY <1>1 DEF TypeOK, Row
<1>5. CASE CreateRow(c)
  <2> DEFINE s == pipelineSteps[job[c].k]
  <2>1. s \in Steps /\ Insert(Row(u, s)) \in RowStates
    BY <1>2, <1>4, <1>5, StepFacts, RowFacts DEF CreateRow, At
  <2>2. steps' \in [Uploads -> [Steps -> RowStates]]
    BY <1>1, <1>5, <2>1, SetRowTyped DEF CreateRow
  <2>3. \/ Goto(c, "trigger", 1)
        \/ Goto(c, "create", job[c].k + 1) /\ job[c].k + 1 \in 1..5
    BY <1>2, <1>5, StepFacts DEF CreateRow, At
  <2>4. /\ job' \in [Consumers -> Jobs]
        /\ \A d \in Consumers : job'[d] \in JobsOf(d)
    <3>1. c \in Starters /\ 1 \in 1..2
      BY <1>2, <1>5 DEF CreateRow, At
    <3>2. JobAt(c, "trigger", 1) \in JobsOf(c)
      BY <1>1, <3>1, JobTyped
    <3>3. \A k \in 1..5 : JobAt(c, "create", k) \in JobsOf(c)
      BY <1>1, <3>1, JobTyped
    <3>4. QED
      BY <2>3, <3>2, <3>3, GotoTyped
  <2>5. QED
    BY <1>5, <2>2, <2>4 DEF CreateRow, TypeOK, JobsOf
<1>6. CASE TriggerApplied(c)
  <2>1. steps' \in [Uploads -> [Steps -> RowStates]]
    BY <1>1, <1>3, <1>6, SetRowTyped DEF TriggerApplied, At, RowStates
  <2>2. JobAt(c, "publish", job[c].k) \in JobsOf(c)
    <3>1. At(c, "trigger")
      BY <1>6 DEF TriggerApplied
    <3>2. CASE c \in Starters
      BY <1>1, <1>2, <3>1, <3>2, JobTyped DEF At
    <3>3. CASE c \notin Starters
      BY <1>1, <3>1, <3>3, JobTyped DEF At
    <3>4. QED
      BY <3>2, <3>3
  <2>3. /\ job' \in [Consumers -> Jobs]
        /\ \A d \in Consumers : job'[d] \in JobsOf(d)
    BY <1>6, <2>2, GotoTyped DEF TriggerApplied
  <2>4. QED
    BY <1>6, <2>1, <2>3 DEF TriggerApplied, TypeOK, JobsOf
<1>7. CASE Return(c) /\ job[c].pc \in {"trigger", "publish"}
            /\ UNCHANGED <<steps, status, inbox, dlq>>
            /\ triggered' \in [Uploads -> [Steps -> Nat]]
  <2>1. /\ job' \in [Consumers -> Jobs]
        /\ \A d \in Consumers : job'[d] \in JobsOf(d)
    <3>1. CASE Goto(c, "ack", 1)
      BY <1>1, <3>1, JobTyped, GotoTyped
    <3>2. CASE Goto(c, "trigger", 2) /\ job[c].msg.kind = "start"
      <4>1. c \in Starters /\ 2 \in 1..2
        BY <1>2, <3>2
      <4>2. JobAt(c, "trigger", 2) \in JobsOf(c)
        BY <1>1, <4>1, JobTyped
      <4>3. QED
        BY <3>2, <4>2, GotoTyped
    <3>3. QED
      BY <1>7, <3>1, <3>2 DEF Return
  <2>2. QED
    BY <1>7, <2>1 DEF TypeOK, JobsOf
<1>8. CASE TriggerNotApplied(c)
  BY <1>7, <1>8 DEF TriggerNotApplied, At, TypeOK
<1>9. CASE PublishStep(c)
  <2>1. triggered' \in [Uploads -> [Steps -> Nat]]
    BY <1>1, <1>3, <1>9 DEF PublishStep, At, TypeOK
  <2>2. QED
    BY <1>7, <1>9, <2>1 DEF PublishStep, At
<1>10. CASE CompleteApplied(c)
  <2>1. job[c].msg.step \in Steps /\ c \notin Starters
    BY <1>2, <1>10 DEF CompleteApplied, At
  <2>2. steps' \in [Uploads -> [Steps -> RowStates]]
    BY <1>1, <1>10, <2>1, SetRowTyped DEF CompleteApplied, RowStates
  <2>3. AfterDone(job[c].msg.step) \in {"trigger", "finish", "ack"}
    BY DEF AfterDone
  <2>4. JobAt(c, AfterDone(job[c].msg.step), 1) \in JobsOf(c)
    BY <1>1, <2>1, <2>3, JobTyped
  <2>5. /\ job' \in [Consumers -> Jobs]
        /\ \A d \in Consumers : job'[d] \in JobsOf(d)
    BY <1>10, <2>4, GotoTyped DEF CompleteApplied
  <2>6. QED
    BY <1>10, <2>2, <2>5 DEF CompleteApplied, TypeOK, JobsOf
<1>11. CASE CompleteNotApplied(c)
  BY <1>1, <1>11, JobTyped, GotoTyped DEF CompleteNotApplied, TypeOK, JobsOf
<1>12. CASE Finish(c)
  <2>1. status' \in [Uploads -> UploadStatuses]
    BY <1>1, <1>12 DEF Finish, TypeOK, UploadStatuses
  <2>2. QED
    BY <1>1, <1>12, <2>1, JobTyped, GotoTyped DEF Finish, TypeOK, JobsOf
<1>13. CASE Fail(c)
  <2>1. status' \in [Uploads -> UploadStatuses]
    BY <1>1, <1>13 DEF Fail, TypeOK, UploadStatuses
  <2>2. JobAt(c, "cancel", 1) \in JobsOf(c)
    <3>1. c \notin Starters /\ 1 \in 1..5
      BY <1>2, <1>13 DEF Fail, At
    <3>2. QED
      BY <1>1, <3>1, JobTyped
  <2>3. QED
    BY <1>13, <2>1, <2>2, GotoTyped DEF Fail, TypeOK, JobsOf
<1>14. CASE CancelStep(c)
  <2> DEFINE s == pipelineSteps[job[c].k]
  <2>1. s \in Steps /\ Update(Row(u, s), "canceled") \in RowStates
    BY <1>2, <1>4, <1>14, StepFacts, RowFacts DEF CancelStep, At, Targets
  <2>2. steps' \in [Uploads -> [Steps -> RowStates]]
    BY <1>1, <1>14, <2>1, SetRowTyped DEF CancelStep
  <2>3. \/ Goto(c, "ack", 1)
        \/ Goto(c, "cancel", job[c].k + 1) /\ job[c].k + 1 \in 1..5
    BY <1>2, <1>14, StepFacts DEF CancelStep, NextCancel, At
  <2>4. /\ job' \in [Consumers -> Jobs]
        /\ \A d \in Consumers : job'[d] \in JobsOf(d)
    BY <1>1, <1>2, <1>14, <2>3, JobTyped, GotoTyped DEF CancelStep, At
  <2>5. QED
    BY <1>14, <2>2, <2>4 DEF CancelStep, TypeOK, JobsOf
<1>15. QED
  BY <1>5, <1>6, <1>8, <1>9, <1>10, <1>11, <1>12, <1>13, <1>14

(* Faults keep the types. *)
LEMMA FaultTyped ==
    ASSUME IndInv, NEW c \in Consumers, Fault(c)
    PROVE  TypeOK'
<1> USE DEF IndInv
<1> DEFINE u == job[c].msg.upload
<1>1. job[c].pc # "idle" /\ u \in Uploads /\ job[c].msg \in Msgs
  BY JobFields DEF Fault, CallFails, ReplyLost, CancelFails, RetryFails, Crash, ChannelCloses,
     RetryUnheard, At
<1>2. \A s \in Steps : Row(u, s) \in RowStates
  BY <1>1 DEF TypeOK, Row
<1>3. CASE CallFails(c)
  BY <1>1, <1>3, JobTyped, GotoTyped DEF CallFails, TypeOK, JobsOf
<1>4. CASE ReplyLost(c)
  <2>1. /\ job' \in [Consumers -> Jobs]
        /\ \A d \in Consumers : job'[d] \in JobsOf(d)
    BY <1>1, <1>4, JobTyped, GotoTyped DEF ReplyLost
  <2>2. /\ steps' \in [Uploads -> [Steps -> RowStates]]
        /\ status' \in [Uploads -> UploadStatuses]
    <3>1. CASE At(c, "create") /\ UNCHANGED status /\
               LET s == pipelineSteps[job[c].k] IN SetRow(u, s, Insert(Row(u, s)))
      <4>1. pipelineSteps[job[c].k] \in Steps
        BY <1>1, <3>1, JobFields, StepFacts DEF At
      <4>2. QED
        BY <1>1, <1>2, <3>1, <4>1, RowFacts, SetRowTyped DEF TypeOK
    <3>2. CASE At(c, "trigger") /\ UNCHANGED status /\
               LET t == Target(job[c]) IN SetRow(u, t, Update(Row(u, t), "processing"))
      <4>1. Target(job[c]) \in Steps
        BY <3>2, TargetTyped DEF At
      <4>2. QED
        BY <1>1, <1>2, <3>2, <4>1, RowFacts, SetRowTyped DEF TypeOK, Targets
    <3>3. CASE At(c, "complete") /\ UNCHANGED status /\
               SetRow(u, job[c].msg.step, Update(Row(u, job[c].msg.step), "done"))
      <4>1. job[c].msg.step \in Steps
        BY <1>1, <3>3, JobFields DEF At
      <4>2. QED
        BY <1>1, <1>2, <3>3, <4>1, RowFacts, SetRowTyped DEF TypeOK, Targets
    <3>4. CASE UNCHANGED steps /\ \/ status' = [status EXCEPT ![u] = "finished"]
                                  \/ status' = [status EXCEPT ![u] = "failed"]
      BY <1>1, <3>4 DEF TypeOK, UploadStatuses
    <3>5. QED
      BY <1>4, <3>1, <3>2, <3>3, <3>4 DEF ReplyLost
  <2>3. QED
    BY <1>4, <2>1, <2>2 DEF ReplyLost, TypeOK, JobsOf
<1>5. CASE CancelFails(c)
  <2>1. job[c].k \in 1..5 /\ c \notin Starters
    BY <1>1, <1>5, JobFields DEF CancelFails, At
  <2>2. \/ Goto(c, "ack", 1)
        \/ Goto(c, "cancel", job[c].k + 1) /\ job[c].k + 1 \in 1..5
    BY <1>5, <2>1, StepFacts DEF CancelFails, NextCancel
  <2>3. /\ job' \in [Consumers -> Jobs]
        /\ \A d \in Consumers : job'[d] \in JobsOf(d)
    BY <1>1, <2>1, <2>2, JobTyped, GotoTyped
  <2>4. QED
    BY <1>5, <2>3 DEF CancelFails, TypeOK, JobsOf
<1>6. CASE RetryFails(c)
  BY <1>1, <1>6, ReleaseTyped, RequeueTyped DEF RetryFails, TypeOK, JobsOf
<1>7. CASE Crash(c)
  BY <1>1, <1>7, ReleaseTyped, RequeueTyped DEF Crash, TypeOK, JobsOf
<1>8. CASE ChannelCloses(c)
  BY <1>1, <1>8, ClosedFields, RequeueTyped DEF ChannelCloses, TypeOK, JobsOf
<1>9. CASE RetryUnheard(c)
  BY <1>1, <1>9, JobTyped, GotoTyped DEF RetryUnheard, TypeOK, JobsOf
<1>10. QED
  BY <1>3, <1>4, <1>5, <1>6, <1>7, <1>8, <1>9 DEF Fault

(* The environment keeps the types. *)
LEMMA EnvironmentTyped ==
    ASSUME IndInv, Environment
    PROVE  TypeOK'
<1> USE DEF IndInv
<1>1. CASE \E u \in Uploads : EventArrives(u)
  <2>1. \A u \in Uploads : [kind |-> "start", upload |-> u, attempt |-> 0] \in Msgs
    BY MaxRetriesAssumption DEF Msgs, StartMsgs, Attempts
  <2>2. QED
    BY <1>1, <2>1, PutTyped DEF EventArrives, TypeOK, JobsOf
<1>2. CASE \E u \in Uploads, s \in Steps, o \in Outcomes : WorkerReports(u, s, o)
  <2>1. \A u \in Uploads, s \in Steps, o \in Outcomes :
           [kind |-> "result", upload |-> u, step |-> s, outcome |-> o, attempt |-> 0] \in Msgs
    BY MaxRetriesAssumption DEF Msgs, ResultMsgs, Attempts
  <2>2. QED
    BY <1>2, <2>1, PutTyped DEF WorkerReports, TypeOK, JobsOf
<1>3. CASE \E u \in Uploads, s \in Steps, o \in Outcomes : WorkerSettles(u, s, o)
  <2>1. PICK u \in Uploads, s \in Steps, o \in Outcomes : WorkerSettles(u, s, o)
    BY <1>3
  <2>2. Update(Row(u, s), o) \in RowStates
    BY RowFacts DEF TypeOK, Row, Outcomes, Targets
  <2>3. steps' \in [Uploads -> [Steps -> RowStates]]
    BY <2>1, <2>2, SetRowTyped DEF WorkerSettles
  <2>4. QED
    BY <2>1, <2>3 DEF WorkerSettles, TypeOK, JobsOf
<1>4. CASE \E u \in Uploads : WorkerFailsUpload(u) \/ FinalizedAgain(u)
  BY <1>4 DEF WorkerFailsUpload, FinalizedAgain, TypeOK, JobsOf, UploadStatuses
<1>5. QED
  BY <1>1, <1>2, <1>3, <1>4 DEF Environment

(* Every step keeps the types. *)
LEMMA StepTyped ==
    ASSUME IndInv, Next
    PROVE  TypeOK'
<1>1. CASE \E c \in Consumers : Work(c)
  BY <1>1, StartStepTyped, HandlerStepTyped DEF Work, Inner
<1>2. CASE \E c \in Consumers : Fault(c)
  BY <1>2, FaultTyped
<1>3. CASE Environment
  BY <1>3, EnvironmentTyped
<1>4. QED
  BY <1>1, <1>2, <1>3 DEF Next

--------------------------------------------------------------------------------
(* The inductive invariant. *)

(* The initial states satisfy the invariant. *)
LEMMA InitInv == Init => IndInv
<1> SUFFICES ASSUME Init PROVE IndInv
  OBVIOUS
<1>1. TypeOK
  BY MaxRetriesAssumption
  DEF Init, TypeOK, RowStates, UploadStatuses, Jobs, JobsOf, Consumers
<1>2. \A c \in Consumers : job[c].pc = "idle"
  BY DEF Init, Idle
<1>3. PublisherAlone
  BY <1>2 DEF PublisherAlone, At
<1>4. HandlerFollowsDone
  BY <1>2 DEF HandlerFollowsDone, At, Consumers
<1>5. DispatchedHasMoved /\ DispatchOnce
  BY DEF Init, DispatchedHasMoved, DispatchOnce
<1>6. ChainInOrder
  BY StepFacts DEF Init, ChainInOrder, Row, Entered
<1>7. FinishedMeansPublished
  BY DEF Init, FinishedMeansPublished
<1>8. QED
  BY <1>1, <1>3, <1>4, <1>5, <1>6, <1>7 DEF IndInv

(* Rows whose changes cannot disturb the invariant: nothing done or moved   *)
(* is taken back, and a row is entered only after its predecessor is done.  *)
RowsKept ==
    \A u \in Uploads, s \in Steps :
        /\ Row(u, s) = "done" => Row(u, s)' = "done"
        /\ Moved(u, s) => Moved(u, s)'
        /\ Row(u, s)' \in Entered =>
              \/ Row(u, s) \in Entered
              \/ \A p \in Chained : s = Downstream[p] => Row(u, p) = "done"

(* A consumer that stays at its call, whatever its channel does. *)
Stays(c) == job'[c].pc = job[c].pc /\ job'[c].msg = job[c].msg /\ job'[c].k = job[c].k

(* Jobs that take up no new claim on a row, save one the row bears out. *)
JobsKept ==
    \A c \in Consumers :
        \/ Stays(c)
        \/ job'[c].pc \notin {"trigger", "publish", "finish"}
        \/ c \in Starters /\ job'[c].pc = "trigger"
        \/ /\ c \in Handlers /\ job'[c].pc = "trigger"
           /\ job'[c].msg.step \in Chained
           /\ steps'[job'[c].msg.upload][job'[c].msg.step] = "done"
        \/ /\ c \in Handlers /\ job'[c].pc = "finish"
           /\ job'[c].msg.step = "publish"
           /\ steps'[job'[c].msg.upload]["publish"] = "done"

(* A step that enters no row, publishes nothing and claims nothing new. *)
LEMMA Harmless ==
    ASSUME IndInv, TypeOK', RowsKept, JobsKept, UNCHANGED triggered,
           \A u \in Uploads : status'[u] = "finished" =>
               status[u] = "finished" \/ Row(u, "publish") = "done"
    PROVE  IndInv'
<1> USE DEF IndInv
<1>1. \A c \in Consumers : job'[c].pc = "publish" =>
          /\ job'[c].msg = job[c].msg /\ Target(job'[c]) = Target(job[c])
          /\ job[c].pc = "publish"
          /\ job[c].msg.upload \in Uploads
          /\ Target(job[c]) \in Steps
  BY JobFields, TargetTyped DEF JobsKept, Stays, Target
<1>2. PublisherAlone'
  <2>1. ASSUME NEW c \in Consumers, job'[c].pc = "publish"
        PROVE  /\ Moved(job[c].msg.upload, Target(job[c]))'
               /\ triggered'[job'[c].msg.upload][Target(job'[c])] = 0
    BY <1>1, <2>1 DEF PublisherAlone, At, RowsKept, Moved, Row
  <2>2. \A c, d \in Consumers :
          /\ job'[c].pc = "publish" /\ job'[d].pc = "publish"
          /\ job'[c].msg.upload = job'[d].msg.upload
          /\ Target(job'[c]) = Target(job'[d])
          => c = d
    BY <1>1 DEF PublisherAlone, At
  <2>3. QED
    BY <1>1, <2>1, <2>2 DEF PublisherAlone, At, Moved, Row, Target
<1>3. DispatchedHasMoved' /\ DispatchOnce'
  BY DEF DispatchedHasMoved, DispatchOnce, RowsKept, Moved, Row
<1>4. HandlerFollowsDone'
  <2>1. ASSUME NEW c \in Handlers, job'[c].pc \in {"trigger", "publish", "finish"}
        PROVE  /\ job'[c].pc # "finish" =>
                    /\ job'[c].msg.step \in Chained
                    /\ steps'[job'[c].msg.upload][job'[c].msg.step] = "done"
               /\ job'[c].pc = "finish" =>
                    /\ job'[c].msg.step = "publish"
                    /\ steps'[job'[c].msg.upload]["publish"] = "done"
    <3>1. c \in Consumers /\ c \notin Starters
      BY ConsumersAssumption DEF Consumers
    <3>2. CASE Stays(c)
      <4>1. job[c].msg.upload \in Uploads /\ job[c].msg.step \in Steps
        BY <2>1, <3>1, <3>2, JobFields DEF Stays
      <4>2. QED
        BY <2>1, <3>2, <4>1 DEF HandlerFollowsDone, At, RowsKept, Row, Steps, Stays
    <3>3. CASE ~Stays(c)
      BY <2>1, <3>1, <3>3 DEF JobsKept
    <3>4. QED
      BY <3>2, <3>3
  <2>2. QED
    BY <2>1 DEF HandlerFollowsDone, At, Row
<1>5. ChainInOrder'
  BY StepFacts DEF ChainInOrder, RowsKept, Row
<1>6. FinishedMeansPublished'
  BY DEF FinishedMeansPublished, RowsKept, Row, Steps
<1>7. QED
  BY <1>2, <1>3, <1>4, <1>5, <1>6

(* Inserting a row, or settling one, keeps what the invariant knows of rows. *)
LEMMA SetRowKept ==
    ASSUME TypeOK, NEW u \in Uploads, NEW s \in Steps,
           NEW row \in {Insert(Row(u, s))}
                          \cup {Update(Row(u, s), t) : t \in {"done", "failed", "canceled"}},
           SetRow(u, s, row)
    PROVE  RowsKept
<1>1. Row(u, s) \in RowStates
  BY DEF TypeOK, Row
<1>2. /\ Row(u, s) = "done" => row = "done"
      /\ Row(u, s) \notin {"absent", "pending"} => row \notin {"absent", "pending"}
      /\ row \in Entered => Row(u, s) \in Entered
  BY <1>1 DEF Insert, Update, Applies, Allowed, Entered, RowStates
<1>3. \A v \in Uploads, r \in Steps :
         Row(v, r)' = IF v = u /\ r = s THEN row ELSE Row(v, r)
  BY DEF TypeOK, SetRow, Row
<1>4. QED
  BY <1>2, <1>3 DEF RowsKept, Moved

(* Rows that do not change are kept. *)
LEMMA SameRowsKept == ASSUME UNCHANGED steps PROVE RowsKept
BY DEF RowsKept, Row, Moved

(* Going on to a call other than publish or finish (a handler: nor trigger). *)
LEMMA GotoKept ==
    ASSUME TypeOK, NEW c \in Consumers, NEW pc, NEW k, Goto(c, pc, k),
           pc \notin {"trigger", "publish", "finish"} \/ (pc = "trigger" /\ c \in Starters)
    PROVE  JobsKept
BY DEF TypeOK, Goto, JobsKept, Stays

(* Becoming idle takes up no publish. *)
LEMMA ReleaseKept ==
    ASSUME TypeOK, NEW c \in Consumers, Release(c)
    PROVE  JobsKept
BY DEF TypeOK, Release, JobsKept, Idle, Stays

(* The steps Harmless covers. *)
LEMMA HarmlessWork ==
    ASSUME IndInv, TypeOK', NEW c \in Consumers,
           \/ ReceiveStart(c) \/ ReceiveResult(c) \/ Ack(c) \/ RetryLater(c) \/ DeadLetter(c)
           \/ CreateRow(c) \/ TriggerNotApplied(c) \/ CompleteNotApplied(c)
           \/ Fail(c) \/ CancelStep(c)
           \/ CallFails(c) \/ CancelFails(c) \/ RetryFails(c) \/ Crash(c)
           \/ ChannelCloses(c) \/ RetryUnheard(c)
    PROVE  IndInv'
<1> USE DEF IndInv
<1>1. CASE ReceiveStart(c)
  <2>1. JobsKept
    BY <1>1 DEF ReceiveStart, NewJob, JobsKept, Stays, TypeOK
  <2>2. QED
    BY <1>1, <2>1, SameRowsKept, Harmless DEF ReceiveStart
<1>2. CASE ReceiveResult(c)
  <2>1. JobsKept
    BY <1>2 DEF ReceiveResult, NewJob, JobsKept, Stays, TypeOK
  <2>2. QED
    BY <1>2, <2>1, SameRowsKept, Harmless DEF ReceiveResult
<1>3. CASE Ack(c)
  BY <1>3, SameRowsKept, ReleaseKept, Harmless DEF Ack
<1>4. CASE RetryLater(c)
  BY <1>4, SameRowsKept, GotoKept, Harmless DEF RetryLater
<1>5. CASE DeadLetter(c)
  BY <1>5, SameRowsKept, GotoKept, Harmless DEF DeadLetter
<1>6. CASE CreateRow(c)
  <2>1. /\ job[c].msg.upload \in Uploads
        /\ c \in Starters
        /\ pipelineSteps[job[c].k] \in Steps
    BY <1>6, JobFields, StepFacts DEF CreateRow, At
  <2>2. RowsKept
    BY <1>6, <2>1, SetRowKept DEF CreateRow
  <2>3. JobsKept
    BY <1>6, <2>1, GotoKept DEF CreateRow
  <2>4. QED
    BY <1>6, <2>2, <2>3, Harmless DEF CreateRow
<1>7. CASE TriggerNotApplied(c)
  <2>1. job[c].msg.kind = "start" => c \in Starters
    BY <1>7, JobFields DEF TriggerNotApplied, At
  <2>2. JobsKept
    BY <1>7, <2>1, GotoKept DEF TriggerNotApplied, Return
  <2>3. QED
    BY <1>7, <2>2, SameRowsKept, Harmless DEF TriggerNotApplied
<1>8. CASE CompleteNotApplied(c)
  BY <1>8, SameRowsKept, GotoKept, Harmless DEF CompleteNotApplied
<1>9. CASE Fail(c)
  <2>1. \A u \in Uploads : status'[u] = "finished" => status[u] = "finished"
    BY <1>9 DEF Fail, TypeOK
  <2>2. JobsKept
    BY <1>9, GotoKept DEF Fail
  <2>3. QED
    BY <1>9, <2>1, <2>2, SameRowsKept, Harmless DEF Fail
<1>10. CASE CancelStep(c)
  <2>1. /\ job[c].msg.upload \in Uploads
        /\ pipelineSteps[job[c].k] \in Steps
    BY <1>10, JobFields, StepFacts DEF CancelStep, At
  <2>2. RowsKept
    BY <1>10, <2>1, SetRowKept DEF CancelStep
  <2>3. JobsKept
    BY <1>10, GotoKept DEF CancelStep, NextCancel
  <2>4. QED
    BY <1>10, <2>2, <2>3, Harmless DEF CancelStep
<1>11. CASE CallFails(c)
  BY <1>11, SameRowsKept, GotoKept, Harmless DEF CallFails
<1>12. CASE CancelFails(c)
  <2>1. JobsKept
    BY <1>12, GotoKept DEF CancelFails, NextCancel
  <2>2. QED
    BY <1>12, <2>1, SameRowsKept, Harmless DEF CancelFails
<1>13. CASE RetryFails(c)
  BY <1>13, SameRowsKept, ReleaseKept, Harmless DEF RetryFails
<1>14. CASE Crash(c)
  BY <1>14, SameRowsKept, ReleaseKept, Harmless DEF Crash
<1>15. CASE ChannelCloses(c)
  <2>1. JobsKept
    BY <1>15, ClosedFields DEF JobsKept, Stays
  <2>2. QED
    BY <1>15, <2>1, SameRowsKept, Harmless DEF ChannelCloses
<1>16. CASE RetryUnheard(c)
  BY <1>16, SameRowsKept, GotoKept, Harmless DEF RetryUnheard
<1>17. QED
  BY <1>1, <1>2, <1>3, <1>4, <1>5, <1>6, <1>7, <1>8, <1>9, <1>10, <1>11, <1>12, <1>13, <1>14,
     <1>15, <1>16

(* No step of the environment touches what the invariant is about. *)
LEMMA HarmlessEnvironment ==
    ASSUME IndInv, TypeOK', Environment
    PROVE  IndInv'
<1> USE DEF IndInv
<1>1. JobsKept /\ UNCHANGED triggered
  BY DEF Environment, EventArrives, WorkerFailsUpload, FinalizedAgain, WorkerSettles,
     WorkerReports, JobsKept, Stays
<1>2. CASE \E u \in Uploads, s \in Steps, o \in Outcomes : WorkerSettles(u, s, o)
  <2>1. RowsKept
    BY <1>2, SetRowKept DEF WorkerSettles, Outcomes
  <2>2. QED
    BY <1>1, <1>2, <2>1, Harmless DEF WorkerSettles
<1>3. CASE \E u \in Uploads : WorkerFailsUpload(u) \/ FinalizedAgain(u)
  <2>1. \A u \in Uploads : status'[u] = "finished" => status[u] = "finished"
    BY <1>3 DEF WorkerFailsUpload, FinalizedAgain, TypeOK
  <2>2. QED
    BY <1>1, <1>3, <2>1, SameRowsKept, Harmless DEF WorkerFailsUpload, FinalizedAgain
<1>4. CASE UNCHANGED <<steps, status>>
  BY <1>1, <1>4, SameRowsKept, Harmless
<1>5. QED
  BY <1>2, <1>3, <1>4 DEF Environment, EventArrives, WorkerReports

(* A consumer at triggerStep for a chained target has that target's         *)
(* predecessor done.                                                        *)
LEMMA TargetFollows ==
    ASSUME IndInv, NEW c \in Consumers, job[c].pc \in {"trigger", "publish"},
           NEW s \in Chained, Target(job[c]) = Downstream[s]
    PROVE  Row(job[c].msg.upload, s) = "done"
<1> USE DEF IndInv
<1>1. CASE c \in Starters
  BY <1>1, JobFields, StepFacts DEF Target
<1>2. CASE c \notin Starters
  <2>1. c \in Handlers /\ job[c].msg.kind = "result"
    BY <1>2, JobFields DEF Consumers
  <2>2. job[c].msg.step \in Chained /\ Row(job[c].msg.upload, job[c].msg.step) = "done"
    BY <2>1 DEF HandlerFollowsDone
  <2>3. job[c].msg.step = s
    BY <2>1, <2>2, StepFacts DEF Target
  <2>4. QED
    BY <2>2, <2>3
<1>3. QED
  BY <1>1, <1>2

(* What moving the target of a trigger from pending does to the rows.       *)
LEMMA TriggerRows ==
    ASSUME IndInv, NEW c \in Consumers, At(c, "trigger"),
           Applies(Row(job[c].msg.upload, Target(job[c])), "processing"),
           SetRow(job[c].msg.upload, Target(job[c]), "processing")
    PROVE  /\ job[c].msg.upload \in Uploads /\ Target(job[c]) \in Steps
           /\ Row(job[c].msg.upload, Target(job[c])) = "pending"
           /\ \A v \in Uploads, r \in Steps :
                 Row(v, r)' = IF v = job[c].msg.upload /\ r = Target(job[c])
                              THEN "processing" ELSE Row(v, r)
<1>1. job[c].msg.upload \in Uploads /\ Target(job[c]) \in Steps
  BY JobFields, TargetTyped DEF IndInv, At
<1>2. Row(job[c].msg.upload, Target(job[c])) = "pending"
  BY DEF Applies, Allowed
<1>3. QED
  BY <1>1, <1>2 DEF IndInv, TypeOK, SetRow, Row

(* An applied trigger makes its consumer the only publisher of the step. *)
LEMMA TriggerAppliedInv ==
    ASSUME IndInv, TypeOK', NEW c \in Consumers, TriggerApplied(c)
    PROVE  IndInv'
<1> USE DEF IndInv
<1> DEFINE u == job[c].msg.upload
           t == Target(job[c])
<1>1. At(c, "trigger") /\ job[c].pc = "trigger"
  BY DEF TriggerApplied, At
<1>2. /\ u \in Uploads /\ t \in Steps
      /\ Row(u, t) = "pending"
      /\ \A v \in Uploads, r \in Steps :
            Row(v, r)' = IF v = u /\ r = t THEN "processing" ELSE Row(v, r)
  BY <1>1, TriggerRows DEF TriggerApplied
<1>3. /\ job'[c] = JobAt(c, "publish", job[c].k)
      /\ job'[c].pc = "publish" /\ job'[c].msg = job[c].msg /\ job'[c].k = job[c].k
      /\ \A d \in Consumers \ {c} : job'[d] = job[d]
  BY DEF TriggerApplied, Goto, TypeOK, JobAt
<1>4. Target(job'[c]) = t
  BY <1>3 DEF Target
<1>5. triggered[u][t] = 0 /\ UNCHANGED triggered /\ UNCHANGED status
  BY <1>2 DEF DispatchedHasMoved, Moved, TypeOK, TriggerApplied
<1>6. \A d \in Consumers : At(d, "publish") =>
          job[d].msg.upload \in Uploads /\ Target(job[d]) \in Steps
  BY JobFields, TargetTyped DEF At
<1>7. \A v \in Uploads, r \in Steps :
          /\ Moved(v, r) => Row(v, r)' \notin {"absent", "pending"}
          /\ Row(v, r) = "done" => Row(v, r)' = "done"
  BY <1>2 DEF Moved
<1>8. PublisherAlone'
  <2>1. ASSUME NEW d \in Consumers, job'[d].pc = "publish"
        PROVE  /\ steps'[job'[d].msg.upload][Target(job'[d])] \notin {"absent", "pending"}
               /\ triggered'[job'[d].msg.upload][Target(job'[d])] = 0
    <3>1. CASE d = c
      BY <1>2, <1>3, <1>4, <1>5, <3>1 DEF Row
    <3>2. CASE d # c
      <4>1. job'[d] = job[d] /\ At(d, "publish")
        BY <1>3, <2>1, <3>2 DEF At
      <4>2. Moved(job[d].msg.upload, Target(job[d])) /\ triggered[job[d].msg.upload][Target(job[d])] = 0
        BY <4>1 DEF PublisherAlone
      <4>3. QED
        BY <1>5, <1>6, <1>7, <4>1, <4>2 DEF Row
    <3>3. QED
      BY <3>1, <3>2
  <2>2. ASSUME NEW d \in Consumers, NEW e \in Consumers,
               job'[d].pc = "publish", job'[e].pc = "publish",
               job'[d].msg.upload = job'[e].msg.upload,
               Target(job'[d]) = Target(job'[e])
        PROVE  d = e
    <3>1. ASSUME NEW f \in Consumers, f # c, job[f].pc = "publish"
          PROVE  ~(job[f].msg.upload = u /\ Target(job[f]) = t)
      BY <1>2, <3>1 DEF PublisherAlone, At, Moved
    <3>2. CASE d # c /\ e # c
      BY <1>3, <2>2, <3>2 DEF PublisherAlone, At
    <3>3. QED
      BY <1>3, <1>4, <2>2, <3>1, <3>2
  <2>3. QED
    BY <2>1, <2>2 DEF PublisherAlone, At, Moved, Row, Target
<1>9. DispatchedHasMoved' /\ DispatchOnce'
  BY <1>5, <1>7 DEF DispatchedHasMoved, DispatchOnce, Moved, Row
<1>10. HandlerFollowsDone'
  <2>1. ASSUME NEW h \in Handlers, job'[h].pc \in {"trigger", "publish", "finish"}
        PROVE  /\ job'[h].msg = job[h].msg
               /\ job'[h].pc # "finish" => job[h].pc \in {"trigger", "publish"}
               /\ job'[h].pc = "finish" => job[h].pc = "finish"
               /\ job[h].msg.upload \in Uploads /\ job[h].msg.step \in Steps
    <3>1. h \in Consumers /\ h \notin Starters
      BY ConsumersAssumption DEF Consumers
    <3>2. /\ job'[h].msg = job[h].msg
          /\ job'[h].pc # "finish" => job[h].pc \in {"trigger", "publish"}
          /\ job'[h].pc = "finish" => job[h].pc = "finish"
      BY <1>1, <1>3, <2>1, <3>1
    <3>3. job[h].pc # "idle"
      BY <2>1, <3>2
    <3>4. QED
      BY <3>1, <3>2, <3>3, JobFields
  <2>2. QED
    BY <1>7, <2>1 DEF HandlerFollowsDone, At, Row, Steps
<1>11. ChainInOrder'
  <2>1. ASSUME NEW v \in Uploads, NEW s \in Chained,
               Row(v, Downstream[s])' \in Entered \/ triggered'[v][Downstream[s]] > 0
        PROVE  Row(v, s) = "done"
    <3>1. CASE v = u /\ Downstream[s] = t
      BY <1>1, <3>1, TargetFollows
    <3>2. CASE ~(v = u /\ Downstream[s] = t)
      BY <1>2, <1>5, <2>1, <3>2, StepFacts DEF ChainInOrder
    <3>3. QED
      BY <3>1, <3>2
  <2>2. QED
    BY <1>7, <2>1, StepFacts DEF ChainInOrder, Row
<1>12. FinishedMeansPublished'
  BY <1>5, <1>7 DEF FinishedMeansPublished, Row, Steps
<1>13. QED
  BY <1>8, <1>9, <1>10, <1>11, <1>12

(* CompleteApplied and Finish make only claims the rows bear out.           *)
LEMMA CompleteAppliedInv ==
    ASSUME IndInv, TypeOK', NEW c \in Consumers, CompleteApplied(c)
    PROVE  IndInv'
<1> USE DEF IndInv
<1> DEFINE m == job[c].msg
<1>1. c \in Handlers /\ m.upload \in Uploads /\ m.step \in Steps
  BY JobFields DEF CompleteApplied, At, Consumers
<1>2. RowsKept
  <2>1. SetRow(m.upload, m.step, Update(Row(m.upload, m.step), "done"))
    BY DEF CompleteApplied, Update
  <2>2. QED
    BY <1>1, <2>1, SetRowKept
<1>3. steps'[m.upload][m.step] = "done"
  BY <1>1 DEF CompleteApplied, SetRow, TypeOK
<1>4. /\ job'[c].pc = AfterDone(m.step) /\ job'[c].msg = m
      /\ \A d \in Consumers \ {c} : job'[d] = job[d]
  BY DEF CompleteApplied, Goto, TypeOK
<1>5. JobsKept
  <2>1. CASE m.step \in Chained
    BY <1>1, <1>3, <1>4, <2>1 DEF JobsKept, AfterDone, Stays
  <2>2. CASE m.step \notin Chained
    BY <1>1, <1>3, <1>4, <2>2 DEF JobsKept, AfterDone, Stays
  <2>3. QED
    BY <2>1, <2>2
<1>6. QED
  BY <1>2, <1>5, Harmless DEF CompleteApplied

(* The upload is finished by a handler that knows publish is done. *)
LEMMA FinishInv ==
    ASSUME IndInv, TypeOK', NEW c \in Consumers,
           status' = [status EXCEPT ![job[c].msg.upload] = "finished"],
           At(c, "finish"), JobsKept, UNCHANGED <<steps, triggered>>
    PROVE  IndInv'
<1> USE DEF IndInv
<1>1. c \in Handlers
  BY JobFields DEF At, Consumers
<1>2. Row(job[c].msg.upload, "publish") = "done"
  BY <1>1 DEF HandlerFollowsDone
<1>3. \A u \in Uploads : status'[u] = "finished" =>
         status[u] = "finished" \/ Row(u, "publish") = "done"
  BY <1>2 DEF TypeOK
<1>4. QED
  BY <1>3, SameRowsKept, Harmless

(* A lost reply leaves the update without its publisher. *)
LEMMA ReplyLostInv ==
    ASSUME IndInv, TypeOK', NEW c \in Consumers, ReplyLost(c)
    PROVE  IndInv'
<1> USE DEF IndInv
<1> DEFINE m == job[c].msg
           u == m.upload
           t == Target(job[c])
<1>1. u \in Uploads /\ JobsKept /\ UNCHANGED triggered
  BY JobFields, GotoKept DEF ReplyLost
<1>2. CASE At(c, "create") /\ UNCHANGED status /\
           LET s == pipelineSteps[job[c].k] IN SetRow(u, s, Insert(Row(u, s)))
  <2>1. pipelineSteps[job[c].k] \in Steps
    BY <1>2, JobFields, StepFacts DEF At
  <2>2. RowsKept
    BY <1>1, <1>2, <2>1, SetRowKept
  <2>3. QED
    BY <1>1, <1>2, <2>2, Harmless
<1>3. CASE At(c, "trigger") /\ UNCHANGED status /\ SetRow(u, t, Update(Row(u, t), "processing"))
  <2>1. RowsKept
    <3>1. CASE Applies(Row(u, t), "processing")
      <4>1. /\ t \in Steps
            /\ Row(u, t) = "pending"
            /\ \A v \in Uploads, r \in Steps :
                  Row(v, r)' = IF v = u /\ r = t THEN "processing" ELSE Row(v, r)
        BY <1>3, <3>1, TriggerRows DEF Update
      <4>2. \A p \in Chained : t = Downstream[p] => Row(u, p) = "done"
        BY <1>3, TargetFollows DEF At
      <4>3. QED
        BY <4>1, <4>2 DEF RowsKept, Moved
    <3>2. CASE ~Applies(Row(u, t), "processing")
      <4>1. t \in Steps
        BY <1>3, TargetTyped DEF At
      <4>2. UNCHANGED steps
        BY <1>1, <1>3, <3>2, <4>1 DEF Update, SetRow, Row, TypeOK
      <4>3. QED
        BY <4>2, SameRowsKept
    <3>3. QED
      BY <3>1, <3>2
  <2>2. QED
    BY <1>1, <1>3, <2>1, Harmless
<1>4. CASE At(c, "complete") /\ UNCHANGED status /\
           SetRow(u, m.step, Update(Row(u, m.step), "done"))
  <2>1. m.step \in Steps
    BY <1>4, JobFields DEF At
  <2>2. RowsKept
    BY <1>1, <1>4, <2>1, SetRowKept
  <2>3. QED
    BY <1>1, <1>4, <2>2, Harmless
<1>5. CASE At(c, "finish") /\ UNCHANGED steps /\ status' = [status EXCEPT ![u] = "finished"]
  BY <1>1, <1>5, FinishInv
<1>6. CASE At(c, "fail") /\ UNCHANGED steps /\ status' = [status EXCEPT ![u] = "failed"]
  <2>1. \A v \in Uploads : status'[v] = "finished" => status[v] = "finished"
    BY <1>6 DEF TypeOK
  <2>2. QED
    BY <1>1, <1>6, <2>1, SameRowsKept, Harmless
<1>7. QED
  BY <1>2, <1>3, <1>4, <1>5, <1>6 DEF ReplyLost

(* A publish gives up the claim on the step and leaves it dispatched once.  *)
LEMMA PublishStepInv ==
    ASSUME IndInv, TypeOK', NEW c \in Consumers, PublishStep(c)
    PROVE  IndInv'
<1> USE DEF IndInv
<1> DEFINE u == job[c].msg.upload
           t == Target(job[c])
<1>1. job[c].pc = "publish" /\ At(c, "publish")
  BY DEF PublishStep, At
<1>2. u \in Uploads /\ t \in Steps
  BY <1>1, JobFields, TargetTyped
<1>3. Moved(u, t) /\ triggered[u][t] = 0
  BY <1>1 DEF PublisherAlone
<1>4. \A v \in Uploads, r \in Steps :
          triggered'[v][r] = IF v = u /\ r = t THEN 1 ELSE triggered[v][r]
  BY <1>2, <1>3 DEF PublishStep, TypeOK
<1>5. UNCHANGED <<steps, status>>
  BY DEF PublishStep
<1>6. /\ job'[c].pc \in {"trigger", "ack"}
      /\ job'[c].pc = "trigger" => c \in Starters
      /\ \A d \in Consumers \ {c} : job'[d] = job[d]
  <2>1. job[c].msg.kind = "start" => c \in Starters
    BY <1>1, JobFields
  <2>2. QED
    BY <2>1 DEF PublishStep, Return, Goto, TypeOK
<1>7. PublisherAlone'
  <2>1. \A d \in Consumers : job'[d].pc = "publish" => d # c /\ job'[d] = job[d]
    BY <1>6
  <2>2. ASSUME NEW d \in Consumers, d # c, job[d].pc = "publish"
        PROVE  /\ Moved(job[d].msg.upload, Target(job[d]))
               /\ triggered'[job[d].msg.upload][Target(job[d])] = 0
    <3>1. job[d].msg.upload \in Uploads /\ Target(job[d]) \in Steps
      BY <2>2, JobFields, TargetTyped
    <3>2. ~(job[d].msg.upload = u /\ Target(job[d]) = t)
      BY <1>1, <2>2 DEF PublisherAlone, At
    <3>3. QED
      BY <1>4, <2>2, <3>1, <3>2 DEF PublisherAlone, At
  <2>3. QED
    BY <1>5, <2>1, <2>2, SMTT(30) DEF PublisherAlone, At, Moved, Row, Target
<1>8. DispatchedHasMoved' /\ DispatchOnce'
  BY <1>3, <1>4, <1>5 DEF DispatchedHasMoved, DispatchOnce, Moved, Row
<1>9. HandlerFollowsDone'
  <2>1. \A h \in Handlers : h \in Consumers /\ h \notin Starters
    BY ConsumersAssumption DEF Consumers
  <2>2. QED
    BY <1>5, <1>6, <2>1 DEF HandlerFollowsDone, At, Row
<1>10. ChainInOrder'
  <2>1. \A s \in Chained : Downstream[s] = t => Row(u, s) = "done"
    BY <1>1, TargetFollows
  <2>2. QED
    BY <1>4, <1>5, <2>1, StepFacts DEF ChainInOrder, Row
<1>11. FinishedMeansPublished'
  BY <1>5 DEF FinishedMeansPublished, Row
<1>12. QED
  BY <1>7, <1>8, <1>9, <1>10, <1>11

(* Every step preserves the invariant. *)
LEMMA StepInv ==
    ASSUME IndInv, [Next]_vars
    PROVE  IndInv'
<1>1. CASE UNCHANGED vars
  BY <1>1, SMTT(30) DEF vars, IndInv, TypeOK, JobsOf, PublisherAlone, At, Moved, Row, Target,
     DispatchedHasMoved, DispatchOnce, HandlerFollowsDone, ChainInOrder, FinishedMeansPublished
<1>2. CASE Next
  <2>1. TypeOK'
    BY <1>2, StepTyped
  <2>2. CASE Environment
    BY <2>1, <2>2, HarmlessEnvironment
  <2>3. CASE \E c \in Consumers : Fault(c)
    BY <2>1, <2>3, HarmlessWork, ReplyLostInv DEF Fault
  <2>4. CASE \E c \in Consumers : Finish(c)
    <3>1. PICK c \in Consumers : Finish(c)
      BY <2>4
    <3>2. JobsKept
      BY <3>1, GotoKept DEF Finish, IndInv
    <3>3. QED
      BY <2>1, <3>1, <3>2, FinishInv DEF Finish
  <2>5. CASE \E c \in Consumers : Work(c) /\ ~Finish(c)
    BY <2>1, <2>5, HarmlessWork, TriggerAppliedInv, CompleteAppliedInv, PublishStepInv
    DEF Work, Inner
  <2>6. QED
    BY <1>2, <2>2, <2>3, <2>4, <2>5 DEF Next
<1>3. QED
  BY <1>1, <1>2

--------------------------------------------------------------------------------
(* Rows before triggers, and no start event lost.                           *)

(* No row goes back, and none is entered while another is still missing.    *)
RowsStand ==
    \A u \in Uploads, s \in Steps :
        /\ Row(u, s) # "absent" => Row(u, s)' # "absent"
        /\ Moved(u, s) => Moved(u, s)'
        /\ Row(u, s)' \in Entered => Row(u, s) \in Entered \/ Created(u)

(* A start event is still kept after the step, or has done its work.        *)
StartsStand == \A u \in Uploads : StartKept(u) => StartKept(u)' \/ Launched(u)'

(* What the steps of one consumer have in common. *)
Accounted(c) ==
    /\ \A d \in Consumers \ {c} : job'[d] = job[d]
    /\ c \in Starters => StarterOnItsWay(c)'
    /\ StartsStand

(* The five rows are the rows of pipelineSteps. *)
LEMMA AllSteps ==
    /\ \A s \in Steps : \E i \in 1..5 : pipelineSteps[i] = s
    /\ DOMAIN initialSteps = {1, 2}
BY DEF pipelineSteps, initialSteps, Steps

(* What is created or launched stays so. *)
LEMMA CreatedStands ==
    ASSUME RowsStand, NEW u \in Uploads
    PROVE  /\ Created(u) => Created(u)'
           /\ Launched(u) => Launched(u)'
<1>1. Created(u) => Created(u)'
  BY DEF RowsStand, Created
<1>2. \A i \in {1, 2} : initialSteps[i] \in Steps
  BY StepFacts
<1>3. Launched(u) => Launched(u)'
  BY <1>2, AllSteps DEF RowsStand, Launched, Moved
<1>4. QED
  BY <1>1, <1>3

(* The invariant survives a step that accounts for its starter. *)
LEMMA LaunchKept ==
    ASSUME IndInv, LaunchInv, RowsStand, StartsStand,
           \A d \in Starters : job'[d] = job[d] \/ StarterOnItsWay(d)',
           \A u \in Uploads, s \in Steps :
               triggered'[u][s] > 0 => triggered[u][s] > 0 \/ Created(u)
    PROVE  LaunchInv'
<1> USE DEF LaunchInv
<1>1. ASSUME NEW d \in Starters, job'[d] = job[d]
      PROVE  StarterOnItsWay(d)'
  <2>1. CASE job[d].pc # "idle"
    <3>1. PICK u \in Uploads : u = job[d].msg.upload
      BY <2>1, JobFields DEF IndInv, Consumers
    <3>2. Created(u) => Created(u)'
      BY CreatedStands
    <3>3. Launched(u) \/ StartKept(u) => Launched(u)' \/ StartKept(u)'
      BY CreatedStands DEF StartsStand
    <3>4. Moved(u, initialSteps[1]) => Moved(u, initialSteps[1])'
      BY StepFacts DEF RowsStand
    <3>5. \A i \in 1..5 : Row(u, pipelineSteps[i]) # "absent"
                             => Row(u, pipelineSteps[i])' # "absent"
      BY StepFacts DEF RowsStand
    <3>6. StarterOnItsWay(d)
      OBVIOUS
    <3>7. At(d, "create") => \A i \in 1..5 :
             i < job[d].k => Row(u, pipelineSteps[i])' # "absent"
      BY <3>1, <3>5, <3>6 DEF StarterOnItsWay, RowsBehind
    <3>8. job[d].pc \in {"trigger", "publish"} =>
             Created(u)' /\ (job[d].k = 2 => Moved(u, initialSteps[1])')
      BY <3>1, <3>2, <3>4, <3>6 DEF StarterOnItsWay, RowsBehind
    <3>9. LetsGo(d) => Launched(u)' \/ StartKept(u)'
      BY <3>1, <3>3, <3>6 DEF StarterOnItsWay
    <3>10. RowsBehind(d)'
      BY <1>1, <3>1, <3>7, <3>8 DEF RowsBehind, At, Row, Created, Moved
    <3>11. LetsGo(d)' => LetsGo(d)
      BY <1>1 DEF LetsGo, At
    <3>12. LetsGo(d)' => Launched(job[d].msg.upload)' \/ StartKept(job[d].msg.upload)'
      BY <1>1, <3>1, <3>9, <3>11 DEF Launched, Row, StartKept
    <3>13. QED
      BY <3>10, <3>12 DEF StarterOnItsWay
  <2>2. CASE job[d].pc = "idle"
    BY <1>1, <2>2 DEF StarterOnItsWay, RowsBehind, LetsGo, At
  <2>3. QED
    BY <2>1, <2>2
<1>2. \A d \in Starters : StarterOnItsWay(d)'
  BY <1>1
<1>3. EnteredMeansCreated'
  <2>1. ASSUME NEW u \in Uploads, NEW s \in Steps, Row(u, s)' \in Entered
        PROVE  Created(u)'
    BY <2>1, CreatedStands DEF RowsStand, EnteredMeansCreated
  <2>2. QED
    BY <2>1 DEF EnteredMeansCreated
<1>4. RowsBeforeDispatch'
  <2>1. ASSUME NEW u \in Uploads, NEW s \in Steps, triggered'[u][s] > 0
        PROVE  Created(u)'
    BY <2>1, CreatedStands DEF RowsBeforeDispatch, Created
  <2>2. QED
    BY <2>1 DEF RowsBeforeDispatch, Created
<1>5. QED
  BY <1>2, <1>3, <1>4

(* Inserting a row, or settling one, lets the rows stand. *)
LEMMA SetRowStands ==
    ASSUME TypeOK, NEW u \in Uploads, NEW s \in Steps,
           NEW row \in {Insert(Row(u, s))}
                          \cup {Update(Row(u, s), t) : t \in {"done", "failed", "canceled"}},
           SetRow(u, s, row)
    PROVE  RowsStand
<1>1. Row(u, s) \in RowStates
  BY DEF TypeOK, Row
<1>2. /\ Row(u, s) # "absent" => row # "absent"
      /\ Row(u, s) \notin {"absent", "pending"} => row \notin {"absent", "pending"}
      /\ row \in Entered => Row(u, s) \in Entered
  BY <1>1 DEF Insert, Update, Applies, Allowed, Entered, RowStates
<1>3. \A v \in Uploads, r \in Steps :
         Row(v, r)' = IF v = u /\ r = s THEN row ELSE Row(v, r)
  BY DEF TypeOK, SetRow, Row
<1>4. QED
  BY <1>2, <1>3 DEF RowsStand, Moved

(* Rows that do not change stand. *)
LEMMA SameRowsStand == ASSUME UNCHANGED steps PROVE RowsStand
BY DEF RowsStand, Row, Moved

(* Whoever triggers does so after all rows of the upload were created. *)
LEMMA TriggersAreCreated ==
    ASSUME IndInv, LaunchInv, NEW c \in Consumers, job[c].pc \in {"trigger", "publish"}
    PROVE  job[c].msg.upload \in Uploads /\ Created(job[c].msg.upload)
<1>1. job[c].msg.upload \in Uploads
  BY JobFields DEF IndInv
<1>2. CASE c \in Starters
  BY <1>1, <1>2 DEF LaunchInv, StarterOnItsWay, RowsBehind
<1>3. CASE c \notin Starters
  <2>1. c \in Handlers /\ job[c].msg.step \in Steps
    BY <1>3, JobFields DEF IndInv, Consumers
  <2>2. Row(job[c].msg.upload, job[c].msg.step) = "done"
    BY <2>1 DEF IndInv, HandlerFollowsDone
  <2>3. QED
    BY <1>1, <2>1, <2>2 DEF LaunchInv, EnteredMeansCreated, Entered
<1>4. QED
  BY <1>2, <1>3

(* A trigger's update of its row lets the rows stand, whoever runs it. *)
LEMMA TriggerStands ==
    ASSUME IndInv, LaunchInv, NEW c \in Consumers, At(c, "trigger"),
           SetRow(job[c].msg.upload, Target(job[c]),
                  Update(Row(job[c].msg.upload, Target(job[c])), "processing"))
    PROVE  RowsStand
<1> DEFINE u == job[c].msg.upload
           t == Target(job[c])
<1>1. u \in Uploads /\ t \in Steps /\ Created(u)
  BY TargetTyped, TriggersAreCreated DEF IndInv, At
<1>2. \A v \in Uploads, r \in Steps :
         Row(v, r)' = IF v = u /\ r = t THEN Update(Row(u, t), "processing") ELSE Row(v, r)
  BY <1>1 DEF IndInv, TypeOK, SetRow, Row
<1>3. /\ Row(u, t) # "absent" => Update(Row(u, t), "processing") # "absent"
      /\ Row(u, t) \notin {"absent", "pending"} =>
            Update(Row(u, t), "processing") \notin {"absent", "pending"}
  BY DEF Update, Applies, Allowed
<1>4. QED
  BY <1>1, <1>2, <1>3 DEF RowsStand, Moved

(* In every step the rows stand. *)
LEMMA StepRowsStand ==
    ASSUME IndInv, LaunchInv, [Next]_vars
    PROVE  RowsStand
<1> USE DEF IndInv
<1>1. CASE UNCHANGED steps
  BY <1>1, SameRowsStand
<1>2. CASE \E u \in Uploads, s \in Steps, o \in Outcomes : WorkerSettles(u, s, o)
  BY <1>2, SetRowStands DEF WorkerSettles, Outcomes
<1>3. ASSUME NEW c \in Consumers, Work(c) \/ Fault(c)
      PROVE  RowsStand
  <2> DEFINE u == job[c].msg.upload
             s == pipelineSteps[job[c].k]
  <2>1. CASE At(c, "create") /\ SetRow(u, s, Insert(Row(u, s)))
    <3>1. u \in Uploads /\ s \in Steps
      BY <2>1, JobFields, StepFacts DEF At
    <3>2. QED
      BY <2>1, <3>1, SetRowStands
  <2>2. CASE At(c, "cancel") /\ SetRow(u, s, Update(Row(u, s), "canceled"))
    <3>1. u \in Uploads /\ s \in Steps
      BY <2>2, JobFields, StepFacts DEF At
    <3>2. QED
      BY <2>2, <3>1, SetRowStands
  <2>3. CASE At(c, "complete")
             /\ SetRow(u, job[c].msg.step, Update(Row(u, job[c].msg.step), "done"))
    <3>1. u \in Uploads /\ job[c].msg.step \in Steps
      BY <2>3, JobFields DEF At
    <3>2. QED
      BY <2>3, <3>1, SetRowStands
  <2>4. CASE At(c, "trigger")
             /\ SetRow(u, Target(job[c]), Update(Row(u, Target(job[c])), "processing"))
    BY <2>4, TriggerStands
  <2>5. CASE CreateRow(c)
    BY <2>1, <2>5 DEF CreateRow
  <2>6. CASE CancelStep(c)
    BY <2>2, <2>6 DEF CancelStep
  <2>7. CASE CompleteApplied(c)
    BY <2>3, <2>7 DEF CompleteApplied, Update
  <2>8. CASE TriggerApplied(c)
    BY <2>4, <2>8 DEF TriggerApplied, Update
  <2>9. CASE ReplyLost(c)
    BY <1>1, <2>1, <2>3, <2>4, <2>9 DEF ReplyLost
  <2>10. QED
    BY <1>1, <1>3, <2>5, <2>6, <2>7, <2>8, <2>9
    DEF Work, Inner, Fault, ReceiveStart, ReceiveResult, TriggerNotApplied, CompleteNotApplied,
        Finish, Fail, RetryLater, DeadLetter, Ack, PublishStep, CallFails, CancelFails,
        RetryFails, Crash, ChannelCloses, RetryUnheard
<1>4. QED
  BY <1>1, <1>2, <1>3
  DEF Next, vars, Environment, EventArrives, WorkerFailsUpload, FinalizedAgain, WorkerReports

(* Events stand when a consumer leaves copies, parked messages and the      *)
(* other consumers alone, and its own event, if it held one, has a place.   *)
LEMMA StartsStandBy ==
    ASSUME NEW c \in Consumers,
           \A d \in Consumers \ {c} : job'[d] = job[d],
           dlq \subseteq dlq',
           \A m \in StartMsgs : inbox[m] > 0 => inbox'[m] > 0 \/ StartKept(m.upload)',
           \A u \in Uploads :
               c \in Starters /\ ~At(c, "idle") /\ ~LetsGo(c) /\ job[c].msg.upload = u
                   => StartKept(u)' \/ Launched(u)'
    PROVE  StartsStand
<1> SUFFICES ASSUME NEW u \in Uploads, StartKept(u)
             PROVE  StartKept(u)' \/ Launched(u)'
  BY DEF StartsStand
<1>1. CASE \E m \in StartMsgs : m.upload = u /\ inbox[m] > 0
  <2>1. PICK m \in StartMsgs : m.upload = u /\ inbox[m] > 0
    BY <1>1
  <2>2. CASE inbox'[m] > 0
    BY <2>1, <2>2 DEF StartKept
  <2>3. CASE StartKept(m.upload)'
    BY <2>1, <2>3
  <2>4. QED
    BY <2>1, <2>2, <2>3
<1>2. CASE \E m \in dlq : m.kind = "start" /\ m.upload = u
  BY <1>2 DEF StartKept
<1>3. CASE \E d \in Starters : ~At(d, "idle") /\ ~LetsGo(d) /\ job[d].msg.upload = u
  <2>1. PICK d \in Starters : ~At(d, "idle") /\ ~LetsGo(d) /\ job[d].msg.upload = u
    BY <1>3
  <2>2. CASE d = c
    BY <2>1, <2>2
  <2>3. CASE d # c
    BY <2>1, <2>3 DEF StartKept, Consumers, LetsGo, At
  <2>4. QED
    BY <2>2, <2>3
<1>4. QED
  BY <1>1, <1>2, <1>3 DEF StartKept

(* A consumer that has let go of its delivery and goes on: the upload is    *)
(* launched, or somebody else has the event still.                          *)
LEMMA ClosedAccounted ==
    ASSUME IndInv, LaunchInv, RowsStand, NEW c \in Consumers, job[c].pc # "idle",
           LetsGo(c), \A d \in Consumers \ {c} : job'[d] = job[d],
           job'[c].msg = job[c].msg, UNCHANGED <<inbox, dlq>>,
           c \in Starters => RowsBehind(c)'
    PROVE  Accounted(c)
<1>1. StartsStand
  BY StartsStandBy
<1>2. PICK u \in Uploads : u = job[c].msg.upload
  BY JobFields DEF IndInv
<1>3. c \in Starters => Launched(u) \/ StartKept(u)
  BY <1>2 DEF LaunchInv, StarterOnItsWay
<1>4. c \in Starters => Launched(u)' \/ StartKept(u)'
  BY <1>1, <1>3, CreatedStands DEF StartsStand
<1>5. c \in Starters => Launched(job[c].msg.upload)' \/ StartKept(job[c].msg.upload)'
  BY <1>2, <1>4 DEF Launched, Row, StartKept
<1>6. c \in Starters => StarterOnItsWay(c)'
  BY <1>5 DEF StarterOnItsWay, Launched, Row, StartKept
<1>7. QED
  BY <1>1, <1>6 DEF Accounted

(* A starter on its way to another call of the same delivery keeps the event. *)
LEMMA OnItsWayAccounted ==
    ASSUME IndInv, LaunchInv, RowsStand, NEW c \in Consumers, NEW pc, NEW k, Goto(c, pc, k),
           job[c].pc # "idle", pc \notin {"idle", "ack"},
           UNCHANGED <<inbox, dlq>>,
           c \in Starters => RowsBehind(c)'
    PROVE  Accounted(c)
<1>1. /\ \A d \in Consumers \ {c} : job'[d] = job[d]
      /\ job'[c].pc = pc /\ job'[c].msg = job[c].msg /\ job'[c].closed = job[c].closed
  BY DEF IndInv, TypeOK, Goto
<1>2. CASE LetsGo(c)
  BY <1>1, <1>2, ClosedAccounted
<1>3. CASE ~LetsGo(c)
  <2>1. ~LetsGo(c)' /\ ~At(c, "idle")'
    BY <1>1, <1>3 DEF LetsGo, At
  <2>2. \A u \in Uploads : c \in Starters /\ job[c].msg.upload = u => StartKept(u)'
    BY <1>1, <2>1 DEF StartKept
  <2>3. StartsStand
    BY <1>1, <2>2, StartsStandBy
  <2>4. QED
    BY <1>1, <2>1, <2>3 DEF Accounted, StarterOnItsWay
<1>4. QED
  BY <1>2, <1>3

(* What a consumer puts into the queues keeps its event. *)
LEMMA CopiedIsKept ==
    ASSUME IndInv, NEW c \in Starters, job[c].pc # "idle"
    PROVE  /\ job[c].msg \in StartMsgs /\ job[c].msg.upload \in Uploads
           /\ ~Exhausted(job[c].msg) =>
                 Again(job[c].msg) \in StartMsgs /\ Again(job[c].msg).upload = job[c].msg.upload
<1>1. job[c].msg \in StartMsgs /\ job[c].msg.upload \in Uploads
  BY JobFields DEF IndInv, Consumers
<1>2. ~Exhausted(job[c].msg) =>
         Again(job[c].msg) \in StartMsgs /\ Again(job[c].msg).upload = job[c].msg.upload
  BY <1>1, MaxRetriesAssumption DEF Again, Exhausted, StartMsgs, Attempts
<1>3. QED
  BY <1>1, <1>2

(* A copy put into the queue keeps the event it is a copy of. *)
LEMMA PutKeeps ==
    ASSUME IndInv, NEW m \in Msgs, inbox' = Put(inbox, m)
    PROVE  /\ \A n \in StartMsgs : inbox[n] > 0 => inbox'[n] > 0
           /\ m \in StartMsgs => StartKept(m.upload)'
<1>1. inbox'[m] > 0 /\ \A n \in Msgs : inbox[n] > 0 => inbox'[n] > 0
  BY DEF IndInv, TypeOK, Put
<1>2. QED
  BY <1>1 DEF StartKept, Msgs

(* A consumer that lets go of its delivery, which the broker puts back,     *)
(* unless it has done so before.                                            *)
LEMMA ReturnedAccounted ==
    ASSUME IndInv, NEW c \in Consumers, job[c].pc # "idle", Release(c),
           Requeue(c), UNCHANGED dlq
    PROVE  Accounted(c)
<1>1. /\ \A d \in Consumers \ {c} : job'[d] = job[d]
      /\ job'[c].pc = "idle"
  BY DEF IndInv, TypeOK, Release, Idle
<1>2. StartsStand
  <2>1. CASE job[c].closed
    BY <1>1, <2>1, StartsStandBy DEF Requeue, LetsGo, At
  <2>2. CASE ~job[c].closed
    <3>1. c \in Starters => job[c].msg \in StartMsgs
      BY CopiedIsKept
    <3>2. PICK m \in Msgs : m = job[c].msg
      BY JobFields DEF IndInv
    <3>3. /\ \A n \in StartMsgs : inbox[n] > 0 => inbox'[n] > 0
          /\ m \in StartMsgs => StartKept(m.upload)'
      BY <2>2, <3>2, PutKeeps DEF Requeue
    <3>4. QED
      BY <1>1, <3>1, <3>2, <3>3, StartsStandBy
  <2>3. QED
    BY <2>1, <2>2
<1>3. QED
  BY <1>1, <1>2 DEF Accounted, StarterOnItsWay, RowsBehind, LetsGo, At

(* A channel that closes: the broker puts the event back, and the consumer  *)
(* goes on with what is now somebody else's.                                *)
LEMMA ClosesAccounted ==
    ASSUME IndInv, LaunchInv, RowsStand, NEW c \in Consumers, ChannelCloses(c)
    PROVE  Accounted(c)
<1>1. /\ \A d \in Consumers \ {c} : job'[d] = job[d]
      /\ job'[c].pc = job[c].pc /\ job'[c].msg = job[c].msg /\ job'[c].k = job[c].k
      /\ job[c].pc # "idle"
  BY ClosedFields DEF IndInv
<1>2. PICK m \in Msgs : m = job[c].msg /\ m.upload \in Uploads
  BY <1>1, JobFields DEF IndInv
<1>3. c \in Starters => m \in StartMsgs
  BY <1>1, <1>2, CopiedIsKept
<1>4. /\ \A n \in StartMsgs : inbox[n] > 0 => inbox'[n] > 0
      /\ m \in StartMsgs => StartKept(m.upload)'
  BY <1>2, PutKeeps DEF ChannelCloses, Requeue
<1>5. StartsStand
  BY <1>1, <1>2, <1>3, <1>4, StartsStandBy DEF ChannelCloses
<1>6. c \in Starters => RowsBehind(c)'
  <2>1. SUFFICES ASSUME c \in Starters PROVE RowsBehind(c)'
    OBVIOUS
  <2>2. RowsBehind(c)
    BY <2>1 DEF LaunchInv, StarterOnItsWay
  <2>3. UNCHANGED steps
    BY DEF ChannelCloses
  <2>4. QED
    BY <1>1, <2>2, <2>3 DEF RowsBehind, At, Row, Created, Moved
<1>7. c \in Starters => StarterOnItsWay(c)'
  BY <1>1, <1>2, <1>3, <1>4, <1>6 DEF StarterOnItsWay, StartKept
<1>8. QED
  BY <1>1, <1>5, <1>7 DEF Accounted

(* The first delivery of an event to a starter. *)
LEMMA ReceiveStartAccounted ==
    ASSUME IndInv, NEW c \in Consumers, ReceiveStart(c)
    PROVE  Accounted(c)
<1>1. PICK m \in StartMsgs :
         /\ inbox' = Take(inbox, m)
         /\ job' = [job EXCEPT ![c] = NewJob("create", m)]
  BY DEF ReceiveStart
<1>2. /\ \A d \in Consumers \ {c} : job'[d] = job[d]
      /\ job'[c].pc = "create" /\ job'[c].msg = m /\ job'[c].k = 1 /\ ~job'[c].closed
      /\ c \in Starters /\ job[c].pc = "idle"
  BY <1>1 DEF IndInv, TypeOK, ReceiveStart, At, NewJob
<1>3. StartKept(m.upload)' /\ ~LetsGo(c)'
  BY <1>2 DEF StartKept, LetsGo, At
<1>4. \A n \in StartMsgs : inbox[n] > 0 => inbox'[n] > 0 \/ StartKept(n.upload)'
  <2>1. \A n \in StartMsgs : n # m => inbox'[n] = inbox[n]
    BY <1>1 DEF IndInv, TypeOK, Take, Msgs
  <2>2. QED
    BY <1>3, <2>1
<1>5. StartsStand
  BY <1>2, <1>4, StartsStandBy DEF ReceiveStart, At
<1>6. StarterOnItsWay(c)'
  BY <1>2, <1>3 DEF StarterOnItsWay, RowsBehind, At
<1>7. QED
  BY <1>2, <1>5, <1>6 DEF Accounted

(* A delivery of a result leaves the start events alone. *)
LEMMA ReceiveResultAccounted ==
    ASSUME IndInv, NEW c \in Consumers, ReceiveResult(c)
    PROVE  Accounted(c)
<1>1. PICK m \in ResultMsgs :
         /\ inbox' = Take(inbox, m)
         /\ job' = [job EXCEPT ![c] =
                      NewJob(IF m.outcome = "failed" THEN "fail" ELSE "complete", m)]
  BY DEF ReceiveResult
<1>2. c \notin Starters /\ \A d \in Consumers \ {c} : job'[d] = job[d]
  BY <1>1, ConsumersAssumption DEF IndInv, TypeOK, ReceiveResult
<1>3. \A n \in StartMsgs : n \in Msgs /\ n # m
  BY DEF StartMsgs, ResultMsgs, Msgs
<1>4. \A n \in StartMsgs : inbox'[n] = inbox[n]
  BY <1>1, <1>3 DEF IndInv, TypeOK, Take
<1>5. StartsStand
  BY <1>2, <1>4, StartsStandBy DEF ReceiveResult
<1>6. QED
  BY <1>2, <1>5 DEF Accounted

(* HandleRetry leaves a copy behind before its ack, in a queue or the DLQ. *)
LEMMA RetryAccounted ==
    ASSUME IndInv, NEW c \in Consumers, RetryLater(c) \/ DeadLetter(c)
    PROVE  Accounted(c)
<1>1. /\ job[c].pc = "retry"
      /\ job'[c].pc = "ack" /\ job'[c].msg = job[c].msg
      /\ \A d \in Consumers \ {c} : job'[d] = job[d]
  BY DEF IndInv, TypeOK, RetryLater, DeadLetter, Goto, At
<1>2. job[c].msg \in Msgs
  BY <1>1, JobFields DEF IndInv
<1>3. PICK u : u = job[c].msg.upload
  OBVIOUS
<1>4. /\ c \in Starters => StartKept(u)'
      /\ \A n \in StartMsgs : inbox[n] > 0 => inbox'[n] > 0
      /\ dlq \subseteq dlq'
  <2>1. CASE RetryLater(c)
    <3>1. PICK m : m = Again(job[c].msg)
      OBVIOUS
    <3>2. m \in Msgs
      BY <1>2, <2>1, <3>1, MaxRetriesAssumption
      DEF RetryLater, Again, Exhausted, Msgs, StartMsgs, ResultMsgs, Attempts
    <3>3. c \in Starters => m \in StartMsgs /\ m.upload = u
      BY <1>1, <1>3, <2>1, <3>1, CopiedIsKept DEF RetryLater
    <3>4. inbox' = Put(inbox, m) /\ UNCHANGED dlq
      BY <2>1, <3>1 DEF RetryLater
    <3>5. QED
      BY <3>2, <3>3, <3>4, PutKeeps
  <2>2. CASE DeadLetter(c)
    <3>1. c \in Starters => job[c].msg.kind = "start"
      BY <1>1, CopiedIsKept DEF StartMsgs
    <3>2. job[c].msg \in dlq' /\ dlq \subseteq dlq' /\ UNCHANGED inbox
      BY <2>2 DEF DeadLetter
    <3>3. QED
      BY <1>3, <3>1, <3>2 DEF StartKept
  <2>3. QED
    BY <2>1, <2>2
<1>5. StartsStand
  BY <1>1, <1>3, <1>4, StartsStandBy
<1>6. c \in Starters => StarterOnItsWay(c)'
  BY <1>1, <1>3, <1>4 DEF StarterOnItsWay, RowsBehind, At, StartKept
<1>7. QED
  BY <1>1, <1>5, <1>6 DEF Accounted

(* A row is inserted, and the loop goes on to the next or to the trigger. *)
LEMMA CreateRowAccounted ==
    ASSUME IndInv, LaunchInv, RowsStand, NEW c \in Consumers, CreateRow(c)
    PROVE  Accounted(c)
<1>1. PICK u \in Uploads, k \in 1..5 :
         /\ u = job[c].msg.upload /\ k = job[c].k
         /\ c \in Starters /\ At(c, "create") /\ job[c].pc = "create"
  BY JobFields DEF IndInv, CreateRow, At
<1>2. \A i \in 1..5 : i < k => Row(u, pipelineSteps[i]) # "absent"
  BY <1>1 DEF LaunchInv, StarterOnItsWay, RowsBehind
<1>3. \A i \in 1..5 : i < k + 1 => steps'[u][pipelineSteps[i]] # "absent"
  <2>1. SetRow(u, pipelineSteps[k], Insert(Row(u, pipelineSteps[k])))
    BY <1>1 DEF CreateRow
  <2>2. steps'[u][pipelineSteps[k]] = Insert(Row(u, pipelineSteps[k]))
    BY <2>1, StepFacts DEF IndInv, TypeOK, SetRow
  <2>3. steps'[u][pipelineSteps[k]] # "absent"
    BY <2>2 DEF Insert
  <2>4. \A i \in 1..5 : i < k => steps'[u][pipelineSteps[i]] # "absent"
    BY <1>2, StepFacts DEF RowsStand, Row
  <2>5. QED
    BY <1>1, <2>3, <2>4
<1>4. CASE Goto(c, "create", k + 1)
  <2>1. job'[c] = JobAt(c, "create", k + 1)
    BY <1>4 DEF IndInv, TypeOK, Goto, JobAt
  <2>2. RowsBehind(c)'
    BY <1>1, <1>3, <2>1 DEF RowsBehind, At, Row, JobAt
  <2>3. QED
    BY <1>1, <1>4, <2>2, OnItsWayAccounted DEF CreateRow
<1>5. CASE Goto(c, "trigger", 1) /\ k = 5
  <2>1. job'[c] = JobAt(c, "trigger", 1)
    BY <1>5 DEF IndInv, TypeOK, Goto, JobAt
  <2>2. \A s \in Steps : steps'[u][s] # "absent"
    BY <1>3, <1>5, AllSteps
  <2>3. RowsBehind(c)'
    BY <1>1, <2>1, <2>2 DEF RowsBehind, At, Created, Row, JobAt
  <2>4. QED
    BY <1>1, <1>5, <2>3, OnItsWayAccounted DEF CreateRow
<1>6. QED
  BY <1>1, <1>4, <1>5, StepFacts DEF CreateRow

(* An applied trigger goes on to its publish. *)
LEMMA TriggerAppliedAccounted ==
    ASSUME IndInv, LaunchInv, RowsStand, NEW c \in Consumers, TriggerApplied(c)
    PROVE  Accounted(c)
<1>1. job[c].pc = "trigger"
  BY DEF TriggerApplied, At
<1>2. PICK u \in Uploads : u = job[c].msg.upload /\ Created(u)
  BY <1>1, TriggersAreCreated
<1>3. job'[c] = JobAt(c, "publish", job[c].k)
  BY DEF IndInv, TypeOK, TriggerApplied, Goto, JobAt
<1>4. Created(u)'
  BY <1>2, CreatedStands
<1>5. c \in Starters /\ job[c].k = 2 => Moved(u, initialSteps[1])'
  BY <1>1, <1>2, StepFacts DEF LaunchInv, StarterOnItsWay, RowsBehind, RowsStand
<1>6. c \in Starters => RowsBehind(c)'
  BY <1>2, <1>3, <1>4, <1>5 DEF RowsBehind, At, Created, Moved, Row, JobAt
<1>7. QED
  BY <1>1, <1>6, OnItsWayAccounted DEF TriggerApplied

(* triggerStep returns: the step was moved, by this consumer or before it,  *)
(* so the second trigger follows the first and the ack follows both.        *)
LEMMA ReturnAccounted ==
    ASSUME IndInv, LaunchInv, RowsStand, NEW c \in Consumers, Return(c),
           job[c].pc \in {"trigger", "publish"},
           Moved(job[c].msg.upload, Target(job[c])),
           UNCHANGED <<inbox, dlq>>
    PROVE  Accounted(c)
<1>1. PICK u \in Uploads : u = job[c].msg.upload /\ Created(u)
  BY TriggersAreCreated
<1>2. Created(u)' /\ \A s \in Steps : Moved(u, s) => Moved(u, s)'
  BY <1>1, CreatedStands DEF RowsStand
<1>3. c \in Starters => job[c].k \in 1..2 /\ job[c].msg.kind = "start"
  BY JobFields DEF IndInv
<1>4. c \notin Starters => job[c].msg.kind = "result"
  BY JobFields DEF IndInv
<1>5. CASE c \in Starters /\ job[c].k = 1
  <2>1. Goto(c, "trigger", 2)
    BY <1>3, <1>5 DEF Return
  <2>2. job'[c] = JobAt(c, "trigger", 2)
    BY <2>1 DEF IndInv, TypeOK, Goto, JobAt
  <2>3. Moved(u, initialSteps[1])'
    BY <1>1, <1>2, <1>3, <1>5, StepFacts DEF Target
  <2>4. RowsBehind(c)'
    BY <1>1, <1>2, <2>2, <2>3 DEF RowsBehind, At, Created, Moved, Row, JobAt
  <2>5. QED
    BY <2>1, <2>4, OnItsWayAccounted
<1>6. CASE ~(c \in Starters /\ job[c].k = 1)
  <2>1. Goto(c, "ack", 1)
    BY <1>3, <1>4, <1>6 DEF Return
  <2>2. /\ job'[c].pc = "ack" /\ job'[c].msg = job[c].msg
        /\ \A d \in Consumers \ {c} : job'[d] = job[d]
    BY <2>1 DEF IndInv, TypeOK, Goto
  <2>3. c \in Starters => Launched(u)'
    <3>1. c \in Starters => Moved(u, initialSteps[1]) /\ Moved(u, initialSteps[2])
      BY <1>1, <1>3, <1>6 DEF Target, LaunchInv, StarterOnItsWay, RowsBehind
    <3>2. c \in Starters => Moved(u, initialSteps[1])' /\ Moved(u, initialSteps[2])'
      BY <1>2, <3>1, StepFacts
    <3>3. QED
      BY <3>2, AllSteps DEF Launched, Moved
  <2>4. StartsStand
    BY <1>1, <2>2, <2>3, StartsStandBy
  <2>5. c \in Starters => StarterOnItsWay(c)'
    BY <1>1, <2>2, <2>3 DEF StarterOnItsWay, RowsBehind, At, Launched, Row
  <2>6. QED
    BY <2>2, <2>4, <2>5 DEF Accounted
<1>7. QED
  BY <1>5, <1>6

(* Every step of a consumer accounts for its start event. *)
LEMMA ConsumerAccounted ==
    ASSUME IndInv, LaunchInv, RowsStand, NEW c \in Consumers, Work(c) \/ Fault(c)
    PROVE  Accounted(c)
<1>1. CASE TriggerNotApplied(c)
  <2>1. job[c].pc = "trigger" /\ Return(c) /\ UNCHANGED <<inbox, dlq>>
    BY <1>1 DEF TriggerNotApplied, At
  <2>2. Moved(job[c].msg.upload, Target(job[c]))
    BY <1>1, <2>1, TriggersAreCreated, TargetTyped
    DEF TriggerNotApplied, Applies, Allowed, Created, Moved, IndInv
  <2>3. QED
    BY <2>1, <2>2, ReturnAccounted
<1>2. CASE PublishStep(c)
  <2>1. job[c].pc = "publish" /\ Return(c) /\ UNCHANGED <<inbox, dlq>>
    BY <1>2 DEF PublishStep, At
  <2>2. Moved(job[c].msg.upload, Target(job[c]))
    BY <2>1 DEF IndInv, PublisherAlone, At
  <2>3. QED
    BY <2>1, <2>2, ReturnAccounted
<1>3. ASSUME NEW pc, NEW k, Goto(c, pc, k), UNCHANGED <<inbox, dlq>>, job[c].pc # "idle",
             pc = "retry" \/ (c \notin Starters /\ pc # "idle")
      PROVE  Accounted(c)
  <2>1. /\ job'[c].pc = pc
        /\ \A d \in Consumers \ {c} : job'[d] = job[d]
    BY <1>3 DEF IndInv, TypeOK, Goto
  <2>2. c \in Starters => RowsBehind(c)'
    BY <1>3, <2>1 DEF RowsBehind, At
  <2>3. CASE pc = "retry"
    BY <1>3, <2>2, <2>3, OnItsWayAccounted
  <2>4. CASE c \notin Starters
    <3>1. StartsStand
      BY <1>3, <2>1, <2>4, StartsStandBy
    <3>2. QED
      BY <2>1, <2>4, <3>1 DEF Accounted
  <2>5. QED
    BY <1>3, <2>3, <2>4
<1>4. CASE CallFails(c)
  BY <1>3, <1>4 DEF CallFails
<1>5. CASE ReplyLost(c)
  BY <1>3, <1>5 DEF ReplyLost
<1>6. CASE \/ CompleteApplied(c) \/ CompleteNotApplied(c) \/ Finish(c)
           \/ Fail(c) \/ CancelStep(c) \/ CancelFails(c)
  <2>1. job[c].pc # "idle" /\ c \notin Starters /\ UNCHANGED <<inbox, dlq>>
    BY <1>6, JobFields
    DEF IndInv, CompleteApplied, CompleteNotApplied, Finish, Fail, CancelStep, CancelFails, At
  <2>2. \E pc \in {"trigger", "finish", "ack", "cancel"}, k \in {1, job[c].k + 1} :
           Goto(c, pc, k)
    BY <1>6 DEF CompleteApplied, CompleteNotApplied, Finish, Fail, CancelStep, CancelFails,
       NextCancel, AfterDone
  <2>3. QED
    BY <1>3, <2>1, <2>2
<1>7. CASE RetryFails(c) \/ Crash(c)
  BY <1>7, ReturnedAccounted DEF RetryFails, Crash, At
<1>8. CASE Ack(c)
  <2>1. /\ job[c].pc = "ack" /\ job'[c].pc = "idle"
        /\ \A d \in Consumers \ {c} : job'[d] = job[d]
    BY <1>8 DEF IndInv, TypeOK, Ack, Release, Idle, At
  <2>2. StartsStand
    BY <1>8, <2>1, StartsStandBy DEF Ack, LetsGo, At
  <2>3. QED
    BY <2>1, <2>2 DEF Accounted, StarterOnItsWay, RowsBehind, LetsGo, At
<1>9. CASE RetryUnheard(c)
  <2>1. /\ job[c].pc = "retry" /\ job[c].closed /\ UNCHANGED <<inbox, dlq>>
        /\ Goto(c, "ack", 1)
    BY <1>9 DEF RetryUnheard, At
  <2>2. /\ \A d \in Consumers \ {c} : job'[d] = job[d]
        /\ job'[c].pc = "ack" /\ job'[c].msg = job[c].msg
    BY <2>1 DEF IndInv, TypeOK, Goto
  <2>3. LetsGo(c) /\ RowsBehind(c)'
    BY <2>1, <2>2 DEF LetsGo, RowsBehind, At
  <2>4. QED
    BY <2>1, <2>2, <2>3, ClosedAccounted
<1>10. QED
  BY <1>1, <1>2, <1>4, <1>5, <1>6, <1>7, <1>8, <1>9, ReceiveStartAccounted,
     ReceiveResultAccounted, RetryAccounted, CreateRowAccounted, TriggerAppliedAccounted,
     ClosesAccounted
  DEF Work, Inner, Fault

(* Nothing of the environment takes a start event away. *)
LEMMA EnvironmentStartsStand ==
    ASSUME IndInv, Environment
    PROVE  StartsStand
<1>1. UNCHANGED <<dlq, job>>
  BY DEF Environment, EventArrives, WorkerFailsUpload, FinalizedAgain, WorkerSettles, WorkerReports
<1>2. \A n \in StartMsgs : inbox[n] > 0 => inbox'[n] > 0
  <2>1. CASE \E m \in Msgs : inbox' = Put(inbox, m)
    BY <2>1, PutKeeps
  <2>2. CASE UNCHANGED inbox
    BY <2>2
  <2>3. \A u \in Uploads : [kind |-> "start", upload |-> u, attempt |-> 0] \in Msgs
    BY MaxRetriesAssumption DEF Msgs, StartMsgs, Attempts
  <2>4. \A u \in Uploads, s \in Steps, o \in Outcomes :
           [kind |-> "result", upload |-> u, step |-> s, outcome |-> o, attempt |-> 0] \in Msgs
    BY MaxRetriesAssumption DEF Msgs, ResultMsgs, Attempts
  <2>5. QED
    BY <2>1, <2>2, <2>3, <2>4
    DEF Environment, EventArrives, WorkerFailsUpload, FinalizedAgain, WorkerSettles, WorkerReports
<1>3. QED
  BY <1>1, <1>2 DEF StartsStand, StartKept, LetsGo, At

(* In every step the rows stand and the start events stand. *)
LEMMA StepStands ==
    ASSUME IndInv, LaunchInv, [Next]_vars
    PROVE  /\ RowsStand /\ StartsStand
           /\ \A d \in Starters : job'[d] = job[d] \/ StarterOnItsWay(d)'
           /\ \A u \in Uploads, s \in Steps :
                 triggered'[u][s] > 0 => triggered[u][s] > 0 \/ Created(u)
<1>1. RowsStand
  BY StepRowsStand
<1>2. CASE UNCHANGED vars
  BY <1>1, <1>2 DEF vars, StartsStand, StartKept, LetsGo, At
<1>3. CASE Environment
  BY <1>1, <1>3, EnvironmentStartsStand
  DEF Environment, EventArrives, WorkerFailsUpload, FinalizedAgain, WorkerSettles, WorkerReports
<1>4. ASSUME NEW c \in Consumers, Work(c) \/ Fault(c)
      PROVE  /\ StartsStand
             /\ \A d \in Starters : job'[d] = job[d] \/ StarterOnItsWay(d)'
             /\ \A u \in Uploads, s \in Steps :
                   triggered'[u][s] > 0 => triggered[u][s] > 0 \/ Created(u)
  <2>1. Accounted(c)
    BY <1>1, <1>4, ConsumerAccounted
  <2>2. \A d \in Starters : job'[d] = job[d] \/ StarterOnItsWay(d)'
    BY <2>1 DEF Accounted, Consumers
  <2>3. CASE PublishStep(c)
    <3>1. PICK u \in Uploads, t \in Steps :
             /\ u = job[c].msg.upload /\ t = Target(job[c]) /\ Created(u)
      BY <2>3, TriggersAreCreated, TargetTyped DEF PublishStep, At, IndInv
    <3>2. \A v \in Uploads, s \in Steps : v = u \/ triggered'[v][s] = triggered[v][s]
      BY <2>3, <3>1 DEF PublishStep, IndInv, TypeOK
    <3>3. QED
      BY <2>1, <2>2, <3>1, <3>2 DEF Accounted
  <2>4. CASE UNCHANGED triggered
    BY <2>1, <2>2, <2>4 DEF Accounted
  <2>5. QED
    BY <1>4, <2>3, <2>4
    DEF Work, Inner, Fault, ReceiveStart, ReceiveResult, CreateRow, TriggerApplied,
        TriggerNotApplied, CompleteApplied, CompleteNotApplied, Finish, Fail, CancelStep,
        RetryLater, DeadLetter, Ack, CallFails, ReplyLost, CancelFails, RetryFails, Crash,
        ChannelCloses, RetryUnheard
<1>5. QED
  BY <1>1, <1>2, <1>3, <1>4 DEF Next

(* Every step preserves LaunchInv. *)
LEMMA LaunchStep ==
    ASSUME IndInv, LaunchInv, [Next]_vars
    PROVE  LaunchInv'
BY StepStands, LaunchKept

(* The initial states satisfy LaunchInv. *)
LEMMA LaunchInit == Init => LaunchInv
<1> SUFFICES ASSUME Init PROVE LaunchInv
  OBVIOUS
<1>1. \A c \in Starters : StarterOnItsWay(c)
  BY DEF Init, StarterOnItsWay, RowsBehind, LetsGo, Idle, At, Consumers
<1>2. EnteredMeansCreated /\ RowsBeforeDispatch
  BY DEF Init, EnteredMeansCreated, RowsBeforeDispatch, Row, Entered
<1>3. QED
  BY <1>1, <1>2 DEF LaunchInv

(* A step in which the last pending copy of a start event disappears has    *)
(* its upload launched.                                                     *)
LEMMA LostOnlyLaunched ==
    ASSUME IndInv, LaunchInv, [Next]_vars, NEW u \in Uploads, StartPending(u), ~StartPending(u)'
    PROVE  Launched(u)'
<1>1. StartKept(u) \/ Launched(u)
  BY DEF StartPending, StartKept, LaunchInv, StarterOnItsWay, LetsGo, At
<1>2. ~StartKept(u)'
  BY DEF StartPending, StartKept, At
<1>3. RowsStand /\ StartsStand
  BY StepStands
<1>4. QED
  BY <1>1, <1>2, <1>3, CreatedStands DEF StartsStand

--------------------------------------------------------------------------------
(* The refinement of Chain: what each step of the orchestrator does to      *)
(* rows, status and dispatches is a step of Chain, or nothing.              *)

(* The tables of Chain are the orchestrator's. *)
LEMMA SameTables == C!Steps = Steps /\ C!Chained = Chained /\ C!Downstream = Downstream
BY DEF C!Steps, Steps, C!Chained, Chained, C!Downstream, Downstream

(* A step of Chain or a stutter. *)
ChainStep == C!Next \/ UNCHANGED C!chainVars

(* A row write that an INSERT or an UPDATE other than a trigger's makes. *)
LEMMA RowRefines ==
    ASSUME TypeOK, NEW u \in Uploads, NEW s \in Steps,
           NEW row \in {Insert(Row(u, s))}
                          \cup {Update(Row(u, s), t) : t \in {"done", "failed", "canceled"}},
           SetRow(u, s, row), UNCHANGED <<status, triggered>>
    PROVE  ChainStep
<1>1. CASE row = Row(u, s)
  <2>1. UNCHANGED steps
    BY <1>1 DEF TypeOK, SetRow, Row
  <2>2. QED
    BY <2>1 DEF ChainStep, C!chainVars
<1>2. CASE row # Row(u, s)
  <2>1. C!Move(u, s, row)
    BY DEF C!Move, SetRow
  <2>2. \/ Row(u, s) = "absent" /\ row = "pending"
        \/ Row(u, s) = "processing" /\ row \in {"done", "failed"}
        \/ Row(u, s) \in {"pending", "processing"} /\ row = "canceled"
    BY <1>2 DEF Insert, Update, Applies, Allowed
  <2>3. C!Create(u, s) \/ C!Settle(u, s) \/ C!Cancel(u, s)
    BY <2>1, <2>2 DEF C!Create, C!Settle, C!Cancel, Row
  <2>4. QED
    BY <2>3, SameTables DEF ChainStep, C!Next
<1>3. QED
  BY <1>1, <1>2

(* Whoever triggers a step has all rows of its upload, and the step's       *)
(* predecessor done.                                                        *)
LEMMA TriggerEnabled ==
    ASSUME IndInv, LaunchInv, NEW c \in Consumers, job[c].pc \in {"trigger", "publish"}
    PROVE  /\ job[c].msg.upload \in Uploads /\ Target(job[c]) \in Steps
           /\ C!Complete(job[c].msg.upload)
           /\ C!Enabled(job[c].msg.upload, Target(job[c]))
<1>1. job[c].msg.upload \in Uploads /\ Target(job[c]) \in Steps
  BY TargetTyped, TriggersAreCreated DEF IndInv
<1>2. C!Complete(job[c].msg.upload)
  BY TriggersAreCreated, SameTables DEF Created, Row, C!Complete
<1>3. C!Enabled(job[c].msg.upload, Target(job[c]))
  BY TargetFollows, SameTables DEF Row, C!Enabled
<1>4. QED
  BY <1>1, <1>2, <1>3

(* The conditional UPDATE of a trigger begins the step, or changes nothing. *)
LEMMA TriggerRefines ==
    ASSUME IndInv, LaunchInv, NEW c \in Consumers, At(c, "trigger"),
           SetRow(job[c].msg.upload, Target(job[c]),
                  Update(Row(job[c].msg.upload, Target(job[c])), "processing")),
           UNCHANGED <<status, triggered>>
    PROVE  ChainStep
<1> DEFINE u == job[c].msg.upload
           t == Target(job[c])
<1>1. u \in Uploads /\ t \in Steps /\ C!Complete(u) /\ C!Enabled(u, t)
  BY TriggerEnabled DEF At
<1>2. CASE Row(u, t) = "pending"
  <2>1. C!Begin(u, t)
    BY <1>1, <1>2 DEF C!Begin, C!Move, SetRow, Row, Update, Applies, Allowed
  <2>2. QED
    BY <1>1, <2>1, SameTables DEF ChainStep, C!Next
<1>3. CASE Row(u, t) # "pending"
  <2>1. UNCHANGED steps
    BY <1>1, <1>3 DEF IndInv, TypeOK, SetRow, Row, Update, Applies, Allowed
  <2>2. QED
    BY <2>1 DEF ChainStep, C!chainVars
<1>4. QED
  BY <1>2, <1>3

(* A publish to the exchange is the only dispatch of its step. *)
LEMMA PublishRefines ==
    ASSUME IndInv, LaunchInv, NEW c \in Consumers, PublishStep(c)
    PROVE  ChainStep
<1> DEFINE u == job[c].msg.upload
           t == Target(job[c])
<1>1. u \in Uploads /\ t \in Steps /\ C!Complete(u) /\ C!Enabled(u, t)
  BY TriggerEnabled DEF PublishStep, At
<1>2. Moved(u, t) /\ triggered[u][t] = 0
  BY DEF PublishStep, IndInv, PublisherAlone
<1>3. triggered' = [triggered EXCEPT ![u][t] = 1]
  BY <1>1, <1>2 DEF PublishStep, IndInv, TypeOK
<1>4. C!Dispatch(u, t)
  BY <1>1, <1>2, <1>3 DEF C!Dispatch, PublishStep, Moved, Row
<1>5. QED
  BY <1>1, <1>4, SameTables DEF ChainStep, C!Next

(* A status other than finished may be written at any time. *)
LEMMA StatusRefines ==
    ASSUME NEW u \in Uploads, NEW st \in {"processing", "failed"},
           status' = [status EXCEPT ![u] = st], UNCHANGED <<steps, triggered>>
    PROVE  ChainStep
<1>1. C!SetStatus(u, st)
  BY DEF C!SetStatus
<1>2. QED
  BY <1>1 DEF ChainStep, C!Next

(* The chain behind a publish that is done is done. *)
LEMMA PublishedChainDone ==
    ASSUME IndInv, NEW u \in Uploads, Row(u, "publish") = "done"
    PROVE  \A s \in Chained \cup {"publish"} : Row(u, s) = "done"
<1>1. Row(u, "segment") = "done"
  BY StepFacts DEF IndInv, ChainInOrder, Entered, Chained
<1>2. Row(u, "transcode") = "done"
  BY <1>1, StepFacts DEF IndInv, ChainInOrder, Entered, Chained
<1>3. Row(u, "extract_metadata") = "done"
  BY <1>2, StepFacts DEF IndInv, ChainInOrder, Entered, Chained
<1>4. QED
  BY <1>1, <1>2, <1>3 DEF Chained

(* Finished is written by a handler that found publish done, at the end of  *)
(* a chain that is done.                                                    *)
LEMMA FinishRefines ==
    ASSUME IndInv, NEW c \in Consumers, At(c, "finish"),
           status' = [status EXCEPT ![job[c].msg.upload] = "finished"],
           UNCHANGED <<steps, triggered>>
    PROVE  ChainStep
<1> DEFINE u == job[c].msg.upload
<1>1. u \in Uploads /\ c \in Handlers
  BY JobFields DEF IndInv, At, Consumers
<1>2. Row(u, "publish") = "done"
  BY <1>1 DEF IndInv, HandlerFollowsDone
<1>3. \A s \in Chained \cup {"publish"} : Row(u, s) = "done"
  BY <1>1, <1>2, PublishedChainDone
<1>4. C!SetStatus(u, "finished")
  BY <1>3, SameTables DEF C!SetStatus, Row
<1>5. QED
  BY <1>1, <1>4 DEF ChainStep, C!Next

(* Every call of a consumer, with its faults. *)
LEMMA ConsumerRefines ==
    ASSUME IndInv, LaunchInv, NEW c \in Consumers, Work(c) \/ Fault(c)
    PROVE  ChainStep
<1> DEFINE u == job[c].msg.upload
           s == pipelineSteps[job[c].k]
<1>1. CASE UNCHANGED <<steps, status, triggered>>
  BY <1>1 DEF ChainStep, C!chainVars
<1>2. CASE At(c, "create") /\ SetRow(u, s, Insert(Row(u, s))) /\ UNCHANGED <<status, triggered>>
  <2>1. u \in Uploads /\ s \in Steps
    BY <1>2, JobFields, StepFacts DEF At, IndInv
  <2>2. QED
    BY <1>2, <2>1, RowRefines DEF IndInv
<1>3. CASE /\ At(c, "cancel") /\ SetRow(u, s, Update(Row(u, s), "canceled"))
           /\ UNCHANGED <<status, triggered>>
  <2>1. u \in Uploads /\ s \in Steps
    BY <1>3, JobFields, StepFacts DEF At, IndInv
  <2>2. QED
    BY <1>3, <2>1, RowRefines DEF IndInv
<1>4. CASE /\ At(c, "complete")
           /\ SetRow(u, job[c].msg.step, Update(Row(u, job[c].msg.step), "done"))
           /\ UNCHANGED <<status, triggered>>
  <2>1. u \in Uploads /\ job[c].msg.step \in Steps
    BY <1>4, JobFields DEF At, IndInv
  <2>2. QED
    BY <1>4, <2>1, RowRefines DEF IndInv
<1>5. CASE /\ At(c, "trigger")
           /\ SetRow(u, Target(job[c]), Update(Row(u, Target(job[c])), "processing"))
           /\ UNCHANGED <<status, triggered>>
  BY <1>5, TriggerRefines
<1>6. CASE PublishStep(c)
  BY <1>6, PublishRefines
<1>7. CASE /\ At(c, "finish") /\ status' = [status EXCEPT ![u] = "finished"]
           /\ UNCHANGED <<steps, triggered>>
  BY <1>7, FinishRefines
<1>8. CASE /\ At(c, "fail") /\ status' = [status EXCEPT ![u] = "failed"]
           /\ UNCHANGED <<steps, triggered>>
  <2>1. u \in Uploads
    BY <1>8, JobFields DEF At, IndInv
  <2>2. QED
    BY <1>8, <2>1, StatusRefines
<1>9. CASE CreateRow(c)
  BY <1>2, <1>9 DEF CreateRow
<1>10. CASE CancelStep(c)
  BY <1>3, <1>10 DEF CancelStep
<1>11. CASE CompleteApplied(c)
  BY <1>4, <1>11 DEF CompleteApplied, Update
<1>12. CASE TriggerApplied(c)
  BY <1>5, <1>12 DEF TriggerApplied, Update
<1>13. CASE ReplyLost(c)
  BY <1>2, <1>4, <1>5, <1>7, <1>8, <1>13 DEF ReplyLost
<1>14. CASE Finish(c) \/ Fail(c)
  BY <1>7, <1>8, <1>14 DEF Finish, Fail
<1>15. QED
  BY <1>1, <1>6, <1>9, <1>10, <1>11, <1>12, <1>13, <1>14
  DEF Work, Inner, Fault, ReceiveStart, ReceiveResult, TriggerNotApplied, CompleteNotApplied,
      RetryLater, DeadLetter, Ack, CallFails, CancelFails, RetryFails, Crash,
      ChannelCloses, RetryUnheard

(* Every step of the orchestrator and its environment. *)
LEMMA StepRefines ==
    ASSUME IndInv, LaunchInv, [Next]_vars
    PROVE  ChainStep
<1>1. CASE UNCHANGED <<steps, status, triggered>>
  BY <1>1 DEF ChainStep, C!chainVars
<1>2. CASE \E u \in Uploads, s \in Steps, o \in Outcomes : WorkerSettles(u, s, o)
  BY <1>2, RowRefines DEF WorkerSettles, Outcomes, IndInv
<1>3. CASE \E u \in Uploads : WorkerFailsUpload(u) \/ FinalizedAgain(u)
  BY <1>3, StatusRefines DEF WorkerFailsUpload, FinalizedAgain
<1>4. QED
  BY <1>1, <1>2, <1>3, ConsumerRefines
  DEF Next, vars, Environment, EventArrives, WorkerReports

--------------------------------------------------------------------------------
(* Every state of the orchestrator satisfies the inductive invariant: a     *)
(* dispatch has a unique owner between its applied update and its publish,  *)
(* and every step past pending has its predecessor done.                    *)
THEOREM Invariance == Spec => []IndInv
<1>1. Init => IndInv
  BY InitInv
<1>2. IndInv /\ [Next]_vars => IndInv'
  BY StepInv
<1>3. QED
  BY <1>1, <1>2, PTL DEF Spec

(* The orchestrator's variables keep their domains and its loop indices     *)
(* stay inside pipelineSteps and initialSteps.                              *)
THEOREM TypeCorrect == Spec => []TypeOK
<1>1. IndInv => TypeOK
  BY DEF IndInv
<1>2. QED
  BY <1>1, Invariance, PTL

(* No step of no upload is published twice, for any number of consumers,    *)
(* duplicates, redeliveries, retries, failed calls and crashes.             *)
THEOREM DispatchedOnce == Spec => []DispatchOnce
<1>1. IndInv => DispatchOnce
  BY DEF IndInv
<1>2. QED
  BY <1>1, Invariance, PTL

(* A chained step starts only after the step before it is done, in every    *)
(* order in which workers may settle rows and results may arrive.           *)
THEOREM ChainOrdered == Spec => []ChainInOrder
<1>1. IndInv => ChainInOrder
  BY DEF IndInv
<1>2. QED
  BY <1>1, Invariance, PTL

(* An upload the orchestrator reports finished has extract_metadata,        *)
(* transcode, segment and publish done.                                     *)
THEOREM FinishedChainDone == Spec => []FinishedMeansChainDone
<1>1. IndInv => FinishedMeansChainDone
  BY PublishedChainDone DEF IndInv, FinishedMeansPublished, FinishedMeansChainDone
<1>2. QED
  BY <1>1, Invariance, PTL

(* No step is dispatched before all five rows of its upload exist, and a    *)
(* start event is let go of only after its work, or in favour of a copy.    *)
THEOREM LaunchInvariance == Spec => []LaunchInv
<1>1. Init => IndInv /\ LaunchInv
  BY InitInv, LaunchInit
<1>2. IndInv /\ LaunchInv /\ [Next]_vars => (IndInv /\ LaunchInv)'
  BY StepInv, LaunchStep
<1>3. QED
  BY <1>1, <1>2, PTL DEF Spec

(* The last copy of a start event disappears only once both initial steps   *)
(* have been moved past pending.                                            *)
THEOREM StartsAreKept == Spec => StartNotLost
<1>1. IndInv /\ LaunchInv /\ [Next]_vars =>
         [\A u \in Uploads : StartPending(u) /\ ~StartPending(u)' => Launched(u)']_vars
  BY LostOnlyLaunched
<1>2. QED
  BY <1>1, Invariance, LaunchInvariance, PTL DEF Spec, StartNotLost

(* The orchestrator implements Chain: with consumers, messages, retries,    *)
(* failed calls, lost replies and crashes hidden, what triggerStep,         *)
(* HandleStepResult and the workers do to rows, statuses and dispatches is  *)
(* one run of the chain per upload, each step begun and dispatched once.    *)
THEOREM OrchestratorImplementsChain == Spec => ImplementsChain
<1>1. Init => C!Init
  BY SameTables DEF Init, C!Init
<1>2. IndInv /\ LaunchInv /\ [Next]_vars => [C!Next]_(C!chainVars)
  BY StepRefines DEF ChainStep
<1>3. QED
  BY <1>1, <1>2, Invariance, LaunchInvariance, PTL DEF Spec, ImplementsChain, C!Spec
================================================================================
