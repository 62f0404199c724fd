# A TLA+ verification of go-video-upload

The repository is a video pipeline in Go: an upload API, an outbox dispatcher,
an orchestrator, five workers and an expirer, over one Postgres database and
RabbitMQ. This directory holds its TLA+ model, the TLC runs that check it on
small instances, and theorems proved with TLAPS for every instance. Paths are
relative to the repository's root, which is `src/` in PROJECT.json.

## 1. Inventory

| Component | State it keeps | Operations | What makes it correct |
|---|---|---|---|
| Step table (`upload_step_repository.go`, `db/create_tables.sql`) | `upload_steps`: one row per upload and step, its status | `CreateSteps` (insert or ignore), `UpdateStepStatus` (one conditional UPDATE per target status, answers `Applied`) | a row moves pending → processing → done/failed, or to canceled, and a settled row never moves |
| Broker and retry helper (`pkg/rabbitmq`) | queues, delay queues, DLQs, `x-retry-count` | publish, consume, ack/nack, `HandleRetry` | a message is handled at least once, retried `MaxRetries` times, then parked; none is lost |
| Orchestrator (`services/orchestrator`) | none of its own: what its two consumers are doing | `ProcessUploadProcess`, `HandleStepResult`, `triggerStep` | every step dispatched at most once, in chain order; finished only at the end of the chain; failure cancels the rest |
| Workers (`services/metadata, thumbnail, transcode, segment, publish`) | none of their own; each consumes one step queue | the step's work, `UpdateUploadStep(done)`, `PublishStepResult`, `ReportFailed` | one result per step, agreeing with the row; a failed step is in the DLQ |
| Upload service (`services/upload`) | `videos`, `uploads`, `video_renditions`, `outbox_events` | presign, finalize, status, expiry, metadata/thumbnail/playback, renditions | a finalized upload has its outbox event; an expired one is never processed |
| Outbox dispatcher (`services/outbox-dispatcher`) | `outbox_events`: status, attempts, next attempt | `ClaimPendingBatch`, publish, `MarkSent`, `MarkPendingWithError` | every committed event is relayed, at least once |
| Expirer (`services/expirer`) | none | ticker calling `ExpireStaleUploads` | only pending, overdue uploads expire |
| Renditions and the `videos` row (`rendition_repository.go`, `video_repository.go`, the work of the five workers) | `video_renditions`, `videos`, the files in storage; each attempt's list and the row it read | `CreateBatch`, `ListPending`, `UpdateRendition`, `ListReady`, `UpdateVideoMetadata`, `UpdateVideoThumbnail`, `UpdateVideoPlayback`, the uploads | a done step has delivered all its product; the master playlist lists what is there, and all of it |
| HTTP API (`upload_controller.go`, `http/middleware`, `http/routes`) | none of its own: where each request is, and what it was answered | middleware, six routes, the code of every error | an answer stays true; a refused request has changed nothing |
| Processes, connections, queues (every `main()`, `pkg/rabbitmq`) | which processes run, their one connection, what the broker has declared, where each message is | start-up, declarations, publish, deliver, retry, dead-letter, crash, SIGTERM, outage | no accepted message vanishes; a served queue keeps what is published; a dead letter had all its attempts |
| gRPC adapters, object storage, ffmpeg, ffprobe | objects in the buckets | stateless calls | modelled as the calls of whoever makes them, with error and lost reply |
| Metrics, logging, generated code, e2e client, deployment files | none of the pipeline's | I/O | not modelled |

How they interact: `FinalizeUpload` writes the upload and an outbox event in one
transaction; the dispatcher publishes the event to the queue `upload-process`;
the orchestrator creates five step rows over gRPC and publishes the first two
steps to the exchange `pipeline-steps`; each worker consumes the queue bound to
its step, writes its row over gRPC, and publishes its result to the queue
`upload-process-step`; the orchestrator turns results into the next steps. All
state is in Postgres behind the upload service; every call is a separate
transaction, every queue is at-least-once, and any number of replicas of a
service may run.

What is hard: calls of two consumers interleave between any two statements;
deliveries are repeated and reordered by retries; a call can fail, or succeed
and lose its reply; a process can die between a statement and the publish or ack
that follows it; a broken connection is never dialled again, so a process can be
up and deaf. The list, line by line, is `hazards` in PROJECT.json.

## 2. Plan

Written in this order, the most important behaviour first:

1. `StepTable`, `Broker`: the two things every component shares. *Done.*
2. `Orchestrator`, an open system whose environment may do anything workers and
   dispatcher can do. Invariants, runs, proofs. *Done.*
3. `Workers`, the same for the five workers. Invariants, runs, proofs. *Done.*
4. `VideoPipeline`, both together: each is the other's environment, and the
   composition implements both open specifications. Runs, proofs. *Done.*
5. `UploadLifecycle`: presign, finalize, `UpdateUploadStatus` and the expirer,
   one action per statement or transaction. Invariants, runs, proofs. *Done.*
6. `OutboxDispatcher`: several dispatchers, claims, publishes, marks, abandoned
   runs; it implements the abstract `Relay`. Invariants, runs, proofs. *Done.*
7. `Renditions`: `CreateBatch`, transcode's fill, the reads of segment and
   publish, and the read-modify-write of the `videos` row. Invariants, runs,
   proofs. *Done.*
8. `Services`: the processes, their start-up and shutdown, the connection, the
   exchange and all queues. Invariants, runs, proofs. *Done.*
9. `UploadAPI`: the HTTP requests around `UploadLifecycle`, with every error and
   status code; it implements `UploadLifecycle`. Invariants, runs, proofs. *Done.*
10. The joint proof of `VideoPipeline`, with the two launch and keep invariants
   it needs of either side. *Done.*
11. `Chain`, what the orchestrator promises of the steps of an upload without its
   consumers and messages; `Orchestrator`, and with it the pipeline, implements
   it. Where a fault-free upload comes to rest (`WorkInv`, `AtRest`). *Done.*

Next: that the queues of `Services` implement the bag of `Broker`, message by
message, so that the composition may be read over either.

Not written: a module joining `UploadLifecycle` and `OutboxDispatcher` by the
outbox table, as `VideoPipeline` joins orchestrator and workers. The table is a
one-way interface (finalize inserts a pending row and never looks at it again),
and the dispatcher's `Commit` may happen at any moment, so the composition would
add behaviours to neither side. The one thing of `UploadLifecycle` that reaches
the pipeline later, a second finalize request that writes the status late, is in
`VideoPipeline` as `FinalizedAgain`.

## 3. Modules and the code they model

`StepTable` has the pipeline's constants (`pipelineSteps`, `initialSteps`, the
switch of `HandleStepResult` as the function `Downstream`) and what one SQL
statement does to one row: `Insert`, and `Update(row, target)` with
`Applies(row, target)` for `RowsAffected() = 1`. A missing row is the value
"absent". Every module changes rows only through these operators.

`Broker` is a queue as a bag of messages. Retries and redeliveries reorder
messages, so a bag is what the code may rely on. A message's `x-retry-count` is
its field `attempt`. A delay queue dead-letters back to the main queue after a
fixed time; a copy put straight back can be delivered at any later moment, which
includes that time. `Services`, below, does not fold them.

`Orchestrator` has one consumer per goroutine of `RunUploadProcessConsumer`
(`Starters`) and `RunStepResultConsumer` (`Handlers`); replicas of the service
are more elements of these sets. A consumer's `job` is the delivery it holds and
the call it makes next. One action is one call that leaves the process:

| Action | Code |
|---|---|
| `ReceiveStart`, `ReceiveResult`, `Ack` | the consumer loops |
| `CreateRow` | one INSERT of the loop in `CreateSteps`, which is not a transaction |
| `TriggerApplied`, `TriggerNotApplied`, `PublishStep` | `triggerStep` |
| `CompleteApplied`, `CompleteNotApplied`, `Finish` | `HandleStepResult(done)` |
| `Fail`, `CancelStep` | `HandleStepResult(failed)` and its loop |
| `RetryLater`, `DeadLetter` | `HandleRetry` |
| `CallFails`, `ReplyLost`, `CancelFails`, `RetryFails`, `Crash` | a call that fails before or after it took effect, a discarded error, a failed publish with its nack, a dead process |
| `ChannelCloses`, `RetryUnheard` | the delivery's channel closes under a handler that goes on; its `HandleRetry` writes to that channel and gets nil |
| `EventArrives`, `WorkerSettles`, `WorkerReports`, `WorkerFailsUpload`, `FinalizedAgain` | the environment |

`job[c].closed` is the fault that takes most care. A consumer acks and retries on
the channel its delivery came on, while `PublishStep` and `PublishStepResult` open
one of their own. When the first closes (the connection broke, or the broker
waited too long for an ack), the broker requeues the delivery, and the handler
knows nothing of it: it makes its remaining calls, and a retry or DLQ copy it
publishes may be lost with a nil error. So the same message is handled twice at
the same time, by one handler that will be heard and one that will not.

`Chain` is the orchestrator without consumers, messages, retries and failed
calls: six actions on `steps`, `status` and `triggered`. A step begins when all
five rows exist and its predecessor is done, is dispatched once after that, and
settles once; an upload is set to finished only over a finished chain. The
refinement mapping is the identity on the three variables.

`Workers` gives each service's consumers (`Steps \X Replicas`) the protocol the
five services share. The work of a step before `UpdateUploadStep(done)` is
`WorkDone` or `WorkFails`: fetching, probing, transcoding, uploading and the
writes to `videos` and `video_renditions` are one step that succeeds or fails.
`Commit` is `UpdateUploadStep(done)`, `ReportDone` the result, `DeadLetter` and
`AckDeadLettered` the exhausted retry, and `FailStep`, `FailUpload`,
`ReportFailed` the three calls of `ReportFailed`, of which only the publish
worker makes the second. Its faults are those of the orchestrator, the closed
channel included. Its environment dispatches steps (again whenever a row is past
pending), moves rows as the orchestrator can, and sets an upload's status to
anything (`StatusMoves`: the orchestrator's, and a late finalize request).

`VideoPipeline` instantiates both over the same `steps` and `status`.
`DispatchStep` is `PublishStep` together with the routing of the exchange,
`Report` is `PublishStepResult` together with the arrival in the orchestrator's
queue, `DispatchUnrouted` a publish before the worker has bound its queue, or one
lost with the connection. Left outside are the dispatcher and the late finalize
requests. It has two instances, `O` and `W`, and its
refinement mapping is the identity: `O!Spec` and `W!Spec` see their own
variables and the shared rows.

In these modules uploads enter when `FinalizeUpload` has made them `processing`.

`UploadLifecycle` is what happens before. `Clients` are HTTP requests being
served, `Sweepers` calls of `ExpireStaleUploads`; `request[c]` is the call a
handler makes next, `batch[x]` the candidates a sweep has not come to.

| Action | Code |
|---|---|
| `CreateVideo`, `CreateUpload`, `PresignPut` | `RequestPresignURL`, statement by statement |
| `FinalizeRead`, `CheckExists`, `FinalizeProcessingWithOutbox` | `FinalizeUpload`: read and status check, object store, transaction |
| `ListExpiredPending`, `Expire`, `Skip` | `ExpireStaleUploads` and its transaction per candidate |
| `UpdateUploadStatus` | the gRPC call of the orchestrator and the publish worker |
| `Abort`, `SweepAborts` | an error, a client or caller that goes away, a crash; a lost reply is the call followed by this |
| `PutObject`, `BecomesOverdue` | the client's upload, time |

`expires_at` is a set of overdue uploads; a sweep's list takes any `BatchLimit`
stale uploads, which includes the oldest ones.

`UploadAPI` extends it by what the client sees. `reply[c]` is what client `c`
asked, the code it was answered, whether the request has written anything, and
the videos the answer is about. It is a history: no action of `UploadLifecycle`
reads it, so each step of `UploadAPI` is a step of `UploadLifecycle`.

| Action | Code |
|---|---|
| `Screened` | `RequireAPIKey`, `CORS` and the router, in the order `main()` installs them (`Screen`) |
| `PresignStart`, `PresignRow`, `PresignUrl`, `PresignInvalid`, `PresignFails`, `PresignStartFails` | `HandlePresign`: the three calls of `RequestPresignURL`, validation, and 500 |
| `FinalizeStart`, `FinalizeCheck`, `FinalizeWrite`, `FinalizeRefused`, `FinalizeReadFails`, `FinalizeCheckFails`, `FinalizeWriteFails` | `HandleFinalize`: the three calls of `FinalizeUpload`, and which of its errors are 400 and which 500 |
| `UploadFile`, `UploadRefused`, `UploadFails` | `HandleUpload` and `UploadFile` |
| `HandleListVideos`, `HandleListUploads`, `HandleGetVideo`, `ReadFails` | the reads; `parseLimit` and `PageSize` are the limits of `ListAll` |
| `Vanish`, `Background` | a request without an answer; sweeps, storage, time, the gRPC calls |

Two things the code does are in it as they are: when `FinalizeUpload` cannot read
the row, or the object store does not answer, the client gets a 400, because the
service wraps both errors in `ErrFinalizeUpload`, and a preflight `OPTIONS`
without a key is a 401, because the key is asked for before CORS.

`OutboxDispatcher` is `DispatchPending`. `run[d]` splits a batch in the events
not yet handled, the one whose publish returned nil and the one whose publish
returned an error, so each mark knows its event. `Abandon` is every way a run
ends early. A claim takes any due rows up to the limit: SKIP LOCKED passes over
rows other transactions have locked. `delayed` is `next_attempt_at > NOW()`.
`Relay` is its abstract specification: commit, publish, close.

`Renditions` opens up the work that `Workers` takes as one step, for one video:
the rows of `video_renditions` and `videos`, and which objects are in storage.
`wjob[w]` is the call a consumer makes next, the rest of the list it works
through, and the `videos` row it has read. Its step rows follow `StepTable`, and
its environment is any orchestrator that dispatches a step once, and only when
the step before is done (`Trigger`). The code's own gets no further than the
initial steps (§4, `pipeline_stall`); every run of it is a run of this one, so
what holds here holds there, and what is said of transcode, segment and publish
is about the code of those workers. The one violated run of this module keeps to
the steps that are dispatched today (`InitialSpec`). A step that was dispatched
may be delivered again at any time, to any replica.

| Action | Code |
|---|---|
| `Start`, `Commit`, `Abandon` | a delivery, `UpdateUploadStep(done)` and the ack, an attempt that ends early (error, lost reply, crash) |
| `GetByID`, `UpdateVideoMetadata`, `UpdateVideoThumbnail`, `UpdateVideoPlayback` | the read of the row, and the write of the whole row as it was read |
| `insertOne`, `insertCollides` | one INSERT of `CreateBatch`'s loop; the unique key refuses it |
| `ListPending`, `UploadRendition`, `UpdateRendition` | `Transcode`: the list, and per rendition the file and the row |
| `SegmentList`, `ProduceAndUpload` | `Segment`: the list, and per rendition the variant playlist |
| `PublishList`, `UploadMasterPlaylist` | `Publish`: the ready rows, and the playlist made of them |
| `Trigger`, `Cancel`, `ReportFailed` | the orchestrator; a worker whose retries are exhausted |

`Extract` and `computeLadder` are pure: the height of the first video stream,
and the target heights below it.

`Services` is the ground the others stand on: what each `main()` does in order
(`Main`), the one connection of each process (`link`: open, stale when it is
broken and nobody has noticed, closed), what each consumer declares before it
consumes (`SetUp`), and the place of every message.

| Action | Code |
|---|---|
| `Launch`, `StartStep`, `Fatal` | the supervisor; a step of `main()`; its `log.Fatal` |
| `Crash`, `Stop`, `Exit` | a death; SIGTERM and the cancelled context; `main()` returning without waiting for its consumers |
| `LinkBreaks`, `Notice`, `BrokerStops`, `BrokerStarts` | the connection and the broker; nothing dials a second time |
| `Declare`, `Consume`, `ConsumerReturns` | the seven `Run…Consumer` functions: exchange, queue, `DeclareRetryInfrastructure`, binding, `Consume`; a consumer that ends while its process stays |
| `StartPublish`, `PublishArrives`, `PublishVanishes`, `PublishRefused` | `Publish`, which is not confirmed: nil means written to the connection, and the exchange drops what no binding takes |
| `Deliver`, `Succeed`, `Retry`, `Exhaust`, `Reject`, `Ack` | the consumer loop, `HandleRetry`, `SendToDLQ` of a body that does not unmarshal |
| `DelayPasses`, `DlqExpires` | the broker's TTLs |

What a handler does is in the other modules: here it succeeds or fails. Three
choices: only the delivery a handler runs is held, prefetched ones are counted
as ready, to which a broken connection returns them; a publish counts as arrived
once it is on disk; the client library ignores the context of
`PublishWithContext`, so a cancelled one does not stop a publish. `Orchestrator`
and `Workers` may return a delivery at any moment (`Crash`, `ChannelCloses`);
`Services` says when.

The `MC` modules add counters of faults, bounds on the environment and values of
the constants, the fairness of `UploadAPI` and `OutboxDispatcher`, and
`InitialSpec`, which keeps `Renditions` to the initial steps; nothing else.

## 4. Runs

| Run | Question | Result |
|---|---|---|
| `orchestrator` | can two handlers and a starter publish a step twice, advance the chain out of order, or finish early, with results in any order? | holds: `DispatchOnce`, `IndInv`, `ChainInOrder`, `FinishedMeansChainDone`, refinement of `Chain` |
| `workers` | do two replicas, retries and faults report a step twice, or against its row, or lose it? is a row failed whose message is not in the DLQ? | holds: `IndInv`, `ResultMatchesRow`, `ReportedOnce`, `FailedIsDeadLettered`, `StepNotLost` |
| `pipeline_faults` | with failed calls, lost replies, closed channels and crashes: do both sides keep the protocol the other was verified against? is a start event lost, or a step dispatched before its row exists? do results advance the pipeline? | holds: both refinements, `PipelineInv` (of which `RowsBeforeDispatch` is a part), `StartNotLost`, `ResultsAreCommitted`, `StallsAfterInitialSteps` |
| `pipeline_live` | without faults, do the initial steps end, does a failure stop the upload, and in which states can an upload be left with nothing under way? | holds: `InitialStepsSettle`, `FailureStopsUpload`, `WorkInv`, `AtRest` |
| `pipeline_stall` | without faults, does transcode follow extract_metadata? | violated: it never does |
| `services` | with crashes, SIGTERM, broken connections and outages, at start-up and later: does an accepted message vanish, is one dead-lettered early, is a publish to a served queue dropped, is a message left lying? | holds: `IndInv`, `NothingVanishes`, `DeadAfterEveryAttempt`, `KeptOnceServed`, `HandledUnlessStranded` |
| `lifecycle` | do racing requests and sweeps, with a failed call, give an answer that is not or does not stay true, write on behalf of a refused request, lose or double an event, process a missing file, expire a finalized upload, or leave a stale one? | holds: `APIIndInv`, `AnswersAreTrue`, `RefusedChangedNothing`, `OneEventIffHandedOver`, `HandedOverIsStored`, `ExpiresOnlyAbandoned`, `EveryVideoSettles` |
| `lifecycle_finalize` | does finalize write only uploads that are pending? | violated: it revives an expired one |
| `outbox` | do two dispatchers with refused publishes and abandoned runs share, repeat or close a claim wrongly? is every event relayed? | holds: refinement of `Relay`, `RelayedOrStranded`, `IndInv`, `OneCopyPerClaim` |
| `outbox_lost` | is every committed event published, when a run may be abandoned? | violated: a claimed event is stranded |
| `renditions` | do repeated, interrupted attempts leave a done step without its product, a playlist with a hole, or a batch that a retry completes? | holds: `IndInv`, `DoneIsDelivered`, `MasterIsPlayable`, `InterruptedBatchIsFinal` |
| `renditions_overwrite` | has an initial step that is done its part in the `videos` row? | violated: the other one writes back a stale row |

The four violated runs are the findings:

* `pipeline_stall`. A worker moves its row from processing to done and then
  publishes the result. `HandleStepResult` starts by making the same move, and
  returns when that is not `Applied` — which it never is. The pipeline stops
  after `extract_metadata` and `generate_thumbnail`; transcode, segment and
  publish stay pending and the upload stays processing. The repository's tests
  miss it because they publish a result without the worker's own update.
  `ResultsAreCommitted` and `StallsAfterInitialSteps` state the same thing as
  invariants of the composed system, under faults too, and are proved.
* `lifecycle_finalize`. `FinalizeUpload` checks the status when it reads the row
  and writes by id alone after asking the object store. If the expirer's
  transaction comes in between, the expired, soft-deleted upload is set to
  processing and its event is committed. The same write, by a second finalize
  request, can put a finished or failed upload back to processing, and then no
  event follows, since the outbox key is taken. The client is answered 200 in
  either case.
* `outbox_lost`. Only the run that claimed a row can take it out of
  `dispatching`. If that run is cut short between claim and mark, the event is
  never published. `RelayedOrStranded` (in `outbox`) says that this is the only
  way to lose one: not a refused publish, however late, nor a second dispatcher.
* `renditions_overwrite`. `UpdateVideoMetadata` and `UpdateVideoThumbnail` read
  the whole row, change their columns in memory and write every column back. The
  two initial steps run in parallel in two services, so metadata can read the
  row, the thumbnail's path be written, and metadata write the row without it.
  Both steps end done and nothing writes the path again. No failure, redelivery
  or second replica is needed. The integration test of the two calls expects the
  format and the path to be there (`integration_test.go:565`, `:585`) and makes
  them one after the other.

`InterruptedBatchIsFinal` holds and is bad news: after the first INSERT of an
attempt that did not finish, no retry of `extract_metadata` can succeed.

Three results that hold say what the code does not do. `FinishedMeansChainDone`
stops at the chain: an upload can be finished while its thumbnail is not, though
a comment at `db/create_tables.sql:40` has the orchestrator check "when all are
done". `HandledUnlessStranded` needs its exception: a consumer whose channel
closed returns, its process stays up, and nothing serves the queue until the
process is relaunched. `EveryVideoSettles` needs its own: a presign request that
fails between its two INSERTs leaves a video no sweep looks for.

Two more say how far a guarantee goes. `FailureStopsUpload` is "for good" in a
pipeline without faults and without a second finalize request, which may write
`processing` over `failed`. `FailedIsDeadLettered` has an exception: a worker
whose channel closed before it parked the message gets nil from the publish,
takes the retries for exhausted and fails the step, while the message itself was
requeued, is handled again and finds the row failed.

The open `Orchestrator` stays worth verifying beside the first finding: its
environment may also report without committing, which is how the repository's
tests drive it, and there the whole chain runs.

### Bounds

* One upload: no operation reads or writes two uploads' rows, and messages of
  two uploads share nothing but a queue, which is a bag.
* `orchestrator` has one starter, two handlers and `ChainResults`: the done
  results of the four chained steps and one failure, so `finished` is reached and
  two results conflict in every way (same step, next step, failure with its
  cancel loop). A result can be sent any number of times, the next when the
  queues are empty, while the consumers hold others. The starter's calls fail
  without a bound, with `MaxRetries` = 1: first try, retry and DLQ all occur. The
  handlers' faults are in `pipeline_faults`; all of it at once, with any number
  of consumers, is covered by the proof. Statements of the environment that would
  change nothing, such as an UPDATE that matches no row, are left out.
* `workers` dispatches only `publish`, the one step whose `ReportFailed` has the
  additional call; the other four are the same protocol without it. Two
  replicas, two retries, two messages in the queue, two faults.
* `pipeline_faults` has one instance of everything, two faults and
  `MaxRetries` = 1, so first try, retry and DLQ all occur, and so does every
  action. What follows a closed channel is not counted as a further fault, so a
  failed call under a closed channel is in it. `pipeline_live` has two consumers
  of each of the orchestrator's queues, the code's own three retries and no bound
  at all.
* `services` deploys the orchestrator and the metadata worker, with one queue of
  each kind (a step queue behind the exchange, a queue published to by name) and
  one message for each, one of which does not unmarshal. Each process
  publishes to the other, so every order of start-ups occurs. `MaxRetries` = 1 has
  the first try, a delay queue and the DLQ; two faults of any kind, so a relaunch
  can meet an outage. No environment variable is missing here, which would only
  keep a process down; the proof has any configuration, all nine services, any
  messages and no bound on faults other than that there is one.
* `lifecycle` has two videos, two clients, one sweep and `BatchLimit` = 1, so a
  sweep's list is full and one upload can keep another waiting; page sizes 1 and
  2, so a page can be cut; one fault. Requests that touch no row come from one of
  the clients (`Readers`): they change nothing for the other. `outbox` has three
  events for a limit of two, so a batch is full and one event is left over.
* `renditions` has one consumer per step and a file with two target heights, so
  that a list has a middle; attempts of one step follow each other, attempts of
  different steps overlap. Nothing else is bounded. Two attempts of one step at a
  time take two consumers: the proofs have any number. `renditions_overwrite`
  dispatches only the initial steps, has one consumer of each, and one height.
* `lifecycle_finalize` and `outbox_lost` have one video and one event: enough.
* Counters: `inbox` and `stepQ` are bounded through the environment's sends, in
  `orchestrator` by sending only into empty queues;
  `triggered` and `reported` are bounded by the properties they are there for.

Deadlock checking is off in every run: a pipeline with nothing in its queues, or
an outbox with nothing pending, has no step to take, and that is its normal end;
in `lifecycle` and `services` it is off because a client need not ask and a
process that is up and idle has nothing to do.

### Fairness

`FaultFreeSpec` has weak fairness per goroutine: a consumer that can make its
next call eventually makes it, the broker delivers to a consumer that is idle,
and the dispatcher's ticker relays a pending event. The code justifies it: each
consumer is a loop that does nothing but receive and handle, without a lock or a
timeout. It says nothing about success: the work of a step may fail every time.
Faults are left out of the two runs of `VideoPipeline` with liveness, because
with them the properties are false by design (an ignored cancel, a lost result);
the safety runs have them.

`lifecycle`, `outbox` and `services` keep their faults, in finite number: a
ticker calls again after a run that failed, so what they promise they promise
after the last fault. Weak fairness is on a sweep's steps and on a dispatcher's,
each a loop over a ticker (`runScheduler`), and on the passing of a retry delay.
Nothing is assumed of HTTP clients: a request may never come, and nobody need put an object.
A handler that has begun goes on unless it fails, and time makes a pending
upload overdue.

`services` assumes that the broker comes back, that a broken connection is
noticed (heartbeats and failed writes), that each goroutine takes its next step,
that a delay passes, and that a process that is down is launched again. The last
is the deployment's: `production-deploy-plan.md` has `restart: unless-stopped`
and `--restart always`; `docker-compose.yml` sets no restart policy for a
service, and there `HandledUnlessStranded` would hold only up to the first exit.

## 5. Proofs

Eight modules prove the invariants of their specifications for every set of
uploads, videos, events, consumers, replicas, handlers, clients, sweeps,
dispatchers, services, queues and messages, every `MaxRetries` in Nat, every
batch limit, any streams of the file, and any number of faults:
`OrchestratorProofs`, `WorkersProofs`, `PipelineProofs`, `UploadProofs`,
`APIProofs`, `OutboxProofs`, `RenditionsProofs` and `ServicesProofs`. The
assumptions are `MaxRetriesAssumption`, `ConsumersAssumption` (a goroutine
consumes one of the two queues; `PipelineAssumption` is both of these),
`WorkersAssumption`, `StreamsAssumption` (what ffprobe lists),
`DeploymentAssumption` (each queue's consumer is deployed, each message has a
queue and a publisher), and `BatchLimitAssumption` and `LimitsAssumption`, which
the proofs do not need.

**Orchestrator.** `DispatchOnce` is not inductive: between an applied update
and its publish nothing is published yet, and a second consumer in the same place
would publish a second time. `PublisherAlone` says that there is one such
consumer per step and that nothing was published before; `DispatchedHasMoved`
says why no later update is Applied. `ChainInOrder` needs `HandlerFollowsDone`:
a handler on its way to trigger found its own update Applied, and done is never
left. `FinishedMeansPublished` is the step from `status` to the chain.
`IndInv` is their conjunction, and `FinishedMeansChainDone` follows by walking
the chain back from publish.

`LaunchInv` is about the start event. `StarterOnItsWay` says what a starter has
behind it (`RowsBehind`): the rows its loop has inserted, all five before it
triggers, the first step before the second. Of a starter that *lets go* of the
event, because it is at its ack or because its channel is closed (`LetsGo`), it
says that both steps have moved or that the event is *kept*: queued, parked, or
held by a starter that does not let go. `StartPending` would not do here, because
two starters at their acks would each count on the other. `RowsBeforeDispatch` is a part of it, and
`LostOnlyLaunched` draws `StartNotLost` from it. The proof asks three things of a
step: `RowsStand` (no row goes back), `StartsStand` (an event stays kept or its
steps have moved) and, of the consumer that steps, that it is accounted for.

`ImplementsChain` needs both. Whoever triggers or publishes has all five rows
(`LaunchInv`) and the step before done (`HandlerFollowsDone`), which makes a trigger
a `Begin` (`TriggerEnabled`); a publish is a `Dispatch`, the first of its step, by
`PublisherAlone`; and `Finish` stands at the end of a chain that the walk back from
publish shows done. Every other write of a row is an INSERT or a conditional UPDATE
of `StepTable`, which creates, settles or cancels it or changes nothing
(`RowRefines`).

**Workers.** A worker *claims* a row from its own Applied update until it has
sent its result. `ClaimAlone` says that the row holds the outcome it will report,
that no result of the step exists yet, and that nobody else claims it; from
that, sending keeps `ReportedOnce` and `ResultMatchesRow`.
`ReportingIsDeadLettered` carries the DLQ copy from the ack to the row's
failure, for a worker whose channel is open; `FailedIsDeadLettered` is the action
property that follows. The proof sorts the actions into three lemmas: `Harmless` (settled rows
kept, no claim taken up), `NewClaim` and `PaidClaim`. `KeepInv` is to the step
messages what `LaunchInv` is to the start event, with the same `LetsGo`, and gives
`StepNotLost`.

**Pipeline.** Each side was verified against an environment that is free within
limits: workers may settle any row by the conditional update and report anything;
the orchestrator dispatches only a step whose row has moved. Together each has to
keep the limits the other assumes, and that needs its own invariant: that
`DispatchStep` is the workers' `Dispatch` is `PublisherAlone` of the orchestrator.
So both are proved in one induction. `StepIsOrchestrators` and `StepIsWorkers` map
every step of the pipeline to a step of either side, under both invariants of
types; `BothStep` then takes the step lemmas of the two other proof modules, which
are cited through the instances `OP` and `WP` (`SameOrchestrator` and
`SameWorkers` say that these are `O` and `W`). The refinements follow, and with
them every theorem of the two modules. `PipelineInv` adds why the pipeline
stalls: a result in sight was reported (`ResultsWereReported`), a reported result
agrees with its row (`ResultMatchesRow` of the workers), so a handler never finds
the row in processing and never gets to trigger or finish (`HandlersStop`), and
only the starter's two steps are ever dispatched (`StallsAfterInitialSteps`).
The first finding is thus not one of small bounds: it is a theorem, with faults
and without, that no schedule gets past the initial steps. `Chain` is implemented
by the pipeline because it is by `Orchestrator`.

Where an upload is left, without faults, is proved too. `WorkInv` extends
`PipelineInv` by what is on its way: a relayed event is kept until its steps have
moved (`RelayedIsKept`, from `StartsStand`), a processing row has a publisher, a
message or a worker that will settle it (`ProcessingIsHeld`), and a failed row has
its news with the reporting worker, in the queue, or with a handler that marks the
upload and then walks the cancel loop (`FailureTravels`), behind which everything
is settled (`Canceling`). `FailureHasCause` and `OnlyInitialTravel` keep everybody
else from marking or canceling. When nothing of an upload is queued or handled
(`Quiet`), each of these can only be fulfilled by its last alternative, which is
`AtRest`: the upload is failed and wholly settled, or its two initial steps are
done and it stalls. Liveness adds that it gets there, and stays with TLC.

**Uploads.** `OneEventIffHandedOver` is preserved by each transaction on its own,
the unguarded one included; `HandedOverIsStored` needs its second conjunct, that
a request about to write has seen the file; `DeletedTogether`, that an upload is
soft-deleted exactly when its video is, needs `RequestsAreForVideos`, so that an
upload is never older than its video.
`ExpiresOnlyAbandoned` is an action property: only `Expire` writes "expired",
its guard is evaluated with the write, and a pending upload has no event.

**API.** `APIImplementsLifecycle` maps each request's step to one of
`UploadLifecycle` or to a stutter, so the theorems above hold of the API.
`AnswersAreTrue` is about all clients and all time since; the proof goes client
by client (`Sound`): `NothingTakenBack` says that what an answer claims is not
undone by anyone (rows stay, a handed-over upload keeps its one event, a URL
is not withdrawn), so other clients' answers stay sound, and the client that steps is
sound by `ProgressOK`, which carries what its request has behind it from call to
call. That a finalize answered 400 has written nothing rests on the same.

**Outbox.** `HeldAlone` makes a claim exclusive, `RunsAreConsistent` keeps the
three parts of a run apart and remembers that an accepted event was published;
with them `OneCopyPerClaim` survives a publish and `SentMeansPublished` a mark.
`StepRefines` maps each step to one of `Relay` or to a stutter: a publish is one
because a held row is dispatching, hence committed and not sent; a mark because
the accepted event was published.

**Renditions.** `DoneIsDelivered` says what a finished step leaves; to keep it,
`Progress` says what an attempt has behind it at each point of its loop: the
rows, files or playlists of everything that is no longer in its list. That a list
taken once stays right needs `DispatchedInOrder` — transcode lists after
extract_metadata was done, so no row is added behind its back, and segment and
publish list after all rows are ready — and `RowsOfBatch`, that a ready row has
its file. `InterruptedBatchIsFinal` is an action property: once the original's
row is there and no attempt that inserted it is left, an attempt can only
collide, and a step is done only by an attempt that did not.

**Services.** The invariant is proved in three layers. Types first. Then what is
declared: `DeclaredInOrder` (a consumer's declarations are made in order, survive
because nothing is transient, and are complete before it consumes) and
`ConsumersRun`; from them `KeptOnceServed`, and that `Retry` and `DeadLetter` find
their queues. `ConsumersRun` is there for the dial: a process that is still starting
holds no delivery, so opening its connection makes none count as unacked. Then the
messages: `NothingVanishes` needs `AckedIsKept`, that an ack the broker will see
leaves the message somewhere else, and `DeadAfterEveryAttempt` needs
`AttemptsAreFailures`. Every fault takes the delivery from a hand and puts it
back; the lemma `Requeued` covers all of them.

Each module ends with Init ⇒ IndInv, the step, and one theorem per property.
TLC checks the same invariants in `orchestrator`, `workers`, `pipeline_faults`
(`PipelineInv`, which has `LaunchInv` and `KeepInv` in it), `pipeline_live`
(`WorkInv`), `lifecycle` (`APIIndInv`), `outbox`, `renditions` and `services`.

Only model-checked: liveness, which is outside the prover's reach (as are ENABLED
and induction over data): `InitialStepsSettle`, `FailureStopsUpload`,
`RelayedOrStranded`, `HandledUnlessStranded` and `EveryVideoSettles`. Every safety
property of a passing run is stated by a theorem.

## 6. Not modelled

* The columns width, height and bitrate of `video_renditions`, and duration of
  `videos`: nothing reads them back. Payload fields that no property
  distinguishes (`error_message`, headers other than the attempt).
* In `VideoPipeline` the dispatcher is an environment, and broker and processes
  are as free as `Services` allows, not `Services` itself: the composed state
  space is out of reach, and each handler's calls are the point there.
* A consumer of `Orchestrator` and `Workers` that has lost its channel is idle
  after its handler returned and may receive again, as it would after a relaunch
  of its process; `Services` has the consumer that returns and is not started
  again, and the expiry of messages in a DLQ, which these modules keep for ever.
* A retry copy that the broker took and lost before it was on disk, although its
  delivery was acked: in `Services` a publish counts as arrived once it is
  durable. There a channel closes only with its connection; one that the broker
  closes alone is in `Orchestrator` and `Workers`.
* `Renditions` is not composed with the pipeline, and its `ProduceAndUpload` puts
  a variant's segments and playlist in one action: publish follows a segment step
  that is done, so nothing reads them in between.
* The video a failed presign request leaves without an upload: it is in
  `UploadLifecycle`, but nothing in the repository says what should become of it.
* The lengths of TTLs and delays, the DSN's defaults, response bodies and headers,
  the Swagger pages.
* gRPC: argument checks and status codes. Every caller passes what they ask for
  and treats all errors alike; each call is modelled with its error and its lost
  reply.
* What ffmpeg, ffprobe and the object stores do inside; metrics, logging,
  generated code (a fifth of the repository's lines), the e2e client and the
  deployment files.
