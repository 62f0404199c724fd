------------------------------- MODULE Renditions -------------------------------
(***************************************************************************)
(* What the five workers make of one video: the row of videos, the rows of *)
(* video_renditions and the objects in storage, statement by statement, in *)
(* the work that Workers takes as one step.  The rows of upload_steps join *)
(* the workers in the order the orchestrator intends: a step's message     *)
(* exists once its trigger was applied, and may be delivered again at any  *)
(* time, to any replica: a retry, a requeue and a redelivery all come back.*)
(***************************************************************************)
EXTENDS StepTable

CONSTANTS
    WorkerIds,          \* consumers: pairs of a step and a replica
    Streams             \* the streams of the uploaded file, as ffprobe lists them

ASSUME WorkersAssumption == \A w \in WorkerIds : w[1] \in Steps

ASSUME StreamsAssumption == Streams \in Seq([codec : {"video", "audio"}, height : Nat])

(* The first video stream counts; a file without one has height 0, which is *)
(* no error.                                                                *)
Extract ==
    LET videos == SelectSeq(Streams, LAMBDA s : s.codec = "video")
    IN  IF videos = <<>> THEN 0 ELSE Head(videos).height

defaultLadder == {1080, 720, 480, 360}

computeLadder == {h \in defaultLadder : h < Extract}

(* A rendition is named by its height; 0 names the resolution "original".   *)
Original == 0

Resolutions == {Original} \cup defaultLadder

(* What CreateBatch is asked for. *)
Batch == {Original} \cup computeLadder

VARIABLES
    steps,          \* rows of upload_steps
    dispatched,     \* steps whose message the orchestrator has published
    rendition,      \* video_renditions.status, or "absent"
    video,          \* the row of videos
    mp4,            \* heights whose transcoded file is in storage
    hls,            \* resolutions whose variant playlist is in storage
    master,         \* the variants that the master playlist in storage lists
    wjob            \* what each worker is doing

objects == <<mp4, hls, master>>

vars == <<steps, dispatched, rendition, video, objects, wjob>>

(* hls_master_path and status "published" are written together.             *)
Videos == [format : BOOLEAN, thumbnail : BOOLEAN, published : BOOLEAN]

NewVideo == [format |-> FALSE, thumbnail |-> FALSE, published |-> FALSE]

Busy == {"list", "encode", "fill", "produce", "upload", "read", "write", "insert", "commit"}

(* todo: the renditions left of a loop; seen: the videos row GetByID read.  *)
Jobs == [pc : Busy, todo : SUBSET Resolutions, seen : Videos]

Idle == [pc |-> "idle", todo |-> {}, seen |-> NewVideo]

At(w, step, pc) == w[1] = step /\ wjob[w].pc = pc

Proceed(w, pc, todo) ==
    wjob' = [wjob EXCEPT ![w] = [pc |-> pc, todo |-> todo, seen |-> NewVideo]]

Release(w) == Proceed(w, "idle", {})

Loop(w, pc, todo) == Proceed(w, IF todo = {} THEN "commit" ELSE pc, todo)

(* CreateBatch takes "original" first, the lists are ORDER BY height DESC.  *)
Foremost(todo) == IF Original \in todo THEN Original
                  ELSE CHOOSE h \in todo : \A k \in todo : k \leq h

Init ==
    /\ steps = [s \in Steps |-> "pending"]
    /\ dispatched = {}
    /\ rendition = [r \in Resolutions |-> "absent"]
    /\ video = NewVideo
    /\ mp4 = {} /\ hls = {} /\ master = {}
    /\ wjob = [w \in WorkerIds |-> Idle]

--------------------------------------------------------------------------------
(* Metadata, thumbnail, publish: UpdateVideoMetadata, UpdateVideoThumbnail  *)
(* and UpdateVideoPlayback read the whole row, change one part of it, and   *)
(* write the whole row back.                                                *)

FirstCall == [s \in Steps |-> IF s \in {"extract_metadata", "generate_thumbnail"}
                              THEN "read" ELSE "list"]

(* A delivery: GetUploadProcessingContext, and what the work does before    *)
(* its first call on rows or objects that others use.                       *)
Start(w) ==
    /\ wjob[w].pc = "idle" /\ w[1] \in dispatched
    /\ Proceed(w, FirstCall[w[1]], {})
    /\ UNCHANGED <<steps, dispatched, rendition, video, objects>>

GetByID(w) ==
    /\ wjob[w].pc = "read"
    /\ wjob' = [wjob EXCEPT ![w] = [pc |-> "write", todo |-> {}, seen |-> video]]
    /\ UNCHANGED <<steps, dispatched, rendition, video, objects>>

(* UpdateVideoMetadata, whose status argument is always empty. *)
UpdateVideoMetadata(w) ==
    /\ At(w, "extract_metadata", "write")
    /\ video' = [wjob[w].seen EXCEPT !.format = TRUE]
    /\ Proceed(w, "insert", Batch)
    /\ UNCHANGED <<steps, dispatched, rendition, objects>>

UpdateVideoThumbnail(w) ==
    /\ At(w, "generate_thumbnail", "write")
    /\ video' = [wjob[w].seen EXCEPT !.thumbnail = TRUE]
    /\ Proceed(w, "commit", {})
    /\ UNCHANGED <<steps, dispatched, rendition, objects>>

UpdateVideoPlayback(w) ==
    /\ At(w, "publish", "write")
    /\ video' = [wjob[w].seen EXCEPT !.published = TRUE]
    /\ Proceed(w, "commit", {})
    /\ UNCHANGED <<steps, dispatched, rendition, objects>>

--------------------------------------------------------------------------------
(* Metadata: CreateBatch inserts row after row, outside a transaction.      *)

InsertRow(w, r) ==
    /\ rendition' = [rendition EXCEPT ![r] = IF r = Original THEN "ready" ELSE "pending"]
    /\ Loop(w, "insert", wjob[w].todo \ {r})
    /\ UNCHANGED <<steps, dispatched, video, objects>>

(* Mutant of insertOne: ON CONFLICT DO UPDATE. *)
insertOverwrites(w) ==
    /\ At(w, "extract_metadata", "insert")
    /\ InsertRow(w, Foremost(wjob[w].todo))

(* The row of UNIQUE (video_id, resolution) must not be there yet. *)
insertOne(w) ==
    /\ At(w, "extract_metadata", "insert")
    /\ rendition[Foremost(wjob[w].todo)] = "absent"
    /\ InsertRow(w, Foremost(wjob[w].todo))

(* The row is there: an error, and the attempt is over. *)
insertCollides(w) ==
    /\ At(w, "extract_metadata", "insert")
    /\ rendition[Foremost(wjob[w].todo)] # "absent"
    /\ Release(w)
    /\ UNCHANGED <<steps, dispatched, rendition, video, objects>>

--------------------------------------------------------------------------------
(* Transcode. *)

ListPending(w) ==
    /\ At(w, "transcode", "list")
    /\ Loop(w, "encode", {r \in Resolutions : rendition[r] = "pending"})
    /\ UNCHANGED <<steps, dispatched, rendition, video, objects>>

UploadRendition(w) ==
    /\ At(w, "transcode", "encode")
    /\ mp4' = mp4 \cup {Foremost(wjob[w].todo)}
    /\ Proceed(w, "fill", wjob[w].todo)
    /\ UNCHANGED <<steps, dispatched, rendition, video, hls, master>>

(* Mutant of UpdateRendition: the loop ends after the first rendition. *)
UpdateFirstRendition(w) ==
    /\ At(w, "transcode", "fill")
    /\ rendition' = [rendition EXCEPT ![Foremost(wjob[w].todo)] = "ready"]
    /\ Loop(w, "encode", {})
    /\ UNCHANGED <<steps, dispatched, video, objects>>

UpdateRendition(w) ==
    /\ At(w, "transcode", "fill")
    /\ LET r == Foremost(wjob[w].todo)
       IN  /\ rendition' = [rendition EXCEPT ![r] = IF @ = "absent" THEN @ ELSE "ready"]
           /\ Loop(w, "encode", wjob[w].todo \ {r})
    /\ UNCHANGED <<steps, dispatched, video, objects>>

--------------------------------------------------------------------------------
(* Segment and publish. *)

Ready == {r \in Resolutions : rendition[r] = "ready"}

SegmentList(w) ==
    /\ At(w, "segment", "list")
    /\ Loop(w, "produce", Ready)
    /\ UNCHANGED <<steps, dispatched, rendition, video, objects>>

(* FetchToTempFile of a file that is in storage, then ProduceAndUpload. *)
ProduceAndUpload(w) ==
    /\ At(w, "segment", "produce")
    /\ LET r == Foremost(wjob[w].todo)
       IN  /\ r \in mp4 \cup {Original}
           /\ hls' = hls \cup {r}
           /\ Loop(w, "produce", wjob[w].todo \ {r})
    /\ UNCHANGED <<steps, dispatched, rendition, video, mp4, master>>

(* No ready rendition is an error of publish. *)
PublishList(w) ==
    /\ At(w, "publish", "list")
    /\ IF Ready = {} THEN Release(w) ELSE Proceed(w, "upload", Ready)
    /\ UNCHANGED <<steps, dispatched, rendition, video, objects>>

UploadMasterPlaylist(w) ==
    /\ At(w, "publish", "upload")
    /\ master' = wjob[w].todo
    /\ Proceed(w, "read", {})
    /\ UNCHANGED <<steps, dispatched, rendition, video, mp4, hls>>

--------------------------------------------------------------------------------
(* UpdateUploadStep(done), the result if it was Applied, and the ack. *)
Commit(w) ==
    /\ wjob[w].pc = "commit"
    /\ steps' = [steps EXCEPT ![w[1]] = Update(@, "done")]
    /\ Release(w)
    /\ UNCHANGED <<dispatched, rendition, video, objects>>

(* A call fails, its reply is lost, or the process dies: the attempt ends   *)
(* where it is, and the message comes back.                                 *)
Abandon(w) ==
    /\ wjob[w].pc \in Busy
    /\ Release(w)
    /\ UNCHANGED <<steps, dispatched, rendition, video, objects>>

(* The retries of a message are exhausted, and ReportFailed fails its step. *)
ReportFailed(s) ==
    /\ s \in dispatched
    /\ steps' = [steps EXCEPT ![s] = Update(@, "failed")]
    /\ UNCHANGED <<dispatched, rendition, video, objects, wjob>>

--------------------------------------------------------------------------------
(* The environment: the orchestrator's triggers and cancels.                *)
(* Trigger asks only that the step before is done.  The code asks more, its *)
(* own update to done must have been Applied, and a worker's commit comes   *)
(* before it: after the initial steps it never is (PipelineStalls).  So     *)
(* these are the workers under any orchestrator that keeps the order.       *)

Upstream(s) == {t \in Chained : Downstream[t] = s}

Trigger(s) ==
    /\ \A t \in Upstream(s) : steps[t] = "done"
    /\ Applies(steps[s], "processing")
    /\ steps' = [steps EXCEPT ![s] = "processing"]
    /\ dispatched' = dispatched \cup {s}
    /\ UNCHANGED <<rendition, video, objects, wjob>>

Cancel(s) ==
    /\ \E t \in Steps : steps[t] = "failed"
    /\ Applies(steps[s], "canceled")
    /\ steps' = [steps EXCEPT ![s] = "canceled"]
    /\ UNCHANGED <<dispatched, rendition, video, objects, wjob>>

Work(w) ==
    \/ Start(w) \/ GetByID(w) \/ UpdateVideoMetadata(w) \/ UpdateVideoThumbnail(w)
    \/ insertOne(w) \/ insertCollides(w) \/ ListPending(w) \/ UploadRendition(w)
    \/ UpdateRendition(w) \/ SegmentList(w) \/ ProduceAndUpload(w) \/ PublishList(w)
    \/ UploadMasterPlaylist(w) \/ UpdateVideoPlayback(w) \/ Commit(w)

Next ==
    \/ \E w \in WorkerIds : Work(w) \/ Abandon(w)
    \/ \E s \in Steps : Trigger(s) \/ Cancel(s) \/ ReportFailed(s)

Spec == Init /\ [][Next]_vars

--------------------------------------------------------------------------------
(* Every variable stays in its domain. *)
TypeOK ==
    /\ steps \in [Steps -> RowStates]
    /\ dispatched \in SUBSET Steps
    /\ rendition \in [Resolutions -> {"absent", "pending", "ready"}]
    /\ video \in Videos
    /\ mp4 \in SUBSET Resolutions
    /\ hls \in SUBSET Resolutions
    /\ master \in SUBSET Resolutions
    /\ wjob \in [WorkerIds -> Jobs \cup {Idle}]

(* A step that is done has delivered all of its product, however many       *)
(* attempts it took: extract_metadata a row for the original and for every  *)
(* target height, transcode a file for each row, segment a playlist for     *)
(* each, publish a master playlist.                                         *)
DoneIsDelivered ==
    /\ steps["extract_metadata"] = "done" => \A r \in Batch : rendition[r] # "absent"
    /\ steps["transcode"] = "done" => \A r \in Batch : rendition[r] = "ready"
    /\ steps["segment"] = "done" => Batch \subseteq hls
    /\ steps["publish"] = "done" => master = Batch

(* A master playlist in storage lists the whole ladder, never a variant     *)
(* whose own playlist or file is missing, and no video is published         *)
(* without one.                                                             *)
MasterIsPlayable ==
    /\ master # {} => master = Batch /\ master \subseteq hls
                                     /\ master \subseteq mp4 \cup {Original}
    /\ video.published => master # {}

(* An attempt that has inserted its first row and can still do the rest.    *)
Inserting(w) == \/ At(w, "extract_metadata", "insert") /\ Original \notin wjob[w].todo
                \/ At(w, "extract_metadata", "commit")

(* Rows of an attempt that is over make every later attempt collide at      *)
(* CreateBatch's first insert: the step can no longer be done, whatever     *)
(* retries and redeliveries follow.                                         *)
Interrupted ==
    /\ rendition[Original] # "absent"
    /\ steps["extract_metadata"] # "done"
    /\ \A w \in WorkerIds : ~Inserting(w)

InterruptedBatchIsFinal == [][Interrupted => Interrupted']_vars

(* What the upload service's integration test expects of its two calls: the *)
(* row holds the format after UpdateVideoMetadata and the path after        *)
(* UpdateVideoThumbnail.  So an initial step that is done, its call having  *)
(* succeeded, has its part in the row, whatever the other one does at the   *)
(* same time.                                                               *)
InitialWorkIsStored ==
    /\ steps["extract_metadata"] = "done" => video.format
    /\ steps["generate_thumbnail"] = "done" => video.thumbnail

--------------------------------------------------------------------------------
(* The inductive invariant behind DoneIsDelivered and MasterIsPlayable.     *)

(* Only the batch has rows; the original's is never pending, and a target's *)
(* is ready only once its file is in storage.                               *)
RowsOfBatch ==
    /\ \A r \in Resolutions : rendition[r] # "absent" => r \in Batch
    /\ rendition[Original] # "pending"
    /\ \A h \in defaultLadder : rendition[h] = "ready" => h \in mp4

(* A step's message exists only after the step before it is done, and only  *)
(* a message leads to work.                                                 *)
DispatchedInOrder ==
    /\ \A s \in dispatched : \A t \in Upstream(s) : steps[t] = "done"
    /\ \A s \in Steps : steps[s] = "done" => s \in dispatched
    /\ \A w \in WorkerIds : wjob[w].pc # "idle" => w[1] \in dispatched

(* What an attempt has behind it at each point of its loop.                 *)
ExtractProgress(w) ==
    /\ At(w, "extract_metadata", "insert") =>
          /\ wjob[w].todo # {} /\ wjob[w].todo \subseteq Batch
          /\ \A r \in Batch \ wjob[w].todo : rendition[r] # "absent"
    /\ At(w, "extract_metadata", "commit") => \A r \in Batch : rendition[r] # "absent"

TranscodeProgress(w) ==
    /\ w[1] = "transcode" /\ wjob[w].pc \in {"encode", "fill"} =>
          /\ wjob[w].todo # {} /\ wjob[w].todo \subseteq computeLadder
          /\ \A r \in Batch \ wjob[w].todo : rendition[r] = "ready"
    /\ At(w, "transcode", "fill") => Foremost(wjob[w].todo) \in mp4
    /\ At(w, "transcode", "commit") => \A r \in Batch : rendition[r] = "ready"

SegmentProgress(w) ==
    /\ At(w, "segment", "produce") =>
          /\ wjob[w].todo # {} /\ wjob[w].todo \subseteq Batch
          /\ Batch \ wjob[w].todo \subseteq hls
    /\ At(w, "segment", "commit") => Batch \subseteq hls

PublishProgress(w) ==
    /\ At(w, "publish", "upload") => wjob[w].todo = Batch
    /\ w[1] = "publish" /\ wjob[w].pc \in {"read", "write", "commit"} => master = Batch
    /\ wjob[w].seen.published => master = Batch

Progress(w) ==
    ExtractProgress(w) /\ TranscodeProgress(w) /\ SegmentProgress(w) /\ PublishProgress(w)

(* Inductive: what the attempts in flight have behind them, what the steps  *)
(* that are done have delivered, and the order they were dispatched in.     *)
IndInv ==
    /\ TypeOK
    /\ RowsOfBatch
    /\ DispatchedInOrder
    /\ \A w \in WorkerIds : Progress(w)
    /\ DoneIsDelivered
    /\ MasterIsPlayable
================================================================================
