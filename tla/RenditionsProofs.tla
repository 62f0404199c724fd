---------------------------- MODULE RenditionsProofs ----------------------------
(***************************************************************************)
(* Proofs about Renditions, for every set of consumers, any number of      *)
(* replicas of each, and every height of the uploaded file.                *)
(***************************************************************************)
EXTENDS Renditions, TLAPS

(* The original is not one of the targets, and the batch is the original    *)
(* and the targets.                                                         *)
LEMMA BatchFacts ==
    /\ Original \notin defaultLadder
    /\ computeLadder \subseteq defaultLadder
    /\ Batch \subseteq Resolutions
    /\ Original \in Batch
    /\ defaultLadder \subseteq Resolutions
    /\ Resolutions \ {Original} = defaultLadder
    /\ Batch \ {Original} = computeLadder
BY DEF Original, defaultLadder, computeLadder, Batch, Resolutions

(* The rendition a loop takes next is one of those it has left.             *)
LEMMA ForemostInTodo ==
    ASSUME NEW todo \in SUBSET Resolutions, todo # {}
    PROVE  Foremost(todo) \in todo
<1>1. CASE Original \in todo
  BY <1>1 DEF Foremost
<1>2. CASE Original \notin todo
  <2>1. todo \subseteq {1080, 720, 480, 360}
    BY <1>2 DEF Resolutions, defaultLadder
  <2>2. \E h \in todo : \A k \in todo : k \leq h
    <3>1. CASE 1080 \in todo
      BY <2>1, <3>1
    <3>2. CASE 1080 \notin todo /\ 720 \in todo
      BY <2>1, <3>2
    <3>3. CASE 1080 \notin todo /\ 720 \notin todo /\ 480 \in todo
      BY <2>1, <3>3
    <3>4. CASE todo \subseteq {360}
      <4>1. PICK h \in todo : TRUE
        OBVIOUS
      <4>2. todo = {360}
        BY <3>4, <4>1
      <4>3. QED
        BY <4>2
    <3>5. QED
      BY <2>1, <3>1, <3>2, <3>3, <3>4
  <2>3. QED
    BY <1>2, <2>2 DEF Foremost
<1>3. QED
  BY <1>1, <1>2

(* Moving a worker on changes what this worker does, and nobody else.       *)
LEMMA ProceedFields ==
    ASSUME TypeOK, NEW w \in WorkerIds, NEW pc \in Busy \cup {"idle"},
           NEW todo \in SUBSET Resolutions, pc = "idle" => todo = {},
           Proceed(w, pc, todo)
    PROVE  /\ wjob' \in [WorkerIds -> Jobs \cup {Idle}]
           /\ wjob'[w] = [pc |-> pc, todo |-> todo, seen |-> NewVideo]
           /\ \A v \in WorkerIds : v # w => wjob'[v] = wjob[v]
<1>1. [pc |-> pc, todo |-> todo, seen |-> NewVideo] \in Jobs \cup {Idle}
  BY DEF Jobs, Idle, NewVideo, Videos
<1>2. QED
  BY <1>1 DEF TypeOK, Proceed

(* A loop goes on with the renditions it has left, or commits.              *)
LEMMA LoopFields ==
    ASSUME TypeOK, NEW w \in WorkerIds, NEW pc \in Busy, NEW todo \in SUBSET Resolutions,
           Loop(w, pc, todo)
    PROVE  /\ wjob' \in [WorkerIds -> Jobs \cup {Idle}]
           /\ wjob'[w] = [pc |-> IF todo = {} THEN "commit" ELSE pc,
                          todo |-> todo, seen |-> NewVideo]
           /\ \A v \in WorkerIds : v # w => wjob'[v] = wjob[v]
<1>1. CASE todo = {}
  <2>1. Proceed(w, "commit", {})
    BY <1>1 DEF Loop
  <2>2. "commit" \in Busy
    BY DEF Busy
  <2>3. QED
    BY <1>1, <2>1, <2>2, ProceedFields
<1>2. CASE todo # {}
  <2>1. Proceed(w, pc, todo)
    BY <1>2 DEF Loop
  <2>2. pc # "idle"
    BY DEF Busy
  <2>3. QED
    BY <1>2, <2>1, <2>2, ProceedFields
<1>3. QED
  BY <1>1, <1>2

(* What a worker is doing is well formed.                                   *)
LEMMA JobFields ==
    ASSUME TypeOK, NEW w \in WorkerIds
    PROVE  /\ wjob[w].todo \in SUBSET Resolutions
           /\ wjob[w].seen \in Videos
           /\ wjob[w].pc = "idle" => wjob[w] = Idle
<1>1. CASE wjob[w] \in Jobs
  <2>1. wjob[w].pc \in Busy /\ wjob[w].todo \in SUBSET Resolutions /\ wjob[w].seen \in Videos
    BY <1>1 DEF Jobs
  <2>2. QED
    BY <2>1 DEF Busy
<1>2. CASE wjob[w] = Idle
  BY <1>2 DEF Idle, NewVideo, Videos
<1>3. QED
  BY <1>1, <1>2 DEF TypeOK

(* The initial states satisfy the invariant. *)
LEMMA InitInv == Init => IndInv
<1> SUFFICES ASSUME Init PROVE IndInv
  OBVIOUS
<1>1. \A w \in WorkerIds : wjob[w].pc = "idle" /\ wjob[w].seen.published = FALSE
  BY DEF Init, Idle, NewVideo
<1>2. TypeOK
  BY DEF Init, TypeOK, RowStates, NewVideo, Videos
<1>3. RowsOfBatch
  BY BatchFacts DEF Init, RowsOfBatch
<1>4. \A w \in WorkerIds : Progress(w)
  BY <1>1 DEF Progress, ExtractProgress, TranscodeProgress, SegmentProgress, PublishProgress, At
<1>5. DispatchedInOrder /\ DoneIsDelivered /\ MasterIsPlayable
  BY <1>1 DEF Init, DispatchedInOrder, DoneIsDelivered, MasterIsPlayable, Steps, NewVideo
<1>6. QED
  BY <1>2, <1>3, <1>4, <1>5 DEF IndInv

(* A step of one worker keeps the invariant if rows and objects only grow,  *)
(* no step that is done changes, and the worker has made the progress its   *)
(* next call counts on.                                                     *)
LEMMA WorkerKeepsInv ==
    ASSUME IndInv, NEW w \in WorkerIds, TypeOK',
           \A v \in WorkerIds : v # w => wjob'[v] = wjob[v],
           wjob'[w].pc # "idle" => w[1] \in dispatched,
           dispatched' = dispatched,
           \A s \in Steps : steps[s] = "done" => steps'[s] = "done",
           \A s \in Steps : steps'[s] = "done" => s \in dispatched,
           \A r \in Resolutions : /\ rendition[r] # "absent" => rendition'[r] # "absent"
                                  /\ rendition[r] = "ready" => rendition'[r] = "ready",
           mp4 \subseteq mp4', hls \subseteq hls', master = Batch => master' = Batch,
           RowsOfBatch', DoneIsDelivered', MasterIsPlayable', Progress(w)'
    PROVE  IndInv'
<1>1. DispatchedInOrder'
  <2>1. \A s \in dispatched : \A t \in Upstream(s) : steps'[t] = "done"
    BY DEF IndInv, TypeOK, DispatchedInOrder, Upstream, Chained, Steps
  <2>2. \A v \in WorkerIds : wjob'[v].pc # "idle" => v[1] \in dispatched
    BY DEF IndInv, DispatchedInOrder
  <2>3. QED
    BY <2>1, <2>2 DEF DispatchedInOrder, Upstream
<1>2. ASSUME NEW v \in WorkerIds, v # w
      PROVE  Progress(v)'
  <2>1. wjob'[v] = wjob[v] /\ wjob[v].todo \in SUBSET Resolutions
    BY <1>2, JobFields DEF IndInv
  <2>2. Progress(v)
    BY DEF IndInv
  <2>3. ExtractProgress(v)'
    BY <2>1, <2>2, BatchFacts DEF Progress, ExtractProgress, At
  <2>4. TranscodeProgress(v)'
    BY <2>1, <2>2, BatchFacts DEF Progress, TranscodeProgress, At, Foremost
  <2>5. SegmentProgress(v)' /\ PublishProgress(v)'
    BY <2>1, <2>2 DEF Progress, SegmentProgress, PublishProgress, At
  <2>6. QED
    BY <2>3, <2>4, <2>5 DEF Progress
<1>3. QED
  BY <1>1, <1>2 DEF IndInv

(* A step that only moves one worker keeps the invariant if the worker has  *)
(* the progress its next call counts on.                                    *)
LEMMA MoveKeepsInv ==
    ASSUME IndInv, NEW w \in WorkerIds,
           UNCHANGED <<steps, dispatched, rendition, video, objects>>,
           wjob' \in [WorkerIds -> Jobs \cup {Idle}],
           \A v \in WorkerIds : v # w => wjob'[v] = wjob[v],
           wjob'[w].pc # "idle" => w[1] \in dispatched,
           Progress(w)'
    PROVE  IndInv'
<1>1. TypeOK'
  BY DEF IndInv, TypeOK, objects
<1>2. RowsOfBatch' /\ DoneIsDelivered' /\ MasterIsPlayable'
  BY DEF IndInv, RowsOfBatch, DoneIsDelivered, MasterIsPlayable, objects
<1>3. \A s \in Steps : steps'[s] = "done" => s \in dispatched
  BY DEF IndInv, DispatchedInOrder
<1>4. QED
  BY <1>1, <1>2, <1>3, WorkerKeepsInv DEF objects

(* A released worker.                                                       *)
LEMMA ReleaseKeepsInv ==
    ASSUME IndInv, NEW w \in WorkerIds, Release(w),
           UNCHANGED <<steps, dispatched, rendition, video, objects>>
    PROVE  IndInv'
<1>1. /\ wjob' \in [WorkerIds -> Jobs \cup {Idle}]
      /\ wjob'[w] = Idle
      /\ \A v \in WorkerIds : v # w => wjob'[v] = wjob[v]
  BY ProceedFields DEF IndInv, Release, Idle
<1>2. Progress(w)'
  BY <1>1 DEF Progress, ExtractProgress, TranscodeProgress, SegmentProgress,
     PublishProgress, At, Idle, NewVideo
<1>3. QED
  BY <1>1, <1>2, MoveKeepsInv DEF Idle

(* A delivery. *)
LEMMA StartKeepsInv ==
    ASSUME IndInv, NEW w \in WorkerIds, Start(w)
    PROVE  IndInv'
<1>1. w[1] \in Steps /\ w[1] \in dispatched
  BY WorkersAssumption DEF Start
<1>2. FirstCall[w[1]] \in Busy
  BY <1>1 DEF FirstCall, Busy
<1>3. /\ wjob' \in [WorkerIds -> Jobs \cup {Idle}]
      /\ wjob'[w] = [pc |-> FirstCall[w[1]], todo |-> {}, seen |-> NewVideo]
      /\ \A v \in WorkerIds : v # w => wjob'[v] = wjob[v]
  BY <1>2, ProceedFields DEF IndInv, Start
<1>4. FirstCall[w[1]] \in {"read", "list"} /\ (w[1] = "publish" => FirstCall[w[1]] = "list")
  BY <1>1 DEF FirstCall
<1>5. Progress(w)'
  BY <1>3, <1>4 DEF Progress, ExtractProgress, TranscodeProgress, SegmentProgress,
     PublishProgress, At, NewVideo
<1>6. QED
  BY <1>1, <1>3, <1>5, MoveKeepsInv DEF Start

(* A worker reads the row of videos.  If it reads that the video is         *)
(* published, the master playlist is there.                                 *)
LEMMA GetByIDKeepsInv ==
    ASSUME IndInv, NEW w \in WorkerIds, GetByID(w)
    PROVE  IndInv'
<1>1. [pc |-> "write", todo |-> {}, seen |-> video] \in Jobs
  BY DEF Jobs, Busy, IndInv, TypeOK
<1>2. /\ wjob' \in [WorkerIds -> Jobs \cup {Idle}]
      /\ wjob'[w] = [pc |-> "write", todo |-> {}, seen |-> video]
      /\ \A v \in WorkerIds : v # w => wjob'[v] = wjob[v]
  BY <1>1 DEF IndInv, TypeOK, GetByID
<1>3. wjob[w].pc = "read" /\ w[1] \in dispatched
  BY DEF GetByID, IndInv, DispatchedInOrder
<1>4. video.published => master = Batch
  BY DEF IndInv, MasterIsPlayable
<1>5. w[1] = "publish" => master = Batch
  BY <1>3 DEF IndInv, Progress, PublishProgress
<1>6. Progress(w)'
  BY <1>2, <1>4, <1>5 DEF Progress, ExtractProgress, TranscodeProgress, SegmentProgress,
     PublishProgress, At, GetByID, objects
<1>7. QED
  BY <1>2, <1>3, <1>6, MoveKeepsInv DEF GetByID

(* Writing back a row that was read, with one more part: the write may lose *)
(* what others wrote in between, but it never publishes a video by itself.  *)
LEMMA RowWriteKeepsInv ==
    ASSUME IndInv, NEW w \in WorkerIds, wjob[w].pc = "write",
           NEW pc \in {"insert", "commit"}, NEW todo \in SUBSET Batch,
           Proceed(w, pc, todo), Progress(w)',
           UNCHANGED <<steps, dispatched, rendition, objects>>,
           video' \in Videos,
           video'.published => wjob[w].seen.published \/ master = Batch
    PROVE  IndInv'
<1>1. /\ wjob' \in [WorkerIds -> Jobs \cup {Idle}]
      /\ \A v \in WorkerIds : v # w => wjob'[v] = wjob[v]
  BY ProceedFields, BatchFacts DEF IndInv, Busy
<1>2. TypeOK'
  BY <1>1 DEF IndInv, TypeOK, objects
<1>3. RowsOfBatch' /\ DoneIsDelivered'
  BY DEF IndInv, RowsOfBatch, DoneIsDelivered, objects
<1>4. video'.published => master = Batch
  BY DEF IndInv, Progress, PublishProgress
<1>5. MasterIsPlayable'
  BY <1>4, BatchFacts DEF IndInv, MasterIsPlayable, objects
<1>6. w[1] \in dispatched
  BY DEF IndInv, DispatchedInOrder
<1>7. \A s \in Steps : steps'[s] = "done" => s \in dispatched
  BY DEF IndInv, DispatchedInOrder
<1>8. QED
  BY <1>1, <1>2, <1>3, <1>5, <1>6, <1>7, WorkerKeepsInv DEF objects

(* UpdateVideoMetadata is followed by the batch, none of it inserted yet.   *)
LEMMA UpdateVideoMetadataKeepsInv ==
    ASSUME IndInv, NEW w \in WorkerIds, UpdateVideoMetadata(w)
    PROVE  IndInv'
<1>1. wjob[w].pc = "write" /\ w[1] = "extract_metadata" /\ Proceed(w, "insert", Batch)
  BY DEF UpdateVideoMetadata, At
<1>2. wjob'[w] = [pc |-> "insert", todo |-> Batch, seen |-> NewVideo]
  BY <1>1, ProceedFields, BatchFacts DEF IndInv, Busy
<1>3. Progress(w)'
  BY <1>1, <1>2, BatchFacts DEF Progress, ExtractProgress, TranscodeProgress, SegmentProgress,
     PublishProgress, At, NewVideo
<1>4. video' \in Videos /\ video'.published = wjob[w].seen.published
  BY JobFields DEF IndInv, UpdateVideoMetadata, Videos
<1>5. QED
  BY <1>1, <1>3, <1>4, RowWriteKeepsInv DEF UpdateVideoMetadata

(* UpdateVideoThumbnail. *)
LEMMA UpdateVideoThumbnailKeepsInv ==
    ASSUME IndInv, NEW w \in WorkerIds, UpdateVideoThumbnail(w)
    PROVE  IndInv'
<1>1. wjob[w].pc = "write" /\ w[1] = "generate_thumbnail" /\ Proceed(w, "commit", {})
  BY DEF UpdateVideoThumbnail, At
<1>2. wjob'[w] = [pc |-> "commit", todo |-> {}, seen |-> NewVideo]
  BY <1>1, ProceedFields DEF IndInv, Busy
<1>3. Progress(w)'
  BY <1>1, <1>2 DEF Progress, ExtractProgress, TranscodeProgress, SegmentProgress,
     PublishProgress, At, NewVideo
<1>4. video' \in Videos /\ video'.published = wjob[w].seen.published
  BY JobFields DEF IndInv, UpdateVideoThumbnail, Videos
<1>5. {} \in SUBSET Batch /\ "commit" \in {"insert", "commit"}
  OBVIOUS
<1>6. UNCHANGED <<steps, dispatched, rendition, objects>>
  BY DEF UpdateVideoThumbnail
<1>7. QED
  BY <1>1, <1>3, <1>4, <1>5, <1>6, RowWriteKeepsInv

(* UpdateVideoPlayback publishes the video: the playlist is there.          *)
LEMMA UpdateVideoPlaybackKeepsInv ==
    ASSUME IndInv, NEW w \in WorkerIds, UpdateVideoPlayback(w)
    PROVE  IndInv'
<1>1. wjob[w].pc = "write" /\ w[1] = "publish" /\ Proceed(w, "commit", {})
  BY DEF UpdateVideoPlayback, At
<1>2. wjob'[w] = [pc |-> "commit", todo |-> {}, seen |-> NewVideo]
  BY <1>1, ProceedFields DEF IndInv, Busy
<1>3. master = Batch /\ master' = master
  BY <1>1 DEF IndInv, Progress, PublishProgress, UpdateVideoPlayback, objects
<1>4. Progress(w)'
  BY <1>1, <1>2, <1>3 DEF Progress, ExtractProgress, TranscodeProgress, SegmentProgress,
     PublishProgress, At, NewVideo, UpdateVideoPlayback
<1>5. video' \in Videos
  BY JobFields DEF IndInv, UpdateVideoPlayback, Videos
<1>6. {} \in SUBSET Batch /\ "commit" \in {"insert", "commit"}
  OBVIOUS
<1>7. UNCHANGED <<steps, dispatched, rendition, objects>>
  BY DEF UpdateVideoPlayback
<1>8. QED
  BY <1>1, <1>3, <1>4, <1>5, <1>6, <1>7, RowWriteKeepsInv

(* One more row of the batch.                                               *)
LEMMA insertOneKeepsInv ==
    ASSUME IndInv, NEW w \in WorkerIds, insertOne(w)
    PROVE  IndInv'
<1> DEFINE todo == wjob[w].todo
           r == Foremost(todo)
<1>1. /\ w[1] = "extract_metadata" /\ wjob[w].pc = "insert"
      /\ todo # {} /\ todo \subseteq Batch
      /\ \A x \in Batch \ todo : rendition[x] # "absent"
  BY DEF insertOne, At, IndInv, Progress, ExtractProgress
<1>2. r \in todo /\ r \in Batch /\ r \in Resolutions
  BY <1>1, ForemostInTodo, BatchFacts
<1>3. /\ rendition[r] = "absent"
      /\ rendition' = [rendition EXCEPT ![r] = IF r = Original THEN "ready" ELSE "pending"]
      /\ UNCHANGED <<steps, dispatched, video, objects>>
      /\ Loop(w, "insert", todo \ {r})
  BY DEF insertOne, InsertRow
<1>4. \A x \in Resolutions : /\ x # r => rendition'[x] = rendition[x]
                             /\ x = r => rendition'[x] = IF r = Original THEN "ready" ELSE "pending"
  BY <1>2, <1>3 DEF IndInv, TypeOK
<1>5. /\ wjob' \in [WorkerIds -> Jobs \cup {Idle}]
      /\ wjob'[w] = [pc |-> IF todo \ {r} = {} THEN "commit" ELSE "insert",
                     todo |-> todo \ {r}, seen |-> NewVideo]
      /\ \A v \in WorkerIds : v # w => wjob'[v] = wjob[v]
  <2>1. TypeOK /\ "insert" \in Busy
    BY DEF IndInv, Busy
  <2>2. todo \ {r} \in SUBSET Resolutions
    BY <1>1, BatchFacts
  <2>3. QED
    BY <1>3, <2>1, <2>2, LoopFields
<1>6. TypeOK'
  BY <1>2, <1>3, <1>5 DEF IndInv, TypeOK, objects
<1>7. \A x \in Resolutions : /\ rendition[x] # "absent" => rendition'[x] # "absent"
                             /\ rendition[x] = "ready" => rendition'[x] = "ready"
  BY <1>3, <1>4
<1>8. RowsOfBatch'
  BY <1>2, <1>3, <1>4, BatchFacts DEF IndInv, RowsOfBatch, objects
<1>9. DoneIsDelivered' /\ MasterIsPlayable'
  BY <1>3, <1>7, BatchFacts DEF IndInv, DoneIsDelivered, MasterIsPlayable, objects
<1>10. \A x \in Batch \ (todo \ {r}) : rendition'[x] # "absent"
  BY <1>1, <1>4, <1>7, BatchFacts
<1>11. Progress(w)'
  BY <1>1, <1>5, <1>10 DEF Progress, ExtractProgress, TranscodeProgress, SegmentProgress,
     PublishProgress, At, NewVideo
<1>12. w[1] \in dispatched
  BY <1>1 DEF IndInv, DispatchedInOrder
<1>13. \A s \in Steps : steps'[s] = "done" => s \in dispatched
  BY <1>3 DEF IndInv, DispatchedInOrder
<1>14. QED
  BY <1>3, <1>5, <1>6, <1>7, <1>8, <1>9, <1>11, <1>12, <1>13, WorkerKeepsInv DEF objects

(* What transcode counts on: the rows are all there, and the pending ones   *)
(* are targets.                                                             *)
LEMMA RowsThere ==
    ASSUME IndInv, "transcode" \in dispatched
    PROVE  \A r \in Batch : rendition[r] # "absent"
<1>1. "extract_metadata" \in Upstream("transcode")
  BY DEF Upstream, Chained, Downstream
<1>2. QED
  BY <1>1 DEF IndInv, DispatchedInOrder, DoneIsDelivered

(* A dispatched segment or publish step finds exactly the batch ready.      *)
LEMMA BatchReady ==
    ASSUME IndInv, "segment" \in dispatched \/ "publish" \in dispatched
    PROVE  Ready = Batch
<1>1. "transcode" \in Upstream("segment") /\ "segment" \in Upstream("publish")
  BY DEF Upstream, Chained, Downstream
<1>2. "segment" \in dispatched
  BY <1>1 DEF IndInv, DispatchedInOrder, Steps
<1>3. \A r \in Batch : rendition[r] = "ready"
  BY <1>1, <1>2 DEF IndInv, DispatchedInOrder, DoneIsDelivered
<1>4. \A r \in Resolutions : rendition[r] = "ready" => r \in Batch
  BY DEF IndInv, RowsOfBatch
<1>5. QED
  BY <1>3, <1>4, BatchFacts DEF Ready

(* A dispatched publish step finds every variant produced.                  *)
LEMMA BatchProduced ==
    ASSUME IndInv, "publish" \in dispatched
    PROVE  Batch \subseteq hls
<1>1. "segment" \in Upstream("publish")
  BY DEF Upstream, Chained, Downstream
<1>2. QED
  BY <1>1 DEF IndInv, DispatchedInOrder, DoneIsDelivered

(* ListPending: what is not pending is ready, so an empty list means that   *)
(* transcode has nothing left to do.                                        *)
LEMMA ListPendingKeepsInv ==
    ASSUME IndInv, NEW w \in WorkerIds, ListPending(w)
    PROVE  IndInv'
<1> DEFINE todo == {r \in Resolutions : rendition[r] = "pending"}
<1>1. /\ w[1] = "transcode" /\ wjob[w].pc = "list" /\ w[1] \in dispatched
      /\ Loop(w, "encode", todo)
  BY DEF ListPending, At, IndInv, DispatchedInOrder
<1>2. /\ wjob' \in [WorkerIds -> Jobs \cup {Idle}]
      /\ wjob'[w] = [pc |-> IF todo = {} THEN "commit" ELSE "encode", todo |-> todo,
                     seen |-> NewVideo]
      /\ \A v \in WorkerIds : v # w => wjob'[v] = wjob[v]
  <2>1. TypeOK /\ "encode" \in Busy
    BY DEF IndInv, Busy
  <2>2. todo \in SUBSET Resolutions
    OBVIOUS
  <2>3. QED
    BY <1>1, <2>1, <2>2, LoopFields
<1>3. todo \subseteq computeLadder
  BY BatchFacts DEF IndInv, RowsOfBatch
<1>4. \A r \in Batch \ todo : rendition[r] = "ready"
  BY <1>1, RowsThere, BatchFacts DEF IndInv, TypeOK
<1>5. UNCHANGED <<steps, dispatched, rendition, video, objects>>
  BY DEF ListPending
<1>6. Progress(w)'
  <2>1. ExtractProgress(w)' /\ SegmentProgress(w)' /\ PublishProgress(w)'
    BY <1>1, <1>2 DEF ExtractProgress, SegmentProgress, PublishProgress, At, NewVideo
  <2>2. TranscodeProgress(w)'
    BY <1>1, <1>2, <1>3, <1>4, <1>5 DEF TranscodeProgress, At
  <2>3. QED
    BY <2>1, <2>2 DEF Progress
<1>7. QED
  BY <1>1, <1>2, <1>5, <1>6, MoveKeepsInv

(* A transcoded file is in storage.                                         *)
LEMMA UploadRenditionKeepsInv ==
    ASSUME IndInv, NEW w \in WorkerIds, UploadRendition(w)
    PROVE  IndInv'
<1> DEFINE todo == wjob[w].todo
<1>1. /\ w[1] = "transcode" /\ wjob[w].pc = "encode" /\ w[1] \in dispatched
      /\ todo # {} /\ todo \subseteq computeLadder
      /\ \A r \in Batch \ todo : rendition[r] = "ready"
  BY DEF UploadRendition, At, IndInv, Progress, TranscodeProgress, DispatchedInOrder
<1>2. todo \in SUBSET Resolutions /\ Foremost(todo) \in Resolutions
  BY <1>1, BatchFacts, ForemostInTodo
<1>3. /\ wjob' \in [WorkerIds -> Jobs \cup {Idle}]
      /\ wjob'[w] = [pc |-> "fill", todo |-> todo, seen |-> NewVideo]
      /\ \A v \in WorkerIds : v # w => wjob'[v] = wjob[v]
  BY <1>2, ProceedFields DEF IndInv, UploadRendition, Busy
<1>4. /\ mp4' = mp4 \cup {Foremost(todo)}
      /\ UNCHANGED <<steps, dispatched, rendition, video, hls, master>>
  BY DEF UploadRendition
<1>5. TypeOK'
  BY <1>2, <1>3, <1>4 DEF IndInv, TypeOK
<1>6. RowsOfBatch' /\ DoneIsDelivered' /\ MasterIsPlayable'
  BY <1>4 DEF IndInv, RowsOfBatch, DoneIsDelivered, MasterIsPlayable
<1>7. Progress(w)'
  <2>1. ExtractProgress(w)' /\ SegmentProgress(w)' /\ PublishProgress(w)'
    BY <1>1, <1>3 DEF ExtractProgress, SegmentProgress, PublishProgress, At, NewVideo
  <2>2. TranscodeProgress(w)'
    BY <1>1, <1>3, <1>4 DEF TranscodeProgress, At
  <2>3. QED
    BY <2>1, <2>2 DEF Progress
<1>8. \A s \in Steps : steps'[s] = "done" => s \in dispatched
  BY <1>4 DEF IndInv, DispatchedInOrder
<1>9. QED
  BY <1>1, <1>3, <1>4, <1>5, <1>6, <1>7, <1>8, WorkerKeepsInv

(* A row becomes ready: its file is in storage.                             *)
LEMMA UpdateRenditionKeepsInv ==
    ASSUME IndInv, NEW w \in WorkerIds, UpdateRendition(w)
    PROVE  IndInv'
<1> DEFINE todo == wjob[w].todo
           r == Foremost(todo)
<1>1. /\ w[1] = "transcode" /\ wjob[w].pc = "fill" /\ w[1] \in dispatched
      /\ todo # {} /\ todo \subseteq computeLadder
      /\ \A x \in Batch \ todo : rendition[x] = "ready"
      /\ r \in mp4
  BY DEF UpdateRendition, At, IndInv, Progress, TranscodeProgress, DispatchedInOrder
<1>2. todo \in SUBSET Resolutions /\ r \in todo /\ r \in Batch /\ r \in Resolutions
  BY <1>1, BatchFacts, ForemostInTodo
<1>3. rendition[r] # "absent"
  BY <1>1, <1>2, RowsThere
<1>4. /\ rendition' = [rendition EXCEPT ![r] = "ready"]
      /\ UNCHANGED <<steps, dispatched, video, objects>>
      /\ Loop(w, "encode", todo \ {r})
  BY <1>3 DEF UpdateRendition
<1>5. /\ wjob' \in [WorkerIds -> Jobs \cup {Idle}]
      /\ wjob'[w] = [pc |-> IF todo \ {r} = {} THEN "commit" ELSE "encode",
                     todo |-> todo \ {r}, seen |-> NewVideo]
      /\ \A v \in WorkerIds : v # w => wjob'[v] = wjob[v]
  <2>1. TypeOK /\ "encode" \in Busy
    BY DEF IndInv, Busy
  <2>2. todo \ {r} \in SUBSET Resolutions
    BY <1>2
  <2>3. QED
    BY <1>4, <2>1, <2>2, LoopFields
<1>6. \A x \in Resolutions : /\ x # r => rendition'[x] = rendition[x]
                             /\ x = r => rendition'[x] = "ready"
  BY <1>2, <1>4 DEF IndInv, TypeOK
<1>7. TypeOK'
  BY <1>2, <1>4, <1>5 DEF IndInv, TypeOK, objects
<1>8. RowsOfBatch'
  BY <1>1, <1>2, <1>4, <1>6, BatchFacts DEF IndInv, RowsOfBatch, objects
<1>9. DoneIsDelivered' /\ MasterIsPlayable'
  BY <1>4, <1>6, BatchFacts DEF IndInv, DoneIsDelivered, MasterIsPlayable, objects
<1>10. \A x \in Batch \ (todo \ {r}) : rendition'[x] = "ready"
  BY <1>1, <1>6, BatchFacts
<1>11. Progress(w)'
  <2>1. ExtractProgress(w)' /\ SegmentProgress(w)' /\ PublishProgress(w)'
    BY <1>1, <1>5 DEF ExtractProgress, SegmentProgress, PublishProgress, At, NewVideo
  <2>2. TranscodeProgress(w)'
    BY <1>1, <1>5, <1>10 DEF TranscodeProgress, At
  <2>3. QED
    BY <2>1, <2>2 DEF Progress
<1>12. \A s \in Steps : steps'[s] = "done" => s \in dispatched
  BY <1>4 DEF IndInv, DispatchedInOrder
<1>13. QED
  BY <1>1, <1>4, <1>5, <1>6, <1>7, <1>8, <1>9, <1>11, <1>12, WorkerKeepsInv DEF objects

(* Segment lists the whole batch.                                           *)
LEMMA SegmentListKeepsInv ==
    ASSUME IndInv, NEW w \in WorkerIds, SegmentList(w)
    PROVE  IndInv'
<1>1. w[1] = "segment" /\ w[1] \in dispatched
  BY DEF SegmentList, At, IndInv, DispatchedInOrder
<1>2. Ready = Batch
  BY <1>1, BatchReady
<1>3. Proceed(w, "produce", Batch)
  BY <1>2, BatchFacts DEF SegmentList, Loop
<1>4. /\ wjob' \in [WorkerIds -> Jobs \cup {Idle}]
      /\ wjob'[w] = [pc |-> "produce", todo |-> Batch, seen |-> NewVideo]
      /\ \A v \in WorkerIds : v # w => wjob'[v] = wjob[v]
  BY <1>3, ProceedFields, BatchFacts DEF IndInv, Busy
<1>5. Progress(w)'
  BY <1>1, <1>4, BatchFacts DEF Progress, ExtractProgress, TranscodeProgress, SegmentProgress,
     PublishProgress, At, NewVideo
<1>6. QED
  BY <1>1, <1>4, <1>5, MoveKeepsInv DEF SegmentList

(* One more variant is in storage.                                          *)
LEMMA ProduceAndUploadKeepsInv ==
    ASSUME IndInv, NEW w \in WorkerIds, ProduceAndUpload(w)
    PROVE  IndInv'
<1> DEFINE todo == wjob[w].todo
           r == Foremost(todo)
<1>1. /\ w[1] = "segment" /\ wjob[w].pc = "produce" /\ w[1] \in dispatched
      /\ todo # {} /\ todo \subseteq Batch /\ Batch \ todo \subseteq hls
  BY DEF ProduceAndUpload, At, IndInv, Progress, SegmentProgress, DispatchedInOrder
<1>2. todo \in SUBSET Resolutions /\ r \in todo /\ r \in Resolutions
  BY <1>1, BatchFacts, ForemostInTodo
<1>3. /\ hls' = hls \cup {r}
      /\ UNCHANGED <<steps, dispatched, rendition, video, mp4, master>>
      /\ Loop(w, "produce", todo \ {r})
  BY DEF ProduceAndUpload
<1>4. /\ wjob' \in [WorkerIds -> Jobs \cup {Idle}]
      /\ wjob'[w] = [pc |-> IF todo \ {r} = {} THEN "commit" ELSE "produce",
                     todo |-> todo \ {r}, seen |-> NewVideo]
      /\ \A v \in WorkerIds : v # w => wjob'[v] = wjob[v]
  <2>1. TypeOK /\ "produce" \in Busy
    BY DEF IndInv, Busy
  <2>2. todo \ {r} \in SUBSET Resolutions
    BY <1>2
  <2>3. QED
    BY <1>3, <2>1, <2>2, LoopFields
<1>5. TypeOK'
  BY <1>2, <1>3, <1>4 DEF IndInv, TypeOK
<1>6. RowsOfBatch' /\ DoneIsDelivered' /\ MasterIsPlayable'
  BY <1>3 DEF IndInv, RowsOfBatch, DoneIsDelivered, MasterIsPlayable
<1>7. Batch \ (todo \ {r}) \subseteq hls'
  BY <1>1, <1>3
<1>8. Progress(w)'
  <2>1. ExtractProgress(w)' /\ TranscodeProgress(w)' /\ PublishProgress(w)'
    BY <1>1, <1>4 DEF ExtractProgress, TranscodeProgress, PublishProgress, At, NewVideo
  <2>2. SegmentProgress(w)'
    BY <1>1, <1>4, <1>7 DEF SegmentProgress, At
  <2>3. QED
    BY <2>1, <2>2 DEF Progress
<1>9. \A s \in Steps : steps'[s] = "done" => s \in dispatched
  BY <1>3 DEF IndInv, DispatchedInOrder
<1>10. QED
  BY <1>1, <1>3, <1>4, <1>5, <1>6, <1>8, <1>9, WorkerKeepsInv

(* Publish lists the whole batch: its error case never arises.              *)
LEMMA PublishListKeepsInv ==
    ASSUME IndInv, NEW w \in WorkerIds, PublishList(w)
    PROVE  IndInv'
<1>1. w[1] = "publish" /\ w[1] \in dispatched
  BY DEF PublishList, At, IndInv, DispatchedInOrder
<1>2. Ready = Batch
  BY <1>1, BatchReady
<1>3. Proceed(w, "upload", Batch)
  BY <1>2, BatchFacts DEF PublishList
<1>4. /\ wjob' \in [WorkerIds -> Jobs \cup {Idle}]
      /\ wjob'[w] = [pc |-> "upload", todo |-> Batch, seen |-> NewVideo]
      /\ \A v \in WorkerIds : v # w => wjob'[v] = wjob[v]
  BY <1>3, ProceedFields, BatchFacts DEF IndInv, Busy
<1>5. Progress(w)'
  BY <1>1, <1>4 DEF Progress, ExtractProgress, TranscodeProgress, SegmentProgress,
     PublishProgress, At, NewVideo
<1>6. QED
  BY <1>1, <1>4, <1>5, MoveKeepsInv DEF PublishList

(* The master playlist lists the batch, all of whose variants and files are *)
(* in storage.                                                              *)
LEMMA UploadMasterPlaylistKeepsInv ==
    ASSUME IndInv, NEW w \in WorkerIds, UploadMasterPlaylist(w)
    PROVE  IndInv'
<1>1. w[1] = "publish" /\ w[1] \in dispatched /\ wjob[w].todo = Batch
  BY DEF UploadMasterPlaylist, At, IndInv, DispatchedInOrder, Progress, PublishProgress
<1>2. /\ master' = Batch
      /\ UNCHANGED <<steps, dispatched, rendition, video, mp4, hls>>
      /\ Proceed(w, "read", {})
  BY <1>1 DEF UploadMasterPlaylist
<1>3. /\ wjob' \in [WorkerIds -> Jobs \cup {Idle}]
      /\ wjob'[w] = [pc |-> "read", todo |-> {}, seen |-> NewVideo]
      /\ \A v \in WorkerIds : v # w => wjob'[v] = wjob[v]
  BY <1>2, ProceedFields DEF IndInv, Busy
<1>4. TypeOK'
  BY <1>2, <1>3, BatchFacts DEF IndInv, TypeOK
<1>5. RowsOfBatch' /\ DoneIsDelivered'
  BY <1>2 DEF IndInv, RowsOfBatch, DoneIsDelivered
<1>6. Batch \subseteq mp4 \cup {Original}
  BY <1>1, BatchReady, BatchFacts DEF Ready, IndInv, RowsOfBatch
<1>7. MasterIsPlayable'
  BY <1>1, <1>2, <1>6, BatchProduced, BatchFacts DEF MasterIsPlayable
<1>8. Progress(w)'
  BY <1>1, <1>2, <1>3 DEF Progress, ExtractProgress, TranscodeProgress, SegmentProgress,
     PublishProgress, At, NewVideo
<1>9. \A s \in Steps : steps'[s] = "done" => s \in dispatched
  BY <1>2 DEF IndInv, DispatchedInOrder
<1>10. QED
  BY <1>1, <1>2, <1>3, <1>4, <1>5, <1>7, <1>8, <1>9, WorkerKeepsInv

(* UpdateUploadStep(done) of an attempt that has delivered everything.      *)
LEMMA CommitKeepsInv ==
    ASSUME IndInv, NEW w \in WorkerIds, Commit(w)
    PROVE  IndInv'
<1>1. w[1] \in Steps /\ w[1] \in dispatched /\ wjob[w].pc = "commit"
  BY WorkersAssumption DEF Commit, IndInv, DispatchedInOrder
<1>2. /\ \A s \in Steps : s # w[1] => steps'[s] = steps[s]
      /\ steps'[w[1]] \in {steps[w[1]], "done"}
      /\ steps' \in [Steps -> RowStates]
      /\ UNCHANGED <<dispatched, rendition, video, objects>>
  BY <1>1 DEF Commit, Update, IndInv, TypeOK, RowStates
<1>3. /\ wjob' \in [WorkerIds -> Jobs \cup {Idle}]
      /\ wjob'[w] = Idle
      /\ \A v \in WorkerIds : v # w => wjob'[v] = wjob[v]
  BY ProceedFields DEF IndInv, Commit, Release, Idle
<1>4. TypeOK'
  BY <1>2, <1>3 DEF IndInv, TypeOK, objects
<1>5. RowsOfBatch' /\ MasterIsPlayable'
  BY <1>2 DEF IndInv, RowsOfBatch, MasterIsPlayable, objects
<1>6. /\ w[1] = "extract_metadata" => \A r \in Batch : rendition[r] # "absent"
      /\ w[1] = "transcode" => \A r \in Batch : rendition[r] = "ready"
      /\ w[1] = "segment" => Batch \subseteq hls
      /\ w[1] = "publish" => master = Batch
  BY <1>1 DEF IndInv, Progress, ExtractProgress, TranscodeProgress, SegmentProgress,
     PublishProgress, At
<1>7. DoneIsDelivered'
  BY <1>2, <1>6 DEF IndInv, DoneIsDelivered, Steps, objects
<1>8. Progress(w)'
  BY <1>3 DEF Progress, ExtractProgress, TranscodeProgress, SegmentProgress,
     PublishProgress, At, Idle, NewVideo
<1>9. \A s \in Steps : /\ steps'[s] = "done" => s \in dispatched
                       /\ steps[s] = "done" => steps'[s] = "done"
  BY <1>1, <1>2 DEF IndInv, DispatchedInOrder
<1>10. QED
  BY <1>2, <1>3, <1>4, <1>5, <1>7, <1>8, <1>9, WorkerKeepsInv DEF objects, Idle

(* The moves of rows that are no worker's Commit: done stays done, and      *)
(* nothing else becomes it.                                                 *)
LEMMA RowMoveKeepsInv ==
    ASSUME IndInv, steps' \in [Steps -> RowStates],
           \A s \in Steps : steps'[s] = "done" <=> steps[s] = "done",
           dispatched' \in SUBSET Steps, dispatched \subseteq dispatched',
           \A s \in dispatched' \ dispatched : \A t \in Upstream(s) : steps[t] = "done",
           UNCHANGED <<rendition, video, objects, wjob>>
    PROVE  IndInv'
<1>1. TypeOK'
  BY DEF IndInv, TypeOK, objects
<1>2. RowsOfBatch' /\ MasterIsPlayable'
  BY DEF IndInv, RowsOfBatch, MasterIsPlayable, objects
<1>3. DoneIsDelivered'
  BY DEF IndInv, DoneIsDelivered, objects, Steps
<1>4. DispatchedInOrder'
  <2>1. \A s \in Steps : Upstream(s) \subseteq Steps
    BY DEF Upstream, Chained, Steps
  <2>2. \A s \in dispatched' : \A t \in Upstream(s) : steps'[t] = "done"
    BY <2>1 DEF IndInv, DispatchedInOrder
  <2>3. QED
    BY <2>2 DEF IndInv, DispatchedInOrder, Upstream
<1>5. \A w \in WorkerIds : Progress(w)'
  <2> TAKE w \in WorkerIds
  <2>1. Progress(w)
    BY DEF IndInv
  <2>2. QED
    BY <2>1 DEF Progress, ExtractProgress, TranscodeProgress, SegmentProgress,
       PublishProgress, At, objects, Foremost
<1>6. QED
  BY <1>1, <1>2, <1>3, <1>4, <1>5 DEF IndInv

(* The orchestrator's moves and ReportFailed. *)
LEMMA RowsKeepInv ==
    ASSUME IndInv, NEW s \in Steps, Trigger(s) \/ Cancel(s) \/ ReportFailed(s)
    PROVE  IndInv'
<1>1. CASE Trigger(s)
  <2>1. steps[s] # "done" /\ steps' = [steps EXCEPT ![s] = "processing"]
    BY <1>1 DEF Trigger, Applies, Allowed
  <2>2. QED
    BY <1>1, <2>1, RowMoveKeepsInv DEF Trigger, IndInv, TypeOK, RowStates
<1>2. CASE Cancel(s)
  <2>1. steps[s] # "done" /\ steps' = [steps EXCEPT ![s] = "canceled"]
    BY <1>2 DEF Cancel, Applies, Allowed
  <2>2. QED
    BY <1>2, <2>1, RowMoveKeepsInv DEF Cancel, IndInv, TypeOK, RowStates
<1>3. CASE ReportFailed(s)
  <2>1. steps' = [steps EXCEPT ![s] = Update(@, "failed")]
    BY <1>3 DEF ReportFailed
  <2>2. Update(steps[s], "failed") \in RowStates
        /\ (Update(steps[s], "failed") = "done" <=> steps[s] = "done")
    BY DEF Update, Applies, Allowed, IndInv, TypeOK, RowStates
  <2>3. QED
    BY <1>3, <2>1, <2>2, RowMoveKeepsInv DEF ReportFailed, IndInv, TypeOK
<1>4. QED
  BY <1>1, <1>2, <1>3

(* Every step of a worker keeps the invariant. *)
LEMMA WorkKeepsInv ==
    ASSUME IndInv, NEW w \in WorkerIds, Work(w) \/ Abandon(w)
    PROVE  IndInv'
<1>1. CASE insertCollides(w) \/ Abandon(w)
  BY <1>1, ReleaseKeepsInv DEF insertCollides, Abandon
<1>2. CASE Start(w) \/ GetByID(w) \/ Commit(w)
  BY <1>2, StartKeepsInv, GetByIDKeepsInv, CommitKeepsInv
<1>3. CASE UpdateVideoMetadata(w) \/ UpdateVideoThumbnail(w) \/ UpdateVideoPlayback(w)
  BY <1>3, UpdateVideoMetadataKeepsInv, UpdateVideoThumbnailKeepsInv, UpdateVideoPlaybackKeepsInv
<1>4. CASE insertOne(w)
  BY <1>4, insertOneKeepsInv
<1>5. CASE ListPending(w) \/ UploadRendition(w) \/ UpdateRendition(w)
  BY <1>5, ListPendingKeepsInv, UploadRenditionKeepsInv, UpdateRenditionKeepsInv
<1>6. CASE SegmentList(w) \/ ProduceAndUpload(w)
  BY <1>6, SegmentListKeepsInv, ProduceAndUploadKeepsInv
<1>7. CASE PublishList(w) \/ UploadMasterPlaylist(w)
  BY <1>7, PublishListKeepsInv, UploadMasterPlaylistKeepsInv
<1>8. QED
  BY <1>1, <1>2, <1>3, <1>4, <1>5, <1>6, <1>7 DEF Work

(* Every step keeps the invariant. *)
LEMMA StepInv == IndInv /\ [Next]_vars => IndInv'
<1> SUFFICES ASSUME IndInv, [Next]_vars PROVE IndInv'
  OBVIOUS
<1>1. CASE \E w \in WorkerIds : Work(w) \/ Abandon(w)
  BY <1>1, WorkKeepsInv
<1>2. CASE \E s \in Steps : Trigger(s) \/ Cancel(s) \/ ReportFailed(s)
  BY <1>2, RowsKeepInv
<1>3. CASE UNCHANGED vars
  <2>1. /\ steps' \in [Steps -> RowStates] /\ dispatched' \in SUBSET Steps
        /\ dispatched' = dispatched /\ steps' = steps
        /\ UNCHANGED <<rendition, video, objects, wjob>>
    BY <1>3 DEF vars, IndInv, TypeOK
  <2>2. QED
    BY <2>1, RowMoveKeepsInv
<1>4. QED
  BY <1>1, <1>2, <1>3 DEF Next

(* The invariant holds in every reachable state: whatever attempts, retries,*)
(* redeliveries and replicas follow, rows and objects come in order.        *)
THEOREM Invariance == Spec => []IndInv
BY InitInv, StepInv, PTL DEF Spec

(* Every variable stays in its domain.                                      *)
THEOREM TypeCorrect == Spec => []TypeOK
<1>1. IndInv => TypeOK
  BY DEF IndInv
<1>2. QED
  BY <1>1, Invariance, PTL

(* A step that is done has delivered all of its product.                    *)
THEOREM StepsDeliver == Spec => []DoneIsDelivered
<1>1. IndInv => DoneIsDelivered
  BY DEF IndInv
<1>2. QED
  BY <1>1, Invariance, PTL

(* The master playlist lists the whole ladder and nothing that is missing.  *)
THEOREM PlaylistPlayable == Spec => []MasterIsPlayable
<1>1. IndInv => MasterIsPlayable
  BY DEF IndInv
<1>2. QED
  BY <1>1, Invariance, PTL

--------------------------------------------------------------------------------
(* After an interrupted batch, a worker's step leaves the batch interrupted *)
(* if the original's row stays, the step is not done by it, and the worker  *)
(* is not past its first insert.                                            *)
LEMMA StaysInterrupted ==
    ASSUME Interrupted, NEW w \in WorkerIds,
           \A v \in WorkerIds : v # w => wjob'[v] = wjob[v],
           rendition'[Original] # "absent",
           steps'["extract_metadata"] # "done",
           ~Inserting(w)'
    PROVE  Interrupted'
BY DEF Interrupted, Inserting, At

(* A step of a worker after an interrupted batch: no attempt gets past the  *)
(* first insert, since the original's row is there.                         *)
LEMMA WorkStaysInterrupted ==
    ASSUME IndInv, Interrupted, NEW w \in WorkerIds, Work(w) \/ Abandon(w)
    PROVE  Interrupted'
<1>1. /\ rendition[Original] # "absent" /\ steps["extract_metadata"] # "done"
      /\ ~Inserting(w)
  BY DEF Interrupted
<1>2. ~insertOne(w)
  <2> SUFFICES ASSUME insertOne(w) PROVE FALSE
    OBVIOUS
  <2>1. Original \in wjob[w].todo
    BY <1>1 DEF insertOne, Inserting
  <2>2. QED
    BY <1>1, <2>1 DEF insertOne, Foremost
<1>3. wjob' = [wjob EXCEPT ![w] = wjob'[w]]
  BY DEF Work, Abandon, Start, GetByID, UpdateVideoMetadata, UpdateVideoThumbnail,
     UpdateVideoPlayback, insertOne, insertCollides, InsertRow, ListPending, UploadRendition,
     UpdateRendition, SegmentList, ProduceAndUpload, PublishList, UploadMasterPlaylist, Commit,
     Release, Loop, Proceed, IndInv, TypeOK
<1>4. \A v \in WorkerIds : v # w => wjob'[v] = wjob[v]
  BY <1>3 DEF IndInv, TypeOK
<1>5. Original \in Resolutions
  BY BatchFacts
<1>6. CASE insertCollides(w) \/ Abandon(w)
  <2>1. wjob'[w].pc = "idle"
    BY <1>6 DEF insertCollides, Abandon, Release, Proceed, IndInv, TypeOK
  <2>2. QED
    BY <1>1, <1>4, <1>6, <2>1, StaysInterrupted DEF insertCollides, Abandon, Inserting, At
<1>7. CASE Start(w)
  <2>1. FirstCall[w[1]] \in {"read", "list"}
    BY WorkersAssumption DEF FirstCall
  <2>2. wjob'[w].pc \in {"read", "list"}
    BY <1>7, <2>1 DEF Start, Proceed, IndInv, TypeOK
  <2>3. QED
    BY <1>1, <1>4, <1>7, <2>2, StaysInterrupted DEF Start, Inserting, At
<1>8. CASE GetByID(w)
  <2>1. wjob'[w].pc = "write"
    BY <1>8 DEF GetByID, IndInv, TypeOK
  <2>2. QED
    BY <1>1, <1>4, <1>8, <2>1, StaysInterrupted DEF GetByID, Inserting, At
<1>9. CASE UpdateVideoMetadata(w)
  <2>1. wjob'[w].pc = "insert" /\ Original \in wjob'[w].todo
    BY <1>9, BatchFacts DEF UpdateVideoMetadata, Proceed, IndInv, TypeOK
  <2>2. QED
    BY <1>1, <1>4, <1>9, <2>1, StaysInterrupted DEF UpdateVideoMetadata, Inserting, At
<1>10. CASE UpdateVideoThumbnail(w) \/ UpdateVideoPlayback(w) \/ SegmentList(w)
              \/ UploadRendition(w) \/ ListPending(w) \/ ProduceAndUpload(w)
              \/ PublishList(w) \/ UploadMasterPlaylist(w)
  <2>1. w[1] # "extract_metadata" /\ UNCHANGED <<steps, rendition>>
    BY <1>10 DEF At, UpdateVideoThumbnail, UpdateVideoPlayback, SegmentList, UploadRendition,
       ListPending, ProduceAndUpload, PublishList, UploadMasterPlaylist
  <2>2. QED
    BY <1>1, <1>4, <2>1, StaysInterrupted DEF Inserting, At
<1>11. CASE UpdateRendition(w)
  <2>1. w[1] # "extract_metadata" /\ UNCHANGED steps
    BY <1>11 DEF At, UpdateRendition
  <2>2. rendition'[Original] # "absent"
    BY <1>1, <1>5, <1>11 DEF UpdateRendition, IndInv, TypeOK
  <2>3. QED
    BY <1>1, <1>4, <2>1, <2>2, StaysInterrupted DEF Inserting, At
<1>12. CASE Commit(w)
  <2>1. w[1] # "extract_metadata"
    BY <1>1, <1>12 DEF Commit, Inserting, At
  <2>2. steps'["extract_metadata"] # "done" /\ UNCHANGED rendition
    BY <1>1, <1>12, <2>1 DEF Commit, IndInv, TypeOK, Steps
  <2>3. QED
    BY <1>1, <1>4, <2>1, <2>2, StaysInterrupted DEF Inserting, At
<1>13. QED
  BY <1>2, <1>6, <1>7, <1>8, <1>9, <1>10, <1>11, <1>12 DEF Work

(* An interrupted batch stays interrupted: extract_metadata is never done.  *)
THEOREM InterruptedFinal == Spec => InterruptedBatchIsFinal
<1>1. ASSUME IndInv, [Next]_vars, Interrupted
      PROVE  Interrupted'
  <2>1. CASE \E w \in WorkerIds : Work(w) \/ Abandon(w)
    BY <1>1, <2>1, WorkStaysInterrupted
  <2>2. CASE \E s \in Steps : Trigger(s) \/ Cancel(s) \/ ReportFailed(s)
    <3>1. PICK s \in Steps : Trigger(s) \/ Cancel(s) \/ ReportFailed(s)
      BY <2>2
    <3>2. UNCHANGED <<rendition, wjob>>
      BY <3>1 DEF Trigger, Cancel, ReportFailed
    <3>3. steps'["extract_metadata"] # "done"
      BY <1>1, <3>1 DEF Trigger, Cancel, ReportFailed, Update, Interrupted, IndInv, TypeOK, Steps
    <3>4. QED
      BY <1>1, <3>2, <3>3 DEF Interrupted, Inserting, At
  <2>3. CASE UNCHANGED vars
    BY <1>1, <2>3 DEF vars, Interrupted, Inserting, At
  <2>4. QED
    BY <1>1, <2>1, <2>2, <2>3 DEF Next
<1>2. IndInv /\ [Next]_vars => [Interrupted => Interrupted']_vars
  BY <1>1
<1>3. QED
  BY <1>2, Invariance, PTL DEF Spec, InterruptedBatchIsFinal
================================================================================
