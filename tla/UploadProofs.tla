------------------------------ MODULE UploadProofs -----------------------------
(***************************************************************************)
(* Proofs about UploadLifecycle, for every set of videos, handlers and     *)
(* sweeps, every batch limit, and any number of aborted requests and runs. *)
(***************************************************************************)
EXTENDS UploadLifecycle, TLAPS

(* Taking a request on to its next call, and answering it. *)
LEMMA GotoFields ==
    ASSUME TypeOK, NEW c \in Clients, NEW v \in Videos,
           NEW pc \in {"create_upload", "presign", "exists", "write"}, Goto(c, pc, v)
    PROVE  /\ request' \in [Clients -> Requests]
           /\ request'[c] = [pc |-> pc, video |-> v]
           /\ \A d \in Clients : d # c => request'[d] = request[d]
<1>1. [pc |-> pc, video |-> v] \in Requests
  BY DEF Requests
<1>2. QED
  BY <1>1 DEF TypeOK, Goto

(* Answering a request. *)
LEMMA ReplyFields ==
    ASSUME TypeOK, NEW c \in Clients, Reply(c)
    PROVE  /\ request' \in [Clients -> Requests]
           /\ request'[c] = Idle
           /\ \A d \in Clients : d # c => request'[d] = request[d]
<1>1. Idle \in Requests
  BY DEF Requests
<1>2. QED
  BY <1>1 DEF TypeOK, Reply

(* A request that is under way is for a video. *)
LEMMA RequestVideo ==
    ASSUME TypeOK, NEW c \in Clients, ~At(c, "idle")
    PROVE  request[c].video \in Videos
<1>1. request[c] \in Requests /\ request[c] # Idle
  BY DEF TypeOK, At, Idle
<1>2. QED
  BY <1>1 DEF Requests

(* The initial states satisfy the invariant. *)
LEMMA InitInv == Init => IndInv
BY DEF Init, IndInv, TypeOK, OneEventIffHandedOver, HandedOverIsStored, DeletedTogether,
       RequestsAreForVideos, UploadStatuses, HandedOver, Requests, Idle, At

(* What a request may become without touching a row: nothing, or one for a  *)
(* video that exists, and about to write only if its file is stored.        *)
LEMMA RequestKeepsInv ==
    ASSUME IndInv, NEW c \in Clients,
           video' = video, upload' = upload, deleted' = deleted, events' = events,
           overdue' = overdue, urls' \in SUBSET Videos, stored' = stored, batch' = batch,
           request' \in [Clients -> Requests],
           \A d \in Clients : d # c => request'[d] = request[d],
           \/ request'[c] = Idle
           \/ /\ video[request'[c].video] # "absent"
              /\ request'[c].pc = "write" => request'[c].video \in stored
    PROVE  IndInv'
<1>1. TypeOK'
  BY DEF IndInv, TypeOK
<1>2. OneEventIffHandedOver' /\ DeletedTogether'
  BY DEF IndInv, OneEventIffHandedOver, DeletedTogether
<1>3. HandedOverIsStored'
  BY DEF IndInv, HandedOverIsStored, At, Idle
<1>4. RequestsAreForVideos'
  BY DEF IndInv, RequestsAreForVideos, At, Idle
<1>5. QED
  BY <1>1, <1>2, <1>3, <1>4 DEF IndInv

(* A new video has no upload yet. *)
LEMMA CreateVideoKeepsInv ==
    ASSUME IndInv, NEW c \in Clients, NEW v \in Videos, CreateVideo(c, v)
    PROVE  IndInv'
<1>1. /\ video[v] = "absent"
      /\ video' = [video EXCEPT ![v] = "live"]
      /\ UNCHANGED <<upload, deleted, overdue, events, urls, stored, batch>>
  BY DEF CreateVideo
<1>2. /\ request' \in [Clients -> Requests]
      /\ request'[c] = [pc |-> "create_upload", video |-> v]
      /\ \A d \in Clients : d # c => request'[d] = request[d]
  BY GotoFields DEF IndInv, CreateVideo
<1>3. /\ video' \in [Videos -> {"absent", "live", "deleted"}]
      /\ video'[v] = "live" /\ \A w \in Videos : w # v => video'[w] = video[w]
  BY <1>1 DEF IndInv, TypeOK
<1>4. TypeOK'
  BY <1>1, <1>2, <1>3 DEF IndInv, TypeOK
<1>5. OneEventIffHandedOver' /\ DeletedTogether'
  BY <1>1, <1>3 DEF IndInv, OneEventIffHandedOver, DeletedTogether
<1>6. HandedOverIsStored'
  BY <1>1, <1>2 DEF IndInv, HandedOverIsStored, At
<1>7. \A d \in Clients : d # c /\ ~At(d, "idle") => request[d].video \in Videos
  BY RequestVideo DEF IndInv
<1>8. RequestsAreForVideos'
  BY <1>2, <1>3, <1>7 DEF IndInv, RequestsAreForVideos, At
<1>9. QED
  BY <1>4, <1>5, <1>6, <1>8 DEF IndInv

(* A new upload has a video and no event. *)
LEMMA CreateUploadKeepsInv ==
    ASSUME IndInv, NEW c \in Clients, CreateUpload(c)
    PROVE  IndInv'
<1> DEFINE v == request[c].video
<1>1. /\ ~At(c, "idle") /\ upload[v] = "absent"
      /\ upload' = [upload EXCEPT ![v] = "pending"]
      /\ UNCHANGED <<video, deleted, overdue, events, urls, stored, batch>>
  BY DEF CreateUpload, At
<1>2. v \in Videos /\ video[v] # "absent"
  BY <1>1, RequestVideo DEF IndInv, RequestsAreForVideos
<1> HIDE DEF v
<1>3. /\ request' \in [Clients -> Requests]
      /\ request'[c] = [pc |-> "presign", video |-> v]
      /\ \A d \in Clients : d # c => request'[d] = request[d]
  BY <1>2, GotoFields DEF IndInv, CreateUpload, v
<1>4. /\ upload' \in [Videos -> UploadStatuses]
      /\ upload'[v] = "pending" /\ \A w \in Videos : w # v => upload'[w] = upload[w]
  BY <1>1, <1>2 DEF IndInv, TypeOK, UploadStatuses
<1>5. TypeOK'
  BY <1>1, <1>3, <1>4 DEF IndInv, TypeOK
<1>6. OneEventIffHandedOver'
  BY <1>1, <1>4 DEF IndInv, OneEventIffHandedOver, HandedOver
<1>7. DeletedTogether'
  BY <1>1, <1>2, <1>4 DEF IndInv, DeletedTogether
<1>8. HandedOverIsStored'
  BY <1>1, <1>3 DEF IndInv, HandedOverIsStored, At
<1>9. RequestsAreForVideos'
  BY <1>1, <1>2, <1>3 DEF IndInv, RequestsAreForVideos, At
<1>10. QED
  BY <1>5, <1>6, <1>7, <1>8, <1>9 DEF IndInv

(* The calls of a request that write no row. *)
LEMMA CallsKeepInv ==
    ASSUME IndInv, NEW c \in Clients,
           \/ PresignPut(c) \/ CheckExists(c) \/ Abort(c)
           \/ \E v \in Videos : FinalizeRead(c, v)
    PROVE  IndInv'
<1>1. CASE PresignPut(c)
  <2>1. urls' \in SUBSET Videos
    BY <1>1, RequestVideo DEF IndInv, TypeOK, PresignPut, At
  <2>2. QED
    BY <1>1, <2>1, ReplyFields, RequestKeepsInv DEF IndInv, PresignPut
<1>2. CASE CheckExists(c)
  <2>1. request[c].video \in Videos /\ video[request[c].video] # "absent"
    BY <1>2, RequestVideo DEF IndInv, RequestsAreForVideos, CheckExists, At
  <2>2. urls' \in SUBSET Videos
    BY <1>2 DEF IndInv, TypeOK, CheckExists
  <2>3. CASE request[c].video \in stored
    <3>1. /\ request' \in [Clients -> Requests]
          /\ request'[c] = [pc |-> "write", video |-> request[c].video]
          /\ \A d \in Clients : d # c => request'[d] = request[d]
      BY <1>2, <2>1, <2>3, GotoFields DEF IndInv, CheckExists
    <3>2. QED
      BY <1>2, <2>1, <2>2, <2>3, <3>1, RequestKeepsInv DEF CheckExists
  <2>4. CASE request[c].video \notin stored
    BY <1>2, <2>2, <2>4, ReplyFields, RequestKeepsInv DEF IndInv, CheckExists
  <2>5. QED
    BY <2>3, <2>4
<1>3. CASE Abort(c)
  <2>1. urls' \in SUBSET Videos
    BY <1>3 DEF IndInv, TypeOK, Abort
  <2>2. QED
    BY <1>3, <2>1, ReplyFields, RequestKeepsInv DEF IndInv, Abort
<1>4. ASSUME NEW v \in Videos, FinalizeRead(c, v)
      PROVE  IndInv'
  <2>1. video[v] # "absent"
    BY <1>4 DEF IndInv, DeletedTogether, FinalizeRead
  <2>2. /\ request' \in [Clients -> Requests]
        /\ request'[c] = [pc |-> "exists", video |-> v]
        /\ \A d \in Clients : d # c => request'[d] = request[d]
    BY <1>4, GotoFields DEF IndInv, FinalizeRead
  <2>3. urls' \in SUBSET Videos
    BY <1>4 DEF IndInv, TypeOK, FinalizeRead
  <2>4. QED
    BY <1>4, <2>1, <2>2, <2>3, RequestKeepsInv DEF FinalizeRead
<1>5. QED
  BY <1>1, <1>2, <1>3, <1>4

(* The transaction of FinalizeUpload, whatever the status was. *)
LEMMA FinalizeKeepsInv ==
    ASSUME IndInv, NEW c \in Clients, FinalizeProcessingWithOutbox(c)
    PROVE  IndInv'
<1> DEFINE v == request[c].video
<1>1. /\ At(c, "write")
      /\ upload' = [upload EXCEPT ![v] = "processing"]
      /\ events' = [events EXCEPT ![v] = IF @ = 0 THEN 1 ELSE @]
      /\ UNCHANGED <<video, deleted, overdue, urls, stored, batch>>
  BY DEF FinalizeProcessingWithOutbox
<1>2. /\ v \in Videos /\ v \in stored /\ video[v] # "absent"
  BY <1>1, RequestVideo DEF IndInv, RequestsAreForVideos, HandedOverIsStored, At
<1> HIDE DEF v
<1>3. /\ request' \in [Clients -> Requests] /\ request'[c] = Idle
      /\ \A d \in Clients : d # c => request'[d] = request[d]
  BY ReplyFields DEF IndInv, FinalizeProcessingWithOutbox
<1>4. events[v] \in {0, 1} /\ events \in [Videos -> Nat] /\ upload \in [Videos -> UploadStatuses]
  BY <1>2 DEF IndInv, TypeOK, OneEventIffHandedOver
<1>5. /\ upload' \in [Videos -> UploadStatuses] /\ events' \in [Videos -> Nat]
      /\ upload'[v] = "processing" /\ events'[v] = 1
      /\ \A w \in Videos : w # v => upload'[w] = upload[w] /\ events'[w] = events[w]
  BY <1>1, <1>2, <1>4 DEF UploadStatuses
<1>6. TypeOK'
  BY <1>1, <1>3, <1>5 DEF IndInv, TypeOK
<1>7. OneEventIffHandedOver'
  BY <1>5 DEF IndInv, OneEventIffHandedOver, HandedOver
<1>8. HandedOverIsStored'
  BY <1>1, <1>2, <1>3, <1>5 DEF IndInv, HandedOverIsStored, At, Idle
<1>9. DeletedTogether'
  BY <1>1, <1>2, <1>5 DEF IndInv, DeletedTogether
<1>10. RequestsAreForVideos'
  BY <1>1, <1>3 DEF IndInv, RequestsAreForVideos, At, Idle
<1>11. QED
  BY <1>6, <1>7, <1>8, <1>9, <1>10 DEF IndInv

(* A candidate that is still stale was never handed over. *)
LEMMA ExpireKeepsInv ==
    ASSUME IndInv, NEW x \in Sweepers, NEW v \in Videos, Expire(x, v)
    PROVE  IndInv'
<1>1. /\ Stale(v)
      /\ upload' = [upload EXCEPT ![v] = "expired"]
      /\ deleted' = deleted \cup {v}
      /\ video' = [video EXCEPT ![v] = IF @ = "live" THEN "deleted" ELSE @]
      /\ batch' = [batch EXCEPT ![x] = @ \ {v}]
      /\ UNCHANGED <<overdue, events, urls, stored, request>>
  BY DEF Expire
<1>2. /\ upload[v] = "pending" /\ v \notin deleted
      /\ video[v] = "live"
  BY <1>1 DEF IndInv, TypeOK, DeletedTogether, Stale
<1>3. /\ upload' \in [Videos -> UploadStatuses]
      /\ upload'[v] = "expired" /\ \A w \in Videos : w # v => upload'[w] = upload[w]
  BY <1>1 DEF IndInv, TypeOK, UploadStatuses
<1>4. /\ video' \in [Videos -> {"absent", "live", "deleted"}]
      /\ video'[v] = "deleted" /\ \A w \in Videos : w # v => video'[w] = video[w]
  BY <1>1, <1>2 DEF IndInv, TypeOK
<1>5. TypeOK'
  BY <1>1, <1>3, <1>4 DEF IndInv, TypeOK
<1>6. OneEventIffHandedOver'
  BY <1>1, <1>2, <1>3 DEF IndInv, OneEventIffHandedOver, HandedOver
<1>7. HandedOverIsStored'
  BY <1>1 DEF IndInv, HandedOverIsStored, At
<1>8. DeletedTogether'
  BY <1>1, <1>3, <1>4 DEF IndInv, DeletedTogether
<1>9. \A c \in Clients : ~At(c, "idle") => request[c].video \in Videos
  BY RequestVideo DEF IndInv
<1>10. RequestsAreForVideos'
  BY <1>1, <1>4, <1>9 DEF IndInv, RequestsAreForVideos, At
<1>11. QED
  BY <1>5, <1>6, <1>7, <1>8, <1>10 DEF IndInv

(* Lists, skips, aborted sweeps, stored objects and passing time. *)
LEMMA QuietKeepsInv ==
    ASSUME IndInv,
           video' = video, upload' = upload, deleted' = deleted, events' = events,
           urls' = urls, request' = request,
           overdue' \in SUBSET Videos, stored \subseteq stored', stored' \in SUBSET Videos,
           batch' \in [Sweepers -> SUBSET Videos]
    PROVE  IndInv'
BY DEF IndInv, TypeOK, OneEventIffHandedOver, HandedOverIsStored, DeletedTogether,
       RequestsAreForVideos, At

(* Every step of a sweep. *)
LEMMA SweepKeepsInv ==
    ASSUME IndInv, NEW x \in Sweepers, Sweep(x) \/ SweepAborts(x)
    PROVE  IndInv'
<1>1. batch \in [Sweepers -> SUBSET Videos] /\ overdue \in SUBSET Videos
      /\ stored \in SUBSET Videos
  BY DEF IndInv, TypeOK
<1>2. CASE ListExpiredPending(x)
  <2>1. PICK b \in SUBSET Videos : batch' = [batch EXCEPT ![x] = b]
    BY <1>2 DEF ListExpiredPending
  <2>2. batch' \in [Sweepers -> SUBSET Videos]
    BY <1>1, <2>1
  <2>3. QED
    BY <1>1, <1>2, <2>2, QuietKeepsInv DEF ListExpiredPending
<1>3. ASSUME NEW v \in Videos, Skip(x, v) PROVE IndInv'
  <2>1. batch' \in [Sweepers -> SUBSET Videos]
    BY <1>1, <1>3 DEF Skip
  <2>2. QED
    BY <1>1, <1>3, <2>1, QuietKeepsInv DEF Skip
<1>4. CASE SweepAborts(x)
  <2>1. batch' \in [Sweepers -> SUBSET Videos]
    BY <1>1, <1>4 DEF SweepAborts
  <2>2. QED
    BY <1>1, <1>4, <2>1, QuietKeepsInv DEF SweepAborts
<1>5. QED
  BY <1>2, <1>3, <1>4, ExpireKeepsInv DEF Sweep

(* UpdateUploadStatus comes only after the event, and keeps the upload      *)
(* among those that were handed over.                                       *)
LEMMA UpdateStatusKeepsInv ==
    ASSUME IndInv, NEW v \in Videos, NEW s \in {"finished", "failed"}, UpdateUploadStatus(v, s)
    PROVE  IndInv'
<1>1. /\ events[v] > 0
      /\ upload' = [upload EXCEPT ![v] = s]
      /\ UNCHANGED <<video, deleted, overdue, events, urls, stored, request, batch>>
  BY DEF UpdateUploadStatus
<1>2. upload[v] \in HandedOver
  BY <1>1 DEF IndInv, OneEventIffHandedOver
<1>3. /\ upload' \in [Videos -> UploadStatuses]
      /\ upload'[v] = s /\ \A w \in Videos : w # v => upload'[w] = upload[w]
  BY <1>1 DEF IndInv, TypeOK, UploadStatuses
<1>4. TypeOK'
  BY <1>1, <1>3 DEF IndInv, TypeOK
<1>5. OneEventIffHandedOver'
  BY <1>1, <1>2, <1>3 DEF IndInv, OneEventIffHandedOver, HandedOver
<1>6. HandedOverIsStored' /\ RequestsAreForVideos'
  BY <1>1 DEF IndInv, HandedOverIsStored, RequestsAreForVideos, At
<1>7. DeletedTogether'
  BY <1>1, <1>2, <1>3 DEF IndInv, DeletedTogether, HandedOver
<1>8. QED
  BY <1>4, <1>5, <1>6, <1>7 DEF IndInv

(* Status updates, stored objects and passing time. *)
LEMMA EnvironmentKeepsInv ==
    ASSUME IndInv, Environment
    PROVE  IndInv'
<1>1. /\ batch \in [Sweepers -> SUBSET Videos] /\ overdue \in SUBSET Videos
      /\ stored \in SUBSET Videos
  BY DEF IndInv, TypeOK
<1>2. ASSUME NEW v \in Videos, PutObject(v) PROVE IndInv'
  BY <1>1, <1>2, QuietKeepsInv DEF PutObject
<1>3. ASSUME NEW v \in Videos, BecomesOverdue(v) PROVE IndInv'
  BY <1>1, <1>3, QuietKeepsInv DEF BecomesOverdue
<1>4. QED
  BY <1>2, <1>3, UpdateStatusKeepsInv DEF Environment

(* Every step preserves the invariant. *)
LEMMA StepInv == IndInv /\ [Next]_vars => IndInv'
<1> SUFFICES ASSUME IndInv, [Next]_vars PROVE IndInv'
  OBVIOUS
<1>1. ASSUME NEW c \in Clients, Serve(c) PROVE IndInv'
  BY <1>1, CreateVideoKeepsInv, CreateUploadKeepsInv, CallsKeepInv, FinalizeKeepsInv DEF Serve
<1>2. ASSUME NEW x \in Sweepers, Sweep(x) PROVE IndInv'
  BY <1>2, SweepKeepsInv
<1>3. CASE Environment
  BY <1>3, EnvironmentKeepsInv
<1>4. CASE Fault
  BY <1>4, CallsKeepInv, SweepKeepsInv DEF Fault
<1>5. CASE UNCHANGED vars
  BY <1>5, QuietKeepsInv DEF vars, IndInv, TypeOK
<1>6. QED
  BY <1>1, <1>2, <1>3, <1>4, <1>5 DEF Next

(* The inductive invariant of the upload rows, their events and originals.  *)
THEOREM Invariance == Spec => []IndInv
BY InitInv, StepInv, PTL DEF Spec

(* However finalize requests and sweeps race, an upload has one event from  *)
(* the moment it is handed over, and none before.                           *)
THEOREM OneEvent == Spec => []OneEventIffHandedOver
BY Invariance, PTL DEF IndInv

(* What is handed over to the pipeline has its original in the bucket.      *)
THEOREM NothingWithoutFile == Spec => []HandedOverIsStored
BY Invariance, PTL DEF IndInv

(* An upload and its video are soft-deleted together. *)
THEOREM SoftDeletedTogether == Spec => []DeletedTogether
BY Invariance, PTL DEF IndInv

(* Only Expire writes "expired", and the guard of its UPDATE is what a      *)
(* stale list is corrected by.                                              *)
LEMMA StepExpires ==
    ASSUME IndInv, [Next]_vars, NEW v \in Videos,
           upload'[v] = "expired", upload[v] # "expired"
    PROVE  upload[v] = "pending" /\ v \in overdue /\ events[v] = 0
<1> USE DEF IndInv, TypeOK
<1>1. ASSUME NEW x \in Sweepers, NEW w \in Videos, Expire(x, w)
      PROVE  upload[v] = "pending" /\ v \in overdue /\ events[v] = 0
  <2>1. w = v
    BY <1>1 DEF Expire
  <2>2. Stale(v)
    BY <1>1, <2>1 DEF Expire
  <2>3. QED
    BY <2>2 DEF Stale, OneEventIffHandedOver, HandedOver
<1>2. ASSUME NEW c \in Clients, Serve(c) PROVE FALSE
  <2>1. CASE CreateUpload(c)
    BY <2>1, RequestVideo DEF CreateUpload, At
  <2>2. CASE FinalizeProcessingWithOutbox(c)
    BY <2>2, RequestVideo DEF FinalizeProcessingWithOutbox, At
  <2>3. CASE upload' = upload
    BY <2>3
  <2>4. QED
    BY <1>2, <2>1, <2>2, <2>3 DEF Serve, CreateVideo, FinalizeRead, PresignPut, CheckExists
<1>3. ASSUME NEW w \in Videos, NEW s \in {"finished", "failed"}, UpdateUploadStatus(w, s)
      PROVE  FALSE
  BY <1>3 DEF UpdateUploadStatus
<1>4. ASSUME upload' = upload PROVE FALSE
  BY <1>4
<1>5. CASE Environment
  BY <1>3, <1>4, <1>5 DEF Environment, PutObject, BecomesOverdue
<1>6. ASSUME NEW x \in Sweepers, Sweep(x)
      PROVE  upload[v] = "pending" /\ v \in overdue /\ events[v] = 0
  BY <1>1, <1>4, <1>6 DEF Sweep, ListExpiredPending, Skip
<1>7. CASE Fault
  BY <1>4, <1>7 DEF Fault, Abort, SweepAborts
<1>8. CASE UNCHANGED vars
  BY <1>4, <1>8 DEF vars
<1>9. QED
  BY <1>2, <1>5, <1>6, <1>7, <1>8 DEF Next

(* A finalized upload never expires, and no pending one does before it is   *)
(* overdue, however old the list is that a sweep works from.                *)
THEOREM OnlyAbandonedExpire == Spec => ExpiresOnlyAbandoned
<1>1. IndInv /\ [Next]_vars =>
          [\A v \in Videos :
              upload'[v] = "expired" /\ upload[v] # "expired" =>
                  upload[v] = "pending" /\ v \in overdue /\ events[v] = 0]_vars
  BY StepExpires
<1>2. QED
  BY <1>1, Invariance, PTL DEF Spec, ExpiresOnlyAbandoned
================================================================================
