---------------------------- MODULE UploadLifecycle ----------------------------
(***************************************************************************)
(* The upload service's own operations on the rows of one video: presign,  *)
(* finalize, UpdateUploadStatus and the expiry of stale uploads.  HTTP     *)
(* handlers (Clients) and ExpireStaleUploads calls (Sweepers) run          *)
(* concurrently; one action is one SQL statement, one transaction or one   *)
(* call of the object store.                                               *)
(***************************************************************************)
EXTENDS Naturals, FiniteSets

CONSTANTS
    Videos,         \* the UUIDs NewVideo draws; each video has one upload
    Clients,        \* HTTP requests being served
    Sweepers,       \* ExpireStaleUploads calls being served
    BatchLimit

ASSUME BatchLimitAssumption == BatchLimit \in Nat \ {0}

VARIABLES
    video,          \* video[v]: "absent", "live", or "deleted" (deleted_at is set)
    upload,         \* upload[v]: uploads.status, "absent" before its INSERT
    deleted,        \* uploads whose deleted_at is set
    overdue,        \* uploads with expires_at <= NOW()
    events,         \* events[v]: rows of outbox_events with the upload's key
    urls,           \* videos whose presigned URL was handed out
    stored,         \* videos whose original is in the bucket
    request,        \* request[c]: the operation handler c is in, and its next call
    batch           \* batch[x]: the candidates sweep x has not come to

vars == <<video, upload, deleted, overdue, events, urls, stored, request, batch>>

UploadStatuses == {"absent", "pending", "processing", "finished", "failed", "expired"}

(* The statuses of an upload that FinalizeUpload handed over. *)
HandedOver == {"processing", "finished", "failed"}

Idle == [pc |-> "idle"]

Requests == {Idle} \cup [pc : {"create_upload", "presign", "exists", "write"}, video : Videos]

At(c, pc) == request[c].pc = pc

Goto(c, pc, v) == request' = [request EXCEPT ![c] = [pc |-> pc, video |-> v]]

Reply(c) == request' = [request EXCEPT ![c] = Idle]

Init ==
    /\ video = [v \in Videos |-> "absent"]
    /\ upload = [v \in Videos |-> "absent"]
    /\ deleted = {} /\ overdue = {} /\ urls = {} /\ stored = {}
    /\ events = [v \in Videos |-> 0]
    /\ request = [c \in Clients |-> Idle]
    /\ batch = [x \in Sweepers |-> {}]

--------------------------------------------------------------------------------
(* RequestPresignURL: two INSERTs, no transaction around them. *)

CreateVideo(c, v) ==
    /\ At(c, "idle") /\ video[v] = "absent"
    /\ video' = [video EXCEPT ![v] = "live"]
    /\ Goto(c, "create_upload", v)
    /\ UNCHANGED <<upload, deleted, overdue, events, urls, stored, batch>>

(* uploads.video_id is unique. *)
CreateUpload(c) ==
    /\ At(c, "create_upload") /\ upload[request[c].video] = "absent"
    /\ upload' = [upload EXCEPT ![request[c].video] = "pending"]
    /\ Goto(c, "presign", request[c].video)
    /\ UNCHANGED <<video, deleted, overdue, events, urls, stored, batch>>

PresignPut(c) ==
    /\ At(c, "presign")
    /\ urls' = urls \cup {request[c].video}
    /\ Reply(c)
    /\ UNCHANGED <<video, upload, deleted, overdue, events, stored, batch>>

--------------------------------------------------------------------------------
(* FinalizeUpload: read, look into the bucket, write. *)

(* GetByVideoID finds a row that is not deleted, and its status is pending. *)
FinalizeRead(c, v) ==
    /\ At(c, "idle") /\ upload[v] = "pending" /\ v \notin deleted
    /\ Goto(c, "exists", v)
    /\ UNCHANGED <<video, upload, deleted, overdue, events, urls, stored, batch>>

(* Mutant of CheckExists: the answer of Exists is not looked at. *)
CheckExistsIgnored(c) ==
    /\ At(c, "exists")
    /\ Goto(c, "write", request[c].video)
    /\ UNCHANGED <<video, upload, deleted, overdue, events, urls, stored, batch>>

(* Exists: go on, or answer that the file is missing. *)
CheckExists(c) ==
    /\ At(c, "exists")
    /\ IF request[c].video \in stored THEN Goto(c, "write", request[c].video) ELSE Reply(c)
    /\ UNCHANGED <<video, upload, deleted, overdue, events, urls, stored, batch>>

(* Mutant of FinalizeProcessingWithOutbox: no ON CONFLICT, no unique key.   *)
FinalizeInsertsAgain(c) ==
    /\ At(c, "write")
    /\ upload' = [upload EXCEPT ![request[c].video] = "processing"]
    /\ events' = [events EXCEPT ![request[c].video] = @ + 1]
    /\ Reply(c)
    /\ UNCHANGED <<video, deleted, overdue, urls, stored, batch>>

(* The transaction: UPDATE by id alone, and INSERT ... ON CONFLICT DO NOTHING. *)
FinalizeProcessingWithOutbox(c) ==
    /\ At(c, "write")
    /\ upload' = [upload EXCEPT ![request[c].video] = "processing"]
    /\ events' = [events EXCEPT ![request[c].video] = IF @ = 0 THEN 1 ELSE @]
    /\ Reply(c)
    /\ UNCHANGED <<video, deleted, overdue, urls, stored, batch>>

(* Any call of a request returns an error, its client goes away, or the     *)
(* process dies.  A call that took effect before is the call, then this.    *)
Abort(c) ==
    /\ ~At(c, "idle")
    /\ Reply(c)
    /\ UNCHANGED <<video, upload, deleted, overdue, events, urls, stored, batch>>

--------------------------------------------------------------------------------
(* ExpireStaleUploads: list, then one transaction per candidate. *)

Stale(v) == upload[v] = "pending" /\ v \notin deleted /\ v \in overdue

(* Mutant of ListExpiredPending: no filter on the status, so that settled   *)
(* uploads fill the batch.                                                  *)
ListOverdue(x) ==
    /\ batch[x] = {}
    /\ LET listed == overdue \ deleted
       IN  \E b \in SUBSET listed :
              /\ b # {}
              /\ b = listed \/ Cardinality(b) = BatchLimit
              /\ Cardinality(b) \leq BatchLimit
              /\ batch' = [batch EXCEPT ![x] = b]
    /\ UNCHANGED <<video, upload, deleted, overdue, events, urls, stored, request>>

(* The oldest BatchLimit; which of the stale uploads are older is left open. *)
ListExpiredPending(x) ==
    /\ batch[x] = {}
    /\ LET stale == {v \in Videos : Stale(v)}
       IN  \E b \in SUBSET stale :
              /\ b # {}
              /\ b = stale \/ Cardinality(b) = BatchLimit
              /\ Cardinality(b) \leq BatchLimit
              /\ batch' = [batch EXCEPT ![x] = b]
    /\ UNCHANGED <<video, upload, deleted, overdue, events, urls, stored, request>>

(* Mutant of Expire: the UPDATE trusts the list, it checks nothing again.   *)
ExpireListed(x, v) ==
    /\ v \in batch[x]
    /\ upload' = [upload EXCEPT ![v] = "expired"]
    /\ deleted' = deleted \cup {v}
    /\ video' = [video EXCEPT ![v] = "deleted"]
    /\ batch' = [batch EXCEPT ![x] = @ \ {v}]
    /\ UNCHANGED <<overdue, events, urls, stored, request>>

(* Mutant of Expire: the upload alone, its video stays. *)
ExpireUploadOnly(x, v) ==
    /\ v \in batch[x] /\ Stale(v)
    /\ upload' = [upload EXCEPT ![v] = "expired"]
    /\ deleted' = deleted \cup {v}
    /\ batch' = [batch EXCEPT ![x] = @ \ {v}]
    /\ UNCHANGED <<video, overdue, events, urls, stored, request>>

(* ExpireUploadAndSoftDeleteVideo on a candidate that is still stale. *)
Expire(x, v) ==
    /\ v \in batch[x] /\ Stale(v)
    /\ upload' = [upload EXCEPT ![v] = "expired"]
    /\ deleted' = deleted \cup {v}
    /\ video' = [video EXCEPT ![v] = IF @ = "live" THEN "deleted" ELSE @]
    /\ batch' = [batch EXCEPT ![x] = @ \ {v}]
    /\ UNCHANGED <<overdue, events, urls, stored, request>>

(* RowsAffected() = 0: the candidate is skipped. *)
Skip(x, v) ==
    /\ v \in batch[x] /\ ~Stale(v)
    /\ batch' = [batch EXCEPT ![x] = @ \ {v}]
    /\ UNCHANGED <<video, upload, deleted, overdue, events, urls, stored, request>>

(* A candidate's transaction fails, the run's timeout passes, or the        *)
(* process dies: the rest of the batch is left to a later run.              *)
SweepAborts(x) ==
    /\ batch[x] # {}
    /\ batch' = [batch EXCEPT ![x] = {}]
    /\ UNCHANGED <<video, upload, deleted, overdue, events, urls, stored, request>>

--------------------------------------------------------------------------------
(* UpdateUploadStatus: the orchestrator and the publish worker call it for  *)
(* an upload whose event reached them.  The UPDATE has no guard.            *)
UpdateUploadStatus(v, s) ==
    /\ events[v] > 0
    /\ upload' = [upload EXCEPT ![v] = s]
    /\ UNCHANGED <<video, deleted, overdue, events, urls, stored, request, batch>>

(* The environment: a client uses its URL, and time passes. *)
PutObject(v) ==
    /\ v \in urls
    /\ stored' = stored \cup {v}
    /\ UNCHANGED <<video, upload, deleted, overdue, events, urls, request, batch>>

BecomesOverdue(v) ==
    /\ upload[v] # "absent"
    /\ overdue' = overdue \cup {v}
    /\ UNCHANGED <<video, upload, deleted, events, urls, stored, request, batch>>

--------------------------------------------------------------------------------
Serve(c) ==
    \/ \E v \in Videos : CreateVideo(c, v) \/ FinalizeRead(c, v)
    \/ CreateUpload(c) \/ PresignPut(c)
    \/ CheckExists(c) \/ FinalizeProcessingWithOutbox(c)

Sweep(x) == ListExpiredPending(x) \/ \E v \in Videos : Expire(x, v) \/ Skip(x, v)

Environment ==
    \E v \in Videos :
        \/ PutObject(v) \/ BecomesOverdue(v)
        \/ \E s \in {"finished", "failed"} : UpdateUploadStatus(v, s)

Fault == (\E c \in Clients : Abort(c)) \/ (\E x \in Sweepers : SweepAborts(x))

Next ==
    \/ \E c \in Clients : Serve(c)
    \/ \E x \in Sweepers : Sweep(x)
    \/ Environment
    \/ Fault

Spec == Init /\ [][Next]_vars

--------------------------------------------------------------------------------
(* Every variable keeps its domain; a request names its video and next call. *)
TypeOK ==
    /\ video \in [Videos -> {"absent", "live", "deleted"}]
    /\ upload \in [Videos -> UploadStatuses]
    /\ deleted \in SUBSET Videos
    /\ overdue \in SUBSET Videos
    /\ events \in [Videos -> Nat]
    /\ urls \in SUBSET Videos
    /\ stored \in SUBSET Videos
    /\ request \in [Clients -> Requests]
    /\ batch \in [Sweepers -> SUBSET Videos]

(* The outbox and the upload's status agree, however many finalize requests *)
(* and sweeps race: one event once it was handed over, none before or when  *)
(* it expired.                                                              *)
OneEventIffHandedOver ==
    \A v \in Videos : events[v] = IF upload[v] \in HandedOver THEN 1 ELSE 0

(* FinalizeUpload writes only what Exists has seen, and nothing deletes     *)
(* originals: the pipeline never starts on a missing file.                  *)
HandedOverIsStored ==
    /\ \A v \in Videos : events[v] > 0 => v \in stored
    /\ \A c \in Clients : At(c, "write") => request[c].video \in stored

(* An upload is soft-deleted with its video, and not without it.            *)
DeletedTogether ==
    \A v \in Videos :
        /\ v \in deleted <=> video[v] = "deleted"
        /\ upload[v] = "expired" => v \in deleted
        /\ upload[v] # "absent" => video[v] # "absent"

(* A request is for a video that was created. *)
RequestsAreForVideos ==
    \A c \in Clients : ~At(c, "idle") => video[request[c].video] # "absent"

(* The conjunction that every step preserves. *)
IndInv ==
    /\ TypeOK
    /\ OneEventIffHandedOver
    /\ HandedOverIsStored
    /\ DeletedTogether
    /\ RequestsAreForVideos

(* What expires was abandoned: pending to this moment, overdue, and never   *)
(* handed over, although the sweep listed it some time ago.                 *)
ExpiresOnlyAbandoned ==
    [][\A v \in Videos :
          upload'[v] = "expired" /\ upload[v] # "expired" =>
              upload[v] = "pending" /\ v \in overdue /\ events[v] = 0]_vars

(* What the API documents: finalizing an upload that is not pending is a    *)
(* bad request.                                                             *)
FinalizesOnlyPending ==
    [][\A c \in Clients :
          At(c, "write") /\ request'[c] = Idle /\ upload' # upload =>
              upload[request[c].video] = "pending"]_vars
================================================================================
