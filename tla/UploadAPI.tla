-------------------------------- MODULE UploadAPI ------------------------------
(***************************************************************************)
(* The HTTP API of the upload service around UploadLifecycle: the          *)
(* middleware that screens a request, the six routes, the errors of every  *)
(* call they make, and the status code the client gets.  A request is one  *)
(* client's handler; its first call and its arrival are one step.          *)
(***************************************************************************)
EXTENDS UploadLifecycle

CONSTANTS
    DefaultLimit,   \* the page size of the two lists
    MaxListLimit    \* and its upper bound

ASSUME LimitsAssumption == DefaultLimit \in Nat \ {0} /\ MaxListLimit \in Nat \ {0}

VARIABLE
    reply           \* reply[c]: what c asked, what it was answered, 0 for nothing
                    \* (yet), whether it changed anything, which videos it is about

apivars == <<vars, reply>>

Codes == {0, 200, 201, 204, 400, 401, 404, 405, 500}

Operations == {"none", "screened", "presign", "finalize", "upload", "video", "videos", "uploads"}

Replies == [op : Operations, code : Codes, wrote : BOOLEAN, about : SUBSET Videos]

NoReply == [op |-> "none", code |-> 0, wrote |-> FALSE, about |-> {}]

Ask(c, op, code, wrote, about) ==
    reply' = [reply EXCEPT ![c] = [op |-> op, code |-> code, wrote |-> wrote, about |-> about]]

Answer(c, code) == reply' = [reply EXCEPT ![c].code = code]

(* An error names no video. *)
Error(c, code) == reply' = [reply EXCEPT ![c].code = code, ![c].about = {}]

APIInit == Init /\ reply = [c \in Clients |-> NoReply]

--------------------------------------------------------------------------------
(* A request as the middleware sees it.  0 passes it on. *)
Envelopes ==
    [key : {"none", "wrong", "right"}, method : {"GET", "POST", "OPTIONS"},
     path : {"list", "video", "post", "unknown"}]

RequireAPIKey(h) == IF h.key = "right" THEN 0 ELSE 401

CORS(h) == IF h.method = "OPTIONS" THEN 204 ELSE 0

(* GET on the lists and on a video, POST on upload, presign and finalize. *)
Route(h) ==
    CASE h.path = "unknown" -> 404
      [] h.path = "post" /\ h.method # "POST" -> 405
      [] h.path \in {"list", "video"} /\ h.method # "GET" -> 405
      [] OTHER -> 0

(* r.Use in main(): the key is asked of a preflight request too. *)
Screen(h) ==
    IF RequireAPIKey(h) # 0 THEN RequireAPIKey(h)
    ELSE IF CORS(h) # 0 THEN CORS(h) ELSE Route(h)

Screened(c) ==
    /\ At(c, "idle")
    /\ \E code \in {Screen(h) : h \in Envelopes} \ {0} : Ask(c, "screened", code, FALSE, {})
    /\ UNCHANGED vars

--------------------------------------------------------------------------------
(* HandlePresign *)

(* The body, the user_id or the title is refused. *)
PresignInvalid(c) ==
    /\ At(c, "idle")
    /\ Ask(c, "presign", 400, FALSE, {})
    /\ UNCHANGED vars

PresignStart(c, v) == CreateVideo(c, v) /\ Ask(c, "presign", 0, TRUE, {v})

PresignRow(c) == CreateUpload(c) /\ UNCHANGED reply

PresignUrl(c) == PresignPut(c) /\ Answer(c, 200)

(* Mutant of PresignFails: the errors are wrapped as invalid requests. *)
PresignFailsAsInvalid(c) ==
    /\ At(c, "create_upload") \/ At(c, "presign")
    /\ Abort(c) /\ Error(c, 400)

(* The second INSERT or PresignPut fails: the video's row stays. *)
PresignFails(c) ==
    /\ At(c, "create_upload") \/ At(c, "presign")
    /\ Abort(c) /\ Error(c, 500)

(* Nothing was created. *)
PresignStartFails(c) ==
    /\ At(c, "idle")
    /\ Ask(c, "presign", 500, FALSE, {})
    /\ UNCHANGED vars

--------------------------------------------------------------------------------
(* HandleFinalize *)

FinalizeStart(c, v) == FinalizeRead(c, v) /\ Ask(c, "finalize", 0, FALSE, {v})

(* Mutant of FinalizeRefused: a settled upload is taken for a repetition. *)
FinalizeRepeats(c, v) ==
    /\ At(c, "idle") /\ upload[v] # "pending" /\ video[v] # "absent"
    /\ Ask(c, "finalize", 200, FALSE, {v})
    /\ UNCHANGED vars

(* There is no such upload, or it is not pending. *)
FinalizeRefused(c, v) ==
    /\ At(c, "idle") /\ (upload[v] # "pending" \/ v \in deleted)
    /\ Ask(c, "finalize", 400, FALSE, {})
    /\ UNCHANGED vars

FinalizeCheck(c) ==
    /\ CheckExists(c)
    /\ IF request[c].video \in stored THEN UNCHANGED reply ELSE Error(c, 400)

FinalizeWrite(c) ==
    /\ FinalizeProcessingWithOutbox(c)
    /\ Ask(c, "finalize", 200, TRUE, {request[c].video})

(* GetByVideoID fails: wrapped in ErrFinalizeUpload, which is a bad request. *)
FinalizeReadFails(c) ==
    /\ At(c, "idle")
    /\ Ask(c, "finalize", 400, FALSE, {})
    /\ UNCHANGED vars

(* So is a failure of Exists. *)
FinalizeCheckFails(c) == At(c, "exists") /\ Abort(c) /\ Error(c, 400)

(* The transaction fails, or its commit is not confirmed. *)
FinalizeWriteFails(c) ==
    \/ At(c, "write") /\ Abort(c) /\ Error(c, 500)
    \/ FinalizeProcessingWithOutbox(c) /\ Ask(c, "finalize", 500, TRUE, {})

--------------------------------------------------------------------------------
(* HandleUpload: a file under a random key.  No row names it and nothing    *)
(* reads it again, so the bucket's content is left out.                     *)

(* An .mp4 file is stored. *)
UploadFile(c) ==
    /\ At(c, "idle")
    /\ Ask(c, "upload", 201, TRUE, {})
    /\ UNCHANGED vars

(* No multipart form, no field "file", or another extension. *)
UploadRefused(c) ==
    /\ At(c, "idle")
    /\ Ask(c, "upload", 400, FALSE, {})
    /\ UNCHANGED vars

(* PutObject fails, before or after the object was stored. *)
UploadFails(c) ==
    /\ At(c, "idle")
    /\ \E stores \in BOOLEAN : Ask(c, "upload", 500, stores, {})
    /\ UNCHANGED vars

--------------------------------------------------------------------------------
(* parseLimit; 0 stands for an absent or unusable limit. *)
parseLimit(limit) == IF limit > 0 THEN limit ELSE DefaultLimit

(* ListAll cuts the limit. *)
PageSize(limit) ==
    IF parseLimit(limit) > MaxListLimit THEN MaxListLimit ELSE parseLimit(limit)

PageSizes == {PageSize(limit) : limit \in 0..MaxListLimit + 1}

(* The newest rows, which ones being left open. *)
Pages(rows, size) ==
    {p \in SUBSET rows :
        IF Cardinality(rows) <= size THEN p = rows ELSE Cardinality(p) = size}

HandleListVideos(c, size) ==
    /\ At(c, "idle")
    /\ \E p \in Pages({v \in Videos : video[v] = "live"}, size) : Ask(c, "videos", 200, FALSE, p)
    /\ UNCHANGED vars

HandleListUploads(c, size) ==
    /\ At(c, "idle")
    /\ \E p \in Pages({v \in Videos : upload[v] # "absent"} \ deleted, size) :
          Ask(c, "uploads", 200, FALSE, p)
    /\ UNCHANGED vars

HandleGetVideo(c, v) ==
    /\ At(c, "idle")
    /\ IF video[v] = "live" THEN Ask(c, "video", 200, FALSE, {v})
                            ELSE Ask(c, "video", 404, FALSE, {})
    /\ UNCHANGED vars

(* The query fails: a list answers 500, HandleGetVideo that there is none. *)
ReadFails(c) ==
    /\ At(c, "idle")
    /\ \/ Ask(c, "videos", 500, FALSE, {})
       \/ Ask(c, "uploads", 500, FALSE, {})
       \/ Ask(c, "video", 404, FALSE, {})
    /\ UNCHANGED vars

--------------------------------------------------------------------------------
(* The client goes away or the process dies: there is no answer. *)
Vanish(c) == Abort(c) /\ UNCHANGED reply

(* What a handler does next by itself. *)
Proceed(c) == PresignRow(c) \/ PresignUrl(c) \/ FinalizeCheck(c) \/ FinalizeWrite(c)

(* A request on a video. *)
Arrive(c) ==
    \/ PresignInvalid(c)
    \/ \E v \in Videos : PresignStart(c, v) \/ FinalizeStart(c, v) \/ FinalizeRefused(c, v)

(* A request that touches no row. *)
Browse(c) ==
    \/ Screened(c) \/ UploadFile(c) \/ UploadRefused(c)
    \/ \E v \in Videos : HandleGetVideo(c, v)
    \/ \E size \in PageSizes : HandleListVideos(c, size) \/ HandleListUploads(c, size)

CallFails(c) ==
    \/ PresignStartFails(c) \/ PresignFails(c)
    \/ FinalizeReadFails(c) \/ FinalizeCheckFails(c) \/ FinalizeWriteFails(c)
    \/ Vanish(c)

BrowseFails(c) == UploadFails(c) \/ ReadFails(c)

Background ==
    /\ (\E x \in Sweepers : Sweep(x) \/ SweepAborts(x)) \/ Environment
    /\ UNCHANGED reply

APINext ==
    \/ \E c \in Clients : Arrive(c) \/ Browse(c) \/ Proceed(c) \/ CallFails(c) \/ BrowseFails(c)
    \/ Background

APISpec == APIInit /\ [][APINext]_apivars

--------------------------------------------------------------------------------
(* A code, and the handler that has no more calls to make. *)
RepliesOK ==
    /\ reply \in [Clients -> Replies]
    /\ \A c \in Clients : reply[c].code # 0 => At(c, "idle")

(* What a handler in progress has written and is about. *)
ProgressOK ==
    \A c \in Clients :
        ~At(c, "idle") =>
            /\ reply[c].about = {request[c].video}
            /\ reply[c].wrote <=> (At(c, "create_upload") \/ At(c, "presign"))
            /\ At(c, "presign") => upload[request[c].video] # "absent"
            /\ reply[c].op =
                  IF At(c, "exists") \/ At(c, "write") THEN "finalize" ELSE "presign"

(* What an answer says stays so, whatever other requests and the sweeps do: *)
(* a presigned upload has its rows and its URL, a finalized one was handed  *)
(* over, once and with its file, and what was shown exists or existed.      *)
AnswersAreTrue ==
    \A c \in Clients :
        LET r == reply[c]
        IN  \A v \in r.about :
              /\ r.op = "presign" /\ r.code = 200 => v \in urls /\ upload[v] # "absent"
              /\ r.op = "finalize" /\ r.code = 200 =>
                    upload[v] \in HandedOver /\ events[v] = 1 /\ v \in stored
              /\ r.op \in {"video", "videos"} /\ r.code = 200 => video[v] # "absent"
              /\ r.op = "uploads" => upload[v] # "absent"

(* A request that was refused, with any 4xx, has changed nothing, whichever *)
(* of its calls was the one that failed: a client may correct and repeat it.*)
RefusedChangedNothing ==
    \A c \in Clients : reply[c].code \in {400, 401, 404, 405} => ~reply[c].wrote

APIIndInv == IndInv /\ RepliesOK /\ ProgressOK /\ AnswersAreTrue /\ RefusedChangedNothing

(* The request that created v's row failed before it created its upload,    *)
(* and nothing will: no sweep looks for a video without an upload.          *)
Orphan(v) ==
    /\ upload[v] = "absent"
    /\ \A c \in Clients : ~(At(c, "create_upload") /\ request[c].video = v)

(* A video does not stay half uploaded: it is handed over, or it is deleted *)
(* with its upload, or its presign request failed between its two INSERTs.  *)
EveryVideoSettles ==
    \A v \in Videos :
        (video[v] = "live") ~> (upload[v] \in HandedOver \/ video[v] = "deleted" \/ Orphan(v))
================================================================================
