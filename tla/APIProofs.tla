-------------------------------- MODULE APIProofs -------------------------------
(***************************************************************************)
(* Proofs about UploadAPI, for every set of videos and clients, all page   *)
(* sizes, and any number of failed calls.  The rows are UploadLifecycle's: *)
(* every step of the API is one of its steps, so its invariant holds, and  *)
(* what remains to be shown is about the replies.                          *)
(***************************************************************************)
EXTENDS UploadAPI, UploadProofs

--------------------------------------------------------------------------------
(* The API only adds replies to the steps on the rows. *)
LEMMA StepIsLifecycle == [APINext]_apivars => [Next]_vars
<1> SUFFICES ASSUME [APINext]_apivars PROVE [Next]_vars
  OBVIOUS
<1>1. ASSUME NEW c \in Clients, Arrive(c) PROVE [Next]_vars
  BY <1>1 DEF Arrive, PresignInvalid, PresignStart, FinalizeStart, FinalizeRefused, Next, Serve
<1>2. ASSUME NEW c \in Clients, Browse(c) PROVE [Next]_vars
  BY <1>2 DEF Browse, Screened, UploadFile, UploadRefused, HandleGetVideo, HandleListVideos,
              HandleListUploads
<1>3. ASSUME NEW c \in Clients, Proceed(c) PROVE [Next]_vars
  BY <1>3 DEF Proceed, PresignRow, PresignUrl, FinalizeCheck, FinalizeWrite, Next, Serve
<1>4. ASSUME NEW c \in Clients, CallFails(c) PROVE [Next]_vars
  BY <1>4 DEF CallFails, PresignStartFails, PresignFails, FinalizeReadFails, FinalizeCheckFails,
              FinalizeWriteFails, Vanish, Next, Serve, Fault
<1>5. ASSUME NEW c \in Clients, BrowseFails(c) PROVE [Next]_vars
  BY <1>5 DEF BrowseFails, UploadFails, ReadFails
<1>6. CASE Background
  BY <1>6 DEF Background, Next, Fault
<1>7. CASE UNCHANGED apivars
  BY <1>7 DEF apivars
<1>8. QED
  BY <1>1, <1>2, <1>3, <1>4, <1>5, <1>6, <1>7 DEF APINext

(* The specification of the API implements that of the rows. *)
THEOREM APIImplementsLifecycle == APISpec => Spec
<1>1. APIInit => Init
  BY DEF APIInit
<1>2. QED
  BY <1>1, StepIsLifecycle, PTL DEF APISpec, Spec

(* What no step takes back: rows, URLs, originals, and a hand-over. *)
LEMMA NothingTakenBack ==
    ASSUME IndInv, [Next]_vars, NEW v \in Videos
    PROVE  /\ video[v] # "absent" => video'[v] # "absent"
           /\ upload[v] # "absent" => upload'[v] # "absent"
           /\ upload[v] \in HandedOver => upload'[v] \in HandedOver
           /\ urls \subseteq urls' /\ stored \subseteq stored'
<1> DEFINE Kept == /\ video[v] # "absent" => video'[v] # "absent"
                   /\ upload[v] # "absent" => upload'[v] # "absent"
                   /\ upload[v] \in HandedOver => upload'[v] \in HandedOver
                   /\ urls \subseteq urls' /\ stored \subseteq stored'
<1>1. /\ video \in [Videos -> {"absent", "live", "deleted"}]
      /\ upload \in [Videos -> UploadStatuses]
  BY DEF IndInv, TypeOK
<1>2. ASSUME NEW c \in Clients, Serve(c) PROVE Kept
  <2>1. ASSUME NEW w \in Videos, CreateVideo(c, w) PROVE Kept
    BY <1>1, <2>1 DEF CreateVideo
  <2>2. CASE CreateUpload(c)
    <3>1. request[c].video \in Videos
      BY <2>2, RequestVideo DEF IndInv, CreateUpload, At
    <3>2. QED
      BY <1>1, <2>2, <3>1 DEF CreateUpload, HandedOver
  <2>3. CASE FinalizeProcessingWithOutbox(c)
    <3>1. request[c].video \in Videos
      BY <2>3, RequestVideo DEF IndInv, FinalizeProcessingWithOutbox, At
    <3>2. QED
      BY <1>1, <2>3, <3>1 DEF FinalizeProcessingWithOutbox, HandedOver
  <2>4. QED
    BY <1>2, <2>1, <2>2, <2>3 DEF Serve, FinalizeRead, PresignPut, CheckExists
<1>3. ASSUME NEW x \in Sweepers, Sweep(x) PROVE Kept
  <2>1. ASSUME NEW w \in Videos, Expire(x, w) PROVE Kept
    BY <1>1, <2>1 DEF Expire, Stale, HandedOver
  <2>2. QED
    BY <1>3, <2>1 DEF Sweep, ListExpiredPending, Skip
<1>4. CASE Environment
  BY <1>1, <1>4 DEF Environment, PutObject, BecomesOverdue, UpdateUploadStatus, HandedOver
<1>5. CASE Fault
  BY <1>5 DEF Fault, Abort, SweepAborts
<1>6. CASE UNCHANGED vars
  BY <1>6 DEF vars
<1>7. QED
  BY <1>2, <1>3, <1>4, <1>5, <1>6 DEF Next

--------------------------------------------------------------------------------
(* What the invariant says of one client. *)

InOrder(c) ==
    /\ reply[c] \in Replies
    /\ reply[c].code # 0 => At(c, "idle")
    /\ ~At(c, "idle") =>
          /\ reply[c].about = {request[c].video}
          /\ reply[c].wrote <=> (At(c, "create_upload") \/ At(c, "presign"))
          /\ At(c, "presign") => upload[request[c].video] # "absent"
          /\ reply[c].op = IF At(c, "exists") \/ At(c, "write") THEN "finalize" ELSE "presign"

Truthful(c) ==
    /\ \A v \in reply[c].about :
          /\ reply[c].op = "presign" /\ reply[c].code = 200 => v \in urls /\ upload[v] # "absent"
          /\ reply[c].op = "finalize" /\ reply[c].code = 200 =>
                upload[v] \in HandedOver /\ events[v] = 1 /\ v \in stored
          /\ reply[c].op \in {"video", "videos"} /\ reply[c].code = 200 => video[v] # "absent"
          /\ reply[c].op = "uploads" => upload[v] # "absent"
    /\ reply[c].code \in {400, 401, 404, 405} => ~reply[c].wrote

Sound(c) == InOrder(c) /\ Truthful(c)

(* The invariant, client by client. *)
LEMMA Pointwise ==
    APIIndInv <=> /\ IndInv /\ reply \in [Clients -> Replies]
                  /\ \A c \in Clients : Sound(c)
<1>1. APIIndInv => \A c \in Clients : Sound(c)
  BY DEF APIIndInv, RepliesOK, ProgressOK, AnswersAreTrue, RefusedChangedNothing, Sound,
         InOrder, Truthful
<1>2. reply \in [Clients -> Replies] /\ (\A c \in Clients : Sound(c)) =>
          RepliesOK /\ ProgressOK /\ AnswersAreTrue /\ RefusedChangedNothing
  BY DEF RepliesOK, ProgressOK, AnswersAreTrue, RefusedChangedNothing, Sound, InOrder, Truthful
<1>3. QED
  BY <1>1, <1>2 DEF APIIndInv, RepliesOK

(* The same after a step. *)
LEMMA PointwiseNext ==
    ASSUME IndInv', reply' \in [Clients -> Replies], \A c \in Clients : Sound(c)'
    PROVE  APIIndInv'
BY DEF APIIndInv, RepliesOK, ProgressOK, AnswersAreTrue, RefusedChangedNothing, Sound,
       InOrder, Truthful

(* What holds of a client goes on holding while others move. *)
LEMMA OthersStaySound ==
    ASSUME IndInv, IndInv', [Next]_vars, NEW c \in Clients, Sound(c),
           request'[c] = request[c], reply'[c] = reply[c]
    PROVE  Sound(c)'
<1>1. InOrder(c)'
  <2>1. ~At(c, "idle") => request[c].video \in Videos
    BY RequestVideo DEF IndInv
  <2>2. QED
    BY <2>1, NothingTakenBack DEF Sound, InOrder, At
<1>2. Truthful(c)'
  <2>1. ASSUME NEW v \in Videos, upload[v] \in HandedOver PROVE events'[v] = 1
    BY <2>1, NothingTakenBack DEF IndInv, OneEventIffHandedOver
  <2>2. reply[c].about \subseteq Videos
    BY DEF Sound, InOrder, Replies
  <2>3. QED
    BY <2>1, <2>2, NothingTakenBack DEF Sound, Truthful
<1>3. QED
  BY <1>1, <1>2 DEF Sound

--------------------------------------------------------------------------------
(* A step of c leaves c sound, and the others alone. *)
Moves(c) ==
    /\ reply' \in [Clients -> Replies]
    /\ Sound(c)'
    /\ \A d \in Clients : d # c => request'[d] = request[d] /\ reply'[d] = reply[d]

(* The fields of an answer to a request that was under way. *)
LEMMA AnswerFields ==
    ASSUME APIIndInv, NEW c \in Clients, NEW code \in Codes, Answer(c, code)
    PROVE  /\ reply' \in [Clients -> Replies]
           /\ reply'[c].code = code /\ reply'[c].op = reply[c].op
           /\ reply'[c].wrote = reply[c].wrote /\ reply'[c].about = reply[c].about
           /\ \A d \in Clients : d # c => reply'[d] = reply[d]
BY DEF Answer, APIIndInv, RepliesOK, Replies

(* The fields of an error. *)
LEMMA ErrorFields ==
    ASSUME APIIndInv, NEW c \in Clients, NEW code \in Codes, Error(c, code)
    PROVE  /\ reply' \in [Clients -> Replies]
           /\ reply'[c].code = code /\ reply'[c].op = reply[c].op
           /\ reply'[c].wrote = reply[c].wrote /\ reply'[c].about = {}
           /\ \A d \in Clients : d # c => reply'[d] = reply[d]
BY DEF Error, APIIndInv, RepliesOK, Replies

(* A request answered at once, by a reply that claims nothing false. *)
LEMMA AnsweredAtOnce ==
    ASSUME NEW c \in Clients, At(c, "idle"), UNCHANGED vars,
           reply' \in [Clients -> Replies],
           \A d \in Clients : d # c => reply'[d] = reply[d],
           reply'[c].op \in {"presign", "finalize"} => reply'[c].about = {},
           reply'[c].op \in {"video", "videos"} => \A v \in reply'[c].about : video[v] # "absent",
           reply'[c].op = "uploads" => \A v \in reply'[c].about : upload[v] # "absent",
           reply'[c].code \in {400, 401, 404, 405} => ~reply'[c].wrote
    PROVE  Moves(c)
<1>1. request' = request /\ video' = video /\ upload' = upload
  BY DEF vars
<1>2. InOrder(c)'
  BY <1>1 DEF InOrder, At
<1>3. Truthful(c)'
  BY <1>1 DEF Truthful
<1>4. QED
  BY <1>1, <1>2, <1>3 DEF Moves, Sound

(* A request that ends with an error: it was refused before it wrote, or    *)
(* the code is a server's error.                                            *)
LEMMA Failed ==
    ASSUME APIIndInv, NEW c \in Clients, NEW code \in Codes, code # 200,
           Reply(c), Error(c, code), code \in {400, 401, 404, 405} => ~reply[c].wrote
    PROVE  Moves(c)
<1>1. /\ request' \in [Clients -> Requests] /\ request'[c] = Idle
      /\ \A d \in Clients : d # c => request'[d] = request[d]
  BY ReplyFields DEF APIIndInv, IndInv
<1>2. /\ reply' \in [Clients -> Replies]
      /\ reply'[c].code = code /\ reply'[c].wrote = reply[c].wrote
      /\ reply'[c].about = {}
      /\ \A d \in Clients : d # c => reply'[d] = reply[d]
  BY ErrorFields
<1>3. InOrder(c)'
  BY <1>1, <1>2 DEF InOrder, At, Idle
<1>4. Truthful(c)'
  BY <1>2 DEF Truthful
<1>5. QED
  BY <1>1, <1>2, <1>3, <1>4 DEF Moves, Sound

(* The lists and the videos that are shown exist. *)
LEMMA BrowseMoves ==
    ASSUME APIIndInv, NEW c \in Clients, Browse(c) \/ BrowseFails(c)
    PROVE  Moves(c)
<1> DEFINE Says(op, about) ==
        /\ reply' \in [Clients -> Replies]
        /\ \A d \in Clients : d # c => reply'[d] = reply[d]
        /\ reply'[c].op = op /\ reply'[c].about = about
        /\ reply'[c].code \in {400, 401, 404, 405} => ~reply'[c].wrote
<1>0. reply \in [Clients -> Replies]
  BY DEF APIIndInv, RepliesOK
<1> USE DEF Operations, Codes, Replies, Ask
<1>1. CASE Screened(c)
  <2>1. PICK code \in {Screen(h) : h \in Envelopes} \ {0} : Ask(c, "screened", code, FALSE, {})
    BY <1>1 DEF Screened
  <2>2. code \in Codes
    BY <2>1 DEF Screen, Envelopes, RequireAPIKey, CORS, Route
  <2>3. Says("screened", {})
    BY <1>0, <2>1, <2>2
  <2>4. QED
    BY <1>1, <2>3, AnsweredAtOnce DEF Screened
<1>2. CASE UploadFile(c) \/ UploadRefused(c)
  <2>1. CASE UploadFile(c)
    <3>1. Says("upload", {})
      BY <1>0, <2>1 DEF UploadFile
    <3>2. QED
      BY <2>1, <3>1, AnsweredAtOnce DEF UploadFile
  <2>2. CASE UploadRefused(c)
    <3>1. Says("upload", {})
      BY <1>0, <2>2 DEF UploadRefused
    <3>2. QED
      BY <2>2, <3>1, AnsweredAtOnce DEF UploadRefused
  <2>3. QED
    BY <1>2, <2>1, <2>2
<1>3. ASSUME NEW v \in Videos, HandleGetVideo(c, v) PROVE Moves(c)
  <2>1. CASE video[v] = "live"
    <3>1. Says("video", {v})
      <4>1. Ask(c, "video", 200, FALSE, {v})
        BY <1>3, <2>1 DEF HandleGetVideo
      <4>2. QED
        BY <1>0, <4>1
    <3>2. QED
      BY <1>3, <2>1, <3>1, AnsweredAtOnce DEF HandleGetVideo
  <2>2. CASE video[v] # "live"
    <3>1. Says("video", {})
      <4>1. Ask(c, "video", 404, FALSE, {})
        BY <1>3, <2>2 DEF HandleGetVideo
      <4>2. QED
        BY <1>0, <4>1
    <3>2. QED
      BY <1>3, <3>1, AnsweredAtOnce DEF HandleGetVideo
  <2>3. QED
    BY <2>1, <2>2
<1>4. ASSUME NEW size \in PageSizes, HandleListVideos(c, size) PROVE Moves(c)
  <2>1. PICK p \in Pages({v \in Videos : video[v] = "live"}, size) : Ask(c, "videos", 200, FALSE, p)
    BY <1>4 DEF HandleListVideos
  <2>2. p \in SUBSET Videos /\ \A v \in p : video[v] # "absent"
    BY <2>1 DEF Pages
  <2>3. Says("videos", p)
    BY <1>0, <2>1, <2>2
  <2>4. QED
    BY <1>4, <2>2, <2>3, AnsweredAtOnce DEF HandleListVideos
<1>5. ASSUME NEW size \in PageSizes, HandleListUploads(c, size) PROVE Moves(c)
  <2>1. PICK p \in Pages({v \in Videos : upload[v] # "absent"} \ deleted, size) :
             Ask(c, "uploads", 200, FALSE, p)
    BY <1>5 DEF HandleListUploads
  <2>2. p \in SUBSET Videos /\ \A v \in p : upload[v] # "absent"
    BY <2>1 DEF Pages
  <2>3. Says("uploads", p)
    BY <1>0, <2>1, <2>2
  <2>4. QED
    BY <1>5, <2>2, <2>3, AnsweredAtOnce DEF HandleListUploads
<1>6. CASE UploadFails(c)
  <2>1. PICK stores \in BOOLEAN : Ask(c, "upload", 500, stores, {})
    BY <1>6 DEF UploadFails
  <2>2. Says("upload", {})
    BY <1>0, <2>1
  <2>3. QED
    BY <1>6, <2>2, AnsweredAtOnce DEF UploadFails
<1>7. CASE ReadFails(c)
  <2>1. CASE Ask(c, "videos", 500, FALSE, {})
    <3>1. Says("videos", {})
      BY <1>0, <2>1
    <3>2. QED
      BY <1>7, <3>1, AnsweredAtOnce DEF ReadFails
  <2>2. CASE Ask(c, "uploads", 500, FALSE, {})
    <3>1. Says("uploads", {})
      BY <1>0, <2>2
    <3>2. QED
      BY <1>7, <3>1, AnsweredAtOnce DEF ReadFails
  <2>3. CASE Ask(c, "video", 404, FALSE, {})
    <3>1. Says("video", {})
      BY <1>0, <2>3
    <3>2. QED
      BY <1>7, <3>1, AnsweredAtOnce DEF ReadFails
  <2>4. QED
    BY <1>7, <2>1, <2>2, <2>3 DEF ReadFails
<1>8. QED
  BY <1>1, <1>2, <1>3, <1>4, <1>5, <1>6, <1>7 DEF Browse, BrowseFails

(* A request that starts is answered with an error or has its first call    *)
(* done: the video's row is there, or the upload was read.                  *)
LEMMA ArriveMoves ==
    ASSUME APIIndInv, NEW c \in Clients, Arrive(c)
    PROVE  Moves(c)
<1>0. reply \in [Clients -> Replies]
  BY DEF APIIndInv, RepliesOK
<1> USE DEF Operations, Codes, Replies, Ask
<1>1. CASE PresignInvalid(c)
  <2>1. /\ reply' \in [Clients -> Replies]
        /\ reply'[c].about = {} /\ ~reply'[c].wrote /\ reply'[c].op = "presign"
        /\ \A d \in Clients : d # c => reply'[d] = reply[d]
    BY <1>0, <1>1 DEF PresignInvalid
  <2>2. QED
    BY <1>1, <2>1, AnsweredAtOnce DEF PresignInvalid
<1>2. ASSUME NEW v \in Videos, FinalizeRefused(c, v) PROVE Moves(c)
  <2>1. /\ reply' \in [Clients -> Replies]
        /\ reply'[c].about = {} /\ ~reply'[c].wrote /\ reply'[c].op = "finalize"
        /\ \A d \in Clients : d # c => reply'[d] = reply[d]
    BY <1>0, <1>2 DEF FinalizeRefused
  <2>2. QED
    BY <1>2, <2>1, AnsweredAtOnce DEF FinalizeRefused
<1>3. ASSUME NEW v \in Videos, PresignStart(c, v) PROVE Moves(c)
  <2>1. /\ request'[c] = [pc |-> "create_upload", video |-> v]
        /\ \A d \in Clients : d # c => request'[d] = request[d]
    BY <1>3, GotoFields DEF APIIndInv, IndInv, PresignStart, CreateVideo
  <2>2. /\ reply' \in [Clients -> Replies]
        /\ reply'[c] = [op |-> "presign", code |-> 0, wrote |-> TRUE, about |-> {v}]
        /\ \A d \in Clients : d # c => reply'[d] = reply[d]
    BY <1>0, <1>3 DEF PresignStart
  <2>3. InOrder(c)' /\ Truthful(c)'
    BY <2>1, <2>2 DEF InOrder, Truthful, At
  <2>4. QED
    BY <2>1, <2>2, <2>3 DEF Moves, Sound
<1>4. ASSUME NEW v \in Videos, FinalizeStart(c, v) PROVE Moves(c)
  <2>1. /\ request'[c] = [pc |-> "exists", video |-> v]
        /\ \A d \in Clients : d # c => request'[d] = request[d]
    BY <1>4, GotoFields DEF APIIndInv, IndInv, FinalizeStart, FinalizeRead
  <2>2. /\ reply' \in [Clients -> Replies]
        /\ reply'[c] = [op |-> "finalize", code |-> 0, wrote |-> FALSE, about |-> {v}]
        /\ \A d \in Clients : d # c => reply'[d] = reply[d]
    BY <1>0, <1>4 DEF FinalizeStart
  <2>3. InOrder(c)' /\ Truthful(c)'
    BY <2>1, <2>2 DEF InOrder, Truthful, At
  <2>4. QED
    BY <2>1, <2>2, <2>3 DEF Moves, Sound
<1>5. QED
  BY <1>1, <1>2, <1>3, <1>4 DEF Arrive

(* The transaction of FinalizeUpload, with the answer it gets. *)
LEMMA FinalizeMoves ==
    ASSUME APIIndInv, IndInv', NEW c \in Clients, FinalizeProcessingWithOutbox(c),
           \/ Ask(c, "finalize", 200, TRUE, {request[c].video})
           \/ Ask(c, "finalize", 500, TRUE, {})
    PROVE  Moves(c)
<1> DEFINE v == request[c].video
<1>1. /\ At(c, "write") /\ ~At(c, "idle")
      /\ reply[c] \in Replies /\ reply[c].about = {v} /\ reply[c].op = "finalize"
  BY Pointwise DEF FinalizeProcessingWithOutbox, Sound, InOrder, At
<1>2. v \in Videos /\ v \in stored
  BY <1>1, RequestVideo DEF APIIndInv, IndInv, HandedOverIsStored
<1>3. upload'[v] = "processing" /\ stored' = stored
  BY <1>2 DEF FinalizeProcessingWithOutbox, APIIndInv, IndInv, TypeOK
<1>4. upload'[v] \in HandedOver /\ events'[v] = 1 /\ v \in stored'
  BY <1>2, <1>3 DEF IndInv, OneEventIffHandedOver, HandedOver
<1>5. /\ request'[c] = Idle
      /\ \A d \in Clients : d # c => request'[d] = request[d]
  BY ReplyFields DEF APIIndInv, IndInv, FinalizeProcessingWithOutbox
<1> HIDE DEF v
<1>6. /\ reply' \in [Clients -> Replies]
      /\ reply'[c].op = "finalize"
      /\ \/ reply'[c].code = 200 /\ reply'[c].about = {v}
         \/ reply'[c].code = 500 /\ reply'[c].about = {}
      /\ \A d \in Clients : d # c => reply'[d] = reply[d]
  <2>1. reply \in [Clients -> Replies]
    BY DEF APIIndInv, RepliesOK
  <2>2. CASE Ask(c, "finalize", 200, TRUE, {v})
    BY <1>2, <2>1, <2>2 DEF Ask, Replies, Operations, Codes
  <2>3. CASE Ask(c, "finalize", 500, TRUE, {})
    BY <2>1, <2>3 DEF Ask, Replies, Operations, Codes
  <2>4. QED
    BY <2>2, <2>3 DEF v
<1>7. InOrder(c)'
  BY <1>5, <1>6 DEF InOrder, At, Idle
<1>8. Truthful(c)'
  BY <1>4, <1>6 DEF Truthful
<1>9. QED
  BY <1>5, <1>6, <1>7, <1>8 DEF Moves, Sound

(* What a handler does next by itself. *)
LEMMA ProceedMoves ==
    ASSUME APIIndInv, IndInv', NEW c \in Clients, Proceed(c)
    PROVE  Moves(c)
<1> DEFINE v == request[c].video
<1>1. ~At(c, "idle")
  BY DEF Proceed, PresignRow, PresignUrl, FinalizeCheck, FinalizeWrite, CreateUpload,
         PresignPut, CheckExists, FinalizeProcessingWithOutbox, At
<1>2. v \in Videos
  BY <1>1, RequestVideo DEF APIIndInv, IndInv
<1>3. /\ reply[c] \in Replies /\ reply[c].code = 0 /\ reply[c].about = {v}
      /\ reply[c].wrote <=> (At(c, "create_upload") \/ At(c, "presign"))
      /\ At(c, "presign") => upload[v] # "absent"
      /\ reply[c].op = IF At(c, "exists") \/ At(c, "write") THEN "finalize" ELSE "presign"
  BY <1>1, Pointwise DEF Sound, InOrder
<1>4. reply \in [Clients -> Replies]
  BY DEF APIIndInv, RepliesOK
<1> HIDE DEF v
<1>5. CASE PresignRow(c)
  <2>1. /\ request'[c] = [pc |-> "presign", video |-> v]
        /\ \A d \in Clients : d # c => request'[d] = request[d]
    BY <1>2, <1>5, GotoFields DEF APIIndInv, IndInv, PresignRow, CreateUpload, v
  <2>2. upload'[v] = "pending" /\ reply' = reply
    BY <1>2, <1>5 DEF PresignRow, CreateUpload, APIIndInv, IndInv, TypeOK, v
  <2>3. InOrder(c)' /\ Truthful(c)'
    BY <1>3, <1>5, <2>1, <2>2 DEF InOrder, Truthful, At, PresignRow, CreateUpload
  <2>4. QED
    BY <1>4, <2>1, <2>2, <2>3 DEF Moves, Sound
<1>6. CASE PresignUrl(c)
  <2>1. /\ request'[c] = Idle
        /\ \A d \in Clients : d # c => request'[d] = request[d]
    BY <1>6, ReplyFields DEF APIIndInv, IndInv, PresignUrl, PresignPut
  <2>2. v \in urls' /\ upload' = upload /\ upload[v] # "absent" /\ At(c, "presign")
    BY <1>3, <1>6 DEF PresignUrl, PresignPut, v
  <2>3. /\ reply' \in [Clients -> Replies]
        /\ reply'[c].code = 200 /\ reply'[c].op = "presign" /\ reply'[c].about = {v}
        /\ \A d \in Clients : d # c => reply'[d] = reply[d]
    BY <1>3, <1>6, <2>2, AnswerFields DEF PresignUrl, At, Codes
  <2>4. InOrder(c)' /\ Truthful(c)'
    BY <2>1, <2>2, <2>3 DEF InOrder, Truthful, At, Idle
  <2>5. QED
    BY <2>1, <2>3, <2>4 DEF Moves, Sound
<1>7. CASE FinalizeCheck(c)
  <2>1. At(c, "exists") /\ ~reply[c].wrote /\ reply[c].op = "finalize"
    BY <1>3, <1>7 DEF FinalizeCheck, CheckExists, At
  <2>2. CASE v \in stored
    <3>1. /\ request'[c] = [pc |-> "write", video |-> v]
          /\ \A d \in Clients : d # c => request'[d] = request[d]
      BY <1>2, <1>7, <2>2, GotoFields DEF APIIndInv, IndInv, FinalizeCheck, CheckExists, v
    <3>2. reply' = reply
      BY <1>7, <2>2 DEF FinalizeCheck, v
    <3>3. InOrder(c)' /\ Truthful(c)'
      BY <1>3, <2>1, <3>1, <3>2 DEF InOrder, Truthful, At
    <3>4. QED
      BY <1>4, <3>1, <3>2, <3>3 DEF Moves, Sound
  <2>3. CASE v \notin stored
    BY <1>7, <2>1, <2>3, Failed DEF FinalizeCheck, CheckExists, Codes, v
  <2>4. QED
    BY <2>2, <2>3
<1>8. CASE FinalizeWrite(c)
  BY <1>8, FinalizeMoves DEF FinalizeWrite
<1>9. QED
  BY <1>5, <1>6, <1>7, <1>8 DEF Proceed

(* A call that fails. *)
LEMMA CallFailsMoves ==
    ASSUME APIIndInv, IndInv', NEW c \in Clients, CallFails(c)
    PROVE  Moves(c)
<1>1. Sound(c)
  BY Pointwise
<1>0. reply \in [Clients -> Replies]
  BY DEF APIIndInv, RepliesOK
<1>2. CASE PresignStartFails(c)
  <2>1. /\ reply' \in [Clients -> Replies]
        /\ reply'[c].about = {} /\ ~reply'[c].wrote /\ reply'[c].op = "presign"
        /\ \A d \in Clients : d # c => reply'[d] = reply[d]
    BY <1>0, <1>2 DEF PresignStartFails, Operations, Codes, Replies, Ask
  <2>2. QED
    BY <1>2, <2>1, AnsweredAtOnce DEF PresignStartFails
<1>3. CASE FinalizeReadFails(c)
  <2>1. /\ reply' \in [Clients -> Replies]
        /\ reply'[c].about = {} /\ ~reply'[c].wrote /\ reply'[c].op = "finalize"
        /\ \A d \in Clients : d # c => reply'[d] = reply[d]
    BY <1>0, <1>3 DEF FinalizeReadFails, Operations, Codes, Replies, Ask
  <2>2. QED
    BY <1>3, <2>1, AnsweredAtOnce DEF FinalizeReadFails
<1>4. CASE PresignFails(c)
  BY <1>4, Failed DEF PresignFails, Abort, Codes
<1>5. CASE FinalizeCheckFails(c)
  <2>1. ~reply[c].wrote
    BY <1>1, <1>5 DEF FinalizeCheckFails, Sound, InOrder, At
  <2>2. QED
    BY <1>5, <2>1, Failed DEF FinalizeCheckFails, Abort, Codes
<1>6. CASE FinalizeWriteFails(c)
  <2>1. CASE At(c, "write") /\ Abort(c) /\ Error(c, 500)
    BY <2>1, Failed DEF Abort, Codes
  <2>2. CASE FinalizeProcessingWithOutbox(c) /\ Ask(c, "finalize", 500, TRUE, {})
    BY <2>2, FinalizeMoves
  <2>3. QED
    BY <1>6, <2>1, <2>2 DEF FinalizeWriteFails
<1>7. CASE Vanish(c)
  <2>1. /\ request'[c] = Idle
        /\ \A d \in Clients : d # c => request'[d] = request[d]
    BY <1>7, ReplyFields DEF APIIndInv, IndInv, Vanish, Abort
  <2>2. reply' = reply /\ reply \in [Clients -> Replies] /\ reply[c].code = 0
    BY <1>1, <1>7 DEF Vanish, Abort, APIIndInv, RepliesOK, Sound, InOrder
  <2>3. reply[c].op # "uploads"
    BY <1>1, <1>7 DEF Vanish, Abort, Sound, InOrder
  <2>4. InOrder(c)' /\ Truthful(c)'
    BY <2>1, <2>2, <2>3 DEF InOrder, Truthful, At, Idle
  <2>5. QED
    BY <2>1, <2>2, <2>4 DEF Moves, Sound
<1>8. QED
  BY <1>2, <1>3, <1>4, <1>5, <1>6, <1>7 DEF CallFails

(* Every step preserves the invariant. *)
LEMMA APIStepInv == APIIndInv /\ [APINext]_apivars => APIIndInv'
<1> SUFFICES ASSUME APIIndInv, [APINext]_apivars PROVE APIIndInv'
  OBVIOUS
<1>1. IndInv /\ [Next]_vars /\ IndInv'
  BY StepIsLifecycle, StepInv DEF APIIndInv
<1>2. reply \in [Clients -> Replies] /\ \A c \in Clients : Sound(c)
  BY Pointwise
<1>3. ASSUME NEW c \in Clients, Moves(c) PROVE APIIndInv'
  <2>1. \A d \in Clients : Sound(d)'
    BY <1>1, <1>2, <1>3, OthersStaySound DEF Moves
  <2>2. QED
    BY <1>1, <1>3, <2>1, PointwiseNext DEF Moves
<1>4. ASSUME request' = request, reply' = reply PROVE APIIndInv'
  <2>1. \A d \in Clients : Sound(d)'
    BY <1>1, <1>2, <1>4, OthersStaySound
  <2>2. QED
    BY <1>1, <1>2, <1>4, <2>1, PointwiseNext
<1>5. ASSUME NEW c \in Clients,
             Arrive(c) \/ Browse(c) \/ Proceed(c) \/ CallFails(c) \/ BrowseFails(c)
      PROVE  APIIndInv'
  <2>1. Moves(c)
    BY <1>1, <1>5, ArriveMoves, BrowseMoves, ProceedMoves, CallFailsMoves
  <2>2. QED
    BY <1>3, <2>1
<1>6. CASE Background
  <2>1. request' = request /\ reply' = reply
    BY <1>6 DEF Background, Sweep, ListExpiredPending, Expire, Skip, SweepAborts, Environment,
                PutObject, BecomesOverdue, UpdateUploadStatus
  <2>2. QED
    BY <1>4, <2>1
<1>7. CASE UNCHANGED apivars
  BY <1>4, <1>7 DEF apivars, vars
<1>8. QED
  BY <1>5, <1>6, <1>7 DEF APINext

(* Nothing was asked. *)
LEMMA APIInitInv == APIInit => APIIndInv
<1> SUFFICES ASSUME APIInit PROVE APIIndInv
  OBVIOUS
<1>1. IndInv
  BY InitInv DEF APIInit
<1>2. NoReply \in Replies
  BY DEF NoReply, Replies, Operations, Codes
<1>3. /\ \A c \in Clients : At(c, "idle") /\ reply[c] = NoReply
      /\ reply \in [Clients -> Replies]
  BY <1>2 DEF APIInit, Init, At, Idle
<1>4. \A c \in Clients : Sound(c)
  BY <1>2, <1>3 DEF Sound, InOrder, Truthful, NoReply
<1>5. QED
  BY <1>1, <1>3, <1>4, Pointwise

(* The inductive invariant of the rows and of every client's reply. *)
THEOREM APIInvariance == APISpec => []APIIndInv
BY APIInitInv, APIStepInv, PTL DEF APISpec

(* An answer stays true: no later request, sweep or failure takes back the  *)
(* URL, the row or the hand-over that a client was told of.                 *)
THEOREM AnswersStayTrue == APISpec => []AnswersAreTrue
BY APIInvariance, PTL DEF APIIndInv

(* A request answered with a 4xx has changed nothing. *)
THEOREM RefusalsChangeNothing == APISpec => []RefusedChangedNothing
BY APIInvariance, PTL DEF APIIndInv
================================================================================
