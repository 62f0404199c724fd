---------------------------- MODULE OutboxDispatcher ---------------------------
(***************************************************************************)
(* The outbox dispatcher: several processes, each running DispatchPending  *)
(* from a ticker over the shared outbox_events table.  One action is one   *)
(* SQL statement or one publish.  The order in which a run handles its     *)
(* batch, and which due rows a batch takes when other transactions hold    *)
(* locks (SKIP LOCKED), are left open.                                     *)
(***************************************************************************)
EXTENDS Naturals, FiniteSets

CONSTANTS
    Events,         \* outbox_events rows, all of type upload_process_start
    Dispatchers,
    BatchLimit

ASSUME BatchLimitAssumption == BatchLimit \in Nat \ {0}

VARIABLES
    row,            \* row[e]: outbox_events.status, "absent" before its INSERT
    attempts,       \* attempts[e]: outbox_events.attempts
    delayed,        \* rows with next_attempt_at > NOW()
    published,      \* published[e]: publishes of e written to the broker's connection
    run             \* run[d]: what dispatcher d has left of its batch

vars == <<row, attempts, delayed, published, run>>

RowStates == {"absent", "pending", "dispatching", "sent"}

(***************************************************************************)
(* A run holds the events it has not come to, and the one it is handling:  *)
(* accepted when the publish returned nil, refused when it returned an     *)
(* error.  A dispatcher whose run is empty waits for its ticker.           *)
(***************************************************************************)
Runs == [todo : SUBSET Events, accepted : SUBSET Events, refused : SUBSET Events]

NoRun == [todo |-> {}, accepted |-> {}, refused |-> {}]

Held(d) == run[d].todo \cup run[d].accepted \cup run[d].refused

(* Mutant of Due: rows other runs have claimed are due, too.  *)
DueOrClaimed == {e \in Events : row[e] \in {"pending", "dispatching"} /\ e \notin delayed}

(* Mutant of Due: only rows that were never tried are due. *)
DueFirstTime == {e \in Events : row[e] = "pending" /\ attempts[e] = 0}

(* The rows the subquery of ClaimPendingBatch selects from. *)
Due == {e \in Events : row[e] = "pending" /\ e \notin delayed}

Init ==
    /\ row = [e \in Events |-> "absent"]
    /\ attempts = [e \in Events |-> 0]
    /\ delayed = {}
    /\ published = [e \in Events |-> 0]
    /\ run = [d \in Dispatchers |-> NoRun]

--------------------------------------------------------------------------------
(* DispatchPending. *)

ClaimPendingBatch(d) ==
    /\ run[d] = NoRun
    /\ \E batch \in SUBSET Due :
          /\ batch # {} /\ Cardinality(batch) \leq BatchLimit
          /\ row' = [e \in Events |-> IF e \in batch THEN "dispatching" ELSE row[e]]
          /\ attempts' = [e \in Events |-> attempts[e] + (IF e \in batch THEN 1 ELSE 0)]
          /\ run' = [run EXCEPT ![d] = [NoRun EXCEPT !.todo = batch]]
    /\ UNCHANGED <<delayed, published>>

(* The loop comes to e, and PublishUploadProcess returns nil or an error.   *)
Handle(d, e, outcome) ==
    /\ e \in run[d].todo /\ run[d].accepted = {} /\ run[d].refused = {}
    /\ run' = [run EXCEPT ![d] =
          [todo     |-> run[d].todo \ {e},
           accepted |-> IF outcome = "accepted" THEN {e} ELSE {},
           refused  |-> IF outcome = "refused" THEN {e} ELSE {}]]
    /\ UNCHANGED <<row, attempts, delayed>>

Reaches(e) == published' = [published EXCEPT ![e] = @ + 1]

Publish(d, e) == Handle(d, e, "accepted") /\ Reaches(e)

(* Mutant of PublishFails: no continue, so that the event is marked sent.   *)
PublishFailsAccepted(d, e) == Handle(d, e, "accepted") /\ UNCHANGED published

PublishFails(d, e) == Handle(d, e, "refused") /\ UNCHANGED published

(* The message reached the broker although the call returned an error.      *)
PublishErrsLate(d, e) == Handle(d, e, "refused") /\ Reaches(e)

MarkSent(d) ==
    /\ \E e \in run[d].accepted : row' = [row EXCEPT ![e] = "sent"]
    /\ run' = [run EXCEPT ![d].accepted = {}]
    /\ UNCHANGED <<attempts, delayed, published>>

(* Mutant of MarkPendingWithError: the run tries again under the same claim. *)
RetryInRun(d) ==
    /\ run[d].refused # {}
    /\ run' = [run EXCEPT ![d].todo = @ \cup run[d].refused, ![d].refused = {}]
    /\ UNCHANGED <<row, attempts, delayed, published>>

MarkPendingWithError(d) ==
    /\ \E e \in run[d].refused :
          /\ row' = [row EXCEPT ![e] = "pending"]
          /\ delayed' = delayed \cup {e}
    /\ run' = [run EXCEPT ![d].refused = {}]
    /\ UNCHANGED <<attempts, published>>

(* A mark or the scan of the claimed rows returns an error, the run's       *)
(* timeout passes, or the process dies: the rest of the batch is dropped,   *)
(* before or after the last statement took effect.                          *)
Abandon(d) ==
    /\ run[d] # NoRun
    /\ run' = [run EXCEPT ![d] = NoRun]
    /\ UNCHANGED <<row, attempts, delayed, published>>

--------------------------------------------------------------------------------
(* The environment: FinalizeUpload commits an event, and time passes. *)

Commit(e) ==
    /\ row[e] = "absent"
    /\ row' = [row EXCEPT ![e] = "pending"]
    /\ UNCHANGED <<attempts, delayed, published, run>>

DelayPasses(e) ==
    /\ e \in delayed
    /\ delayed' = delayed \ {e}
    /\ UNCHANGED <<row, attempts, published, run>>

--------------------------------------------------------------------------------
Dispatch(d) ==
    \/ ClaimPendingBatch(d)
    \/ \E e \in Events : Publish(d, e)
    \/ MarkSent(d)
    \/ MarkPendingWithError(d)

(* The broker refuses a publish: the code answers with a later attempt.     *)
Refusal(d) == \E e \in Events : PublishFails(d, e) \/ PublishErrsLate(d, e)

Next ==
    \/ \E d \in Dispatchers : Dispatch(d) \/ Refusal(d) \/ Abandon(d)
    \/ \E e \in Events : Commit(e) \/ DelayPasses(e)

Spec == Init /\ [][Next]_vars

--------------------------------------------------------------------------------
(* Every variable keeps its domain. *)
TypeOK ==
    /\ row \in [Events -> RowStates]
    /\ attempts \in [Events -> Nat]
    /\ delayed \in SUBSET Events
    /\ published \in [Events -> Nat]
    /\ run \in [Dispatchers -> Runs]

(* An event a run holds is its own: the row says dispatching and no other   *)
(* run, of this process or of a replica, holds it.                          *)
HeldAlone ==
    \A d \in Dispatchers : \A e \in Held(d) :
        /\ row[e] = "dispatching"
        /\ \A f \in Dispatchers : e \in Held(f) => f = d

(* Within a run an event is in one place, and accepted means published.     *)
RunsAreConsistent ==
    \A d \in Dispatchers :
        /\ run[d].accepted = {} \/ run[d].refused = {}
        /\ run[d].todo \cap (run[d].accepted \cup run[d].refused) = {}
        /\ \A e \in run[d].accepted : published[e] > 0

(* One publish per claim: the counter the retry delay grows with bounds the *)
(* copies of an event in the broker, and an event still waiting in a batch  *)
(* has not used its claim.                                                  *)
OneCopyPerClaim ==
    \A e \in Events :
        /\ published[e] \leq attempts[e]
        /\ \A d \in Dispatchers : e \in run[d].todo => published[e] < attempts[e]

(* A row is closed as sent only if a publish of it succeeded.               *)
SentMeansPublished == \A e \in Events : row[e] = "sent" => published[e] > 0

(* The conjunction that every step preserves. *)
IndInv ==
    /\ TypeOK
    /\ HeldAlone
    /\ RunsAreConsistent
    /\ OneCopyPerClaim
    /\ SentMeansPublished

(* The dispatcher implements the abstract relay: its sent rows are the      *)
(* closed events.                                                           *)
R == INSTANCE Relay WITH
        committed <- {e \in Events : row[e] # "absent"},
        copies    <- published,
        closed    <- {e \in Events : row[e] = "sent"}

(* Every behaviour of the dispatcher is one of the abstract relay. *)
ImplementsRelay == R!Spec

(* A claimed row that no run holds: ClaimPendingBatch selects pending rows  *)
(* only, so no dispatcher will touch it again.                              *)
Stranded(e) == row[e] = "dispatching" /\ \A d \in Dispatchers : e \notin Held(d)

(* A committed event is relayed unless a run that held it was abandoned.    *)
RelayedOrStranded ==
    \A e \in Events : row[e] = "pending" ~> row[e] = "sent" \/ Stranded(e)

(* The repository's claim for the outbox: no committed event is lost, the   *)
(* dispatcher relays it after the fact.                                     *)
NoLostSignal == \A e \in Events : row[e] = "pending" ~> published[e] > 0

================================================================================
