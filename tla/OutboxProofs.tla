------------------------------ MODULE OutboxProofs -----------------------------
(***************************************************************************)
(* Proofs about OutboxDispatcher, for every set of events and dispatchers, *)
(* every batch limit, and any number of refused publishes and abandoned    *)
(* runs: the inductive invariant, and that the dispatcher is a relay.      *)
(***************************************************************************)
EXTENDS OutboxDispatcher, TLAPS

(* No run is a run that holds nothing. *)
LEMMA NoRunHoldsNothing ==
    /\ NoRun \in Runs
    /\ NoRun.todo = {} /\ NoRun.accepted = {} /\ NoRun.refused = {}
BY DEF NoRun, Runs

(* The initial states satisfy the invariant. *)
LEMMA InitInv == Init => IndInv
<1> SUFFICES ASSUME Init PROVE IndInv
  OBVIOUS
<1>1. TypeOK
  BY NoRunHoldsNothing DEF Init, TypeOK, RowStates
<1>2. QED
  BY <1>1, NoRunHoldsNothing
  DEF Init, IndInv, HeldAlone, RunsAreConsistent, OneCopyPerClaim, SentMeansPublished, Held

(* What taking up a due batch does to each row. *)
LEMMA ClaimKeepsInv ==
    ASSUME IndInv, NEW d \in Dispatchers, ClaimPendingBatch(d)
    PROVE  IndInv'
<1>1. PICK b \in SUBSET Due :
          /\ row' = [e \in Events |-> IF e \in b THEN "dispatching" ELSE row[e]]
          /\ attempts' = [e \in Events |-> attempts[e] + (IF e \in b THEN 1 ELSE 0)]
          /\ run' = [run EXCEPT ![d] = [NoRun EXCEPT !.todo = b]]
  BY DEF ClaimPendingBatch
<1> DEFINE new == [NoRun EXCEPT !.todo = b]
<1>2. /\ new \in Runs
      /\ new.todo = b /\ new.accepted = {} /\ new.refused = {}
  BY DEF NoRun, Runs, Due
<1> HIDE DEF new
<1>3. /\ delayed' = delayed /\ published' = published
      /\ b \subseteq Events /\ \A e \in b : row[e] = "pending"
  BY DEF ClaimPendingBatch, Due
<1>4. /\ run'[d] = new
      /\ \A f \in Dispatchers : f # d => run'[f] = run[f]
      /\ run' \in [Dispatchers -> Runs]
  BY <1>1, <1>2 DEF IndInv, TypeOK, new
<1>5. \A f \in Dispatchers : Held(f)' = IF f = d THEN b ELSE Held(f)
  BY <1>2, <1>4 DEF Held
<1>6. \A f \in Dispatchers : Held(f) \subseteq Events /\ Held(f) \cap b = {}
  BY <1>3 DEF IndInv, TypeOK, HeldAlone, Held, Runs
<1>7. TypeOK'
  BY <1>1, <1>3, <1>4 DEF IndInv, TypeOK, RowStates
<1>8. HeldAlone'
  <2> SUFFICES ASSUME NEW f \in Dispatchers, NEW e \in Held(f)'
               PROVE  /\ row'[e] = "dispatching"
                      /\ \A g \in Dispatchers : e \in Held(g)' => g = f
    BY DEF HeldAlone
  <2>1. CASE f = d
    BY <2>1, <1>1, <1>3, <1>5, <1>6
  <2>2. CASE f # d
    BY <2>2, <1>1, <1>5, <1>6 DEF IndInv, HeldAlone
  <2>3. QED
    BY <2>1, <2>2
<1>9. RunsAreConsistent'
  BY <1>2, <1>3, <1>4 DEF IndInv, RunsAreConsistent
<1>10. OneCopyPerClaim'
  <2> SUFFICES ASSUME NEW e \in Events
               PROVE  /\ published[e] \leq attempts'[e]
                      /\ \A f \in Dispatchers : e \in run'[f].todo => published[e] < attempts'[e]
    BY <1>3 DEF OneCopyPerClaim
  <2>1. attempts'[e] = attempts[e] + (IF e \in b THEN 1 ELSE 0)
    BY <1>1
  <2>2. attempts[e] \in Nat /\ published[e] \in Nat /\ published[e] \leq attempts[e]
    BY DEF IndInv, TypeOK, OneCopyPerClaim
  <2>3. ASSUME NEW f \in Dispatchers, e \in run'[f].todo
        PROVE  published[e] < attempts'[e]
    <3>1. CASE f = d
      BY <3>1, <2>1, <2>2, <2>3, <1>2, <1>4
    <3>2. CASE f # d
      BY <3>2, <2>1, <2>2, <2>3, <1>4 DEF IndInv, OneCopyPerClaim
    <3>3. QED
      BY <3>1, <3>2
  <2>4. QED
    BY <2>1, <2>2, <2>3
<1>11. SentMeansPublished'
  BY <1>1, <1>3 DEF IndInv, SentMeansPublished
<1>12. QED
  BY <1>7, <1>8, <1>9, <1>10, <1>11 DEF IndInv

(* What coming to an event does, whether its publish is accepted or not.    *)
LEMMA HandleFields ==
    ASSUME IndInv, NEW d \in Dispatchers, NEW e \in Events,
           NEW outcome \in {"accepted", "refused"}, Handle(d, e, outcome)
    PROVE  /\ e \in run[d].todo
           /\ run' \in [Dispatchers -> Runs]
           /\ run'[d].todo = run[d].todo \ {e}
           /\ run'[d].accepted = IF outcome = "accepted" THEN {e} ELSE {}
           /\ run'[d].refused = IF outcome = "refused" THEN {e} ELSE {}
           /\ \A f \in Dispatchers : f # d => run'[f] = run[f]
           /\ \A f \in Dispatchers : Held(f)' = Held(f)
           /\ row' = row /\ attempts' = attempts /\ delayed' = delayed
<1> DEFINE new == [todo     |-> run[d].todo \ {e},
                   accepted |-> IF outcome = "accepted" THEN {e} ELSE {},
                   refused  |-> IF outcome = "refused" THEN {e} ELSE {}]
<1>1. /\ e \in run[d].todo /\ run[d].accepted = {} /\ run[d].refused = {}
      /\ run' = [run EXCEPT ![d] = new]
      /\ row' = row /\ attempts' = attempts /\ delayed' = delayed
  BY DEF Handle
<1>2. run \in [Dispatchers -> Runs] /\ run[d] \in Runs
  BY DEF IndInv, TypeOK
<1>3. new \in Runs
  BY <1>2 DEF Runs
<1>4. run' \in [Dispatchers -> Runs] /\ run'[d] = new
      /\ \A f \in Dispatchers : f # d => run'[f] = run[f]
  BY <1>1, <1>2, <1>3
<1>5. Held(d)' = Held(d)
  BY <1>1, <1>4 DEF Held
<1>6. \A f \in Dispatchers : Held(f)' = Held(f)
  BY <1>4, <1>5 DEF Held
<1>7. QED
  BY <1>1, <1>4, <1>6

(* A publish that is accepted or refused, early or late. *)
LEMMA HandleKeepsInv ==
    ASSUME IndInv, NEW d \in Dispatchers, NEW e \in Events,
           Publish(d, e) \/ PublishFails(d, e) \/ PublishErrsLate(d, e)
    PROVE  IndInv'
<1>1. PICK outcome \in {"accepted", "refused"} :
          /\ Handle(d, e, outcome)
          /\ outcome = "accepted" => Reaches(e)
          /\ Reaches(e) \/ published' = published
  BY DEF Publish, PublishFails, PublishErrsLate
<1>2. /\ e \in run[d].todo
      /\ run' \in [Dispatchers -> Runs]
      /\ run'[d].todo = run[d].todo \ {e}
      /\ run'[d].accepted = IF outcome = "accepted" THEN {e} ELSE {}
      /\ run'[d].refused = IF outcome = "refused" THEN {e} ELSE {}
      /\ \A f \in Dispatchers : f # d => run'[f] = run[f]
      /\ \A f \in Dispatchers : Held(f)' = Held(f)
      /\ row' = row /\ attempts' = attempts /\ delayed' = delayed
  BY <1>1, HandleFields
<1>3. /\ attempts \in [Events -> Nat] /\ published \in [Events -> Nat]
      /\ published' \in [Events -> Nat]
      /\ \A f \in Events : f # e => published'[f] = published[f]
      /\ published'[e] \in {published[e], published[e] + 1}
      /\ outcome = "accepted" => published'[e] = published[e] + 1
  BY <1>1 DEF IndInv, TypeOK, Reaches
<1>4. TypeOK'
  BY <1>2, <1>3 DEF IndInv, TypeOK
<1>5. HeldAlone'
  BY <1>2 DEF IndInv, HeldAlone
<1>6. RunsAreConsistent'
  <2> SUFFICES ASSUME NEW f \in Dispatchers
               PROVE  /\ run'[f].accepted = {} \/ run'[f].refused = {}
                      /\ run'[f].todo \cap (run'[f].accepted \cup run'[f].refused) = {}
                      /\ \A g \in run'[f].accepted : published'[g] > 0
    BY DEF RunsAreConsistent
  <2>1. CASE f = d
    BY <2>1, <1>1, <1>2, <1>3
  <2>2. CASE f # d
    <3>1. run'[f] = run[f] /\ run[f] \in Runs
      BY <2>2, <1>2 DEF IndInv, TypeOK
    <3>2. \A g \in run[f].accepted : g \in Events /\ published[g] > 0
      BY <3>1 DEF IndInv, RunsAreConsistent, Runs
    <3>3. QED
      BY <3>1, <3>2, <1>3 DEF IndInv, RunsAreConsistent
  <2>3. QED
    BY <2>1, <2>2
<1>7. OneCopyPerClaim'
  <2>1. published[e] < attempts[e]
    BY <1>2 DEF IndInv, OneCopyPerClaim
  <2>2. \A f \in Dispatchers : e \notin run'[f].todo
    BY <1>2 DEF IndInv, HeldAlone, Held
  <2>3. \A f \in Dispatchers : run'[f].todo \subseteq run[f].todo
    BY <1>2
  <2> SUFFICES ASSUME NEW g \in Events
               PROVE  /\ published'[g] \leq attempts[g]
                      /\ \A f \in Dispatchers : g \in run'[f].todo => published'[g] < attempts[g]
    BY <1>2 DEF OneCopyPerClaim
  <2>4. CASE g = e
    BY <2>1, <2>2, <2>4, <1>3
  <2>5. CASE g # e
    BY <2>3, <2>5, <1>3 DEF IndInv, OneCopyPerClaim
  <2>6. QED
    BY <2>4, <2>5
<1>8. SentMeansPublished'
  BY <1>2, <1>3 DEF IndInv, SentMeansPublished
<1>9. QED
  BY <1>4, <1>5, <1>6, <1>7, <1>8 DEF IndInv

(* A dispatcher that lets go of events takes up none. *)
LetsGo(d) ==
    /\ run' \in [Dispatchers -> Runs]
    /\ \A f \in Dispatchers : f # d => run'[f] = run[f]
    /\ run'[d].todo \subseteq run[d].todo
    /\ run'[d].accepted \subseteq run[d].accepted
    /\ run'[d].refused \subseteq run[d].refused

(* Whatever a run lets go of, the invariant holds as long as the rows it    *)
(* touches are no longer held and are closed only after a publish.          *)
LEMMA LettingGoKeepsInv ==
    ASSUME IndInv, NEW d \in Dispatchers, LetsGo(d),
           attempts' = attempts, published' = published,
           delayed' \in SUBSET Events,
           row' \in [Events -> RowStates],
           \A f \in Dispatchers : \A e \in Held(f)' : row'[e] = row[e],
           \A e \in Events : row'[e] = "sent" => row[e] = "sent" \/ published[e] > 0
    PROVE  IndInv'
<1>1. TypeOK'
  BY DEF IndInv, TypeOK, LetsGo
<1>2. \A f \in Dispatchers : Held(f)' \subseteq Held(f)
  BY DEF LetsGo, Held
<1>3. HeldAlone'
  BY <1>2 DEF IndInv, HeldAlone
<1>4. \A f \in Dispatchers :
          /\ run'[f].todo \subseteq run[f].todo
          /\ run'[f].accepted \subseteq run[f].accepted
          /\ run'[f].refused \subseteq run[f].refused
  BY DEF LetsGo
<1>5. RunsAreConsistent'
  <2> SUFFICES ASSUME NEW f \in Dispatchers
               PROVE  /\ run'[f].accepted = {} \/ run'[f].refused = {}
                      /\ run'[f].todo \cap (run'[f].accepted \cup run'[f].refused) = {}
                      /\ \A g \in run'[f].accepted : published[g] > 0
    BY DEF RunsAreConsistent
  <2>1. /\ run[f].accepted = {} \/ run[f].refused = {}
        /\ run[f].todo \cap (run[f].accepted \cup run[f].refused) = {}
        /\ \A g \in run[f].accepted : published[g] > 0
    BY DEF IndInv, RunsAreConsistent
  <2>2. QED
    BY <2>1, <1>4
<1>6. OneCopyPerClaim'
  BY <1>4 DEF IndInv, OneCopyPerClaim
<1>7. SentMeansPublished'
  BY DEF IndInv, SentMeansPublished
<1>8. QED
  BY <1>1, <1>3, <1>5, <1>6, <1>7 DEF IndInv

(* The accepted event of a run: nobody else holds it, and it was published. *)
LEMMA MarkSentFields ==
    ASSUME IndInv, NEW d \in Dispatchers, MarkSent(d)
    PROVE  /\ LetsGo(d)
           /\ attempts' = attempts /\ published' = published /\ delayed' = delayed
           /\ \E e \in Events : /\ row' = [row EXCEPT ![e] = "sent"]
                                /\ row[e] = "dispatching" /\ published[e] > 0
                                /\ \A f \in Dispatchers : e \notin Held(f)'
<1>1. PICK e \in run[d].accepted : row' = [row EXCEPT ![e] = "sent"]
  BY DEF MarkSent
<1>2. /\ run' = [run EXCEPT ![d].accepted = {}]
      /\ attempts' = attempts /\ published' = published /\ delayed' = delayed
  BY DEF MarkSent
<1>3. run \in [Dispatchers -> Runs] /\ run[d] \in Runs
  BY DEF IndInv, TypeOK
<1>4. /\ run'[d].todo = run[d].todo /\ run'[d].accepted = {}
      /\ run'[d].refused = run[d].refused
      /\ run' \in [Dispatchers -> Runs]
      /\ \A f \in Dispatchers : f # d => run'[f] = run[f]
  BY <1>2, <1>3 DEF Runs
<1>5. LetsGo(d)
  BY <1>4 DEF LetsGo
<1>6. e \in Events /\ e \in Held(d)
  BY <1>1, <1>3 DEF Runs, Held
<1>7. row[e] = "dispatching" /\ \A f \in Dispatchers : e \in Held(f) => f = d
  BY <1>6 DEF IndInv, HeldAlone
<1>8. published[e] > 0 /\ run[d].refused = {} /\ e \notin run[d].todo
  BY <1>1 DEF IndInv, RunsAreConsistent
<1>9. \A f \in Dispatchers : e \notin Held(f)'
  BY <1>4, <1>7, <1>8 DEF Held
<1>10. QED
  BY <1>1, <1>2, <1>5, <1>6, <1>7, <1>8, <1>9

(* A row marked sent was published and is nobody's any more. *)
LEMMA MarkSentKeepsInv ==
    ASSUME IndInv, NEW d \in Dispatchers, MarkSent(d)
    PROVE  IndInv'
<1>1. /\ LetsGo(d)
      /\ attempts' = attempts /\ published' = published /\ delayed' = delayed
  BY MarkSentFields
<1>2. PICK e \in Events : /\ row' = [row EXCEPT ![e] = "sent"]
                          /\ row[e] = "dispatching" /\ published[e] > 0
                          /\ \A f \in Dispatchers : e \notin Held(f)'
  BY MarkSentFields
<1>3. row' \in [Events -> RowStates] /\ \A f \in Events : f # e => row'[f] = row[f]
  BY <1>2 DEF IndInv, TypeOK, RowStates
<1>4. \A f \in Dispatchers : Held(f)' \subseteq Events
  BY <1>1 DEF LetsGo, Held, Runs
<1>5. \A f \in Dispatchers : \A g \in Held(f)' : row'[g] = row[g]
  BY <1>2, <1>3, <1>4
<1>6. \A g \in Events : row'[g] = "sent" => row[g] = "sent" \/ published[g] > 0
  BY <1>2, <1>3
<1>7. delayed' \in SUBSET Events
  BY <1>1 DEF IndInv, TypeOK
<1>8. QED
  BY <1>1, <1>3, <1>5, <1>6, <1>7, LettingGoKeepsInv

(* The refused event of a run goes back, and nobody else holds it. *)
LEMMA MarkPendingFields ==
    ASSUME IndInv, NEW d \in Dispatchers, MarkPendingWithError(d)
    PROVE  /\ LetsGo(d)
           /\ attempts' = attempts /\ published' = published
           /\ \E e \in Events : /\ row' = [row EXCEPT ![e] = "pending"]
                                /\ row[e] = "dispatching"
                                /\ delayed' = delayed \cup {e}
                                /\ \A f \in Dispatchers : e \notin Held(f)'
<1>1. PICK e \in run[d].refused : /\ row' = [row EXCEPT ![e] = "pending"]
                                  /\ delayed' = delayed \cup {e}
  BY DEF MarkPendingWithError
<1>2. /\ run' = [run EXCEPT ![d].refused = {}]
      /\ attempts' = attempts /\ published' = published
  BY DEF MarkPendingWithError
<1>3. run \in [Dispatchers -> Runs] /\ run[d] \in Runs
  BY DEF IndInv, TypeOK
<1>4. /\ run'[d].todo = run[d].todo /\ run'[d].refused = {}
      /\ run'[d].accepted = run[d].accepted
      /\ run' \in [Dispatchers -> Runs]
      /\ \A f \in Dispatchers : f # d => run'[f] = run[f]
  BY <1>2, <1>3 DEF Runs
<1>5. LetsGo(d)
  BY <1>4 DEF LetsGo
<1>6. e \in Events /\ e \in Held(d)
  BY <1>1, <1>3 DEF Runs, Held
<1>7. row[e] = "dispatching" /\ \A f \in Dispatchers : e \in Held(f) => f = d
  BY <1>6 DEF IndInv, HeldAlone
<1>8. run[d].accepted = {} /\ e \notin run[d].todo
  BY <1>1 DEF IndInv, RunsAreConsistent
<1>9. \A f \in Dispatchers : e \notin Held(f)'
  BY <1>4, <1>7, <1>8 DEF Held
<1>10. QED
  BY <1>1, <1>2, <1>5, <1>6, <1>7, <1>9

(* A row marked pending is nobody's any more. *)
LEMMA MarkPendingKeepsInv ==
    ASSUME IndInv, NEW d \in Dispatchers, MarkPendingWithError(d)
    PROVE  IndInv'
<1>1. LetsGo(d) /\ attempts' = attempts /\ published' = published
  BY MarkPendingFields
<1>2. PICK e \in Events : /\ row' = [row EXCEPT ![e] = "pending"]
                          /\ row[e] = "dispatching"
                          /\ delayed' = delayed \cup {e}
                          /\ \A f \in Dispatchers : e \notin Held(f)'
  BY MarkPendingFields
<1>3. row' \in [Events -> RowStates] /\ \A f \in Events : f # e => row'[f] = row[f]
  BY <1>2 DEF IndInv, TypeOK, RowStates
<1>4. \A f \in Dispatchers : Held(f)' \subseteq Events
  BY <1>1 DEF LetsGo, Held, Runs
<1>5. \A f \in Dispatchers : \A g \in Held(f)' : row'[g] = row[g]
  BY <1>2, <1>3, <1>4
<1>6. \A g \in Events : row'[g] = "sent" => row[g] = "sent" \/ published[g] > 0
  BY <1>2, <1>3 DEF IndInv, TypeOK
<1>7. delayed' \in SUBSET Events
  BY <1>2 DEF IndInv, TypeOK
<1>8. QED
  BY <1>1, <1>3, <1>5, <1>6, <1>7, LettingGoKeepsInv

(* An abandoned run changes no row. *)
LEMMA AbandonKeepsInv ==
    ASSUME IndInv, NEW d \in Dispatchers, Abandon(d)
    PROVE  IndInv'
<1>1. /\ run' = [run EXCEPT ![d] = NoRun]
      /\ row' = row /\ attempts' = attempts /\ delayed' = delayed /\ published' = published
  BY DEF Abandon
<1>2. LetsGo(d)
  BY <1>1, NoRunHoldsNothing DEF IndInv, TypeOK, LetsGo
<1>3. row' \in [Events -> RowStates] /\ delayed' \in SUBSET Events
  BY <1>1 DEF IndInv, TypeOK
<1>4. QED
  BY <1>1, <1>2, <1>3, LettingGoKeepsInv

(* The environment changes only rows that nobody holds. *)
LEMMA EnvironmentKeepsInv ==
    ASSUME IndInv, NEW e \in Events, Commit(e) \/ DelayPasses(e)
    PROVE  IndInv'
<1>1. /\ attempts' = attempts /\ published' = published /\ run' = run
      /\ delayed' \in SUBSET Events
      /\ row' = row \/ (row[e] = "absent" /\ row' = [row EXCEPT ![e] = "pending"])
  BY DEF IndInv, TypeOK, Commit, DelayPasses
<1>2. /\ row' \in [Events -> RowStates]
      /\ \A g \in Events : row'[g] = row[g] \/ (row[g] = "absent" /\ row'[g] = "pending")
  BY <1>1 DEF IndInv, TypeOK, RowStates
<1>3. \A d \in Dispatchers : Held(d)' = Held(d) /\ Held(d) \subseteq Events
  BY <1>1 DEF IndInv, TypeOK, Held, Runs
<1>4. TypeOK' /\ OneCopyPerClaim' /\ RunsAreConsistent'
  BY <1>1, <1>2 DEF IndInv, TypeOK, OneCopyPerClaim, RunsAreConsistent
<1>5. HeldAlone'
  <2> SUFFICES ASSUME NEW d \in Dispatchers, NEW g \in Held(d)
               PROVE  /\ row'[g] = "dispatching"
                      /\ \A f \in Dispatchers : g \in Held(f) => f = d
    BY <1>3 DEF HeldAlone
  <2>1. /\ g \in Events /\ row[g] = "dispatching"
        /\ \A f \in Dispatchers : g \in Held(f) => f = d
    BY <1>3 DEF IndInv, HeldAlone
  <2>2. row'[g] = row[g]
    BY <2>1, <1>2
  <2>3. QED
    BY <2>1, <2>2
<1>6. SentMeansPublished'
  <2> SUFFICES ASSUME NEW g \in Events, row'[g] = "sent" PROVE published[g] > 0
    BY <1>1 DEF SentMeansPublished
  <2>1. row[g] = "sent"
    BY <1>2
  <2>2. QED
    BY <2>1 DEF IndInv, SentMeansPublished
<1>7. QED
  BY <1>4, <1>5, <1>6 DEF IndInv

(* Every step preserves the invariant. *)
LEMMA StepInv == IndInv /\ [Next]_vars => IndInv'
<1> SUFFICES ASSUME IndInv, [Next]_vars PROVE IndInv'
  OBVIOUS
<1>1. ASSUME NEW d \in Dispatchers, Dispatch(d) PROVE IndInv'
  BY <1>1, ClaimKeepsInv, HandleKeepsInv, MarkSentKeepsInv, MarkPendingKeepsInv DEF Dispatch
<1>2. ASSUME NEW d \in Dispatchers, Refusal(d) PROVE IndInv'
  BY <1>2, HandleKeepsInv DEF Refusal
<1>3. ASSUME NEW d \in Dispatchers, Abandon(d) PROVE IndInv'
  BY <1>3, AbandonKeepsInv
<1>4. ASSUME NEW e \in Events, Commit(e) \/ DelayPasses(e) PROVE IndInv'
  BY <1>4, EnvironmentKeepsInv
<1>5. CASE UNCHANGED vars
  BY <1>5 DEF vars, IndInv, TypeOK, HeldAlone, RunsAreConsistent, OneCopyPerClaim,
              SentMeansPublished, Held
<1>6. QED
  BY <1>1, <1>2, <1>3, <1>4, <1>5 DEF Next

(* The inductive invariant of the dispatchers: exclusive claims, one        *)
(* publish per claim, and no row sent that was not published.               *)
THEOREM Invariance == Spec => []IndInv
BY InitInv, StepInv, PTL DEF Spec

(* A claimed event is held by one run only, whose row says dispatching:     *)
(* what FOR UPDATE SKIP LOCKED and the change of status are there for.      *)
THEOREM ClaimsAreExclusive == Spec => []HeldAlone
BY Invariance, PTL DEF IndInv

(* The attempt counter of a row bounds its copies in the broker. *)
THEOREM CopiesBounded == Spec => []OneCopyPerClaim
BY Invariance, PTL DEF IndInv

--------------------------------------------------------------------------------
(* Refinement: each step of the dispatcher is a step of Relay or none. *)

(* An empty outbox is an empty relay. *)
LEMMA InitRefines == Init => R!Init
BY DEF Init, R!Init

(* A publish, a mark and a commit are steps of the relay, the rest stutters. *)
LEMMA StepRefines == IndInv /\ [Next]_vars => [R!Next]_(R!relayVars)
<1> SUFFICES ASSUME IndInv, [Next]_vars
             PROVE  R!Next \/ UNCHANGED R!relayVars
  BY DEF R!relayVars
<1> USE DEF R!relayVars
<1>1. ASSUME NEW d \in Dispatchers, ClaimPendingBatch(d)
      PROVE  UNCHANGED R!relayVars
  <2>1. PICK b \in SUBSET Due :
            row' = [e \in Events |-> IF e \in b THEN "dispatching" ELSE row[e]]
    BY <1>1 DEF ClaimPendingBatch
  <2>2. \A e \in Events : \/ row'[e] = row[e]
                          \/ row[e] = "pending" /\ row'[e] = "dispatching"
    <3>1. \A e \in b : row[e] = "pending"
      BY DEF Due
    <3>2. QED
      BY <2>1, <3>1
  <2>3. published' = published
    BY <1>1 DEF ClaimPendingBatch
  <2>4. QED
    BY <2>2, <2>3
<1>2. ASSUME NEW d \in Dispatchers, NEW e \in Events,
             Publish(d, e) \/ PublishFails(d, e) \/ PublishErrsLate(d, e)
      PROVE  R!Publish(e) \/ UNCHANGED R!relayVars
  <2>1. /\ e \in run[d].todo /\ row' = row
        /\ Reaches(e) \/ published' = published
    BY <1>2 DEF Publish, PublishFails, PublishErrsLate, Handle
  <2>2. row[e] = "dispatching"
    BY <2>1 DEF IndInv, HeldAlone, Held
  <2>3. QED
    BY <2>1, <2>2 DEF Reaches, R!Publish
<1>3. ASSUME NEW d \in Dispatchers, MarkSent(d)
      PROVE  \E e \in Events : R!Close(e)
  <2>1. published' = published
    BY <1>3, MarkSentFields
  <2>2. PICK e \in Events : /\ row' = [row EXCEPT ![e] = "sent"]
                            /\ row[e] = "dispatching" /\ published[e] > 0
    BY <1>3, MarkSentFields
  <2>3. row'[e] = "sent" /\ \A f \in Events : f # e => row'[f] = row[f]
    BY <2>2 DEF IndInv, TypeOK
  <2>4. R!Close(e)
    BY <2>1, <2>2, <2>3 DEF R!Close
  <2>5. QED
    BY <2>4
<1>4. ASSUME NEW d \in Dispatchers, MarkPendingWithError(d)
      PROVE  UNCHANGED R!relayVars
  <2>1. published' = published
    BY <1>4, MarkPendingFields
  <2>2. PICK e \in Events : /\ row' = [row EXCEPT ![e] = "pending"]
                            /\ row[e] = "dispatching"
    BY <1>4, MarkPendingFields
  <2>3. row'[e] = "pending" /\ \A f \in Events : f # e => row'[f] = row[f]
    BY <2>2 DEF IndInv, TypeOK
  <2>4. QED
    BY <2>1, <2>2, <2>3
<1>5. ASSUME NEW e \in Events, Commit(e)
      PROVE  R!Commit(e)
  <2>1. /\ row[e] = "absent" /\ row'[e] = "pending" /\ published' = published
        /\ \A f \in Events : f # e => row'[f] = row[f]
    BY <1>5 DEF Commit, IndInv, TypeOK
  <2>2. QED
    BY <2>1 DEF R!Commit
<1>6. ASSUME row' = row, published' = published
      PROVE  UNCHANGED R!relayVars
  BY <1>6
<1>7. CASE \E d \in Dispatchers : Dispatch(d) \/ Refusal(d) \/ Abandon(d)
  BY <1>1, <1>2, <1>3, <1>4, <1>6, <1>7 DEF Dispatch, Refusal, Abandon, R!Next
<1>8. CASE \E e \in Events : Commit(e) \/ DelayPasses(e)
  BY <1>5, <1>6, <1>8 DEF DelayPasses, R!Next
<1>9. CASE UNCHANGED vars
  BY <1>6, <1>9 DEF vars
<1>10. QED
  BY <1>7, <1>8, <1>9 DEF Next

(* However dispatchers race, fail and are restarted, an event is published  *)
(* only after its commit, at least once before its row is sent, and never   *)
(* after.                                                                   *)
THEOREM DispatcherImplementsRelay == Spec => ImplementsRelay
BY InitRefines, StepRefines, Invariance, PTL DEF Spec, ImplementsRelay, R!Spec
================================================================================
