----------------------------- MODULE WorkersProofs -----------------------------
(***************************************************************************)
(* Proofs about Workers, for every set of uploads and replicas and every   *)
(* retry limit, with any number of faults.                                 *)
(***************************************************************************)
EXTENDS Workers, TLAPS

(* A busy worker's job, and the row its message names.                      *)
LEMMA JobFields ==
    ASSUME TypeOK, NEW w \in WorkerIds, wjob[w].pc # "idle"
    PROVE  /\ wjob[w] \in WorkerJobs
           /\ wjob[w].msg \in StepMsgs
           /\ wjob[w].msg.upload \in Uploads /\ wjob[w].msg.step \in Steps
           /\ wjob[w].applied \in BOOLEAN /\ wjob[w].closed \in BOOLEAN
           /\ wjob[w].msg.step = w[1]
           /\ RowOf(wjob[w].msg) \in RowStates
<1>1. wjob[w] \in WorkerJobs /\ wjob[w].msg.step = w[1]
  BY DEF TypeOK, Idle
<1>2. /\ wjob[w].msg \in StepMsgs
      /\ wjob[w].applied \in BOOLEAN /\ wjob[w].closed \in BOOLEAN
      /\ wjob[w].msg.upload \in Uploads /\ wjob[w].msg.step \in Steps
  BY <1>1 DEF WorkerJobs, StepMsgs
<1>3. QED
  BY <1>1, <1>2 DEF TypeOK, RowOf

(* What a worker's next job looks like. *)
LEMMA GotoFields ==
    ASSUME TypeOK, NEW w \in WorkerIds, wjob[w].pc # "idle",
           NEW pc \in Holding \cup Reporting, Goto(w, pc)
    PROVE  /\ \A v \in WorkerIds \ {w} : wjob'[v] = wjob[v]
           /\ wjob'[w].pc = pc /\ wjob'[w].msg = wjob[w].msg
           /\ wjob'[w].applied = wjob[w].applied /\ wjob'[w].closed = wjob[w].closed
           /\ DOMAIN wjob' = WorkerIds
           /\ \A v \in WorkerIds :
                 wjob'[v] = Idle \/ (wjob'[v] \in WorkerJobs /\ wjob'[v].msg.step = v[1])
<1>1. wjob[w] \in WorkerJobs /\ wjob[w].msg.step = w[1]
  BY JobFields
<1>2. wjob' = [wjob EXCEPT ![w].pc = pc]
  BY DEF Goto
<1>3. /\ \A v \in WorkerIds \ {w} : wjob'[v] = wjob[v]
      /\ wjob'[w] = [wjob[w] EXCEPT !.pc = pc]
      /\ DOMAIN wjob' = WorkerIds
  BY <1>2 DEF TypeOK
<1>4. wjob'[w] \in WorkerJobs /\ wjob'[w].pc = pc /\ wjob'[w].msg = wjob[w].msg
        /\ wjob'[w].applied = wjob[w].applied /\ wjob'[w].closed = wjob[w].closed
  BY <1>1, <1>3 DEF WorkerJobs
<1>5. QED
  BY <1>1, <1>3, <1>4 DEF TypeOK

JobsTyped ==
    /\ DOMAIN wjob = WorkerIds
    /\ \A v \in WorkerIds :
          wjob[v] = Idle \/ (wjob[v] \in WorkerJobs /\ wjob[v].msg.step = v[1])

(* What the closing of its channel does to a worker's job. *)
LEMMA ClosedFields ==
    ASSUME TypeOK, NEW w \in WorkerIds, ChannelCloses(w)
    PROVE  /\ \A v \in WorkerIds \ {w} : wjob'[v] = wjob[v]
           /\ wjob'[w].pc = wjob[w].pc /\ wjob'[w].msg = wjob[w].msg
           /\ wjob'[w].applied = wjob[w].applied /\ wjob'[w].closed = TRUE
           /\ wjob[w].pc \in Holding /\ wjob[w].pc # "idle"
           /\ JobsTyped'
<1>1. wjob[w].pc \in Holding /\ wjob[w].pc # "idle"
  BY DEF ChannelCloses, Holding
<1>2. wjob[w] \in WorkerJobs /\ wjob[w].msg.step = w[1]
  BY <1>1, JobFields
<1>3. /\ \A v \in WorkerIds \ {w} : wjob'[v] = wjob[v]
      /\ wjob'[w] = [wjob[w] EXCEPT !.closed = TRUE]
      /\ DOMAIN wjob' = WorkerIds
  BY DEF TypeOK, ChannelCloses
<1>4. wjob'[w] \in WorkerJobs /\ wjob'[w].pc = wjob[w].pc /\ wjob'[w].msg = wjob[w].msg
        /\ wjob'[w].applied = wjob[w].applied /\ wjob'[w].closed = TRUE
  BY <1>2, <1>3 DEF WorkerJobs
<1>5. QED
  BY <1>1, <1>2, <1>3, <1>4 DEF TypeOK, JobsTyped

(* What becoming idle does to the jobs. *)
LEMMA ReleaseFields ==
    ASSUME TypeOK, NEW w \in WorkerIds, Release(w)
    PROVE  /\ \A v \in WorkerIds \ {w} : wjob'[v] = wjob[v]
           /\ wjob'[w] = Idle
           /\ JobsTyped'
BY DEF TypeOK, Release, JobsTyped

(* A row only takes the values of its domain. *)
LEMMA RowFacts ==
    \A row \in RowStates :
        /\ Insert(row) \in RowStates
        /\ \A t \in Targets : Update(row, t) \in RowStates
        /\ row \in {"done", "failed"} => Insert(row) = row /\ \A t \in Targets : Update(row, t) = row
        /\ \A t \in {"processing", "done", "canceled"} : Update(row, t) = "failed" => row = "failed"
        /\ Insert(row) = "failed" => row = "failed"
BY DEF RowStates, Targets, Insert, Update, Applies, Allowed

(* An update of one row leaves the others. *)
LEMMA SetRowFields ==
    ASSUME TypeOK, NEW m \in StepMsgs, NEW row \in RowStates, SetRowOf(m, row)
    PROVE  /\ steps' \in [Uploads -> [Steps -> RowStates]]
           /\ \A u \in Uploads, s \in Steps :
                 steps'[u][s] = IF u = m.upload /\ s = m.step THEN row ELSE steps[u][s]
BY DEF TypeOK, SetRowOf, StepMsgs

(* A queue with one more copy is a queue. *)
LEMMA PutTyped ==
    ASSUME TypeOK, NEW m \in StepMsgs, stepQ' = Put(stepQ, m)
    PROVE  stepQ' \in [StepMsgs -> Nat]
BY DEF TypeOK, Put

(* So is one to which a delivery was returned, if it had not been before.   *)
LEMMA RequeueTyped ==
    ASSUME TypeOK, NEW w \in WorkerIds, wjob[w].pc # "idle", Requeue(w)
    PROVE  stepQ' \in [StepMsgs -> Nat]
<1>1. CASE wjob[w].closed
  BY <1>1 DEF Requeue, TypeOK
<1>2. CASE ~wjob[w].closed
  BY <1>2, JobFields, PutTyped DEF Requeue
<1>3. QED
  BY <1>1, <1>2

--------------------------------------------------------------------------------
(* Steps that leave settled rows alone and let no worker take up a claim.   *)

RowsKept ==
    \A u \in Uploads, s \in Steps :
        steps[u][s] \in {"done", "failed"} => steps'[u][s] = steps[u][s]

(* The worker's message is in the DLQ, or was lost with its channel. *)
Parked(w) == wjob[w].msg \in stepDlq \/ wjob[w].closed

JobsKept ==
    \A w \in WorkerIds :
        \/ wjob'[w] = wjob[w]
        \/ /\ wjob'[w].pc \in {"ackdlq"} \cup Reporting => Parked(w)'
           /\ wjob'[w].pc \in Holding \cup {"failstep"} => ~wjob'[w].applied
           /\ Claims(w)' => /\ Claims(w)
                            /\ wjob'[w].msg = wjob[w].msg
                            /\ ClaimedOutcome(w)' = ClaimedOutcome(w)

(* A step that keeps settled rows and takes up no claim keeps the invariant. *)
LEMMA Harmless ==
    ASSUME IndInv, TypeOK', RowsKept, JobsKept, stepDlq \subseteq stepDlq', UNCHANGED reported
    PROVE  IndInv'
<1> USE DEF IndInv
<1>1. ASSUME NEW w \in WorkerIds, Claims(w)'
      PROVE  /\ Claims(w) /\ wjob'[w].msg = wjob[w].msg
             /\ ClaimedOutcome(w)' = ClaimedOutcome(w)
             /\ wjob[w].msg.upload \in Uploads /\ wjob[w].msg.step \in Steps
  <2>1. Claims(w) /\ wjob'[w].msg = wjob[w].msg /\ ClaimedOutcome(w)' = ClaimedOutcome(w)
    BY <1>1 DEF JobsKept, Claims, ClaimedOutcome, At
  <2>2. wjob[w].pc # "idle"
    BY <2>1 DEF Claims, At
  <2>3. QED
    BY <2>1, <2>2, JobFields
<1>2. ClaimAlone'
  <2>1. ASSUME NEW w \in WorkerIds, Claims(w)'
        PROVE  /\ RowOf(wjob[w].msg)' = ClaimedOutcome(w)'
               /\ \A o \in Outcomes : reported'[wjob'[w].msg.upload][wjob'[w].msg.step][o] = 0
    <3>1. /\ RowOf(wjob[w].msg) = ClaimedOutcome(w)
          /\ \A o \in Outcomes : reported[wjob[w].msg.upload][wjob[w].msg.step][o] = 0
      BY <1>1, <2>1 DEF ClaimAlone
    <3>2. ClaimedOutcome(w) \in {"done", "failed"}
      BY DEF ClaimedOutcome
    <3>3. QED
      BY <1>1, <2>1, <3>1, <3>2 DEF RowsKept, RowOf
  <2>2. ASSUME NEW w \in WorkerIds, NEW v \in WorkerIds, Claims(w)', Claims(v)',
               wjob'[w].msg.upload = wjob'[v].msg.upload, wjob'[w].msg.step = wjob'[v].msg.step
        PROVE  w = v
    BY <1>1, <2>2 DEF ClaimAlone
  <2>3. \A w \in WorkerIds : wjob'[w].pc \in Holding \cup {"failstep"} => ~wjob'[w].applied
    BY DEF JobsKept, ClaimAlone
  <2>4. QED
    BY <2>1, <2>2, <2>3 DEF ClaimAlone, RowOf
<1>3. ResultMatchesRow'
  BY DEF ResultMatchesRow, RowsKept, Outcomes
<1>4. ReportedOnce'
  BY DEF ReportedOnce
<1>5. ReportingIsDeadLettered'
  BY DEF ReportingIsDeadLettered, JobsKept, Parked
<1>6. QED
  BY <1>2, <1>3, <1>4, <1>5

(* A worker whose own update moved the row to outcome takes up the claim.   *)
LEMMA NewClaim ==
    ASSUME IndInv, TypeOK', NEW w \in WorkerIds, NEW outcome \in Outcomes,
           wjob[w].pc # "idle",
           RowOf(wjob[w].msg) = "processing", SetRowOf(wjob[w].msg, outcome),
           \A v \in WorkerIds \ {w} : wjob'[v] = wjob[v],
           wjob'[w].msg = wjob[w].msg,
           wjob'[w].pc \in {"report", "failupload", "sendfailed"},
           outcome = "done" <=> wjob'[w].pc = "report",
           wjob'[w].pc = "report" => ~wjob'[w].applied,
           outcome = "failed" => Parked(w)' /\ wjob'[w].applied,
           UNCHANGED <<stepDlq, reported>>
    PROVE  IndInv'
<1> USE DEF IndInv
<1> DEFINE m == wjob[w].msg
<1>1. m \in StepMsgs /\ m.upload \in Uploads /\ m.step \in Steps
  BY JobFields
<1>2. /\ steps[m.upload][m.step] = "processing"
      /\ \A u \in Uploads, s \in Steps :
            steps'[u][s] = IF u = m.upload /\ s = m.step THEN outcome ELSE steps[u][s]
  BY <1>1, SetRowFields DEF RowOf, Outcomes, RowStates
<1>3. \A o \in Outcomes : reported[m.upload][m.step][o] = 0
  <2>1. \A o \in Outcomes : ~(reported[m.upload][m.step][o] > 0)
    BY <1>1, <1>2 DEF ResultMatchesRow, Outcomes
  <2>2. \A o \in Outcomes : reported[m.upload][m.step][o] \in Nat
    BY <1>1 DEF TypeOK
  <2>3. QED
    BY <2>1, <2>2
<1>4. Claims(w)' /\ ClaimedOutcome(w)' = outcome
  BY DEF Claims, ClaimedOutcome, At, Outcomes
<1>5. ASSUME NEW v \in WorkerIds \ {w}
      PROVE  /\ Claims(v)' <=> Claims(v)
             /\ ClaimedOutcome(v)' = ClaimedOutcome(v)
             /\ Claims(v) => /\ wjob[v].msg.upload \in Uploads /\ wjob[v].msg.step \in Steps
                             /\ ~(wjob[v].msg.upload = m.upload /\ wjob[v].msg.step = m.step)
  <2>1. Claims(v) => wjob[v].msg.upload \in Uploads /\ wjob[v].msg.step \in Steps
    BY JobFields DEF Claims, At
  <2>2. Claims(v) => RowOf(wjob[v].msg) \in {"done", "failed"}
    BY DEF ClaimAlone, ClaimedOutcome
  <2>3. QED
    BY <1>2, <2>1, <2>2 DEF Claims, ClaimedOutcome, At, RowOf
<1>6. ClaimAlone'
  <2>1. ASSUME NEW v \in WorkerIds, Claims(v)'
        PROVE  /\ steps'[wjob'[v].msg.upload][wjob'[v].msg.step] = ClaimedOutcome(v)'
               /\ \A o \in Outcomes : reported'[wjob'[v].msg.upload][wjob'[v].msg.step][o] = 0
    <3>1. CASE v = w
      BY <1>1, <1>2, <1>3, <1>4, <3>1
    <3>2. CASE v # w
      BY <1>2, <1>5, <2>1, <3>2 DEF ClaimAlone, RowOf
    <3>3. QED
      BY <3>1, <3>2
  <2>2. \A v, x \in WorkerIds :
           /\ Claims(v)' /\ Claims(x)'
           /\ wjob'[v].msg.upload = wjob'[x].msg.upload
           /\ wjob'[v].msg.step = wjob'[x].msg.step
           => v = x
    BY <1>5 DEF ClaimAlone
  <2>3. \A v \in WorkerIds : wjob'[v].pc \in Holding \cup {"failstep"} => ~wjob'[v].applied
    BY DEF ClaimAlone, Holding
  <2>4. QED
    BY <2>1, <2>2, <2>3 DEF ClaimAlone, RowOf
<1>7. ResultMatchesRow'
  BY <1>2 DEF ResultMatchesRow, Outcomes
<1>8. ReportedOnce'
  BY DEF ReportedOnce
<1>9. ReportingIsDeadLettered'
  BY DEF ReportingIsDeadLettered, Outcomes, Reporting, Parked
<1>10. QED
  BY <1>6, <1>7, <1>8, <1>9

(* A number above zero is not zero. *)
LEMMA PositiveIsNotZero ==
    \A n : n > 0 => n # 0
OBVIOUS

(* One result of one outcome and none of the other are at most one. *)
LEMMA OneOfTwo ==
    \A a, b : (a = 1 /\ b = 0) \/ (a = 0 /\ b = 1) => a + b \leq 1
OBVIOUS

(* Counting one more result changes one number. *)
LEMMA OneMore ==
    ASSUME TypeOK, NEW v \in Uploads, NEW t \in Steps, NEW n \in Outcomes,
           reported[v][t][n] = 0,
           reported' = [reported EXCEPT ![v][t][n] = @ + 1]
    PROVE  /\ reported'[v][t][n] = 1
           /\ \A u \in Uploads, s \in Steps, o \in Outcomes :
                 ~(u = v /\ s = t /\ o = n) => reported'[u][s][o] = reported[u][s][o]
<1>1. reported \in [Uploads -> [Steps -> [Outcomes -> Nat]]]
  BY DEF TypeOK
<1>2. reported' = [reported EXCEPT ![v] =
                      [reported[v] EXCEPT ![t] =
                          [reported[v][t] EXCEPT ![n] = 1]]]
  OBVIOUS
<1>3. /\ reported'[v] = [reported[v] EXCEPT ![t] =
                            [reported[v][t] EXCEPT ![n] = 1]]
      /\ \A u \in Uploads : u # v => reported'[u] = reported[u]
  BY <1>1, <1>2, Zenon
<1>4. reported[v] \in [Steps -> [Outcomes -> Nat]]
  BY <1>1, Zenon
<1>5. /\ reported'[v][t] = [reported[v][t] EXCEPT ![n] = 1]
      /\ \A s \in Steps : s # t => reported'[v][s] = reported[v][s]
  BY <1>3, <1>4
<1>6. reported[v][t] \in [Outcomes -> Nat]
  BY <1>4, Zenon
<1>7. /\ reported'[v][t][n] = 1
      /\ \A o \in Outcomes : o # n => reported'[v][t][o] = reported[v][t][o]
  BY <1>5, <1>6
<1>8. ASSUME NEW u \in Uploads, NEW s \in Steps, NEW o \in Outcomes,
             ~(u = v /\ s = t /\ o = n)
      PROVE  reported'[u][s][o] = reported[u][s][o]
  <2>1. CASE u # v
    BY <1>3, <2>1, Zenon
  <2>2. CASE u = v /\ s # t
    BY <1>5, <2>2, Zenon
  <2>3. CASE u = v /\ s = t /\ o # n
    BY <1>7, <2>3, Zenon
  <2>4. QED
    BY <1>8, <2>1, <2>2, <2>3, Zenon
<1>9. QED
  BY <1>7, <1>8, Zenon

(* The same, for the result a worker sends for the step it claimed. *)
LEMMA OneMoreReported ==
    ASSUME TypeOK, NEW w \in WorkerIds,
           wjob[w].msg.upload \in Uploads, wjob[w].msg.step \in Steps,
           ClaimedOutcome(w) \in Outcomes,
           reported[wjob[w].msg.upload][wjob[w].msg.step][ClaimedOutcome(w)] = 0,
           reported' = [reported EXCEPT
               ![wjob[w].msg.upload][wjob[w].msg.step][ClaimedOutcome(w)] = @ + 1]
    PROVE  /\ reported'[wjob[w].msg.upload][wjob[w].msg.step][ClaimedOutcome(w)] = 1
           /\ \A u \in Uploads, s \in Steps, o \in Outcomes :
                 ~(u = wjob[w].msg.upload /\ s = wjob[w].msg.step /\ o = ClaimedOutcome(w))
                     => reported'[u][s][o] = reported[u][s][o]
  BY OneMore, ZenonT(60)

(* A worker that sends its result gives up the claim.                       *)
LEMMA PaidClaim ==
    ASSUME IndInv, TypeOK', NEW w \in WorkerIds, Claims(w), ~Claims(w)',
           wjob'[w].pc \notin {"ackdlq"} \cup Reporting,
           wjob'[w].pc \in Holding => ~wjob'[w].applied,
           \A v \in WorkerIds \ {w} : wjob'[v] = wjob[v],
           reported' = [reported EXCEPT
               ![wjob[w].msg.upload][wjob[w].msg.step][ClaimedOutcome(w)] = @ + 1],
           UNCHANGED <<steps, stepDlq>>
    PROVE  IndInv'
<1> USE DEF IndInv
<1> DEFINE m == wjob[w].msg
<1>1. m.upload \in Uploads /\ m.step \in Steps /\ ClaimedOutcome(w) \in Outcomes
  BY JobFields DEF Claims, At, ClaimedOutcome, Outcomes
<1>2. /\ steps[m.upload][m.step] = ClaimedOutcome(w)
      /\ \A o \in Outcomes : reported[m.upload][m.step][o] = 0
  BY DEF ClaimAlone, RowOf
<1>3. /\ reported'[m.upload][m.step][ClaimedOutcome(w)] = 1
      /\ \A u \in Uploads, s \in Steps, o \in Outcomes :
            ~(u = m.upload /\ s = m.step /\ o = ClaimedOutcome(w))
                => reported'[u][s][o] = reported[u][s][o]
  <2>1. TypeOK /\ reported[m.upload][m.step][ClaimedOutcome(w)] = 0
    BY <1>1, <1>2, Zenon
  <2>2. QED
    BY <1>1, <2>1, OneMoreReported, ZenonT(60)
<1>4. \A v \in WorkerIds : Claims(v)' => v # w /\ Claims(v)
  BY DEF Claims, At
<1>5. \A v \in WorkerIds \ {w} : ClaimedOutcome(v)' = ClaimedOutcome(v)
  BY DEF ClaimedOutcome, At
<1>6. ClaimAlone'
  <2>1. ASSUME NEW v \in WorkerIds, Claims(v)'
        PROVE  /\ steps'[wjob'[v].msg.upload][wjob'[v].msg.step] = ClaimedOutcome(v)'
               /\ \A o \in Outcomes : reported'[wjob'[v].msg.upload][wjob'[v].msg.step][o] = 0
    <3>1. v # w /\ Claims(v)
      BY <1>4, <2>1
    <3>2. wjob[v].msg.upload \in Uploads /\ wjob[v].msg.step \in Steps
      BY <3>1, JobFields DEF Claims, At
    <3>3. ~(wjob[v].msg.upload = m.upload /\ wjob[v].msg.step = m.step)
      BY <3>1 DEF ClaimAlone
    <3>4. /\ steps[wjob[v].msg.upload][wjob[v].msg.step] = ClaimedOutcome(v)
          /\ \A o \in Outcomes : reported[wjob[v].msg.upload][wjob[v].msg.step][o] = 0
      BY <3>1 DEF ClaimAlone, RowOf
    <3>5. wjob'[v] = wjob[v]
      BY <3>1
    <3>6. \A o \in Outcomes : reported'[wjob[v].msg.upload][wjob[v].msg.step][o] = 0
      BY <1>3, <3>2, <3>3, <3>4
    <3>7. QED
      BY <1>5, <3>1, <3>4, <3>5, <3>6
  <2>2. \A v, x \in WorkerIds :
           /\ Claims(v)' /\ Claims(x)'
           /\ wjob'[v].msg.upload = wjob'[x].msg.upload
           /\ wjob'[v].msg.step = wjob'[x].msg.step
           => v = x
    BY <1>4 DEF ClaimAlone
  <2>3. \A v \in WorkerIds : wjob'[v].pc \in Holding \cup {"failstep"} => ~wjob'[v].applied
    BY DEF ClaimAlone, Reporting
  <2>4. QED
    BY <2>1, <2>2, <2>3 DEF ClaimAlone, RowOf
<1>7. ResultMatchesRow'
  <2> SUFFICES ASSUME NEW u \in Uploads, NEW s \in Steps, NEW o \in Outcomes,
                      reported'[u][s][o] > 0
               PROVE  steps'[u][s] = o
    BY DEF ResultMatchesRow
  <2>1. CASE u = m.upload /\ s = m.step
    <3>1. ASSUME o # ClaimedOutcome(w)
          PROVE  reported'[u][s][o] = 0
      <4>1. reported'[u][s][o] = reported[u][s][o]
        BY <1>3, <3>1, Zenon
      <4>2. reported[u][s][o] = reported[m.upload][m.step][o]
        BY <2>1, Zenon
      <4>3. reported[m.upload][m.step][o] = 0
        BY <1>2, Zenon
      <4>4. QED
        BY <4>1, <4>2, <4>3, Zenon
    <3>2. o = ClaimedOutcome(w)
      BY <3>1, PositiveIsNotZero, ZenonT(30)
    <3>3. steps'[u][s] = steps[m.upload][m.step]
      BY <2>1
    <3>4. QED
      BY <1>2, <3>2, <3>3
  <2>2. CASE ~(u = m.upload /\ s = m.step)
    BY <1>3, <2>2 DEF ResultMatchesRow
  <2>3. QED
    BY <2>1, <2>2
<1>8. ReportedOnce'
  <2> SUFFICES ASSUME NEW u \in Uploads, NEW s \in Steps
               PROVE  reported'[u][s]["done"] + reported'[u][s]["failed"] \leq 1
    BY DEF ReportedOnce
  <2>1. CASE u = m.upload /\ s = m.step
    <3>1. reported[u][s]["done"] = 0 /\ reported[u][s]["failed"] = 0
      BY <1>2, <2>1 DEF Outcomes
    <3>2. \/ reported'[u][s]["done"] = 1 /\ reported'[u][s]["failed"] = 0
          \/ reported'[u][s]["done"] = 0 /\ reported'[u][s]["failed"] = 1
      BY <1>1, <1>3, <2>1, <3>1 DEF Outcomes
    <3>3. QED
      BY <3>2, OneOfTwo, Zenon
  <2>2. CASE ~(u = m.upload /\ s = m.step)
    <3>1. /\ reported'[u][s]["done"] = reported[u][s]["done"]
          /\ reported'[u][s]["failed"] = reported[u][s]["failed"]
      BY <1>3, <2>2 DEF Outcomes
    <3>2. QED
      BY <3>1 DEF ReportedOnce
  <2>3. QED
    BY <2>1, <2>2
<1>9. ReportingIsDeadLettered'
  BY DEF ReportingIsDeadLettered
<1>10. QED
  BY <1>6, <1>7, <1>8, <1>9

--------------------------------------------------------------------------------
(* Type correctness, action by action.                                      *)

(* Every step keeps the types. *)
LEMMA TypeStep ==
    ASSUME TypeOK, [Next]_wvars
    PROVE  TypeOK'
<1>1. ASSUME NEW w \in WorkerIds, Receive(w)
      PROVE  TypeOK'
  <2>1. PICK m \in StepMsgs :
           /\ m.step = w[1] /\ stepQ[m] > 0
           /\ stepQ' = Take(stepQ, m)
           /\ wjob' = [wjob EXCEPT ![w] = NewJob(m)]
    BY <1>1 DEF Receive
  <2>2. stepQ' \in [StepMsgs -> Nat]
    BY <2>1 DEF TypeOK, Take
  <2>3. NewJob(m) \in WorkerJobs /\ NewJob(m).msg = m
    BY DEF NewJob, WorkerJobs, Holding
  <2>4. JobsTyped'
    BY <2>1, <2>3 DEF TypeOK, JobsTyped
  <2>5. QED
    BY <1>1, <2>2, <2>4 DEF TypeOK, Receive, JobsTyped
<1>2. ASSUME NEW w \in WorkerIds, wjob[w].pc # "idle",
             \E pc \in Holding \cup Reporting : Goto(w, pc)
      PROVE  JobsTyped'
  BY <1>2, GotoFields DEF JobsTyped
<1>3. ASSUME NEW w \in WorkerIds, wjob[w].pc # "idle", UNCHANGED <<stepQ, stepDlq, reported>>,
             steps' \in [Uploads -> [Steps -> RowStates]],
             status' \in [Uploads -> UploadStatuses],
             Release(w) \/ \E pc \in Holding \cup Reporting : Goto(w, pc)
      PROVE  TypeOK'
  <2>1. JobsTyped'
    BY <1>2, <1>3, ReleaseFields
  <2>2. QED
    BY <1>3, <2>1 DEF TypeOK, JobsTyped
<1>4. ASSUME NEW w \in WorkerIds, wjob[w].pc # "idle",
             NEW row \in {"done", "failed"}
      PROVE  Update(RowOf(wjob[w].msg), row) \in RowStates
  BY <1>4, JobFields, RowFacts DEF Targets
<1>5. ASSUME NEW w \in WorkerIds, wjob[w].pc # "idle", NEW row \in RowStates,
             SetRowOf(wjob[w].msg, row)
      PROVE  steps' \in [Uploads -> [Steps -> RowStates]]
  BY <1>5, JobFields, SetRowFields
<1>6. ASSUME NEW w \in WorkerIds, WorkDone(w) \/ WorkFails(w) \/ Ack(w) \/ AckDeadLettered(w)
                                 \/ CallFails(w) \/ FailUploadFails(w) \/ ReportFailedFails(w)
                                 \/ CrashReporting(w) \/ RetryUnheard(w)
      PROVE  TypeOK'
  BY <1>3, <1>6 DEF TypeOK, WorkDone, WorkFails, Ack, AckDeadLettered, CallFails,
                    FailUploadFails, ReportFailedFails, CrashReporting, RetryUnheard, At, Holding,
                    Reporting
<1>7. ASSUME NEW w \in WorkerIds, Commit(w)
      PROVE  TypeOK'
  <2>1. wjob[w].pc # "idle" /\ UNCHANGED <<status, stepQ, stepDlq, reported>>
    BY <1>7 DEF Commit, At
  <2>2. steps' \in [Uploads -> [Steps -> RowStates]]
    BY <1>5, <1>7, <2>1 DEF Commit, TypeOK, RowStates
  <2>3. \E pc \in Holding \cup Reporting : Goto(w, pc)
    BY <1>7 DEF Commit, Holding
  <2>4. QED
    BY <1>3, <2>1, <2>2, <2>3 DEF TypeOK
<1>8. ASSUME NEW w \in WorkerIds, CommitReplyLost(w)
      PROVE  TypeOK'
  <2>1. wjob[w].pc # "idle" /\ UNCHANGED <<status, stepQ, stepDlq, reported>>
    BY <1>8 DEF CommitReplyLost, At
  <2>2. steps' \in [Uploads -> [Steps -> RowStates]]
    BY <1>4, <1>5, <1>8, <2>1 DEF CommitReplyLost
  <2>3. \E pc \in Holding \cup Reporting : Goto(w, pc)
    BY <1>8 DEF CommitReplyLost, Holding
  <2>4. QED
    BY <1>3, <2>1, <2>2, <2>3 DEF TypeOK
<1>9. ASSUME NEW w \in WorkerIds, FailStepFails(w)
      PROVE  TypeOK'
  <2>1. wjob[w].pc # "idle" /\ UNCHANGED <<status, stepQ, stepDlq, reported>>
    BY <1>9 DEF FailStepFails, At
  <2>2. steps' \in [Uploads -> [Steps -> RowStates]]
    BY <1>4, <1>5, <1>9, <2>1 DEF FailStepFails, TypeOK
  <2>3. Release(w) \/ \E pc \in Holding \cup Reporting : Goto(w, pc)
    BY <1>9 DEF FailStepFails, Reporting
  <2>4. QED
    BY <1>3, <2>1, <2>2, <2>3 DEF TypeOK
<1>10. ASSUME NEW w \in WorkerIds, FailStep(w)
       PROVE  TypeOK'
  <2>1. wjob[w].pc # "idle" /\ UNCHANGED <<status, stepQ, stepDlq, reported>>
    BY <1>10 DEF FailStep, At
  <2>2. steps' \in [Uploads -> [Steps -> RowStates]]
    BY <1>4, <1>5, <1>10, <2>1 DEF FailStep
  <2>3. JobsTyped'
    <3>1. CASE Release(w)
      BY <3>1, ReleaseFields
    <3>2. CASE ~Release(w)
      <4>1. PICK a \in BOOLEAN, pc \in Reporting :
               wjob' = [wjob EXCEPT ![w].applied = a, ![w].pc = pc]
        <5>1. Applies(RowOf(wjob[w].msg), "failed") \in BOOLEAN
          BY DEF Applies
        <5>2. wjob' = [wjob EXCEPT ![w].applied = Applies(RowOf(wjob[w].msg), "failed"),
                                   ![w].pc = IF wjob[w].msg.step = "publish" THEN "failupload"
                                                                        ELSE "sendfailed"]
          BY <1>10, <3>2 DEF FailStep
        <5>3. (IF wjob[w].msg.step = "publish" THEN "failupload" ELSE "sendfailed") \in Reporting
          BY DEF Reporting
        <5>4. QED
          BY <5>1, <5>2, <5>3, Zenon
      <4>2. wjob[w] \in WorkerJobs /\ wjob[w].msg.step = w[1]
        BY <2>1, JobFields
      <4>3. wjob'[w] \in WorkerJobs /\ wjob'[w].msg.step = w[1]
        BY <4>1, <4>2 DEF TypeOK, WorkerJobs
      <4>4. QED
        BY <4>1, <4>3 DEF TypeOK, JobsTyped
    <3>3. QED
      BY <3>1, <3>2
  <2>4. QED
    BY <2>1, <2>2, <2>3 DEF TypeOK, JobsTyped
<1>11. ASSUME NEW w \in WorkerIds, FailUpload(w)
       PROVE  TypeOK'
  <2>1. wjob[w].pc # "idle" /\ UNCHANGED <<steps, stepQ, stepDlq, reported>>
    BY <1>11 DEF FailUpload, At
  <2>2. status' \in [Uploads -> UploadStatuses]
    BY <1>11 DEF FailUpload, TypeOK, UploadStatuses
  <2>3. Release(w) \/ \E pc \in Holding \cup Reporting : Goto(w, pc)
    BY <1>11 DEF FailUpload, Reporting
  <2>4. QED
    BY <1>3, <2>1, <2>2, <2>3 DEF TypeOK
<1>12. ASSUME NEW w \in WorkerIds, ReportDone(w) \/ ReportFailed(w)
       PROVE  TypeOK'
  <2>1. wjob[w].pc # "idle" /\ UNCHANGED <<steps, status, stepQ, stepDlq>>
    BY <1>12 DEF ReportDone, ReportFailed, At
  <2>2. wjob[w].msg.upload \in Uploads /\ wjob[w].msg.step \in Steps
    BY <2>1, JobFields
  <2>3. PICK o \in Outcomes :
           reported' = [reported EXCEPT ![wjob[w].msg.upload][wjob[w].msg.step][o] = @ + 1]
    BY <1>12 DEF ReportDone, ReportFailed, Outcomes
  <2>4. reported' \in [Uploads -> [Steps -> [Outcomes -> Nat]]]
    BY <2>2, <2>3 DEF TypeOK
  <2>5. JobsTyped'
    BY <1>2, <1>12, <2>1, ReleaseFields DEF ReportDone, ReportFailed, Holding
  <2>6. QED
    BY <2>1, <2>4, <2>5 DEF TypeOK, JobsTyped
<1>13. ASSUME NEW w \in WorkerIds, RetryLater(w)
       PROVE  TypeOK'
  <2>1. wjob[w].pc # "idle" /\ UNCHANGED <<steps, status, stepDlq, reported>>
    BY <1>13 DEF RetryLater, At
  <2>2. Again(wjob[w].msg) \in StepMsgs
    <3>1. wjob[w].msg \in StepMsgs
      BY <2>1, JobFields
    <3>2. ~Exhausted(wjob[w].msg)
      BY <1>13 DEF RetryLater
    <3>3. QED
      BY <3>1, <3>2, MaxRetriesAssumption DEF StepMsgs, Again, Attempts, Exhausted
  <2>3. stepQ' \in [StepMsgs -> Nat]
    BY <1>13, <2>2, PutTyped DEF RetryLater
  <2>4. JobsTyped'
    BY <1>2, <1>13, <2>1 DEF RetryLater, Holding
  <2>5. QED
    BY <2>1, <2>3, <2>4 DEF TypeOK, JobsTyped
<1>14. ASSUME NEW w \in WorkerIds, DeadLetter(w)
       PROVE  TypeOK'
  <2>1. wjob[w].pc # "idle" /\ UNCHANGED <<steps, status, stepQ, reported>>
    BY <1>14 DEF DeadLetter, At
  <2>2. stepDlq' \in SUBSET StepMsgs
    BY <1>14, <2>1, JobFields DEF DeadLetter, TypeOK
  <2>3. JobsTyped'
    BY <1>2, <1>14, <2>1 DEF DeadLetter, Holding
  <2>4. QED
    BY <2>1, <2>2, <2>3 DEF TypeOK, JobsTyped
<1>15. ASSUME NEW w \in WorkerIds, RetryFails(w) \/ Crash(w)
       PROVE  TypeOK'
  <2>1. wjob[w].pc # "idle" /\ UNCHANGED <<steps, status, stepDlq, reported>>
    BY <1>15 DEF RetryFails, Crash, At, Holding
  <2>2. stepQ' \in [StepMsgs -> Nat]
    BY <1>15, <2>1, RequeueTyped DEF RetryFails, Crash
  <2>3. JobsTyped'
    BY <1>15, ReleaseFields DEF RetryFails, Crash
  <2>4. QED
    BY <2>1, <2>2, <2>3 DEF TypeOK, JobsTyped
<1>16. ASSUME NEW u \in Uploads, NEW s \in Steps, Dispatch(u, s)
       PROVE  TypeOK'
  <2>1. [upload |-> u, step |-> s, attempt |-> 0] \in StepMsgs
    BY MaxRetriesAssumption DEF StepMsgs, Attempts
  <2>2. stepQ' \in [StepMsgs -> Nat]
    BY <1>16, <2>1, PutTyped DEF Dispatch
  <2>3. QED
    BY <1>16, <2>2 DEF Dispatch, TypeOK
<1>17. ASSUME NEW u \in Uploads, NEW s \in Steps, NEW row \in RowStates,
              OrchestratorMoves(u, s, row)
       PROVE  TypeOK'
  BY <1>17 DEF OrchestratorMoves, TypeOK, wprivate
<1>18. ASSUME NEW u \in Uploads, NEW st \in UploadStatuses, StatusMoves(u, st)
       PROVE  TypeOK'
  BY <1>18 DEF StatusMoves, TypeOK, wprivate, UploadStatuses
<1>19. CASE UNCHANGED wvars
  BY <1>19 DEF TypeOK, wvars, wprivate
<1>20. ASSUME NEW w \in WorkerIds, ChannelCloses(w)
       PROVE  TypeOK'
  <2>1. wjob[w].pc # "idle" /\ JobsTyped'
    BY <1>20, ClosedFields
  <2>2. stepQ' \in [StepMsgs -> Nat]
    BY <1>20, <2>1, RequeueTyped DEF ChannelCloses
  <2>3. QED
    BY <1>20, <2>1, <2>2 DEF TypeOK, JobsTyped, ChannelCloses
<1>21. QED
  BY <1>1, <1>6, <1>7, <1>8, <1>9, <1>10, <1>11, <1>12, <1>13, <1>14, <1>15, <1>16, <1>17,
     <1>18, <1>19, <1>20
  DEF Next, Work, Inner, Fault, Environment

--------------------------------------------------------------------------------
(* The invariant, action by action.                                         *)

(* A job that takes up no claim, when the others do not change. *)
LEMMA JobsKeptFields ==
    ASSUME NEW w \in WorkerIds, \A v \in WorkerIds \ {w} : wjob'[v] = wjob[v],
           wjob'[w].pc \in {"ackdlq"} \cup Reporting => Parked(w)',
           wjob'[w].pc \in Holding \cup {"failstep"} => ~wjob'[w].applied,
           Claims(w)' => /\ Claims(w) /\ wjob'[w].msg = wjob[w].msg
                         /\ ClaimedOutcome(w)' = ClaimedOutcome(w)
    PROVE  JobsKept
BY DEF JobsKept

(* Becoming idle takes up no claim. *)
LEMMA ReleaseKept ==
    ASSUME TypeOK, NEW w \in WorkerIds, Release(w)
    PROVE  JobsKept
<1>1. (\A v \in WorkerIds \ {w} : wjob'[v] = wjob[v]) /\ wjob'[w] = Idle
  BY ReleaseFields
<1>2. wjob'[w].pc = "idle"
  BY <1>1 DEF Idle
<1>3. ~Claims(w)'
  BY <1>2 DEF Claims, At
<1>4. QED
  BY <1>1, <1>2, <1>3, JobsKeptFields DEF Holding, Reporting

(* A step inside the handler that takes up no claim. *)
LEMMA GotoKept ==
    ASSUME IndInv, NEW w \in WorkerIds, wjob[w].pc \in Holding \cup {"failstep"},
           NEW pc \in (Holding \cup {"failstep", "failupload"}) \ {"report"}, Goto(w, pc),
           pc \in {"ackdlq", "failstep", "failupload"} => wjob[w].msg \in stepDlq' \/ wjob[w].closed
    PROVE  JobsKept
<1>1. wjob[w].pc # "idle" /\ ~wjob[w].applied
  BY DEF IndInv, ClaimAlone, Holding
<1>2. pc \in Holding \cup Reporting
  BY DEF Reporting
<1>3. /\ \A v \in WorkerIds \ {w} : wjob'[v] = wjob[v]
      /\ wjob'[w].pc = pc /\ wjob'[w].msg = wjob[w].msg
      /\ wjob'[w].applied = wjob[w].applied /\ wjob'[w].closed = wjob[w].closed
  BY <1>1, <1>2, GotoFields DEF IndInv
<1>4. ~Claims(w)'
  BY <1>1, <1>3 DEF Claims, At, Holding
<1>5. wjob'[w].pc \in {"ackdlq"} \cup Reporting => Parked(w)'
  BY <1>3 DEF Holding, Reporting, Parked
<1>6. QED
  BY <1>1, <1>3, <1>4, <1>5, JobsKeptFields

(* Rows that do not change stay settled. *)
LEMMA SameRows ==
    ASSUME UNCHANGED steps
    PROVE  RowsKept
BY DEF RowsKept

(* A worker's move of its row leaves a settled one alone.                   *)
LEMMA MoveKept ==
    ASSUME TypeOK, NEW w \in WorkerIds, wjob[w].pc # "idle", NEW t \in {"done", "failed"},
           SetRowOf(wjob[w].msg, Update(RowOf(wjob[w].msg), t))
    PROVE  RowsKept
<1> DEFINE m == wjob[w].msg
<1>1. m \in StepMsgs /\ m.upload \in Uploads /\ m.step \in Steps /\ RowOf(m) \in RowStates
  BY JobFields
<1>2. Update(RowOf(m), t) \in RowStates
  BY <1>1, RowFacts DEF Targets
<1>3. \A u \in Uploads, s \in Steps :
         steps'[u][s] = IF u = m.upload /\ s = m.step THEN Update(RowOf(m), t) ELSE steps[u][s]
  BY <1>1, <1>2, SetRowFields
<1>4. RowOf(m) \in {"done", "failed"} => Update(RowOf(m), t) = RowOf(m)
  BY <1>1, RowFacts DEF Targets
<1>5. QED
  BY <1>1, <1>3, <1>4 DEF RowsKept, RowOf

(* Every step preserves the invariant. *)
THEOREM Step ==
    ASSUME IndInv, [Next]_wvars
    PROVE  IndInv'
<1> USE DEF IndInv
<1>1. TypeOK'
  BY TypeStep
<1>2. ASSUME RowsKept, JobsKept, stepDlq \subseteq stepDlq', UNCHANGED reported
      PROVE  IndInv'
  BY <1>1, <1>2, Harmless
<1>3. ASSUME NEW w \in WorkerIds, Receive(w)
      PROVE  IndInv'
  <2>1. PICK m \in StepMsgs :
           wjob' = [wjob EXCEPT ![w] = NewJob(m)]
    BY <1>3 DEF Receive
  <2>2. /\ \A v \in WorkerIds \ {w} : wjob'[v] = wjob[v]
        /\ wjob'[w] = NewJob(m)
    BY <2>1 DEF TypeOK
  <2>3. wjob'[w].pc = "work" /\ ~wjob'[w].applied
    BY <2>2 DEF NewJob
  <2>4. ~Claims(w)'
    BY <2>3 DEF Claims, At
  <2>5. JobsKept
    BY <2>2, <2>3, <2>4, JobsKeptFields DEF Reporting
  <2>6. QED
    BY <1>2, <1>3, <2>5, SameRows DEF Receive
<1>4. ASSUME NEW w \in WorkerIds, WorkDone(w) \/ WorkFails(w) \/ CallFails(w) \/ RetryLater(w)
      PROVE  IndInv'
  <2>1. wjob[w].pc \in Holding
    BY <1>4 DEF WorkDone, WorkFails, CallFails, RetryLater, At, Holding
  <2>2. \E pc \in {"commit", "retry", "ack"} : Goto(w, pc)
    BY <1>4 DEF WorkDone, WorkFails, CallFails, RetryLater
  <2>3. JobsKept
    BY <2>1, <2>2, GotoKept DEF Holding
  <2>4. QED
    BY <1>2, <1>4, <2>3, SameRows DEF WorkDone, WorkFails, CallFails, RetryLater
<1>5. ASSUME NEW w \in WorkerIds, Commit(w)
      PROVE  IndInv'
  <2> DEFINE m == wjob[w].msg
  <2>1. At(w, "commit") /\ UNCHANGED <<status, stepQ, stepDlq, reported>>
    BY <1>5 DEF Commit
  <2>2. CASE Applies(RowOf(m), "done")
    <3>1. SetRowOf(m, "done") /\ Goto(w, "report")
      BY <1>5, <2>2 DEF Commit
    <3>2. RowOf(m) = "processing"
      BY <2>2 DEF Applies, Allowed
    <3>3. /\ \A v \in WorkerIds \ {w} : wjob'[v] = wjob[v]
          /\ wjob'[w].pc = "report" /\ wjob'[w].msg = m /\ wjob'[w].applied = wjob[w].applied
      BY <2>1, <3>1, GotoFields DEF At, Holding
    <3>4. ~wjob[w].applied
      BY <2>1 DEF ClaimAlone, At, Holding
    <3>5. QED
      BY <1>1, <2>1, <3>1, <3>2, <3>3, <3>4, NewClaim DEF At, Outcomes
  <2>3. CASE ~Applies(RowOf(m), "done")
    <3>1. UNCHANGED steps /\ Goto(w, "ack")
      BY <1>5, <2>3 DEF Commit
    <3>2. JobsKept
      BY <2>1, <3>1, GotoKept DEF At, Holding
    <3>3. QED
      BY <1>2, <2>1, <3>1, <3>2, SameRows
  <2>4. QED
    BY <2>2, <2>3
<1>6. ASSUME NEW w \in WorkerIds, CommitReplyLost(w)
      PROVE  IndInv'
  <2>1. JobsKept
    BY <1>6, GotoKept DEF CommitReplyLost, At, Holding
  <2>2. RowsKept
    BY <1>6, MoveKept DEF CommitReplyLost, At
  <2>3. QED
    BY <1>2, <1>6, <2>1, <2>2 DEF CommitReplyLost
<1>7. ASSUME NEW w \in WorkerIds, DeadLetter(w)
      PROVE  IndInv'
  <2>1. JobsKept
    BY <1>7, GotoKept DEF DeadLetter, At, Holding
  <2>2. QED
    BY <1>2, <1>7, <2>1, SameRows DEF DeadLetter
<1>8. ASSUME NEW w \in WorkerIds, AckDeadLettered(w)
      PROVE  IndInv'
  <2>1. wjob[w].msg \in stepDlq \/ wjob[w].closed
    BY <1>8 DEF AckDeadLettered, At, ReportingIsDeadLettered
  <2>2. JobsKept
    BY <1>8, <2>1, GotoKept DEF AckDeadLettered, At, Holding
  <2>3. QED
    BY <1>2, <1>8, <2>2, SameRows DEF AckDeadLettered
<1>9. ASSUME NEW w \in WorkerIds, Release(w), UNCHANGED <<steps, stepDlq, reported>>
      PROVE  IndInv'
  BY <1>2, <1>9, ReleaseKept, SameRows
<1>10. ASSUME NEW w \in WorkerIds, Ack(w) \/ RetryFails(w) \/ Crash(w) \/ CrashReporting(w)
                                  \/ ReportFailedFails(w)
       PROVE  IndInv'
  BY <1>9, <1>10 DEF Ack, RetryFails, Crash, CrashReporting, ReportFailedFails
<1>11. ASSUME NEW w \in WorkerIds, FailStep(w)
       PROVE  IndInv'
  <2> DEFINE m == wjob[w].msg
  <2>1. /\ At(w, "failstep") /\ UNCHANGED <<status, stepQ, stepDlq, reported>>
        /\ SetRowOf(m, Update(RowOf(m), "failed"))
    BY <1>11 DEF FailStep
  <2>2. (m \in stepDlq \/ wjob[w].closed) /\ wjob[w] \in WorkerJobs
    BY <2>1, JobFields DEF At, ReportingIsDeadLettered, Reporting
  <2>3. CASE Applies(RowOf(m), "failed")
    <3>1. /\ RowOf(m) = "processing" /\ Update(RowOf(m), "failed") = "failed"
      BY <2>3 DEF Applies, Allowed, Update
    <3>2. wjob' = [wjob EXCEPT ![w].applied = TRUE,
                               ![w].pc = IF m.step = "publish" THEN "failupload" ELSE "sendfailed"]
      BY <1>11, <2>3 DEF FailStep, Applies
    <3>3. PICK pc \in {"failupload", "sendfailed"} :
             wjob' = [wjob EXCEPT ![w].applied = TRUE, ![w].pc = pc]
      BY <3>2, Zenon
    <3>4. /\ \A v \in WorkerIds \ {w} : wjob'[v] = wjob[v]
          /\ wjob'[w].pc = pc /\ wjob'[w].msg = m /\ wjob'[w].applied = TRUE
          /\ wjob'[w].closed = wjob[w].closed
      BY <2>2, <3>3 DEF TypeOK, WorkerJobs
    <3>5. Parked(w)'
      BY <2>1, <2>2, <3>4 DEF Parked
    <3>6. QED
      BY <1>1, <2>1, <3>1, <3>4, <3>5, NewClaim DEF At, Outcomes
  <2>4. CASE ~Applies(RowOf(m), "failed")
    <3>1. RowsKept
      BY <2>1, <2>2, MoveKept DEF At
    <3>2. CASE Release(w)
      BY <1>2, <2>1, <3>1, <3>2, ReleaseKept
    <3>3. CASE ~Release(w)
      <4>1. wjob' = [wjob EXCEPT ![w].applied = FALSE, ![w].pc = "failupload"]
        <5>1. m.step = "publish"
          BY <1>11, <2>4, <3>3 DEF FailStep
        <5>2. wjob' = [wjob EXCEPT ![w].applied = Applies(RowOf(m), "failed"),
                                   ![w].pc = "failupload"]
          BY <1>11, <5>1 DEF FailStep
        <5>3. Applies(RowOf(m), "failed") = FALSE
          BY <2>4 DEF Applies
        <5>4. QED
          BY <5>2, <5>3
      <4>2. /\ \A v \in WorkerIds \ {w} : wjob'[v] = wjob[v]
            /\ wjob'[w].pc = "failupload" /\ wjob'[w].msg = m /\ wjob'[w].applied = FALSE
            /\ wjob'[w].closed = wjob[w].closed
        BY <2>2, <4>1 DEF TypeOK, WorkerJobs
      <4>3. ~Claims(w)'
        BY <4>2 DEF Claims, At
      <4>4. JobsKept
        BY <2>1, <2>2, <4>2, <4>3, JobsKeptFields DEF Holding, Parked
      <4>5. QED
        BY <1>2, <2>1, <3>1, <4>4
    <3>4. QED
      BY <3>2, <3>3
  <2>5. QED
    BY <2>3, <2>4
<1>12. ASSUME NEW w \in WorkerIds, FailStepFails(w)
       PROVE  IndInv'
  <2>1. /\ At(w, "failstep") /\ UNCHANGED <<status, stepQ, stepDlq, reported>>
        /\ wjob[w].msg \in stepDlq \/ wjob[w].closed
    BY <1>12 DEF FailStepFails, At, ReportingIsDeadLettered, Reporting
  <2>2. RowsKept
    BY <1>12, <2>1, MoveKept, SameRows DEF FailStepFails, At
  <2>3. Release(w) \/ Goto(w, "failupload")
    BY <1>12 DEF FailStepFails
  <2>4. JobsKept
    BY <2>1, <2>3, ReleaseKept, GotoKept DEF At, Holding
  <2>5. QED
    BY <1>2, <2>1, <2>2, <2>4
<1>13. ASSUME NEW w \in WorkerIds, FailUpload(w) \/ FailUploadFails(w)
       PROVE  IndInv'
  <2>1. /\ At(w, "failupload") /\ UNCHANGED <<steps, stepQ, stepDlq, reported>>
        /\ IF wjob[w].applied THEN Goto(w, "sendfailed") ELSE Release(w)
    BY <1>13 DEF FailUpload, FailUploadFails
  <2>2. wjob[w].msg \in stepDlq \/ wjob[w].closed
    BY <2>1 DEF At, ReportingIsDeadLettered, Reporting
  <2>3. CASE wjob[w].applied
    <3>1. /\ \A v \in WorkerIds \ {w} : wjob'[v] = wjob[v]
          /\ wjob'[w].pc = "sendfailed" /\ wjob'[w].msg = wjob[w].msg
          /\ wjob'[w].closed = wjob[w].closed
      BY <2>1, <2>3, GotoFields DEF At, Reporting
    <3>2. Claims(w) /\ ClaimedOutcome(w) = "failed" /\ ClaimedOutcome(w)' = "failed"
      BY <2>1, <2>3, <3>1 DEF Claims, ClaimedOutcome, At
    <3>3. JobsKept
      BY <2>1, <2>2, <3>1, <3>2, JobsKeptFields DEF Holding, Parked
    <3>4. QED
      BY <1>2, <2>1, <3>3, SameRows
  <2>4. CASE ~wjob[w].applied
    BY <1>9, <2>1, <2>4
  <2>5. QED
    BY <2>3, <2>4
<1>14. ASSUME NEW w \in WorkerIds, ReportDone(w)
       PROVE  IndInv'
  <2>1. Claims(w) /\ ClaimedOutcome(w) = "done" /\ wjob[w].pc # "idle" /\ ~wjob[w].applied
    BY <1>14 DEF ReportDone, Claims, ClaimedOutcome, At, ClaimAlone, Holding
  <2>2. /\ \A v \in WorkerIds \ {w} : wjob'[v] = wjob[v]
        /\ wjob'[w].pc = "ack" /\ wjob'[w].applied = wjob[w].applied
    BY <1>14, <2>1, GotoFields DEF ReportDone, Holding
  <2>3. ~Claims(w)'
    BY <2>2 DEF Claims, At
  <2>4. QED
    BY <1>1, <1>14, <2>1, <2>2, <2>3, PaidClaim DEF ReportDone, Reporting
<1>15. ASSUME NEW w \in WorkerIds, ReportFailed(w)
       PROVE  IndInv'
  <2>1. Claims(w) /\ ClaimedOutcome(w) = "failed"
    BY <1>15 DEF ReportFailed, Claims, ClaimedOutcome, At
  <2>2. (\A v \in WorkerIds \ {w} : wjob'[v] = wjob[v]) /\ wjob'[w].pc = "idle"
    BY <1>15, ReleaseFields DEF ReportFailed, Idle
  <2>3. ~Claims(w)'
    BY <2>2 DEF Claims, At
  <2>4. QED
    BY <1>1, <1>15, <2>1, <2>2, <2>3, PaidClaim DEF ReportFailed, Reporting, Holding
<1>16. ASSUME UNCHANGED wjob
       PROVE  JobsKept
  BY <1>16 DEF JobsKept
<1>17. ASSUME NEW u \in Uploads, NEW s \in Steps, Dispatch(u, s)
       PROVE  IndInv'
  BY <1>2, <1>16, <1>17, SameRows DEF Dispatch
<1>18. ASSUME NEW u \in Uploads, NEW s \in Steps, NEW row \in RowStates,
              OrchestratorMoves(u, s, row)
       PROVE  IndInv'
  <2>1. /\ row \in {Insert(steps[u][s])}
                     \cup {Update(steps[u][s], t) : t \in {"processing", "done", "canceled"}}
        /\ steps' = [steps EXCEPT ![u][s] = row]
        /\ UNCHANGED <<stepDlq, reported, wjob>>
    BY <1>18 DEF OrchestratorMoves, wprivate
  <2>2. steps[u][s] \in RowStates
    BY DEF TypeOK
  <2>3. /\ steps[u][s] \in {"done", "failed"} => row = steps[u][s]
        /\ row = "failed" => steps[u][s] = "failed"
    BY <2>1, <2>2, RowFacts DEF Targets
  <2>4. \A v \in Uploads, x \in Steps :
           steps'[v][x] = IF v = u /\ x = s THEN row ELSE steps[v][x]
    BY <2>1 DEF TypeOK
  <2>5. RowsKept
    BY <2>3, <2>4 DEF RowsKept
  <2>6. QED
    BY <1>2, <1>16, <2>1, <2>5
<1>19. ASSUME NEW u \in Uploads, NEW st \in UploadStatuses, StatusMoves(u, st)
       PROVE  IndInv'
  BY <1>2, <1>16, <1>19, SameRows DEF StatusMoves, wprivate
<1>20. CASE UNCHANGED wvars
  BY <1>2, <1>16, <1>20, SameRows DEF wvars, wprivate
<1>21. ASSUME NEW w \in WorkerIds, RetryUnheard(w)
       PROVE  IndInv'
  <2>1. JobsKept
    BY <1>21, GotoKept DEF RetryUnheard, At, Holding
  <2>2. QED
    BY <1>2, <1>21, <2>1, SameRows DEF RetryUnheard
<1>22. ASSUME NEW w \in WorkerIds, ChannelCloses(w)
       PROVE  IndInv'
  <2>1. /\ \A v \in WorkerIds \ {w} : wjob'[v] = wjob[v]
        /\ wjob'[w].pc = wjob[w].pc /\ wjob'[w].msg = wjob[w].msg
        /\ wjob'[w].applied = wjob[w].applied /\ wjob'[w].closed = TRUE
        /\ wjob[w].pc \in Holding
    BY <1>22, ClosedFields
  <2>2. ~wjob'[w].applied
    BY <2>1 DEF ClaimAlone
  <2>3. Claims(w)' => Claims(w) /\ ClaimedOutcome(w)' = ClaimedOutcome(w)
    BY <2>1 DEF Claims, ClaimedOutcome, At
  <2>4. JobsKept
    BY <2>1, <2>2, <2>3, JobsKeptFields DEF Parked
  <2>5. QED
    BY <1>2, <1>22, <2>4, SameRows DEF ChannelCloses
<1>23. QED
  BY <1>3, <1>4, <1>5, <1>6, <1>7, <1>8, <1>10, <1>11, <1>12, <1>13, <1>14, <1>15, <1>17,
     <1>18, <1>19, <1>20, <1>21, <1>22
  DEF Next, Work, Inner, Fault, Environment

(* The initial states satisfy the invariant. *)
LEMMA Start ==
    ASSUME Init
    PROVE  IndInv
<1>1. TypeOK
  BY DEF Init, TypeOK, RowStates, UploadStatuses
<1>2. \A w \in WorkerIds : wjob[w].pc = "idle"
  BY DEF Init, Idle
<1>3. ClaimAlone
  BY <1>2 DEF ClaimAlone, Claims, At, Holding
<1>4. ResultMatchesRow /\ ReportedOnce
  BY DEF Init, ResultMatchesRow, ReportedOnce, Outcomes
<1>5. ReportingIsDeadLettered
  BY <1>2 DEF ReportingIsDeadLettered, Reporting
<1>6. QED
  BY <1>1, <1>3, <1>4, <1>5 DEF IndInv

(* Only ReportFailed fails a row, and its message is parked by then, or was *)
(* lost with the worker's channel.                                          *)
LEMMA FailsOnlyParked ==
    ASSUME IndInv, [Next]_wvars, NEW u \in Uploads, NEW s \in Steps,
           steps[u][s] # "failed", steps'[u][s] = "failed"
    PROVE  \/ \E m \in stepDlq : m.upload = u /\ m.step = s
           \/ \E w \in WorkerIds : /\ At(w, "failstep") /\ wjob[w].closed
                                   /\ wjob[w].msg.upload = u /\ wjob[w].msg.step = s
<1> USE DEF IndInv
<1>1. CASE UNCHANGED steps
  BY <1>1
<1>2. ASSUME NEW w \in WorkerIds, wjob[w].pc # "idle", NEW row \in RowStates,
             SetRowOf(wjob[w].msg, row)
      PROVE  row = "failed" /\ wjob[w].msg.upload = u /\ wjob[w].msg.step = s
  <2>1. PICK m \in StepMsgs : m = wjob[w].msg
    BY <1>2, JobFields
  <2>2. steps'[u][s] = IF u = m.upload /\ s = m.step THEN row ELSE steps[u][s]
    BY <1>2, <2>1, SetRowFields
  <2>3. QED
    BY <2>1, <2>2
<1>3. ASSUME NEW w \in WorkerIds, FailStep(w) \/ FailStepFails(w)
      PROVE  \/ \E m \in stepDlq : m.upload = u /\ m.step = s
             \/ /\ At(w, "failstep") /\ wjob[w].closed
                /\ wjob[w].msg.upload = u /\ wjob[w].msg.step = s
  <2>1. At(w, "failstep") /\ wjob[w].pc # "idle"
    BY <1>3 DEF FailStep, FailStepFails, At
  <2>2. SetRowOf(wjob[w].msg, Update(RowOf(wjob[w].msg), "failed"))
    BY <1>1, <1>3 DEF FailStep, FailStepFails
  <2>3. Update(RowOf(wjob[w].msg), "failed") \in RowStates
    BY <2>1, JobFields, RowFacts DEF Targets
  <2>4. wjob[w].msg.upload = u /\ wjob[w].msg.step = s
    BY <1>2, <2>1, <2>2, <2>3
  <2>5. wjob[w].msg \in stepDlq \/ wjob[w].closed
    BY <2>1 DEF ReportingIsDeadLettered, Reporting, At
  <2>6. QED
    BY <2>1, <2>4, <2>5
<1>4. ASSUME NEW w \in WorkerIds, Commit(w) \/ CommitReplyLost(w)
      PROVE  FALSE
  <2>1. wjob[w].pc # "idle"
    BY <1>4 DEF Commit, CommitReplyLost, At
  <2>2. PICK m \in StepMsgs : m = wjob[w].msg /\ m.upload \in Uploads /\ m.step \in Steps
                            /\ RowOf(m) \in RowStates
    BY <2>1, JobFields
  <2>3. SetRowOf(m, Update(RowOf(m), "done"))
    BY <1>1, <1>4, <2>2 DEF Commit, CommitReplyLost, Update
  <2>4. Update(RowOf(m), "done") \in RowStates
    BY <2>2, RowFacts DEF Targets
  <2>5. Update(RowOf(m), "done") = "failed" /\ m.upload = u /\ m.step = s
    BY <1>2, <2>1, <2>2, <2>3, <2>4
  <2>6. RowOf(m) = "failed"
    BY <2>5 DEF Update
  <2>7. QED
    BY <2>5, <2>6 DEF RowOf
<1>5. ASSUME NEW v \in Uploads, NEW x \in Steps, NEW row \in RowStates,
             OrchestratorMoves(v, x, row)
      PROVE  FALSE
  <2>1. /\ row \in {Insert(steps[v][x])}
                     \cup {Update(steps[v][x], t) : t \in {"processing", "done", "canceled"}}
        /\ steps'[u][s] = IF u = v /\ s = x THEN row ELSE steps[u][s]
    BY <1>5 DEF OrchestratorMoves, TypeOK
  <2>2. row = "failed" => steps[v][x] = "failed"
    BY <2>1, RowFacts DEF TypeOK
  <2>3. QED
    BY <2>1, <2>2
<1>6. QED
  BY <1>1, <1>3, <1>4, <1>5
  DEF Next, Work, Inner, Fault, Environment, wvars, Receive, WorkDone, WorkFails, ReportDone, Ack,
      RetryLater, DeadLetter, AckDeadLettered, FailUpload, ReportFailed, CallFails,
      FailUploadFails, ReportFailedFails, RetryFails, Crash, CrashReporting, ChannelCloses,
      RetryUnheard, Dispatch, StatusMoves

--------------------------------------------------------------------------------
(* No dispatched step is lost.                                              *)

(* No dispatched row goes back, and a settled one stays as it is.           *)
RowsForward ==
    \A u \in Uploads, s \in Steps :
        /\ steps[u][s] \notin {"absent", "pending"} => steps'[u][s] \notin {"absent", "pending"}
        /\ steps[u][s] \in Terminal => steps'[u][s] \in Terminal

(* A step's message is still kept after the step, or the row is settled.    *)
StepsStand ==
    \A u \in Uploads, s \in Steps :
        StepKept(u, s) => StepKept(u, s)' \/ steps'[u][s] \in Terminal

(* A worker that goes on with a dispatched step, and lets go only of what   *)
(* is settled or kept.                                                      *)
GoesOn(w) ==
    /\ wjob'[w].msg \in StepMsgs /\ PastPending(wjob'[w].msg)
    /\ LetsGo(w)' =>
          \/ steps'[wjob'[w].msg.upload][wjob'[w].msg.step] \in Terminal
          \/ StepKept(wjob[w].msg.upload, wjob[w].msg.step)'

(* The invariant survives a step that leaves every message in its place.    *)
LEMMA KeepKept ==
    ASSUME IndInv, KeepInv, RowsForward, StepsStand,
           \A m \in StepMsgs : stepQ'[m] > 0 => stepQ[m] > 0 \/ PastPending(m),
           \A w \in WorkerIds : \/ wjob'[w] = wjob[w]
                                \/ wjob'[w].pc = "idle"
                                \/ GoesOn(w)
    PROVE  KeepInv'
<1>1. \A m \in StepMsgs : PastPending(m) => PastPending(m)'
  BY DEF RowsForward, PastPending, RowOf, StepMsgs
<1>2. \A m \in StepMsgs : stepQ'[m] > 0 => PastPending(m)'
  BY <1>1 DEF KeepInv
<1>3. ASSUME NEW w \in WorkerIds, wjob'[w].pc # "idle"
      PROVE  /\ steps'[wjob'[w].msg.upload][wjob'[w].msg.step] \notin {"absent", "pending"}
             /\ LetsGo(w)' =>
                   \/ steps'[wjob'[w].msg.upload][wjob'[w].msg.step] \in Terminal
                   \/ StepKept(wjob[w].msg.upload, wjob[w].msg.step)'
  <2>1. CASE wjob'[w] = wjob[w]
    <3>1. PICK m \in StepMsgs : m = wjob[w].msg /\ m.upload \in Uploads /\ m.step \in Steps
      BY <1>3, <2>1, JobFields DEF IndInv
    <3>2. PastPending(m)
      BY <1>3, <2>1, <3>1 DEF KeepInv, At
    <3>3. PastPending(m)'
      BY <1>1, <3>2
    <3>4. LetsGo(w) => RowOf(m) \in Terminal \/ StepKept(m.upload, m.step)
      BY <3>1 DEF KeepInv
    <3>5. LetsGo(w) => RowOf(m)' \in Terminal \/ StepKept(m.upload, m.step)'
      BY <3>1, <3>4 DEF RowsForward, StepsStand, RowOf
    <3>6. LetsGo(w)' => LetsGo(w)
      BY <2>1 DEF LetsGo, At
    <3>7. QED
      BY <2>1, <3>1, <3>3, <3>5, <3>6 DEF PastPending, RowOf
  <2>2. CASE GoesOn(w)
    <3>1. PICK m \in StepMsgs : m = wjob'[w].msg
      BY <2>2 DEF GoesOn
    <3>2. PastPending(m)'
      BY <1>1, <2>2, <3>1 DEF GoesOn
    <3>3. QED
      BY <2>2, <3>1, <3>2 DEF GoesOn, PastPending, RowOf
  <2>3. QED
    BY <1>3, <2>1, <2>2
<1>4. \A w \in WorkerIds : LetsGo(w)' =>
         \/ steps'[wjob'[w].msg.upload][wjob'[w].msg.step] \in Terminal
         \/ StepKept(wjob[w].msg.upload, wjob[w].msg.step)'
  BY <1>3 DEF LetsGo, At
<1>5. QED
  BY <1>2, <1>3, <1>4 DEF KeepInv, PastPending, RowOf, At, StepKept

(* What the steps of one worker have in common. *)
Accounted(w) ==
    /\ \A v \in WorkerIds \ {w} : wjob'[v] = wjob[v]
    /\ wjob'[w].pc = "idle" \/ GoesOn(w)
    /\ \A m \in StepMsgs : stepQ'[m] > 0 => stepQ[m] > 0 \/ PastPending(m)
    /\ StepsStand

(* Moving a row by Insert or Update takes nothing back. *)
LEMMA RowsMoveForward ==
    \A row \in RowStates :
        /\ row \notin {"absent", "pending"} =>
              /\ Insert(row) \notin {"absent", "pending"}
              /\ \A t \in Targets : Update(row, t) \notin {"absent", "pending"}
        /\ row \in Terminal =>
              /\ Insert(row) \in Terminal
              /\ \A t \in Targets : Update(row, t) \in Terminal
BY DEF RowStates, Targets, Terminal, Insert, Update, Applies, Allowed

(* In every step the rows move forward. *)
LEMMA StepRowsForward ==
    ASSUME IndInv, [Next]_wvars
    PROVE  RowsForward
<1> USE DEF IndInv
<1>1. CASE UNCHANGED steps
  BY <1>1 DEF RowsForward
<1>2. ASSUME NEW w \in WorkerIds, wjob[w].pc # "idle", NEW t \in {"done", "failed"},
             SetRowOf(wjob[w].msg, Update(RowOf(wjob[w].msg), t))
      PROVE  RowsForward
  <2>1. PICK m \in StepMsgs : m = wjob[w].msg /\ RowOf(m) \in RowStates
    BY <1>2, JobFields
  <2>2. Update(RowOf(m), t) \in RowStates
    BY <2>1, RowFacts DEF Targets
  <2>3. \A u \in Uploads, s \in Steps :
           steps'[u][s] = IF u = m.upload /\ s = m.step THEN Update(RowOf(m), t) ELSE steps[u][s]
    BY <1>2, <2>1, <2>2, SetRowFields
  <2>4. QED
    BY <2>1, <2>3, RowsMoveForward DEF RowsForward, RowOf, Targets
<1>3. ASSUME NEW w \in WorkerIds, Work(w) \/ Fault(w)
      PROVE  RowsForward
  <2>1. CASE Commit(w) /\ Applies(RowOf(wjob[w].msg), "done")
    <3>1. /\ SetRowOf(wjob[w].msg, Update(RowOf(wjob[w].msg), "done"))
          /\ wjob[w].pc # "idle"
      BY <2>1 DEF Commit, Update, At
    <3>2. QED
      BY <1>2, <3>1
  <2>2. CASE CommitReplyLost(w)
    BY <1>2, <2>2 DEF CommitReplyLost, At
  <2>3. CASE FailStep(w)
    BY <1>2, <2>3 DEF FailStep, At
  <2>4. CASE FailStepFails(w)
    BY <1>1, <1>2, <2>4 DEF FailStepFails, At
  <2>5. CASE Commit(w) /\ ~Applies(RowOf(wjob[w].msg), "done")
    BY <1>1, <2>5 DEF Commit
  <2>6. QED
    BY <1>1, <1>3, <2>1, <2>2, <2>3, <2>4, <2>5
    DEF Work, Inner, Fault, Receive, WorkDone, WorkFails, ReportDone, Ack, RetryLater,
        DeadLetter, AckDeadLettered, FailUpload, ReportFailed, CallFails, FailUploadFails,
        ReportFailedFails, RetryFails, Crash, CrashReporting, ChannelCloses, RetryUnheard
<1>4. ASSUME NEW u \in Uploads, NEW s \in Steps, NEW row \in RowStates,
             OrchestratorMoves(u, s, row)
      PROVE  RowsForward
  <2>1. \A v \in Uploads, x \in Steps :
           steps'[v][x] = IF v = u /\ x = s THEN row ELSE steps[v][x]
    BY <1>4 DEF OrchestratorMoves, TypeOK
  <2>2. steps[u][s] \in RowStates
    BY DEF TypeOK
  <2>3. QED
    BY <1>4, <2>1, <2>2, RowsMoveForward DEF OrchestratorMoves, RowsForward, Targets
<1>5. QED
  BY <1>1, <1>3, <1>4 DEF Next, wvars, Environment, Dispatch, StatusMoves

(* Messages stand when a worker leaves copies, the DLQ and the others       *)
(* alone, and its own message, if it held one, has a place.                 *)
LEMMA StepsStandBy ==
    ASSUME NEW w \in WorkerIds,
           \A v \in WorkerIds \ {w} : wjob'[v] = wjob[v],
           stepDlq \subseteq stepDlq',
           \A m \in StepMsgs : stepQ[m] > 0 => stepQ'[m] > 0 \/ StepKept(m.upload, m.step)',
           \A u \in Uploads, s \in Steps :
               ~At(w, "idle") /\ ~LetsGo(w) /\ wjob[w].msg.upload = u /\ wjob[w].msg.step = s
                   => StepKept(u, s)' \/ steps'[u][s] \in Terminal
    PROVE  StepsStand
<1> SUFFICES ASSUME NEW u \in Uploads, NEW s \in Steps, StepKept(u, s)
             PROVE  StepKept(u, s)' \/ steps'[u][s] \in Terminal
  BY DEF StepsStand
<1>1. CASE \E m \in StepMsgs : m.upload = u /\ m.step = s /\ stepQ[m] > 0
  <2>1. PICK m \in StepMsgs : m.upload = u /\ m.step = s /\ stepQ[m] > 0
    BY <1>1
  <2>2. CASE stepQ'[m] > 0
    BY <2>1, <2>2 DEF StepKept
  <2>3. CASE StepKept(m.upload, m.step)'
    BY <2>1, <2>3
  <2>4. QED
    BY <2>1, <2>2, <2>3
<1>2. CASE \E m \in stepDlq : m.upload = u /\ m.step = s
  BY <1>2 DEF StepKept
<1>3. CASE \E v \in WorkerIds : /\ ~At(v, "idle") /\ ~LetsGo(v)
                                /\ wjob[v].msg.upload = u /\ wjob[v].msg.step = s
  <2>1. PICK v \in WorkerIds : /\ ~At(v, "idle") /\ ~LetsGo(v)
                               /\ wjob[v].msg.upload = u /\ wjob[v].msg.step = s
    BY <1>3
  <2>2. CASE v = w
    BY <2>1, <2>2
  <2>3. CASE v # w
    BY <2>1, <2>3 DEF StepKept, LetsGo, At
  <2>4. QED
    BY <2>2, <2>3
<1>4. QED
  BY <1>1, <1>2, <1>3 DEF StepKept

(* A worker that has let go of its message and goes on: somebody else has   *)
(* the message still, or the row is settled.                                *)
LEMMA ClosedAccounted ==
    ASSUME IndInv, KeepInv, RowsForward, NEW w \in WorkerIds, wjob[w].pc # "idle",
           wjob[w].closed, \A v \in WorkerIds \ {w} : wjob'[v] = wjob[v],
           wjob'[w].msg = wjob[w].msg, stepDlq \subseteq stepDlq', UNCHANGED stepQ
    PROVE  Accounted(w)
<1>1. PICK m \in StepMsgs : /\ m = wjob[w].msg /\ PastPending(m)
                            /\ m.upload \in Uploads /\ m.step \in Steps
  BY JobFields DEF IndInv, KeepInv, At
<1>2. LetsGo(w)
  BY DEF LetsGo, At
<1>3. StepsStand
  BY <1>2, StepsStandBy
<1>4. RowOf(m) \in Terminal \/ StepKept(m.upload, m.step)
  BY <1>1, <1>2 DEF KeepInv
<1>5. steps'[m.upload][m.step] \in Terminal \/ StepKept(m.upload, m.step)'
  BY <1>1, <1>3, <1>4 DEF RowsForward, StepsStand, RowOf
<1>6. GoesOn(w)
  BY <1>1, <1>5 DEF GoesOn, StepKept
<1>7. QED
  BY <1>3, <1>6 DEF Accounted

(* A worker on its way to another call of the same delivery keeps it. *)
LEMMA OnItsWayAccounted ==
    ASSUME IndInv, KeepInv, RowsForward, NEW w \in WorkerIds, wjob[w].pc # "idle",
           \A v \in WorkerIds \ {w} : wjob'[v] = wjob[v],
           wjob'[w].msg = wjob[w].msg, wjob'[w].closed = wjob[w].closed,
           wjob'[w].pc \notin {"idle", "ack"},
           stepDlq \subseteq stepDlq', UNCHANGED stepQ
    PROVE  Accounted(w)
<1>1. CASE wjob[w].closed
  BY <1>1, ClosedAccounted
<1>2. CASE ~wjob[w].closed
  <2>1. PICK m \in StepMsgs : m = wjob[w].msg /\ PastPending(m)
    BY JobFields DEF IndInv, KeepInv, At
  <2>2. ~LetsGo(w)' /\ ~At(w, "idle")'
    BY <1>2 DEF LetsGo, At
  <2>3. StepKept(m.upload, m.step)'
    BY <2>1, <2>2 DEF StepKept
  <2>4. StepsStand
    BY <2>1, <2>3, StepsStandBy
  <2>5. GoesOn(w)
    BY <2>1, <2>2 DEF GoesOn
  <2>6. QED
    BY <2>4, <2>5 DEF Accounted
<1>3. QED
  BY <1>1, <1>2

(* A worker at its ack: the row is settled, or a copy is left behind. *)
LEMMA ToAckAccounted ==
    ASSUME IndInv, KeepInv, NEW w \in WorkerIds, wjob[w].pc # "idle", Goto(w, "ack"),
           NEW m \in StepMsgs, m = wjob[w].msg,
           steps'[m.upload][m.step] \in Terminal \/ StepKept(m.upload, m.step)',
           \A n \in StepMsgs : stepQ[n] > 0 => stepQ'[n] > 0,
           \A n \in StepMsgs : stepQ'[n] > 0 => stepQ[n] > 0 \/ PastPending(n),
           UNCHANGED stepDlq
    PROVE  Accounted(w)
<1>1. /\ \A v \in WorkerIds \ {w} : wjob'[v] = wjob[v]
      /\ wjob'[w].pc = "ack" /\ wjob'[w].msg = m
  BY GotoFields DEF IndInv, Holding
<1>2. PastPending(m)
  BY DEF KeepInv, At
<1>3. GoesOn(w)
  BY <1>1, <1>2 DEF GoesOn, StepKept
<1>4. StepsStand
  BY <1>1, StepsStandBy
<1>5. QED
  BY <1>1, <1>3, <1>4 DEF Accounted

(* A worker that lets go of a delivery that has a copy elsewhere. *)
LEMMA ReleaseAccounted ==
    ASSUME IndInv, KeepInv, NEW w \in WorkerIds, Release(w),
           \A u \in Uploads, s \in Steps :
               ~LetsGo(w) /\ wjob[w].msg.upload = u /\ wjob[w].msg.step = s
                   => StepKept(u, s)',
           \A n \in StepMsgs : stepQ[n] > 0 => stepQ'[n] > 0,
           \A n \in StepMsgs : stepQ'[n] > 0 => stepQ[n] > 0 \/ PastPending(n),
           UNCHANGED stepDlq
    PROVE  Accounted(w)
<1>1. (\A v \in WorkerIds \ {w} : wjob'[v] = wjob[v]) /\ wjob'[w].pc = "idle"
  BY ReleaseFields DEF IndInv, Idle
<1>2. StepsStand
  BY <1>1, StepsStandBy
<1>3. QED
  BY <1>1, <1>2 DEF Accounted

(* A copy put into the queue keeps the step it is a message of. *)
LEMMA PutKeeps ==
    ASSUME IndInv, NEW m \in StepMsgs, PastPending(m), stepQ' = Put(stepQ, m)
    PROVE  /\ \A n \in StepMsgs : stepQ[n] > 0 => stepQ'[n] > 0
           /\ \A n \in StepMsgs : stepQ'[n] > 0 => stepQ[n] > 0 \/ PastPending(n)
           /\ StepKept(m.upload, m.step)'
<1>1. /\ stepQ'[m] > 0
      /\ \A n \in StepMsgs : stepQ[n] > 0 => stepQ'[n] > 0
      /\ \A n \in StepMsgs : n # m => stepQ'[n] = stepQ[n]
  BY DEF IndInv, TypeOK, Put
<1>2. QED
  BY <1>1 DEF StepKept

(* A delivery: its step was dispatched, and the worker holds it now. *)
LEMMA ReceiveAccounted ==
    ASSUME IndInv, KeepInv, NEW w \in WorkerIds, Receive(w)
    PROVE  Accounted(w)
<1>1. PICK m \in StepMsgs :
         /\ stepQ[m] > 0 /\ stepQ' = Take(stepQ, m)
         /\ wjob' = [wjob EXCEPT ![w] = NewJob(m)]
  BY DEF Receive
<1>2. /\ \A v \in WorkerIds \ {w} : wjob'[v] = wjob[v]
      /\ wjob'[w].pc = "work" /\ wjob'[w].msg = m /\ ~wjob'[w].closed
      /\ wjob[w].pc = "idle"
  BY <1>1 DEF IndInv, TypeOK, Receive, At, NewJob
<1>3. StepKept(m.upload, m.step)' /\ ~LetsGo(w)'
  BY <1>2 DEF StepKept, LetsGo, At
<1>4. PastPending(m)
  BY <1>1 DEF KeepInv
<1>5. \A n \in StepMsgs : n # m => stepQ'[n] = stepQ[n]
  BY <1>1 DEF IndInv, TypeOK, Take
<1>6. StepsStand
  BY <1>2, <1>3, <1>5, StepsStandBy DEF Receive, At
<1>7. GoesOn(w)
  BY <1>2, <1>3, <1>4 DEF GoesOn
<1>8. QED
  BY <1>2, <1>4, <1>5, <1>6, <1>7 DEF Accounted

(* UpdateUploadStep(done) was not Applied to a row past pending: the row is *)
(* settled, and the message can go.                                         *)
LEMMA CommitAccounted ==
    ASSUME IndInv, KeepInv, RowsForward, NEW w \in WorkerIds, Commit(w)
    PROVE  Accounted(w)
<1>1. wjob[w].pc = "commit" /\ UNCHANGED <<stepQ, stepDlq>>
  BY DEF Commit, At
<1>2. PICK m \in StepMsgs :
         m = wjob[w].msg /\ m.upload \in Uploads /\ m.step \in Steps /\ RowOf(m) \in RowStates
  BY <1>1, JobFields DEF IndInv
<1>3. PastPending(m)
  BY <1>1, <1>2 DEF KeepInv, At
<1>4. CASE Applies(RowOf(m), "done")
  <2>1. Goto(w, "report")
    BY <1>2, <1>4 DEF Commit
  <2>2. /\ \A v \in WorkerIds \ {w} : wjob'[v] = wjob[v]
        /\ wjob'[w].msg = wjob[w].msg /\ wjob'[w].closed = wjob[w].closed
        /\ wjob'[w].pc = "report"
    BY <1>1, <2>1, GotoFields DEF IndInv, Holding
  <2>3. QED
    BY <1>1, <2>2, OnItsWayAccounted
<1>5. CASE ~Applies(RowOf(m), "done")
  <2>1. Goto(w, "ack") /\ UNCHANGED steps
    BY <1>2, <1>5 DEF Commit
  <2>2. RowOf(m) \in Terminal
    BY <1>2, <1>3, <1>5 DEF PastPending, Applies, Allowed, RowStates, Terminal
  <2>3. steps'[m.upload][m.step] \in Terminal
    BY <2>1, <2>2 DEF RowOf
  <2>4. QED
    BY <1>1, <1>2, <2>1, <2>3, ToAckAccounted
<1>6. QED
  BY <1>4, <1>5

(* HandleRetry: the copy with the next attempt is out before the ack. *)
LEMMA RetryLaterAccounted ==
    ASSUME IndInv, KeepInv, NEW w \in WorkerIds, RetryLater(w)
    PROVE  Accounted(w)
<1>1. wjob[w].pc = "retry" /\ Goto(w, "ack") /\ UNCHANGED stepDlq
  BY DEF RetryLater, At
<1>2. PICK m \in StepMsgs : m = wjob[w].msg
  BY <1>1, JobFields DEF IndInv
<1>3. PICK n : n = Again(m)
  OBVIOUS
<1>4. n \in StepMsgs /\ n.upload = m.upload /\ n.step = m.step
  BY <1>2, <1>3, MaxRetriesAssumption DEF RetryLater, Again, Exhausted, StepMsgs, Attempts
<1>5. PastPending(m)
  BY <1>1, <1>2 DEF KeepInv, At
<1>6. PastPending(n)
  BY <1>4, <1>5 DEF PastPending, RowOf
<1>7. stepQ' = Put(stepQ, n)
  BY <1>2, <1>3 DEF RetryLater
<1>8. /\ \A x \in StepMsgs : stepQ[x] > 0 => stepQ'[x] > 0
      /\ \A x \in StepMsgs : stepQ'[x] > 0 => stepQ[x] > 0 \/ PastPending(x)
      /\ StepKept(n.upload, n.step)'
  BY <1>4, <1>6, <1>7, PutKeeps
<1>9. StepKept(m.upload, m.step)'
  BY <1>4, <1>8
<1>10. QED
  BY <1>1, <1>2, <1>8, <1>9, ToAckAccounted

(* A delivery given back to the broker. *)
LEMMA ReturnedAccounted ==
    ASSUME IndInv, KeepInv, NEW w \in WorkerIds, RetryFails(w) \/ Crash(w)
    PROVE  Accounted(w)
<1>1. wjob[w].pc # "idle" /\ Release(w) /\ Requeue(w) /\ UNCHANGED stepDlq
  BY DEF RetryFails, Crash, At, Holding
<1>2. CASE wjob[w].closed
  <2>1. UNCHANGED stepQ
    BY <1>1, <1>2 DEF Requeue
  <2>2. LetsGo(w)
    BY <1>1, <1>2 DEF LetsGo, At
  <2>3. QED
    BY <1>1, <2>1, <2>2, ReleaseAccounted
<1>3. CASE ~wjob[w].closed
  <2>1. PICK m \in StepMsgs : m = wjob[w].msg /\ PastPending(m)
    BY <1>1, JobFields DEF IndInv, KeepInv, At
  <2>2. /\ \A n \in StepMsgs : stepQ[n] > 0 => stepQ'[n] > 0
        /\ \A n \in StepMsgs : stepQ'[n] > 0 => stepQ[n] > 0 \/ PastPending(n)
        /\ StepKept(m.upload, m.step)'
    BY <1>1, <1>3, <2>1, PutKeeps DEF Requeue
  <2>3. QED
    BY <1>1, <2>1, <2>2, ReleaseAccounted
<1>4. QED
  BY <1>2, <1>3

(* A channel that closes: the broker puts the delivery back, and the worker *)
(* goes on with what is now somebody else's.                                *)
LEMMA ClosesAccounted ==
    ASSUME IndInv, KeepInv, NEW w \in WorkerIds, ChannelCloses(w)
    PROVE  Accounted(w)
<1>1. /\ \A v \in WorkerIds \ {w} : wjob'[v] = wjob[v]
      /\ wjob'[w].msg = wjob[w].msg /\ wjob[w].pc # "idle"
  BY ClosedFields DEF IndInv
<1>2. PICK m \in StepMsgs : m = wjob[w].msg /\ PastPending(m)
  BY <1>1, JobFields DEF IndInv, KeepInv, At
<1>3. /\ \A n \in StepMsgs : stepQ[n] > 0 => stepQ'[n] > 0
      /\ \A n \in StepMsgs : stepQ'[n] > 0 => stepQ[n] > 0 \/ PastPending(n)
      /\ StepKept(m.upload, m.step)'
  BY <1>2, PutKeeps DEF ChannelCloses, Requeue
<1>4. StepsStand
  BY <1>1, <1>2, <1>3, StepsStandBy DEF ChannelCloses
<1>5. GoesOn(w)
  BY <1>1, <1>2, <1>3 DEF GoesOn, StepKept
<1>6. QED
  BY <1>1, <1>3, <1>4, <1>5 DEF Accounted

(* Whatever ReportFailed does, its message is in the DLQ, or was requeued. *)
LEMMA ReportingAccounted ==
    ASSUME IndInv, KeepInv, RowsForward, NEW w \in WorkerIds, wjob[w].pc \in Reporting,
           UNCHANGED <<stepQ, stepDlq>>,
           \/ Release(w)
           \/ /\ \A v \in WorkerIds \ {w} : wjob'[v] = wjob[v]
              /\ wjob'[w].msg = wjob[w].msg /\ wjob'[w].closed = wjob[w].closed
              /\ wjob'[w].pc \in Reporting
    PROVE  Accounted(w)
<1>1. wjob[w].pc # "idle"
  BY DEF Reporting
<1>2. CASE Release(w)
  <2>1. ~LetsGo(w) => wjob[w].msg \in stepDlq
    BY <1>1 DEF IndInv, ReportingIsDeadLettered, LetsGo, At
  <2>2. \A u \in Uploads, s \in Steps :
           ~LetsGo(w) /\ wjob[w].msg.upload = u /\ wjob[w].msg.step = s => StepKept(u, s)'
    BY <2>1 DEF StepKept
  <2>3. QED
    BY <1>2, <2>2, ReleaseAccounted
<1>3. CASE /\ \A v \in WorkerIds \ {w} : wjob'[v] = wjob[v]
           /\ wjob'[w].msg = wjob[w].msg /\ wjob'[w].closed = wjob[w].closed
           /\ wjob'[w].pc \in Reporting
  BY <1>1, <1>3, OnItsWayAccounted DEF Reporting
<1>4. QED
  BY <1>2, <1>3

(* Every step of a worker accounts for its message. *)
LEMMA WorkerAccounted ==
    ASSUME IndInv, KeepInv, RowsForward, NEW w \in WorkerIds, Work(w) \/ Fault(w)
    PROVE  Accounted(w)
<1> USE DEF IndInv
<1>1. ASSUME NEW pc \in (Holding \cup Reporting) \ {"ack"}, Goto(w, pc), wjob[w].pc # "idle",
             stepDlq \subseteq stepDlq', UNCHANGED stepQ
      PROVE  Accounted(w)
  <2>1. /\ \A v \in WorkerIds \ {w} : wjob'[v] = wjob[v]
        /\ wjob'[w].msg = wjob[w].msg /\ wjob'[w].closed = wjob[w].closed /\ wjob'[w].pc = pc
    BY <1>1, GotoFields
  <2>2. QED
    BY <1>1, <2>1, OnItsWayAccounted DEF Holding, Reporting
<1>2. CASE WorkDone(w) \/ WorkFails(w) \/ CallFails(w) \/ CommitReplyLost(w)
           \/ DeadLetter(w) \/ AckDeadLettered(w)
  <2>1. /\ wjob[w].pc # "idle" /\ stepDlq \subseteq stepDlq' /\ UNCHANGED stepQ
        /\ \E pc \in {"commit", "retry", "ackdlq", "failstep"} : Goto(w, pc)
    BY <1>2 DEF WorkDone, WorkFails, CallFails, CommitReplyLost, DeadLetter, AckDeadLettered, At
  <2>2. QED
    BY <1>1, <2>1 DEF Holding, Reporting
<1>3. CASE ReportDone(w)
  <2>1. /\ wjob[w].pc = "report" /\ Goto(w, "ack")
        /\ UNCHANGED <<steps, stepQ, stepDlq>>
    BY <1>3 DEF ReportDone, At
  <2>2. PICK m \in StepMsgs : m = wjob[w].msg
    BY <2>1, JobFields
  <2>3. RowOf(m) = "done"
    BY <2>1, <2>2 DEF ClaimAlone, Claims, ClaimedOutcome, At
  <2>4. steps'[m.upload][m.step] \in Terminal
    BY <2>1, <2>3 DEF RowOf, Terminal
  <2>5. QED
    BY <2>1, <2>2, <2>4, ToAckAccounted
<1>4. CASE Ack(w)
  BY <1>4, ReleaseAccounted DEF Ack, At, LetsGo
<1>5. CASE FailUpload(w) \/ FailUploadFails(w)
  <2>1. /\ wjob[w].pc = "failupload" /\ UNCHANGED <<stepQ, stepDlq>>
        /\ Goto(w, "sendfailed") \/ Release(w)
    BY <1>5 DEF FailUpload, FailUploadFails, At
  <2>2. CASE Goto(w, "sendfailed")
    BY <1>1, <2>1, <2>2 DEF Reporting, Holding
  <2>3. CASE Release(w)
    BY <2>1, <2>3, ReportingAccounted DEF Reporting
  <2>4. QED
    BY <2>1, <2>2, <2>3
<1>6. CASE ReportFailed(w) \/ ReportFailedFails(w) \/ CrashReporting(w)
  BY <1>6, ReportingAccounted DEF ReportFailed, ReportFailedFails, CrashReporting, At, Reporting
<1>7. CASE FailStepFails(w)
  <2>1. /\ wjob[w].pc = "failstep" /\ UNCHANGED <<stepQ, stepDlq>>
        /\ Goto(w, "failupload") \/ Release(w)
    BY <1>7 DEF FailStepFails, At
  <2>2. CASE Goto(w, "failupload")
    BY <1>1, <2>1, <2>2 DEF Reporting, Holding
  <2>3. CASE Release(w)
    BY <2>1, <2>3, ReportingAccounted DEF Reporting
  <2>4. QED
    BY <2>1, <2>2, <2>3
<1>8. CASE FailStep(w)
  <2>1. wjob[w].pc = "failstep" /\ UNCHANGED <<stepQ, stepDlq>>
    BY <1>8 DEF FailStep, At
  <2>2. CASE Release(w)
    BY <2>1, <2>2, ReportingAccounted DEF Reporting
  <2>3. CASE ~Release(w)
    <3>1. \E a \in BOOLEAN, pc \in {"failupload", "sendfailed"} :
             wjob' = [wjob EXCEPT ![w] = [wjob[w] EXCEPT !.applied = a, !.pc = pc]]
      <4>1. CASE Applies(RowOf(wjob[w].msg), "failed")
        <5>1. wjob' = [wjob EXCEPT ![w].applied = TRUE,
                                   ![w].pc = IF wjob[w].msg.step = "publish" THEN "failupload"
                                                                             ELSE "sendfailed"]
          BY <1>8, <4>1 DEF FailStep, Applies
        <5>2. QED
          BY <5>1
      <4>2. CASE ~Applies(RowOf(wjob[w].msg), "failed")
        <5>1. wjob[w].msg.step = "publish"
          BY <1>8, <2>3, <4>2 DEF FailStep
        <5>2. wjob' = [wjob EXCEPT ![w].applied = Applies(RowOf(wjob[w].msg), "failed"),
                                   ![w].pc = "failupload"]
          BY <1>8, <5>1 DEF FailStep
        <5>3. Applies(RowOf(wjob[w].msg), "failed") = FALSE
          BY <4>2 DEF Applies
        <5>4. QED
          BY <5>2, <5>3
      <4>3. QED
        BY <4>1, <4>2
    <3>2. PICK a \in BOOLEAN, pc \in {"failupload", "sendfailed"} :
             wjob' = [wjob EXCEPT ![w] = [wjob[w] EXCEPT !.applied = a, !.pc = pc]]
      BY <3>1
    <3>3. wjob[w] \in WorkerJobs
      BY <2>1, JobFields
    <3>4. /\ \A v \in WorkerIds \ {w} : wjob'[v] = wjob[v]
          /\ wjob'[w].msg = wjob[w].msg /\ wjob'[w].closed = wjob[w].closed
          /\ wjob'[w].pc = pc
      BY <3>2, <3>3 DEF TypeOK, WorkerJobs
    <3>5. QED
      BY <2>1, <3>4, ReportingAccounted DEF Reporting
  <2>4. QED
    BY <2>2, <2>3
<1>9. CASE RetryUnheard(w)
  <2>1. /\ wjob[w].pc # "idle" /\ wjob[w].closed /\ UNCHANGED <<stepQ, stepDlq>>
        /\ Goto(w, "ack") \/ Goto(w, "ackdlq")
    BY <1>9 DEF RetryUnheard, At
  <2>2. (\A v \in WorkerIds \ {w} : wjob'[v] = wjob[v]) /\ wjob'[w].msg = wjob[w].msg
    BY <2>1, GotoFields DEF Holding
  <2>3. QED
    BY <2>1, <2>2, ClosedAccounted
<1>10. QED
  BY <1>2, <1>3, <1>4, <1>5, <1>6, <1>7, <1>8, <1>9, ReceiveAccounted, CommitAccounted,
     RetryLaterAccounted, ReturnedAccounted, ClosesAccounted
  DEF Work, Inner, Fault

(* In every step the rows move forward and the messages stand. *)
LEMMA StepStands ==
    ASSUME IndInv, KeepInv, [Next]_wvars
    PROVE  /\ RowsForward /\ StepsStand
           /\ \A m \in StepMsgs : stepQ'[m] > 0 => stepQ[m] > 0 \/ PastPending(m)
           /\ \A w \in WorkerIds : wjob'[w] = wjob[w] \/ wjob'[w].pc = "idle" \/ GoesOn(w)
<1>1. RowsForward
  BY StepRowsForward
<1>2. ASSUME NEW w \in WorkerIds, Work(w) \/ Fault(w)
      PROVE  /\ StepsStand
             /\ \A m \in StepMsgs : stepQ'[m] > 0 => stepQ[m] > 0 \/ PastPending(m)
             /\ \A v \in WorkerIds : wjob'[v] = wjob[v] \/ wjob'[v].pc = "idle" \/ GoesOn(v)
  BY <1>1, <1>2, WorkerAccounted DEF Accounted
<1>3. CASE \E u \in Uploads, s \in Steps : Dispatch(u, s)
  <2>1. PICK u \in Uploads, s \in Steps : Dispatch(u, s)
    BY <1>3
  <2>2. PICK m \in StepMsgs : m = [upload |-> u, step |-> s, attempt |-> 0]
    <3>1. [upload |-> u, step |-> s, attempt |-> 0] \in StepMsgs
      BY MaxRetriesAssumption DEF StepMsgs, Attempts
    <3>2. QED
      BY <3>1
  <2>3. PastPending(m) /\ stepQ' = Put(stepQ, m) /\ UNCHANGED <<stepDlq, wjob>>
    BY <2>1, <2>2 DEF Dispatch, PastPending, RowOf
  <2>4. /\ \A n \in StepMsgs : stepQ[n] > 0 => stepQ'[n] > 0
        /\ \A n \in StepMsgs : stepQ'[n] > 0 => stepQ[n] > 0 \/ PastPending(n)
    BY <2>3, PutKeeps
  <2>5. StepsStand
    BY <2>3, <2>4 DEF StepsStand, StepKept, LetsGo, At
  <2>6. QED
    BY <1>1, <2>3, <2>4, <2>5
<1>4. CASE UNCHANGED <<stepQ, stepDlq, wjob>>
  BY <1>1, <1>4 DEF StepsStand, StepKept, LetsGo, At
<1>5. QED
  BY <1>1, <1>2, <1>3, <1>4
  DEF Next, Environment, OrchestratorMoves, StatusMoves, wvars, wprivate

(* Every step preserves KeepInv. *)
LEMMA KeepStep ==
    ASSUME IndInv, KeepInv, [Next]_wvars
    PROVE  KeepInv'
BY StepStands, KeepKept

(* The initial states satisfy KeepInv. *)
LEMMA KeepStart ==
    ASSUME Init
    PROVE  KeepInv
BY DEF Init, KeepInv, Idle, At, LetsGo

(* A step in which the last message of a pipeline step disappears has the   *)
(* row settled.                                                             *)
LEMMA LostOnlySettled ==
    ASSUME IndInv, KeepInv, [Next]_wvars, NEW u \in Uploads, NEW s \in Steps,
           StepPending(u, s), ~StepPending(u, s)'
    PROVE  steps'[u][s] \in Terminal
<1>1. StepKept(u, s) \/ steps[u][s] \in Terminal
  BY DEF StepPending, StepKept, KeepInv, At, RowOf, LetsGo
<1>2. ~StepKept(u, s)'
  BY DEF StepPending, StepKept, At
<1>3. RowsForward /\ StepsStand
  BY StepStands
<1>4. QED
  BY <1>1, <1>2, <1>3 DEF RowsForward, StepsStand

(* The inductive invariant holds of every behaviour of the workers.         *)
THEOREM Invariance == Spec => []IndInv
<1>1. Init => IndInv
  BY Start
<1>2. IndInv /\ [Next]_wvars => IndInv'
  BY Step
<1>3. QED
  BY <1>1, <1>2, PTL DEF Spec

(* Every variable keeps its domain, and a worker only its own step.         *)
THEOREM TypeCorrect == Spec => []TypeOK
<1>1. IndInv => TypeOK
  BY DEF IndInv
<1>2. QED
  BY <1>1, Invariance, PTL

(* A result on the wire agrees with its step's row for good.                *)
THEOREM ResultsMatchRows == Spec => []ResultMatchesRow
<1>1. IndInv => ResultMatchesRow
  BY DEF IndInv
<1>2. QED
  BY <1>1, Invariance, PTL

(* However often a step is dispatched, redelivered or retried, and however  *)
(* many replicas handle it at once, it has at most one result.              *)
THEOREM OneResult == Spec => []ReportedOnce
<1>1. IndInv => ReportedOnce
  BY DEF IndInv
<1>2. QED
  BY <1>1, Invariance, PTL

(* ReportFailed sets a row to failed only when the message is in the DLQ,   *)
(* unless HandleRetry's copy was lost with the channel, unconfirmed.        *)
THEOREM FailedAreDeadLettered == Spec => FailedIsDeadLettered
<1>1. IndInv /\ [Next]_wvars =>
         [\A u \in Uploads, s \in Steps :
             steps[u][s] # "failed" /\ steps'[u][s] = "failed" =>
                 \/ \E m \in stepDlq : m.upload = u /\ m.step = s
                 \/ \E w \in WorkerIds : /\ At(w, "failstep") /\ wjob[w].closed
                                         /\ wjob[w].msg.upload = u /\ wjob[w].msg.step = s]_wvars
  BY FailsOnlyParked
<1>2. QED
  BY <1>1, Invariance, PTL DEF Spec, FailedIsDeadLettered

(* Only dispatched steps have messages, and none is let go of before its    *)
(* row is settled or a copy of it is out.                                   *)
THEOREM KeepInvariance == Spec => []KeepInv
<1>1. Init => IndInv /\ KeepInv
  BY Start, KeepStart
<1>2. IndInv /\ KeepInv /\ [Next]_wvars => (IndInv /\ KeepInv)'
  BY Step, KeepStep
<1>3. QED
  BY <1>1, <1>2, PTL DEF Spec

(* No crash, failed call or failed retry loses a step that was dispatched.  *)
THEOREM StepsAreKept == Spec => StepNotLost
<1>1. IndInv /\ KeepInv /\ [Next]_wvars =>
         [\A u \in Uploads, s \in Steps :
             StepPending(u, s) /\ ~StepPending(u, s)' => steps'[u][s] \in Terminal]_wvars
  BY LostOnlySettled
<1>2. QED
  BY <1>1, Invariance, KeepInvariance, PTL DEF Spec, StepNotLost
================================================================================
