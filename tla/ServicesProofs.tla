----------------------------- MODULE ServicesProofs ----------------------------
(***************************************************************************)
(* Proofs about Services, for every deployment, any number of messages and *)
(* retries, and any number of crashes, stops, broken connections and       *)
(* broker outages in any order.                                            *)
(***************************************************************************)
EXTENDS Services, SequenceTheorems, TLAPS

(* Where the elements of two joined sequences are. *)
LEMMA Joined ==
    ASSUME NEW S, NEW s \in Seq(S), NEW t \in Seq(S)
    PROVE  /\ s \o t \in Seq(S) /\ Len(s \o t) = Len(s) + Len(t)
           /\ \A i \in 1..Len(s) : (s \o t)[i] = s[i]
           /\ \A i \in 1..Len(t) : (s \o t)[Len(s) + i] = t[i]
<1>1. Len(s) \in Nat /\ Len(t) \in Nat
  BY LenProperties
<1>2. /\ s \o t \in Seq(S) /\ Len(s \o t) = Len(s) + Len(t)
      /\ \A i \in 1..Len(s) + Len(t) : (s \o t)[i] = IF i <= Len(s) THEN s[i] ELSE t[i - Len(s)]
  BY ConcatProperties
<1>3. ASSUME NEW i \in 1..Len(s) PROVE (s \o t)[i] = s[i]
  <2>1. i \in 1..Len(s) + Len(t) /\ i <= Len(s)
    BY <1>1
  <2>2. QED
    BY <1>2, <2>1
<1>4. ASSUME NEW i \in 1..Len(t) PROVE (s \o t)[Len(s) + i] = t[i]
  <2>1. Len(s) + i \in 1..Len(s) + Len(t) /\ ~(Len(s) + i <= Len(s)) /\ Len(s) + i - Len(s) = i
    BY <1>1
  <2>2. (s \o t)[Len(s) + i] = t[Len(s) + i - Len(s)]
    BY <1>2, <2>1
  <2>3. QED
    BY <2>1, <2>2
<1>5. QED
  BY <1>2, <1>3, <1>4

(* The queues of a retry policy, in the order of their declaration. *)
LEMMA RetryQueuesSeq ==
    ASSUME NEW q \in Queues
    PROVE  /\ RetryQueues(q) \in Seq(Entities) /\ Len(RetryQueues(q)) = 1 + MaxRetries
           /\ RetryQueues(q)[1] = Dlq(q)
           /\ \A n \in 1..MaxRetries : RetryQueues(q)[1 + n] = Delay(q, n)
<1> DEFINE delays == [n \in 1..MaxRetries |-> Delay(q, n)]
           first == <<Dlq(q)>>
<1>1. MaxRetries \in Nat
  BY MaxRetriesAssumption
<1>2. \A n \in 1..MaxRetries : Delay(q, n) \in Entities
  BY DEF Entities
<1>3. delays \in Seq(Entities)
  BY <1>1, <1>2, SeqDef
<1>4. Len(delays) = MaxRetries /\ \A n \in 1..MaxRetries : delays[n] = Delay(q, n)
  BY <1>1, <1>3, LenProperties
<1>5. first \in Seq(Entities) /\ Len(first) = 1 /\ first[1] = Dlq(q)
  <2>1. Dlq(q) \in Entities
    BY DEF Entities
  <2>2. QED
    BY <2>1
<1>6. RetryQueues(q) = first \o delays
  BY DEF RetryQueues
<1> HIDE DEF delays, first
<1>7. /\ first \o delays \in Seq(Entities) /\ Len(first \o delays) = 1 + MaxRetries
      /\ \A i \in 1..1 : (first \o delays)[i] = first[i]
      /\ \A i \in 1..MaxRetries : (first \o delays)[1 + i] = delays[i]
  <2>1. /\ first \o delays \in Seq(Entities) /\ Len(first \o delays) = Len(first) + Len(delays)
        /\ \A i \in 1..Len(first) : (first \o delays)[i] = first[i]
        /\ \A i \in 1..Len(delays) : (first \o delays)[Len(first) + i] = delays[i]
    BY <1>3, <1>5, Joined
  <2>2. QED
    BY <1>4, <1>5, <2>1
<1>8. QED
  BY <1>4, <1>5, <1>6, <1>7

(* e is an element of s. *)
Holding(s, e) == \E i \in 1..Len(s) : s[i] = e

(* What a part of a sequence holds, the whole does. *)
LEMMA JoinedHolds ==
    ASSUME NEW S, NEW s \in Seq(S), NEW t \in Seq(S), NEW e, Holding(s, e) \/ Holding(t, e)
    PROVE  Holding(s \o t, e)
<1>1. Len(s) \in Nat /\ Len(t) \in Nat
  BY LenProperties
<1>2. /\ Len(s \o t) = Len(s) + Len(t)
      /\ \A i \in 1..Len(s) : (s \o t)[i] = s[i]
      /\ \A i \in 1..Len(t) : (s \o t)[Len(s) + i] = t[i]
  BY Joined
<1>3. ASSUME NEW i \in 1..Len(s), s[i] = e PROVE Holding(s \o t, e)
  <2>1. i \in 1..Len(s \o t) /\ (s \o t)[i] = e
    BY <1>1, <1>2, <1>3
  <2>2. QED
    BY <2>1 DEF Holding
<1>4. ASSUME NEW i \in 1..Len(t), t[i] = e PROVE Holding(s \o t, e)
  <2>1. Len(s) + i \in 1..Len(s \o t) /\ (s \o t)[Len(s) + i] = e
    BY <1>1, <1>2, <1>4
  <2>2. QED
    BY <2>1 DEF Holding
<1>5. QED
  BY <1>3, <1>4 DEF Holding

(* What a consumer declares: its retry queues, and what its messages are    *)
(* routed by, among others.                                                 *)
LEMMA SetUpSeq ==
    ASSUME NEW q \in Queues
    PROVE  /\ SetUp(q) \in Seq(Entities)
           /\ Holding(SetUp(q), RoutedBy(q)) /\ Holding(SetUp(q), Dlq(q))
           /\ \A n \in 1..MaxRetries : Holding(SetUp(q), Delay(q, n))
<1> DEFINE r == RetryQueues(q)
<1>1. /\ r \in Seq(Entities) /\ Holding(r, Dlq(q))
      /\ \A n \in 1..MaxRetries : Holding(r, Delay(q, n))
  <2>1. MaxRetries \in Nat
    BY MaxRetriesAssumption
  <2>2. Holding(r, Dlq(q))
    BY <2>1, RetryQueuesSeq DEF Holding
  <2>3. ASSUME NEW n \in 1..MaxRetries PROVE Holding(r, Delay(q, n))
    <3>1. 1 + n \in 1..Len(r) /\ r[1 + n] = Delay(q, n)
      BY <2>1, RetryQueuesSeq
    <3>2. QED
      BY <3>1 DEF Holding
  <2>4. QED
    BY <2>2, <2>3, RetryQueuesSeq
<1> HIDE DEF r
<1>2. Exchange \in Entities /\ Queue(q) \in Entities /\ Binding(q) \in Entities
  BY DEF Entities
<1>3. CASE q \in StepQueues
  <2> DEFINE head == <<Exchange, Queue(q)>>
             tail == <<Binding(q)>>
  <2>1. SetUp(q) = (head \o r) \o tail /\ RoutedBy(q) = Binding(q)
    BY <1>3 DEF SetUp, RoutedBy, r
  <2>2. head \in Seq(Entities) /\ tail \in Seq(Entities) /\ Holding(tail, Binding(q))
    BY <1>2 DEF Holding
  <2> HIDE DEF head, tail
  <2>3. /\ head \o r \in Seq(Entities) /\ Holding(head \o r, Dlq(q))
        /\ \A n \in 1..MaxRetries : Holding(head \o r, Delay(q, n))
    BY <1>1, <2>2, Joined, JoinedHolds
  <2> DEFINE front == head \o r
  <2> HIDE DEF front
  <2>4. /\ front \in Seq(Entities) /\ Holding(front, Dlq(q)) /\ SetUp(q) = front \o tail
        /\ \A n \in 1..MaxRetries : Holding(front, Delay(q, n))
    BY <2>1, <2>3 DEF front
  <2>5. QED
    BY <2>1, <2>2, <2>4, Joined, JoinedHolds
<1>4. CASE q \notin StepQueues
  <2> DEFINE head == <<Queue(q)>>
  <2>1. SetUp(q) = head \o r /\ RoutedBy(q) = Queue(q)
    BY <1>4 DEF SetUp, RoutedBy, r
  <2>2. head \in Seq(Entities) /\ Holding(head, Queue(q))
    BY <1>2 DEF Holding
  <2> HIDE DEF head
  <2>3. QED
    BY <1>1, <2>1, <2>2, Joined, JoinedHolds
<1>5. QED
  BY <1>3, <1>4

(* The queues a consumed queue's copies are routed by or republished to. *)
LEMMA ServedIsDeclared ==
    ASSUME TypeOK, DeclaredInOrder, NEW q \in served
    PROVE  /\ RoutedBy(q) \in declared /\ Dlq(q) \in declared
           /\ \A n \in 1..MaxRetries : Delay(q, n) \in declared
<1>1. q \in Queues
  BY DEF TypeOK
<1>2. \A i \in 1..Len(SetUp(q)) : SetUp(q)[i] \in declared
  BY DEF DeclaredInOrder
<1>3. QED
  BY <1>1, <1>2, SetUpSeq DEF Holding

--------------------------------------------------------------------------------
(* The messages, queues and services of a deployment belong together. *)
LEMMA Deployment ==
    /\ MaxRetries \in Nat
    /\ \A m \in Messages : Route[m] \in Queues /\ Publisher[m] \in Deployed
    /\ \A q \in Queues : Consumer[q] \in Deployed
BY MaxRetriesAssumption, DeploymentAssumption

(* A hand is empty or holds a copy. *)
LEMMA Hand ==
    ASSUME TypeOK, NEW q \in Queues
    PROVE  \/ hand[q] = NoDelivery /\ hand[q].stage = "none"
           \/ /\ hand[q] \in Deliveries /\ hand[q].stage \in {"run", "ack"}
              /\ hand[q].copy \in Copies
              /\ hand[q].copy.msg \in Messages /\ hand[q].copy.attempt \in Attempts
              /\ hand[q] # NoDelivery
<1>1. hand[q] = NoDelivery \/ hand[q] \in Deliveries
  BY DEF TypeOK
<1>2. hand[q] = NoDelivery => hand[q].stage = "none"
  BY DEF NoDelivery
<1>3. ASSUME hand[q] \in Deliveries
      PROVE  /\ hand[q].stage \in {"run", "ack"} /\ hand[q].copy \in Copies
             /\ hand[q].copy.msg \in Messages /\ hand[q].copy.attempt \in Attempts
             /\ hand[q] # NoDelivery
  <2>1. hand[q].stage \in {"run", "ack"} /\ hand[q].copy \in Copies
    BY <1>3 DEF Deliveries
  <2>2. hand[q].copy.msg \in Messages /\ hand[q].copy.attempt \in Attempts
    BY <2>1 DEF Copies
  <2>3. hand[q] # NoDelivery
    BY <2>1 DEF NoDelivery
  <2>4. QED
    BY <2>1, <2>2, <2>3
<1>4. QED
  BY <1>1, <1>2, <1>3

(* The handler is done with its copy, which waits for its ack. *)
LEMMA ToAck ==
    ASSUME TypeOK, NEW q \in Queues, Runs(q), hand' = [hand EXCEPT ![q].stage = "ack"]
    PROVE  /\ hand' \in [Queues -> {NoDelivery} \cup Deliveries]
           /\ hand'[q].stage = "ack" /\ hand'[q].copy = hand[q].copy
           /\ \A p \in Queues : p # q => hand'[p] = hand[p]
<1>1. hand[q] \in Deliveries
  BY Hand DEF Runs
<1>2. [hand[q] EXCEPT !.stage = "ack"] \in Deliveries
  BY <1>1 DEF Deliveries
<1>3. hand'[q] = [hand[q] EXCEPT !.stage = "ack"] /\ \A p \in Queues : p # q => hand'[p] = hand[p]
  BY DEF TypeOK
<1>4. hand' \in [Queues -> {NoDelivery} \cup Deliveries]
  BY <1>2, <1>3 DEF TypeOK
<1>5. QED
  BY <1>1, <1>3, <1>4 DEF Deliveries

(* After a publish on the consumer's channel: the ack, or nothing on a      *)
(* closed one.                                                              *)
LEMMA Republished ==
    ASSUME TypeOK, NEW q \in Queues, Runs(q), AfterRepublish(q)
    PROVE  /\ hand' \in [Queues -> {NoDelivery} \cup Deliveries]
           /\ \A p \in Queues : p # q => hand'[p] = hand[p]
           /\ \/ link[Consumer[q]] = "closed" /\ hand'[q] = NoDelivery
              \/ /\ link[Consumer[q]] # "closed"
                 /\ hand'[q].stage = "ack" /\ hand'[q].copy = hand[q].copy
<1>1. CASE link[Consumer[q]] = "closed"
  BY <1>1 DEF TypeOK, AfterRepublish
<1>2. CASE link[Consumer[q]] # "closed"
  <2>1. hand' = [hand EXCEPT ![q].stage = "ack"]
    BY <1>2 DEF AfterRepublish
  <2>2. QED
    BY <1>2, <2>1, ToAck
<1>3. QED
  BY <1>1, <1>2

(* A copy more or less. *)
LEMMA Bag ==
    ASSUME NEW b \in [Copies -> Nat], NEW c \in Copies
    PROVE  /\ Put(b, c) \in [Copies -> Nat] /\ Put(b, c)[c] = b[c] + 1
           /\ \A d \in Copies : d # c => Put(b, c)[d] = b[d]
           /\ b[c] > 0 => Take(b, c) \in [Copies -> Nat]
           /\ Take(b, c)[c] = b[c] - 1
           /\ \A d \in Copies : d # c => Take(b, c)[d] = b[d]
BY DEF Put, Take

(* The copy of the next attempt. *)
LEMMA NextAttempt ==
    ASSUME NEW c \in Copies, ~Exhausted(c)
    PROVE  /\ Again(c) \in Copies /\ Again(c).msg = c.msg /\ Again(c).attempt = c.attempt + 1
           /\ Again(c).attempt \in 1..MaxRetries
<1>1. MaxRetries \in Nat
  BY Deployment
<1>2. PICK m \in Messages, a \in Attempts : c = [msg |-> m, attempt |-> a]
  BY DEF Copies
<1>3. c.msg = m /\ c.attempt = a /\ a \in Nat
  BY <1>1, <1>2 DEF Attempts
<1>4. a + 1 \in Attempts /\ a + 1 \in 1..MaxRetries
  BY <1>1, <1>2, <1>3 DEF Exhausted, Attempts
<1>5. Again(c) = [msg |-> m, attempt |-> a + 1]
  BY <1>2, <1>3 DEF Again
<1>6. QED
  BY <1>3, <1>4, <1>5 DEF Copies

(* The counter of failures saturates. *)
LEMMA Counted ==
    ASSUME TypeOK, NEW m \in Messages, CountFailure(m)
    PROVE  /\ failures' \in [Messages -> 0..MaxRetries + 1]
           /\ failures'[m] = IF failures[m] > MaxRetries THEN MaxRetries + 1 ELSE failures[m] + 1
           /\ \A n \in Messages : n # m => failures'[n] = failures[n]
<1>1. MaxRetries \in Nat /\ failures \in [Messages -> 0..MaxRetries + 1]
  BY Deployment DEF TypeOK
<1>2. failures' = [failures EXCEPT ![m] = IF failures[m] > MaxRetries THEN failures[m] ELSE failures[m] + 1]
  BY DEF CountFailure
<1>3. QED
  BY <1>1, <1>2

--------------------------------------------------------------------------------
(* A process that disappears. *)
LEMMA DisappearType ==
    ASSUME TypeOK, NEW s \in Deployed, Disappear(s), faults' \in 0..MaxFaults
    PROVE  TypeOK'
<1>1. /\ process' \in [Deployed -> {"down", "up", "stopping"}]
      /\ step' \in [Deployed -> Nat]
      /\ link' \in [Deployed -> {"none", "open", "stale", "closed"}]
      /\ setup' \in [Queues -> Nat] /\ consuming' \subseteq Queues /\ returned' \subseteq Queues
  BY DEF TypeOK, Disappear
<1>2. ready' \in [Copies -> Nat]
  BY DEF TypeOK, Disappear
<1>3. hand' \in [Queues -> {NoDelivery} \cup Deliveries]
  BY DEF TypeOK, Disappear
<1>4. fate' \in [Messages -> {"unsent", "sending", "unseen", "dropped", "arrived"}]
  BY DEF TypeOK, Disappear
<1>5. QED
  BY <1>1, <1>2, <1>3, <1>4 DEF TypeOK, Disappear

(* The steps of processes and of the broker keep the types. *)
LEMMA ProcessType ==
    ASSUME TypeOK,
           \/ \E s \in Deployed :
                \/ Launch(s) \/ StartStep(s) \/ Fatal(s)
                \/ Crash(s) \/ Stop(s) \/ Exit(s)
                \/ LinkBreaks(s) \/ Notice(s)
           \/ BrokerStops \/ BrokerStarts
    PROVE  TypeOK'
<1>0. MaxFaults \in Nat /\ (Fault => faults' \in 0..MaxFaults)
  BY DeploymentAssumption DEF TypeOK, Fault
<1>1. ASSUME NEW s \in Deployed, Launch(s) PROVE TypeOK'
  BY <1>1 DEF TypeOK, Launch, topology, messages
<1>2. ASSUME NEW s \in Deployed, StartStep(s) PROVE TypeOK'
  BY <1>2 DEF TypeOK, StartStep, topology, messages
<1>3. ASSUME NEW s \in Deployed, Fatal(s) \/ Crash(s) \/ Exit(s) PROVE TypeOK'
  <2>1. faults' \in 0..MaxFaults
    BY <1>0, <1>3 DEF TypeOK, Fatal, Crash, Exit
  <2>2. QED
    BY <1>3, <2>1, DisappearType DEF Fatal, Crash, Exit
<1>4. ASSUME NEW s \in Deployed, Stop(s) PROVE TypeOK'
  BY <1>0, <1>4 DEF TypeOK, Stop, topology, messages
<1>5. ASSUME NEW s \in Deployed, LinkBreaks(s) PROVE TypeOK'
  BY <1>0, <1>5 DEF TypeOK, LinkBreaks, topology
<1>6. ASSUME NEW s \in Deployed, Notice(s) PROVE TypeOK'
  BY <1>6 DEF TypeOK, Notice, topology, messages
<1>7. CASE BrokerStops
  <2>1. declared' = declared
    BY <1>7 DEF BrokerStops, Transient
  <2>2. delayed' \in [Copies -> Nat] /\ ready' \in [Copies -> Nat]
    BY <1>7 DEF TypeOK, BrokerStops
  <2>3. link' \in [Deployed -> {"none", "open", "stale", "closed"}]
    BY <1>7 DEF TypeOK, BrokerStops
  <2>4. QED
    BY <1>0, <1>7, <2>1, <2>2, <2>3 DEF TypeOK, BrokerStops
<1>8. CASE BrokerStarts
  BY <1>8 DEF TypeOK, BrokerStarts, topology, messages
<1>9. QED
  BY <1>1, <1>2, <1>3, <1>4, <1>5, <1>6, <1>7, <1>8

(* The steps of consumers and publishers keep the types. *)
LEMMA TopologyType ==
    ASSUME TypeOK,
           \/ \E q \in Queues : Declare(q) \/ Consume(q) \/ ConsumerReturns(q)
           \/ \E m \in Messages : StartPublish(m) \/ PublishVanishes(m) \/ PublishRefused(m)
    PROVE  TypeOK'
<1>1. ASSUME NEW q \in Queues, Declare(q) PROVE TypeOK'
  <2>1. setup[q] + 1 \in 1..Len(SetUp(q)) /\ setup[q] + 1 \in Nat
    BY <1>1, SetUpSeq, LenProperties DEF TypeOK, Declare
  <2>2. SetUp(q)[setup[q] + 1] \in Entities
    BY <2>1, SetUpSeq, ElementOfSeq
  <2>3. setup' \in [Queues -> Nat] /\ declared' \subseteq Entities
    BY <1>1, <2>1, <2>2 DEF TypeOK, Declare
  <2>4. QED
    BY <1>1, <2>3 DEF TypeOK, Declare, processes, messages
<1>2. ASSUME NEW q \in Queues, Consume(q) PROVE TypeOK'
  BY <1>2 DEF TypeOK, Consume, processes, messages
<1>3. ASSUME NEW q \in Queues, ConsumerReturns(q) PROVE TypeOK'
  BY <1>3 DEF TypeOK, ConsumerReturns, processes, messages
<1>4. ASSUME NEW m \in Messages, StartPublish(m) PROVE TypeOK'
  <2>1. Route[m] \in Queues
    BY Deployment
  <2>2. DeclaredByPublisher(Route[m]) \in Entities
    BY <2>1 DEF DeclaredByPublisher, Entities
  <2>3. QED
    BY <1>4, <2>2 DEF TypeOK, StartPublish, processes
<1>5. ASSUME NEW m \in Messages, PublishVanishes(m) PROVE TypeOK'
  BY <1>5 DEF TypeOK, PublishVanishes, processes, topology
<1>6. ASSUME NEW m \in Messages, PublishRefused(m) PROVE TypeOK'
  BY <1>6 DEF TypeOK, PublishRefused, processes, topology
<1>7. QED
  BY <1>1, <1>2, <1>3, <1>4, <1>5, <1>6

(* The steps of messages keep the types. *)
LEMMA MessageType ==
    ASSUME TypeOK,
           \/ \E q \in Queues : Deliver(q) \/ Succeed(q) \/ Retry(q) \/ Exhaust(q) \/ Reject(q) \/ Ack(q)
           \/ \E m \in Messages : PublishArrives(m) \/ DlqExpires(m)
           \/ \E c \in Copies : DelayPasses(c)
    PROVE  TypeOK'
<1>0. ready \in [Copies -> Nat] /\ delayed \in [Copies -> Nat]
  BY DEF TypeOK
<1>1. ASSUME NEW q \in Queues, Deliver(q) PROVE TypeOK'
  <2>1. PICK c \in Copies :
             /\ ready[c] > 0 /\ ready' = Take(ready, c)
             /\ hand' = [hand EXCEPT ![q] = [stage |-> "run", copy |-> c]]
    BY <1>1 DEF Deliver
  <2>2. [stage |-> "run", copy |-> c] \in Deliveries
    BY DEF Deliveries
  <2>3. ready' \in [Copies -> Nat]
    BY <1>0, <2>1, Bag
  <2>4. QED
    BY <1>1, <2>1, <2>2, <2>3 DEF TypeOK, Deliver, processes, topology
<1>2. ASSUME NEW q \in Queues, Succeed(q) PROVE TypeOK'
  <2>1. hand' \in [Queues -> {NoDelivery} \cup Deliveries]
    BY <1>2, ToAck DEF Succeed
  <2>2. hand[q].copy.msg \in Messages
    BY <1>2, Hand DEF Succeed, Runs
  <2>3. QED
    BY <1>2, <2>1, <2>2 DEF TypeOK, Succeed, processes, topology
<1>3. ASSUME NEW q \in Queues, Retry(q) PROVE TypeOK'
  <2>1. hand' \in [Queues -> {NoDelivery} \cup Deliveries]
    BY <1>3, Republished DEF Retry
  <2>2. hand[q].copy \in Copies /\ hand[q].copy.msg \in Messages /\ Again(hand[q].copy) \in Copies
    BY <1>3, Hand, NextAttempt DEF Retry, Runs
  <2>3. failures' \in [Messages -> 0..MaxRetries + 1]
    BY <1>3, <2>2, Counted DEF Retry
  <2>4. delayed' \in [Copies -> Nat]
    BY <1>0, <1>3, <2>2, Bag DEF Retry
  <2>5. QED
    BY <1>3, <2>1, <2>3, <2>4 DEF TypeOK, Retry, processes, topology
<1>4. ASSUME NEW q \in Queues, Exhaust(q) PROVE TypeOK'
  <2>1. hand' \in [Queues -> {NoDelivery} \cup Deliveries]
    BY <1>4, Republished DEF Exhaust, DeadLetter
  <2>2. hand[q].copy.msg \in Messages
    BY <1>4, Hand DEF Exhaust, Runs
  <2>3. failures' \in [Messages -> 0..MaxRetries + 1]
    BY <1>4, <2>2, Counted DEF Exhaust
  <2>4. QED
    BY <1>4, <2>1, <2>2, <2>3 DEF TypeOK, Exhaust, DeadLetter, processes, topology
<1>5. ASSUME NEW q \in Queues, Reject(q) PROVE TypeOK'
  <2>1. hand' \in [Queues -> {NoDelivery} \cup Deliveries]
    BY <1>5, Republished DEF Reject, DeadLetter
  <2>2. hand[q].copy.msg \in Messages
    BY <1>5, Hand DEF Reject, Runs
  <2>3. QED
    BY <1>5, <2>1, <2>2 DEF TypeOK, Reject, DeadLetter, processes, topology
<1>6. ASSUME NEW q \in Queues, Ack(q) PROVE TypeOK'
  BY <1>6 DEF TypeOK, Ack, processes, topology
<1>7. ASSUME NEW m \in Messages, PublishArrives(m) PROVE TypeOK'
  <2>1. [msg |-> m, attempt |-> 0] \in Copies
    BY Deployment DEF Copies, Attempts
  <2>2. ready' \in [Copies -> Nat]
    BY <1>0, <1>7, <2>1, Bag DEF PublishArrives
  <2>3. fate' \in [Messages -> {"unsent", "sending", "unseen", "dropped", "arrived"}]
    BY <1>7 DEF TypeOK, PublishArrives
  <2>4. QED
    BY <1>7, <2>2, <2>3 DEF TypeOK, PublishArrives, processes, topology
<1>8. ASSUME NEW m \in Messages, DlqExpires(m) PROVE TypeOK'
  BY <1>8 DEF TypeOK, DlqExpires, processes, topology
<1>9. ASSUME NEW c \in Copies, DelayPasses(c) PROVE TypeOK'
  <2>1. ready' \in [Copies -> Nat] /\ delayed' \in [Copies -> Nat]
    BY <1>0, <1>9, Bag DEF DelayPasses
  <2>2. QED
    BY <1>9, <2>1 DEF TypeOK, DelayPasses, processes, topology
<1>10. QED
  BY <1>1, <1>2, <1>3, <1>4, <1>5, <1>6, <1>7, <1>8, <1>9

(* Every step keeps the types. *)
LEMMA StepType == TypeOK /\ [Next]_vars => TypeOK'
<1>1. ASSUME TypeOK, UNCHANGED vars PROVE TypeOK'
  BY <1>1 DEF TypeOK, vars, processes, topology, messages
<1>2. QED
  BY <1>1, ProcessType, TopologyType, MessageType DEF Next

--------------------------------------------------------------------------------
Topology == DeclaredInOrder /\ ConsumersRun

(* What a step may do to processes and declarations: nothing is undeclared, *)
(* and a consumer or a process that stays keeps what it did.                *)
LEMMA TopologyKept ==
    ASSUME TypeOK, TypeOK', Topology, declared \subseteq declared',
           \A q \in Queues : setup'[q] = setup[q] \/ setup'[q] = 0,
           consuming' \subseteq consuming, served' = served,
           \A q \in consuming' : Running(Consumer[q])'
    PROVE  Topology'
<1>1. DeclaredInOrder'
  <2>1. ASSUME NEW q \in Queues
        PROVE  setup'[q] <= Len(SetUp(q)) /\ \A i \in 1..setup'[q] : SetUp(q)[i] \in declared'
    <3>1. Len(SetUp(q)) \in Nat
      BY SetUpSeq, LenProperties
    <3>2. CASE setup'[q] = 0
      BY <3>1, <3>2
    <3>3. CASE setup'[q] = setup[q]
      BY <3>3 DEF Topology, DeclaredInOrder
    <3>4. QED
      BY <3>2, <3>3
  <2>2. \A q \in served' : \A i \in 1..Len(SetUp(q)) : SetUp(q)[i] \in declared'
    BY DEF Topology, DeclaredInOrder
  <2>3. consuming' \subseteq served'
    BY DEF Topology, DeclaredInOrder
  <2>4. QED
    BY <2>1, <2>2, <2>3 DEF DeclaredInOrder
<1>2. QED
  BY <1>1 DEF Topology, ConsumersRun

(* A process that is gone consumes nothing. *)
LEMMA DisappearTopology ==
    ASSUME TypeOK, TypeOK', Topology, NEW s \in Deployed, Disappear(s)
    PROVE  Topology'
<1>1. /\ declared' = declared /\ served' = served /\ consuming' \subseteq consuming
      /\ \A q \in Queues : setup'[q] = setup[q] \/ setup'[q] = 0
  BY DEF Disappear
<1>2. ASSUME NEW q \in consuming' PROVE Running(Consumer[q])'
  <2>1. q \in consuming /\ q \in Queues /\ Consumer[q] # s /\ Consumer[q] \in Deployed
    BY <1>2, Deployment DEF Disappear, TypeOK
  <2>2. process'[Consumer[q]] = process[Consumer[q]] /\ step'[Consumer[q]] = step[Consumer[q]]
    BY <2>1 DEF Disappear, TypeOK
  <2>3. Running(Consumer[q])
    BY <2>1 DEF Topology, ConsumersRun
  <2>4. QED
    BY <2>2, <2>3 DEF Running
<1>3. QED
  BY <1>1, <1>2, TopologyKept

(* Every step keeps the order of the declarations, and consumers in         *)
(* processes that run.                                                      *)
LEMMA StepTopology == TypeOK /\ Topology /\ [Next]_vars => Topology'
<1> SUFFICES ASSUME TypeOK, Topology, [Next]_vars PROVE Topology'
  OBVIOUS
<1>0. TypeOK'
  BY StepType
<1>1. ASSUME declared \subseteq declared', setup' = setup, consuming' \subseteq consuming, served' = served,
             process' = process, step' = step
      PROVE  Topology'
  <2>1. \A q \in consuming' : Running(Consumer[q])'
    BY <1>1 DEF Topology, ConsumersRun, Running
  <2>2. QED
    BY <1>0, <1>1, <2>1, TopologyKept
<1>2. ASSUME NEW s \in Deployed, Launch(s) \/ StartStep(s) \/ Stop(s) PROVE Topology'
  <2>1. ASSUME NEW q \in consuming PROVE Running(Consumer[q])'
    <3>1. q \in Queues /\ Consumer[q] \in Deployed /\ Running(Consumer[q])
      BY Deployment DEF TypeOK, Topology, ConsumersRun
    <3>2. CASE Launch(s)
      BY <3>1, <3>2 DEF Launch, Running, TypeOK
    <3>3. CASE StartStep(s)
      <4>1. Consumer[q] # s
        BY <3>1, <3>3 DEF StartStep, Starting, Running
      <4>2. QED
        BY <3>1, <3>3, <4>1 DEF StartStep, Running, TypeOK
    <3>4. CASE Stop(s)
      BY <3>1, <3>4 DEF Stop, Running, TypeOK
    <3>5. QED
      BY <1>2, <3>2, <3>3, <3>4
  <2>2. declared' = declared /\ setup' = setup /\ consuming' = consuming /\ served' = served
    BY <1>2 DEF Launch, StartStep, Stop, topology
  <2>3. QED
    BY <1>0, <2>1, <2>2, TopologyKept
<1>3. ASSUME NEW s \in Deployed, Fatal(s) \/ Crash(s) \/ Exit(s) PROVE Topology'
  BY <1>0, <1>3, DisappearTopology DEF Fatal, Crash, Exit
<1>4. ASSUME NEW s \in Deployed, LinkBreaks(s) \/ Notice(s) PROVE Topology'
  BY <1>1, <1>4 DEF LinkBreaks, Notice, topology
<1>5. CASE BrokerStops \/ BrokerStarts
  BY <1>1, <1>5 DEF BrokerStops, BrokerStarts, Transient, topology
<1>6. ASSUME NEW q \in Queues, Declare(q) PROVE Topology'
  <2>1. setup[q] \in Nat /\ setup[q] < Len(SetUp(q)) /\ Len(SetUp(q)) \in Nat
    BY <1>6, SetUpSeq, LenProperties DEF TypeOK, Declare
  <2>2. /\ setup'[q] = setup[q] + 1 /\ \A p \in Queues : p # q => setup'[p] = setup[p]
        /\ declared' = declared \cup {SetUp(q)[setup[q] + 1]}
        /\ consuming' = consuming /\ served' = served /\ process' = process /\ step' = step
    BY <1>6 DEF TypeOK, Declare, processes
  <2>3. ASSUME NEW p \in Queues
        PROVE  setup'[p] <= Len(SetUp(p)) /\ \A i \in 1..setup'[p] : SetUp(p)[i] \in declared'
    <3>1. CASE p = q
      <4>1. setup'[q] <= Len(SetUp(q))
        BY <2>1, <2>2
      <4>2. ASSUME NEW i \in 1..setup'[q] PROVE SetUp(q)[i] \in declared'
        <5>1. i \in 1..setup[q] \/ i = setup[q] + 1
          BY <2>1, <2>2
        <5>2. QED
          BY <2>2, <5>1 DEF Topology, DeclaredInOrder
      <4>3. QED
        BY <3>1, <4>1, <4>2
    <3>2. CASE p # q
      BY <2>2, <3>2 DEF Topology, DeclaredInOrder
    <3>3. QED
      BY <3>1, <3>2
  <2>4. DeclaredInOrder'
    BY <2>2, <2>3 DEF Topology, DeclaredInOrder
  <2>5. ConsumersRun'
    BY <2>2 DEF Topology, ConsumersRun, Running
  <2>6. QED
    BY <2>4, <2>5 DEF Topology
<1>7. ASSUME NEW q \in Queues, Consume(q) PROVE Topology'
  <2>1. /\ setup[q] = Len(SetUp(q)) /\ Running(Consumer[q])
        /\ consuming' = consuming \cup {q} /\ served' = served \cup {q}
        /\ declared' = declared /\ setup' = setup /\ process' = process /\ step' = step
    BY <1>7 DEF Consume, processes
  <2>2. \A i \in 1..Len(SetUp(q)) : SetUp(q)[i] \in declared
    BY <2>1 DEF Topology, DeclaredInOrder
  <2>3. DeclaredInOrder'
    BY <2>1, <2>2 DEF Topology, DeclaredInOrder
  <2>4. ConsumersRun'
    BY <2>1 DEF Topology, ConsumersRun, Running
  <2>5. QED
    BY <2>3, <2>4 DEF Topology
<1>8. ASSUME NEW q \in Queues, ConsumerReturns(q) PROVE Topology'
  BY <1>1, <1>8 DEF ConsumerReturns, processes
<1>9. ASSUME NEW q \in Queues,
             Deliver(q) \/ Succeed(q) \/ Retry(q) \/ Exhaust(q) \/ Reject(q) \/ Ack(q)
      PROVE  Topology'
  BY <1>1, <1>9 DEF Deliver, Succeed, Retry, Exhaust, Reject, Ack, DeadLetter, processes, topology
<1>10. ASSUME NEW m \in Messages,
              \/ StartPublish(m) \/ PublishArrives(m) \/ PublishVanishes(m) \/ PublishRefused(m)
              \/ DlqExpires(m)
       PROVE  Topology'
  BY <1>1, <1>10 DEF StartPublish, PublishArrives, PublishVanishes, PublishRefused, DlqExpires,
                     processes, topology
<1>11. ASSUME NEW c \in Copies, DelayPasses(c) PROVE Topology'
  BY <1>1, <1>11 DEF DelayPasses, processes, topology
<1>12. CASE UNCHANGED vars
  BY <1>1, <1>12 DEF vars, processes, topology
<1>13. QED
  BY <1>2, <1>3, <1>4, <1>5, <1>6, <1>7, <1>8, <1>9, <1>10, <1>11, <1>12 DEF Next

--------------------------------------------------------------------------------
MessagesKept ==
    /\ HandsAreConsumers /\ AckedIsKept /\ AttemptsAreFailures
    /\ NothingVanishes /\ DeadAfterEveryAttempt

Waiting(c) == ready[c] > 0 \/ delayed[c] > 0

(* A copy the broker has not seen acked is in the hand of its queue. *)
LEMMA UnackedIsHeld ==
    ASSUME TypeOK, NEW c \in Copies, Unacked(c)
    PROVE  /\ Route[c.msg] \in Queues /\ hand[Route[c.msg]] # NoDelivery
           /\ hand[Route[c.msg]].copy = c /\ link[Consumer[Route[c.msg]]] = "open"
<1>1. c.msg \in Messages
  BY DEF Copies
<1>2. Route[c.msg] \in Queues
  BY <1>1, Deployment
<1>3. QED
  BY <1>2, Hand DEF Unacked, Holds

(* Nothing is handled, acked or moved; at most, connections break, and the  *)
(* broker puts back what it had not seen acked.                             *)
LEMMA Requeued ==
    ASSUME TypeOK, TypeOK', MessagesKept,
           \A c \in Copies : ready[c] > 0 => ready'[c] > 0,
           \A c \in Copies : ready'[c] > 0 => ready[c] > 0 \/ Unacked(c),
           \A c \in Copies : Unacked(c) => Unacked(c)' \/ ready'[c] > 0,
           delayed' = delayed, dead' = dead, handled' = handled, failures' = failures,
           expired' = expired,
           \A m \in Messages : fate'[m] = "arrived" => fate[m] = "arrived",
           \A q \in Queues : hand'[q] = hand[q] \/ hand'[q] = NoDelivery,
           \A q \in Queues : hand'[q] # NoDelivery =>
               q \in consuming' /\ (link'[Consumer[q]] = "open" => link[Consumer[q]] = "open")
    PROVE  MessagesKept'
<1>0. \A q \in Queues : hand[q].stage # "none" => hand[q] # NoDelivery
  BY Hand
<1>1. HandsAreConsumers'
  BY DEF MessagesKept, HandsAreConsumers
<1>2. AckedIsKept'
  <2> SUFFICES ASSUME NEW q \in Queues, hand'[q].stage = "ack", link'[Consumer[q]] = "open"
               PROVE  LET m == hand'[q].copy.msg
                      IN  \/ m \in handled \cup expired \cup dead
                          \/ \E c \in Copies : c.msg = m /\ (ready'[c] > 0 \/ delayed[c] > 0)
    BY DEF AckedIsKept
  <2>1. hand'[q] # NoDelivery
    BY DEF NoDelivery
  <2>2. hand[q].stage = "ack" /\ link[Consumer[q]] = "open" /\ hand'[q].copy = hand[q].copy
    BY <2>1
  <2>3. QED
    BY <2>2 DEF MessagesKept, AckedIsKept
<1>3. AttemptsAreFailures'
  <2> SUFFICES ASSUME NEW c \in Copies,
                      ready'[c] > 0 \/ delayed[c] > 0 \/ Holds(Route[c.msg], c)'
               PROVE  c.attempt <= failures[c.msg]
    BY DEF AttemptsAreFailures
  <2>1. Route[c.msg] \in Queues
    BY Deployment DEF Copies
  <2>2. Holds(Route[c.msg], c)' => Holds(Route[c.msg], c)
    BY <2>1 DEF Holds, NoDelivery
  <2>3. Unacked(c) => Holds(Route[c.msg], c)
    BY DEF Unacked
  <2>4. QED
    BY <2>2, <2>3 DEF MessagesKept, AttemptsAreFailures
<1>4. NothingVanishes'
  <2> SUFFICES ASSUME NEW m \in Messages, fate[m] = "arrived", m \notin handled \cup expired
               PROVE  Kept(m)'
    BY DEF NothingVanishes
  <2>1. Kept(m)
    BY DEF MessagesKept, NothingVanishes
  <2>2. QED
    BY <2>1 DEF Kept
<1>5. DeadAfterEveryAttempt'
  BY DEF MessagesKept, DeadAfterEveryAttempt
<1>6. QED
  BY <1>1, <1>2, <1>3, <1>4, <1>5 DEF MessagesKept

(* The same when no message moves at all. *)
LEMMA NothingMoves ==
    ASSUME TypeOK, TypeOK', MessagesKept,
           ready' = ready, delayed' = delayed, hand' = hand, dead' = dead, handled' = handled,
           failures' = failures, expired' = expired,
           \A m \in Messages : fate'[m] = "arrived" => fate[m] = "arrived",
           consuming \subseteq consuming',
           \A q \in consuming : link'[Consumer[q]] = "open" <=> link[Consumer[q]] = "open"
    PROVE  MessagesKept'
<1>1. \A q \in Queues : hand[q] # NoDelivery => q \in consuming
  BY DEF MessagesKept, HandsAreConsumers
<1>2. ASSUME NEW c \in Copies, Unacked(c) PROVE Unacked(c)'
  <2>1. Route[c.msg] \in consuming
    BY <1>1, <1>2, UnackedIsHeld
  <2>2. QED
    BY <1>2, <2>1 DEF Unacked, Holds
<1>3. QED
  BY <1>1, <1>2, Requeued

(* A process that is gone had its copies put back. *)
LEMMA DisappearMessages ==
    ASSUME TypeOK, TypeOK', MessagesKept, NEW s \in Deployed, Disappear(s)
    PROVE  MessagesKept'
<1>1. /\ delayed' = delayed /\ dead' = dead /\ handled' = handled /\ failures' = failures
      /\ expired' = expired
      /\ \A m \in Messages : fate'[m] = "arrived" => fate[m] = "arrived"
  BY DEF Disappear
<1>2. \A c \in Copies : ready[c] \in Nat
      /\ ready'[c] = IF Consumer[Route[c.msg]] = s /\ Unacked(c) THEN ready[c] + 1 ELSE ready[c]
  BY DEF Disappear, TypeOK
<1>3. \A q \in Queues : hand'[q] = IF Consumer[q] = s THEN NoDelivery ELSE hand[q]
  BY DEF Disappear
<1>4. \A t \in Deployed : t # s => link'[t] = link[t]
  BY DEF Disappear, TypeOK
<1>5. ASSUME NEW q \in Queues, hand'[q] # NoDelivery
      PROVE  q \in consuming' /\ (link'[Consumer[q]] = "open" => link[Consumer[q]] = "open")
  <2>1. Consumer[q] # s /\ hand[q] # NoDelivery /\ Consumer[q] \in Deployed
    BY <1>3, <1>5, Deployment
  <2>2. q \in consuming
    BY <2>1 DEF MessagesKept, HandsAreConsumers
  <2>3. QED
    BY <1>4, <2>1, <2>2 DEF Disappear
<1>6. ASSUME NEW c \in Copies, Unacked(c) PROVE Unacked(c)' \/ ready'[c] > 0
  <2>1. Route[c.msg] \in Queues /\ Consumer[Route[c.msg]] \in Deployed
    BY <1>6, UnackedIsHeld, Deployment
  <2>2. CASE Consumer[Route[c.msg]] = s
    BY <1>2, <1>6, <2>2
  <2>3. CASE Consumer[Route[c.msg]] # s
    BY <1>3, <1>4, <1>6, <2>1, <2>3 DEF Unacked, Holds
  <2>4. QED
    BY <2>2, <2>3
<1>7. \A c \in Copies : (ready[c] > 0 => ready'[c] > 0)
                     /\ (ready'[c] > 0 => ready[c] > 0 \/ Unacked(c))
  BY <1>2
<1>8. QED
  BY <1>1, <1>3, <1>5, <1>6, <1>7, Requeued

(* Connections that break, with or without the broker. *)
LEMMA BreakMessages ==
    ASSUME TypeOK, TypeOK', MessagesKept, (\E s \in Deployed : LinkBreaks(s)) \/ BrokerStops
    PROVE  MessagesKept'
<1>1. /\ delayed' = delayed /\ dead' = dead /\ handled' = handled /\ failures' = failures
      /\ expired' = expired /\ fate' = fate /\ hand' = hand /\ consuming' = consuming
      /\ \A t \in Deployed : link'[t] = "open" => link[t] = "open"
  <2>1. ASSUME NEW s \in Deployed, LinkBreaks(s)
        PROVE  \A t \in Deployed : link'[t] = "open" => link[t] = "open"
    BY <2>1 DEF LinkBreaks, TypeOK
  <2>2. ASSUME BrokerStops PROVE delayed' = delayed
    <3>1. delayed' = [c \in Copies |-> delayed[c]]
      BY <2>2 DEF BrokerStops, Transient
    <3>2. QED
      BY <3>1 DEF TypeOK
  <2>3. ASSUME BrokerStops PROVE \A t \in Deployed : link'[t] = "open" => link[t] = "open"
    BY <2>3 DEF BrokerStops
  <2>4. QED
    BY <2>1, <2>2, <2>3 DEF LinkBreaks, BrokerStops, topology
<1>2. ASSUME NEW c \in Copies
      PROVE  /\ ready[c] > 0 => ready'[c] > 0
             /\ ready'[c] > 0 => ready[c] > 0 \/ Unacked(c)
             /\ Unacked(c) => Unacked(c)' \/ ready'[c] > 0
  <2>0. ready[c] \in Nat /\ (Unacked(c) => Consumer[Route[c.msg]] \in Deployed)
    BY UnackedIsHeld, Deployment DEF TypeOK
  <2>1. CASE BrokerStops
    <3>1. ready'[c] = IF Unacked(c) THEN ready[c] + 1 ELSE ready[c]
      BY <2>1 DEF BrokerStops, Transient
    <3>2. QED
      BY <2>0, <3>1
  <2>2. ASSUME NEW s \in Deployed, LinkBreaks(s)
        PROVE  /\ ready[c] > 0 => ready'[c] > 0
               /\ ready'[c] > 0 => ready[c] > 0 \/ Unacked(c)
               /\ Unacked(c) => Unacked(c)' \/ ready'[c] > 0
    <3>1. ready'[c] = IF Consumer[Route[c.msg]] = s /\ Unacked(c) THEN ready[c] + 1 ELSE ready[c]
      BY <2>2 DEF LinkBreaks
    <3>2. ASSUME Unacked(c), Consumer[Route[c.msg]] # s PROVE Unacked(c)'
      <4>1. link'[Consumer[Route[c.msg]]] = link[Consumer[Route[c.msg]]]
        BY <2>0, <2>2, <3>2 DEF LinkBreaks, TypeOK
      <4>2. QED
        BY <1>1, <3>2, <4>1 DEF Unacked, Holds
    <3>3. QED
      BY <2>0, <3>1, <3>2
  <2>3. QED
    BY <2>1, <2>2
<1>3. \A q \in Queues : hand'[q] # NoDelivery =>
          q \in consuming' /\ (link'[Consumer[q]] = "open" => link[Consumer[q]] = "open")
  BY <1>1, Deployment DEF MessagesKept, HandsAreConsumers
<1>4. QED
  BY <1>1, <1>2, <1>3, Requeued

(* The other steps of processes, consumers and publishers. *)
LEMMA QuietMessages ==
    ASSUME TypeOK, TypeOK', Topology, MessagesKept,
           \/ \E s \in Deployed : Launch(s) \/ StartStep(s) \/ Stop(s) \/ Notice(s)
           \/ BrokerStarts
           \/ \E q \in Queues : Declare(q) \/ Consume(q) \/ ConsumerReturns(q)
           \/ \E m \in Messages : StartPublish(m) \/ PublishVanishes(m) \/ PublishRefused(m)
           \/ UNCHANGED vars
    PROVE  MessagesKept'
<1> USE DEF processes, topology, messages
<1>1. ASSUME NEW s \in Deployed, Launch(s) \/ Stop(s) PROVE MessagesKept'
  BY <1>1, NothingMoves DEF Launch, Stop
<1>2. ASSUME NEW s \in Deployed, StartStep(s) PROVE MessagesKept'
  <2>1. ASSUME NEW q \in consuming PROVE link'[Consumer[q]] = link[Consumer[q]]
    <3>1. q \in Queues /\ Consumer[q] \in Deployed /\ Running(Consumer[q])
      BY Deployment DEF TypeOK, Topology, ConsumersRun
    <3>2. Consumer[q] # s
      BY <1>2, <3>1 DEF StartStep, Starting, Running
    <3>3. QED
      BY <1>2, <3>1, <3>2 DEF StartStep, TypeOK
  <2>2. QED
    BY <1>2, <2>1, NothingMoves DEF StartStep
<1>3. ASSUME NEW s \in Deployed, Notice(s) PROVE MessagesKept'
  <2>1. ASSUME NEW q \in consuming
        PROVE  link'[Consumer[q]] = "open" <=> link[Consumer[q]] = "open"
    <3>1. Consumer[q] \in Deployed
      BY Deployment DEF TypeOK
    <3>2. QED
      BY <1>3, <3>1 DEF Notice, TypeOK
  <2>2. QED
    BY <1>3, <2>1, NothingMoves DEF Notice
<1>4. CASE BrokerStarts
  BY <1>4, NothingMoves DEF BrokerStarts
<1>5. ASSUME NEW q \in Queues, Declare(q) \/ Consume(q) \/ ConsumerReturns(q) PROVE MessagesKept'
  BY <1>5, NothingMoves DEF Declare, Consume, ConsumerReturns
<1>6. ASSUME NEW m \in Messages, StartPublish(m) \/ PublishVanishes(m) \/ PublishRefused(m)
      PROVE  MessagesKept'
  <2>1. \A n \in Messages : fate'[n] = "arrived" => fate[n] = "arrived"
    BY <1>6 DEF StartPublish, PublishVanishes, PublishRefused, TypeOK
  <2>2. QED
    BY <1>6, <2>1, NothingMoves DEF StartPublish, PublishVanishes, PublishRefused
<1>7. CASE UNCHANGED vars
  BY <1>7, NothingMoves DEF vars
<1>8. QED
  BY <1>1, <1>2, <1>3, <1>4, <1>5, <1>6, <1>7

(* A copy goes from its queue into an empty hand. *)
LEMMA DeliverMessages ==
    ASSUME TypeOK, TypeOK', MessagesKept, NEW q \in Queues, Deliver(q)
    PROVE  MessagesKept'
<1>1. PICK c \in Copies :
           /\ Route[c.msg] = q /\ ready[c] > 0 /\ ready' = Take(ready, c)
           /\ hand' = [hand EXCEPT ![q] = [stage |-> "run", copy |-> c]]
  BY DEF Deliver
<1>2. /\ q \in consuming /\ link[Consumer[q]] = "open" /\ hand[q] = NoDelivery
      /\ link' = link /\ consuming' = consuming /\ delayed' = delayed /\ dead' = dead
      /\ fate' = fate /\ handled' = handled /\ failures' = failures /\ expired' = expired
  BY DEF Deliver, processes, topology
<1>3. /\ hand'[q] = [stage |-> "run", copy |-> c]
      /\ \A p \in Queues : p # q => hand'[p] = hand[p]
  BY <1>1 DEF TypeOK
<1>4. \A d \in Copies : ready[d] \in Nat /\ (d # c => ready'[d] = ready[d])
      /\ (ready'[d] > 0 => ready[d] > 0)
  <2>1. ready \in [Copies -> Nat]
    BY DEF TypeOK
  <2>2. ready'[c] = ready[c] - 1 /\ \A d \in Copies : d # c => ready'[d] = ready[d]
    BY <1>1, <2>1, Bag
  <2>3. QED
    BY <1>1, <2>1, <2>2
<1>5. HandsAreConsumers'
  BY <1>1, <1>2, <1>3 DEF MessagesKept, HandsAreConsumers
<1>6. AckedIsKept'
  <2> SUFFICES ASSUME NEW p \in Queues, hand'[p].stage = "ack", link[Consumer[p]] = "open",
                      hand'[p].copy.msg \notin handled \cup expired \cup dead
               PROVE  \E d \in Copies : d.msg = hand'[p].copy.msg
                                        /\ (ready'[d] > 0 \/ delayed[d] > 0)
    BY <1>2 DEF AckedIsKept
  <2>1. p # q /\ hand'[p] = hand[p] /\ hand[p] # NoDelivery
    BY <1>3 DEF NoDelivery
  <2>2. Route[hand[p].copy.msg] = p
    BY <2>1 DEF MessagesKept, HandsAreConsumers
  <2>3. PICK d \in Copies : d.msg = hand[p].copy.msg /\ (ready[d] > 0 \/ delayed[d] > 0)
    BY <2>1 DEF MessagesKept, AckedIsKept
  <2>4. d # c
    BY <1>1, <2>1, <2>2, <2>3
  <2>5. QED
    BY <1>4, <2>1, <2>3, <2>4
<1>7. AttemptsAreFailures'
  <2> SUFFICES ASSUME NEW d \in Copies,
                      ready'[d] > 0 \/ delayed[d] > 0 \/ Holds(Route[d.msg], d)'
               PROVE  d.attempt <= failures[d.msg]
    BY <1>2 DEF AttemptsAreFailures
  <2>1. Route[d.msg] \in Queues
    BY Deployment DEF Copies
  <2>2. CASE Route[d.msg] = q
    BY <1>1, <1>3, <1>4, <2>2 DEF MessagesKept, AttemptsAreFailures, Holds
  <2>3. CASE Route[d.msg] # q
    BY <1>3, <1>4, <2>1, <2>3 DEF MessagesKept, AttemptsAreFailures, Holds
  <2>4. QED
    BY <2>2, <2>3
<1>8. NothingVanishes'
  <2> SUFFICES ASSUME NEW m \in Messages, fate[m] = "arrived", m \notin handled \cup expired
               PROVE  Kept(m)'
    BY <1>2 DEF NothingVanishes
  <2>1. Kept(m)
    BY DEF MessagesKept, NothingVanishes
  <2>2. Unacked(c)'
    BY <1>1, <1>2, <1>3 DEF Unacked, Holds
  <2>3. ASSUME NEW d \in Copies, Unacked(d) PROVE Unacked(d)'
    <3>1. Route[d.msg] # q /\ Route[d.msg] \in Queues
      BY <1>2, <2>3, UnackedIsHeld
    <3>2. QED
      BY <1>2, <1>3, <2>3, <3>1 DEF Unacked, Holds
  <2>4. QED
    BY <1>2, <1>4, <2>1, <2>2, <2>3 DEF Kept
<1>9. DeadAfterEveryAttempt'
  BY <1>2 DEF MessagesKept, DeadAfterEveryAttempt
<1>10. QED
  BY <1>5, <1>6, <1>7, <1>8, <1>9 DEF MessagesKept

(* A handler's outcome: the message is somewhere else before its copy may   *)
(* be acked.                                                                *)
LEMMA OutcomeKeeps ==
    ASSUME TypeOK, TypeOK', MessagesKept, NEW q \in Queues, Runs(q),
           ready' = ready, fate' = fate, link' = link, consuming' = consuming, expired' = expired,
           \A p \in Queues : p # q => hand'[p] = hand[p],
           \/ link[Consumer[q]] = "closed" /\ hand'[q] = NoDelivery
           \/ hand'[q].stage = "ack" /\ hand'[q].copy = hand[q].copy,
           \A d \in Copies : delayed[d] > 0 => delayed'[d] > 0,
           \A d \in Copies : delayed'[d] > 0 =>
               delayed[d] > 0 \/ d.attempt <= failures'[d.msg],
           dead \subseteq dead', handled \subseteq handled',
           \A m \in Messages : failures[m] <= failures'[m],
           \A m \in (dead' \cup expired) \ Malformed : failures'[m] = MaxRetries + 1,
           link[Consumer[q]] = "open" =>
               \/ hand[q].copy.msg \in handled' \cup dead'
               \/ \E d \in Copies : d.msg = hand[q].copy.msg /\ delayed'[d] > 0
    PROVE  MessagesKept'
<1> DEFINE c == hand[q].copy
<1>1. c \in Copies /\ hand[q] # NoDelivery /\ hand[q].stage = "run"
  BY Hand DEF Runs
<1>2. q \in consuming /\ Route[c.msg] = q
  BY <1>1 DEF MessagesKept, HandsAreConsumers
<1> HIDE DEF c
<1>3. HandsAreConsumers'
  <2> SUFFICES ASSUME NEW p \in Queues, hand'[p] # NoDelivery
               PROVE  p \in consuming /\ Route[hand'[p].copy.msg] = p
    BY DEF HandsAreConsumers
  <2>1. CASE p = q
    BY <1>2, <2>1 DEF c
  <2>2. CASE p # q
    BY <2>2 DEF MessagesKept, HandsAreConsumers
  <2>3. QED
    BY <2>1, <2>2
<1>4. AckedIsKept'
  <2> SUFFICES ASSUME NEW p \in Queues, hand'[p].stage = "ack", link[Consumer[p]] = "open"
               PROVE  \/ hand'[p].copy.msg \in handled' \cup expired \cup dead'
                      \/ \E d \in Copies : d.msg = hand'[p].copy.msg
                                           /\ (ready[d] > 0 \/ delayed'[d] > 0)
    BY DEF AckedIsKept
  <2>1. CASE p = q
    BY <2>1
  <2>2. CASE p # q
    <3>1. hand'[p] = hand[p]
      BY <2>2
    <3>2. \/ hand[p].copy.msg \in handled \cup expired \cup dead
          \/ \E d \in Copies : d.msg = hand[p].copy.msg /\ (ready[d] > 0 \/ delayed[d] > 0)
      BY <3>1 DEF MessagesKept, AckedIsKept
    <3>3. QED
      BY <3>1, <3>2
  <2>3. QED
    BY <2>1, <2>2
<1>5. AttemptsAreFailures'
  <2> SUFFICES ASSUME NEW d \in Copies,
                      ready[d] > 0 \/ delayed'[d] > 0 \/ Holds(Route[d.msg], d)'
               PROVE  d.attempt <= failures'[d.msg]
    BY DEF AttemptsAreFailures
  <2>1. d.msg \in Messages /\ d.attempt \in Nat /\ Route[d.msg] \in Queues
    BY Deployment DEF Copies, Attempts
  <2>2. failures[d.msg] \in Nat /\ failures'[d.msg] \in Nat /\ failures[d.msg] <= failures'[d.msg]
    BY <2>1 DEF TypeOK
  <2>3. Holds(Route[d.msg], d)' => Holds(Route[d.msg], d)
    <3>1. CASE Route[d.msg] = q
      BY <1>1, <3>1 DEF Holds, NoDelivery
    <3>2. CASE Route[d.msg] # q
      BY <2>1, <3>2 DEF Holds
    <3>3. QED
      BY <3>1, <3>2
  <2>4. CASE ready[d] > 0 \/ delayed[d] > 0 \/ Holds(Route[d.msg], d)
    <3>1. d.attempt <= failures[d.msg]
      BY <2>4 DEF MessagesKept, AttemptsAreFailures
    <3>2. QED
      BY <2>1, <2>2, <3>1
  <2>5. QED
    BY <2>3, <2>4
<1>6. NothingVanishes'
  <2> SUFFICES ASSUME NEW m \in Messages, fate[m] = "arrived", m \notin handled' \cup expired
               PROVE  Kept(m)'
    BY DEF NothingVanishes
  <2>1. Kept(m)
    BY DEF MessagesKept, NothingVanishes
  <2>2. ASSUME NEW d \in Copies, Unacked(d) PROVE Unacked(d)'
    <3>1. Route[d.msg] \in Queues /\ hand[Route[d.msg]].copy = d
          /\ link[Consumer[Route[d.msg]]] = "open"
      BY <2>2, UnackedIsHeld
    <3>2. CASE Route[d.msg] = q
      BY <3>1, <3>2 DEF Unacked, Holds
    <3>3. CASE Route[d.msg] # q
      BY <2>2, <3>1, <3>3 DEF Unacked, Holds
    <3>4. QED
      BY <3>2, <3>3
  <2>3. QED
    BY <2>1, <2>2 DEF Kept
<1>7. DeadAfterEveryAttempt'
  BY DEF DeadAfterEveryAttempt
<1>8. QED
  BY <1>3, <1>4, <1>5, <1>6, <1>7 DEF MessagesKept

(* A handler that succeeds. *)
LEMMA SucceedMessages ==
    ASSUME TypeOK, TypeOK', MessagesKept, NEW q \in Queues, Succeed(q)
    PROVE  MessagesKept'
<1>1. /\ Runs(q) /\ hand' = [hand EXCEPT ![q].stage = "ack"]
      /\ handled' = handled \cup {hand[q].copy.msg}
      /\ ready' = ready /\ fate' = fate /\ link' = link /\ consuming' = consuming
      /\ expired' = expired /\ delayed' = delayed /\ dead' = dead /\ failures' = failures
  BY DEF Succeed, processes, topology
<1>2. /\ hand'[q].stage = "ack" /\ hand'[q].copy = hand[q].copy
      /\ \A p \in Queues : p # q => hand'[p] = hand[p]
  BY <1>1, ToAck
<1>3. \A m \in Messages : failures[m] <= failures'[m]
  BY <1>1, Deployment DEF TypeOK
<1>4. \A m \in (dead' \cup expired) \ Malformed : failures'[m] = MaxRetries + 1
  BY <1>1 DEF MessagesKept, DeadAfterEveryAttempt
<1>5. QED
  BY <1>1, <1>2, <1>3, <1>4, OutcomeKeeps

(* A failure with attempts left: the copy is in a delay queue before its    *)
(* ack, because the delay queue was declared before the queue was consumed. *)
LEMMA RetryMessages ==
    ASSUME TypeOK, TypeOK', Topology, MessagesKept, NEW q \in Queues, Retry(q)
    PROVE  MessagesKept'
<1> DEFINE c == hand[q].copy
<1>0. MaxRetries \in Nat /\ delayed \in [Copies -> Nat]
      /\ failures \in [Messages -> 0..MaxRetries + 1]
  BY Deployment DEF TypeOK
<1>1. /\ Runs(q) /\ ~Exhausted(c) /\ CountFailure(c.msg) /\ AfterRepublish(q)
      /\ delayed' = IF Unacked(c) /\ Delay(q, c.attempt + 1) \in declared
                    THEN Put(delayed, Again(c)) ELSE delayed
      /\ ready' = ready /\ fate' = fate /\ link' = link /\ consuming' = consuming
      /\ expired' = expired /\ dead' = dead /\ handled' = handled
  BY DEF Retry, processes, topology
<1>2. c \in Copies /\ c.msg \in Messages /\ c.attempt \in Attempts /\ hand[q] # NoDelivery
  BY <1>1, Hand DEF Runs
<1>3. q \in consuming /\ Route[c.msg] = q
  BY <1>2 DEF MessagesKept, HandsAreConsumers
<1>4. /\ \A p \in Queues : p # q => hand'[p] = hand[p]
      /\ \/ link[Consumer[q]] = "closed" /\ hand'[q] = NoDelivery
         \/ hand'[q].stage = "ack" /\ hand'[q].copy = c
  BY <1>1, Republished
<1>5. c.attempt <= failures[c.msg]
  <2>1. Holds(Route[c.msg], c)
    BY <1>1, <1>3 DEF Holds, Runs
  <2>2. QED
    BY <1>2, <2>1 DEF MessagesKept, AttemptsAreFailures
<1>6. /\ Again(c) \in Copies /\ Again(c).msg = c.msg
      /\ Again(c).attempt = c.attempt + 1 /\ Again(c).attempt \in 1..MaxRetries
  BY <1>1, <1>2, NextAttempt
<1>7. Delay(q, c.attempt + 1) \in declared
  BY <1>3, <1>6, ServedIsDeclared DEF Topology, DeclaredInOrder
<1>8. link[Consumer[q]] = "open" => Unacked(c)
  BY <1>1, <1>3 DEF Unacked, Holds, Runs
<1> HIDE DEF c
<1>9. /\ failures'[c.msg] = IF failures[c.msg] > MaxRetries THEN MaxRetries + 1
                            ELSE failures[c.msg] + 1
      /\ \A m \in Messages : m # c.msg => failures'[m] = failures[m]
  BY <1>1, <1>2, Counted
<1>10. Again(c).attempt <= failures'[c.msg]
  <2>1. c.attempt \in Nat /\ failures[c.msg] \in Nat /\ c.attempt + 1 <= MaxRetries
    BY <1>0, <1>2, <1>6 DEF Attempts
  <2>2. QED
    BY <1>0, <1>5, <1>6, <1>9, <2>1
<1>11. ASSUME NEW m \in Messages PROVE failures[m] <= failures'[m]
  <2>1. failures[m] \in 0..MaxRetries + 1
    BY <1>0
  <2>2. CASE m = c.msg
    BY <1>0, <1>9, <2>1, <2>2
  <2>3. CASE m # c.msg
    BY <1>0, <1>9, <2>1, <2>3
  <2>4. QED
    BY <2>2, <2>3
<1>12. ASSUME NEW m \in (dead' \cup expired) \ Malformed PROVE failures'[m] = MaxRetries + 1
  <2>1. m \in Messages /\ failures[m] = MaxRetries + 1
    BY <1>1 DEF MessagesKept, DeadAfterEveryAttempt, TypeOK
  <2>2. QED
    BY <1>0, <1>9, <2>1
<1>13. /\ \A d \in Copies : delayed[d] > 0 => delayed'[d] > 0
       /\ \A d \in Copies : delayed'[d] > 0 => delayed[d] > 0 \/ d = Again(c)
       /\ Unacked(c) => delayed'[Again(c)] > 0
  <2>1. CASE Unacked(c)
    <3>1. delayed' = Put(delayed, Again(c))
      BY <1>1, <1>7, <2>1
    <3>2. /\ delayed'[Again(c)] = delayed[Again(c)] + 1 /\ delayed[Again(c)] \in Nat
          /\ \A d \in Copies : d # Again(c) => delayed'[d] = delayed[d]
      BY <1>0, <1>6, <3>1, Bag
    <3>3. QED
      BY <3>2
  <2>2. CASE ~Unacked(c)
    BY <1>1, <2>2
  <2>3. QED
    BY <2>1, <2>2
<1>14. link[Consumer[q]] = "open" =>
           \E d \in Copies : d.msg = c.msg /\ delayed'[d] > 0
  BY <1>6, <1>8, <1>13
<1>15. \A d \in Copies : delayed'[d] > 0 => delayed[d] > 0 \/ d.attempt <= failures'[d.msg]
  BY <1>6, <1>10, <1>13
<1>16. QED
  BY <1>1, <1>4, <1>11, <1>12, <1>13, <1>14, <1>15, OutcomeKeeps DEF c

(* A failure that was the last, or a body that does not unmarshal: the      *)
(* message is in the .dlq before its ack.                                   *)
LEMMA DeadMessages ==
    ASSUME TypeOK, TypeOK', Topology, MessagesKept, NEW q \in Queues, Exhaust(q) \/ Reject(q)
    PROVE  MessagesKept'
<1> DEFINE c == hand[q].copy
<1>0. MaxRetries \in Nat /\ failures \in [Messages -> 0..MaxRetries + 1]
  BY Deployment DEF TypeOK
<1>1. /\ Runs(q) /\ DeadLetter(q)
      /\ \/ Exhausted(c) /\ CountFailure(c.msg)
         \/ failures' = failures /\ c.msg \in Malformed
  BY DEF Exhaust, Reject
<1>2. /\ AfterRepublish(q)
      /\ dead' = IF Unacked(c) /\ Dlq(q) \in declared THEN dead \cup {c.msg} ELSE dead
      /\ ready' = ready /\ fate' = fate /\ link' = link /\ consuming' = consuming
      /\ expired' = expired /\ delayed' = delayed /\ handled' = handled
  BY <1>1 DEF DeadLetter, processes, topology
<1>3. c \in Copies /\ c.msg \in Messages /\ c.attempt \in Attempts /\ hand[q] # NoDelivery
  BY <1>1, Hand DEF Runs
<1>4. q \in consuming /\ Route[c.msg] = q
  BY <1>3 DEF MessagesKept, HandsAreConsumers
<1>5. /\ \A p \in Queues : p # q => hand'[p] = hand[p]
      /\ \/ link[Consumer[q]] = "closed" /\ hand'[q] = NoDelivery
         \/ hand'[q].stage = "ack" /\ hand'[q].copy = c
  BY <1>1, <1>2, Republished
<1>6. c.attempt <= failures[c.msg]
  <2>1. Holds(Route[c.msg], c)
    BY <1>1, <1>4 DEF Holds, Runs
  <2>2. QED
    BY <1>3, <2>1 DEF MessagesKept, AttemptsAreFailures
<1>7. Dlq(q) \in declared
  BY <1>4, ServedIsDeclared DEF Topology, DeclaredInOrder
<1>8. link[Consumer[q]] = "open" => c.msg \in dead'
  BY <1>1, <1>2, <1>4, <1>7 DEF Unacked, Holds, Runs
<1> HIDE DEF c
<1>9. /\ \A m \in Messages : m # c.msg => failures'[m] = failures[m]
      /\ \/ c.msg \in Malformed /\ failures' = failures
         \/ failures'[c.msg] = MaxRetries + 1
  <2>1. CASE Exhausted(c) /\ CountFailure(c.msg)
    <3>1. c.attempt >= MaxRetries /\ failures[c.msg] \in 0..MaxRetries + 1
      BY <1>0, <1>3, <2>1 DEF Exhausted, Attempts
    <3>2. /\ failures'[c.msg] = IF failures[c.msg] > MaxRetries THEN MaxRetries + 1
                                ELSE failures[c.msg] + 1
          /\ \A m \in Messages : m # c.msg => failures'[m] = failures[m]
      BY <1>3, <2>1, Counted
    <3>3. c.attempt \in Nat
      BY <1>0, <1>3 DEF Attempts
    <3>4. QED
      BY <1>0, <1>6, <3>1, <3>2, <3>3
  <2>2. QED
    BY <1>1, <2>1 DEF c
<1>10. ASSUME NEW m \in Messages PROVE failures[m] <= failures'[m]
  BY <1>0, <1>9
<1>11. ASSUME NEW m \in (dead' \cup expired) \ Malformed PROVE failures'[m] = MaxRetries + 1
  <2>1. CASE m = c.msg
    BY <1>9, <1>11, <2>1
  <2>2. CASE m # c.msg
    <3>1. m \in (dead \cup expired) \ Malformed
      BY <1>2, <1>11, <2>2
    <3>2. m \in Messages /\ failures[m] = MaxRetries + 1
      BY <3>1 DEF MessagesKept, DeadAfterEveryAttempt, TypeOK
    <3>3. QED
      BY <1>9, <2>2, <3>2
  <2>3. QED
    BY <2>1, <2>2
<1>12. dead \subseteq dead'
  BY <1>2
<1>13. QED
  BY <1>1, <1>2, <1>5, <1>8, <1>10, <1>11, <1>12, OutcomeKeeps DEF c

(* An ack. *)
LEMMA AckMessages ==
    ASSUME TypeOK, TypeOK', MessagesKept, NEW q \in Queues, Ack(q)
    PROVE  MessagesKept'
<1>1. /\ hand[q].stage = "ack" /\ hand' = [hand EXCEPT ![q] = NoDelivery]
      /\ ready' = ready /\ delayed' = delayed /\ fate' = fate /\ link' = link
      /\ consuming' = consuming /\ expired' = expired /\ dead' = dead /\ handled' = handled
      /\ failures' = failures
  BY DEF Ack, processes, topology
<1>2. hand'[q] = NoDelivery /\ \A p \in Queues : p # q => hand'[p] = hand[p]
  BY <1>1 DEF TypeOK
<1>3. HandsAreConsumers' /\ DeadAfterEveryAttempt'
  BY <1>1, <1>2 DEF MessagesKept, HandsAreConsumers, DeadAfterEveryAttempt
<1>4. AckedIsKept'
  BY <1>1, <1>2 DEF MessagesKept, AckedIsKept, NoDelivery
<1>5. AttemptsAreFailures'
  <2> SUFFICES ASSUME NEW d \in Copies,
                      ready[d] > 0 \/ delayed[d] > 0 \/ Holds(Route[d.msg], d)'
               PROVE  d.attempt <= failures[d.msg]
    BY <1>1 DEF AttemptsAreFailures
  <2>1. Route[d.msg] \in Queues
    BY Deployment DEF Copies
  <2>2. Holds(Route[d.msg], d)' => Holds(Route[d.msg], d)
    BY <1>2, <2>1 DEF Holds, NoDelivery
  <2>3. QED
    BY <2>2 DEF MessagesKept, AttemptsAreFailures
<1>6. NothingVanishes'
  <2> SUFFICES ASSUME NEW m \in Messages, fate[m] = "arrived", m \notin handled \cup expired
               PROVE  Kept(m)'
    BY <1>1 DEF NothingVanishes
  <2>1. Kept(m)
    BY DEF MessagesKept, NothingVanishes
  <2>2. ASSUME NEW d \in Copies, d.msg = m, Unacked(d)
        PROVE  \/ Unacked(d)' \/ m \in dead
               \/ \E e \in Copies : e.msg = m /\ (ready[e] > 0 \/ delayed[e] > 0)
    <3>1. /\ Route[d.msg] \in Queues /\ hand[Route[d.msg]].copy = d
          /\ link[Consumer[Route[d.msg]]] = "open"
      BY <2>2, UnackedIsHeld
    <3>2. CASE Route[d.msg] = q
      BY <1>1, <2>2, <3>1, <3>2 DEF MessagesKept, AckedIsKept
    <3>3. CASE Route[d.msg] # q
      BY <1>1, <1>2, <2>2, <3>1, <3>3 DEF Unacked, Holds
    <3>4. QED
      BY <3>2, <3>3
  <2>3. QED
    BY <1>1, <2>1, <2>2 DEF Kept
<1>7. QED
  BY <1>3, <1>4, <1>5, <1>6 DEF MessagesKept

(* A copy that comes to its queue, new or after its delay. *)
LEMMA ArrivalMessages ==
    ASSUME TypeOK, TypeOK', MessagesKept, NEW c \in Copies, c.attempt <= failures[c.msg],
           ready' = Put(ready, c),
           \A d \in Copies : d # c => delayed'[d] = delayed[d],
           hand' = hand, link' = link, consuming' = consuming, dead' = dead, handled' = handled,
           failures' = failures, expired' = expired,
           \A m \in Messages : fate'[m] = "arrived" => fate[m] = "arrived" \/ m = c.msg
    PROVE  MessagesKept'
<1>1. ready \in [Copies -> Nat] /\ ready'[c] = ready[c] + 1
      /\ \A d \in Copies : d # c => ready'[d] = ready[d]
  <2>1. ready \in [Copies -> Nat]
    BY DEF TypeOK
  <2>2. QED
    BY <2>1, Bag
<1>2. ready'[c] > 0
  BY <1>1
<1>3. \A d \in Copies : ready[d] > 0 \/ delayed[d] > 0 => ready'[d] > 0 \/ delayed'[d] > 0
  BY <1>1, <1>2
<1>4. HandsAreConsumers' /\ DeadAfterEveryAttempt'
  BY DEF MessagesKept, HandsAreConsumers, DeadAfterEveryAttempt
<1>5. AckedIsKept'
  BY <1>3 DEF MessagesKept, AckedIsKept
<1>6. AttemptsAreFailures'
  <2> SUFFICES ASSUME NEW d \in Copies,
                      ready'[d] > 0 \/ delayed'[d] > 0 \/ Holds(Route[d.msg], d)'
               PROVE  d.attempt <= failures[d.msg]
    BY DEF AttemptsAreFailures
  <2>1. Holds(Route[d.msg], d)' => Holds(Route[d.msg], d)
    BY DEF Holds
  <2>2. CASE d = c
    BY <2>2
  <2>3. CASE d # c
    BY <1>1, <2>1, <2>3 DEF MessagesKept, AttemptsAreFailures
  <2>4. QED
    BY <2>2, <2>3
<1>7. NothingVanishes'
  <2> SUFFICES ASSUME NEW m \in Messages, fate'[m] = "arrived", m \notin handled \cup expired
               PROVE  Kept(m)'
    BY DEF NothingVanishes
  <2>1. CASE m = c.msg
    BY <1>2, <2>1 DEF Kept
  <2>2. CASE m # c.msg
    <3>1. Kept(m)
      BY <2>2 DEF MessagesKept, NothingVanishes
    <3>2. \A d \in Copies : Unacked(d) => Unacked(d)'
      BY DEF Unacked, Holds
    <3>3. QED
      BY <1>3, <3>1, <3>2 DEF Kept
  <2>3. QED
    BY <2>1, <2>2
<1>8. QED
  BY <1>4, <1>5, <1>6, <1>7 DEF MessagesKept

(* A dead letter expires. *)
LEMMA ExpiryMessages ==
    ASSUME TypeOK, TypeOK', MessagesKept, NEW m \in Messages, DlqExpires(m)
    PROVE  MessagesKept'
<1>1. /\ m \in dead /\ dead' = dead \ {m} /\ expired' = expired \cup {m}
      /\ ready' = ready /\ delayed' = delayed /\ fate' = fate /\ link' = link /\ hand' = hand
      /\ consuming' = consuming /\ handled' = handled /\ failures' = failures
  BY DEF DlqExpires, processes, topology
<1>2. HandsAreConsumers' /\ AckedIsKept'
  BY <1>1 DEF MessagesKept, HandsAreConsumers, AckedIsKept
<1>3. AttemptsAreFailures'
  BY <1>1 DEF MessagesKept, AttemptsAreFailures, Holds
<1>4. NothingVanishes'
  BY <1>1 DEF MessagesKept, NothingVanishes, Kept, Unacked, Holds
<1>5. DeadAfterEveryAttempt'
  BY <1>1 DEF MessagesKept, DeadAfterEveryAttempt
<1>6. QED
  BY <1>2, <1>3, <1>4, <1>5 DEF MessagesKept

(* Every step keeps the messages. *)
LEMMA StepMessages == TypeOK /\ Topology /\ MessagesKept /\ [Next]_vars => MessagesKept'
<1> SUFFICES ASSUME TypeOK, Topology, MessagesKept, [Next]_vars PROVE MessagesKept'
  OBVIOUS
<1>0. TypeOK'
  BY StepType
<1>1. ASSUME NEW s \in Deployed, Fatal(s) \/ Crash(s) \/ Exit(s) PROVE MessagesKept'
  BY <1>0, <1>1, DisappearMessages DEF Fatal, Crash, Exit
<1>2. ASSUME NEW s \in Deployed, Launch(s) \/ StartStep(s) \/ Stop(s) \/ Notice(s) \/ LinkBreaks(s)
      PROVE  MessagesKept'
  BY <1>0, <1>2, QuietMessages, BreakMessages
<1>3. CASE BrokerStops \/ BrokerStarts
  BY <1>0, <1>3, QuietMessages, BreakMessages
<1>4. ASSUME NEW q \in Queues,
             \/ Declare(q) \/ Consume(q) \/ ConsumerReturns(q)
             \/ Deliver(q) \/ Succeed(q) \/ Retry(q) \/ Exhaust(q) \/ Reject(q) \/ Ack(q)
      PROVE  MessagesKept'
  BY <1>0, <1>4, QuietMessages, DeliverMessages, SucceedMessages, RetryMessages, DeadMessages,
     AckMessages
<1>5. ASSUME NEW m \in Messages, PublishArrives(m) PROVE MessagesKept'
  <2>1. CASE RoutedBy(Route[m]) \in declared
    <3> DEFINE c == [msg |-> m, attempt |-> 0]
    <3>1. c \in Copies /\ c.msg = m /\ c.attempt = 0 /\ failures[m] \in Nat
      BY Deployment DEF Copies, Attempts, TypeOK
    <3>2. /\ ready' = Put(ready, c) /\ fate' = [fate EXCEPT ![m] = "arrived"]
          /\ delayed' = delayed /\ hand' = hand /\ link' = link /\ consuming' = consuming
          /\ dead' = dead /\ handled' = handled /\ failures' = failures /\ expired' = expired
      BY <1>5, <2>1 DEF PublishArrives, processes, topology
    <3> HIDE DEF c
    <3>3. \A n \in Messages : fate'[n] = "arrived" => fate[n] = "arrived" \/ n = c.msg
      BY <3>1, <3>2 DEF TypeOK
    <3>4. c.attempt <= failures[c.msg]
      BY <3>1
    <3>5. QED
      BY <1>0, <3>1, <3>2, <3>3, <3>4, ArrivalMessages
  <2>2. CASE RoutedBy(Route[m]) \notin declared
    <3>1. \A n \in Messages : fate'[n] = "arrived" => fate[n] = "arrived"
      BY <1>5, <2>2 DEF PublishArrives, TypeOK
    <3>2. QED
      BY <1>0, <1>5, <2>2, <3>1, NothingMoves DEF PublishArrives, processes, topology
  <2>3. QED
    BY <2>1, <2>2
<1>6. ASSUME NEW m \in Messages,
             StartPublish(m) \/ PublishVanishes(m) \/ PublishRefused(m) \/ DlqExpires(m)
      PROVE  MessagesKept'
  BY <1>0, <1>6, QuietMessages, ExpiryMessages
<1>7. ASSUME NEW c \in Copies, DelayPasses(c) PROVE MessagesKept'
  <2>1. /\ delayed[c] > 0 /\ delayed' = Take(delayed, c) /\ ready' = Put(ready, c)
        /\ hand' = hand /\ link' = link /\ consuming' = consuming /\ dead' = dead
        /\ fate' = fate /\ handled' = handled /\ failures' = failures /\ expired' = expired
    BY <1>7 DEF DelayPasses, processes, topology
  <2>2. c.attempt <= failures[c.msg]
    BY <2>1 DEF MessagesKept, AttemptsAreFailures
  <2>3. \A d \in Copies : d # c => delayed'[d] = delayed[d]
    BY <2>1, Bag DEF TypeOK
  <2>4. QED
    BY <1>0, <2>1, <2>2, <2>3, ArrivalMessages
<1>8. CASE UNCHANGED vars
  BY <1>0, <1>8, QuietMessages
<1>9. QED
  BY <1>1, <1>2, <1>3, <1>4, <1>5, <1>6, <1>7, <1>8 DEF Next

--------------------------------------------------------------------------------
(* Nothing is declared, published or held at the beginning. *)
LEMMA InitInv == Init => IndInv
<1> SUFFICES ASSUME Init PROVE IndInv
  OBVIOUS
<1>1. MaxRetries \in Nat /\ MaxFaults \in Nat
  BY MaxRetriesAssumption, DeploymentAssumption
<1>2. TypeOK
  BY <1>1 DEF Init, TypeOK
<1>3. DeclaredInOrder
  <2>1. \A q \in Queues : Len(SetUp(q)) \in Nat
    BY SetUpSeq, LenProperties
  <2>2. QED
    BY <2>1 DEF Init, DeclaredInOrder
<1>4. ConsumersRun
  BY DEF Init, ConsumersRun
<1>5. HandsAreConsumers /\ AckedIsKept /\ DeadAfterEveryAttempt
  BY DEF Init, HandsAreConsumers, AckedIsKept, DeadAfterEveryAttempt, NoDelivery
<1>6. AttemptsAreFailures
  <2>1. \A c \in Copies : ~Holds(Route[c.msg], c)
    BY Deployment DEF Init, Holds, NoDelivery, Copies
  <2>2. QED
    BY <2>1 DEF Init, AttemptsAreFailures
<1>7. NothingVanishes
  BY DEF Init, NothingVanishes
<1>8. QED
  BY <1>2, <1>3, <1>4, <1>5, <1>6, <1>7 DEF IndInv

(* Every step preserves the invariant. *)
LEMMA StepInv == IndInv /\ [Next]_vars => IndInv'
BY StepType, StepTopology, StepMessages DEF IndInv, Topology, MessagesKept

(* The inductive invariant of processes, declarations and messages. *)
THEOREM Invariance == Spec => []IndInv
BY InitInv, StepInv, PTL DEF Spec

(* A message that arrived is somewhere until a handler succeeded on it or   *)
(* its dead letter expired, whatever crashes or breaks.                     *)
THEOREM MessagesAreKept == Spec => []NothingVanishes
BY Invariance, PTL DEF IndInv

(* A well-formed message is dead-lettered after MaxRetries + 1 failures,    *)
(* never earlier.                                                           *)
THEOREM DeadLettersFailed == Spec => []DeadAfterEveryAttempt
BY Invariance, PTL DEF IndInv

(* Once its queue was consumed, no message is dropped by the exchange. *)
THEOREM ServedQueuesKeep == Spec => KeptOnceServed
<1>1. IndInv /\ [Next]_vars =>
          [\A m \in Messages :
              fate[m] = "sending" /\ fate'[m] = "dropped" => Route[m] \notin served]_vars
  <2> SUFFICES ASSUME IndInv, Next, NEW m \in Messages, fate[m] = "sending",
                      fate'[m] = "dropped", Route[m] \in served
               PROVE  FALSE
    OBVIOUS
  <2>0. fate \in [Messages -> {"unsent", "sending", "unseen", "dropped", "arrived"}]
    BY DEF IndInv, TypeOK
  <2>1. RoutedBy(Route[m]) \in declared
    BY ServedIsDeclared DEF IndInv
  <2>2. ASSUME NEW n \in Messages, PublishArrives(n) PROVE FALSE
    BY <2>0, <2>1, <2>2 DEF PublishArrives
  <2>3. ASSUME NEW s \in Deployed, Disappear(s) PROVE FALSE
    BY <2>3 DEF Disappear
  <2>4. ASSUME NEW n \in Messages, StartPublish(n) \/ PublishVanishes(n) \/ PublishRefused(n)
        PROVE  FALSE
    BY <2>0, <2>4 DEF StartPublish, PublishVanishes, PublishRefused
  <2>5. ASSUME fate' = fate PROVE FALSE
    BY <2>5
  <2>6. ASSUME NEW s \in Deployed,
               \/ Launch(s) \/ StartStep(s) \/ Fatal(s) \/ Crash(s) \/ Stop(s) \/ Exit(s)
               \/ LinkBreaks(s) \/ Notice(s)
        PROVE  FALSE
    BY <2>3, <2>5, <2>6 DEF Launch, StartStep, Fatal, Crash, Stop, Exit, LinkBreaks, Notice, messages
  <2>7. ASSUME NEW q \in Queues,
               \/ Declare(q) \/ Consume(q) \/ ConsumerReturns(q)
               \/ Deliver(q) \/ Succeed(q) \/ Retry(q) \/ Exhaust(q) \/ Reject(q) \/ Ack(q)
        PROVE  FALSE
    BY <2>5, <2>7 DEF Declare, Consume, ConsumerReturns, Deliver, Succeed, Retry, Exhaust, Reject,
                      Ack, DeadLetter, messages
  <2>8. QED
    BY <2>2, <2>4, <2>5, <2>6, <2>7
    DEF Next, BrokerStops, BrokerStarts, DlqExpires, DelayPasses, messages
<1>2. QED
  BY <1>1, Invariance, PTL DEF Spec, KeptOnceServed
================================================================================
