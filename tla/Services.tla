-------------------------------- MODULE Services -------------------------------
(***************************************************************************)
(* The nine processes of the system, what each main() does before it      *)
(* works, and the queues between them.  A process dials RabbitMQ once, its *)
(* consumers declare their queue, its .dlq, its delay queues and its       *)
(* binding on every start, and a message is somewhere between a publisher, *)
(* a queue and a handler at every moment.                                  *)
(*                                                                         *)
(* A connection that breaks is never dialled again: the process notices,   *)
(* its consumers return and main() waits for a signal.  A process that     *)
(* cannot dial at start exits and its supervisor launches it again.        *)
(*                                                                         *)
(* What the handlers do is in Orchestrator and Workers; here a handler     *)
(* succeeds or fails.  A delivery is the message its handler runs: those   *)
(* still in the client's buffer are with the ready ones, to which a broken *)
(* connection returns them.  Queues and messages survive the broker as far *)
(* as they are durable; a publish counts as arrived once it is on disk.    *)
(***************************************************************************)
EXTENDS Broker, FiniteSets, Sequences

CONSTANTS
    Deployed,       \* the services of this deployment
    Misconfigured,  \* the steps of main() whose environment variables are no use
    Queues,         \* the queues of this deployment
    Messages,
    Route,          \* Route[m]: the queue m is published for
    Publisher,      \* Publisher[m]: the service that publishes m
    Malformed,      \* the messages whose body does not unmarshal
    MaxFaults       \* bound: crashes, stops, broken connections, broker outages

--------------------------------------------------------------------------------
(* What each main() does in order.  A step "config" ends the process when a *)
(* required variable is missing, "storage" when an endpoint or key is, or   *)
(* the SDK's configuration cannot be loaded, "broker" when RabbitMQ does    *)
(* not answer; gRPC, storage and pool clients connect on first use.         *)
UploadMain       == <<"config", "config", "storage", "config", "database", "listen">>
OrchestratorMain == <<"upload", "broker">>
MetadataMain     == <<"config", "upload", "broker", "storage">>
ThumbnailMain    == <<"config", "upload", "broker", "storage", "storage">>
TranscodeMain    == <<"config", "upload", "broker", "storage", "storage">>
SegmentMain      == <<"config", "upload", "broker", "storage", "storage">>
PublishMain      == <<"config", "upload", "broker", "storage">>
ExpirerMain      == <<"upload">>
DispatcherMain   == <<"config", "database", "broker">>

Main ==
    [upload     |-> UploadMain,     orchestrator |-> OrchestratorMain,
     metadata   |-> MetadataMain,   thumbnail    |-> ThumbnailMain,
     transcode  |-> TranscodeMain,  segment      |-> SegmentMain,
     publish    |-> PublishMain,    expirer      |-> ExpirerMain,
     dispatcher |-> DispatcherMain]

(* The service whose consumer reads each queue. *)
Consumer ==
    [start    |-> "orchestrator",   \* upload-process
     result   |-> "orchestrator",   \* upload-process-step
     metadata |-> "metadata",       \* metadata-extract_metadata
     thumbnail |-> "thumbnail",     \* thumbnail-generate_thumbnail
     transcode |-> "transcode",     \* transcode-transcode
     segment  |-> "segment",        \* segment-segment
     publish  |-> "publish"]        \* publish-publish

(* The queues fed by the topic exchange pipeline-steps, through a binding;   *)
(* the other two are published to by name, through the default exchange.     *)
StepQueues == DOMAIN Consumer \ {"start", "result"}

ASSUME DeploymentAssumption ==
    /\ Deployed \subseteq DOMAIN Main
    /\ Misconfigured \subseteq Deployed \X {"config", "storage"}
    /\ Queues \subseteq DOMAIN Consumer
    /\ \A q \in Queues : Consumer[q] \in Deployed
    /\ Route \in [Messages -> Queues]
    /\ Publisher \in [Messages -> Deployed]
    /\ Malformed \subseteq Messages
    /\ MaxFaults \in Nat

--------------------------------------------------------------------------------
Exchange    == <<"exchange", "pipeline-steps", 0>>
Queue(q)    == <<"queue", q, 0>>
Binding(q)  == <<"binding", q, 0>>
Dlq(q)      == <<"dlq", q, 0>>
Delay(q, n) == <<"delay", q, n>>

(* DeclareRetryInfrastructure: the .dlq, then one delay queue per attempt. *)
RetryQueues(q) == <<Dlq(q)>> \o [n \in 1..MaxRetries |-> Delay(q, n)]

(* The declarations of each consumer, in order; Consume follows the last. *)
SetUp(q) ==
    IF q \in StepQueues
    THEN <<Exchange, Queue(q)>> \o RetryQueues(q) \o <<Binding(q)>>
    ELSE <<Queue(q)>> \o RetryQueues(q)

(* PublishStep declares the exchange, the other publishers their queue. *)
DeclaredByPublisher(q) == IF q \in StepQueues THEN Exchange ELSE Queue(q)

(* A publish is kept if the queue, or a binding of the exchange, is there. *)
RoutedBy(q) == IF q \in StepQueues THEN Binding(q) ELSE Queue(q)

(* Mutant of Transient: the delay queues are declared transient. *)
TransientDelays == {Delay(q, n) : q \in Queues, n \in 1..MaxRetries}

(* Mutant of Transient: the step queues are, and their bindings with them. *)
TransientSteps == {Queue(q) : q \in StepQueues} \cup {Binding(q) : q \in StepQueues}

(* What does not survive the broker: nothing, because every declaration     *)
(* passes durable, none auto-delete or exclusive, and a publish Persistent. *)
Transient == {}

Entities ==
    {Exchange} \cup {Queue(q) : q \in Queues} \cup {Binding(q) : q \in Queues}
        \cup {Dlq(q) : q \in Queues}
        \cup {Delay(q, n) : q \in Queues, n \in 1..MaxRetries}

VARIABLES
    process,        \* process[s]: "down", "up" or "stopping" (context cancelled)
    step,           \* step[s]: how many steps of main() are done
    link,           \* link[s]: the process's one connection to RabbitMQ
    brokerUp,
    declared,       \* the exchange, queues and bindings the broker has
    setup,          \* setup[q]: how many of its declarations q's consumer made
    consuming,      \* the queues whose consumer has started to consume
    returned,       \* those whose consumer has returned
    ready,          \* ready[c]: copies of a message waiting in their queue
    delayed,        \* delayed[c]: copies in the delay queue of their attempt
    hand,           \* hand[q]: the delivery q's handler runs
    dead,           \* the messages in the .dlq queues
    fate,           \* fate[m]: what became of m's publish
    handled,        \* history: messages a handler succeeded on
    failures,       \* history: how often a handler failed on m
    expired,        \* history: messages that left the .dlq by its TTL
    served,         \* history: queues that were consumed at some time
    faults

processes == <<process, step, link, brokerUp>>
topology  == <<declared, setup, consuming, returned, served>>
messages  == <<ready, delayed, hand, dead, fate, handled, failures, expired>>
vars      == <<processes, topology, messages, faults>>

Copies == [msg : Messages, attempt : Attempts]

NoDelivery == [stage |-> "none"]

Deliveries == [stage : {"run", "ack"}, copy : Copies]

Running(s) == process[s] # "down" /\ step[s] = Len(Main[s])

Holds(q, c) == hand[q].stage # "none" /\ hand[q].copy = c

(* The broker counts c as delivered and not acked: on a broken connection   *)
(* it has already put it back.                                              *)
Unacked(c) ==
    link[Consumer[Route[c.msg]]] = "open" /\ Holds(Route[c.msg], c)

TypeOK ==
    /\ process \in [Deployed -> {"down", "up", "stopping"}]
    /\ step \in [Deployed -> Nat]
    /\ link \in [Deployed -> {"none", "open", "stale", "closed"}]
    /\ brokerUp \in BOOLEAN
    /\ declared \subseteq Entities
    /\ setup \in [Queues -> Nat]
    /\ consuming \subseteq Queues
    /\ returned \subseteq Queues
    /\ ready \in [Copies -> Nat]
    /\ delayed \in [Copies -> Nat]
    /\ hand \in [Queues -> {NoDelivery} \cup Deliveries]
    /\ dead \subseteq Messages
    /\ fate \in [Messages -> {"unsent", "sending", "unseen", "dropped", "arrived"}]
    /\ handled \subseteq Messages
    /\ failures \in [Messages -> 0..MaxRetries + 1]
    /\ expired \subseteq Messages
    /\ served \subseteq Queues
    /\ faults \in 0..MaxFaults

Init ==
    /\ process = [s \in Deployed |-> "down"]
    /\ step = [s \in Deployed |-> 0]
    /\ link = [s \in Deployed |-> "none"]
    /\ brokerUp = TRUE
    /\ declared = {}
    /\ setup = [q \in Queues |-> 0]
    /\ consuming = {} /\ returned = {}
    /\ ready = [c \in Copies |-> 0]
    /\ delayed = [c \in Copies |-> 0]
    /\ hand = [q \in Queues |-> NoDelivery]
    /\ dead = {}
    /\ fate = [m \in Messages |-> "unsent"]
    /\ handled = {} /\ expired = {} /\ served = {}
    /\ failures = [m \in Messages |-> 0]
    /\ faults = 0

--------------------------------------------------------------------------------
Fault == faults < MaxFaults /\ faults' = faults + 1

(* The supervisor (or an operator, after a stop) launches the process. *)
Launch(s) ==
    /\ process[s] = "down"
    /\ process' = [process EXCEPT ![s] = "up"]
    /\ UNCHANGED <<step, link, brokerUp, topology, messages, faults>>

NextStep(s) == Main[s][step[s] + 1]

Starting(s) == process[s] = "up" /\ step[s] < Len(Main[s])

ConfigFails(s) == <<s, NextStep(s)>> \in Misconfigured

DialFails(s) == NextStep(s) = "broker" /\ ~brokerUp

StepFails(s) == ConfigFails(s) \/ DialFails(s)

(* One step of main(); Connect dials, once. *)
StartStep(s) ==
    /\ Starting(s) /\ ~StepFails(s)
    /\ step' = [step EXCEPT ![s] = @ + 1]
    /\ link' = [link EXCEPT ![s] = IF NextStep(s) = "broker" THEN "open" ELSE @]
    /\ UNCHANGED <<process, brokerUp, topology, messages, faults>>

--------------------------------------------------------------------------------
(* The process is gone: its connection closes and the broker puts back what *)
(* it had not acked; the caller of an unfinished publish never learns of it.*)
Disappear(s) ==
    /\ process' = [process EXCEPT ![s] = "down"]
    /\ step' = [step EXCEPT ![s] = 0]
    /\ link' = [link EXCEPT ![s] = "none"]
    /\ setup' = [q \in Queues |-> IF Consumer[q] = s THEN 0 ELSE setup[q]]
    /\ consuming' = {q \in consuming : Consumer[q] # s}
    /\ returned' = {q \in returned : Consumer[q] # s}
    /\ ready' = [c \in Copies |->
          IF Consumer[Route[c.msg]] = s /\ Unacked(c) THEN ready[c] + 1 ELSE ready[c]]
    /\ hand' = [q \in Queues |-> IF Consumer[q] = s THEN NoDelivery ELSE hand[q]]
    /\ fate' = [m \in Messages |->
          IF Publisher[m] = s /\ fate[m] = "sending" THEN "unsent" ELSE fate[m]]
    /\ UNCHANGED <<brokerUp, declared, served, delayed, dead, handled, failures, expired>>

(* log.Fatal: a step of main() failed. *)
Fatal(s) ==
    /\ Starting(s) /\ StepFails(s)
    /\ Disappear(s)
    /\ UNCHANGED faults

Crash(s) ==
    /\ process[s] # "down" /\ Fault
    /\ Disappear(s)

(* SIGTERM, and main() cancels the context; the upload service has no       *)
(* handler and just dies.  What a consumer holds runs on: its calls fail,   *)
(* and the copy is republished with its next attempt.                       *)
Stop(s) ==
    /\ s # "upload"
    /\ process[s] = "up" /\ Running(s) /\ Fault
    /\ process' = [process EXCEPT ![s] = "stopping"]
    /\ UNCHANGED <<step, link, brokerUp, topology, messages>>

(* main() returns without waiting for its consumers. *)
Exit(s) ==
    /\ process[s] = "stopping"
    /\ Disappear(s)
    /\ UNCHANGED faults

--------------------------------------------------------------------------------
(* A connection breaks.  The broker puts back what it had not seen acked;   *)
(* the process notices later, and a handler that runs does not notice.      *)
LinkBreaks(s) ==
    /\ link[s] = "open" /\ Fault
    /\ link' = [link EXCEPT ![s] = "stale"]
    /\ ready' = [c \in Copies |->
          IF Consumer[Route[c.msg]] = s /\ Unacked(c) THEN ready[c] + 1 ELSE ready[c]]
    /\ UNCHANGED <<process, step, brokerUp, topology, delayed, hand, dead, fate,
                    handled, failures, expired>>

(* The broker goes down, with every connection, and keeps what is durable. *)
BrokerStops ==
    /\ brokerUp /\ Fault
    /\ brokerUp' = FALSE
    /\ link' = [s \in Deployed |-> IF link[s] = "open" THEN "stale" ELSE link[s]]
    /\ declared' = declared \ Transient
    /\ ready' = [c \in Copies |->
          IF Queue(Route[c.msg]) \in Transient THEN 0
          ELSE IF Unacked(c) THEN ready[c] + 1 ELSE ready[c]]
    /\ delayed' = [c \in Copies |->
          IF Delay(Route[c.msg], c.attempt) \in Transient THEN 0 ELSE delayed[c]]
    /\ UNCHANGED <<process, step, setup, consuming, returned, served, hand, dead,
                    fate, handled, failures, expired>>

BrokerStarts ==
    /\ ~brokerUp
    /\ brokerUp' = TRUE
    /\ UNCHANGED <<process, step, link, topology, messages, faults>>

(* A missed heartbeat or a failed write: the library closes the connection, *)
(* and every later call on it returns ErrClosed.                            *)
Notice(s) ==
    /\ link[s] = "stale"
    /\ link' = [link EXCEPT ![s] = "closed"]
    /\ UNCHANGED <<process, step, brokerUp, topology, messages, faults>>

--------------------------------------------------------------------------------
(* The next declaration of q's consumer. *)
Declare(q) ==
    /\ Running(Consumer[q]) /\ link[Consumer[q]] = "open"
    /\ q \notin returned /\ setup[q] < Len(SetUp(q))
    /\ setup' = [setup EXCEPT ![q] = @ + 1]
    /\ declared' = declared \cup {SetUp(q)[setup[q] + 1]}
    /\ UNCHANGED <<processes, consuming, returned, served, messages, faults>>

(* Mutant of Consume: it precedes the binding and the retry queues. *)
ConsumeEarly(q) ==
    /\ Running(Consumer[q]) /\ link[Consumer[q]] = "open"
    /\ q \notin returned \cup consuming /\ Queue(q) \in declared
    /\ consuming' = consuming \cup {q}
    /\ served' = served \cup {q}
    /\ UNCHANGED <<processes, declared, setup, returned, messages, faults>>

(* Consume, once everything is declared. *)
Consume(q) ==
    /\ Running(Consumer[q]) /\ link[Consumer[q]] = "open"
    /\ q \notin returned \cup consuming /\ setup[q] = Len(SetUp(q))
    /\ consuming' = consuming \cup {q}
    /\ served' = served \cup {q}
    /\ UNCHANGED <<processes, declared, setup, returned, messages, faults>>

(* Mutant of ConsumerReturns: the consumer reads on from the closed channel. *)
ConsumerSpins(q) ==
    /\ Running(Consumer[q]) /\ link[Consumer[q]] = "closed"
    /\ q \notin returned /\ hand[q] = NoDelivery
    /\ UNCHANGED vars

(* A declaration fails, or the channel of deliveries is closed: the         *)
(* consumer returns, main() logs it at most, and the process stays up.  Or  *)
(* the loop sees, between two deliveries, that the context is cancelled.    *)
ConsumerReturns(q) ==
    /\ Running(Consumer[q])
    /\ \/ link[Consumer[q]] = "closed"
       \/ process[Consumer[q]] = "stopping" /\ q \in consuming
    /\ q \notin returned /\ hand[q] = NoDelivery
    /\ returned' = returned \cup {q}
    /\ UNCHANGED <<processes, declared, setup, consuming, served, messages, faults>>

--------------------------------------------------------------------------------
(* A publisher opens a channel and declares: both are answered, so the      *)
(* connection was there.  The publish itself is not.                        *)
StartPublish(m) ==
    /\ Running(Publisher[m]) /\ link[Publisher[m]] = "open"
    /\ fate[m] = "unsent"
    /\ fate' = [fate EXCEPT ![m] = "sending"]
    /\ declared' = declared \cup {DeclaredByPublisher(Route[m])}
    /\ UNCHANGED <<processes, setup, consuming, returned, served, ready, delayed, hand,
                    dead, handled, failures, expired, faults>>

(* The exchange drops a message no binding takes: mandatory is false. *)
PublishArrives(m) ==
    /\ fate[m] = "sending" /\ link[Publisher[m]] = "open"
    /\ IF RoutedBy(Route[m]) \in declared
       THEN /\ fate' = [fate EXCEPT ![m] = "arrived"]
            /\ ready' = Put(ready, [msg |-> m, attempt |-> 0])
       ELSE fate' = [fate EXCEPT ![m] = "dropped"] /\ UNCHANGED ready
    /\ UNCHANGED <<processes, topology, delayed, hand, dead, handled, failures, expired,
                    faults>>

(* Written to a connection that is gone: the caller gets no error. *)
PublishVanishes(m) ==
    /\ fate[m] = "sending" /\ link[Publisher[m]] = "stale"
    /\ fate' = [fate EXCEPT ![m] = "unseen"]
    /\ UNCHANGED <<processes, topology, ready, delayed, hand, dead, handled, failures,
                    expired, faults>>

(* ErrClosed: the caller keeps its message and may publish it again. *)
PublishRefused(m) ==
    /\ fate[m] = "sending" /\ link[Publisher[m]] = "closed"
    /\ fate' = [fate EXCEPT ![m] = "unsent"]
    /\ UNCHANGED <<processes, topology, ready, delayed, hand, dead, handled, failures,
                    expired, faults>>

--------------------------------------------------------------------------------
(* A copy reaches q's handler; the broker keeps it until its ack. *)
Deliver(q) ==
    /\ q \in consuming \ returned /\ link[Consumer[q]] = "open"
    /\ hand[q] = NoDelivery
    /\ \E c \in Copies :
          /\ Route[c.msg] = q /\ ready[c] > 0
          /\ ready' = Take(ready, c)
          /\ hand' = [hand EXCEPT ![q] = [stage |-> "run", copy |-> c]]
    /\ UNCHANGED <<processes, topology, delayed, dead, fate, handled, failures, expired,
                    faults>>

Runs(q) == hand[q].stage = "run"

(* The handler returns nil. *)
Succeed(q) ==
    /\ Runs(q) /\ hand[q].copy.msg \notin Malformed
    /\ handled' = handled \cup {hand[q].copy.msg}
    /\ hand' = [hand EXCEPT ![q].stage = "ack"]
    /\ UNCHANGED <<processes, topology, ready, delayed, dead, fate, failures, expired,
                    faults>>

CountFailure(m) ==
    failures' = [failures EXCEPT ![m] = IF @ > MaxRetries THEN @ ELSE @ + 1]

(* What follows a publish on the consumer's own channel: the ack, which     *)
(* cannot overtake it, or on a closed channel a Nack nobody receives.       *)
AfterRepublish(q) ==
    hand' = [hand EXCEPT ![q] =
               IF link[Consumer[q]] = "closed" THEN NoDelivery ELSE [@ EXCEPT !.stage = "ack"]]

(* The handler returns an error and attempts are left: HandleRetry          *)
(* publishes the copy to the delay queue of its next attempt, by name.      *)
Retry(q) ==
    LET c == hand[q].copy
    IN  /\ Runs(q) /\ c.msg \notin Malformed /\ ~Exhausted(c)
        /\ CountFailure(c.msg) /\ AfterRepublish(q)
        /\ delayed' = IF Unacked(c) /\ Delay(q, c.attempt + 1) \in declared
                      THEN Put(delayed, Again(c)) ELSE delayed
        /\ UNCHANGED <<processes, topology, ready, dead, fate, handled, expired, faults>>

(* To the .dlq, by name. *)
DeadLetter(q) ==
    /\ AfterRepublish(q)
    /\ dead' = IF Unacked(hand[q].copy) /\ Dlq(q) \in declared
               THEN dead \cup {hand[q].copy.msg} ELSE dead
    /\ UNCHANGED <<processes, topology, ready, delayed, fate, handled, expired, faults>>

(* ... and none is left. *)
Exhaust(q) ==
    LET c == hand[q].copy
    IN  /\ Runs(q) /\ c.msg \notin Malformed /\ Exhausted(c)
        /\ CountFailure(c.msg)
        /\ DeadLetter(q)

(* The body does not unmarshal: SendToDLQ, whatever the attempt. *)
Reject(q) ==
    /\ Runs(q) /\ hand[q].copy.msg \in Malformed
    /\ DeadLetter(q)
    /\ UNCHANGED failures

(* The ack; on a broken connection it reaches nobody. *)
Ack(q) ==
    /\ hand[q].stage = "ack"
    /\ hand' = [hand EXCEPT ![q] = NoDelivery]
    /\ UNCHANGED <<processes, topology, ready, delayed, dead, fate, handled, failures,
                    expired, faults>>

(* A delay passes: the copy is dead-lettered back to its queue. *)
DelayPasses(c) ==
    /\ brokerUp /\ delayed[c] > 0
    /\ delayed' = Take(delayed, c)
    /\ ready' = Put(ready, c)
    /\ UNCHANGED <<processes, topology, hand, dead, fate, handled, failures, expired,
                    faults>>

(* DLQTtl: nobody consumes the .dlq queues, and after seven days the        *)
(* message is gone.                                                         *)
DlqExpires(m) ==
    /\ brokerUp /\ m \in dead
    /\ dead' = dead \ {m}
    /\ expired' = expired \cup {m}
    /\ UNCHANGED <<processes, topology, ready, delayed, hand, fate, handled, failures,
                    faults>>

Next ==
    \/ \E s \in Deployed :
          \/ Launch(s) \/ StartStep(s) \/ Fatal(s)
          \/ Crash(s) \/ Stop(s) \/ Exit(s)
          \/ LinkBreaks(s) \/ Notice(s)
    \/ BrokerStops \/ BrokerStarts
    \/ \E q \in Queues :
          \/ Declare(q) \/ Consume(q) \/ ConsumerReturns(q)
          \/ Deliver(q) \/ Succeed(q) \/ Retry(q) \/ Exhaust(q) \/ Reject(q) \/ Ack(q)
    \/ \E m \in Messages :
          \/ StartPublish(m) \/ PublishArrives(m) \/ PublishVanishes(m) \/ PublishRefused(m)
          \/ DlqExpires(m)
    \/ \E c \in Copies : DelayPasses(c)

(* The processes run, the supervisor relaunches, the broker comes back, TCP *)
(* notices.  Nothing makes a fault, a publish or an expiry happen.          *)
Fairness ==
    /\ WF_vars(BrokerStarts)
    /\ \A s \in Deployed :
          /\ WF_vars(Launch(s)) /\ WF_vars(StartStep(s)) /\ WF_vars(Exit(s))
          /\ WF_vars(Notice(s))
    /\ \A q \in Queues :
          /\ WF_vars(Declare(q)) /\ WF_vars(Consume(q)) /\ WF_vars(ConsumerReturns(q))
          /\ WF_vars(Deliver(q)) /\ WF_vars(Ack(q))
          /\ WF_vars(Succeed(q) \/ Retry(q) \/ Exhaust(q) \/ Reject(q))
    /\ \A c \in Copies : WF_vars(DelayPasses(c))

Spec == Init /\ [][Next]_vars /\ Fairness

--------------------------------------------------------------------------------
(* Where the broker or a handler keeps a message. *)
Kept(m) ==
    \/ \E c \in Copies : c.msg = m /\ (ready[c] > 0 \/ delayed[c] > 0 \/ Unacked(c))
    \/ m \in dead

(* A consumer made the first setup[q] of its declarations, all of them      *)
(* before it consumes, and they outlive it.                                 *)
DeclaredInOrder ==
    /\ \A q \in Queues :
          /\ setup[q] <= Len(SetUp(q))
          /\ \A i \in 1..setup[q] : SetUp(q)[i] \in declared
    /\ consuming \subseteq served
    /\ \A q \in served : \A i \in 1..Len(SetUp(q)) : SetUp(q)[i] \in declared

(* A queue is consumed by a process whose main() came to its end. *)
ConsumersRun == \A q \in consuming : Running(Consumer[q])

(* A handler runs a message of the queue it consumes. *)
HandsAreConsumers ==
    \A q \in Queues : hand[q] # NoDelivery => q \in consuming /\ Route[hand[q].copy.msg] = q

(* An ack the broker will see leaves the message somewhere else. *)
AckedIsKept ==
    \A q \in Queues :
        hand[q].stage = "ack" /\ link[Consumer[q]] = "open" =>
            LET m == hand[q].copy.msg
            IN  \/ m \in handled \cup expired \cup dead
                \/ \E c \in Copies : c.msg = m /\ (ready[c] > 0 \/ delayed[c] > 0)

(* The header of a copy counts at most the failures of its message. *)
AttemptsAreFailures ==
    \A c \in Copies :
        ready[c] > 0 \/ delayed[c] > 0 \/ Holds(Route[c.msg], c)
            => c.attempt <= failures[c.msg]

(* A message that arrived is waiting, delayed, being handled or             *)
(* dead-lettered until a handler has succeeded on it or its dead letter     *)
(* expired: through crashes between a retry's publish and its ack, broker   *)
(* outages, broken connections, redeliveries and duplicates.                *)
NothingVanishes ==
    \A m \in Messages : fate[m] = "arrived" => Kept(m) \/ m \in handled \cup expired

(* The exchange drops a step message only as long as its queue was never    *)
(* consumed: once a worker has run, its queue and binding outlive it, the   *)
(* broker's restarts, and every redeclaration.                              *)
KeptOnceServed ==
    [][\A m \in Messages :
         fate[m] = "sending" /\ fate'[m] = "dropped" => Route[m] \notin served]_vars

(* A well-formed message is dead-lettered only after its handler failed on  *)
(* it MaxRetries + 1 times, whatever was redelivered in between.            *)
DeadAfterEveryAttempt ==
    \A m \in (dead \cup expired) \ Malformed : failures[m] = MaxRetries + 1

IndInv ==
    /\ TypeOK
    /\ DeclaredInOrder
    /\ ConsumersRun
    /\ HandsAreConsumers
    /\ AckedIsKept
    /\ AttemptsAreFailures
    /\ NothingVanishes
    /\ DeadAfterEveryAttempt

(* The consumer of q has returned and its process is up: nothing in the     *)
(* program starts another one.                                              *)
Stranded(q) == q \in returned /\ process[Consumer[q]] = "up"

(* A message that arrived is handled or dead-lettered, or its consumer has  *)
(* returned for good in a process that stays up: an outage at start heals   *)
(* through the supervisor, one later on does not.                           *)
HandledUnlessStranded ==
    \A m \in Messages :
        (fate[m] = "arrived")
            ~> (m \in handled \cup dead \cup expired \/ Stranded(Route[m]))
================================================================================
