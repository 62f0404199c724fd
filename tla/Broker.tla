--------------------------------- MODULE Broker --------------------------------
(***************************************************************************)
(* The at-least-once queues every consumer reads: a queue is a bag, held   *)
(* as a function from messages to the number of copies, because retries    *)
(* and redeliveries reorder it.  A message carries the x-retry-count       *)
(* header as its field "attempt".  Orchestrator and Workers fold the delay *)
(* queues of HandleRetry into the queue they dead-letter back to: a copy   *)
(* may be delivered at any later moment, which includes its delay.         *)
(* Services has them as queues of their own.                               *)
(***************************************************************************)
EXTENDS Naturals

CONSTANT MaxRetries     \* RetryConfig.MaxRetries

ASSUME MaxRetriesAssumption == MaxRetries \in Nat

Attempts == 0..MaxRetries

Put(queue, m)  == [queue EXCEPT ![m] = @ + 1]

Take(queue, m) == [queue EXCEPT ![m] = @ - 1]

(* Mutant of Exhausted: nextAttempt < MaxRetries instead of <=. *)
ExhaustedEarly(m) == m.attempt + 1 >= MaxRetries

(* nextAttempt > MaxRetries: HandleRetry moves the message to the DLQ. *)
Exhausted(m) == m.attempt + 1 > MaxRetries

(* The copy HandleRetry publishes to the delay queue. *)
Again(m) == [m EXCEPT !.attempt = @ + 1]
================================================================================
