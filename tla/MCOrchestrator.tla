---------------------------- MODULE MCOrchestrator -----------------------------
(***************************************************************************)
(* Orchestrator for TLC.  The environment sends one message at a time: the *)
(* next when the queues are empty, while the consumers hold others.        *)
(* Results bounds the (step, outcome) pairs workers settle and report; a   *)
(* worker reports a success whatever the row holds, early, again and late, *)
(* and a failure only of a row that failed.  Statements of others that     *)
(* would change nothing are left out.  A starter's calls may fail;         *)
(* VideoPipeline has the other faults, in every consumer.                  *)
(***************************************************************************)
EXTENDS Orchestrator, TLC

CONSTANT Results

(* The whole chain succeeds. *)
SuccessResults == (Chained \cup {"publish"}) \X {"done"}

(* The same, and one step of the chain may fail. *)
ChainResults == SuccessResults \cup {<<"transcode", "failed">>}

QueuesEmpty == \A m \in DOMAIN inbox : inbox[m] = 0

MCEnvironment ==
    \E u \in Uploads :
        \/ /\ Row(u, "publish") \notin {"absent", "pending"} /\ status[u] # "failed"
           /\ WorkerFailsUpload(u)
        \/ Row(u, "publish") = "done" /\ status[u] # "processing" /\ FinalizedAgain(u)
        \/ \E r \in Results : Applies(Row(u, r[1]), r[2]) /\ WorkerSettles(u, r[1], r[2])
        \/ /\ QueuesEmpty
           /\ \/ EventArrives(u)
              \/ \E r \in Results : /\ r[2] = "failed" => Row(u, r[1]) = "failed"
                                    /\ WorkerReports(u, r[1], r[2])

MCNext ==
    \/ MCEnvironment
    \/ \E c \in Consumers : Work(c)
    \/ \E c \in Starters : CallFails(c)

MCSpec == Init /\ [][MCNext]_vars

Replicas == Permutations(Starters) \cup Permutations(Handlers)
================================================================================
