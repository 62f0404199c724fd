---------------------------------- MODULE Chain --------------------------------
(***************************************************************************)
(* What the orchestrator promises of the steps of an upload: all five rows *)
(* before the first step, each step once, the chained ones in their order, *)
(* finished only at the end of the chain, nothing settled ever reopened.   *)
(* Says nothing of consumers, messages, retries or failed calls.           *)
(***************************************************************************)
EXTENDS StepTable

CONSTANT Uploads

VARIABLES
    steps,          \* steps[u][s]: what became of step s of upload u
    status,         \* status[u]: what the upload's owner is told
    triggered       \* triggered[u][s]: how often s was handed to its worker

chainVars == <<steps, status, triggered>>

Move(u, s, row) ==
    /\ steps' = [steps EXCEPT ![u][s] = row]
    /\ UNCHANGED <<status, triggered>>

(* The step that s waits for, if any, is done. *)
Enabled(u, s) == \A p \in Chained : Downstream[p] = s => steps[u][p] = "done"

Complete(u) == \A s \in Steps : steps[u][s] # "absent"

Init ==
    /\ steps = [u \in Uploads |-> [s \in Steps |-> "absent"]]
    /\ status = [u \in Uploads |-> "processing"]
    /\ triggered = [u \in Uploads |-> [s \in Steps |-> 0]]

Create(u, s) ==
    /\ steps[u][s] = "absent"
    /\ Move(u, s, "pending")

Begin(u, s) ==
    /\ steps[u][s] = "pending"
    /\ Complete(u) /\ Enabled(u, s)
    /\ Move(u, s, "processing")

(* The step may have been settled or canceled since it began. *)
Dispatch(u, s) ==
    /\ steps[u][s] \notin {"absent", "pending"}
    /\ triggered[u][s] = 0
    /\ Complete(u) /\ Enabled(u, s)
    /\ triggered' = [triggered EXCEPT ![u][s] = 1]
    /\ UNCHANGED <<steps, status>>

Settle(u, s) ==
    /\ steps[u][s] = "processing"
    /\ Move(u, s, "done") \/ Move(u, s, "failed")

Cancel(u, s) ==
    /\ steps[u][s] \in {"pending", "processing"}
    /\ Move(u, s, "canceled")

SetStatus(u, st) ==
    /\ st = "finished" => \A s \in Chained \cup {"publish"} : steps[u][s] = "done"
    /\ status' = [status EXCEPT ![u] = st]
    /\ UNCHANGED <<steps, triggered>>

Next ==
    \E u \in Uploads :
        \/ \E s \in Steps : \/ Create(u, s) \/ Begin(u, s) \/ Dispatch(u, s)
                            \/ Settle(u, s) \/ Cancel(u, s)
        \/ \E st \in {"processing", "finished", "failed"} : SetStatus(u, st)

Spec == Init /\ [][Next]_chainVars
================================================================================
