-------------------------- MODULE MCOutboxDispatcher ---------------------------
(***************************************************************************)
(* OutboxDispatcher for TLC.  MaxRefusals bounds the failed publishes and  *)
(* MaxFaults the abandoned runs of one behaviour; both are finite in the   *)
(* liveness properties, too, which say what happens once they are over.    *)
(***************************************************************************)
EXTENDS OutboxDispatcher

CONSTANTS MaxRefusals, MaxFaults

VARIABLES refusals, faults

mcvars == <<vars, refusals, faults>>

MCInit == Init /\ refusals = 0 /\ faults = 0

Dispatches(d) == Dispatch(d) /\ UNCHANGED <<refusals, faults>>

Passes(e) == DelayPasses(e) /\ UNCHANGED <<refusals, faults>>

MCNext ==
    \/ \E d \in Dispatchers : Dispatches(d)
    \/ \E e \in Events : Passes(e)
    \/ /\ \E e \in Events : Commit(e)
       /\ UNCHANGED <<refusals, faults>>
    \/ /\ refusals < MaxRefusals
       /\ refusals' = refusals + 1
       /\ \E d \in Dispatchers : Refusal(d)
       /\ UNCHANGED faults
    \/ /\ faults < MaxFaults
       /\ faults' = faults + 1
       /\ \E d \in Dispatchers : Abandon(d)
       /\ UNCHANGED refusals

MCSpec == MCInit /\ [][MCNext]_mcvars

(* Every ticker fires again and a run goes on; delays pass. *)
MCFairSpec ==
    /\ MCSpec
    /\ \A d \in Dispatchers : WF_mcvars(Dispatches(d))
    /\ \A e \in Events : WF_mcvars(Passes(e))
================================================================================
