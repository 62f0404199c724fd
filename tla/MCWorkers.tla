------------------------------- MODULE MCWorkers -------------------------------
(***************************************************************************)
(* Workers for TLC.  MaxInFlight bounds the step messages in the queues    *)
(* when the environment dispatches, MaxFaults the failed calls and crashes *)
(* of one behaviour, Dispatched the steps the environment dispatches.      *)
(***************************************************************************)
EXTENDS Workers, Functions, TLC

CONSTANTS MaxInFlight, MaxFaults, Dispatched

VARIABLE faults

mcvars == <<wvars, faults>>

InFlight == FoldFunction(+, 0, stepQ)

MCInit == Init /\ faults = 0

MCEnvironment ==
    \/ \E u \in Uploads, s \in Dispatched :
          \/ Dispatch(u, s) /\ InFlight' \leq MaxInFlight
          \/ \E row \in RowStates : OrchestratorMoves(u, s, row)
    \/ \E u \in Uploads, st \in UploadStatuses : StatusMoves(u, st)

MCNext ==
    \/ UNCHANGED faults /\ \E w \in WorkerIds : Work(w)
    \/ UNCHANGED faults /\ MCEnvironment
    \/ /\ faults < MaxFaults
       /\ faults' = faults + 1
       /\ \E w \in WorkerIds : Fault(w)

MCSpec == MCInit /\ [][MCNext]_mcvars

Symmetry == Permutations(Replicas)
================================================================================
