---------------------------- MODULE MCVideoPipeline ----------------------------
(***************************************************************************)
(* VideoPipeline for TLC.  MaxFaults bounds the failed calls, crashes,     *)
(* closed channels, unrouted publishes, repeated relays and late finalize  *)
(* requests of one behaviour.                                              *)
(***************************************************************************)
EXTENDS VideoPipeline

CONSTANT MaxFaults

VARIABLE faults

MCInit == Init /\ faults = 0

(* What follows a closed channel is no further fault. *)
Unheard ==
    \/ \E c \in O!Consumers : O!RetryUnheard(c) /\ UNCHANGED <<wprivate, relayed>>
    \/ \E w \in W!WorkerIds : W!RetryUnheard(w) /\ UNCHANGED <<overs, relayed>>

MCNext ==
    \/ (Work \/ Unheard) /\ UNCHANGED faults
    \/ faults < MaxFaults /\ faults' = faults + 1 /\ Fault

MCSpec == MCInit /\ [][MCNext]_<<vars, faults>>
================================================================================
