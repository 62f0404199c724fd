------------------------------- MODULE MCUploadAPI -----------------------------
(***************************************************************************)
(* UploadAPI for TLC.  MaxFaults bounds the failed calls of one behaviour. *)
(* Handlers go on by themselves, uploads become overdue in time, and the   *)
(* expirer's ticker sweeps again and again; clients need not do anything.  *)
(* Only the Readers send the requests that touch no row: a second one at   *)
(* the same time would change nothing for the first.                       *)
(***************************************************************************)
EXTENDS UploadAPI

CONSTANTS MaxFaults, Readers

VARIABLE faults

mcvars == <<apivars, faults>>

MCInit == APIInit /\ faults = 0

Sweeps(x) == Sweep(x) /\ UNCHANGED <<reply, faults>>

Proceeds(c) == Proceed(c) /\ UNCHANGED faults

TimePasses(v) == BecomesOverdue(v) /\ UNCHANGED <<reply, faults>>

MCNext ==
    \/ \E x \in Sweepers : Sweeps(x)
    \/ \E c \in Clients : Proceeds(c)
    \/ (\E c \in Clients : Arrive(c)) /\ UNCHANGED faults
    \/ (\E c \in Readers : Browse(c)) /\ UNCHANGED faults
    \/ Environment /\ UNCHANGED <<reply, faults>>
    \/ /\ faults < MaxFaults /\ faults' = faults + 1
       /\ \/ \E c \in Clients : CallFails(c)
          \/ \E c \in Readers : BrowseFails(c)
          \/ (\E x \in Sweepers : SweepAborts(x)) /\ UNCHANGED reply

MCFairSpec ==
    /\ MCInit /\ [][MCNext]_mcvars
    /\ \A x \in Sweepers : WF_mcvars(Sweeps(x))
    /\ \A c \in Clients : WF_mcvars(Proceeds(c))
    /\ \A v \in Videos : WF_mcvars(TimePasses(v))
================================================================================
