--------------------------- MODULE MCUploadLifecycle ---------------------------
(***************************************************************************)
(* UploadLifecycle for TLC.  MaxFaults bounds the failed requests and      *)
(* sweeps of one behaviour.                                                *)
(***************************************************************************)
EXTENDS UploadLifecycle

CONSTANT MaxFaults

VARIABLE faults

mcvars == <<vars, faults>>

MCInit == Init /\ faults = 0

Sweeps(x) == Sweep(x) /\ UNCHANGED faults

MCNext ==
    \/ \E x \in Sweepers : Sweeps(x)
    \/ (\E c \in Clients : Serve(c)) /\ UNCHANGED faults
    \/ Environment /\ UNCHANGED faults
    \/ faults < MaxFaults /\ faults' = faults + 1 /\ Fault

MCSpec == MCInit /\ [][MCNext]_mcvars
================================================================================
