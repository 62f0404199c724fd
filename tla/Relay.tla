---------------------------------- MODULE Relay --------------------------------
(***************************************************************************)
(* What a transactional outbox promises: an event is published after it    *)
(* was committed, at least once before it is closed, and never once it is. *)
(* Says nothing of batches, claims, delays or dispatchers.                 *)
(***************************************************************************)
EXTENDS Naturals

CONSTANT Events

VARIABLES
    committed,      \* events some transaction has committed
    copies,         \* copies[e]: how often e was published
    closed          \* events the relay has finished with

relayVars == <<committed, copies, closed>>

Init ==
    /\ committed = {}
    /\ copies = [e \in Events |-> 0]
    /\ closed = {}

Commit(e) ==
    /\ committed' = committed \cup {e}
    /\ UNCHANGED <<copies, closed>>

Publish(e) ==
    /\ e \in committed \ closed
    /\ copies' = [copies EXCEPT ![e] = @ + 1]
    /\ UNCHANGED <<committed, closed>>

Close(e) ==
    /\ e \in committed /\ copies[e] > 0
    /\ closed' = closed \cup {e}
    /\ UNCHANGED <<committed, copies>>

Next == \E e \in Events : Commit(e) \/ Publish(e) \/ Close(e)

Spec == Init /\ [][Next]_relayVars
================================================================================
