------------------------------ MODULE MCRenditions -----------------------------
(***************************************************************************)
(* Renditions for TLC.  Its state space is finite as it stands: nothing is *)
(* bounded but the replicas and the streams of the uploaded file.          *)
(***************************************************************************)
EXTENDS Renditions

CONSTANTS Extractors, Transcoders, Replicas     \* replicas of the services

Consumers ==
    ({"extract_metadata"} \X Extractors) \cup ({"transcode"} \X Transcoders)
        \cup ({"generate_thumbnail", "segment", "publish"} \X Replicas)

(* 480p below the first video stream and 360p; the second is not looked at. *)
TwoTargets == <<[codec |-> "audio", height |-> 0], [codec |-> "video", height |-> 500],
                [codec |-> "video", height |-> 1080]>>

OneTarget == <<[codec |-> "video", height |-> 400]>>

(* What the orchestrator of today dispatches: the initial steps, no others. *)
InitialSteps == {initialSteps[k] : k \in DOMAIN initialSteps}

InitialSpec == Init /\ [][Next /\ dispatched' \subseteq InitialSteps]_vars
================================================================================
