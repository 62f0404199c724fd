------------------------------- MODULE StepTable -------------------------------
(***************************************************************************)
(* The upload_steps table: which rows the pipeline has, and what each of   *)
(* the four conditional UPDATEs of UpdateStepStatus does to a row.  Every  *)
(* writer (orchestrator, workers) changes a row only through these.        *)
(***************************************************************************)
EXTENDS Naturals, Sequences

(* The rows CreateUploadSteps asks for, in the order it asks for them. *)
pipelineSteps ==
    <<"generate_thumbnail", "extract_metadata", "transcode", "segment", "publish">>

(* The steps ProcessUploadProcess triggers itself, in its order. *)
initialSteps == <<"extract_metadata", "generate_thumbnail">>

Steps == {"generate_thumbnail", "extract_metadata", "transcode", "segment", "publish"}

(* The switch of HandleStepResult: the step that a finished step triggers. *)
Chained == {"extract_metadata", "transcode", "segment"}

Downstream ==
    [s \in Chained |-> IF s = "extract_metadata" THEN "transcode"
                       ELSE IF s = "transcode" THEN "segment" ELSE "publish"]

(* "absent" stands for a row that was never inserted. *)
RowStates == {"absent", "pending", "processing", "done", "failed", "canceled"}

Targets == {"processing", "done", "failed", "canceled"}

(* The WHERE clause of the UPDATE that each target status selects. *)
Allowed(target) ==
    IF target = "processing" THEN {"pending"}
    ELSE IF target = "canceled" THEN {"pending", "processing"}
    ELSE {"processing"}                             \* done, failed

(* RowsAffected() = 1: what the caller reads back as Applied. *)
Applies(row, target) == row \in Allowed(target)

Update(row, target) == IF Applies(row, target) THEN target ELSE row

(* INSERT ... ON CONFLICT (upload_id, step) DO NOTHING. *)
Insert(row) == IF row = "absent" THEN "pending" ELSE row

Terminal == {"done", "failed", "canceled"}

(* A step some trigger has been applied to and nothing has canceled. *)
Entered == {"processing", "done", "failed"}
================================================================================
