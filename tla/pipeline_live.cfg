SPECIFICATION FaultFreeSpec
CONSTANTS
    Uploads = {u1}
    Starters = {a1, a2}
    Handlers = {h1, h2}
    Replicas = {r1}
    MaxRetries = 3
INVARIANTS WorkInv AtRest
PROPERTIES InitialStepsSettle FailureStopsUpload
CHECK_DEADLOCK FALSE
