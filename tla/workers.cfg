SPECIFICATION MCSpec
CONSTANTS
    Uploads = {u1}
    Replicas = {r1, r2}
    MaxRetries = 2
    MaxInFlight = 2
    MaxFaults = 2
    Dispatched = {"publish"}
SYMMETRY Symmetry
INVARIANTS ResultMatchesRow ReportedOnce IndInv
PROPERTIES StepNotLost FailedIsDeadLettered
CHECK_DEADLOCK FALSE
