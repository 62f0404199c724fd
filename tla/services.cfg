SPECIFICATION Spec
CONSTANTS
    Deployed = {"orchestrator", "metadata"}
    Misconfigured = {}
    Queues = {"metadata", "result"}
    Messages = {"stepmsg", "resultmsg"}
    Route <- MCRoute
    Publisher <- MCPublisher
    Malformed = {"resultmsg"}
    MaxRetries = 1
    MaxFaults = 2
INVARIANTS
    IndInv
    NothingVanishes
    DeadAfterEveryAttempt
PROPERTIES
    KeptOnceServed
    HandledUnlessStranded
CHECK_DEADLOCK FALSE
