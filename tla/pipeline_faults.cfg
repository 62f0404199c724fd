SPECIFICATION MCSpec
CONSTANTS
    Uploads = {u1}
    Starters = {a1}
    Handlers = {h1}
    Replicas = {r1}
    MaxRetries = 1
    MaxFaults = 2
INVARIANTS PipelineInv ResultsAreCommitted StallsAfterInitialSteps
PROPERTIES ImplementsOrchestrator ImplementsWorkers StartNotLost
CHECK_DEADLOCK FALSE
