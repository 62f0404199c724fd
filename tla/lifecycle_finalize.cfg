SPECIFICATION MCSpec
CONSTANTS
    Videos = {v1}
    Clients = {c1}
    Sweepers = {x1}
    BatchLimit = 1
    MaxFaults = 0
PROPERTIES FinalizesOnlyPending
CHECK_DEADLOCK FALSE
