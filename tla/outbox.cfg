SPECIFICATION MCFairSpec
CONSTANTS
    Events = {e1, e2, e3}
    Dispatchers = {d1, d2}
    BatchLimit = 2
    MaxRefusals = 3
    MaxFaults = 2
INVARIANTS IndInv OneCopyPerClaim
PROPERTIES ImplementsRelay RelayedOrStranded
CHECK_DEADLOCK FALSE
