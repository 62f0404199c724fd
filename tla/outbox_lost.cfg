SPECIFICATION MCFairSpec
CONSTANTS
    Events = {e1}
    Dispatchers = {d1}
    BatchLimit = 2
    MaxRefusals = 1
    MaxFaults = 1
PROPERTIES NoLostSignal
CHECK_DEADLOCK FALSE
