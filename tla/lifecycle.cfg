SPECIFICATION MCFairSpec
CONSTANTS
    Videos = {v1, v2}
    Clients = {c1, c2}
    Readers = {c1}
    Sweepers = {x1}
    BatchLimit = 1
    DefaultLimit = 1
    MaxListLimit = 2
    MaxFaults = 1
INVARIANTS
    APIIndInv
    OneEventIffHandedOver
    HandedOverIsStored
    AnswersAreTrue
    RefusedChangedNothing
PROPERTIES
    ExpiresOnlyAbandoned
    EveryVideoSettles
CHECK_DEADLOCK FALSE
