SPECIFICATION InitialSpec
CONSTANTS
    Extractors = {e1}
    Transcoders = {}
    Replicas = {r1}
    WorkerIds <- Consumers
    Streams <- OneTarget
INVARIANT InitialWorkIsStored
CHECK_DEADLOCK FALSE
