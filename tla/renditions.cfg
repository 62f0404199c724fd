SPECIFICATION Spec
CONSTANTS
    Extractors = {e1}
    Transcoders = {t1}
    Replicas = {r1}
    WorkerIds <- Consumers
    Streams <- TwoTargets
INVARIANTS IndInv DoneIsDelivered MasterIsPlayable
PROPERTY InterruptedBatchIsFinal
CHECK_DEADLOCK FALSE
