SPECIFICATION MCSpec
CONSTANTS
    Uploads = {u1}
    Starters = {a1}
    Handlers = {h1, h2}
    MaxRetries = 1
    Results <- ChainResults
SYMMETRY Replicas
INVARIANTS DispatchOnce IndInv ChainInOrder FinishedMeansChainDone
PROPERTY ImplementsChain
CHECK_DEADLOCK FALSE
