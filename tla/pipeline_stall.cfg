SPECIFICATION FaultFreeSpec
CONSTANTS
    Uploads = {u1}
    Starters = {a1}
    Handlers = {h1}
    Replicas = {r1}
    MaxRetries = 1
PROPERTY TranscodeFollowsMetadata
CHECK_DEADLOCK FALSE
