SPECIFICATION FairSpec
CONSTANTS
    Messages <- MCMessages
    MaxId = 3
    UpdateCapacity = 2
    SnapshotCapacity = 1
    MAX_BUFFER_SIZE = 2
    DrainSize = 1
    MAX_RESYNC_ATTEMPTS = 2
    PublishEvery = 2
INVARIANTS
    TypeOK
    LiveMirrors
    PublishedMirrors
PROPERTY Drains
CHECK_DEADLOCK FALSE
