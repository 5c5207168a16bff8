SPECIFICATION FairSpec
CONSTANTS
    spot = spot
    futures = futures
    other = other
    Feeds <- MCFeeds
    Readers = {spot}
    RingOf <- MCRingOf
    RegisteredAs <- MCName
    LookedUpAs <- MCName
    Rings = 2
    Capacity = 1
    BATCH_SIZE = 2
    MAX_SYMBOLS = 2
    MAX_DEPTH = 1
    UPDATE_LEVELS = 1
    TickSize = 1
    LotSize = 1
    Ids = {1, 2}
    Payloads <- MCPayloads
INVARIANTS
    Drained
PROPERTIES
    SnapshotsVersioned
    AcceptedIsApplied
CHECK_DEADLOCK FALSE
