SPECIFICATION Spec
CONSTANTS
    f1 = f1
    f2 = f2
    Feeds <- MCFeeds
    Readers = {}
    RingOf <- MCRingOf
    RegisteredAs <- MCRegisteredAs
    LookedUpAs <- MCLookedUpAs
    Rings = 2
    Capacity = 1
    BATCH_SIZE = 1
    MAX_SYMBOLS = 2
    MAX_DEPTH = 1
    UPDATE_LEVELS = 1
    TickSize = 1
    LotSize = 1
    Ids = {1}
    Payloads <- MCPayloads
INVARIANT RegisteredIsFound
CHECK_DEADLOCK FALSE
