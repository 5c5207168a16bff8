SPECIFICATION Spec
CONSTANTS
    f1 = f1
    f2 = f2
    Feeds <- MCFeeds
    Readers = {}
    RingOf <- MCRingOf
    RegisteredAs <- MCName
    LookedUpAs <- MCName
    Rings = 1
    Capacity = 1
    BATCH_SIZE = 1
    MAX_SYMBOLS = 1
    MAX_DEPTH = 2
    UPDATE_LEVELS = 2
    TickSize = 2
    LotSize = 2
    Ids <- MCIds
    Payloads <- MCPayloads
INVARIANTS
    TypeOK
    BooksGood
    QueuedSymbolsValid
PROPERTIES
    LadderRefinement
CHECK_DEADLOCK FALSE
