SPECIFICATION Spec
CONSTANTS
    FeedExchanges = {"binance", "bybit"}
    AssetTypes = {"spot"}
    SpotSymbols = 11
    FuturesSymbols = 10
    MaxRetries = 1
    MaxOpens = 4
    MsgExchanges = {"coinbase", "bybit", "deribit"}
    Levels = {"bid", "ask"}
    Quantities = {0, 1}
    ChannelCapacity = 1
    BufferCapacity = 1
    MaxChanges = 3
    MaxTrades = 1
    MaxReconnects = 1
    MaxWire = 2
    Senders = {"binary", "optimized", "ordered", "buffered", "multi_port"}
    SenderTasks = {1, 2}
    BatchSize = 3
    Sockets = 2
    Window = 1
    MaxPackets = 3
    MaxTime = 2
    Stamps = {0, 1, 2}
    MaxSent = 4
    MaxCopies = 1
    ManagerTasks = {1, 2}
    UpdateCapacity = 1
    BooksCapacity = 1
    MaxUpdates = 4
    SnapshotInterval = 1
    MaxSnapshots = 1
    MaxSequence = 3
    MaxWrites = 3
    MaxCrashes = 2
    Instruments = {"a"}
    OrderSizes = {1, 2}
    FillPrices = {1, 2}
    MaxPosition = 2
    MaxDailyLoss = 1
    MaxExposure = 4
    MaxOrders = 2
    MaxReports = 2
    OrderLevels = 2
    SkewUnit = 2
    MaxPlaced = 3
    Binaries = {"feeder_direct", "feeder_buffered"}
    Selected = {"binance", "bithumb", "okx"}
    MaxRounds = 1
    StockFeeds = {"LS", "LS_Enhanced"}
    Lifetime = 4
    Margin = 2
    Requests = 4
    MaxStreams = 7
    LogCallers = {"a", "b"}
    LogLimit = 2
    MaxEntries = 4
    KdbBatch = 2
    MaxStored = 4
    LogBatch = 2
    MaxRouted = 3
    TracedPackets <- MCTracedPackets
    MaxTraced = 4
    ReceiptTime = 2003
    BurstSize = 1
    Digits = 1
    Word = 128
    Scaled = {5, 20}
    Precisions = {0, 1, 2}
    Depths = {0, 1, 7, 8}
    MaxBinary = 2
INVARIANTS
    PlatformTypeOK
    RoundsApart
    BooksMirror
    InOrderOnce
    
    OneBuilder
    NeverBack
    
    KeptUntilTaken
    WaysOut
    ReadIsSubscribed
PROPERTIES
    LatestFirst
    LimitIsFatal
CHECK_DEADLOCK FALSE
