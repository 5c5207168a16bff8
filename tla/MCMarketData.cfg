SPECIFICATION Spec
CONSTANTS
    FeedExchanges = {"binance", "bithumb", "bybit", "coinbase", "deribit", "okx", "upbit"}
    AssetTypes = {"spot"}
    SpotSymbols = 10
    FuturesSymbols = 10
    MaxRetries = 1
    MaxOpens = 3
    MsgExchanges = {"binance", "bithumb", "bybit", "coinbase", "deribit", "okx", "upbit"}
    Levels = {"bid"}
    Quantities = {0, 1}
    ChannelCapacity = 1
    BufferCapacity = 1
    MaxChanges = 2
    MaxTrades = 1
    MaxReconnects = 1
    MaxWire = 2
    Writers = {"w1", "w2"}
    Readers = {"r1"}
    MaxCalls = 2
    EngineThreads = {1, 2}
    Symbols = {"a", "b"}
    Prices = {1, 2}
    Amounts = {0, 1, 2}
    MaxL2Updates = 3
    NbboTasks = {1, 2}
    Venues = {"a", "b"}
    BidPrices = {1, 2}
    AskPrices = {1}
    QuoteTimes = {0, 2}
    MaxStale = 1
    MaxNbboCalls = 3
    Connectors = {1, 2}
    AttemptWindow = 2
    MaxAttempts = 2
    MaxConcurrent = 3
    MaxTicks = 4
    ConnectAttempts = 2
    MaxFailures = 3
    DelayCap = 1
    MaxUnifiedRounds = 5
    ConnectionTimeout = 1
    MaxConnections = 2
    MaxErrors = 1
INVARIANTS
    MarketDataTypeOK
    EvenAtRest
    
    CachedIsBest
    RetriesBounded
PROPERTIES
    SnapshotsAtomic
    EveryStreamTried
    
CHECK_DEADLOCK FALSE
