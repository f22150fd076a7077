CONSTANTS
    EVMAddresses = {"a", "b"}
    EVMLogs <- MCLogs
    BlockLimit = 3
    BlockConfirms = 1
    PrefetchPeriod = 2
    EVMStart = 3
    EVMMaxBlock = 7
    Lag = 1
    MaxNulls = 1
    SnTxs <- MCTxs
    SnStart = 1
    SnPeriod = 1
    Evts = {"e1", "e2"}
    EvtDate <- MCDate
    SignableEvts = {"e1"}
    ReplayPeriods <- MCPeriods
    Source = "evm"
    Interval = 2
    PubMaxTime = 7
    EsMsgs <- MCEsMsgs
    EventTypes = {"teleport"}
    EsTTL = 3
    GcEvery = 2
    GcWrites = 8
    EsMaxTime = 6
    Lairs = {"l1"}
    Authors = {"a"}
    RdEvents <- MCRdEvents
    RdSizes = {1, 2}
    RdMaxDate = 2
    RdTTL = 3
    Quantum = 2
    MemLimit = 3
    Cluster = FALSE
    RdMaxTime = 8
SPECIFICATION EventsSpec
INVARIANTS
    BlocksAskedRight
    TeleportsComplete
    ReplaysKeepPeriods
    StoreServesNewest
    MemoryWithinLimit
PROPERTIES
    FetchCatchesUp
    AcceptedCatchesUp
    OfferedIsHandedOver
    NeverOverwrittenByOlder
\* A provider or a store may be cancelled, which ends the behaviour.
CHECK_DEADLOCK FALSE
