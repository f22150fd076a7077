SPECIFICATION ServicesSpec
CONSTANTS
    N = 5
    Kind <- MCKind
    Endpoints = {e1, e2, e3}
    Honest = {e1, e2}
    Values = {1, 2, 4}
    MaxBlocksBehind = 1
    Threads = {1, 2}
    Entries <- MCEntries
    Metrics <- MCMetrics
    Interval = 2
    Level = 1
    MaxLogs = 2
    MaxPushes = 1
    MaxLogTime = 2
    Conn = {c1, c2}
    Topic = {price}
    MaxPub = 3
    QueueLen = 2
    HostOutcomes = {TRUE, FALSE}
    CancelWhen = {"host", "pubsub", "hostOnly", "topics", "event", "up"}
    Author = {"a", "x"}
    Allowed = {"a"}
    Relay = {"r", "self"}
    Self = "self"
    Rate = 1
    Burst = 2
    RelayRate = 1
    RelayBurst = 3
    IgnoreAge = 1
    RejectAge = 2
    Sizes = {1, 3}
    Transit = 1
    VMaxTime = 3
    VMaxMsgs = 3
INVARIANTS
    ReportsLast
    ErrorIsNotLost
    AnswersAreSound
    MetricsConserved
    MessagesCarried
    VerdictsAreRight
PROPERTIES
    OneFailsAllStop
    RequestIsAnswered
    LoggerLive
    AuthorNotPenalized
\* A supervisor that has closed Wait and a request that was answered are over.
CHECK_DEADLOCK FALSE
