CONSTANTS
    Flush = 3
    Skew = 1
    BookTTL = 2
    ChanSize = 1
    MaxMsgs = 2
    WebMaxTime = 7
    Transports = {1, 2}
    Readers = {"r", "s"}
    Patient = {"s"}
    Queue = 1
    MaxBroadcasts = 2
SPECIFICATION MCSpec
INVARIANT NothingSkipped
PROPERTIES
    ReplayProtection
    WebShutdownCompletes
    ChannelsLive
\* A transport may be cancelled.
CHECK_DEADLOCK FALSE
