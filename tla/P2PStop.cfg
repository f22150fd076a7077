CONSTANTS
    Conn = {c1}
    Topic = {price, event}
    MaxPub = 0
    QueueLen = 1
    HostOutcomes = {TRUE, FALSE}
    CancelWhen = {"up"}
    Author = {"a", "x"}
    Allowed = {"a"}
    Relay = {"r", "self"}
    Self = "self"
    Rate = 1
    Burst = 2
    RelayRate = 1
    RelayBurst = 3
    IgnoreAge = 1
    RejectAge = 2
    Sizes = {1, 2}
    Transit = 1
    VMaxTime = 0
    VMaxMsgs = 0
SPECIFICATION P2PSpec
PROPERTY NodeStops
CHECK_DEADLOCK FALSE
