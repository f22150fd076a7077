SPECIFICATION FairSpec
CONSTANTS
    ethusd = ethusd
    o1 = o1
    o2 = o2
    Pairs = {ethusd}
    Origins = {o1, o2}
    Children <- MCChildren
    PairList <- MCPairList
    MinSources = 1
    MinTTL = 1
    MaxTTL = 1
    FetchedPrices = {3, 5}
    Second = 2
    ZeroTime <- MCZeroTime
    MaxClock = 2
    Self = self
    PriceScale = 2
    MaxVal = 2
    MaxNet = 1
    Reliable = {o2}
INVARIANTS
    BroadcastIsSound
    LastPriceServed
PROPERTIES
    ImplementsPriceNet
    ReliableOriginsStayFresh
