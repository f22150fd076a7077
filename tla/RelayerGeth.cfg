SPECIFICATION FairSpec
CONSTANTS
    Wats = {ethusd}
    Pairs = {ethusd}
    Feeders = {f1}
    Vals = {1}
    ZeroTime <- MCZeroTime
    MaxTime = 2
    MaxNet = 1
    Spread = 50
    Expiration = 1
    Bars = {1}
    Orcls = {{f1}}
    FeedsOutcomes = {"ok"}
    ClientNeedsSender = TRUE
    NoPair = NoPair
PROPERTY DueIsEventuallyDone
