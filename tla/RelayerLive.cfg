SPECIFICATION FairSpec
CONSTANTS
    Wats = {ethusd}
    Pairs = {ethusd}
    Feeders = {f1, f2}
    Vals = {1}
    ZeroTime <- MCZeroTime
    MaxTime = 2
    MaxNet = 2
    Spread = 50
    Expiration = 1
    Bars = {1}
    Orcls = {{f1, f2}}
    FeedsOutcomes = {"ok"}
    ClientNeedsSender = FALSE
    NoPair = NoPair
PROPERTY DueIsEventuallyDone
