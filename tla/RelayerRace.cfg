SPECIFICATION Spec
CONSTANTS
    Wats = {ethusd, other}
    Pairs = {ethusd}
    Feeders = {f1, f2}
    Vals = {0, 1, 2}
    ZeroTime <- MCZeroTime
    MaxTime = 3
    MaxNet = 2
    Spread = 50
    Expiration = 1
    Bars = {1}
    Orcls = {{f1, f2}, {}}
    FeedsOutcomes = {"ok", "callFailed", "decodeFailed"}
    ClientNeedsSender = FALSE
    NoPair = NoPair
SYMMETRY FeederSymmetry
INVARIANTS
    NewestKept
    AcceptedOnlyIfUnchanged
    SubmittedIsGenuine
PROPERTIES
    AgeNeverGoesBack
    OnlyDueUpdates
