CONSTANTS
    Handlers = {1, 2}
    KindChoices <- MCKinds
    Wanted <- MCWanted
    Aliases <- MCAliases
    Workers = 1
    Retry = 2
    Contracts <- MCContracts
    RefRates <- MCRefs
    RefInverse <- MCRefInverse
    SameSymbol <- MCSameSymbol
    NameOrder <- MCOrder
    Blocks = {0, 10}
    DefaultFresh = 1
    DefaultExpiry = 5
    RateAssets = {"A", "B", "C"}
    RateWorth <- MCRateWorth
    RateTimes = {1, 2}
    NodePairs <- MCNodePairs
    MaxChildren = 3
    Node <- MCNode
    Kind <- MCKind
    PairOf <- MCPair
    Branches <- MCBranches
    OriginOf <- MCOrigin
    AskedModels <- MCModels
    MinSources = 2
    Threshold = 40
    Worth <- MCWorth
    Answers <- MCAnswers
    Fresh = 1
    Expiry = 1
    MaxConcurrent = 2
    MaxCalls = 2
    NextMaxTime = 3
SPECIFICATION PricesSpec
INVARIANTS
    AnsweredAsAsked
    GraphVerdictRight
    RateIsRight
    ServedIsSound
PROPERTIES
    FetchReturns
    UpdateEnds
\* A fetch that has returned, a configuration that is loaded and a call that has
\* ended are over.
CHECK_DEADLOCK FALSE
