CONSTANTS
    Handlers = {1, 2}
    KindChoices <- MCPost
    Wanted <- MCWanted
    Aliases <- MCAliases
    Workers = 1
    Retry = 2
    Contracts <- MCContracts
    RefRates <- MCRefs
    RefInverse <- MCRefInverse
    SameSymbol <- MCSameSymbol
    NameOrder <- MCOrder
    Blocks = {0, 10}
SPECIFICATION FetchSpec
INVARIANT RetryGivesPrices
CHECK_DEADLOCK FALSE
