SPECIFICATION Spec
CONSTANTS
    c1 = c1
    c2 = c2
    w1 = w1
    w2 = w2
    w3 = w3
    NoClient = NoClient
    NoWork = NoWork
    LazyBegin = FALSE
    Client <- MCClient
    Backend <- MCBackend
    UrlList <- MCUrlList
    Work <- MCTwoWork
    Immediates <- MCImmediates
    MaxTxn = 1
    Faults <- MCFaultsInside
CHECK_DEADLOCK FALSE
INVARIANTS
    FailedNowhere
