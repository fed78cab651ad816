SPECIFICATION ValueSpec
CONSTANTS
    ByteValues = 2
    Exact = 64
    Data <- MCData
    HostData <- MCHostData
    FacadeData <- MCFacadeData
    Garbage <- MCGarbage
INVARIANTS
    SentAsSet
    NumbersKept
    NullIsReported
