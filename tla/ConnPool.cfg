SPECIFICATION FairSpec
CONSTANTS
    c1 = c1
    c2 = c2
    k1 = k1
    k2 = k2
    k3 = k3
    Client <- MCClient
    Conn <- MCConn
    Spares <- MCSpares
    NoClient = NoClient
    NoConn = NoConn
    MaxDepth = 1
    LazyBegin = FALSE
INVARIANTS
    TypeOK
    ExclusiveUse
    SparesAreSettled
    SpareLimit
    SuspectNeverPooled
PROPERTIES
    NoStaleHandout
    ImplementsLease
    MutexReleased
