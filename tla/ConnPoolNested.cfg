SPECIFICATION Spec
CONSTANTS
    c1 = c1
    c2 = c2
    k1 = k1
    k2 = k2
    k3 = k3
    Client <- MCClient
    Conn <- MCConn
    Spares <- MCSpares
    NoClient = NoClient
    NoConn = NoConn
    MaxDepth = 2
    LazyBegin = FALSE
INVARIANTS
    SparesAreSettled
