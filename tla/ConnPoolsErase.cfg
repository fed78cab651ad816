SPECIFICATION PoolsSpec
CONSTANTS
    c1 = c1
    c2 = c2
    p1 = p1
    p2 = p2
    k1 = k1
    k2 = k2
    k3 = k3
    NoClient = NoClient
    NoPool = NoPool
    NoConn = NoConn
    NoKey = NoKey
    Client <- MCClient
    PoolId <- MCPoolId
    Conn <- MCConn
    Key <- MCKeys
    Limits <- MCLimits
    Careful = FALSE
SYMMETRY MCSymmetry
INVARIANTS
    ReferencedPoolLives
