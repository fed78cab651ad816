SPECIFICATION Spec
CONSTANTS
    s1 = s1
    s2 = s2
    c1 = c1
    c2 = c2
    w1 = w1
    LastVal = LastVal
    NoStmt = NoStmt
    Stmt <- MCStmt
    Cursor <- MCCursor
    Work <- MCWork
    Scoped = TRUE
    MaxNumber = 4
    MaxDepth = 2
SYMMETRY MCSymmetry
INVARIANTS
    TypeOK
    HandlesAgree
    QueueDrained
    CursorsClosed
    CommitKeepsWork
PROPERTY
    ImplementsDriver
