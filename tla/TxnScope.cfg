SPECIFICATION Spec
CONSTANTS
    Work = {w1, w2}
    MaxNest = 3
    LazyBegin = FALSE
INVARIANTS
    TypeOK
    NeverLeftOpen
    ActiveNotDurable
    UndoneNeverDurable
    CommittedIsDurable
