SPECIFICATION FairSpec
CONSTANTS
    c1 = c1
    c2 = c2
    c3 = c3
    c4 = c4
    Calls = {c1, c2, c3}
    Workers = 2
    Timeout = 1
    QueueSize = 1
    MaxTime = 2
INVARIANTS
    TypeOK
    SlotsConserved
    DatabaseBounded
    CallInTime
    RecordsAccounted
PROPERTIES
    NothingStartsAfterClose
    EveryCallReturns
    CloseReturns
CHECK_DEADLOCK FALSE
