\* Two slots, two attempts, a deadline of 2.
SPECIFICATION FairSpec
CONSTANTS
    r1 = r1
    r2 = r2
    b1 = b1
    b2 = b2
    b3 = b3
    Requests = {r1, r2}
    Batches = {b1, b2, b3}
    batches <- MCBatches
    MaxInflight = 2
    MaxAttempts = 2
    InitialDelay = 1
    MaxDelay = 1
    RetryTimeout = 2
    RetryAfters = {0, 2}
    MaxTime = 3
INVARIANTS
    TypeOK
    UpstreamSlotsConserved
    RetryInTime
    SendsAccounted
    NothingAfterAnswer
PROPERTIES
    RequestsAnswered
CHECK_DEADLOCK FALSE
