\* Two threads, one connection at a time, and a cache of two units.
SPECIFICATION Spec
CONSTANTS
    None = None
    t1 = t1
    t2 = t2
    t3 = t3
    Threads = {t1, t2}
    PoolSize = 1
    TTL = 2
    MaxPools = 2
    MaxTime = 4
SYMMETRY Symmetry
INVARIANTS
    PoolsAccounted
PROPERTIES
    SeenWithinTTL
CHECK_DEADLOCK FALSE
