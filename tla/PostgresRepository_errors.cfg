\* One thread is enough for an error that does not reach the cache.
SPECIFICATION Spec
CONSTANTS
    None = None
    t1 = t1
    t2 = t2
    t3 = t3
    Threads = {t1, t2}
    PoolSize = 1
    TTL = 2
    MaxPools = 2
    MaxTime = 3
SYMMETRY Symmetry
PROPERTIES
    SchemaErrorInvalidates
CHECK_DEADLOCK FALSE
