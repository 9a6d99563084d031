\* Two requests, one of which may wait while the other reloads; two changes.
SPECIFICATION Spec
CONSTANTS
    None = None
    Missing = Missing
    NotAnObject = NotAnObject
    r1 = r1
    r2 = r2
    t0 = t0
    t1 = t1
    t2 = t2
    Requests = {r1, r2}
    Times = {t0, t1, t2}
    Epoch = t0
    MaxWrites = 2
    Names <- MCNames
    Builtin <- MCBuiltin
    Extra <- MCExtra
    Contents <- MCContents
    EnvContent <- MCEnvContent
    EnvFilter <- MCEnvFilter
    EnvBase = None
    Offered <- MCOffered
SYMMETRY Symmetry
INVARIANTS
    TypeOK
    FreshWhenQuiet
    FilterNeverOlder
    ListedIsOffered
    SentAsItsKind
CHECK_DEADLOCK FALSE
