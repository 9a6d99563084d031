\* The file is put back with the time it had before.
SPECIFICATION Spec
CONSTANTS
    None = None
    Missing = Missing
    NotAnObject = NotAnObject
    r1 = r1
    r2 = r2
    t0 = t0
    t1 = t1
    t2 = t2
    Requests = {r1}
    Times = {t0, t1, t2}
    Epoch = t0
    MaxWrites = 2
    Names <- MCNames
    Builtin <- MCBuiltin
    Extra <- MCExtra
    Contents <- MCContents
    EnvContent <- MCEnvContent
    EnvFilter <- MCEnvFilter
    EnvBase = None
    Offered <- MCOffered
SYMMETRY Symmetry
INVARIANTS
    ChangeIsTaken
CHECK_DEADLOCK FALSE
