\* A connection that breaks while the body is read.
SPECIFICATION Spec
CONSTANTS
    MaxLines = 1
    Tools <- MCTools
INVARIANTS
    BrokenBodyIsReported
CHECK_DEADLOCK FALSE
