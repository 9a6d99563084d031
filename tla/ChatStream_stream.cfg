\* Bodies of up to four lines, every provider and both protocols of the answer.
SPECIFICATION FairSpec
CONSTANTS
    MaxLines = 4
    Tools <- MCTools
INVARIANTS
    AnswerWellFormed
    UsageFromWholeStream
    FinishMeansWhole
    NothingLeftOpen
PROPERTIES
    ReservationSettles
CHECK_DEADLOCK FALSE
