\* Two rounds of calls and results, over all providers.
SPECIFICATION Conversation
CONSTANTS
    Names <- MCNames
    Replies <- MCReplies
    MaxMessages = 5
INVARIANTS
    CallIdsDistinct
    ResultsNamed
    BodiesWellFormed
CHECK_DEADLOCK FALSE
