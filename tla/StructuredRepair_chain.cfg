\* Every way through the chain of repair models, as a body and as a stream.
SPECIFICATION Spec
CONSTANTS
    Models <- MCModels
    Asked = "qwen"
    Chains <- MCChains
    Counts <- MCCounts
INVARIANTS
    AttemptsInOrder
    AnswerIsPaidFor
CHECK_DEADLOCK FALSE
