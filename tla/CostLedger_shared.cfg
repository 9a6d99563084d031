SPECIFICATION Spec
CONSTANTS
    a1 = a1
    a2 = a2
    a3 = a3
    p1 = p1
    p2 = p2
    Attempts = {a1, a3}
    Pods <- MCPods
    Home <- MCTwoHome
    Total <- MCTotal
    Costs = {1, 2}
    ShortLimit = 2
    DailyLimit = 3
    ShortWindow = 1
    Day = 2
    Retention = 2
    MaxTime = 4
    Unset = Unset
INVARIANTS
    BudgetBound
    PaidIsCharged
PROPERTIES
    SettledOnce
    ImplementsAtomicAdmission
CHECK_DEADLOCK FALSE
