\* One slot, whose holder, a waiter and one behind it take turns.
SPECIFICATION FairSpec
CONSTANTS
    r1 = r1
    r2 = r2
    r3 = r3
    Requests <- ThreeRequests
    MaxInflight = 1
INVARIANTS
    SlotAccounting
    NoIdleSlotWhileWaiting
    OnlyBusyIsOvertaken
PROPERTIES
    ImplementsFairSlots
    NeverStuckInQueue
