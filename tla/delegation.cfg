CONSTANTS
    Delegation <- MCDelegation
    Turn <- MCTurn
    NoTurn = 0
    Capacity = 1
    MaxFaults = 1
    Caller = {1, 2}
    MaxEvents = 3
SPECIFICATION FairSpec
INVARIANTS
    NoOrphanedRun
    CompletedByItsOwnRun
    DispatchedAtMostOnce
    WaitingHoldsNoPermit
PROPERTIES
    NothingHangs
CHECK_DEADLOCK FALSE
