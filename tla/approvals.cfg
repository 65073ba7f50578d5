CONSTANTS
    Cli = {c1}
    Model = {m1, m2}
    App = {a1, a2}
    Scope <- MCScope
    Binding <- MCBinding
    Instance <- MCInstance
    MaxPending = 1
    Tries = 2
    MaxCalls = 2
SPECIFICATION FairSpec
INVARIANTS
    WaitersReachable
    GrantsAreApproved
    ApprovalUsedOnce
    NothingLeftBehind
PROPERTIES
    NoLateGrant
    EveryRequestEnds
CHECK_DEADLOCK FALSE
