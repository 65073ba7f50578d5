SPECIFICATION Spec
CONSTANTS
    N = 3
    MaxActive = 2
    Sources <- AllSubmissions
    Events <- SessionEvents
INVARIANTS
    LeaseOwnership
    ControllerOwnership
    ReceiptsFollowRows
    HandoffBoundary
    AtMostOneRun
    FenceMatchesRow
    ClaimsAccounted
    AlwaysRecoverable
CHECK_DEADLOCK FALSE
