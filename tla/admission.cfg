CONSTANTS
    a = a
    a1 = a1
    a2 = a2
    b1 = b1
    b2 = b2
    Lease = {a1, a2, b1, b2}
    OwnerOf <- MCOwnerOf
    Capacity = 2
    Limit = 1
    MaxPending = 2
SPECIFICATION Spec
SYMMETRY MCSymmetry
INVARIANTS
    PermitsAccounted
    WorkConserving
PROPERTIES
    NoOvertaking
    ImplementsPool
CHECK_DEADLOCK FALSE
