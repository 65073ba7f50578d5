SPECIFICATION Spec
CONSTANTS
    N = 2
    MaxActive = 2
    Sources = {"queue", "send"}
    Events = {"promote", "cancel"}
INVARIANTS
    NoStrandedInput
CHECK_DEADLOCK FALSE
