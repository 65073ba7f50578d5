SPECIFICATION Spec
CONSTANTS
    N = 2
    MaxActive = 2
    Sources = {"queue", "steer"}
    Events = {"streamError"}
INVARIANTS
    SteerFactsSurvive
CHECK_DEADLOCK FALSE
