SPECIFICATION Spec
CONSTANTS
    N = 3
    MaxActive = 2
    Sources = {"queue", "steer"}
    Events = {"promote"}
INVARIANTS
    SteerBetweenAnswers
CHECK_DEADLOCK FALSE
