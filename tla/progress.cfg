SPECIFICATION FairSpec
CONSTANTS
    N = 3
    MaxActive = 3
    Sources <- AllSubmissions
    Events <- WakeupEvents
INVARIANTS
    NoStrandedInput
    SteerBetweenAnswers
PROPERTIES
    EveryInputAnswered
CHECK_DEADLOCK FALSE
