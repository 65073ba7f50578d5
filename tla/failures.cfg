SPECIFICATION Spec
CONSTANTS
    N = 3
    MaxActive = 3
    Sources <- QueueSubmissions
    Events <- AllEvents
INVARIANTS
    NoInputLost
    NoSilentReplay
    QueueOrderDense
PROPERTIES
    RetryFence
CHECK_DEADLOCK FALSE
