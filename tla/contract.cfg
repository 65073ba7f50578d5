SPECIFICATION Spec
CONSTANTS
    N = 3
    MaxActive = 2
    Sources <- SteeredSubmissions
    Events <- ContractEvents
PROPERTIES
    MeetsContract
CHECK_DEADLOCK FALSE
