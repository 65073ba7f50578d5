CONSTANTS
    Jobs = {j1}
    Runs = {1, 2}
    AgentStates = {TRUE, FALSE}
    Callers = {c1, c2}
    Hosts = {1, 2}
    MaxTime = 1
    Cron <- Once
    Grace = 0
    CatchUp = 1
    Policies <- BothPolicies
    MaxRestarts = 1
    MaxCalls = 1
    MaxFaults = 1
SPECIFICATION FairSpec
INVARIANTS
    OneRunPerJob
    RunningIsCarried
    SessionsDoNotOverlap
    ReportedOnce
    OccurrenceQueuedOnce
    HostOnItsWay
PROPERTIES
    QueuedRunsStayCarried
    RunsSettle
    DueIsScanned
CHECK_DEADLOCK FALSE
