CONSTANTS
    Jobs = {j1}
    Runs = {1, 2}
    AgentStates = {TRUE}
    Callers = {c1}
    Hosts = {1}
    MaxTime = 2
    Cron <- Once
    Grace = 0
    CatchUp = 1
    Policies <- BothPolicies
    MaxRestarts = 1
    MaxCalls = 0
    MaxFaults = 1
SPECIFICATION Spec
PROPERTIES
    DueIsQueued
CHECK_DEADLOCK FALSE
