\* What an interrupt leaves behind.
SPECIFICATION GraphSpec
CONSTANTS
    a = a
    b = b
    c = c
    d = d
    again = again
    file = file
    other = other
    None = None
    Plan <- MCPlan
    DependsOn <- MCDependsOn
    WritePaths <- MCWritePaths
    Paths <- MCPaths
    Continuations <- MCContinuations
    Direct <- MCDirect
    Budgets = {1, 2}
    MaxWorkers = 2
    MaxActs = 2
    MaxFaults = 0
    Events = {"interrupt"}
INVARIANT NoJobStranded
CHECK_DEADLOCK FALSE
