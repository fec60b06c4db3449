\* Four tasks, two workers, one continuation.
SPECIFICATION FairGraphSpec
CONSTANTS
    a = a
    b = b
    c = c
    d = d
    again = again
    file = file
    other = other
    None = None
    Plan <- MCPlan
    DependsOn <- MCDependsOn
    WritePaths <- MCWritePaths
    Paths <- MCPaths
    Continuations <- MCContinuations
    Direct <- MCDirect
    Budgets = {1, 2}
    MaxWorkers = 2
    MaxActs = 2
    MaxFaults = 1
    Events = {"clear", "interrupt", "cancel", "steer", "mode", "throw"}
INVARIANTS
    WritersAreDisjoint
    JobsSettleOnce
    GuidanceIsSpent
PROPERTIES
    StartsAreDue
    ExecutesPlan
    EveryJobSettles
CHECK_DEADLOCK FALSE
