\* Workers write where they like.
SPECIFICATION QualitySpec
CONSTANTS
    a = a
    b = b
    c = c
    x = x
    stray = stray
    Nodes <- MCNodes
    Deps <- MCDeps
    Owns <- MCOwns
    Paths <- MCPaths
    Plans <- MCPlans
    MaxWorkers = 2
    Limit <- MCLimit
INVARIANT StrayWritesBlock
CHECK_DEADLOCK FALSE
