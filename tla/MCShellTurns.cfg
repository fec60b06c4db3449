\* Pause: two flows, two turns, the interrupts between them, two pauses.
\* Quality: a plan of one node or of three, two workers, one refinement and one pivot.
SPECIFICATION ShellSpec
CONSTANTS
    main = main
    side = side
    Flows <- MCFlows
    Main = main
    MaxTurns = 2
    MaxPauses = 2
    MaxOperations = 4
    a = a
    b = b
    c = c
    x = x
    stray = stray
    Nodes <- MCNodes
    Deps <- MCDeps
    Owns <- MCOwns
    Paths <- MCPaths
    Plans <- MCPlans
    MaxWorkers = 2
    Limit <- MCLimit
INVARIANTS
    PausedIsQuiet
    TurnsDoNotOverlap
    ProceedIsReviewed
    ObjectionsCount
PROPERTIES
    InterruptIsFinal
    PauseIsAnswered
    LoopEnds
CHECK_DEADLOCK FALSE
