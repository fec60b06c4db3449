SPECIFICATION PauseSpec
CONSTANTS
    main = main
    side = side
    Flows <- MCFlows
    Main = main
    MaxTurns = 2
    MaxPauses = 1
    MaxOperations = 2
PROPERTY SnapshotNeverGoesBack
CHECK_DEADLOCK FALSE
