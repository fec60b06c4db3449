\* One arbiter, three calls on two keys: lanes, barriers, counters.
SPECIFICATION ArbiterSpec
CONSTANTS
    r1 = r1
    r2 = r2
    r3 = r3
    k1 = k1
    k2 = k2
    None = None
    Requests <- MCRequests
    Keys <- MCKeys
    Ops = {"submit", "cancel", "view", "setMode", "pause"}
    MaxRevision = 5
    MaxPublished = 1
    MaxGeneration = 1
    MaxReceipts = 1
    Events = {"publish"}
SYMMETRY MCKeySymmetry
INVARIANTS
    NormalLaneIsOrdered
    ActivityIsExact
CHECK_DEADLOCK FALSE
