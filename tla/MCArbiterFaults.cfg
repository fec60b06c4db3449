\* Two calls with one key through crashes, second owners, torn-down sessions, failing ledger
\* calls and revisions published by others; and every call comes to an end.
SPECIFICATION FairSpec
CONSTANTS
    r1 = r1
    r2 = r2
    r3 = r3
    k1 = k1
    k2 = k2
    None = None
    Requests <- MCTwoRequests
    Keys <- MCOneKey
    Ops = {"submit", "cancel", "steer"}
    MaxRevision = 4
    MaxPublished = 1
    MaxGeneration = 2
    MaxReceipts = 1
    Events = {"publish", "ledger", "recreate", "restart", "split", "notice"}
INVARIANTS
    AtMostOnce
    ClockIsDurable
PROPERTIES
    ImplementsLog
    EveryCallSettles
CHECK_DEADLOCK FALSE
