\* Stream: one tab, rows pruned from the fourth event on.
\* Registry: two sessions for one slot, two calls of create for the first of them.
SPECIFICATION ServicesSpec
CONSTANTS
    t1 = t1
    s1 = s1
    s2 = s2
    c1 = c1
    c2 = c2
    c3 = c3
    r1 = r1
    NoEngine = NoEngine
    Tabs <- MCOneTab
    MaxEventsPerSession = 3
    MaxPublished = 6
    MaxFailures = 3
    SessionIds <- MCSessionIds
    Creators <- MCCreators
    CreatedFor <- MCCreatedFor
    Releasers <- MCReleasers
    MaxSessions = 1
    MaxInvokes = 1
INVARIANTS
    StreamIsGapless
    CapacityIsKept
    ControlsReachLive
    FailuresAreTold
PROPERTIES
    ViewCatchesUp
    StopEnds
CHECK_DEADLOCK FALSE
