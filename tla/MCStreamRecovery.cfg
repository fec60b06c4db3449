SPECIFICATION StreamSpec
CONSTANTS
    t1 = t1
    Tabs <- MCOneTab
    MaxEventsPerSession = 2
    MaxPublished = 4
    MaxFailures = 2
INVARIANT RecoveryReopens
