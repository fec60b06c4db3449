\* Receipts: two keys.  Journal: three sessions, a ring and a watermark table of two.
\* Lock: three callers.  Evolution: two processes, three attempts, two failures or crashes.
\* Team: two workers, which are interchangeable; the coordinator's writes may fail; no tool
\* call is recorded beyond the fourth line.
SPECIFICATION StoresSpec
CONSTANTS
    k1 = k1
    k2 = k2
    fp1 = fp1
    fp2 = fp2
    res1 = res1
    res2 = res2
    s1 = s1
    s2 = s2
    s3 = s3
    p1 = p1
    p2 = p2
    p3 = p3
    b1 = b1
    b2 = b2
    w1 = w1
    w2 = w2
    Launcher = Launcher
    Coordinator = Coordinator
    Aborter = Aborter
    NoOwner = NoOwner
    Null = Null
    NoLock = NoLock
    None = None
    Keys <- MCKeys
    Fingerprints <- MCFingerprints
    Results <- MCResults
    MaxRevision = 4
    Sessions <- MCSessions
    Capacity = 2
    MaxId = 7
    Callers <- MCCallers
    MaxClaims = 2
    Processes <- MCProcesses
    Bases <- MCBases
    MaxAttempts = 3
    MaxChecks = 1
    MaxFaults = 2
    MaxEdits = 1
    Workers <- MCWorkers
    Writers <- MCWriters
    Unlucky <- MCUnlucky
    MaxLines = 4
INVARIANTS
    AcceptedRevisionsDistinct
    ReplayIsComplete
    OnlyStaleTakeoversSplit
    AnswersMatchDisk
    LeftoversAreKnown
    ReadyIsAsEvaluated
    ChainBreaksForCause
    VerdictCoversWork
    JobAgreesWithLog
SYMMETRY MCSymmetry
CHECK_DEADLOCK FALSE
