\* Election: a lock left by a dead client, two live clients with two claims each, two owners.
\* Queue: three submits and one event, or two submits, a resume, an edit and two events.
SPECIFICATION BothSpec
CONSTANTS
    c1 = c1
    c2 = c2
    c3 = c3
    o1 = o1
    o2 = o2
    None = None
    Clients <- MCThreeClients
    Crashed = {c3}
    Owners <- MCTwoOwners
    MaxClaims = 2
    MaxMisreads = 1
    s1 = s1
    s2 = s2
    s3 = s3
    r1 = r1
    e1 = e1
    Submits <- MCSubmits
    Remote = {s3}
    Resumes = {r1}
    Edits = {e1}
    Casts <- MCMixedCasts
    MaxActs = 2
INVARIANTS
    OneServing
    ServingIsPublished
    FollowUpsAreKept
PROPERTIES
    ElectionSettles
    NoRerun
    CallsReturn
CHECK_DEADLOCK FALSE
