\* A submit while another one's turn ends.
SPECIFICATION QueueFairSpec
CONSTANTS
    s1 = s1
    s2 = s2
    s3 = s3
    r1 = r1
    e1 = e1
    Submits <- MCSubmits
    Remote = {}
    Resumes = {r1}
    Edits = {e1}
    Casts <- MCQuietCast
    MaxActs = 2
PROPERTY
    FollowUpsRun
CHECK_DEADLOCK FALSE
