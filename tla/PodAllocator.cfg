CONSTANTS
    u1 = u1
    u2 = u2
    r1 = r1
    r2 = r2
    Placeholder = Placeholder
    NoJob = NoJob
    NoPod = NoPod
    Users <- MCUsers
    Requests <- MCRequests
    UserOf <- DistinctUserOf
    MaxJobs = 8
    InitPool = 2
SPECIFICATION FairSpec
INVARIANT TypeOK
INVARIANT ClaimExclusive
INVARIANT ClaimsMatchPool
PROPERTY RequestsReturn
CHECK_DEADLOCK FALSE
