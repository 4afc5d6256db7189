CONSTANTS
    u1 = u1
    u2 = u2
    r1 = r1
    r2 = r2
    Placeholder = Placeholder
    NoJob = NoJob
    NoPod = NoPod
    Users <- MCUsers
    Requests <- MCRequests
    UserOf <- DistinctUserOf
    MaxJobs = 8
    InitPool = 1
SPECIFICATION Spec
INVARIANT NoStrandedPod
CHECK_DEADLOCK FALSE
