\* Two concurrent Proxy calls of one user under weak fairness of every
\* gateway goroutine: does every call return?
CONSTANTS
    u1 = u1
    r1 = r1
    r2 = r2
    NoPeer = NoPeer
    Users <- TwoUsers
    Requests <- TwoRequests
    UserOf <- TwoUserOf
    ModeOf <- TwoModeOf
    CloseWaitLimit = 1
SPECIFICATION FairSpec
PROPERTY RequestsReturn
CHECK_DEADLOCK FALSE
