\* Two concurrent Proxy calls of one user: can two close goroutines both tear down?

CONSTANTS
    u1 = u1
    r1 = r1
    r2 = r2
    NoPeer = NoPeer
    Users <- TwoUsers
    Requests <- TwoRequests
    UserOf <- TwoUserOf
    ModeOf <- TwoModeOf
    CloseWaitLimit = 1
SPECIFICATION Spec
INVARIANT CloseOnce
CHECK_DEADLOCK FALSE
