\* Two concurrent Proxy calls of one user (raw and Guacamole).  The model
\* has finitely many calls, so it quiesces once they returned and their
\* peers closed: a state without successor is not an error here.
CONSTANTS
    u1 = u1
    r1 = r1
    r2 = r2
    NoPeer = NoPeer
    Users <- TwoUsers
    Requests <- TwoRequests
    UserOf <- TwoUserOf
    ModeOf <- TwoModeOf
    CloseWaitLimit = 1
SPECIFICATION Spec
INVARIANT TypeOK
INVARIANT TeardownReleasesAll
INVARIANT KeepAliveCoversLive
PROPERTY RegistryRefinement
CHECK_DEADLOCK FALSE
