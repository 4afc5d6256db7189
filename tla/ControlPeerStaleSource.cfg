CONSTANTS
    Nil = Nil
    Conns <- MCConns
    Clients <- MCClients
    DialAttempts = 2
    MaxDrops = 1
    MaxMsgs = 2
SPECIFICATION Spec
INVARIANT SourceIsLatest
CHECK_DEADLOCK FALSE
