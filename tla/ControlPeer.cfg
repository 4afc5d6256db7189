CONSTANTS
    Nil = Nil
    Conns <- MCConns
    Clients <- MCOneClient
    DialAttempts = 2
    MaxDrops = 1
    MaxMsgs = 1
SPECIFICATION FairSpec
INVARIANT TypeOK
PROPERTY NoReconnectAfterClose
PROPERTY ReconnectPersists
PROPERTY CloseReturns
CHECK_DEADLOCK FALSE
