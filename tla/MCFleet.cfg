\* One client that restarts, gives up on calls and is reaped.
CONSTANTS
    Clients     = {c1}
    host = host
    Ids         = {host}
    IdOf        <- MCIdOf
    MarkAfter   = 2
    DeleteAfter = 3
    Stall       = 1
    MaxCount    = 2
SPECIFICATION FairSpec
INVARIANTS TypeOK HeardIsListed RowIsLastReport
PROPERTIES SilentClientsLeave
