\* Mode "all": a lagging RPC node reports a height below the one already reached.
CONSTANTS
    t1 = t1
    t2 = t2
    NoTx = NoTx
    Txs <- MCTxs
    MaxHeight = 3
    RejectResign = TRUE
    Malformed = FALSE
    CACHE_SIZE = 1
    Faults = {}
    BadTxs = {}
    Mode = "all"
    QueueCap = 1
    WaitingCircle = 2
    StartHeight = 0
    HeightBits = 3
    LaggingRpc = TRUE
    ObFaults = {}
    MaxCrashes = 0
SPECIFICATION Spec
CHECK_DEADLOCK FALSE
PROPERTY CursorMonotone
