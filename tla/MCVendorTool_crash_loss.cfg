\* Mode "all": a crash after last_height was written loses the requests still in txchan.
CONSTANTS
    t1 = t1
    t2 = t2
    NoTx = NoTx
    Txs <- MCTxs
    MaxHeight = 3
    RejectResign = TRUE
    Malformed = FALSE
    CACHE_SIZE = 1
    Faults = {}
    BadTxs = {t2}
    Mode = "all"
    QueueCap = 1
    WaitingCircle = 2
    StartHeight = 0
    HeightBits = 3
    LaggingRpc = FALSE
    ObFaults = {}
    MaxCrashes = 1
SPECIFICATION Spec
CHECK_DEADLOCK FALSE
INVARIANT RequestNotLost
