\* Mode "all": the relay notification is handled before the Signer writes its record.
CONSTANTS
    t1 = t1
    t2 = t2
    NoTx = NoTx
    Txs <- MCTxs
    MaxHeight = 3
    RejectResign = TRUE
    Malformed = FALSE
    CACHE_SIZE = 1
    Faults = {}
    BadTxs = {}
    Mode = "all"
    QueueCap = 1
    WaitingCircle = 2
    StartHeight = 0
    HeightBits = 3
    LaggingRpc = FALSE
    ObFaults = {}
    MaxCrashes = 0
SPECIFICATION Spec
CHECK_DEADLOCK FALSE
INVARIANT DoneNotLost
