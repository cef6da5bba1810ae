\* Mode "all" without crashes, the writes of the total and of last_height failing: no request is lost, every one is recorded, and the tool implements the signing service.
CONSTANTS
    t1 = t1
    t2 = t2
    NoTx = NoTx
    Txs <- MCTxs
    MaxHeight = 3
    RejectResign = TRUE
    Malformed = FALSE
    CACHE_SIZE = 1
    Faults = {"TotalErr"}
    BadTxs = {t2}
    Mode = "all"
    QueueCap = 1
    WaitingCircle = 2
    StartHeight = 0
    HeightBits = 3
    LaggingRpc = FALSE
    ObFaults = {"WriteErr"}
    MaxCrashes = 0
SPECIFICATION Spec
CHECK_DEADLOCK FALSE
INVARIANT TypeOK
INVARIANT RequestNotLost
INVARIANT SignedIsRecorded
PROPERTY ImplementsService
