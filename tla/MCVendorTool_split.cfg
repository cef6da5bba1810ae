\* Mode "split" with a crash, lost SignTx responses, resubmissions the chain rejects and an unsignable request: no request below last_height is lost, and every step is a step of the signing service.
CONSTANTS
    t1 = t1
    t2 = t2
    NoTx = NoTx
    Txs <- MCTxs
    MaxHeight = 3
    RejectResign = TRUE
    Malformed = FALSE
    CACHE_SIZE = 1
    Faults = {}
    BadTxs = {t2}
    Mode = "split"
    QueueCap = 1
    WaitingCircle = 2
    StartHeight = 0
    HeightBits = 3
    LaggingRpc = FALSE
    ObFaults = {}
    MaxCrashes = 1
SPECIFICATION Spec
CHECK_DEADLOCK FALSE
INVARIANT RequestNotLost
 
