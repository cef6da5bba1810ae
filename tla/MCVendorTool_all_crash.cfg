\* Mode "all" with a crash, a torn last_height write and a malformed notification: replays, resubmissions rejected by the chain, the ledger reopened: every step is a step of the signing service.
CONSTANTS
    t1 = t1
    t2 = t2
    NoTx = NoTx
    Txs <- MCTxs
    MaxHeight = 3
    RejectResign = TRUE
    Malformed = TRUE
    CACHE_SIZE = 1
    Faults = {}
    BadTxs = {t2}
    Mode = "all"
    QueueCap = 1
    WaitingCircle = 2
    StartHeight = 0
    HeightBits = 3
    LaggingRpc = FALSE
    ObFaults = {"TornWrite"}
    MaxCrashes = 1
SPECIFICATION Spec
CHECK_DEADLOCK FALSE
PROPERTY ImplementsServiceSafety
