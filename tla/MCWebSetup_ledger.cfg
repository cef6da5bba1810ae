\* Web mode, mode all: the db path posted to /status.
CONSTANTS
    w1 = w1
    w2 = w2
    p1 = p1
    d1 = d1
    d2 = d2
    r1 = r1
    rx = rx
    Files = {w1, w2}
    Pwds = {p1}
    InitUnlocks <- MCInitUnlocks
    DbPaths = {d1, d2}
    Redeems = {r1, rx}
    GoodRedeems = {r1}
    NetNames = {"test", "bogus"}
    InitConf <- MCInitConf
    WebFlags = {TRUE}
    Mode = "all"
    MaxRequests = 2
SPECIFICATION Spec
CHECK_DEADLOCK FALSE
INVARIANT LedgerBesideCheckpoint
