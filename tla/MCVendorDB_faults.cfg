\* Ledger with the SetTxDone persistence faults: cache contents, Done visibility, the count and the first batch.
CONSTANTS
    k1 = k1
    k2 = k2
    k3 = k3
    Keys <- MCKeys
    CACHE_SIZE = 2
    Faults = {"DoneGetErr", "DonePutErr"}
SPECIFICATION Spec
SYMMETRY MCSymmetry
INVARIANT TypeOK
INVARIANT CacheIsNewest
INVARIANT StoreDoneSeenByGet
INVARIANT TotalCountsStore
PROPERTY BatchIsNewest
