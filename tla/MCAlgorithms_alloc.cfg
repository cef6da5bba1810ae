\* Every request body of up to six bytes drawn from {0, 1, 7}.
CONSTANTS
    ValidTx <- MCValidTx
    ValidTime <- MCValidTime
    AmtValues = {0, 258, 65536}
    MaxAmts = 2
    Amounts = {10, 20}
    MaxInputs = 3
    FuzzBytes = {0, 1, 7}
    FuzzLen = 6
SPECIFICATION SpecBuffers
INVARIANT AllocationBounded
