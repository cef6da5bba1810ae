\* Every signing request, with amounts aligned to the witness inputs.
CONSTANTS
    ValidTx <- MCValidTx
    ValidTime <- MCValidTime
    AmtValues = {0, 258, 65536}
    MaxAmts = 2
    Amounts = {10, 20}
    MaxInputs = 3
    FuzzBytes = {0, 1, 7}
    FuzzLen = 0
SPECIFICATION SpecInputs
INVARIANT MatchesWitnessAligned
