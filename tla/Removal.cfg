CONSTANTS
    n1 = n1
    n2 = n2
    n3 = n3
    n4 = n4
    Cvns = {n1, n2, n3}
    GenesisCvn = n1
    NoCvn = NoCvn
    MinSuccessiveSignatures = 1
    BlocksToScan = 9
    BlocksToConsiderForSigCheck = 1
    PercentageOfSignaturesMean = 70
    MaxHeight = 5
    MaxSlot = 3
    MaxMissing = 0
    AddAt = {1, 2}
    RemoveAt = {4}
    MaxBans = 0
SPECIFICATION Spec
INVARIANT NotStalled
CHECK_DEADLOCK FALSE
