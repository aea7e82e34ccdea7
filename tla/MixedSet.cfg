CONSTANTS
    Cvns = {1, 2, 3}
    GenesisCvn = 1
    NoCvn = 0
    MinSuccessiveSignatures = 1
    BlocksToScan = 10
    BlocksToConsiderForSigCheck = 1
    PercentageOfSignaturesMean = 50
    RetryNewSigSetInterval = 15
    Start <- ThreeCvns
    MaxLength = 5
    MaxSlot = 2
    MaxSkew = 0
    MaxRetries = 1
    MaxCrashes = 0
    MaxRestarts = 0
    MaxLost = 2
    MaxLate = 0
SPECIFICATION Spec
INVARIANTS BestSetVerifies
CHECK_DEADLOCK FALSE
