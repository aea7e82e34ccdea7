CONSTANTS
    Cvns = {1, 2}
    GenesisCvn = 1
    NoCvn = 0
    MinSuccessiveSignatures = 1
    BlocksToScan = 10
    BlocksToConsiderForSigCheck = 1
    PercentageOfSignaturesMean = 50
    RetryNewSigSetInterval = 15
    Start <- TwoCvns
    MaxLength = 4
    MaxSlot = 2
    MaxSkew = 0
    MaxRetries = 1
    MaxCrashes = 2
    MaxRestarts = 2
    MaxLost = 0
    MaxLate = 0
SPECIFICATION RecoverySpec
PROPERTIES EveryRoundEnds
CHECK_DEADLOCK FALSE
