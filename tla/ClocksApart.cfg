CONSTANTS
    Cvns = {1, 2, 3}
    GenesisCvn = 1
    NoCvn = 0
    MinSuccessiveSignatures = 1
    BlocksToScan = 10
    BlocksToConsiderForSigCheck = 1
    PercentageOfSignaturesMean = 50
    RetryNewSigSetInterval = 15
    Start <- ThreeCvns
    MaxLength = 5
    MaxSlot = 1
    MaxSkew = 1
    MaxRetries = 1
    MaxCrashes = 0
    MaxRestarts = 0
    MaxLost = 0
    MaxLate = 1
SPECIFICATION Spec
INVARIANTS TypeOK SignaturesGenuine
PROPERTIES ImplementsCooperation
CHECK_DEADLOCK FALSE
