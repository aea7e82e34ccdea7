CONSTANTS
    Cvns = {1, 2, 3}
    GenesisCvn = 1
    NoCvn = 0
    MinSuccessiveSignatures = 1
    BlocksToScan = 10
    BlocksToConsiderForSigCheck = 1
    PercentageOfSignaturesMean = 50
    RetryNewSigSetInterval = 15
    Start <- ThreeCvns
    MaxLength = 5
    MaxSlot = 2
    MaxSkew = 0
    MaxRetries = 1
    MaxCrashes = 1
    MaxRestarts = 0
    MaxLost = 1
    MaxLate = 0
SPECIFICATION FairSpec
INVARIANT CompleteSetIsUsable
PROPERTIES EveryRoundEnds ImplementsCooperation
CHECK_DEADLOCK FALSE
