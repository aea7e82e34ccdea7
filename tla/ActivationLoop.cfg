CONSTANTS
    Cvns = {1, 2, 3}
    GenesisCvn = 1
    NoCvn = 0
    BlocksToScan = 5
    BlocksToConsiderForSigCheck = 1
    MinSuccessiveSignatures = 1
    MaxSlot = 1
    NextCreators <- CreatorsAfter
    BlockOf <- Forked
    Start <- TwoCvns
    Tree <- ForkedTree
    HeadersFirst <- NoneMissing
    Address <- Addresses
    MaxCrashes = 0
    MaxWrites = 0
SPECIFICATION Spec
PROPERTIES ActivationEnds
CHECK_DEADLOCK FALSE
