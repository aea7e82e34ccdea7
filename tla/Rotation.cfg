CONSTANTS
    n1 = n1
    n2 = n2
    n3 = n3
    n4 = n4
    Cvns = {n1, n2, n3}
    GenesisCvn = n1
    NoCvn = NoCvn
    MinSuccessiveSignatures = 2
    BlocksToScan = 3
    BlocksToConsiderForSigCheck = 2
    PercentageOfSignaturesMean = 70
    MaxHeight = 6
    MaxSlot = 3
    MaxMissing = 1
    AddAt = {1, 2, 4}
    RemoveAt = {3}
    MaxBans = 1
SPECIFICATION Spec
SYMMETRY LaterCvns
INVARIANTS TypeOK ChosenIsRegistered DormantChosen OldestActiveCreates GrowingChainGoesOn FactoryBlocksAccepted
CHECK_DEADLOCK FALSE
