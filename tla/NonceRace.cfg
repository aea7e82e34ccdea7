CONSTANTS
    c1 = c1
    c2 = c2
    w = w
    Cvns = {c1, c2}
    NoCvn = NoCvn
    NoBlock = NoBlock
    Nil = Nil
    NoFile = NoFile
    Genesis = 0
    Nodes = {c1}
    OldPools <- OnePool
    LastHeight = 4
    Blocks <- LineBlocks
    Height <- LineHeight
    Chain <- LineChain
    CvnBlocks = {0}
    Payload <- StablePayload
    PoolSize = 3
    Keep = 1
    MaxPoolSize = 5
    MaxLag = 1
    MaxTime = 3
    DeviceFails = FALSE
    QuickShutdown = FALSE
SPECIFICATION Spec
INVARIANT NonceUsedAtOneHeight
CHECK_DEADLOCK FALSE
