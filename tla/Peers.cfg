CONSTANTS
    c1 = c1
    c2 = c2
    w = w
    Cvns = {c1, c2}
    NoCvn = NoCvn
    NoBlock = NoBlock
    Nil = Nil
    NoFile = NoFile
    Genesis = 0
    Nodes = {c1, w}
    OldPools <- TwoPools
    LastHeight = 2
    Blocks <- ForkBlocks
    Height <- ForkHeight
    Chain <- ForkChain
    CvnBlocks = {0, 1, 2, 12}
    Payload <- MovingPayload
    PoolSize = 2
    Keep = 1
    MaxPoolSize = 2
    MaxLag = 1
    MaxTime = 2
    DeviceFails = TRUE
    QuickShutdown = FALSE
SPECIFICATION Spec
INVARIANTS TypeOK PeersAgree HeldPoolsUsable
CHECK_DEADLOCK FALSE
