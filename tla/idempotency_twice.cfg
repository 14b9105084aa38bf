SPECIFICATION Spec
CONSTANTS
    NoEntry = NoEntry
    NoLock = NoLock
    Threads = {1, 2}
    InstanceOf <- TwoInstances
    Skew <- NoSkew
    Shapes <- CalmShapes
    Keys <- AllKeys
    Setups <- Calm
    Window = 3
    Limit <- Generous
    Exempt = {}
    FailOpen = TRUE
    MaxSkew = 0
    MaxDelay = 0
INVARIANTS
    ProcessedOnce
CHECK_DEADLOCK FALSE
