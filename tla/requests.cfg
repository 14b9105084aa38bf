SPECIFICATION Spec
CONSTANTS
    NoEntry = NoEntry
    NoLock = NoLock
    Threads = {1, 2, 3}
    InstanceOf <- TwoInstances
    Skew <- SkewOfOne
    Shapes <- SentShapes
    Keys <- AllKeys
    Setups <- AllSetups
    Window = 3
    Limit <- LimitOfTwo
    Exempt = {"vip"}
    FailOpen = TRUE
    MaxSkew = 1
    MaxDelay = 0
INVARIANTS
    TypeOK
    WindowCap
    AnswersAreOwn
    AnonymousSpendNothing
PROPERTIES
    KeepsContract
CHECK_DEADLOCK FALSE
