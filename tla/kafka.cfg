SPECIFICATION FairSpec
CONSTANTS
    p1 = p1
    p2 = p2
    Partitions = {p1, p2}
    Length = 2
    Poison <- TwoPoison
    MaxAttempts = 3
    MaxFaults = 3
CHECK_DEADLOCK FALSE
INVARIANTS
    TypeOK
    CommittedIsSettled
    GivenUpAfterAttempts
PROPERTIES
    EveryMessageSettles
