SPECIFICATION FairSpec
CONSTANTS
    j1 = j1
    j2 = j2
    mail = mail
    hook = hook
    NoJob = NoJob
    NoWorker = NoWorker
    Jobs = {j1}
    Workers = {w1, w2}
    Clients = {c1}
    Types <- TwoTypes
    TypeOf <- OneOfEach
    MaxRetries <- Retry2
    Backoff = TRUE
    Visibility = TRUE
    Ops = {"submit"}
    CrashAt <- InHandler
    FaultAt <- RepairedFaults
    Restarts = FALSE
    MaxLapses = 1
    MaxCrashes = 1
    MaxFaults = 1
    MaxRuns = 3
INVARIANTS
    OneTroubleStrandsNothing
PROPERTIES
    OneTroubleIsRepaired
