SPECIFICATION Spec
CONSTANTS
    j1 = j1
    j2 = j2
    mail = mail
    hook = hook
    NoJob = NoJob
    NoWorker = NoWorker
    Jobs = {j1}
    Workers = {w1, w2}
    Clients = {c1}
    Types <- OneType
    TypeOf <- AllMail
    MaxRetries <- Retry2
    Backoff = FALSE
    Visibility = FALSE
    Ops = {"submit"}
    CrashAt <- Anywhere
    FaultAt <- Nowhere
    Restarts = TRUE
    MaxLapses = 0
    MaxCrashes = 1
    MaxFaults = 0
    MaxRuns = 3
INVARIANTS
    RecoveryPushesBack
