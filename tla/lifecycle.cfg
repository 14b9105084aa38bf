SPECIFICATION FairSpec
CONSTANTS
    api = api
    worker = worker
    NoProc = none
    Procs = {api, worker}
    ModesOf <- MCModes
    Migrating = {api, worker}
    Files <- MCFiles
    NoTxn = {1}
    MaxFaults = 1
    MaxStarts <- MCStarts
    Off = {"Messaging"}
    KeepsQuit = TRUE
CHECK_DEADLOCK FALSE
INVARIANTS
    TypeOK
    AppliedOnce
    ServesMigratedSchema
    UsersGoFirst
    NothingLeftUp
PROPERTIES
    AppliedInOrder
    EverySignalEnds
