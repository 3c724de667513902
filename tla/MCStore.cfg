SPECIFICATION StoreFairSpec
CONSTANTS
    Procs <- MCProcs
    OldRuns <- MCOldRuns
    OldStarted <- MCOldStarted
    Workloads <- MCWorkloads
    Installed = {0, 1, 3}
    Checkouts <- MCCheckouts
    Today = 2
    LastDay = 3
    KeepDays = 1
    NoProc = "nobody"
INVARIANTS
    StoreTypeOK
    LoadsAreWhole
    StoredRunsStay
    RecordedTablesExist
PROPERTIES
    RunsAreStoredWhole
    EditedStopsMigrating
    EveryProcessEnds
\* Everybody may have finished.
CHECK_DEADLOCK FALSE
