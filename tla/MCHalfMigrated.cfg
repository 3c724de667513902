SPECIFICATION StoreSpec
CONSTANTS
    Procs <- MCProcs
    OldRuns = {}
    OldStarted <- NoOldStarted
    Workloads <- OneRun
    Installed = {0}
    Checkouts <- OneCheckout
    Today = 2
    LastDay = 2
    KeepDays = 1
    NoProc = "nobody"
INVARIANT
    SavesFindTheirTables
CHECK_DEADLOCK FALSE
