SPECIFICATION EmuFairSpec
CONSTANTS
    Tests <- MCTests
    Techniques <- MCTechniques
    ParentOf <- MCParentOf
    Hosts <- MCHosts
    Setups <- MCSetups
    MaxDuration = 1
INVARIANTS
    EmuTypeOK
    CommandsArePermitted
    RunsAtMostOnce
    FailureBudgetHolds
    WindowsKeptApart
    CleanupBeforeNext
    EveryTestAnswered
PROPERTY
    PhaseEnds
\* The phase stops when the plan is exhausted.
CHECK_DEADLOCK FALSE
