SPECIFICATION ScoreSpec
CONSTANTS
    Case <- MCCase
    Plans <- MCPlans
    Observed <- MCObserved
    Policies <- MCPolicies
    TacticsOf <- MCTacticsOf
    Targets <- MCTargets
    Excluded = {"T1218"}
    Allowance <- MCAllowance
    NoTactic = "no tactic"
    SlowFloor = 30
    MaxStored = 2
    RuleText <- MCRuleText
    KnownTests = {"dump", "minidump", "logs"}
    Owned <- MCOwned
    WithSubtechniques = {"T1070"}
    BrittleFields = {"Image", "TargetFilename"}
INVARIANTS
    ScoreTypeOK
    NoDropGoesUnreported
    GapsReachAQueue
    RatesAgree
    DocumentedGapsPass
    WorstTestDecides
\* The bound on stored runs is reached.
CHECK_DEADLOCK FALSE
