SPECIFICATION RuleSpec
CONSTANTS
    Selections <- MCSelections
    Globs <- MCGlobs
    MaxDepth = 31
    Lower <- MCLower
    Catalog <- MCCatalog
    Files <- MCFiles
    Others <- MCOthers
    Events <- MCEvents
    Null = Null
INVARIANTS
    ConditionFollowsGrammar
    QueryMeansTheRule
    ProbeCoversDetection
\* Every rule may have been compiled.
CHECK_DEADLOCK FALSE
