SPECIFICATION Spec
CONSTANTS
    Tests <- MCTests
    Techniques <- MCTechniques
    ParentOf <- MCParentOf
    Hosts = {"lab"}
    Setups <- ExecutingSetups
    MaxDuration = 0
    Cases <- MCCases
    Corpora <- MCCorpora
    Backgrounds <- MCBackgrounds
    NoTest = "no test"
    Lags = {3, 99}
    IngestLag = 2
    MaxWait = 4
    PollInterval = 1
    MaxQueryTime = 1
    PreWindow = 2
    PostWindow = 1
    Slack = 1
    BaselineWindow = 4
    SearchLimit = 2
    CountsAll = TRUE
    MaxFailures = 1
    Horizon = 20
INVARIANT
    ScoredBehaviourTookPlace
CHECK_DEADLOCK FALSE
