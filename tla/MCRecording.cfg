SPECIFICATION RecSpec
CONSTANTS
    TestNames <- MCTestNames
    NoTest = "__baseline__"
    CorpusNames <- MCCorpusNames
    Sources <- MCSources
    Mapped = {"process", "file"}
    Offline = {"process", "file"}
    Heartbeats <- MCHeartbeats
    Cases <- MCCases
    Declared <- MCDeclared
    Histories <- MCHistories
    CountsAll = FALSE
    Limit = 2
    ReplayLimit = 1
    PreWindow = 1
    PostWindow = 2
    Slack = 1
    Intervals = {1, 2}
    Graces = {0, 3, 4}
    Moments = {5, 9, 14}
    Inventories = {{}, {"alpha", "delta"}}
    MaxFaults = 1
    MaxCrashes = 1
INVARIANTS
    RecTypeOK
    ReplayInventsNothing
    OmissionsAreSaid
    CapKeepsEarliest
    SilenceIsNamed
PROPERTIES
    EvidenceStays
\* The history is over.
CHECK_DEADLOCK FALSE
