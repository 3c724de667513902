SPECIFICATION OpsSpec
CONSTANTS
    Profiles = {"quick", "theft"}
    Manifests <- MCManifests
    ProfileSets <- MCProfileSets
    MaxEdits = 3
    Libraries <- MCLibraries
    Documents <- MCDocuments
    Parent <- MCParent
    KnownTests = {"dump", "minidump", "logs"}
    Backends <- MCBackends
    default_backend = "fixture"
    BaseSettings <- MCBaseSettings
    Broken = Broken
INVARIANT
    PlannerIsStrict
\* The bound on edits is reached.
CHECK_DEADLOCK FALSE
