SPECIFICATION Spec
CONSTANTS
    Artifacts = {"package"}
    Raw = {}
    Indexed = {}
    DataFiles <- MCTwoFiles
    ParentExists = {"package"}
    FSYNC_ENABLED = TRUE
    Env = {"cleanup", "slow"}
INVARIANT PublishedIsWhole
CHECK_DEADLOCK FALSE
