SPECIFICATION Spec
CONSTANTS
    Artifacts = {"package"}
    Raw = {}
    Indexed = {}
    DataFiles <- MCTwoFiles
    ParentExists = {"package"}
    FSYNC_ENABLED = TRUE
    Env = {"error", "crash", "power", "cleanup", "cleaner_dies", "stuck"}
INVARIANT PublishedIsWhole
PROPERTY PublishesAtomically
CHECK_DEADLOCK FALSE
