SPECIFICATION FairSpec
CONSTANTS
    Artifacts = {"cleaned", "upload"}
    Raw = {"upload"}
    Indexed = {"cleaned"}
    DataFiles <- MCOneFile
    ParentExists = {}
    FSYNC_ENABLED = TRUE
    Env = {"error", "crash", "cleanup"}
INVARIANT PublishedIsWhole
INVARIANT FailedIsUnpublished
PROPERTY FailuresCanBeCleanedUp
PROPERTY PublishesAtomically
PROPERTY AbandonedStagingIsRemoved
CHECK_DEADLOCK FALSE
