SPECIFICATION Spec
CONSTANTS
    Runs = {r1, r2}
    r1 = r1
    r2 = r2
    MaxActive = 1
    StreamTypes <- MCTwoSameStreams
    PerStream <- MCShortPerStream
    Shared <- MCShared
    Env = {"cancel", "stage", "upload", "busy", "crash", "slow", "restart"}
SYMMETRY RunSymmetry
INVARIANT TypeOK
INVARIANT CapacityRespected
INVARIANT StageOrder
INVARIANT CompletedIsWhole
INVARIANT CancelledIsClosed
INVARIANT ProvenanceTracksDisk
INVARIANT EventLogTellsTheStory
PROPERTY StageTransitionsLegal
PROPERTY CancelledIsQuiet
PROPERTY HealthyRunsAreNotLost
CHECK_DEADLOCK FALSE
