SPECIFICATION FairSpec
CONSTANTS
    Runs = {r1, r2}
    r1 = r1
    r2 = r2
    MaxActive = 2
    StreamTypes <- MCOneStream
    PerStream <- MCShortPerStream
    Shared <- MCShared
    Env = {"cancel", "stage", "crash", "restart"}
PROPERTY LostRunsAreReconciled
PROPERTY AcceptedRunsFinish
CHECK_DEADLOCK FALSE
