SPECIFICATION Spec
CONSTANTS
    Runs = {r1}
    r1 = r1
    MaxActive = 1
    StreamTypes <- MCOneStream
    PerStream <- MCPerStream
    Shared <- MCShared
    Env = {"cancel"}
PROPERTY RunTransitionsLegal
CHECK_DEADLOCK FALSE
