SPECIFICATION FairSpec
CONSTANTS
    clean = clean
    trans = trans
    qc = qc
    pkg = pkg
    pkg2 = pkg2
    Artifacts = {trans, qc, pkg}
    Rank <- MCRank
    Parents <- MCParents
    Inputs <- MCParents
    LastRank = 4
    Accepted = {}
    Versions <- MCNoVersions
    Callers = {c1}
    c1 = c1
    MaxEvents = 0
    Env = {"alter", "remove", "rebuild", "busy", "runs"}
INVARIANT EveryGapIsReported
PROPERTY CatalogOnlyForgetsTheRemoved
PROPERTY ScanRegistersWhatWasThere
PROPERTY ScanNeverOverwrites
PROPERTY PublishedBecomesRegistered
CHECK_DEADLOCK FALSE
