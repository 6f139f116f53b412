SPECIFICATION Spec
CONSTANTS
    clean = clean
    trans = trans
    qc = qc
    pkg = pkg
    pkg2 = pkg2
    Artifacts = {clean, trans, pkg, pkg2}
    Rank <- MCRank
    Parents <- MCParents
    Inputs <- MCParents
    LastRank = 4
    Accepted = {pkg, pkg2}
    Versions <- MCVersions
    Callers = {c1}
    c1 = c1
    MaxEvents = 1
    Env = {}
PROPERTY VersionsRespectTheGate
CHECK_DEADLOCK FALSE
