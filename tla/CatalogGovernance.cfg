SPECIFICATION Spec
CONSTANTS
    clean = clean
    trans = trans
    qc = qc
    pkg = pkg
    pkg2 = pkg2
    Artifacts = {clean, trans, pkg, pkg2}
    Rank <- MCRank
    Parents <- MCParents
    Inputs <- MCParents
    LastRank = 4
    Accepted = {pkg, pkg2}
    Versions <- MCVersions
    Callers = {c1, c2}
    c1 = c1
    c2 = c2
    MaxEvents = 2
    Env = {"abort", "busy", "supersede"}
SYMMETRY RequestSymmetry
INVARIANT HealthyVersionsAreSound
INVARIANT AuditTrailAgrees
INVARIANT RegistrationsHold
CHECK_DEADLOCK FALSE
