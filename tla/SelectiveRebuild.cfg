SPECIFICATION FairSpec
CONSTANTS
    Actors = {"w1", "w2", "client"}
    Workers = {"w1", "w2"}
    MaxPerStage = 5
    MaxPlans = 1
    MaxCalls = 1
    MaxScans = 1
    Calls <- MCCalls
    Replacements <- MCReplacements
    MaxFaults = 1
    Earlier <- MCEarlier
    Mishaps <- MCMishaps
    Idle = Idle
    NoPlan = NoPlan
INVARIANT LineageIsSound
INVARIANT VerifierAgreesWithGates
INVARIANT RebuildFollowsThePlan
INVARIANT SuccessorsAreRealReplacements
PROPERTY ExecutionsEnd
CHECK_DEADLOCK FALSE
