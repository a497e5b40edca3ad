SPECIFICATION JobSpec
CONSTANTS
    k1 = k1  k2 = k2
    a1 = a1  a2 = a2 
    v1 = v1  v2 = v2
    Tokens <- OneToken
    Applies <- TwoApplies
    Targets <- OneTarget
    Replayable <- OneToken
    ConfigChanges = FALSE
    Tools <- RunTools
    Jobs <- RunJobs
    None = None
INVARIANTS
    AppliedOnce
CHECK_DEADLOCK FALSE
