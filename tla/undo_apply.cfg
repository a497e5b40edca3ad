SPECIFICATION JobSpec
CONSTANTS
    k1 = k1  k2 = k2
    a1 = a1  a2 = a2 
    v1 = v1  v2 = v2
    Tokens <- TwoTokens
    Applies <- TwoApplies
    Targets <- TwoTargets
    Replayable <- TwoTokens
    ConfigChanges = TRUE
    Tools <- RunTools
    Jobs <- RunJobs
    None = None
INVARIANTS
    AppliedMeansLanded
    LateApplyRefused
PROPERTIES
    UndoneInReverse
SYMMETRY Symmetry
CHECK_DEADLOCK FALSE
