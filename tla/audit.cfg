SPECIFICATION FairSpec
CONSTANTS
    p1 = p1  p2 = p2
    w1 = w1  w2 = w2  w3 = w3
    Procs <- TwoProcs
    Reads <- NoCalls
    Writes <- ThreeWrites
    ProcOf <- Threads
    Outcomes <- AllOutcomes
    Flock = TRUE
    OperatorChecksFirst = TRUE
    RotateAt = 1
    MaxArchives = 1
    MaxRestarts = 1
INVARIANTS
    NoPendingArchived
    IntentHeld
    PendingAccounted
PROPERTIES
    RotationKeepsRows
    ResolvedIsFinal
    LossStopsWrites
    LedgerSpec
    EveryCallEnds
CHECK_DEADLOCK FALSE
