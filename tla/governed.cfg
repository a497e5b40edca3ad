SPECIFICATION Spec
CONSTANTS
    t1 = t1  t2 = t2
    c1 = c1  c2 = c2
    Threads <- TwoThreads
    Calls <- TwoCalls
    ThreadOf <- Parallel
    Kinds <- MixedTools
    Interrupts = TRUE
    None = None
INVARIANTS
    FailureFromBody
    SuccessTruthful
    ReportsAgree
    InverseSound
    IntentPrecedesEffect
CHECK_DEADLOCK FALSE
