SPECIFICATION FairSpec
CONSTANTS
    t1 = t1  t2 = t2  t3 = t3
    Threads <- ThreeThreads
    Reports <- Sometimes
    MaxRevoked = 1
    MaxElapsed = 1
INVARIANTS
    AppliedAtMostOnce
    RenewedOncePerCause
PROPERTIES
    EveryRequestEnds
CHECK_DEADLOCK FALSE
