SPECIFICATION Spec
CONSTANTS
    t1 = t1  t2 = t2  f1 = f1  f2 = f2
    Threads <- TwoThreads
    Calls <- TwoCalls
    Limits <- Ceilings
    MaxSeconds = 2
    RunawayMax = 2
    Window = 2
    MaxTime = 3
    MaxSetBacks = 1
    Idle = Idle
INVARIANTS
    CallCeiling
    WindowExact
SYMMETRY Symmetry
CHECK_DEADLOCK FALSE
