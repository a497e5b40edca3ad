SPECIFICATION Spec
CONSTANTS
    t1 = t1  t2 = t2  p1 = p1  q1 = q1  v1 = v1
    Threads <- TwoThreads
    Ids <- TwoIds
    Targets <- OneTarget
    Directory <- Revoked
    Hour = 1
    Day = 2
    Default <- AfterThree
    MaxTime = 2
    MaxArms = 3
    None = None
INVARIANTS
    ArmedAsCurrent
SYMMETRY Symmetry
CHECK_DEADLOCK FALSE
