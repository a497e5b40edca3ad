SPECIFICATION Spec
CONSTANTS
    t1 = t1  t2 = t2
    c1 = c1  c2 = c2
    Threads <- OneThread
    Calls <- TwoCalls
    ThreadOf <- Sequential
    Kinds <- ListOnly
    Interrupts = FALSE
    None = None
INVARIANTS
    NoFalseSuccess
CHECK_DEADLOCK FALSE
