SPECIFICATION Spec
CONSTANTS
    t1 = t1  t2 = t2
    c1 = c1  c2 = c2
    Threads <- OneThread
    Calls <- TwoCalls
    ThreadOf <- Sequential
    Kinds <- Undoables
    Interrupts = FALSE
    None = None
INVARIANTS
    NoFalseFailure
CHECK_DEADLOCK FALSE
