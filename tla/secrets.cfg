SPECIFICATION Spec
CONSTANTS
    p1 = p1  p2 = p2  p3 = p3  vbr1 = vbr1  vbr2 = vbr2
    old = old  new = new  k1 = k1  k2 = k2  NoFile = NoFile
    Procs <- ThreeProcs
    Names <- TwoNames
    Values <- OldAndNew
    Passwords <- TwoPasswords
    Absent = NoFile
    Empty = Empty
    Garbled = Garbled
    Commands <- AllCommands
    Initially <- NoneOrOne
    Legacies <- Both
INVARIANTS
    StoreIsLedger
    MigrationKeeps
    AbsenceIsReal
SYMMETRY Symmetry
CHECK_DEADLOCK FALSE
