SPECIFICATION FairPaging
CONSTANTS
    i1 = i1  i2 = i2  i3 = i3  i4 = i4  anon = anon
    Items <- AllItems
    Anonymous <- Nameless
    Collections <- Held
    Wants <- Asked
    NoNumber = NoNumber
    PageSize = 2
    DefaultLimit = 3
    MaxPages = 3
    MaxChanges = 1
INVARIANTS
    CompleteOrError
    HonestRead
PROPERTIES
    ReadEnds
CHECK_DEADLOCK FALSE
