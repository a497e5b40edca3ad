SPECIFICATION Spec
CONSTANTS
    s1 = s1  s2 = s2  s3 = s3
    fqdn = fqdn  label = label  other = other  blank = blank  unread = unread
    Ids <- ThreeIds
    ActiveStates <- FourStates
    CauseRules <- TwoRules
    Limit = 2
    MaxMoves = 5
    Names <- ThreeNames
    Host = fqdn
    Short = label
    Blank = blank
    Unread = unread
INVARIANTS
    ActiveFound
    FailuresExplained
    NeverOverItself
    PreviewAgrees
SYMMETRY Symmetry
CHECK_DEADLOCK FALSE
