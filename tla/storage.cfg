SPECIFICATION StorageSpec
CONSTANTS
    b1 = b1  b2 = b2  b3 = b3  vm = vm  other = other
    rev2 = rev2  rev1 = rev1  Missing = Missing
    None = Missing
    Revisions <- TwoRevisions
    Plural <- PluralOnes
    Servers <- AnyServer
    Scopes <- Scoped
    Workers = 2
    MaxBackups = 3
    MaxLookups = 1
    Wanted <- OneName
INVARIANTS
    Conserved
    PayloadInOrder
    ChargedBytesAreOwn
    NoDrift
    AbortBoundsReads
CHECK_DEADLOCK FALSE
