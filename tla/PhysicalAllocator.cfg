SPECIFICATION FairSpec
CONSTANTS
    Threads = {t1, t2, t3}
    Tables = 1
    Entries = 2
    Rows = 2
    Digits = 2
INVARIANTS
    TablesInv
    TakeFindsPage
    PageGivenOnce
PROPERTIES
    OutOfMemoryMeansEmpty
    AllocationEnds
