CONSTANTS
    x = x
    y = y
    PageSize = 2
    ChipPages = 1
    MemPages = 2
    Val = {x, y}
    Garbage = Garbage
    MaxLen = 2
    Present = {0, 1}
    Overwrites = FALSE
SPECIFICATION FairSpec
INVARIANTS TypeOK NeverHangs
PROPERTIES MemoryImplemented FlushDurable CallReturns
