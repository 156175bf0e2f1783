CONSTANTS
    v = v
    w = w
    h = h
    b = b
    r = r
    Images <- MCImages
    BodyCells <- MCBodyCells
    Tagged = {v, w, h, b}
    CrcOk = {v, w, h}
    Ragged = {}
    Exact = {h}
    SlotCells = 4
    NumSectors = 2
    SectorOf <- MCSectorOf
    LenMod = 4
    Erased = Erased
    Garbage = Garbage
    Working = {v, w}
    ErrorCodes = {0, 1}
    PbufPool = 3
    BkpWritable = TRUE
    Stress = {"power", "starve", "cmd"}
SPECIFICATION HistorySpec
INVARIANTS TypeOK IInv Recoverable RollbackHasSource 
PROPERTIES RollbackComplete
