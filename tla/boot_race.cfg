CONSTANTS
    v = v
    w = w
    h = h
    b = b
    r = r
    Images <- FewImages
    BodyCells <- FewBodyCells
    Tagged = {v, h}
    CrcOk = {v, h}
    Ragged = {}
    Exact = {}
    SlotCells = 3
    NumSectors = 2
    SectorOf <- FewSectorOf
    LenMod = 3
    Erased = Erased
    Garbage = Garbage
    Working = {v}
    ErrorCodes = {1}
    PbufPool = 1
    BkpWritable = TRUE
    Stress = {"power", "starve", "starvebk", "glitch", "fault", "retry", "race", "cmd"}
SPECIFICATION Spec
PROPERTIES BackupIsCopy
