CONSTANTS
    v = v
    w = w
    h = h
    b = b
    r = r
    Images <- FewImages
    BodyCells <- FewBodyCells
    Tagged = {v, h}
    CrcOk = {v, h}
    Ragged = {}
    Exact = {}
    SlotCells = 3
    NumSectors = 2
    SectorOf <- FewSectorOf
    LenMod = 3
    Erased = Erased
    Garbage = Garbage
    Working = {v}
    ErrorCodes = {0, 1}
    PbufPool = 2
    BkpWritable = TRUE
    Stress = {"power", "starve", "starvebk", "glitch", "fault", "cmd"}
SPECIFICATION Spec
PROPERTIES BackupOnlyWorking JumpsToVerified
