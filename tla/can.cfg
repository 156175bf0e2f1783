SPECIFICATION FairSpec
CONSTANTS
    Buses = 2
    MaxId = 7
    WordIds = 4
    ByteIds = 2
    TxCap = 1
    FifoCap = 2
    MaxCalls = 2
    MaxEvents = 3
    Ranges <- MCRanges
    Timing <- MCTiming
    Timing_CANx <- MCTimingCANx
INVARIANTS TypeOK FilterExact RunsAsSet OffAnnounced ReadOnce
PROPERTIES FilterKeeps FlushedFirst CallReturns Recovers
CHECK_DEADLOCK FALSE
