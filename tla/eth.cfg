CONSTANTS
    RxN = 3
    TxN = 2
    BufCells = 3
    PbufCells = 2
    PoolSize = 3
    MboxSize = 1
    MsgPool = 2
    RxLens = {1, 5}
    TxShapes <- MCTxShapes
    Senders = {"tcpip"}
    MaxRx = 3
    MaxTx = 3
SPECIFICATION FairSpec
INVARIANTS TypeOK NoLostWakeup RingNotStuck RxNeverBusy PacketsIntact NoPbufLeak ReportedGoesOut
PROPERTIES RingDrains
CHECK_DEADLOCK FALSE
