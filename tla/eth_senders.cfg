CONSTANTS
    RxN = 3
    TxN = 2
    BufCells = 3
    PbufCells = 2
    PoolSize = 3
    MboxSize = 1
    MsgPool = 2
    RxLens = {1, 5}
    TxShapes <- MCTxShapes
    Senders = {"tcpip", "main"}
    MaxRx = 1
    MaxTx = 2
SPECIFICATION Spec
INVARIANTS ReportedGoesOut
CHECK_DEADLOCK FALSE
