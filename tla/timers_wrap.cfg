CONSTANTS
    W = 256
    D = 3
    Interval <- MCInterval
    Pool = 2
    Lag = 4
    MaxUp = 400
SPECIFICATION Spec
INVARIANTS OnTime
CHECK_DEADLOCK FALSE
