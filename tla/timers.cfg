CONSTANTS
    W = 256
    D = 3
    Interval <- MCInterval
    Pool = 2
    Lag = 4
    MaxUp = 250
SPECIFICATION Spec
INVARIANTS TypeOK AllTimersListed OnTime NoDrift
CHECK_DEADLOCK FALSE
