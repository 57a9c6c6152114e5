SPECIFICATION ClockSpec
CONSTANTS
    Callers = {t1, t2}
    Second = 2
    Life = 2
    Timeout = 2
    MaxPause = 1
    Epoch = 1
    HostSkew <- Behind
    ClockHorizon = 8
SYMMETRY Symmetric
CHECK_DEADLOCK FALSE
INVARIANTS StampNotStale StampNotAhead
