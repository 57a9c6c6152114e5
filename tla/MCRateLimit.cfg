SPECIFICATION FairSpec
CONSTANTS
    trade = trade
    query = query
    Threads = {t1, t2}
    Classes = {trade, query}
    Second = 5
    Rate <- MCRate
    LastCall = 1
    Horizon = 2
    MaxSignals = 1
CHECK_DEADLOCK FALSE
INVARIANTS TypeOK SlotsSpaced NeverEarly BacklogBounded
PROPERTIES RefinesPacer EveryCallReturns
