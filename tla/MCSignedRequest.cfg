SPECIFICATION RFairSpec
CONSTANTS
    TRADE = TRADE
    META = META
    Threads = {t1, t2}
    Classes = {TRADE, META}
    Interval <- MCInterval
    MaxSignals = 1
    Methods = {"cancel_order", "query_balances"}
    MaxRetries = 1
    Backoff <- MCBackoff
    RetryAfters = {1}
    MaxCalls = 2
    Horizon = 0
CHECK_DEADLOCK FALSE
INVARIANTS AtMostOnce VerdictHonest AttemptsBounded
PROPERTIES ResendOnlyRefused EveryCallEnds
