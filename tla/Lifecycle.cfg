SPECIFICATION LifeFairSpec
CONSTANTS
    MaxSigints = 2
    MaxSigterms = 1
INVARIANTS OneLateMessage SubscriberOutlived
PROPERTIES StatusEnds
