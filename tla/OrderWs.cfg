SPECIFICATION FairSpec
CONSTANTS
    Boots = {b1, b2, b3}
    MaxOpens = 3
CHECK_DEADLOCK FALSE
INVARIANTS InitializedMeansFilled ConnectedMeansLink
PROPERTIES LossNoticed ProgressEnds
