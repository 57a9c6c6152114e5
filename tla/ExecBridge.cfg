SPECIFICATION FairSpec
CONSTANTS
    Callers = {c1}
    Subscriber = subscriber
    MaxOpenOrders = 1
    MaxOrders = 3
    MaxSignals = 1
    Prior = {1}
PROPERTIES SendEnds SignalTaken
INVARIANTS NoCrossWait OneOrderPastStuck
CHECK_DEADLOCK FALSE
