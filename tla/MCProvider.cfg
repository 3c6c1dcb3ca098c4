CONSTANTS
    t1 = t1
    t2 = t2
    Tasks <- MCTasks
    NoTask = NoTask
    MaxCalls = 2
    MaxFaults = 1
    Rates = {1, 4}
    RateWidth = 2

SPECIFICATION Spec

INVARIANT NoNonceClash
PROPERTY EveryCallReturns
