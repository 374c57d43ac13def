SPECIFICATION Spec
CONSTANTS
    w1 = w1
    w2 = w2
    Addresses = {w1, w2}
    InitialWorkers <- MCInitialWorkers
    Requests = {r1, r2}
    None = None
    MaxQueueItems = 1
    MaxRetriesPerRequest = 0
    MaxReqPerSec = 1
    MaxBackoffExponent = 1
    MaxAttempts = 3
    MaxFaults = 1
INVARIANTS
    QueueIntact
    WorkersExact
PROPERTY
    EveryRequestAnswered
CHECK_DEADLOCK FALSE
