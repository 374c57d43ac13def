SPECIFICATION Spec
CONSTANTS
    c1 = c1
    c2 = c2
    c3 = c3
    a1 = a1
    a2 = a2
    k1 = k1
    Clients = {c1, c2, c3}
    AccountOf <- MCAccountOf
    KeyOf <- MCKeyOf
    Genesis <- MCGenesis
    Lifetime = 1
    QueueSize = 2
    BatchLimit = 2
    MaxPriorStates = 1
    MaxFaults = 1
PROPERTY
    DesyncRecovered
CHECK_DEADLOCK FALSE
