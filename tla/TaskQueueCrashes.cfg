CONSTANTS
    k1 = k1  k2 = k2  k3 = k3
    j1 = j1  j2 = j2
    t1 = t1  t2 = t2
    i1 = i1  i2 = i2  i3 = i3
    Keys = {k1, k2, k3}
    TaskOf <- MCTaskOf
    JobOf <- MCJobOf
    Priority <- MCPriority
    QueueOf <- MCQueueOf
    Requires <- MCRequires
    Offers <- MCOffers
    LeaseIds = {i1, i2}
    LeaseDuration = 1
    Extensions = {2}
    StartAttempts = {0}
    StartDelays = {0}
    Lag = 0
    WaitedCap = 1
    ReplayBound = 2
    MaxAttempts = 2
    BackoffBase = 1
    BackoffMax = 1
    Jitter = TRUE
    NoOwner = NoOwner
SPECIFICATION CrashSpec
INVARIANTS
    WithinBudget
PROPERTIES
    OrphansRecovered
    PoisonParked
