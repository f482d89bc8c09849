\* One job: failures, lapsing leases, a redelivery, and an operator.
SPECIFICATION FairSpec
CONSTANTS
    j1 = j1
    j2 = j2
    a = a
    b = b
    c = c
    ka = ka
    kb = kb
    kc = kc
    dup = dup
    NoOwner = NoOwner
    Jobs = {j1}
    Tasks = {a, b, c}
    Keys = {ka, kb, kc, dup}
    JobOf <- DiamondJobOf
    Deps <- DiamondDeps
    TaskOf <- MCTaskOf
    AttemptKey <- MCAttemptKey
    MaxAgents <- TwoAgents
    LeaseIds = {1, 2, 3, 4, 5}
    MaxAttempts = 2
    Outcomes = {"valid", "error", "fatal"}
    Expiring = TRUE
    Cancellable = {j1}
    Pausable = {j1}
    Deadlined = {}
INVARIANTS
    TypeOK
    OneResult
    RunsOnce
    QueueBacksGraph
    OverMeansSettled
PROPERTIES
    JobEnds
