\* Two jobs on one queue; one is cancelled, the other runs late.
SPECIFICATION FairSpec
CONSTANTS
    j1 = j1
    j2 = j2
    a = a
    b = b
    c = c
    ka = ka
    kb = kb
    kc = kc
    dup = dup
    NoOwner = NoOwner
    Jobs = {j1, j2}
    Tasks = {a, c}
    Keys = {ka, kc}
    JobOf <- PairJobOf
    Deps <- PairDeps
    TaskOf <- MCTaskOf
    AttemptKey <- MCAttemptKey
    MaxAgents <- OneAgent
    LeaseIds = {1, 2, 3, 4}
    MaxAttempts = 2
    Outcomes = {"valid", "timeout"}
    Expiring = TRUE
    Cancellable = {j1}
    Pausable = {}
    Deadlined = {j2}
PROPERTIES
    JobEnds
