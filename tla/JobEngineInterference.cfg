\* Two jobs, every execution succeeds.
SPECIFICATION Spec
CONSTANTS
    j1 = j1
    j2 = j2
    a = a
    b = b
    c = c
    ka = ka
    kb = kb
    kc = kc
    dup = dup
    NoOwner = NoOwner
    Jobs = {j1, j2}
    Tasks = {a, b, c}
    Keys = {ka, kb, kc}
    JobOf <- PairJobOf
    Deps <- PairDeps
    TaskOf <- MCTaskOf
    AttemptKey <- MCAttemptKey
    MaxAgents <- OneAgent
    LeaseIds = {1, 2, 3, 4}
    MaxAttempts = 2
    Outcomes = {"valid"}
    Expiring = FALSE
    Cancellable = {}
    Pausable = {}
    Deadlined = {}
INVARIANTS
    JobsDoNotInterfere
