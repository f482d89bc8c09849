\* One job of two tasks, two crashes, one of which may cut an append short.
SPECIFICATION FairSpec
CONSTANTS
    j1 = j1
    a = a
    b = b
    Jobs = {j1}
    Tasks = {a, b}
    JobOf <- ChainJobOf
    Deps <- ChainDeps
    MaxAttempts <- RetriedOnce
    Outcomes = {"valid", "timeout"}
    Cancellable = {j1}
    MaxCrashes = 2
    MaxTears = 1
INVARIANTS
    TypeOK
    SettledStaysSettled
    
    RestartBudget
    
PROPERTIES
    AttemptsAdvance
    
CHECK_DEADLOCK FALSE
