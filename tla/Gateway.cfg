SPECIFICATION FairSpec
CONSTANTS
    Callers = {"c1", "c2"}
    Asks <- MCAsks
    Providers <- MCProviders
    Supports <- MCSupports
    Cost <- MCCost
    NoLimit = NoLimit
    ModelLimit <- MCModelLimit
    max_concurrent = 2
    cache_enabled = TRUE
    cache_capacity = 1
    max_attempts = 2
    circuit_failure_threshold = 2
    circuit_reset = 1
    budget = 1
    MaxCalls = 3
    MaxNow = 1
INVARIANTS  OverspendBounded OpenBreakerShields
PROPERTY CallsReturn
CHECK_DEADLOCK FALSE
