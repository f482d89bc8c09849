\* Two jobs that compete for four agents.
SPECIFICATION FairSpec
CONSTANTS
    j1 = j1
    j2 = j2
    t1 = t1
    t2 = t2
    t3 = t3
    Jobs = {j1, j2}
    Tasks = {t1, t2, t3}
    JobOf <- PoolJobOf
    KindOf <- PoolKindOf
    Widest <- OneWide
    Wanted <- ReviewForSecond
    MaxAgents <- ThreeEach
    MaxClusterAgents = 4
    Unlucky = {j2}
    MaxFailures = 1
INVARIANTS
    CountExact
    OneAgentPerTask
    OvershootBounded
PROPERTIES
    NoCapabilityDeadlock
CHECK_DEADLOCK FALSE
