\* Jobs of four and five tasks, up to one retry and one restart.
SPECIFICATION Spec
CONSTANTS
    Plans <- MCPlans
    Outputs <- MCOutputs
    MAX_EVIDENCE = 2
INVARIANTS
    OrderInsensitive
    
    VerdictHonest
    
CHECK_DEADLOCK FALSE
