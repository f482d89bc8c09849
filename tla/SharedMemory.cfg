\* Two clients, one key, two ticks, three writes.
SPECIFICATION Spec
CONSTANTS
    Clients = {c1, c2}
    Keys = {k1}
    Owners = {"none", "job"}
    Ttls <- Lifetimes
    MaxTime = 2
    MaxWrites = 3
INVARIANTS
    AuditComplete
PROPERTIES
    NoLostUpdate
    
SYMMETRY Symmetry
CHECK_DEADLOCK FALSE
