SPECIFICATION Spec
CONSTANTS
    Jobs <- MCJobs
    MaxTasks = 5
INVARIANTS OneGraph PlanSound
PROPERTY EditsKeepOrder
CHECK_DEADLOCK FALSE
