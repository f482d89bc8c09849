----------------------------- MODULE Lifecycles -----------------------------
(***************************************************************************)
(* The lifecycles of tasks, jobs and agents: every legal edge, as declared *)
(* in crates/domain/src/state.rs.  A chain of transitions is taken edge by *)
(* edge and refused at the first edge that does not exist.                 *)
(***************************************************************************)
EXTENDS Naturals, Sequences

TaskStates ==
    {"Created", "WaitingForDependency", "Queued", "Leased", "Running", "Completed",
     "Failed", "TimedOut", "RetryScheduled", "Preempted", "Cancelled", "DeadLettered"}

JobStatuses ==
    {"Submitted", "Admitted", "Rejected", "Planning", "Running", "Paused",
     "Aggregating", "Completed", "PartiallyCompleted", "Failed", "Cancelled"}

TaskAllowed ==
    [Created              |-> {"Queued", "WaitingForDependency", "Cancelled"},
     WaitingForDependency |-> {"Queued", "Cancelled"},
     Queued               |-> {"Leased", "Cancelled", "Preempted"},
     Leased               |-> {"Running", "Queued", "Cancelled"},
     Running              |-> {"Completed", "Failed", "TimedOut",
                               "WaitingForDependency", "Cancelled"},
     Failed               |-> {"RetryScheduled", "DeadLettered"},
     TimedOut             |-> {"RetryScheduled", "DeadLettered"},
     RetryScheduled       |-> {"Queued", "Cancelled"},
     Preempted            |-> {"Queued", "Cancelled"},
     Completed            |-> {},
     Cancelled            |-> {},
     DeadLettered         |-> {}]

JobAllowed ==
    [Submitted          |-> {"Admitted", "Rejected", "Cancelled"},
     Admitted           |-> {"Planning", "Failed", "Cancelled"},
     Planning           |-> {"Running", "Failed", "Cancelled"},
     Running            |-> {"Paused", "Aggregating", "Failed", "Cancelled"},
     Paused             |-> {"Running", "Cancelled"},
     Aggregating        |-> {"Completed", "PartiallyCompleted", "Failed", "Cancelled"},
     Completed          |-> {},
     PartiallyCompleted |-> {"Running", "Cancelled"},
     Failed             |-> {"Running", "Cancelled"},
     Cancelled          |-> {},
     Rejected           |-> {}]

AgentAllowed ==
    [Created    |-> {"Registered", "Terminated"},
     Registered |-> {"Idle", "Assigned", "Terminated"},
     Idle       |-> {"Assigned", "Terminated"},
     Assigned   |-> {"Running", "Idle", "Terminated"},
     Running    |-> {"Waiting", "Completed", "Failed", "Terminated"},
     Waiting    |-> {"Running", "Failed", "Terminated"},
     Completed  |-> {"Idle", "Terminated"},
     Failed     |-> {"Retrying", "Idle", "Terminated"},
     Retrying   |-> {"Running", "Failed", "Terminated"},
     Terminated |-> {}]

\* TaskNode::is_terminal and JobStatus::is_finished.
Terminal == {"Completed", "Cancelled", "DeadLettered"}
Finished == {"Completed", "PartiallyCompleted", "Failed", "Cancelled", "Rejected"}

\* StateMachine::transition applied along a path.
LegalPath(allowed, from, path) ==
    \A i \in 1..Len(path) :
        path[i] \in allowed[IF i = 1 THEN from ELSE path[i - 1]]

\* The state the path leads to.
EndOf(from, path) == IF path = <<>> THEN from ELSE path[Len(path)]
=============================================================================
