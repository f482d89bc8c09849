--------------------------- MODULE AnswerRegister --------------------------
(***************************************************************************)
(* What the agent runtime promises the engine about deliveries of a task:  *)
(* the task's answer is chosen once, from what its own deliveries          *)
(* produced, and a delivery either replies with that answer or with none.  *)
(***************************************************************************)
CONSTANTS
    Tasks, Deliveries,
    TaskOf      \* [Deliveries -> Tasks]

VARIABLES
    chosen,     \* the delivery whose answer is the task's, or "none"
    reply       \* "pending", "unanswered", or the delivery whose answer it is

registerVars == <<chosen, reply>>

Init ==
    /\ chosen = [t \in Tasks |-> "none"]
    /\ reply = [d \in Deliveries |-> "pending"]

Choose(d) ==
    /\ chosen[TaskOf[d]] = "none" /\ reply[d] = "pending"
    /\ chosen' = [chosen EXCEPT ![TaskOf[d]] = d]
    /\ UNCHANGED reply

Answer(d) ==
    /\ reply[d] = "pending" /\ chosen[TaskOf[d]] # "none"
    /\ reply' = [reply EXCEPT ![d] = chosen[TaskOf[d]]]
    /\ UNCHANGED chosen

GiveUp(d) ==
    /\ reply[d] = "pending"
    /\ reply' = [reply EXCEPT ![d] = "unanswered"]
    /\ UNCHANGED chosen

Next == \E d \in Deliveries : Choose(d) \/ Answer(d) \/ GiveUp(d)

Spec == Init /\ [][Next]_registerVars
=============================================================================
