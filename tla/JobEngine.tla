----------------------------- MODULE JobEngine -----------------------------
(***************************************************************************)
(* The tick loop that drives a job (crates/coordinator/src/engine.rs), one *)
(* engine per job, composed with the queue all jobs share.  The queue is   *)
(* its contract, LeasedDelivery, which TaskQueueRefinement shows the       *)
(* in-memory queue to implement; what only time decides (which backoffs    *)
(* have elapsed, which leases have lapsed) is nondeterministic here.       *)
(*                                                                         *)
(* A step ends where the code awaits the queue, the agents or the operator,*)
(* so engines and the cancel, pause and resume calls interleave at those   *)
(* points.                                                                 *)
(***************************************************************************)
EXTENDS LeasedDelivery, Lifecycles, FiniteSets

CONSTANTS
    Jobs, Tasks,
    JobOf,          \* [Tasks -> Jobs]
    Deps,           \* [Tasks -> SUBSET Tasks], acyclic and within a job
    TaskOf,         \* [Keys -> Tasks]
    AttemptKey,     \* [Tasks -> Keys], the key promote_ready enqueues
    MaxAgents,      \* [Jobs -> 1..], the job's agent budget
    Outcomes,       \* what executions may end in
    Expiring,       \* TRUE iff a lease may lapse while it is held
    Cancellable, Pausable, Deadlined     \* jobs the operator or the clock may stop

ASSUME JobEngineAssumption ==
    /\ \A t \in Tasks : /\ JobOf[t] \in Jobs
                        /\ \A d \in Deps[t] : d \in Tasks /\ JobOf[d] = JobOf[t]
                        /\ AttemptKey[t] \in Keys /\ TaskOf[AttemptKey[t]] = t
    /\ \A k \in Keys : TaskOf[k] \in Tasks
    /\ \A j \in Jobs : MaxAgents[j] \in Nat \ {0}
    /\ \A j \in Jobs : \E t \in Tasks : JobOf[t] = j
    /\ MaxAttempts \in Nat \ {0}
    /\ Outcomes \subseteq {"valid", "invalid", "error", "fatal", "timeout"}
    /\ Expiring \in BOOLEAN

VARIABLES
    pc,         \* where each job's engine is in its loop
    jobStatus,  \* Job::status
    control,    \* the operator's watch channel
    state,      \* TaskNode::state
    results,    \* results recorded for a task
    inflight,   \* the dispatches of the current tick, in order
    slots,      \* idle agents collect_dispatches may still match
    promoted,   \* whether this tick promoted a task
    stray,      \* the delivery about to be discarded, or none
    late,       \* whether the deadline has passed
    cancelling, \* cancel(): "no", "purging" (control set, purge to come), "done"
    checked     \* pause and resume calls past their check, before their write

engineVars == <<pc, jobStatus, control, state, results, inflight, slots, promoted, stray>>
operatorVars == <<late, cancelling, checked>>
vars == <<abstractVars, engineVars, operatorVars>>

Owned(j) == {t \in Tasks : JobOf[t] = j}
KeysOf(j) == {k \in Keys : JobOf[TaskOf[k]] = j}
Dispatch == [task : Tasks, key : Keys, id : LeaseIds, attempt : 1..MaxAttempts]

\* Redelivered keys: entries a broker delivers again under another attempt key.
Redelivered == Keys \ {AttemptKey[t] : t \in Tasks}

Init ==
    /\ AbstractInit
    /\ pc = [j \in Jobs |-> "new"]
    /\ jobStatus = [j \in Jobs |-> "Planning"]
    /\ control = [j \in Jobs |-> "Running"]
    /\ state = [t \in Tasks |-> "Created"]
    /\ results = [t \in Tasks |-> 0]
    /\ inflight = [j \in Jobs |-> <<>>]
    /\ slots = [j \in Jobs |-> 0]
    /\ promoted = [j \in Jobs |-> FALSE]
    /\ stray = [j \in Jobs |-> {}]
    /\ late = [j \in Jobs |-> FALSE]
    /\ cancelling = [j \in Jobs |-> "no"]
    /\ checked = [j \in Jobs |-> {}]

-----------------------------------------------------------------------------
(* Building blocks.                                                        *)

Goto(j, label) == pc' = [pc EXCEPT ![j] = label]

\* JobHandle::set_status along a path; a refused edge ends run_job with an error.
SetStatus(j, path, label) ==
    IF LegalPath(JobAllowed, jobStatus[j], path)
    THEN /\ jobStatus' = [jobStatus EXCEPT ![j] = EndOf(@, path)]
         /\ Goto(j, label)
    ELSE Goto(j, "error") /\ UNCHANGED jobStatus

\* engine::advance, for every task of T along its path; a refused edge ends
\* run_job with an error.
AdvanceAll(j, T, path, label) ==
    IF \A t \in T : LegalPath(TaskAllowed, state[t], path[t])
    THEN /\ state' = [t \in Tasks |-> IF t \in T THEN EndOf(state[t], path[t])
                                    ELSE state[t]]
         /\ Goto(j, label)
    ELSE Goto(j, "error") /\ UNCHANGED state

Advance(j, t, path, label) == AdvanceAll(j, {t}, [u \in {t} |-> path], label)

\* TaskGraph::ready.
Ready(j) ==
    {t \in Owned(j) : /\ state[t] \in {"Created", "WaitingForDependency"}
                      /\ \A d \in Deps[t] : state[d] = "Completed"}

IsComplete(j) == \A t \in Owned(j) : state[t] \in Terminal

\* Mutant of BlockedByAbandoned: dead-lettered tasks strand nothing.
BlockedByCancelled(j) ==
    {t \in Owned(j) : /\ state[t] \notin Terminal
                      /\ \E d \in Deps[t] : state[d] = "Cancelled"}

\* TaskGraph::blocked_by_abandoned: reachable forward from an abandoned task
\* through tasks that are not terminal.
BlockedByAbandoned(j) ==
    LET abandoned == {t \in Owned(j) : state[t] \in {"DeadLettered", "Cancelled"}}
        reach[n \in 0..Cardinality(Tasks)] ==
            IF n = 0 THEN abandoned
            ELSE reach[n - 1] \cup {t \in Owned(j) : /\ state[t] \notin Terminal
                                                     /\ Deps[t] \cap reach[n - 1] # {}}
    IN  {t \in Owned(j) : state[t] \notin Terminal /\ t \in reach[Cardinality(Tasks)]}

\* Mutant of Depth: parked entries are counted.
DepthWithParked == Cardinality(In("waiting") \cup In("leased") \cup In("parked"))

\* QueueStats::depth counts the entries of every job.
Depth == Cardinality(In("waiting") \cup In("leased"))

\* An identifier no lease and no engine holds.  LeaseIds bounds how many are
\* in use at once.
IsFresh(id) ==
    /\ \A k \in Keys : owner[k] # id
    /\ \A j \in Jobs : /\ \A i \in 1..Len(inflight[j]) : inflight[j][i].id # id
                       /\ \A d \in stray[j] : d.id # id

FreshLease == CHOOSE id \in LeaseIds : IsFresh(id)

\* purge_job.
Purge(j) ==
    LET K == KeysOf(j) \cap (In("waiting") \cup In("leased"))
    IN  IF K = {} THEN UNCHANGED abstractVars ELSE Drop(K)

\* acknowledge: Ok while the lease is live, an error once it lapsed or is gone.
Holds(d) == owner[d.key] = d.id
AckOk(d) == Holds(d) /\ Complete(d.key)
AckLost(d) ==
    \/ Holds(d) /\ Expiring /\ FailLeases({d.key})
    \/ ~Holds(d) /\ UNCHANGED abstractVars

\* reject: retry or park, and an error the engine only logs if the lease is gone.
RejectLease(d) ==
    IF Holds(d) THEN FailLeases({d.key}) ELSE UNCHANGED abstractVars

-----------------------------------------------------------------------------
(* run_job, tick by tick.                                                  *)

Run(j) ==
    /\ pc[j] = "new"
    /\ SetStatus(j, <<"Running">>, "tick")
    /\ UNCHANGED <<abstractVars, operatorVars, control, state, results, inflight,
                   slots, promoted, stray>>

\* The top of the loop: obey the control channel, then the deadline.
TickTop(j) ==
    /\ pc[j] = "tick"
    /\ \/ /\ control[j] = "Cancelled"
          /\ Goto(j, "teardown")
          /\ UNCHANGED jobStatus
       \/ /\ control[j] = "Paused"
          /\ SetStatus(j, IF jobStatus[j] = "Paused" THEN <<>> ELSE <<"Paused">>, "parked")
       \/ /\ control[j] = "Running"
          /\ SetStatus(j, IF jobStatus[j] = "Paused" THEN <<"Running">> ELSE <<>>,
                       IF late[j] THEN "finish" ELSE "promote")
    /\ promoted' = [promoted EXCEPT ![j] = FALSE]
    /\ UNCHANGED <<abstractVars, operatorVars, control, state, results, inflight,
                   slots, stray>>

\* await_resume: until the control channel says Running or Cancelled.
AwaitResume(j) ==
    /\ pc[j] = "parked"
    /\ \/ control[j] = "Running" /\ Goto(j, "tick")
       \/ control[j] = "Cancelled" /\ Goto(j, "teardown")
    /\ UNCHANGED <<abstractVars, operatorVars, jobStatus, control, state, results,
                   inflight, slots, promoted, stray>>

\* promote_ready, one task at a time: advance to Queued and enqueue.  The key
\* of an attempt seen before is a no-op for the queue.
PromoteReady(j) ==
    /\ pc[j] = "promote"
    /\ \E t \in Ready(j) :
        /\ Advance(j, t, <<"Queued">>, "promote")
        /\ IF status[AttemptKey[t]] = "absent"
           THEN /\ spent' = [spent EXCEPT ![AttemptKey[t]] = 0]
                /\ Admit(AttemptKey[t])
           ELSE UNCHANGED abstractVars
    /\ promoted' = [promoted EXCEPT ![j] = TRUE]
    /\ UNCHANGED <<operatorVars, jobStatus, control, results, inflight, slots, stray>>

PromoteDone(j) ==
    /\ pc[j] = "promote"
    /\ Ready(j) = {}
    /\ Goto(j, "sweep")
    /\ UNCHANGED <<abstractVars, operatorVars, jobStatus, control, state, results,
                   inflight, slots, promoted, stray>>

\* requeue_expired takes back every lapsed lease, whichever job holds it; then
\* the pool is maintained and the idle agents are counted.
SweepAndCount(j) ==
    /\ pc[j] = "sweep"
    /\ \E K \in SUBSET (IF Expiring THEN In("leased") ELSE {}) :
        IF K = {} THEN UNCHANGED abstractVars ELSE FailLeases(K)
    /\ \E n \in 1..MaxAgents[j] : slots' = [slots EXCEPT ![j] = n]
    /\ Goto(j, "collect")
    /\ UNCHANGED <<operatorVars, jobStatus, control, state, results, inflight,
                   promoted, stray>>

\* The task is in this job's graph and waits for an agent.
Leasable(j, t) == JobOf[t] = j /\ state[t] \in {"Queued", "RetryScheduled"}

\* Mutant of StartPath: the task is leased and never marked as running.
StartPathLeased(t) ==
    IF state[t] = "RetryScheduled" THEN <<"Queued", "Leased">> ELSE <<"Leased">>

StartPath(t) ==
    IF state[t] = "RetryScheduled" THEN <<"Queued", "Leased", "Running">>
    ELSE <<"Leased", "Running">>

\* One turn of collect_dispatches' loop.  The entry dequeued may belong to any
\* job; one whose task is not leasable in this job's graph is set aside to be
\* acknowledged, any other is started.
Collect(j, k) ==
    /\ pc[j] = "collect" /\ slots[j] > 0
    /\ \E id \in LeaseIds : IsFresh(id)
    /\ Grant(k, FreshLease)
    /\ slots' = [slots EXCEPT ![j] = @ - 1]
    /\ LET t == TaskOf[k]
           d == [task |-> t, key |-> k, id |-> FreshLease, attempt |-> spent[k] + 1]
       IN  \/ /\ Leasable(j, t)
              /\ Advance(j, t, StartPath(t), "collect")
              /\ inflight' = [inflight EXCEPT ![j] = Append(@, d)]
              /\ UNCHANGED stray
           \/ /\ ~Leasable(j, t)
              /\ Goto(j, "discard")
              /\ stray' = [stray EXCEPT ![j] = {d}]
              /\ UNCHANGED <<state, inflight>>
    /\ UNCHANGED <<operatorVars, jobStatus, control, results, promoted>>

Discard(j) ==
    /\ pc[j] = "discard"
    /\ \E d \in stray[j] : AckOk(d) \/ AckLost(d)
    /\ stray' = [stray EXCEPT ![j] = {}]
    /\ Goto(j, "collect")
    /\ UNCHANGED <<operatorVars, jobStatus, control, state, results, inflight, slots,
                   promoted>>

\* The loop ends with no idle agent left or nothing visible: an entry never
\* tried is visible at once, a retried one may be hidden by its backoff.
NothingVisible == \A k \in In("waiting") : spent[k] > 0

CollectDone(j) ==
    /\ pc[j] = "collect"
    /\ slots[j] = 0 \/ NothingVisible
    /\ Goto(j, IF inflight[j] = <<>> THEN "idle" ELSE "execute")
    /\ slots' = [slots EXCEPT ![j] = 0]
    /\ UNCHANGED <<abstractVars, operatorVars, jobStatus, control, state, results,
                   inflight, promoted, stray>>

\* Mutant of MakeProgressPossible: tasks that can never run are waited for.
MakeProgressAlways(j) == Goto(j, "tick") /\ UNCHANGED state

\* make_progress_possible: wait while the queue owes anybody anything, else
\* cancel what an abandoned task stranded, else give up.
MakeProgressPossible(j) ==
    IF Depth > 0
    THEN Goto(j, "tick") /\ UNCHANGED state
    ELSE AdvanceAll(j, BlockedByAbandoned(j), [t \in Tasks |-> <<"Cancelled">>],
                    IF BlockedByAbandoned(j) = {} THEN "finish" ELSE "tick")

\* A tick that dispatched nothing.
IdleTick(j) ==
    /\ pc[j] = "idle"
    /\ \/ IsComplete(j) /\ Goto(j, "finish") /\ UNCHANGED state
       \/ ~IsComplete(j) /\ promoted[j] /\ Goto(j, "tick") /\ UNCHANGED state
       \/ ~IsComplete(j) /\ ~promoted[j] /\ MakeProgressPossible(j)
    /\ UNCHANGED <<abstractVars, operatorVars, jobStatus, control, results, inflight,
                   slots, promoted, stray>>

\* join_all against wait_for_cancel: every execution ends (each is under a
\* timeout), or the tick is abandoned.
ExecuteAll(j) ==
    /\ pc[j] = "execute"
    /\ Goto(j, "apply")
    /\ UNCHANGED <<abstractVars, operatorVars, jobStatus, control, state, results,
                   inflight, slots, promoted, stray>>

AbandonTick(j) ==
    /\ pc[j] = "execute" /\ control[j] = "Cancelled"
    /\ inflight' = [inflight EXCEPT ![j] = <<>>]
    /\ Goto(j, "teardown")
    /\ UNCHANGED <<abstractVars, operatorVars, jobStatus, control, state, results,
                   slots, promoted, stray>>

\* Mutant of Retryable: one attempt too many.
RetryableOneMore(d) == d.attempt <= MaxAttempts

\* The lease's own attempt count decides whether the engine schedules a retry.
Retryable(d) == d.attempt < MaxAttempts

\* Mutant of FailTask: straight to the retry or the dead letters.
FailTaskShortcut(j, d, failure, retry) ==
    Advance(j, d.task, <<IF retry THEN "RetryScheduled" ELSE "DeadLettered">>, "apply")

\* fail_task: the failure state, then a retry or the dead letters.
FailTask(j, d, failure, retry) ==
    Advance(j, d.task, <<failure, IF retry THEN "RetryScheduled" ELSE "DeadLettered">>,
            "apply")

\* The validated result is acknowledged, the task completed, the result kept.
Succeed(j, d) ==
    /\ AckOk(d)
    /\ Advance(j, d.task, <<"Completed">>, "apply")
    /\ results' = [results EXCEPT ![d.task] = @ + 1]

\* Mutant of LoseLease: the result is kept although the lease was lost.
LoseLeaseKeepResult(j, d) ==
    /\ AckLost(d)
    /\ FailTask(j, d, "Failed", Retryable(d))
    /\ results' = [results EXCEPT ![d.task] = @ + 1]

\* The acknowledgement is refused: the attempt fails, its result is dropped.
LoseLease(j, d) ==
    /\ AckLost(d)
    /\ FailTask(j, d, "Failed", Retryable(d))
    /\ UNCHANGED results

\* The attempt is rejected and the task failed; a fatal error is not retried by
\* the engine, whatever the queue does with the entry.
Fail(j, d, outcome) ==
    /\ RejectLease(d)
    /\ FailTask(j, d, IF outcome = "timeout" THEN "TimedOut" ELSE "Failed",
                Retryable(d) /\ outcome # "fatal")
    /\ UNCHANGED results

\* apply_outcome for the first dispatch left.
ApplyOutcome(j, outcome) ==
    /\ pc[j] = "apply" /\ inflight[j] # <<>>
    /\ inflight' = [inflight EXCEPT ![j] = Tail(@)]
    /\ LET d == Head(inflight[j])
       IN  \/ outcome = "valid" /\ Succeed(j, d)
           \/ outcome = "valid" /\ LoseLease(j, d)
           \/ outcome # "valid" /\ Fail(j, d, outcome)
    /\ UNCHANGED <<operatorVars, jobStatus, control, slots, promoted, stray>>

\* After the last outcome of the tick.
ApplyDone(j) ==
    /\ pc[j] = "apply" /\ inflight[j] = <<>>
    /\ Goto(j, IF IsComplete(j) THEN "finish" ELSE "tick")
    /\ UNCHANGED <<abstractVars, operatorVars, jobStatus, control, state, results,
                   inflight, slots, promoted, stray>>

\* A running task steps through a failure state before it is abandoned.
AbandonPath(t) ==
    IF state[t] = "Running" THEN <<"Failed", "DeadLettered">> ELSE <<"Cancelled">>

\* finish, cancelled: every task left becomes terminal, then the purge, then
\* the status.
Teardown(j) ==
    /\ pc[j] = "teardown"
    /\ AdvanceAll(j, {t \in Owned(j) : state[t] \notin Terminal},
                  [t \in Tasks |-> AbandonPath(t)], "cancelled")
    /\ UNCHANGED <<abstractVars, operatorVars, jobStatus, control, results, inflight,
                   slots, promoted, stray>>

FinishCancelled(j) ==
    /\ pc[j] = "cancelled"
    /\ Purge(j)
    /\ SetStatus(j, <<"Cancelled">>, "over")
    /\ UNCHANGED <<operatorVars, control, state, results, inflight, slots, promoted,
                   stray>>

\* finish, not cancelled: the status follows the counts.
FinalStatus(j) ==
    LET completed == {t \in Owned(j) : state[t] = "Completed"}
    IN  IF completed = Owned(j) THEN "Completed"
        ELSE IF completed # {} THEN "PartiallyCompleted"
        ELSE "Failed"

Finish(j) ==
    /\ pc[j] = "finish"
    /\ SetStatus(j, <<"Aggregating", FinalStatus(j)>>, "over")
    /\ UNCHANGED <<abstractVars, operatorVars, control, state, results, inflight,
                   slots, promoted, stray>>

-----------------------------------------------------------------------------
(* The operator, the clock and the broker.                                 *)

\* cancel(): the control channel first, the purge afterwards.
Cancel(j) ==
    /\ j \in Cancellable /\ cancelling[j] = "no" /\ jobStatus[j] \notin Finished
    /\ control' = [control EXCEPT ![j] = "Cancelled"]
    /\ cancelling' = [cancelling EXCEPT ![j] = "purging"]
    /\ UNCHANGED <<abstractVars, pc, jobStatus, state, results, inflight, slots,
                   promoted, stray, late, checked>>

CancelPurge(j) ==
    /\ cancelling[j] = "purging"
    /\ Purge(j)
    /\ cancelling' = [cancelling EXCEPT ![j] = "done"]
    /\ UNCHANGED <<engineVars, late, checked>>

\* pause() and resume(): refused on a cancelled job, by a check that is not one
\* step with the write.
Check(j, call) ==
    /\ j \in Pausable /\ call \notin checked[j] /\ pc[j] # "over"
    /\ control[j] # "Cancelled"
    /\ checked' = [checked EXCEPT ![j] = @ \cup {call}]
    /\ UNCHANGED <<abstractVars, engineVars, late, cancelling>>

Replace(j, call, value) ==
    /\ call \in checked[j]
    /\ control' = [control EXCEPT ![j] = value]
    /\ checked' = [checked EXCEPT ![j] = @ \ {call}]
    /\ UNCHANGED <<abstractVars, pc, jobStatus, state, results, inflight, slots,
                   promoted, stray, late, cancelling>>

PassDeadline(j) ==
    /\ j \in Deadlined /\ ~late[j] /\ pc[j] # "over"
    /\ late' = [late EXCEPT ![j] = TRUE]
    /\ UNCHANGED <<abstractVars, engineVars, cancelling, checked>>

Redeliver(k) ==
    /\ status[k] = "absent"
    /\ spent' = [spent EXCEPT ![k] = 0]
    /\ Admit(k)
    /\ UNCHANGED <<engineVars, operatorVars>>

\* Every engine has returned.
Over ==
    /\ \A j \in Jobs : pc[j] = "over"
    /\ UNCHANGED vars

EngineStep(j) ==
    \/ Run(j) \/ TickTop(j) \/ AwaitResume(j)
    \/ PromoteReady(j) \/ PromoteDone(j) \/ SweepAndCount(j)
    \/ \E k \in Keys : Collect(j, k)
    \/ Discard(j) \/ CollectDone(j) \/ IdleTick(j)
    \/ ExecuteAll(j) \/ AbandonTick(j)
    \/ \E outcome \in Outcomes : ApplyOutcome(j, outcome)
    \/ ApplyDone(j) \/ Teardown(j) \/ FinishCancelled(j) \/ Finish(j)

OperatorStep(j) ==
    \/ Cancel(j) \/ CancelPurge(j) \/ PassDeadline(j)
    \/ \E call \in {"pause", "resume"} : Check(j, call)
    \/ Replace(j, "pause", "Paused") \/ Replace(j, "resume", "Running")

Next ==
    \/ \E j \in Jobs : EngineStep(j) \/ OperatorStep(j)
    \/ \E k \in Redelivered : Redeliver(k)
    \/ Over

Spec == Init /\ [][Next]_vars

-----------------------------------------------------------------------------
(* Safety.                                                                 *)

Labels ==
    {"new", "tick", "parked", "promote", "sweep", "collect", "discard", "idle",
     "execute", "apply", "teardown", "cancelled", "finish", "over"}

\* Every variable keeps its type, and no engine ever leaves its loop because
\* the task or the job state machine refused a transition it asked for (the
\* `?' after every advance and set_status would leave the job Running for
\* good, with its agents still charged to the cluster).
TypeOK ==
    /\ pc \in [Jobs -> Labels]
    /\ jobStatus \in [Jobs -> JobStatuses]
    /\ control \in [Jobs -> {"Running", "Paused", "Cancelled"}]
    /\ state \in [Tasks -> TaskStates]
    /\ results \in [Tasks -> Nat]
    /\ \A j \in Jobs : /\ \A i \in 1..Len(inflight[j]) : inflight[j][i] \in Dispatch
                       /\ stray[j] \subseteq Dispatch
                       /\ slots[j] \in 0..MaxAgents[j]
                       /\ checked[j] \subseteq {"pause", "resume"}
    /\ promoted \in [Jobs -> BOOLEAN] /\ late \in [Jobs -> BOOLEAN]
    /\ cancelling \in [Jobs -> {"no", "purging", "done"}]

\* A task is Completed exactly when one result of it is recorded, and only
\* then: neither a redelivery, nor a lease that lapsed while the work ran, nor
\* a retry records a second one (apply_outcome and record_success).
OneResult ==
    \A t \in Tasks : results[t] = (IF state[t] = "Completed" THEN 1 ELSE 0)

\* A task that ever left the waiting states has all its dependencies Completed,
\* through every retry and redelivery: upstream_outputs finds each of them.
UpstreamFirst ==
    \A t \in Tasks :
        state[t] \in {"Queued", "Running", "Completed", "RetryScheduled", "DeadLettered"}
            => \A d \in Deps[t] : state[d] = "Completed"

\* A task runs at most once at a time and every Running task is in the tick's
\* dispatches until the engine tears the job down.
RunsOnce ==
    \A j \in Jobs :
        /\ \A t \in Owned(j) :
            Cardinality({i \in 1..Len(inflight[j]) : inflight[j][i].task = t})
                = (IF state[t] = "Running" /\ pc[j] # "teardown" THEN 1 ELSE 0)
        /\ \A i \in 1..Len(inflight[j]) : inflight[j][i].task \in Owned(j)

\* Graph and queue agree: while a job nobody cancels is not over, each of its
\* tasks that waits for an agent (Queued, or RetryScheduled) has an entry the
\* queue will still deliver.  Otherwise nothing would ever run the task.
QueueBacksGraph ==
    \A j \in Jobs :
        cancelling[j] = "no" =>
            \A t \in Owned(j) :
                state[t] \in {"Queued", "RetryScheduled"}
                    => \E k \in Keys : TaskOf[k] = t /\ status[k] \in {"waiting", "leased"}

\* A job that is over, not cancelled and not past its deadline has left every
\* task terminal: no task is forgotten between retries and the walk over the
\* stranded subtrees.
OverMeansSettled ==
    \A j \in Jobs :
        pc[j] = "over" /\ cancelling[j] = "no" /\ ~late[j] => IsComplete(j)

-----------------------------------------------------------------------------
(* Liveness.  Each engine is a task of the runtime, which keeps polling it  *)
(* (weak fairness).  Backoffs elapse, so a dequeue that finds entries tick  *)
(* after tick does not come back empty for ever (strong fairness).         *)

Fairness ==
    \A j \in Jobs :
        /\ WF_vars(EngineStep(j))
        /\ SF_vars(\E k \in Keys : Collect(j, k))
        /\ WF_vars(CancelPurge(j))

FairSpec == Spec /\ Fairness

\* A job that does not stay paused comes to an end, whatever its executions
\* end in, whoever else uses the queue, and however leases lapse.
JobEnds ==
    \A j \in Jobs : <>[](control[j] # "Paused") => <>(pc[j] = "over")

-----------------------------------------------------------------------------
(* What the repository says of the engine and the code does not keep.       *)

\* crates/coordinator/tests/end_to_end.rs:473: concurrent jobs share the
\* cluster without interfering.  When every execution succeeds in time and
\* nobody cancels, every job that is over is Completed.  collect_dispatches
\* acknowledges an entry of another job as if it were a duplicate.
JobsDoNotInterfere ==
    \A j \in Jobs : pc[j] = "over" => jobStatus[j] = "Completed"

=============================================================================
