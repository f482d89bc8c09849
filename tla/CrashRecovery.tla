--------------------------- MODULE CrashRecovery ---------------------------
(***************************************************************************)
(* A coordinator that journals its jobs, dies, and is rebuilt from the     *)
(* journal (crates/coordinator/src/recovery.rs, Coordinator::submit, run   *)
(* and recover, and the journalling of crates/coordinator/src/engine.rs).  *)
(*                                                                         *)
(* An operation of the engine is a sequence of records: each one changes   *)
(* memory and is appended, in that order, so the process may die before,   *)
(* inside or after every append.  The queue dies with the process; of an   *)
(* entry only the attempt count matters here.  Which task is leased next,  *)
(* and how the tick orders outcomes, is JobEngine's subject and left open. *)
(***************************************************************************)
EXTENDS FileJournal, Lifecycles, FiniteSets

CONSTANTS
    Jobs, Tasks,
    JobOf,          \* [Tasks -> Jobs]
    Deps,           \* [Tasks -> SUBSET Tasks]
    MaxAttempts,    \* [Tasks -> 1..], each task's retry policy
    Outcomes,       \* what executions may end in
    Cancellable,    \* jobs the operator may cancel
    MaxCrashes,     \* bound: how often the process dies
    MaxTears        \* bound: how many of the crashes cut an append short

ASSUME CrashRecoveryAssumption ==
    /\ \A t \in Tasks : JobOf[t] \in Jobs /\ Deps[t] \subseteq Tasks
    /\ \A t \in Tasks : MaxAttempts[t] \in Nat \ {0}
    /\ MaxCrashes \in Nat /\ MaxTears \in Nat
    /\ Outcomes \subseteq {"valid", "invalid", "timeout", "fatal"}
    /\ Cancellable \subseteq Jobs

VARIABLES
    process,    \* "up", "down", or "refused" (recovery failed at start-up)
    submitted,  \* jobs a client has submitted
    known,      \* Coordinator::jobs
    jobStatus,  \* Job::status
    running,    \* jobs an engine is driving
    cancelled,  \* jobs whose control channel says Cancelled
    state,      \* TaskNode::state
    attempt,    \* TaskNode::attempt
    entry,      \* attempt count of the task's queue entry, NoEntry without one
    results,    \* tasks with a recorded result
    failures,   \* recorded failures: <<task, attempt, dead_lettered>>
    final,      \* jobs with a final result
    todo,       \* the records the job's current operation has yet to write
    crashes, tears,
    started     \* highest attempt of the task that ever began to run

jobVars == <<known, jobStatus, running, cancelled>>
taskVars == <<state, attempt, entry>>
outputVars == <<results, failures, final>>
worldVars == <<process, submitted, crashes, tears, started>>
vars == <<journalVars, jobVars, taskVars, outputVars, todo, worldVars>>

NoEntry == -1
Owned(j) == {t \in Tasks : JobOf[t] = j}

\* JournalRecord.
Planned(j) == [kind |-> "planned", job |-> j]
Status(j, s) == [kind |-> "status", job |-> j, status |-> s]
Moved(t, s, n) == [kind |-> "moved", job |-> JobOf[t], task |-> t, to |-> s, attempt |-> n]
Result(t) == [kind |-> "result", job |-> JobOf[t], task |-> t]
Failure(t, n, dead) ==
    [kind |-> "failure", job |-> JobOf[t], task |-> t, attempt |-> n, dead |-> dead]
Final(j) == [kind |-> "final", job |-> j]

Init ==
    /\ JournalInit
    /\ known = {} /\ running = {} /\ cancelled = {}
    /\ jobStatus = [j \in Jobs |-> "Planning"]
    /\ state = [t \in Tasks |-> "Created"]
    /\ attempt = [t \in Tasks |-> 0]
    /\ entry = [t \in Tasks |-> NoEntry]
    /\ results = {} /\ failures = {} /\ final = {}
    /\ todo = [j \in Jobs |-> <<>>]
    /\ process = "up" /\ submitted = {}
    /\ crashes = 0 /\ tears = 0
    /\ started = [t \in Tasks |-> 0]

-----------------------------------------------------------------------------
(* Operations: each one lines up the records it will write.                *)

Begin(j, records) == todo' = [todo EXCEPT ![j] = records]

Moves(t, path, n) == [i \in 1..Len(path) |-> Moved(t, path[i], n)]

\* The engine of j is between two operations and not asked to stop.
Idle(j) == process = "up" /\ j \in running /\ todo[j] = <<>>
Scheduling(j) == Idle(j) /\ jobStatus[j] = "Running" /\ j \notin cancelled

\* Coordinator::submit: the plan is journaled before the job is visible.
Submit(j) ==
    /\ process = "up" /\ j \notin submitted
    /\ submitted' = submitted \cup {j}
    /\ Begin(j, <<Planned(j)>>)
    /\ UNCHANGED <<journalVars, jobVars, taskVars, outputVars, process, crashes, tears, started>>

\* Mutant of Run: the change to Running is not journaled.
RunUnjournaled(j) ==
    /\ process = "up" /\ j \in known \ running /\ todo[j] = <<>>
    /\ jobStatus[j] = "Planning"
    /\ running' = running \cup {j}
    /\ jobStatus' = [jobStatus EXCEPT ![j] = "Running"]
    /\ UNCHANGED <<journalVars, known, cancelled, taskVars, outputVars, todo, worldVars>>

\* Coordinator::run on a job that is not finished.
Run(j) ==
    /\ process = "up" /\ j \in known \ running /\ todo[j] = <<>>
    /\ jobStatus[j] \notin Finished
    /\ LegalPath(JobAllowed, jobStatus[j], <<"Running">>)
    /\ running' = running \cup {j}
    /\ Begin(j, <<Status(j, "Running")>>)
    /\ UNCHANGED <<journalVars, known, jobStatus, cancelled, taskVars, outputVars, worldVars>>

\* Mutant of Promote: the entry starts with a fresh count.
PromoteFresh(t) ==
    /\ Scheduling(JobOf[t])
    /\ state[t] \in {"Created", "WaitingForDependency"}
    /\ \A d \in Deps[t] : state[d] = "Completed"
    /\ entry' = [entry EXCEPT ![t] = 0]
    /\ Begin(JobOf[t], Moves(t, <<"Queued">>, attempt[t]))
    /\ UNCHANGED <<journalVars, jobVars, state, attempt, outputVars, worldVars>>

\* promote_ready for one task.
Promote(t) ==
    /\ Scheduling(JobOf[t])
    /\ state[t] \in {"Created", "WaitingForDependency"}
    /\ \A d \in Deps[t] : state[d] = "Completed"
    /\ entry' = [entry EXCEPT ![t] = attempt[t]]
    /\ Begin(JobOf[t], Moves(t, <<"Queued">>, attempt[t]))
    /\ UNCHANGED <<journalVars, jobVars, state, attempt, outputVars, worldVars>>

\* Mutant of Lease: the graph's attempt is set after the transitions.
LeaseUncounted(t) ==
    /\ Scheduling(JobOf[t])
    /\ entry[t] # NoEntry /\ state[t] \in {"Queued", "RetryScheduled"}
    /\ attempt' = [attempt EXCEPT ![t] = entry[t] + 1]
    /\ entry' = [entry EXCEPT ![t] = NoEntry]
    /\ Begin(JobOf[t], Moves(t, <<"Leased", "Running">>, attempt[t]))
    /\ UNCHANGED <<journalVars, jobVars, state, outputVars, worldVars>>

\* collect_dispatches for one delivery: the lease charges an attempt, the
\* graph takes over its count, and the task starts.
Lease(t) ==
    /\ Scheduling(JobOf[t])
    /\ entry[t] # NoEntry /\ state[t] \in {"Queued", "RetryScheduled"}
    /\ attempt' = [attempt EXCEPT ![t] = entry[t] + 1]
    /\ entry' = [entry EXCEPT ![t] = NoEntry]
    /\ Begin(JobOf[t],
             Moves(t, IF state[t] = "RetryScheduled" THEN <<"Queued", "Leased", "Running">>
                      ELSE <<"Leased", "Running">>, entry[t] + 1))
    /\ UNCHANGED <<journalVars, jobVars, state, outputVars, worldVars>>

\* Mutant of OutcomeRecords: the result itself is not journaled.
OutcomeRecordsBare(t, outcome, retry) ==
    Moves(t, IF outcome = "valid" THEN <<"Completed">>
             ELSE <<"Failed", IF retry THEN "RetryScheduled" ELSE "DeadLettered">>, attempt[t])

\* The records of apply_outcome.
OutcomeRecords(t, outcome, retry) ==
    IF outcome = "valid" THEN Append(Moves(t, <<"Completed">>, attempt[t]), Result(t))
    ELSE Append(Moves(t, <<IF outcome = "timeout" THEN "TimedOut" ELSE "Failed",
                           IF retry THEN "RetryScheduled" ELSE "DeadLettered">>,
                      attempt[t]),
                Failure(t, attempt[t], ~retry))

\* Mutant of ApplyOutcome: one retry too many.
ApplyOutcomeOneMore(t, outcome) ==
    /\ Scheduling(JobOf[t]) /\ state[t] = "Running"
    /\ LET retry == attempt[t] <= MaxAttempts[t] /\ outcome \notin {"valid", "fatal"}
       IN  /\ entry' = [entry EXCEPT ![t] = IF retry THEN attempt[t] ELSE NoEntry]
           /\ Begin(JobOf[t], OutcomeRecords(t, outcome, retry))
    /\ UNCHANGED <<journalVars, jobVars, state, attempt, outputVars, worldVars>>

\* apply_outcome for a dispatch whose lease is still held.
ApplyOutcome(t, outcome) ==
    /\ Scheduling(JobOf[t]) /\ state[t] = "Running"
    /\ LET retry == attempt[t] < MaxAttempts[t] /\ outcome \notin {"valid", "fatal"}
       IN  /\ entry' = [entry EXCEPT ![t] = IF retry THEN attempt[t] ELSE NoEntry]
           /\ Begin(JobOf[t], OutcomeRecords(t, outcome, retry))
    /\ UNCHANGED <<journalVars, jobVars, state, attempt, outputVars, worldVars>>

\* make_progress_possible: a task behind an abandoned one is cancelled when
\* nothing is queued or leased.
Strand(t) ==
    /\ Scheduling(JobOf[t]) /\ state[t] \notin Terminal
    /\ \A u \in Owned(JobOf[t]) : entry[u] = NoEntry /\ state[u] # "Running"
    /\ \E d \in Deps[t] : state[d] \in {"DeadLettered", "Cancelled"}
    /\ Begin(JobOf[t], Moves(t, <<"Cancelled">>, attempt[t]))
    /\ UNCHANGED <<journalVars, jobVars, taskVars, outputVars, worldVars>>

\* Coordinator::cancel: the control channel and the purge; nothing is journaled.
\* The engine only notices between two operations, so it is enough to let the
\* call arrive there.
Cancel(j) ==
    /\ process = "up" /\ j \in (known \cap Cancellable) \ cancelled /\ todo[j] = <<>>
    /\ jobStatus[j] \notin Finished
    /\ cancelled' = cancelled \cup {j}
    /\ entry' = [t \in Tasks |-> IF JobOf[t] = j THEN NoEntry ELSE entry[t]]
    /\ UNCHANGED <<journalVars, known, jobStatus, running, state, attempt, outputVars, worldVars, todo>>

\* finish, cancelled: one task that is left.
Abandon(t) ==
    /\ Idle(JobOf[t]) /\ JobOf[t] \in cancelled /\ state[t] \notin Terminal
    /\ Begin(JobOf[t], Moves(t, IF state[t] = "Running" THEN <<"Failed", "DeadLettered">>
                                ELSE <<"Cancelled">>, attempt[t]))
    /\ UNCHANGED <<journalVars, jobVars, taskVars, outputVars, worldVars>>

\* Mutant of Finish: the job does not pass through Aggregating.
FinishDirect(j) ==
    /\ Idle(j) /\ jobStatus[j] = "Running"
    /\ \A t \in Owned(j) : state[t] \in Terminal
    /\ Begin(j, <<Status(j, "Completed"), Final(j)>>)
    /\ UNCHANGED <<journalVars, jobVars, taskVars, outputVars, worldVars>>

\* finish once every task is terminal: the status, then the final result.
Finish(j) ==
    /\ Idle(j) /\ jobStatus[j] = "Running"
    /\ \A t \in Owned(j) : state[t] \in Terminal
    /\ LET completed == {t \in Owned(j) : state[t] = "Completed"}
           status == IF completed = Owned(j) THEN "Completed"
                     ELSE IF completed # {} THEN "PartiallyCompleted" ELSE "Failed"
       IN  Begin(j, IF j \in cancelled THEN <<Status(j, "Cancelled"), Final(j)>>
                    ELSE <<Status(j, "Aggregating"), Status(j, status), Final(j)>>)
    /\ UNCHANGED <<journalVars, jobVars, taskVars, outputVars, worldVars>>

-----------------------------------------------------------------------------
(* Writing the next record: memory first, then the journal.                *)

Write(j) ==
    /\ process = "up" /\ todo[j] # <<>>
    /\ todo' = [todo EXCEPT ![j] = Tail(@)]
    /\ AppendRecord(Head(todo[j]))

\* The end of submit: the job becomes visible.
WritePlan(j) ==
    /\ Write(j) /\ Head(todo[j]).kind = "planned"
    /\ known' = known \cup {j}
    /\ UNCHANGED <<jobStatus, running, cancelled, taskVars, outputVars, worldVars>>

\* JobHandle::set_status.
SetStatus(j) ==
    /\ Write(j) /\ Head(todo[j]).kind = "status"
    /\ LegalPath(JobAllowed, jobStatus[j], <<Head(todo[j]).status>>)
    /\ jobStatus' = [jobStatus EXCEPT ![j] = Head(todo[j]).status]
    /\ UNCHANGED <<known, running, cancelled, taskVars, outputVars, worldVars>>

\* engine::advance.
Advance(j) ==
    /\ Write(j) /\ Head(todo[j]).kind = "moved"
    /\ LET r == Head(todo[j])
       IN  /\ LegalPath(TaskAllowed, state[r.task], <<r.to>>)
           /\ state' = [state EXCEPT ![r.task] = r.to]
           /\ started' = IF r.to = "Running"
                         THEN [started EXCEPT ![r.task] = attempt[r.task]] ELSE started
    /\ UNCHANGED <<jobVars, attempt, entry, outputVars, process, submitted, crashes, tears>>

\* record_success.
RecordSuccess(j) ==
    /\ Write(j) /\ Head(todo[j]).kind = "result"
    /\ results' = results \cup {Head(todo[j]).task}
    /\ UNCHANGED <<jobVars, taskVars, failures, final, worldVars>>

\* The end of fail_task.
RecordFailure(j) ==
    /\ Write(j) /\ Head(todo[j]).kind = "failure"
    /\ LET r == Head(todo[j])
       IN  failures' = failures \cup {<<r.task, r.attempt, r.dead>>}
    /\ UNCHANGED <<jobVars, taskVars, results, final, worldVars>>

\* The end of finish: the engine returns.
RecordFinal(j) ==
    /\ Write(j) /\ Head(todo[j]).kind = "final"
    /\ final' = final \cup {j}
    /\ running' = running \ {j}
    /\ UNCHANGED <<known, jobStatus, cancelled, taskVars, results, failures, worldVars>>

-----------------------------------------------------------------------------
(* The crash, and recovery.                                                *)

\* The process dies, possibly inside an append.
Crash ==
    /\ process = "up" /\ crashes < MaxCrashes
    /\ process' = "down" /\ crashes' = crashes + 1
    /\ \/ UNCHANGED <<journalVars, tears>>
       \/ /\ tears < MaxTears /\ tears' = tears + 1
          /\ \E j \in Jobs : todo[j] # <<>> /\ TearRecord(Head(todo[j]))
    /\ known' = {} /\ running' = {} /\ cancelled' = {}
    /\ jobStatus' = [j \in Jobs |-> "Planning"]
    /\ state' = [t \in Tasks |-> "Created"]
    /\ attempt' = [t \in Tasks |-> 0]
    /\ entry' = [t \in Tasks |-> NoEntry]
    /\ results' = {} /\ failures' = {} /\ final' = {}
    /\ todo' = [j \in Jobs |-> <<>>]
    /\ UNCHANGED <<submitted, started>>

\* recovery::apply folds the records in order, so the last of a kind wins.
Latest(at) == CHOOSE i \in at : \A k \in at : k <= i
MovesOf(recs, t) == {i \in 1..Len(recs) : recs[i].kind = "moved" /\ recs[i].task = t}
ChangesOf(recs, j) == {i \in 1..Len(recs) : recs[i].kind = "status" /\ recs[i].job = j}
MoveIn(recs, t) ==
    IF MovesOf(recs, t) = {} THEN Moved(t, "Created", 0) ELSE recs[Latest(MovesOf(recs, t))]
StatusIn(recs, j) ==
    IF ChangesOf(recs, j) = {} THEN "Planning" ELSE recs[Latest(ChangesOf(recs, j))].status
LastMove(t) == MoveIn(Replayed, t)
LastStatus(j) == StatusIn(Replayed, j)
OfKind(recs, kind) == {recs[i] : i \in {k \in 1..Len(recs) : recs[k].kind = kind}}

\* Recovering::build: what was in flight goes back to the ready set.
RestoredState(t) ==
    LET to == LastMove(t).to IN IF to \in Terminal THEN to ELSE "Created"

\* Recovering::build: attempts already spent still count.
RestoredAttempt(t) == LastMove(t).attempt

\* Mutant of RestoredStatus: an unfinished job keeps the status it had.
RestoredStatusKept(j) == LastStatus(j)

\* Recovering::build: an unfinished job is rewound so that it can run again.
RestoredStatus(j) == IF LastStatus(j) \in Finished THEN LastStatus(j) ELSE "Planning"

\* A job without a plan is not recovered.
PlannedJobs == {r.job : r \in OfKind(Replayed, "planned")}
RestoredResults == {r.task : r \in OfKind(Replayed, "result")}
RestoredFailures == {<<r.task, r.attempt, r.dead>> : r \in OfKind(Replayed, "failure")}
RestoredFinal == {r.job : r \in OfKind(Replayed, "final")}

\* Coordinator::recover at start-up: a journal that does not replay keeps the
\* server from starting.
Recover ==
    /\ process = "down" /\ Readable
    /\ process' = "up"
    /\ known' = PlannedJobs
    /\ jobStatus' = [j \in Jobs |-> RestoredStatus(j)]
    /\ state' = [t \in Tasks |-> RestoredState(t)]
    /\ attempt' = [t \in Tasks |-> RestoredAttempt(t)]
    /\ results' = RestoredResults
    /\ failures' = RestoredFailures
    /\ final' = RestoredFinal
    /\ UNCHANGED <<journalVars, running, cancelled, entry, todo, submitted, crashes, tears,
                   started>>

Refuse ==
    /\ process = "down" /\ ~Readable
    /\ process' = "refused"
    /\ UNCHANGED <<journalVars, jobVars, taskVars, outputVars, todo, submitted, crashes,
                   tears, started>>

WriteStep(j) ==
    WritePlan(j) \/ SetStatus(j) \/ Advance(j) \/ RecordSuccess(j) \/ RecordFailure(j)
        \/ RecordFinal(j)

EngineStep(j) ==
    \/ Run(j) \/ Finish(j) \/ WriteStep(j)
    \/ \E t \in Owned(j) :
        \/ Promote(t) \/ Lease(t) \/ Strand(t) \/ Abandon(t)
        \/ \E outcome \in Outcomes : ApplyOutcome(t, outcome)

Next ==
    \/ \E j \in Jobs : Submit(j) \/ Cancel(j) \/ EngineStep(j)
    \/ Crash \/ Recover \/ Refuse

Spec == Init /\ [][Next]_vars

\* The runtime polls every engine, a program that restarts recovers, and
\* recovered jobs are run again by whoever owns the coordinator.
FairSpec == Spec /\ WF_vars(Recover) /\ \A j \in Jobs : WF_vars(EngineStep(j))

-----------------------------------------------------------------------------
(* Properties.                                                             *)

\* Every variable keeps its type, and no record the engine has lined up asks
\* a state machine for an edge it does not have.
TypeOK ==
    /\ process \in {"up", "down", "refused"}
    /\ known \subseteq submitted /\ submitted \subseteq Jobs /\ running \subseteq known
    /\ jobStatus \in [Jobs -> JobStatuses] /\ state \in [Tasks -> TaskStates]
    /\ attempt \in [Tasks -> Nat] /\ entry \in [Tasks -> Nat \cup {NoEntry}]
    /\ \A j \in Jobs : todo[j] # <<>> =>
        LET r == Head(todo[j])
        IN  /\ r.kind = "status" => LegalPath(JobAllowed, jobStatus[j], <<r.status>>)
            /\ r.kind = "moved" => LegalPath(TaskAllowed, state[r.task], <<r.to>>)

\* recovery.rs: replay loses nothing that memory had settled.  At every
\* moment a coordinator is up, a crash would bring back the jobs, the settled
\* tasks, the results, the failures and the final results it holds now, and
\* the attempt every running task is on.
JournalMirrorsMemory ==
    process = "up" /\ ~Glued =>
        /\ Readable
        /\ PlannedJobs = known /\ RestoredResults = results
        /\ RestoredFailures = failures /\ RestoredFinal = final
        /\ \A j \in known : jobStatus[j] \in Finished <=> RestoredStatus(j) \in Finished
        /\ \A t \in Tasks :
            /\ state[t] \in Terminal \/ RestoredState(t) \in Terminal
                    => RestoredState(t) = state[t]
            /\ state[t] \notin {"Queued", "RetryScheduled"} => RestoredAttempt(t) = attempt[t]

\* recovery.rs:10: completed tasks never run again.  Once the journal
\* acknowledged that a task settled, every coordinator that is up knows it,
\* whatever later appends were glued to.
SettledStaysSettled ==
    process = "up" =>
        \A i \in 1..Len(acked) :
            acked[i].kind = "moved" /\ acked[i].to \in Terminal
                => state[acked[i].task] = acked[i].to

\* recovery.rs:96: attempts already spent still count.  A task never starts
\* twice under one attempt number, however many coordinators ran it.
AttemptsAdvance ==
    [][\A t \in Tasks :
        state'[t] = "Running" /\ state[t] # "Running" => attempt[t] > started[t]]_vars

\* A crash costs at most one attempt beyond the policy: recovery requeues what
\* was in flight without asking whether attempts are left.
RestartBudget == \A t \in Tasks : attempt[t] <= MaxAttempts[t] + crashes

\* A task that is Completed without its result, or a job that is finished
\* without its final result, is one whose second record a crash cut off: a job
\* never has more of them than there were crashes.
GapPerCrash ==
    LET owed(j) == {todo[j][i] : i \in 1..Len(todo[j])}
    IN  process = "up" =>
            \A j \in known :
                Cardinality({t \in Owned(j) : state[t] = "Completed" /\ t \notin results
                                               /\ Result(t) \notin owed(j)})
                + (IF jobStatus[j] \in Finished /\ j \notin final /\ Final(j) \notin owed(j)
                   THEN 1 ELSE 0) <= crashes

\* A job that was acknowledged ends, through every crash, as long as somebody
\* runs recovered jobs again and no append was glued to an interrupted one.
RecoveredJobsEnd ==
    \A j \in Jobs :
        j \in known ~> (process = "up" /\ jobStatus[j] \in Finished) \/ Glued
=============================================================================
