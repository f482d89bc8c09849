------------------------------ MODULE JobReport -----------------------------
(***************************************************************************)
(* What a job records while it runs, and the report it ends with           *)
(* (record_success, fail_task and finish of                                *)
(* crates/coordinator/src/engine.rs, RecoveredJob::build of                *)
(* crates/coordinator/src/recovery.rs).                                    *)
(*                                                                         *)
(* Tasks of a stage finish in any order.  A task's transition is           *)
(* journaled before its result or failure is, so a crash may come between  *)
(* the two.  Leases, agents and retries' timing are JobEngine's subject.   *)
(***************************************************************************)
EXTENDS Aggregate

CONSTANTS
    Plans,          \* the jobs: strategy, and kind, stage and title of tasks;
                    \* bounds: retries and restarts of the job
    Outputs         \* Outputs[kind]: what a task of the kind may return

VARIABLES
    plan,           \* the job, a member of Plans
    state,          \* TaskNode::state, up to what the report depends on
    pending,        \* the result or failure about to be recorded
    results,        \* JobHandle::results
    failures,       \* JobHandle::failures
    statistics,     \* JobHandle::statistics, the counters
    latencies,      \* JobHandle::latencies
    crashes,
    report          \* JobHandle::final_result

vars == <<plan, state, pending, results, failures, statistics, latencies, crashes, report>>
recorded == <<results, failures, statistics, latencies>>

NothingPending == [type |-> "none"]
NoReport == [status |-> "none"]
Tasks == 1..Len(plan.tasks)

Init ==
    /\ plan \in Plans
    /\ state = [t \in 1..Len(plan.tasks) |-> "open"]
    /\ pending = NothingPending
    /\ results = <<>> /\ failures = <<>> /\ latencies = <<>>
    /\ statistics = recompute_statistics(<<>>, <<>>)
    /\ crashes = 0
    /\ report = NoReport

\* The tasks that may run: everything in the stages before is complete.
Runnable ==
    {t \in Tasks : /\ state[t] = "open"
                   /\ \A d \in Tasks :
                        plan.tasks[d].stage < plan.tasks[t].stage => state[d] = "Completed"}

\* An execution ends well: the delivery is acknowledged and the task moves to
\* Completed.  An earlier attempt, or one before a crash, may have left its
\* output behind, which is then returned without a model call.
Complete(t, output, deduplicated) ==
    /\ report = NoReport /\ pending = NothingPending /\ t \in Runnable
    /\ deduplicated => crashes > 0 \/ \E i \in 1..Len(failures) : failures[i].task = t
    /\ state' = [state EXCEPT ![t] = "Completed"]
    /\ pending' = [type |-> "result",
                   record |-> [task |-> t, kind |-> plan.tasks[t].kind,
                               stage |-> plan.tasks[t].stage, title |-> plan.tasks[t].title,
                               words |-> output.words, confidence |-> output.confidence,
                               evidence |-> output.evidence, duration |-> output.duration,
                               deduplicated |-> deduplicated]]
    /\ UNCHANGED <<plan, recorded, crashes, report>>

\* record_success.
RecordSuccess ==
    /\ pending.type = "result"
    /\ LET r == pending.record IN
       /\ results' = Append(results, r)
       /\ latencies' = Append(latencies, r.duration)
       /\ statistics' = [statistics EXCEPT !.succeeded = @ + 1,
                                           !.requests = @ + IF r.deduplicated THEN 0 ELSE 1,
                                           !.hits = @ + IF r.deduplicated THEN 1 ELSE 0]
    /\ pending' = NothingPending
    /\ UNCHANGED <<plan, state, failures, crashes, report>>

\* fail_task up to its transitions: back to the queue, or given up.
Fail(t, dead_lettered) ==
    /\ report = NoReport /\ pending = NothingPending /\ t \in Runnable
    /\ dead_lettered \/ Len(SelectSeq(failures, LAMBDA f : ~f.dead_lettered)) < plan.retries
    /\ state' = [state EXCEPT ![t] = IF dead_lettered THEN "DeadLettered" ELSE "open"]
    /\ pending' = [type |-> "failure", record |-> [task |-> t, dead_lettered |-> dead_lettered]]
    /\ UNCHANGED <<plan, recorded, crashes, report>>

\* The rest of fail_task.
RecordFailure ==
    /\ pending.type = "failure"
    /\ failures' = Append(failures, pending.record)
    /\ statistics' = [statistics EXCEPT
                         !.requests = @ + 1,
                         !.failed = @ + IF pending.record.dead_lettered THEN 1 ELSE 0,
                         !.retried = @ + IF pending.record.dead_lettered THEN 0 ELSE 1]
    /\ pending' = NothingPending
    /\ UNCHANGED <<plan, state, results, latencies, crashes, report>>

\* The process dies and the job is rebuilt from its journal: what was about
\* to be recorded is gone, the counters are computed anew.
Restart ==
    /\ report = NoReport /\ crashes < plan.restarts
    /\ crashes' = crashes + 1
    /\ pending' = NothingPending
    /\ statistics' = recompute_statistics(results, failures)
    /\ latencies' = [i \in 1..Len(results) |-> results[i].duration]
    /\ UNCHANGED <<plan, state, results, failures, report>>

\* TaskGraph::counts, as far as finish uses it.
Completed == Cardinality({t \in Tasks : state[t] = "Completed"})

\* The status finish decides on.
FinalStatus(cancelled) ==
    CASE cancelled -> "Cancelled"
      [] ~cancelled /\ Completed = Len(plan.tasks) -> "Completed"
      [] ~cancelled /\ Completed \in 1..(Len(plan.tasks) - 1) -> "PartiallyCompleted"
      [] OTHER -> "Failed"

\* finish: nothing is left to run, or the job was cancelled; tasks that can
\* no longer run end as Cancelled.
Finish(cancelled) ==
    /\ report = NoReport /\ pending = NothingPending
    /\ cancelled \/ Runnable = {}
    /\ state' = [t \in Tasks |-> IF state[t] = "open" THEN "Cancelled" ELSE state[t]]
    /\ report' = [status |-> FinalStatus(cancelled),
                  result |-> aggregate(results, plan.strategy, Completed, Len(plan.tasks)),
                  latency |-> Percentiles(latencies)]
    /\ UNCHANGED <<plan, pending, recorded, crashes>>

Next ==
    \/ \E t \in Tasks, deduplicated \in BOOLEAN :
          \E output \in Outputs[plan.tasks[t].kind] : Complete(t, output, deduplicated)
    \/ RecordSuccess
    \/ \E t \in Tasks, dead_lettered \in BOOLEAN : Fail(t, dead_lettered)
    \/ RecordFailure
    \/ Restart
    \/ \E cancelled \in BOOLEAN : Finish(cancelled)

Spec == Init /\ [][Next]_vars

-----------------------------------------------------------------------------
(* Properties.                                                             *)

Reportable == {results[i] : i \in {k \in 1..Len(results) : is_reportable(results[k].kind)}}
ResultOf(t) == CHOOSE r \in {results[i] : i \in 1..Len(results)} : r.task = t
Listed == {report.result.outputs[i] : i \in 1..Len(report.result.outputs)}

\* The order in which agents happened to finish does not show in the report:
\* results recorded in the order of the plan give the same outputs, summary,
\* consensus, conflicts, evidence and score (aggregate).
OrderInsensitive ==
    report # NoReport =>
        report.result = aggregate(SortSeq(results, LAMBDA l, r : l.task < r.task),
                                  plan.strategy, Completed, Len(plan.tasks))

\* Deduplication: a reportable result is listed, or restates
\* one that is and that comes no later; and no two listed outputs restate
\* each other (drop_redundant).
KeptRepresents ==
    report # NoReport =>
        /\ \A r \in Reportable :
              \E t \in Listed :
                  \/ t = r.task
                  \/ /\ ~Earlier(r, ResultOf(t))
                     /\ AtLeast(ResultOf(t).words, r.words, REDUNDANT)
        /\ \A t, u \in Listed :
              t # u => ~AtLeast(ResultOf(t).words, ResultOf(u).words, REDUNDANT)

\* The evidence is bounded, states a claim once, and leaves out only claims
\* that some listed output supports no better than those it keeps
\* (merge_evidence).
EvidenceBounded ==
    report # NoReport =>
        LET chosen == report.result.evidence
            claims == {chosen[i].claim : i \in 1..Len(chosen)}
            offered == UNION {{ResultOf(t).evidence[i] : i \in 1..Len(ResultOf(t).evidence)}
                                : t \in Listed} IN
        /\ Len(chosen) <= MAX_EVIDENCE
        /\ Cardinality(claims) = Len(chosen)
        /\ \A e \in offered :
              e.claim \notin claims =>
                  /\ Len(chosen) = MAX_EVIDENCE
                  /\ \E f \in offered :
                        /\ f.claim = e.claim
                        /\ \A i \in 1..Len(chosen) : f.support <= chosen[i].support

\* The report may leave out what it repeats and nothing else: every finding
\* and every claim it omits is represented by one it keeps, and it does not
\* itself repeat one (drop_redundant, merge_evidence).
LeftOutRepresented == KeptRepresents /\ EvidenceBounded

Answers == {r \in Reportable : r.kind = "answer"}

\* The position that wins a debate carries at least its share of the
\* confidence, and when the answers all agree, or no two of them do, the
\* most confident one is taken (consensus).
ConsensusSound ==
    report # NoReport /\ needs_consensus(plan.strategy) /\ Cardinality(Answers) > 1 =>
        LET verdict == report.result.agreement
            total == MapThenSumSet(LAMBDA r : r.confidence, Answers)
            alike(l, r) == AtLeast(l.words, r.words, SAME_ANSWER) IN
        /\ verdict.winning \in {r.task : r \in Answers}
        /\ verdict.weight * verdict.positions >= total
        /\ (\A l, r \in Answers : alike(l, r)) \/ (\A l, r \in Answers : alike(l, r) => l = r)
              => \A r \in Answers : r.confidence <= ResultOf(verdict.winning).confidence

\* The score is a probability and never exceeds the share of the tasks that
\* completed, even after a crash that lost results (confidence).
ScoreHonest ==
    report # NoReport =>
        LET score == report.result.score IN
        /\ 0 <= score.num /\ score.num <= score.den
        /\ score.num * Len(plan.tasks) <= score.den * Completed

\* What the report concludes is no more than the results bear: the position
\* it takes, and the score it puts on it (consensus, confidence).
VerdictHonest == ConsensusSound /\ ScoreHonest

\* Each latency figure is one that was observed, at least that share of the
\* results took no longer and less than that share was faster; a restart in
\* the middle of the job changes nothing about it (set_latency_percentiles).
PercentilesNearestRank ==
    report # NoReport /\ results # <<>> =>
        \A q \in {50, 95, 99} :
            LET value == CASE q = 50 -> report.latency.median
                           [] q = 95 -> report.latency.p95
                           [] q = 99 -> report.latency.p99
                within(limit) == Cardinality({i \in 1..Len(results) : results[i].duration <= limit}) IN
            /\ \E i \in 1..Len(results) : results[i].duration = value
            /\ 100 * within(value) >= q * Len(results)
            /\ 100 * within(value - 1) < q * Len(results)

\* A restart neither loses nor invents outcomes: the counters of tasks that
\* succeeded, were given up or retried are the same whether kept up to date
\* or computed from the journal, and the live count of model requests lies
\* between what the journal gives back and that plus the failed attempts
\* (recompute_statistics).
CountersSurvive ==
    LET rebuilt == recompute_statistics(results, failures) IN
    /\ \A c \in {"succeeded", "failed", "retried", "hits"} : statistics[c] = rebuilt[c]
    /\ statistics.requests \in rebuilt.requests..(rebuilt.requests + Len(failures))

\* The figures of a job are the same whether or not it crashed on the way:
\* the latencies come from every result, and the counters computed from the
\* journal are the ones kept as the job ran.
StatisticsSurvive == PercentilesNearestRank /\ CountersSurvive
=============================================================================
