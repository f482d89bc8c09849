------------------------------ MODULE Aggregate -----------------------------
(***************************************************************************)
(* Merging the results of a job into its final result                      *)
(* (crates/coordinator/src/aggregate.rs) and the figures that go with it   *)
(* (crates/domain/src/job.rs).                                             *)
(*                                                                         *)
(* A result has the task, kind, stage and title it came from, the set of   *)
(* significant words of its output, a confidence in tenths, its evidence   *)
(* and its duration; titles are numbered in their order.  Thresholds are   *)
(* percentages and shares are fractions, so comparisons are exact.  A      *)
(* result is stored only after its output passed validation.               *)
(***************************************************************************)
EXTENDS Integers, Sequences, FiniteSets, SequencesExt, FiniteSetsExt, Decompose

CONSTANT MAX_EVIDENCE

SAME_ANSWER == 60
REDUNDANT == 85
DISAGREEMENT == 30

\* TaskKind::is_reportable.
is_reportable(kind) ==
    kind \in {"work", "map", "reduce", "answer", "judge", "merge", "summarize"}

\* similarity: shared words over all words, in percent of the whole; AtLeast
\* and Above compare it with a threshold.
Shared(left, right) == Cardinality(left \cap right)
All(left, right) == Cardinality(left \cup right)
AtLeast(left, right, threshold) ==
    (left = {} /\ right = {}) \/ 100 * Shared(left, right) >= threshold * All(left, right)
Above(left, right, threshold) ==
    (left = {} /\ right = {}) \/ 100 * Shared(left, right) > threshold * All(left, right)

\* cluster: each result joins the first group that holds something similar.
cluster(results, threshold) ==
    FoldLeft(LAMBDA groups, i :
        LET joined == {k \in 1..Len(groups) :
                          \E m \in groups[k] :
                              AtLeast(results[m].words, results[i].words, threshold)} IN
        IF joined = {} THEN Append(groups, {i})
                       ELSE [groups EXCEPT ![Min(joined)] = @ \cup {i}],
        <<>>, [i \in 1..Len(results) |-> i])

\* The last of the positions whose measure is largest, as max_by returns it.
LastBest(positions, measure(_)) ==
    Max({i \in positions : \A k \in positions : measure(k) <= measure(i)})

Weight(results, members) == MapThenSumSet(LAMBDA i : results[i].confidence, members)

\* Mutant of Winner: the position with most answers.
WinnerByVotes(results, groups) ==
    LastBest(1..Len(groups), LAMBDA k : Cardinality(groups[k]))

\* ConsensusMode::ConfidenceWeighted.
Winner(results, groups) == LastBest(1..Len(groups), LAMBDA k : Weight(results, groups[k]))

NoConsensus == [winning |-> 0, votes |-> 0, positions |-> 0, weight |-> 0]

consensus(results) ==
    IF Len(results) < 2 THEN NoConsensus
    ELSE LET groups == cluster(results, SAME_ANSWER)
             group == groups[Winner(results, groups)] IN
         [winning |-> results[LastBest(group, LAMBDA i : results[i].confidence)].task,
          votes |-> Len(results),
          positions |-> Len(groups),
          weight |-> Weight(results, group)]

\* conflicts: pairs of groups whose first members have little in common.
conflicts(results) ==
    LET groups == cluster(results, SAME_ANSWER)
        first(k) == results[Min(groups[k])] IN
    {<<first(k).task, first(l).task>> :
        <<k, l>> \in {p \in (1..Len(groups)) \X (1..Len(groups)) :
                        /\ p[1] < p[2]
                        /\ ~Above(first(p[1]).words, first(p[2]).words, DISAGREEMENT)}}

\* A stable sort: each element goes behind those that do not come after it.
InsertBy(sorted, x, before(_, _)) ==
    LET n == Cardinality({i \in 1..Len(sorted) : ~before(x, sorted[i])}) IN
    SubSeq(sorted, 1, n) \o <<x>> \o SubSeq(sorted, n + 1, Len(sorted))

\* Mutant of Earlier: the title does not break ties.
EarlierStage(left, right) == left.stage < right.stage

Earlier(left, right) ==
    left.stage < right.stage \/ (left.stage = right.stage /\ left.title < right.title)

\* The reportable results in dependency order.
Ordered(results) ==
    FoldLeft(LAMBDA sorted, r : InsertBy(sorted, r, Earlier), <<>>,
             SelectSeq(results, LAMBDA r : is_reportable(r.kind)))

\* Mutant of drop_redundant: the threshold of the same answer.
DropSimilar(ordered) ==
    FoldLeft(LAMBDA kept, r :
                 IF \E i \in 1..Len(kept) : AtLeast(kept[i].words, r.words, SAME_ANSWER)
                   THEN kept ELSE Append(kept, r),
             <<>>, ordered)

drop_redundant(ordered) ==
    FoldLeft(LAMBDA kept, r :
                 IF \E i \in 1..Len(kept) : AtLeast(kept[i].words, r.words, REDUNDANT)
                   THEN kept ELSE Append(kept, r),
             <<>>, ordered)

Concludes(kind) == kind \in {"merge", "summarize", "reduce", "judge"}

MoreConfident(left, right) == left.confidence > right.confidence

\* summarize: which results the summary is made of, and on what ground.
summarize(kept, agreement) ==
    LET concluding == {i \in 1..Len(kept) : Concludes(kept[i].kind)}
        best == FoldLeft(LAMBDA sorted, r : InsertBy(sorted, r, MoreConfident), <<>>, kept)
        quoted == SubSeq(best, 1, Min({3, Len(best)})) IN
    CASE concluding # {} -> [ground |-> "conclusion", tasks |-> <<kept[Max(concluding)].task>>]
      [] concluding = {} /\ agreement # NoConsensus ->
            [ground |-> "consensus", tasks |-> <<agreement.winning>>]
      [] OTHER -> [ground |-> "findings", tasks |-> [i \in 1..Len(quoted) |-> quoted[i].task]]

\* confidence: the mean confidence times the completed share, less a tenth
\* for every conflict, kept between zero and one.
confidence(kept, completed, total, disputes) ==
    LET sum == MapThenSumSet(LAMBDA i : kept[i].confidence, 1..Len(kept))
        den == 10 * Len(kept) * total IN
    IF kept = <<>> THEN [num |-> 0, den |-> 1]
    ELSE [num |-> Min({den, Max({0, sum * completed - disputes * Len(kept) * total})}),
          den |-> den]

BetterSupported(left, right) == left.support > right.support

\* The evidence of the kept results, each claim of a source once.
Collected(kept) ==
    FoldLeft(LAMBDA seen, item :
                 IF \E i \in 1..Len(seen) : seen[i].claim = item.claim
                   THEN seen ELSE Append(seen, item),
             <<>>, FoldLeft(LAMBDA all, r : all \o r.evidence, <<>>, kept))

\* merge_evidence: the best-supported claims.
merge_evidence(kept) ==
    LET sorted == FoldLeft(LAMBDA s, item : InsertBy(s, item, BetterSupported), <<>>,
                           Collected(kept)) IN
    SubSeq(sorted, 1, Min({MAX_EVIDENCE, Len(sorted)}))

\* aggregate: the final result, without its wording.
aggregate(results, strategy, completed, total) ==
    LET ordered == Ordered(results)
        answers == SelectSeq(ordered, LAMBDA r : r.kind = "answer")
        kept == drop_redundant(ordered)
        disputes == conflicts(answers)
        agreement == IF needs_consensus(strategy) THEN consensus(answers) ELSE NoConsensus IN
    [outputs |-> [i \in 1..Len(kept) |-> kept[i].task],
     summary |-> summarize(kept, agreement),
     agreement |-> agreement,
     conflicts |-> disputes,
     evidence |-> merge_evidence(kept),
     score |-> confidence(kept, completed, total, Cardinality(disputes))]

\* The rank of a percentile among n observations: q percent, rounded up.
Rank(n, q) == (q * n + 99) \div 100

\* percentile of a sorted sequence, by nearest rank.
percentile(sorted, q) ==
    sorted[1 + Min({Max({Rank(Len(sorted), q) - 1, 0}), Len(sorted) - 1})]

\* set_latency_percentiles.
Percentiles(latencies) ==
    LET sorted == FoldLeft(LAMBDA s, x : InsertBy(s, x, <), <<>>, latencies) IN
    IF latencies = <<>> THEN [median |-> 0, p95 |-> 0, p99 |-> 0]
    ELSE [median |-> percentile(sorted, 50), p95 |-> percentile(sorted, 95),
          p99 |-> percentile(sorted, 99)]

\* Mutant of recompute_statistics: retries count as failures.
RecomputeEveryFailure(results, failures) ==
    [succeeded |-> Len(results),
     failed |-> Len(failures),
     retried |-> Len(SelectSeq(failures, LAMBDA f : ~f.dead_lettered)),
     requests |-> Len(SelectSeq(results, LAMBDA r : ~r.deduplicated)),
     hits |-> Len(SelectSeq(results, LAMBDA r : r.deduplicated))]

\* recompute_statistics: the counters that a journal gives back.
recompute_statistics(results, failures) ==
    [succeeded |-> Len(results),
     failed |-> Len(SelectSeq(failures, LAMBDA f : f.dead_lettered)),
     retried |-> Len(SelectSeq(failures, LAMBDA f : ~f.dead_lettered)),
     requests |-> Len(SelectSeq(results, LAMBDA r : ~r.deduplicated)),
     hits |-> Len(SelectSeq(results, LAMBDA r : r.deduplicated))]
=============================================================================
