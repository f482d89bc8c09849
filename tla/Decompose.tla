------------------------------ MODULE Decompose -----------------------------
(***************************************************************************)
(* The stage compiler (crates/coordinator/src/decompose.rs): a strategy    *)
(* becomes a list of stages, every task of a stage waits for every task of *)
(* the stage before it, and parallel tasks are told apart by the subtopic  *)
(* in their title.                                                         *)
(*                                                                         *)
(* An objective is the sequence of its clauses.  A clause has a text and   *)
(* its lower-case form; equal texts have equal lower-case forms.  Labels   *)
(* and descriptions are left out: inside a stage the label is the same.    *)
(***************************************************************************)
EXTENDS Naturals, Sequences, FiniteSets, SequencesExt, FiniteSetsExt

\* ExecutionStrategy::all.
Strategies ==
    {"sequential", "parallel", "hierarchical", "debate", "map_reduce", "planner_executor",
     "supervisor_worker", "consensus", "adaptive"}

\* ExecutionStrategy::needs_consensus.
needs_consensus(strategy) == strategy \in {"debate", "consensus"}

\* Stage::new.
Stage(kind, fanout) == [kind |-> kind, fanout |-> Max({fanout, 1})]

\* stages: what a strategy compiles to.
stages(strategy, max_agents) ==
    LET fanout == Max({max_agents, 1})
        half == Max({fanout \div 2, 1})
        one(kind) == <<Stage(kind, 1)>>
        many(kind) == <<Stage(kind, fanout)>>
        steps == [i \in 1..Min({fanout, 4}) |-> Stage("work", 1)] IN
    CASE strategy = "sequential" -> one("plan") \o steps \o one("summarize")
      [] strategy = "parallel" -> one("plan") \o many("work") \o one("merge")
      [] strategy = "hierarchical" ->
            one("plan") \o <<Stage("subplan", half)>> \o many("work") \o one("merge")
              \o one("verify")
      [] strategy = "debate" -> many("answer") \o many("critique") \o one("judge")
      [] strategy = "map_reduce" -> one("plan") \o many("map") \o one("reduce")
      [] strategy = "planner_executor" -> one("plan") \o many("work") \o one("verify")
      [] strategy = "supervisor_worker" ->
            one("supervise") \o many("work") \o one("critique") \o one("merge")
      [] strategy = "consensus" -> many("answer") \o one("vote") \o one("merge")
      [] strategy = "adaptive" -> one("plan") \o <<Stage("work", half)>> \o one("summarize")

\* The numbered padding topics, "<stem> - aspect k"; lower case already.
Aspect(k) == [text |-> <<"aspect", k>>, lower |-> <<"aspect", k>>]

\* The clauses in order, without those that repeat an earlier one up to case.
Distinct(clauses, count) ==
    FoldLeft(LAMBDA seen, clause :
                 IF \/ Len(seen) = count
                    \/ \E i \in 1..Len(seen) : seen[i].lower = clause.lower
                   THEN seen ELSE Append(seen, clause),
             <<>>, clauses)

\* subtopics: distinct clauses first, then the aspects that are not among them.
subtopics(clauses, count) ==
    LET seen == Distinct(clauses, count)
        aspects == SelectSeq([k \in 1..(2 * count) |-> Aspect(k)],
                             LAMBDA a : ~Contains(seen, a)) IN
    seen \o SubSeq(aspects, 1, count - Len(seen))

\* The focus of a task that has its stage to itself.
WholeObjective == <<"objective", 0>>

\* decompose: the tasks in the order of their insertion, numbered from one.
\* The key of a task is what its idempotency key is made of.
decompose(strategy, max_agents, clauses) ==
    LET plan == stages(strategy, max_agents)
        topics == subtopics(clauses, Max({plan[s].fanout : s \in 1..Len(plan)}))
        before(s) == MapThenSumSet(LAMBDA r : plan[r].fanout, 1..(s - 1))
        ids(s) == (before(s) + 1)..(before(s) + plan[s].fanout)
        stageOf(t) == CHOOSE s \in 1..Len(plan) : t \in ids(s)
        focus(s, t) == IF plan[s].fanout = 1 THEN WholeObjective
                       ELSE topics[((t - before(s) - 1) % Len(topics)) + 1].text IN
    [t \in 1..before(Len(plan) + 1) |->
        LET s == stageOf(t) IN
        [deps |-> IF s = 1 THEN {} ELSE ids(s - 1),
         stage |-> s - 1,
         key |-> <<s - 1, plan[s].kind, focus(s, t)>>,
         state |-> "Created"]]
=============================================================================
