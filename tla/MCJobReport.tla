----------------------------- MODULE MCJobReport ----------------------------
(***************************************************************************)
(* A vote over three answers and parallel jobs of two and three findings;  *)
(* the titles of a stage are not in the order of the task numbers.         *)
(* The outputs cover every band of similarity: restating (100%), the same  *)
(* answer (75% and 67%), neither (50%) and in conflict (0%).               *)
(***************************************************************************)
EXTENDS JobReport

Task(kind, stage, title) == [kind |-> kind, stage |-> stage, title |-> title]

Vote(retries, restarts) ==
    [strategy |-> "consensus", retries |-> retries, restarts |-> restarts,
     tasks |-> <<Task("answer", 0, 2), Task("answer", 0, 1), Task("answer", 0, 3),
                 Task("vote", 1, 1), Task("merge", 2, 1)>>]

Findings(tasks, retries, restarts) ==
    [strategy |-> "parallel", retries |-> retries, restarts |-> restarts, tasks |-> tasks]

\* The widest jobs run without retries; retries and restarts meet on a
\* narrower one.
MCPlans ==
    {Vote(0, 1),
     Findings(<<Task("plan", 0, 1), Task("work", 1, 3), Task("work", 1, 1), Task("work", 1, 2),
                Task("merge", 2, 1)>>, 0, 0),
     Findings(<<Task("plan", 0, 1), Task("work", 1, 2), Task("work", 1, 1),
                Task("merge", 2, 1)>>, 1, 1)}

Output(words, conf, duration, evidence) ==
    [words |-> words, confidence |-> conf, duration |-> duration, evidence |-> evidence]
Claim(claim, support) == [claim |-> claim, support |-> support]

Full == Output({"a", "b", "c", "d"}, 9, 3, <<Claim("p", 2)>>)
Most == Output({"a", "b", "c"}, 5, 1, <<Claim("p", 3), Claim("q", 1)>>)
Half == Output({"a", "b"}, 4, 2, <<Claim("q", 2)>>)
Other == Output({"x"}, 9, 4, <<Claim("r", 3)>>)
Brief == Output({}, 8, 1, <<>>)

MCOutputs ==
    [kind \in {"answer", "work", "plan", "vote", "merge"} |->
        CASE kind \in {"answer", "work"} -> {Full, Most, Half, Other}
          [] kind \in {"plan", "vote"} -> {Brief}
          [] kind = "merge" -> {Full, Other}]
=============================================================================
