----------------------------- MODULE MCTaskGraph ---------------------------
(* Every strategy for up to three agents, over an objective with clauses   *)
(* that repeat each other and one that reads like a padding topic.         *)
EXTENDS TaskGraph

Clause(word, form) == [text |-> <<word, form>>, lower |-> <<word, 0>>]

Clauses == <<Clause("costs", 1), Clause("costs", 2), Clause("risks", 1), Clause("costs", 1)>>

\* One operation on every plan; three on plans of the strategy whose agents
\* extend the graph themselves.
MCJobs ==
    [strategy : Strategies, max_agents : 1..3, clauses : {Clauses, <<Aspect(1)>>, <<>>}, ops : {1}]
      \cup
    [strategy : {"adaptive"}, max_agents : {2, 4}, clauses : {Clauses}, ops : {3}]
=============================================================================
