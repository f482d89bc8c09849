---------------------------- MODULE MCAgentPool ----------------------------
(***************************************************************************)
(* A small instance of AgentPool: two jobs that start with two agents and  *)
(* may grow to three each, in a cluster of four.                           *)
(***************************************************************************)
EXTENDS AgentPool, TLC

CONSTANTS j1, j2, t1, t2, t3

PoolJobOf == (t1 :> j1) @@ (t2 :> j1) @@ (t3 :> j2)
PoolKindOf == (t1 :> "work") @@ (t2 :> "judge") @@ (t3 :> "work")
OneWide == [j \in Jobs |-> 1]
ReviewForSecond == (j1 :> {}) @@ (j2 :> {"review"})
ThreeEach == [j \in Jobs |-> 3]
=============================================================================
