---------------------------- MODULE MCJobEngine ----------------------------
(***************************************************************************)
(* Small instances of JobEngine: one job of three tasks (two that run side *)
(* by side and a third that needs both), a chain of two with a redelivered *)
(* entry, and two jobs that share the queue.                               *)
(***************************************************************************)
EXTENDS JobEngine, TLC

CONSTANTS j1, j2, a, b, c, ka, kb, kc, dup

\* One job: c depends on a and b.
DiamondJobOf == (a :> j1) @@ (b :> j1) @@ (c :> j1)
DiamondDeps == (a :> {}) @@ (b :> {}) @@ (c :> {a, b})

\* One job: b depends on a.
ChainDeps == (a :> {}) @@ (b :> {a}) @@ (c :> {})

\* Two jobs: a and its successor b belong to j1, c is j2's only task.
PairJobOf == (a :> j1) @@ (b :> j1) @@ (c :> j2)
PairDeps == ChainDeps

MCTaskOf == (ka :> a) @@ (kb :> b) @@ (kc :> c) @@ (dup :> a)
MCAttemptKey == (a :> ka) @@ (b :> kb) @@ (c :> kc)

OneAgent == (j1 :> 1) @@ (j2 :> 1)
TwoAgents == (j1 :> 2) @@ (j2 :> 2)
=============================================================================
