-------------------------- MODULE MCCrashRecovery --------------------------
(***************************************************************************)
(* A small instance of CrashRecovery: one job of two tasks in a chain.     *)
(***************************************************************************)
EXTENDS CrashRecovery, TLC

CONSTANTS j1, a, b

ChainJobOf == (a :> j1) @@ (b :> j1)
ChainDeps == (a :> {}) @@ (b :> {a})

\* The first task is retried once, the second never.
RetriedOnce == (a :> 2) @@ (b :> 1)
=============================================================================
