---------------------------- MODULE MCTaskQueue ----------------------------
(***************************************************************************)
(* Small instances of the task queue for TLC.                              *)
(***************************************************************************)
EXTENDS TaskQueueRefinement, TLC

CONSTANTS k1, k2, k3, j1, j2, t1, t2, i1, i2, i3

\* k1 and k3 are two attempt keys of one task; k2 is another job's.
MCTaskOf == k1 :> t1 @@ k2 :> t2 @@ k3 :> t1
MCJobOf == k1 :> j1 @@ k2 :> j2 @@ k3 :> j1
MCPriority == k1 :> 1 @@ k2 :> 2 @@ k3 :> 1
MCQueueOf == k1 :> "default" @@ k2 :> "gpu" @@ k3 :> "default"
MCRequires == k1 :> {"research"} @@ k2 :> {} @@ k3 :> {"research", "code"}

NoFilter == [queues |-> {}, caps |-> {}]
MCOffers == {NoFilter, [queues |-> {"default"}, caps |-> {"research"}]}
=============================================================================
