-------------------------- MODULE MCSharedMemory ---------------------------
(***************************************************************************)
(* A small instance of SharedMemory: a write lives for one tick or for     *)
(* good.                                                                   *)
(***************************************************************************)
EXTENDS SharedMemory, TLC

Lifetimes == {NoTtl, 1}

Symmetry == Permutations(Clients)
=============================================================================
