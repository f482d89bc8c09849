------------------------ MODULE TaskQueueRefinement ------------------------
(***************************************************************************)
(* The in-memory queue implements the delivery contract: every record of   *)
(* its tables is mapped to the state of one attempt key.                   *)
(***************************************************************************)
EXTENDS TaskQueue

CONSTANT NoOwner

\* It stands for the absence of a lease and is no lease's identity.
ASSUME NoOwnerAssumption == NoOwner \notin LeaseIds

\* The record and the lease of a key the queue owes; unique by OnePlace.
RecordOf(k) ==
    CHOOSE e \in ready \cup dead \cup {l.entry : l \in leases} : e.key = k
LeaseOf(k) == CHOOSE l \in leases : l.entry.key = k

StatusBar ==
    [k \in Keys |-> IF k \in ReadyKeys THEN "waiting"
                    ELSE IF k \in LeasedKeys THEN "leased"
                    ELSE IF k \in DeadKeys THEN "parked"
                    ELSE IF k \in AckedKeys THEN "done"
                    ELSE IF k \in purged THEN "dropped"
                    ELSE "absent"]

OwnerBar == [k \in Keys |-> IF k \in LeasedKeys THEN LeaseOf(k).id ELSE NoOwner]

SpentBar == [k \in Keys |-> IF k \in ReadyKeys \cup LeasedKeys \cup DeadKeys
                            THEN RecordOf(k).attempt ELSE 0]

Contract == INSTANCE LeasedDelivery
              WITH status <- StatusBar, owner <- OwnerBar, spent <- SpentBar

\* Every operation of memory.rs, sweeps and purges of several entries included,
\* is one step of the delivery contract or invisible to it: one live lease per
\* key, each grant charged once, parking exactly when the budget is spent.
ImplementsContract == Contract!AbstractSpec
=============================================================================
