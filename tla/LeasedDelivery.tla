-------------------------- MODULE LeasedDelivery --------------------------
(***************************************************************************)
(* What a TaskQueue implementation promises its clients, with no records,  *)
(* clocks or tables (the contract of the trait in                          *)
(* crates/task-queue/src/lib.rs).  An attempt key is in one of six states, *)
(* a leased key has one owner, and `spent' counts the attempts charged to  *)
(* a key the queue still owes.                                             *)
(***************************************************************************)
EXTENDS Integers

CONSTANTS Keys, LeaseIds, MaxAttempts, NoOwner

VARIABLES status, owner, spent

abstractVars == <<status, owner, spent>>

In(s) == {k \in Keys : status[k] = s}

AbstractInit ==
    /\ status = [k \in Keys |-> "absent"]
    /\ owner = [k \in Keys |-> NoOwner]
    /\ spent = [k \in Keys |-> 0]

\* A key is admitted at most once, with some attempts already spent.
Admit(k) ==
    /\ status[k] = "absent"
    /\ status' = [status EXCEPT ![k] = "waiting"]
    /\ spent'[k] \in Nat
    /\ spent' = [spent EXCEPT ![k] = spent'[k]]
    /\ UNCHANGED owner

\* At most one live lease: only a waiting key is granted, and the grant is
\* charged to its budget.
Grant(k, id) ==
    /\ status[k] = "waiting"
    /\ \A other \in Keys : owner[other] # id
    /\ status' = [status EXCEPT ![k] = "leased"]
    /\ owner' = [owner EXCEPT ![k] = id]
    /\ spent' = [spent EXCEPT ![k] = @ + 1]

Complete(k) ==
    /\ status[k] = "leased"
    /\ status' = [status EXCEPT ![k] = "done"]
    /\ owner' = [owner EXCEPT ![k] = NoOwner]
    /\ spent' = [spent EXCEPT ![k] = 0]

\* Failed or lapsed leases: each key goes back while its budget lasts, and is
\* parked when the budget is spent.
FailLeases(K) ==
    /\ K # {} /\ K \subseteq In("leased")
    /\ status' = [k \in Keys |-> IF k \notin K THEN status[k]
                                 ELSE IF spent[k] < MaxAttempts THEN "waiting"
                                 ELSE "parked"]
    /\ owner' = [k \in Keys |-> IF k \in K THEN NoOwner ELSE owner[k]]
    /\ UNCHANGED spent

\* The holder could not start: the attempt is handed back.
HandBack(k) ==
    /\ status[k] = "leased"
    /\ status' = [status EXCEPT ![k] = "waiting"]
    /\ owner' = [owner EXCEPT ![k] = NoOwner]
    /\ spent' = [spent EXCEPT ![k] = @ - 1]

Replay(k) ==
    /\ status[k] = "parked"
    /\ status' = [status EXCEPT ![k] = "waiting"]
    /\ UNCHANGED <<owner, spent>>

\* Waiting and leased keys are dropped together; parked ones are kept.
Drop(K) ==
    /\ K # {} /\ K \subseteq In("waiting") \cup In("leased")
    /\ status' = [k \in Keys |-> IF k \in K THEN "dropped" ELSE status[k]]
    /\ owner' = [k \in Keys |-> IF k \in K THEN NoOwner ELSE owner[k]]
    /\ spent' = [k \in Keys |-> IF k \in K THEN 0 ELSE spent[k]]

AbstractNext ==
    \/ \E k \in Keys : Admit(k) \/ Complete(k) \/ HandBack(k) \/ Replay(k)
    \/ \E k \in Keys, id \in LeaseIds : Grant(k, id)
    \/ \E K \in SUBSET Keys : FailLeases(K) \/ Drop(K)

AbstractSpec == AbstractInit /\ [][AbstractNext]_abstractVars
=============================================================================
