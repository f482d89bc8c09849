----------------------------- MODULE TaskQueue -----------------------------
(***************************************************************************)
(* The in-memory leased task queue (crates/task-queue/src/memory.rs).      *)
(*                                                                         *)
(* Every operation of the code is one critical section of the queue's      *)
(* mutex, so every operation is one action.  The clock is read BEFORE the  *)
(* mutex is taken: an operation works with a time g \in 0..Lag units older *)
(* than the present.  Instants are kept relative to the present:           *)
(*   entry.delay  = available_at - now,    lease.left = expires_at - now,  *)
(*   entry.waited = now - enqueued_at,                                     *)
(* and Tick moves them all; nothing else about the clock is ever compared. *)
(*                                                                         *)
(* The clients are arbitrary.  `held' is the set of lease handles some     *)
(* client still has; a handle may be used at any time, twice, or after its *)
(* lease is gone, and is forgotten when its holder crashes.                *)
(***************************************************************************)
EXTENDS RetryPolicy, FiniteSets

CONSTANTS
    Keys,            \* attempt keys (QueuedTask::idempotency_key)
    TaskOf,          \* task_id of the entry with that key
    JobOf,           \* job_id of the entry
    Priority,        \* priority of the entry
    QueueOf,         \* named queue of the entry
    Requires,        \* required_capabilities of the entry
    Offers,          \* [queues, caps] filters workers dequeue with
    LeaseIds,        \* lease identities; fresh ones are drawn from here
    LeaseDuration,   \* lease_duration_ms
    Extensions,      \* durations passed to extend_lease
    StartAttempts,   \* attempts an entry may have spent before it is enqueued
    StartDelays,     \* delays an entry may be enqueued with
    Lag,             \* how stale an operation's clock reading may be
    WaitedCap,       \* bound: waiting longer than this is not told apart
    ReplayBound      \* bound: no replay of an entry with more attempts

ASSUME TaskQueueAssumption ==
    /\ LeaseDuration \in Nat
    /\ Extensions \subseteq Nat
    /\ StartAttempts \subseteq Nat
    /\ StartDelays \subseteq Nat
    /\ Lag \in Nat
    /\ WaitedCap \in Nat
    /\ \A k \in Keys : Priority[k] \in Nat

VARIABLES
    ready,           \* Inner::ready, entries visible or delayed
    leases,          \* Inner::leases
    seen,            \* Inner::seen, attempt keys ever admitted
    dead,            \* Inner::dead
    held,            \* lease handles clients still have
    done,            \* history: acknowledgements that returned Ok, per key
    purged           \* history: keys dropped by purge_job

queueVars == <<ready, leases, seen, dead>>
vars == <<ready, leases, seen, dead, held, done, purged>>

\* `first' is history: the attempts already spent when the entry was admitted.
Entry == [key : Keys, attempt : Nat, first : Nat, delay : Int, waited : Nat]
LeaseStates == {"Held", "Extended", "Released", "Rejected", "Expired"}
Lease == [id : LeaseIds, entry : Entry, left : Int, state : LeaseStates]
Handle == [id : LeaseIds, key : Keys]

\* Edges of the lease's state machine.
LeaseAllowed(state) ==
    IF state \in {"Held", "Extended"}
    THEN {"Extended", "Released", "Rejected", "Expired"}
    ELSE {}

\* An attempt is charged, handed back (saturating); availability is set.
Charged(e) == [e EXCEPT !.attempt = @ + 1]
Refunded(e) == [e EXCEPT !.attempt = IF @ = 0 THEN 0 ELSE @ - 1]
AvailableIn(e, d) == [e EXCEPT !.delay = d]
Readmitted(e) == [e EXCEPT !.first = e.attempt]

Init ==
    /\ ready = {}
    /\ leases = {}
    /\ seen = {}
    /\ dead = {}
    /\ held = {}
    /\ done = [k \in Keys |-> 0]
    /\ purged = {}
-----------------------------------------------------------------------------
\* QueuedTask::is_visible and TaskLease::is_expired at a time g units ago.
IsVisible(e, g) == e.delay <= -g
IsExpired(l, g) == l.left <= -g

\* An empty filter lets everything through.
Matches(e, offer) ==
    /\ offer.queues = {} \/ QueueOf[e.key] \in offer.queues
    /\ offer.caps = {} \/ Requires[e.key] \subseteq offer.caps

\* Highest priority wins; ties go to whoever waited longest.
Outranks(f, e) ==
    \/ Priority[f.key] > Priority[e.key]
    \/ Priority[f.key] = Priority[e.key] /\ f.waited > e.waited

\* Entries Inner::pick may return (it returns one of the equals).
Pick(g, offer) ==
    LET candidates == {e \in ready : IsVisible(e, g) /\ Matches(e, offer)}
    IN  {e \in candidates : \A f \in candidates : ~Outranks(f, e)}

\* Inner::take_lease: the lease the handle names, or nothing.
TakeLease(id) == {l \in leases : l.id = id}

\* Inner::retry_or_park applied to a set of entries that left their leases.
Backoff(e, n, g) == AvailableIn(e, BackoffMs(e.attempt, n) - g)
Retried(E, n, g) == {Backoff(e, n, g) : e \in {x \in E : AllowsRetry(x.attempt)}}
Parked(E) == {e \in E : ~AllowsRetry(e.attempt)}

RetryOrPark(E, n, g) ==
    /\ ready' = ready \cup Retried(E, n, g)
    /\ dead' = dead \cup Parked(E)
-----------------------------------------------------------------------------
\* enqueue: an attempt key already seen is dropped.
Enqueue(k, a, d) ==
    /\ k \notin seen
    /\ seen' = seen \cup {k}
    /\ ready' = ready \cup
         {[key |-> k, attempt |-> a, first |-> a, delay |-> d, waited |-> 0]}
    /\ UNCHANGED <<leases, dead, held, done, purged>>

\* Mutant of Dequeue: the attempt is not charged when the lease is granted.
DequeueUncharged(id, g, offer) ==
    /\ id \notin {l.id : l \in leases} \cup {h.id : h \in held}
    /\ \E e \in Pick(g, offer) :
         /\ ready' = ready \ {e}
         /\ leases' = leases \cup
              {[id |-> id, entry |-> e, left |-> LeaseDuration - g, state |-> "Held"]}
         /\ held' = held \cup {[id |-> id, key |-> e.key]}
    /\ UNCHANGED <<seen, dead, done, purged>>

\* dequeue_from: the attempt is spent when the lease is granted.
Dequeue(id, g, offer) ==
    /\ id \notin {l.id : l \in leases} \cup {h.id : h \in held}
    /\ \E e \in Pick(g, offer) :
         /\ ready' = ready \ {e}
         /\ leases' = leases \cup
              {[id    |-> id,
                entry |-> Charged(e),
                left  |-> LeaseDuration - g,
                state |-> "Held"]}
         /\ held' = held \cup {[id |-> id, key |-> e.key]}
    /\ UNCHANGED <<seen, dead, done, purged>>

\* acknowledge: refused, and the task put back, when the lease has lapsed.
Acknowledge(h, g, n) ==
    \E l \in TakeLease(h.id) :
        /\ leases' = leases \ {l}
        /\ \/ /\ IsExpired(l, g)
              /\ RetryOrPark({l.entry}, n, g)
              /\ UNCHANGED done
           \/ /\ ~IsExpired(l, g)
              /\ done' = IF "Released" \in LeaseAllowed(l.state)
                         THEN [done EXCEPT ![h.key] = @ + 1]
                         ELSE done
              /\ UNCHANGED <<ready, dead>>
        /\ UNCHANGED <<seen, held, purged>>

\* Mutant of Reject: the task is put back while its lease stays in the table.
RejectKeepsLease(h, g, n) ==
    \E l \in TakeLease(h.id) :
        /\ RetryOrPark({l.entry}, n, g)
        /\ UNCHANGED <<leases, seen, held, done, purged>>

\* reject: no expiry check; the attempt stays spent.
Reject(h, g, n) ==
    \E l \in TakeLease(h.id) :
        /\ leases' = leases \ {l}
        /\ IF "Rejected" \in LeaseAllowed(l.state)
           THEN RetryOrPark({l.entry}, n, g)
           ELSE UNCHANGED <<ready, dead>>
        /\ UNCHANGED <<seen, held, done, purged>>

\* release: the attempt is handed back and the task visible at once.
Release(h, g) ==
    \E l \in TakeLease(h.id) :
        /\ leases' = leases \ {l}
        /\ ready' = ready \cup {AvailableIn(Refunded(l.entry), -g)}
        /\ UNCHANGED <<seen, dead, held, done, purged>>

\* extend_lease: counted from the present, whatever was left.
ExtendLease(h, d, g) ==
    \E l \in TakeLease(h.id) :
        /\ ~IsExpired(l, g)
        /\ "Extended" \in LeaseAllowed(l.state)
        /\ leases' = (leases \ {l}) \cup
             {[id |-> l.id, entry |-> l.entry, left |-> d - g, state |-> "Extended"]}
        /\ UNCHANGED <<ready, seen, dead, held, done, purged>>

\* Mutant of RequeueExpired: extended leases are not swept.
RequeueExpiredHeldOnly(g, n) ==
    LET lapsed == {l \in leases : IsExpired(l, g) /\ l.state = "Held"}
    IN  /\ lapsed # {}
        /\ leases' = leases \ lapsed
        /\ RetryOrPark({l.entry : l \in lapsed}, n, g)
        /\ UNCHANGED <<seen, held, done, purged>>

\* requeue_expired: every lapsed lease, in one sweep with one clock reading.
RequeueExpired(g, n) ==
    LET lapsed == {l \in leases : IsExpired(l, g)}
    IN  /\ lapsed # {}
        /\ leases' = leases \ lapsed
        /\ RetryOrPark({l.entry : l \in lapsed}, n, g)
        /\ UNCHANGED <<seen, held, done, purged>>

\* replay_dead_letter: pushed directly, past the deduplication; the attempt
\* count is left as it was.
ReplayDeadLetter(t, g) ==
    \E e \in dead :
        /\ TaskOf[e.key] = t
        /\ e.attempt <= ReplayBound
        /\ dead' = dead \ {e}
        /\ ready' = ready \cup {AvailableIn(Readmitted(e), -g)}
        /\ UNCHANGED <<leases, seen, held, done, purged>>

\* purge_job: entries and leases of the job; its dead letters and keys stay.
PurgeJob(j) ==
    LET dropped == {e \in ready : JobOf[e.key] = j}
        revoked == {l \in leases : JobOf[l.entry.key] = j}
    IN  /\ dropped # {} \/ revoked # {}
        /\ ready' = ready \ dropped
        /\ leases' = leases \ revoked
        /\ purged' = purged \cup {e.key : e \in dropped}
                            \cup {l.entry.key : l \in revoked}
        /\ UNCHANGED <<seen, dead, held, done>>
-----------------------------------------------------------------------------
\* A client crashes, or is done with a handle.
Forget(h) ==
    /\ held' = held \ {h}
    /\ UNCHANGED <<ready, leases, seen, dead, done, purged>>

\* The clock moves one unit.
Older(x) == IF x > -Lag THEN x - 1 ELSE x
Aged(e) ==
    LET longer == [e EXCEPT !.waited = IF @ < WaitedCap THEN @ + 1 ELSE @]
    IN  AvailableIn(longer, Older(e.delay))
AgedLease(l) ==
    [id |-> l.id, entry |-> Aged(l.entry), left |-> Older(l.left), state |-> l.state]

Tick ==
    /\ ready' = {Aged(e) : e \in ready}
    /\ leases' = {AgedLease(l) : l \in leases}
    /\ dead' = {Aged(e) : e \in dead}
    /\ UNCHANGED <<seen, held, done, purged>>

Next ==
    \/ \E k \in Keys, a \in StartAttempts, d \in StartDelays : Enqueue(k, a, d)
    \/ \E id \in LeaseIds, g \in 0..Lag, offer \in Offers : Dequeue(id, g, offer)
    \/ \E h \in held, g \in 0..Lag, n \in Nonces : Acknowledge(h, g, n)
    \/ \E h \in held, g \in 0..Lag, n \in Nonces : Reject(h, g, n)
    \/ \E h \in held, g \in 0..Lag : Release(h, g)
    \/ \E h \in held, d \in Extensions, g \in 0..Lag : ExtendLease(h, d, g)
    \/ \E g \in 0..Lag, n \in Nonces : RequeueExpired(g, n)
    \/ \E k \in Keys, g \in 0..Lag : ReplayDeadLetter(TaskOf[k], g)
    \/ \E k \in Keys : PurgeJob(JobOf[k])
    \/ \E h \in held : Forget(h)
    \/ Tick

Spec == Init /\ [][Next]_vars
-----------------------------------------------------------------------------
ReadyKeys == {e.key : e \in ready}
LeasedKeys == {l.entry.key : l \in leases}
DeadKeys == {e.key : e \in dead}
AckedKeys == {k \in Keys : done[k] > 0}

\* The queue's records have the shape memory.rs gives them, and a lease still
\* in the table is active (so settling it never fails on its state).
TypeOK ==
    /\ ready \subseteq Entry
    /\ leases \subseteq Lease
    /\ \A l \in leases : l.state \in {"Held", "Extended"}
    /\ seen \subseteq Keys
    /\ dead \subseteq Entry
    /\ held \subseteq Handle
    /\ done \in [Keys -> Nat]
    /\ purged \subseteq Keys

UniqueRecords ==
    /\ \A e, f \in ready : e.key = f.key => e = f
    /\ \A l, m \in leases : l.id = m.id \/ l.entry.key = m.entry.key => l = m
    /\ \A e, f \in dead : e.key = f.key => e = f

DisjointPlaces ==
    /\ ReadyKeys \cap (LeasedKeys \cup DeadKeys \cup AckedKeys \cup purged) = {}
    /\ LeasedKeys \cap (DeadKeys \cup AckedKeys \cup purged) = {}
    /\ DeadKeys \cap (AckedKeys \cup purged) = {}
    /\ AckedKeys \cap purged = {}

\* The acknowledged place holds a key once: a slow worker cannot acknowledge
\* work whose lease lapsed and was redone by another.
AckedOnce == \A k \in Keys : done[k] <= 1

\* A task is delivered to at most one live lease at a time, and is never queued
\* or parked as well: an admitted attempt key is in one record of one place
\* (ready, leased, dead, acknowledged or purged), however stale handles,
\* sweeps, replays and purges interleave.
OnePlace == UniqueRecords /\ DisjointPlaces /\ AckedOnce

\* No operation, failing or not, loses an admitted task: it is waiting, leased,
\* parked, acknowledged, or was dropped by purge_job.
NothingLost ==
    seen = ReadyKeys \cup LeasedKeys \cup DeadKeys \cup AckedKeys \cup purged

\* An admitted task is in exactly one place: neither lost nor delivered twice
\* at a time, whatever slow workers, sweeps, replays and purges do.
ExactlyOnePlace == OnePlace /\ NothingLost

\* Attempts are spent when a lease is granted and never refunded by a crash: a
\* lease is within max_attempts, or it is the only grant since the entry was
\* admitted with its budget already spent.
WithinBudget ==
    \A l \in leases : \/ l.entry.attempt <= MaxAttempts
                      \/ l.entry.attempt = l.entry.first + 1

\* What makes the properties above inductive: a handle names the key its lease
\* is for, a lease has charged an attempt, and a waiting entry may be granted
\* one more.
HandlesAgree == \A h \in held, l \in leases : h.id = l.id => h.key = l.entry.key
LeasesCharged == \A l \in leases : l.entry.attempt > 0
WaitingWithinBudget ==
    \A e \in ready : e.attempt < MaxAttempts \/ e.attempt = e.first

Places == OnePlace /\ NothingLost /\ HandlesAgree
Budgets == WithinBudget /\ LeasesCharged /\ WaitingWithinBudget

-----------------------------------------------------------------------------
(***************************************************************************)
(* Workers that do nothing but crash: they take leases, may extend them,   *)
(* and forget them.  Time passes, and every scheduling tick of every       *)
(* running job calls requeue_expired (engine.rs), so a sweep that has work *)
(* to do happens; the workers keep taking work and keep crashing.          *)
(***************************************************************************)
Unfiltered == [queues |-> {}, caps |-> {}]
Grab == \E id \in LeaseIds : Dequeue(id, 0, Unfiltered)
Crash == \E h \in held : Forget(h)
Sweep == \E n \in Nonces : RequeueExpired(0, n)

CrashNext ==
    \/ \E k \in Keys, a \in StartAttempts, d \in StartDelays : Enqueue(k, a, d)
    \/ \E h \in held, d \in Extensions : ExtendLease(h, d, 0)
    \/ Grab
    \/ Crash
    \/ Sweep
    \/ Tick

CrashSpec ==
    /\ Init /\ [][CrashNext]_vars
    /\ WF_vars(Grab) /\ WF_vars(Crash) /\ WF_vars(Sweep) /\ WF_vars(Tick)

Orphaned(k) == \E l \in leases : l.entry.key = k /\ \A h \in held : h.id # l.id

\* A lease whose holder crashed does not hold its task for ever: the sweep puts
\* the task back or parks it, with no view of which workers are alive.
OrphansRecovered == \A k \in Keys : Orphaned(k) ~> k \notin LeasedKeys

\* A task that always crashes its worker is not retried for ever: granting a
\* lease spends an attempt, so it ends in the dead letters.
PoisonParked == \A k \in Keys : k \in seen ~> k \in DeadKeys
=============================================================================
