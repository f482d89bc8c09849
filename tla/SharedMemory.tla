--------------------------- MODULE SharedMemory ----------------------------
(***************************************************************************)
(* InMemoryStore (crates/shared-memory/src/memory.rs) under concurrent     *)
(* clients.  Two things are not atomic in it: the audit entry of an        *)
(* operation is written after the lock on the record is released, and      *)
(* compact and purge_job first collect keys, shard by shard, and then      *)
(* remove them.                                                            *)
(***************************************************************************)
EXTENDS MemoryStore

CONSTANTS
    Clients, Keys,
    Owners,     \* job scopes a write may carry, "none" among them
    Ttls,       \* lifetimes a write may carry, NoTtl among them
    MaxTime,    \* bound on the clock
    MaxWrites   \* bound on the writes

ASSUME SharedMemoryAssumption ==
    /\ "none" \in Owners
    /\ NoTtl \in Ttls /\ Ttls \subseteq Nat \cup {NoTtl}
    /\ MaxTime \in Nat /\ MaxWrites \in Nat

VARIABLES
    records,    \* InMemoryStore::records; Vacant where there is no entry
    history,    \* InMemoryStore::history, per key: what was noted, in any order
    now,        \* Utc::now()
    writes,     \* writes so far; a write's number is its value and its id
    seen,       \* the key and record a client read and has yet to act on
    noting,     \* the audit entry a client has yet to push
    sweep       \* a client's compact or purge_job in progress

vars == <<records, history, now, writes, seen, noting, sweep>>

Quiet == [key |-> "none", version |-> 0, op |-> "none"]
Unread == [key |-> "none", rec |-> Vacant]
NoSweep == [kind |-> "none", since |-> 0, todo |-> {}, found |-> {}]

Record(r) ==
    /\ r.id \in 0..writes /\ r.version \in 0..writes
    /\ r.job \in Owners
    /\ r.updated \in 0..MaxTime /\ r.expires >= Never

\* Records have the shape the store gives them, and a sweep only concerns keys.
TypeOK ==
    /\ \A k \in Keys : Record(records[k])
    /\ now \in 0..MaxTime /\ writes \in 0..MaxWrites
    /\ \A c \in Clients : /\ sweep[c].todo \cup sweep[c].found \subseteq Keys
                          /\ sweep[c].kind \in {"none", "compact"} \cup Owners
                          /\ noting[c] # Quiet => noting[c].key \in Keys

Init ==
    /\ records = [k \in Keys |-> Vacant]
    /\ history = [k \in Keys |-> {}]
    /\ now = 0 /\ writes = 0
    /\ seen = [c \in Clients |-> Unread]
    /\ noting = [c \in Clients |-> Quiet]
    /\ sweep = [c \in Clients |-> NoSweep]

Idle(c) == noting[c] = Quiet /\ sweep[c] = NoSweep

Tick ==
    /\ now < MaxTime
    /\ now' = now + 1
    /\ UNCHANGED <<records, history, writes, seen, noting, sweep>>

\* get: an expired record reads as no record.
get(c, k) ==
    /\ Idle(c)
    /\ seen' = [seen EXCEPT ![c] =
           [key |-> k, rec |-> IF Visible(records[k], now) THEN records[k] ELSE Vacant]]
    /\ UNCHANGED <<records, history, now, writes, noting, sweep>>

\* The record under k becomes r and the client owes the audit entry op.
Store(c, k, r, op) ==
    /\ records' = [records EXCEPT ![k] = r]
    /\ noting' = [noting EXCEPT ![c] = [key |-> k, version |-> r.version, op |-> op]]

Write(owner, ttl) == [job |-> owner, value |-> writes + 1, ttl |-> ttl]

put(c, k, owner, ttl) ==
    LET r == Written(records[k], Write(owner, ttl), writes + 1, now)
    IN  /\ Idle(c) /\ writes < MaxWrites
        /\ Store(c, k, r, PutOperation(r))
        /\ writes' = writes + 1
        /\ seen' = [seen EXCEPT ![c] = Unread]
        /\ UNCHANGED <<history, now, sweep>>

SwapIfNotOlder(c, k, owner, ttl, expected) ==
    /\ Idle(c) /\ writes < MaxWrites
    /\ CurrentVersion(records[k], now) >= expected
    /\ Store(c, k, Written(records[k], Write(owner, ttl), writes + 1, now),
             CasOperation(records[k]))
    /\ writes' = writes + 1
    /\ seen' = [seen EXCEPT ![c] = Unread]
    /\ UNCHANGED <<history, now, sweep>>

\* compare_and_swap, the winning case.
Swap(c, k, owner, ttl, expected) ==
    /\ Idle(c) /\ writes < MaxWrites
    /\ CurrentVersion(records[k], now) = expected
    /\ Store(c, k, Written(records[k], Write(owner, ttl), writes + 1, now),
             CasOperation(records[k]))
    /\ writes' = writes + 1
    /\ seen' = [seen EXCEPT ![c] = Unread]
    /\ UNCHANGED <<history, now, sweep>>

\* A client swaps what it read; one that read nothing claims the key.  A
\* losing swap changes nothing.
compare_and_swap(c, owner, ttl) ==
    \E k \in Keys :
        /\ seen[c].key = k
        /\ Swap(c, k, owner, ttl, seen[c].rec.version)

delete(c, k) ==
    /\ Idle(c)
    /\ records[k] # Vacant
    /\ records' = [records EXCEPT ![k] = Vacant]
    /\ noting' = [noting EXCEPT ![c] =
           [key |-> k, version |-> records[k].version, op |-> "delete"]]
    /\ seen' = [seen EXCEPT ![c] = Unread]
    /\ UNCHANGED <<history, now, writes, sweep>>

NoteClearing(c) ==
    /\ noting[c] # Quiet
    /\ history' = [history EXCEPT ![noting[c].key] =
           IF noting[c].op = "delete" THEN {}
           ELSE @ \cup {[version |-> noting[c].version, op |-> noting[c].op]}]
    /\ noting' = [noting EXCEPT ![c] = Quiet]
    /\ UNCHANGED <<records, now, writes, seen, sweep>>

\* InMemoryStore::note.
note(c) ==
    /\ noting[c] # Quiet
    /\ history' = [history EXCEPT ![noting[c].key] =
           @ \cup {[version |-> noting[c].version, op |-> noting[c].op]}]
    /\ noting' = [noting EXCEPT ![c] = Quiet]
    /\ UNCHANGED <<records, now, writes, seen, sweep>>

\* compact and purge_job: the clock is read, then every entry is visited.
BeginSweep(c, kind) ==
    /\ Idle(c)
    /\ sweep' = [sweep EXCEPT ![c] =
           [kind |-> kind, since |-> now, todo |-> Keys, found |-> {}]]
    /\ seen' = [seen EXCEPT ![c] = Unread]
    /\ UNCHANGED <<records, history, now, writes, noting>>

CollectsAny(s, r) == r # Vacant

\* The filter of compact and of purge_job.
Collects(s, r) ==
    /\ r # Vacant
    /\ IF s.kind = "compact" THEN is_expired(r, s.since) ELSE r.job = s.kind

Visit(c, k) ==
    /\ k \in sweep[c].todo
    /\ sweep' = [sweep EXCEPT ![c].todo = @ \ {k},
                     ![c].found = IF Collects(sweep[c], records[k]) THEN @ \cup {k} ELSE @]
    /\ UNCHANGED <<records, history, now, writes, seen, noting>>

\* A collected key is removed as it now is.  Only compact leaves a trace.
Remove(c, k) ==
    /\ sweep[c].todo = {} /\ k \in sweep[c].found /\ noting[c] = Quiet
    /\ records' = [records EXCEPT ![k] = Vacant]
    /\ sweep' = [sweep EXCEPT ![c].found = @ \ {k}]
    /\ noting' = [noting EXCEPT ![c] =
           IF sweep[c].kind = "compact" /\ records[k] # Vacant
           THEN [key |-> k, version |-> records[k].version, op |-> "expire"] ELSE Quiet]
    /\ UNCHANGED <<history, now, writes, seen>>

EndSweep(c) ==
    /\ sweep[c] # NoSweep /\ sweep[c].todo \cup sweep[c].found = {} /\ noting[c] = Quiet
    /\ sweep' = [sweep EXCEPT ![c] = NoSweep]
    /\ UNCHANGED <<records, history, now, writes, seen, noting>>

Client(c) ==
    \/ \E k \in Keys : get(c, k) \/ delete(c, k) \/ Visit(c, k) \/ Remove(c, k)
    \/ \E k \in Keys, o \in Owners, ttl \in Ttls : put(c, k, o, ttl)
    \/ \E o \in Owners, ttl \in Ttls : compare_and_swap(c, o, ttl)
    \/ \E kind \in {"compact"} \cup (Owners \ {"none"}) : BeginSweep(c, kind)
    \/ note(c) \/ EndSweep(c)

Next == Tick \/ \E c \in Clients : Client(c)

Spec == Init /\ [][Next]_vars
-----------------------------------------------------------------------------
\* Every version a stored record has gone through is in the audit trail of
\* its key, or in the hands of a client about to push it there: a record and
\* its history never disagree for longer than one operation, although the
\* two are updated separately and the trail may be out of order.
AuditComplete ==
    \A k \in Keys : \A v \in 1..records[k].version :
        \/ \E e \in history[k] : e.version = v
        \/ \E c \in Clients : noting[c].key = k /\ noting[c].version = v

\* Within a lineage no update is lost: a swap that wins over the record id
\* its client read replaces exactly the record it read.  (Across lineages it
\* may not: versions start again at 1.)
NoLostUpdate ==
    [][\A c \in Clients : \A k \in Keys :
          (/\ Idle(c) /\ seen[c].key = k /\ seen[c].rec # Vacant
           /\ \E o \in Owners, ttl \in Ttls : compare_and_swap(c, o, ttl)
           /\ records[k].id = seen[c].rec.id)
          => records[k] = seen[c].rec]_vars

\* What a compaction takes away although it can still be read was written
\* after that compaction began, over a record that had expired by then; a
\* record the compaction found alive stays.
CompactSparesOld ==
    [][\A c \in Clients : \A k \in Keys :
          (sweep[c].kind = "compact" /\ Remove(c, k) /\ Visible(records[k], now))
          => records[k].updated >= sweep[c].since]_vars

\* When purge_job ends, a record of the job that is still there was written
\* after the purge began.
PurgeComplete ==
    [][\A c \in Clients :
          (sweep[c].kind \notin {"none", "compact"} /\ EndSweep(c))
          => \A k \in Keys : records[k] # Vacant /\ records[k].job = sweep[c].kind
                             => records[k].updated >= sweep[c].since]_vars

\* A sweep is as good as one taken at the instant it began, except for what
\* was written since (compact, purge_job).
SweepsHonest == CompactSparesOld /\ PurgeComplete
=============================================================================
