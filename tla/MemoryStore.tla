---------------------------- MODULE MemoryStore ----------------------------
(***************************************************************************)
(* The versioned records of the shared memory and what one operation does  *)
(* to one record (crates/shared-memory/src/lib.rs and memory.rs).  An      *)
(* operation holds the lock of its key's entry, so it is one step on it.   *)
(***************************************************************************)
EXTENDS Integers

VERSION_ABSENT == 0
NoTtl == -1
Never == -1

\* A key without an entry.
Vacant == [id |-> 0, job |-> "none", value |-> "none", version |-> VERSION_ABSENT,
           updated |-> 0, expires |-> Never]

is_expired(r, now) == r.expires # Never /\ r.expires <= now

expiry(w, now) == IF w.ttl = NoTtl THEN Never ELSE now + w.ttl

\* The first record of a lineage.
fresh(w, id, now) ==
    [id |-> id, job |-> w.job, value |-> w.value, version |-> 1,
     updated |-> now, expires |-> expiry(w, now)]

\* A write on top of an existing record.
bumped(r, w, now) ==
    [r EXCEPT !.value = w.value, !.updated = now, !.version = @ + 1,
              !.job = IF w.job = "none" THEN @ ELSE w.job,
              !.expires = IF w.ttl = NoTtl THEN @ ELSE expiry(w, now)]

\* MemoryStore::get finds a record: one is stored and has not expired.
Visible(r, now) == r.version # VERSION_ABSENT /\ ~ is_expired(r, now)

CurrentVersion(r, now) == IF Visible(r, now) THEN r.version ELSE VERSION_ABSENT

\* What put, and a compare_and_swap that wins, leave under the key.
Written(r, w, id, now) ==
    IF Visible(r, now) THEN bumped(r, w, now) ELSE fresh(w, id, now)

\* MemoryOperation of a put: judged by the version it produced.
PutOperation(r) == IF r.version = 1 THEN "create" ELSE "put"

\* MemoryOperation of a compare_and_swap: judged by whether an entry, expired
\* or not, was there.
CasOperation(before) == IF before = Vacant THEN "create" ELSE "compare_and_swap"
=============================================================================
