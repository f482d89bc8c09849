------------------------ MODULE SharedMemoryProofs -------------------------
(***************************************************************************)
(* For every set of clients, keys, owners and lifetimes, and every bound   *)
(* on time and writes: the audit trail is complete, no swap loses an       *)
(* update of the lineage it read, a compaction takes no record that was    *)
(* alive when it began, and a purge leaves none that was there.            *)
(***************************************************************************)
EXTENDS SharedMemory, TLAPS

\* The records n writes can have left behind by time t.
LiveRecord(n, t) ==
    [id : 1..n, job : Owners, value : 1..n, version : 1..n, updated : 0..t,
     expires : Nat \cup {Never}]

Operations == {"create", "put", "compare_and_swap", "delete", "expire"}

Shapes ==
    /\ now \in 0..MaxTime /\ writes \in 0..MaxWrites
    /\ records \in [Keys -> {Vacant} \cup LiveRecord(writes, now)]
    /\ history = [k \in Keys |-> history[k]]
    /\ seen \in [Clients -> {Unread} \cup [key : Keys, rec : {Vacant} \cup LiveRecord(writes, now)]]
    /\ noting \in [Clients -> {Quiet} \cup [key : Keys, version : Nat, op : Operations]]
    /\ sweep \in [Clients -> {NoSweep} \cup
                     [kind : {"compact"} \cup (Owners \ {"none"}), since : 0..now,
                      todo : SUBSET Keys, found : SUBSET Keys]]

\* A record that kept the identity it was read under is the record read, or
\* has a higher version.
SeenIsPast ==
    \A c \in Clients : \A k \in Keys :
        seen[c].key = k /\ seen[c].rec # Vacant /\ records[k].id = seen[c].rec.id
            => records[k] = seen[c].rec \/ records[k].version > seen[c].rec.version

\* What a compaction has collected had expired when it began, or was written
\* since.
FoundStale ==
    \A c \in Clients : \A k \in sweep[c].found :
        sweep[c].kind = "compact" =>
            \/ ~Visible(records[k], sweep[c].since)
            \/ records[k].updated >= sweep[c].since

\* Where a purge has been, what it leaves is not the job's or was written
\* since.
PurgedGone ==
    \A c \in Clients : \A k \in Keys \ (sweep[c].todo \cup sweep[c].found) :
        sweep[c].kind \notin {"none", "compact"} =>
            \/ records[k] = Vacant
            \/ records[k].job # sweep[c].kind
            \/ records[k].updated >= sweep[c].since

MemoryInv == Shapes /\ AuditComplete /\ SeenIsPast /\ FoundStale /\ PurgedGone

\* How a step may change a record: it removes it, writes the next version of
\* its lineage, or starts a new lineage.
Evolves(k) ==
    \/ records'[k] = records[k]
    \/ records'[k] = Vacant
    \/ /\ records'[k] \in LiveRecord(writes', now')
       /\ records'[k].updated = now
       /\ \/ records[k] # Vacant /\ records'[k].id = records[k].id
                                 /\ records'[k].version = records[k].version + 1
          \/ records'[k].id = writes + 1 /\ records'[k].version = 1

-----------------------------------------------------------------------------
(* Records.                                                                *)

\* Vacant is no live record, and time and writes only add to these.
LEMMA LiveRecords ==
  ASSUME NEW n \in Nat, NEW t \in Nat, NEW m \in Nat, NEW u \in Nat, n <= m, t <= u
  PROVE  /\ Vacant \notin LiveRecord(n, t)
         /\ LiveRecord(n, t) \subseteq LiveRecord(m, u)
<1>1. Vacant \notin LiveRecord(n, t)
  BY DEF Vacant, LiveRecord
<1>2. 1..n \subseteq 1..m /\ 0..t \subseteq 0..u
  OBVIOUS
<1>3. LiveRecord(n, t) \subseteq LiveRecord(m, u)
  BY <1>2 DEF LiveRecord
<1> QED
  BY <1>1, <1>3

\* What a write leaves under a key (Record::bump and Record::new).
LEMMA WrittenLive ==
  ASSUME NEW n \in Nat, NEW t \in Nat, NEW r \in {Vacant} \cup LiveRecord(n, t),
         NEW o \in Owners, NEW ttl \in Ttls, NEW w,
         w = Written(r, [job |-> o, value |-> n + 1, ttl |-> ttl], n + 1, t)
  PROVE  /\ w \in LiveRecord(n + 1, t) /\ w.updated = t
         /\ \/ r # Vacant /\ w.id = r.id /\ w.version = r.version + 1
            \/ w.id = n + 1 /\ w.version = 1
<1> USE DEF NoTtl, Never, VERSION_ABSENT
<1>0. ttl \in Nat \cup {-1}
  BY SharedMemoryAssumption
<1>1. CASE Visible(r, t)
  <2>1. r \in LiveRecord(n, t) /\ r # Vacant
    BY <1>1 DEF Visible, Vacant
  <2>2. PICK e : e = IF ttl = -1 THEN r.expires ELSE t + ttl
    OBVIOUS
  <2>3. PICK j : j = IF o = "none" THEN r.job ELSE o
    OBVIOUS
  <2>4. /\ r.id \in 1..n /\ r.version \in 1..n /\ e \in Nat \cup {-1} /\ j \in Owners
        /\ r = [id |-> r.id, job |-> r.job, value |-> r.value, version |-> r.version,
                updated |-> r.updated, expires |-> r.expires]
    BY <1>0, <2>1, <2>2, <2>3 DEF LiveRecord
  <2>5. w = [r EXCEPT !.value = n + 1, !.updated = t, !.version = @ + 1, !.job = j, !.expires = e]
    BY <1>1, <2>2, <2>3 DEF Written, bumped, expiry
  <2>6. w = [id |-> r.id, job |-> j, value |-> n + 1, version |-> r.version + 1,
             updated |-> t, expires |-> e]
    BY <2>4, <2>5
  <2>7. r.id \in 1..(n + 1) /\ r.version + 1 \in 1..(n + 1) /\ n + 1 \in 1..(n + 1) /\ t \in 0..t
    BY <2>4
  <2> QED
    BY <2>1, <2>4, <2>6, <2>7 DEF LiveRecord
<1>2. CASE ~Visible(r, t)
  <2>1. PICK e : e = IF ttl = -1 THEN -1 ELSE t + ttl
    OBVIOUS
  <2>2. e \in Nat \cup {-1}
    BY <1>0, <2>1
  <2>3. w = [id |-> n + 1, job |-> o, value |-> n + 1, version |-> 1, updated |-> t, expires |-> e]
    BY <1>2, <2>1 DEF Written, fresh, expiry
  <2>4. n + 1 \in 1..(n + 1) /\ 1 \in 1..(n + 1) /\ t \in 0..t
    OBVIOUS
  <2> QED
    BY <2>2, <2>3, <2>4 DEF LiveRecord
<1> QED
  BY <1>1, <1>2-----------------------------------------------------------------------------
(* Shapes, and how records evolve.                                         *)

\* A write by put or by a winning swap.
LEMMA StoreEvolves ==
  ASSUME Shapes, NEW c \in Clients, NEW k \in Keys, NEW o \in Owners, NEW ttl \in Ttls,
         NEW r, r = Written(records[k], Write(o, ttl), writes + 1, now),
         NEW op \in Operations, Store(c, k, r, op), writes < MaxWrites,
         writes' = writes + 1, seen' = [seen EXCEPT ![c] = Unread],
         UNCHANGED <<history, now, sweep>>
  PROVE  Shapes' /\ \A i \in Keys : Evolves(i)
<1>0. /\ now \in Nat /\ writes \in Nat /\ writes + 1 \in 0..MaxWrites
      /\ writes + 1 \in Nat /\ writes <= writes + 1 /\ now <= now
  BY SharedMemoryAssumption DEF Shapes
<1>1. records[k] \in {Vacant} \cup LiveRecord(writes, now)
  BY DEF Shapes
<1>2. /\ r \in LiveRecord(writes + 1, now) /\ r.updated = now
      /\ \/ records[k] # Vacant /\ r.id = records[k].id /\ r.version = records[k].version + 1
         \/ r.id = writes + 1 /\ r.version = 1
  BY <1>0, <1>1, WrittenLive DEF Write
<1>3. LiveRecord(writes, now) \subseteq LiveRecord(writes + 1, now)
  BY <1>0, LiveRecords
<1>4. records' = [records EXCEPT ![k] = r]
  BY DEF Store
<1>5. records' \in [Keys -> {Vacant} \cup LiveRecord(writes', now')]
  BY <1>2, <1>3, <1>4 DEF Shapes
<1>6. r.version \in Nat
  BY <1>2 DEF LiveRecord
<1>7. noting' \in [Clients -> {Quiet} \cup [key : Keys, version : Nat, op : Operations]]
  BY <1>6 DEF Store, Shapes
<1>8. seen' \in [Clients -> {Unread} \cup [key : Keys, rec : {Vacant} \cup LiveRecord(writes', now')]]
  BY <1>3 DEF Shapes
<1>9. Shapes'
  BY <1>0, <1>5, <1>7, <1>8 DEF Shapes
<1>10. \A i \in Keys : Evolves(i)
  BY <1>2, <1>4 DEF Evolves, Shapes
<1> QED
  BY <1>9, <1>10

\* A step that at most empties an entry.
LEMMA RemovalEvolves ==
  ASSUME Shapes, UNCHANGED <<now, writes>>,
         records' \in [Keys -> {Vacant} \cup LiveRecord(writes, now)],
         \A i \in Keys : records'[i] = records[i] \/ records'[i] = Vacant,
         history' = [i \in Keys |-> history'[i]],
         seen' \in [Clients -> {Unread} \cup [key : Keys, rec : {Vacant} \cup LiveRecord(writes, now)]],
         noting' \in [Clients -> {Quiet} \cup [key : Keys, version : Nat, op : Operations]],
         sweep' \in [Clients -> {NoSweep} \cup
                     [kind : {"compact"} \cup (Owners \ {"none"}), since : 0..now,
                      todo : SUBSET Keys, found : SUBSET Keys]]
  PROVE  Shapes' /\ \A i \in Keys : Evolves(i)
  BY DEF Shapes, Evolves

\* Every step keeps the shapes and lets records evolve.
LEMMA StepEvolves ==
  ASSUME Shapes, [Next]_vars
  PROVE  Shapes' /\ \A i \in Keys : Evolves(i)
<1>0. CASE UNCHANGED vars
  BY <1>0 DEF vars, Shapes, Evolves
<1>1. CASE Tick
  <2>1. now' \in 0..MaxTime /\ now \in Nat /\ now' \in Nat /\ now <= now' /\ writes \in Nat
    BY <1>1, SharedMemoryAssumption DEF Tick, Shapes
  <2>2. LiveRecord(writes, now) \subseteq LiveRecord(writes, now')
    BY <2>1, LiveRecords
  <2>3. 0..now \subseteq 0..now'
    BY <2>1
  <2>4. records' \in [Keys -> {Vacant} \cup LiveRecord(writes', now')]
    BY <1>1, <2>2 DEF Tick, Shapes
  <2>5. seen' \in [Clients -> {Unread} \cup [key : Keys, rec : {Vacant} \cup LiveRecord(writes', now')]]
    BY <1>1, <2>2 DEF Tick, Shapes
  <2>6. sweep' \in [Clients -> {NoSweep} \cup
                     [kind : {"compact"} \cup (Owners \ {"none"}), since : 0..now',
                      todo : SUBSET Keys, found : SUBSET Keys]]
    BY <1>1, <2>3 DEF Tick, Shapes
  <2> QED
    BY <1>1, <2>1, <2>4, <2>5, <2>6 DEF Tick, Shapes, Evolves
<1> SUFFICES ASSUME NEW c \in Clients, Client(c) PROVE Shapes' /\ \A i \in Keys : Evolves(i)
  BY <1>0, <1>1 DEF Next
<1>2. ASSUME NEW k \in Keys, get(c, k) PROVE Shapes' /\ \A i \in Keys : Evolves(i)
  <2>1. PICK r : r = IF Visible(records[k], now) THEN records[k] ELSE Vacant
    OBVIOUS
  <2>2. r \in {Vacant} \cup LiveRecord(writes, now)
    BY <2>1 DEF Shapes
  <2>3. seen' = [seen EXCEPT ![c] = [key |-> k, rec |-> r]]
    BY <1>2, <2>1 DEF get
  <2>4. seen' \in [Clients -> {Unread} \cup [key : Keys, rec : {Vacant} \cup LiveRecord(writes, now)]]
    BY <2>2, <2>3 DEF Shapes
  <2> QED
    BY <1>2, <2>4 DEF get, Shapes, Evolves
<1>3. ASSUME NEW k \in Keys, delete(c, k) PROVE Shapes' /\ \A i \in Keys : Evolves(i)
  <2>1. records[k].version \in Nat
    BY <1>3 DEF delete, Shapes, LiveRecord
  <2>2. noting' \in [Clients -> {Quiet} \cup [key : Keys, version : Nat, op : Operations]]
    BY <1>3, <2>1 DEF delete, Shapes, Operations
  <2>3. /\ records' \in [Keys -> {Vacant} \cup LiveRecord(writes, now)]
        /\ \A i \in Keys : records'[i] = records[i] \/ records'[i] = Vacant
    BY <1>3 DEF delete, Shapes
  <2>4. seen' \in [Clients -> {Unread} \cup [key : Keys, rec : {Vacant} \cup LiveRecord(writes, now)]]
    BY <1>3 DEF delete, Shapes
  <2> QED
    BY <1>3, <2>2, <2>3, <2>4, RemovalEvolves DEF delete, Shapes
<1>4. ASSUME NEW k \in Keys, Visit(c, k) PROVE Shapes' /\ \A i \in Keys : Evolves(i)
  <2>1. sweep[c] # NoSweep
    BY <1>4 DEF Visit, NoSweep
  <2>2. PICK f : f = IF Collects(sweep[c], records[k]) THEN sweep[c].found \cup {k} ELSE sweep[c].found
    OBVIOUS
  <2>3. sweep' = [sweep EXCEPT ![c].todo = @ \ {k}, ![c].found = f]
    BY <1>4, <2>2 DEF Visit
  <2>4. f \in SUBSET Keys
    BY <2>1, <2>2 DEF Shapes
  <2>5. sweep' \in [Clients -> {NoSweep} \cup
                     [kind : {"compact"} \cup (Owners \ {"none"}), since : 0..now,
                      todo : SUBSET Keys, found : SUBSET Keys]]
    <3>1. PICK s : s = [sweep[c] EXCEPT !.todo = @ \ {k}, !.found = f]
      OBVIOUS
    <3>2. sweep' = [sweep EXCEPT ![c] = s]
      BY <2>3, <3>1 DEF Shapes
    <3>3. sweep[c] \in [kind : {"compact"} \cup (Owners \ {"none"}), since : 0..now,
                        todo : SUBSET Keys, found : SUBSET Keys]
      BY <2>1 DEF Shapes
    <3>4. s \in [kind : {"compact"} \cup (Owners \ {"none"}), since : 0..now,
                 todo : SUBSET Keys, found : SUBSET Keys]
      BY <2>4, <3>1, <3>3
    <3> QED
      BY <3>2, <3>4 DEF Shapes
  <2> QED
    BY <1>4, <2>5 DEF Visit, Shapes, Evolves
<1>5. ASSUME NEW k \in Keys, Remove(c, k) PROVE Shapes' /\ \A i \in Keys : Evolves(i)
  <2>1. sweep[c] # NoSweep
    BY <1>5 DEF Remove, NoSweep
  <2>2. sweep' \in [Clients -> {NoSweep} \cup
                     [kind : {"compact"} \cup (Owners \ {"none"}), since : 0..now,
                      todo : SUBSET Keys, found : SUBSET Keys]]
    BY <1>5, <2>1 DEF Remove, Shapes
  <2>3. records[k] # Vacant => records[k].version \in Nat
    BY DEF Shapes, LiveRecord
  <2>4. noting' \in [Clients -> {Quiet} \cup [key : Keys, version : Nat, op : Operations]]
    BY <1>5, <2>3 DEF Remove, Shapes, Operations
  <2>5. /\ records' \in [Keys -> {Vacant} \cup LiveRecord(writes, now)]
        /\ \A i \in Keys : records'[i] = records[i] \/ records'[i] = Vacant
    BY <1>5 DEF Remove, Shapes
  <2> QED
    BY <1>5, <2>2, <2>4, <2>5, RemovalEvolves DEF Remove, Shapes
<1>6. ASSUME NEW k \in Keys, NEW o \in Owners, NEW ttl \in Ttls, put(c, k, o, ttl)
      PROVE  Shapes' /\ \A i \in Keys : Evolves(i)
  <2>1. PICK r : r = Written(records[k], Write(o, ttl), writes + 1, now)
    OBVIOUS
  <2>2. PICK op \in Operations : op = PutOperation(r)
    BY DEF PutOperation, Operations
  <2> QED
    BY <1>6, <2>1, <2>2, StoreEvolves DEF put
<1>7. ASSUME NEW o \in Owners, NEW ttl \in Ttls, compare_and_swap(c, o, ttl)
      PROVE  Shapes' /\ \A i \in Keys : Evolves(i)
  <2>1. PICK k \in Keys : Swap(c, k, o, ttl, seen[c].rec.version)
    BY <1>7 DEF compare_and_swap
  <2>2. PICK r : r = Written(records[k], Write(o, ttl), writes + 1, now)
    OBVIOUS
  <2>3. PICK op \in Operations : op = CasOperation(records[k])
    BY DEF CasOperation, Operations
  <2> QED
    BY <2>1, <2>2, <2>3, StoreEvolves DEF Swap
<1>8. ASSUME NEW kind \in {"compact"} \cup (Owners \ {"none"}), BeginSweep(c, kind)
      PROVE  Shapes' /\ \A i \in Keys : Evolves(i)
  <2>1. now \in 0..now
    BY DEF Shapes
  <2>2. sweep' \in [Clients -> {NoSweep} \cup
                     [kind : {"compact"} \cup (Owners \ {"none"}), since : 0..now,
                      todo : SUBSET Keys, found : SUBSET Keys]]
    BY <1>8, <2>1 DEF BeginSweep, Shapes
  <2>3. seen' \in [Clients -> {Unread} \cup [key : Keys, rec : {Vacant} \cup LiveRecord(writes, now)]]
    BY <1>8 DEF BeginSweep, Shapes
  <2> QED
    BY <1>8, <2>2, <2>3 DEF BeginSweep, Shapes, Evolves
<1>9. CASE note(c)
  <2>1. history' = [i \in Keys |-> history'[i]]
    BY <1>9 DEF note, Shapes
  <2>2. noting' \in [Clients -> {Quiet} \cup [key : Keys, version : Nat, op : Operations]]
    BY <1>9 DEF note, Shapes
  <2> QED
    BY <1>9, <2>1, <2>2 DEF note, Shapes, Evolves
<1>10. CASE EndSweep(c)
  <2>1. sweep' \in [Clients -> {NoSweep} \cup
                     [kind : {"compact"} \cup (Owners \ {"none"}), since : 0..now,
                      todo : SUBSET Keys, found : SUBSET Keys]]
    BY <1>10 DEF EndSweep, Shapes
  <2> QED
    BY <1>10, <2>1 DEF EndSweep, Shapes, Evolves
<1> QED
  BY <1>2, <1>3, <1>4, <1>5, <1>6, <1>7, <1>8, <1>9, <1>10 DEF Client-----------------------------------------------------------------------------
(* The four facts about concurrent clients.                                *)

\* The audit trail stays complete.
LEMMA AuditStep ==
  ASSUME MemoryInv, [Next]_vars
  PROVE  AuditComplete'
<1> DEFINE Noted(k, v) == \/ \E e \in history[k] : e.version = v
                          \/ \E c \in Clients : noting[c].key = k /\ noting[c].version = v
<1>0. \A k \in Keys : \A v \in 1..records[k].version : Noted(k, v)
  BY DEF MemoryInv, AuditComplete
<1>1. Shapes /\ Shapes' /\ \A k \in Keys : Evolves(k)
  BY StepEvolves DEF MemoryInv
<1>2. ASSUME NEW k \in Keys, NEW v \in Nat \ {0}, Noted(k, v) PROVE Noted(k, v)'
  <2>1. CASE UNCHANGED <<history, noting>>
    BY <1>2, <2>1
  <2>2. ASSUME NEW c \in Clients, noting[c] = Quiet, history' = history,
               \A d \in Clients : d # c => noting'[d] = noting[d]
        PROVE  Noted(k, v)'
    BY <1>2, <2>2 DEF Quiet
  <2>3. ASSUME NEW c \in Clients, note(c) PROVE Noted(k, v)'
    <3>1. \A d \in Clients : d # c => noting'[d] = noting[d]
      BY <1>1, <2>3 DEF note, Shapes
    <3>2. history[k] \subseteq history'[k]
      BY <1>1, <2>3 DEF note, Shapes
    <3>3. noting[c].key = k => \E e \in history'[k] : e.version = noting[c].version
      <4>1. PICK n : n = [version |-> noting[c].version, op |-> noting[c].op]
        OBVIOUS
      <4>2. n.version = noting[c].version
        BY <4>1
      <4>3. noting[c].key = k => n \in history'[k]
        BY <1>1, <2>3, <4>1 DEF note, Shapes
      <4> QED
        BY <4>2, <4>3
    <3> QED
      BY <1>2, <3>1, <3>2, <3>3
  <2>4. CASE Tick \/ UNCHANGED vars
    BY <2>1, <2>4 DEF Tick, vars
  <2>5. ASSUME NEW c \in Clients, NEW i \in Keys, get(c, i) \/ Visit(c, i) PROVE Noted(k, v)'
    BY <2>1, <2>5 DEF get, Visit
  <2>6. ASSUME NEW c \in Clients, NEW kind, BeginSweep(c, kind) \/ EndSweep(c) PROVE Noted(k, v)'
    BY <2>1, <2>6 DEF BeginSweep, EndSweep
  <2>7. ASSUME NEW c \in Clients, NEW i \in Keys, delete(c, i) \/ Remove(c, i) PROVE Noted(k, v)'
    <3>1. noting[c] = Quiet /\ history' = history
      BY <2>7 DEF delete, Remove, Idle
    <3>2. \A d \in Clients : d # c => noting'[d] = noting[d]
      BY <1>1, <2>7 DEF delete, Remove, Shapes
    <3> QED
      BY <2>2, <3>1, <3>2
  <2>8. ASSUME NEW c \in Clients, NEW i \in Keys, NEW o \in Owners, NEW ttl \in Ttls,
               put(c, i, o, ttl) \/ compare_and_swap(c, o, ttl)
        PROVE  Noted(k, v)'
    <3>1. noting[c] = Quiet /\ history' = history
      BY <2>8 DEF put, compare_and_swap, Swap, Idle
    <3>2. \A d \in Clients : d # c => noting'[d] = noting[d]
      BY <1>1, <2>8 DEF put, compare_and_swap, Swap, Store, Shapes
    <3> QED
      BY <2>2, <3>1, <3>2
  <2>9. CASE Next
    <3>1. CASE Tick
      BY <3>1, <2>4
    <3>2. ASSUME NEW c \in Clients, Client(c) PROVE Noted(k, v)'
      BY <3>2, <2>3, <2>5, <2>6, <2>7, <2>8 DEF Client
    <3> QED
      BY <2>9, <3>1, <3>2 DEF Next
  <2> QED
    BY <2>4, <2>9
<1>3. ASSUME NEW k \in Keys, records'[k] # records[k], records'[k] # Vacant
      PROVE  \E c \in Clients : noting'[c].key = k /\ noting'[c].version = records'[k].version
  <2>1. ASSUME NEW c \in Clients, NEW i \in Keys, NEW r, NEW op, Store(c, i, r, op)
        PROVE  \E d \in Clients : noting'[d].key = k /\ noting'[d].version = records'[k].version
    <3>1. i = k /\ records'[k] = r
      BY <1>1, <1>3, <2>1 DEF Store, Shapes
    <3>2. noting'[c].key = k /\ noting'[c].version = r.version
      BY <1>1, <2>1, <3>1 DEF Store, Shapes
    <3> QED
      BY <3>1, <3>2
  <2>2. ASSUME NEW c \in Clients, Client(c)
        PROVE  \E d \in Clients : \E i \in Keys : \E r, op : Store(d, i, r, op)
    <3>1. ASSUME NEW i \in Keys, delete(c, i) \/ Remove(c, i) PROVE FALSE
      BY <1>1, <1>3, <3>1 DEF delete, Remove, Shapes
    <3>2. ASSUME NEW i \in Keys, NEW kind, \/ get(c, i) \/ Visit(c, i) \/ BeginSweep(c, kind)
                                           \/ note(c) \/ EndSweep(c)
          PROVE FALSE
      BY <1>3, <3>2 DEF get, Visit, BeginSweep, note, EndSweep
    <3>3. ASSUME NEW i \in Keys, NEW o, NEW ttl, put(c, i, o, ttl)
          PROVE  \E d \in Clients : \E n \in Keys : \E r, op : Store(d, n, r, op)
      BY <3>3 DEF put
    <3>4. ASSUME NEW o, NEW ttl, compare_and_swap(c, o, ttl)
          PROVE  \E d \in Clients : \E n \in Keys : \E r, op : Store(d, n, r, op)
      BY <3>4 DEF compare_and_swap, Swap
    <3> QED
      BY <2>2, <3>1, <3>2, <3>3, <3>4 DEF Client
  <2>3. CASE Tick \/ UNCHANGED vars
    BY <1>3, <2>3 DEF Tick, vars
  <2> QED
    BY <2>1, <2>2, <2>3 DEF Next
<1>4. ASSUME NEW k \in Keys, NEW v \in 1..records'[k].version PROVE Noted(k, v)'
  <2>1. CASE records'[k] = records[k]
    BY <1>0, <1>2, <1>4, <2>1
  <2>2. CASE records'[k] = Vacant
    BY <1>4, <2>2 DEF Vacant, VERSION_ABSENT
  <2>3. CASE records'[k] # records[k] /\ records'[k] # Vacant
    <3>1. \/ records[k] # Vacant /\ records'[k].version = records[k].version + 1
          \/ records'[k].version = 1
      BY <1>1, <2>3 DEF Evolves
    <3>2. records[k] # Vacant => records[k].version \in Nat
      BY <1>1 DEF Shapes, LiveRecord
    <3>3. v = records'[k].version \/ (v \in Nat \ {0} /\ v \in 1..records[k].version)
      BY <1>4, <3>1, <3>2
    <3> QED
      BY <1>0, <1>2, <1>3, <2>3, <3>3
  <2> QED
    BY <2>1, <2>2, <2>3
<1> QED
  BY <1>4 DEF AuditComplete
\* What clients read stays in the past of what is stored.
LEMMA SeenStep ==
  ASSUME MemoryInv, [Next]_vars
  PROVE  SeenIsPast'
<1>1. Shapes /\ Shapes' /\ \A k \in Keys : Evolves(k)
  BY StepEvolves DEF MemoryInv
<1>2. ASSUME NEW c \in Clients
      PROVE  \/ seen'[c] = seen[c]
             \/ seen'[c].rec = Vacant
             \/ \E k \in Keys : records' = records /\ seen'[c] = [key |-> k, rec |-> records[k]]
  <2>1. ASSUME NEW d \in Clients, NEW k \in Keys, get(d, k)
        PROVE  \/ seen'[c] = seen[c]
               \/ seen'[c].rec = Vacant
               \/ \E i \in Keys : records' = records /\ seen'[c] = [key |-> i, rec |-> records[i]]
    BY <1>1, <2>1 DEF get, Shapes
  <2>2. ASSUME seen' = seen \/ \E d \in Clients : seen' = [seen EXCEPT ![d] = Unread]
        PROVE  seen'[c] = seen[c] \/ seen'[c].rec = Vacant
    BY <1>1, <2>2 DEF Shapes, Unread
  <2>3. CASE Tick \/ UNCHANGED vars
    BY <2>2, <2>3 DEF Tick, vars
  <2>4. ASSUME NEW d \in Clients, Client(d), \A k \in Keys : ~get(d, k)
        PROVE  seen' = seen \/ \E e \in Clients : seen' = [seen EXCEPT ![e] = Unread]
    BY <2>4 DEF Client, delete, Visit, Remove, put, compare_and_swap, Swap, BeginSweep, note, EndSweep
  <2> QED
    BY <2>1, <2>2, <2>3, <2>4 DEF Next
<1>3. SUFFICES ASSUME NEW c \in Clients, NEW k \in Keys, seen'[c].key = k, seen'[c].rec # Vacant,
                      records'[k].id = seen'[c].rec.id
               PROVE  records'[k] = seen'[c].rec \/ records'[k].version > seen'[c].rec.version
  BY DEF SeenIsPast
<1>4. CASE \E i \in Keys : records' = records /\ seen'[c] = [key |-> i, rec |-> records[i]]
  BY <1>3, <1>4
<1>5. CASE seen'[c] = seen[c]
  <2>1. seen[c].rec \in LiveRecord(writes, now)
    BY <1>1, <1>3, <1>5 DEF Shapes, Unread
  <2>2. seen[c].rec.id \in 1..writes /\ seen[c].rec.version \in Nat
    BY <2>1 DEF LiveRecord
  <2>3. records'[k] # Vacant
    BY <1>3, <1>5, <2>2 DEF Vacant
  <2>4. records[k].id = seen[c].rec.id =>
            records[k] = seen[c].rec \/ records[k].version > seen[c].rec.version
    BY <1>3, <1>5 DEF MemoryInv, SeenIsPast
  <2>5. CASE records'[k] = records[k]
    BY <1>3, <1>5, <2>4, <2>5
  <2>6. CASE records'[k] # records[k]
    <3>1. writes \in Nat
      BY <1>1, SharedMemoryAssumption DEF Shapes
    <3>2. /\ records[k] # Vacant /\ records'[k].id = records[k].id
          /\ records'[k].version = records[k].version + 1
      BY <1>1, <1>3, <1>5, <2>2, <2>3, <2>6, <3>1 DEF Evolves
    <3>3. records[k].version \in Nat
      BY <1>1, <3>2 DEF Shapes, LiveRecord
    <3>4. records[k].version >= seen[c].rec.version
      BY <1>3, <1>5, <2>2, <2>4, <3>2, <3>3
    <3> QED
      BY <1>5, <2>2, <3>2, <3>3, <3>4
  <2> QED
    BY <2>5, <2>6
<1> QED
  BY <1>2, <1>3, <1>4, <1>5

\* How a step changes a sweep: not at all, by beginning or ending it, by
\* visiting a key, or by removing one.
LEMMA SweepMoves ==
  ASSUME Shapes, [Next]_vars, NEW c \in Clients
  PROVE  \/ sweep'[c] = sweep[c]
         \/ sweep'[c].found = {} /\ sweep'[c].todo = Keys
         \/ sweep'[c] = NoSweep
         \/ \E k \in Keys :
               /\ records' = records /\ k \in sweep[c].todo
               /\ sweep'[c].kind = sweep[c].kind /\ sweep'[c].since = sweep[c].since
               /\ sweep'[c].todo = sweep[c].todo \ {k}
               /\ sweep'[c].found = IF Collects(sweep[c], records[k])
                                    THEN sweep[c].found \cup {k} ELSE sweep[c].found
         \/ \E k \in Keys :
               /\ records'[k] = Vacant /\ sweep[c].todo = {} /\ sweep'[c].todo = {}
               /\ sweep'[c].kind = sweep[c].kind /\ sweep'[c].since = sweep[c].since
               /\ sweep'[c].found = sweep[c].found \ {k}
<1> DEFINE Visited(k) ==
               /\ records' = records /\ k \in sweep[c].todo
               /\ sweep'[c].kind = sweep[c].kind /\ sweep'[c].since = sweep[c].since
               /\ sweep'[c].todo = sweep[c].todo \ {k}
               /\ sweep'[c].found = IF Collects(sweep[c], records[k])
                                    THEN sweep[c].found \cup {k} ELSE sweep[c].found
<1> DEFINE Removed(k) ==
               /\ records'[k] = Vacant /\ sweep[c].todo = {} /\ sweep'[c].todo = {}
               /\ sweep'[c].kind = sweep[c].kind /\ sweep'[c].since = sweep[c].since
               /\ sweep'[c].found = sweep[c].found \ {k}
<1>1. ASSUME NEW k \in Keys, Visit(c, k) PROVE Visited(k)
  <2>1. PICK f : f = IF Collects(sweep[c], records[k]) THEN sweep[c].found \cup {k} ELSE sweep[c].found
    OBVIOUS
  <2>2. sweep' = [sweep EXCEPT ![c].todo = @ \ {k}, ![c].found = f]
    BY <1>1, <2>1 DEF Visit
  <2>3. sweep[c] \in [kind : {"compact"} \cup (Owners \ {"none"}), since : 0..now,
                      todo : SUBSET Keys, found : SUBSET Keys]
    BY <1>1 DEF Visit, NoSweep, Shapes
  <2>4. /\ sweep'[c].kind = sweep[c].kind /\ sweep'[c].since = sweep[c].since
        /\ sweep'[c].todo = sweep[c].todo \ {k} /\ sweep'[c].found = f
    BY <2>2, <2>3 DEF Shapes
  <2> QED
    BY <1>1, <2>1, <2>4 DEF Visit
<1>2. ASSUME NEW k \in Keys, Remove(c, k) PROVE Removed(k)
  <2>1. sweep[c] \in [kind : {"compact"} \cup (Owners \ {"none"}), since : 0..now,
                      todo : SUBSET Keys, found : SUBSET Keys]
    BY <1>2 DEF Remove, NoSweep, Shapes
  <2>2. /\ sweep'[c].kind = sweep[c].kind /\ sweep'[c].since = sweep[c].since
        /\ sweep'[c].todo = sweep[c].todo /\ sweep'[c].found = sweep[c].found \ {k}
    BY <1>2, <2>1 DEF Remove, Shapes
  <2>3. records'[k] = Vacant /\ sweep[c].todo = {}
    BY <1>2 DEF Remove, Shapes
  <2> QED
    BY <2>2, <2>3
<1>3. ASSUME NEW kind, BeginSweep(c, kind)
      PROVE  sweep'[c].found = {} /\ sweep'[c].todo = Keys
  BY <1>3 DEF BeginSweep, Shapes
<1>4. EndSweep(c) => sweep'[c] = NoSweep
  BY DEF EndSweep, Shapes
<1>5. ASSUME NEW d \in Clients, d # c, Client(d) PROVE sweep'[c] = sweep[c]
  <2>1. sweep' = sweep \/ \E s : sweep' = [sweep EXCEPT ![d] = s]
    <3>1. ASSUME NEW k \in Keys, Visit(d, k) PROVE \E s : sweep' = [sweep EXCEPT ![d] = s]
      BY <3>1 DEF Visit, Shapes
    <3>2. ASSUME NEW k \in Keys, Remove(d, k) PROVE \E s : sweep' = [sweep EXCEPT ![d] = s]
      BY <3>2 DEF Remove, Shapes
    <3>3. ASSUME NEW kind, BeginSweep(d, kind) PROVE \E s : sweep' = [sweep EXCEPT ![d] = s]
      BY <3>3 DEF BeginSweep
    <3>4. EndSweep(d) => \E s : sweep' = [sweep EXCEPT ![d] = s]
      BY DEF EndSweep
    <3> QED
      BY <1>5, <3>1, <3>2, <3>3, <3>4 DEF Client, get, delete, put, compare_and_swap, Swap, note
  <2> QED
    BY <1>5, <2>1 DEF Shapes
<1>6. CASE Client(c)
  <2>1. CASE \E k \in Keys : Visit(c, k)
    BY <1>1, <2>1
  <2>2. CASE \E k \in Keys : Remove(c, k)
    BY <1>2, <2>2
  <2>3. CASE \E kind \in {"compact"} \cup (Owners \ {"none"}) : BeginSweep(c, kind)
    BY <1>3, <2>3
  <2>4. CASE EndSweep(c)
    BY <1>4, <2>4
  <2>5. CASE sweep' = sweep
    BY <2>5
  <2> QED
    BY <1>6, <2>1, <2>2, <2>3, <2>4, <2>5 DEF Client, get, delete, put, compare_and_swap, Swap, note
<1>7. CASE Tick \/ UNCHANGED vars
  BY <1>7 DEF Tick, vars
<1> QED
  BY <1>5, <1>6, <1>7 DEF Next
\* A record that had expired stays so, is removed, or is written after the
\* time in question; one that belongs to no purge stays out of it likewise.
LEMMA RecordsAge ==
  ASSUME Shapes, [Next]_vars, NEW k \in Keys, NEW since \in 0..now
  PROVE  \/ records'[k] = records[k]
         \/ records'[k] = Vacant /\ ~Visible(records'[k], since)
         \/ records'[k].updated >= since
<1>1. Evolves(k)
  BY StepEvolves
<1>2. now \in Nat /\ now >= since
  BY SharedMemoryAssumption DEF Shapes
<1>3. ~Visible(Vacant, since)
  BY DEF Visible, Vacant
<1> QED
  BY <1>1, <1>2, <1>3 DEF Evolves

\* What a compaction collected was not alive when it began.
LEMMA FoundStep ==
  ASSUME MemoryInv, [Next]_vars
  PROVE  FoundStale'
<1>1. Shapes
  BY DEF MemoryInv
<1>2. SUFFICES ASSUME NEW c \in Clients, NEW k \in sweep'[c].found, sweep'[c].kind = "compact"
               PROVE  \/ ~Visible(records'[k], sweep'[c].since)
                      \/ records'[k].updated >= sweep'[c].since
  BY DEF FoundStale
<1>3. sweep[c] # NoSweep => sweep[c].since \in 0..now /\ sweep[c].found \subseteq Keys
                                                      /\ sweep[c].todo \subseteq Keys
  BY <1>1 DEF Shapes
<1>4. ASSUME k \in sweep[c].found, sweep'[c].kind = sweep[c].kind, sweep'[c].since = sweep[c].since
      PROVE  \/ ~Visible(records'[k], sweep'[c].since)
             \/ records'[k].updated >= sweep'[c].since
  <2>1. \/ ~Visible(records[k], sweep[c].since) \/ records[k].updated >= sweep[c].since
    BY <1>2, <1>4 DEF MemoryInv, FoundStale
  <2>2. sweep[c] # NoSweep
    BY <1>4 DEF NoSweep
  <2>3. k \in Keys /\ sweep[c].since \in 0..now
    BY <1>3, <1>4, <2>2
  <2> QED
    BY <1>1, <1>4, <2>1, <2>3, RecordsAge
<1>5. CASE sweep'[c] = sweep[c]
  BY <1>2, <1>4, <1>5
<1>6. CASE sweep'[c].found = {} \/ sweep'[c] = NoSweep
  BY <1>2, <1>6 DEF NoSweep
<1>7. ASSUME NEW i \in Keys, records' = records,
             sweep'[c].kind = sweep[c].kind, sweep'[c].since = sweep[c].since,
             sweep'[c].found = IF Collects(sweep[c], records[i])
                               THEN sweep[c].found \cup {i} ELSE sweep[c].found
      PROVE  \/ ~Visible(records'[k], sweep'[c].since)
             \/ records'[k].updated >= sweep'[c].since
  <2>1. CASE k \in sweep[c].found
    BY <1>4, <1>7, <2>1
  <2>2. CASE k \notin sweep[c].found
    <3>1. Collects(sweep[c], records[k])
      BY <1>2, <1>7, <2>2
    <3> QED
      BY <1>2, <1>7, <3>1 DEF Collects, Visible
  <2> QED
    BY <2>1, <2>2
<1>8. ASSUME NEW i \in Keys, sweep'[c].kind = sweep[c].kind, sweep'[c].since = sweep[c].since,
             sweep'[c].found = sweep[c].found \ {i}
      PROVE  \/ ~Visible(records'[k], sweep'[c].since)
             \/ records'[k].updated >= sweep'[c].since
  BY <1>2, <1>4, <1>8
<1> QED
  BY <1>1, <1>5, <1>6, <1>7, <1>8, SweepMoves

\* Where a purge has been, nothing old of the job is left.
LEMMA PurgedStep ==
  ASSUME MemoryInv, [Next]_vars
  PROVE  PurgedGone'
<1>1. Shapes
  BY DEF MemoryInv
<1> DEFINE Clean(k, s) == records[k] = Vacant \/ records[k].job # s.kind \/ records[k].updated >= s.since
<1>2. SUFFICES ASSUME NEW c \in Clients, NEW k \in Keys \ (sweep'[c].todo \cup sweep'[c].found),
                      sweep'[c].kind \notin {"none", "compact"}
               PROVE  Clean(k, sweep[c])'
  BY DEF PurgedGone
<1>3. sweep[c].kind # "none" => sweep[c].since \in 0..now
  BY <1>1 DEF Shapes, NoSweep
<1>4. ASSUME k \notin sweep[c].todo \cup sweep[c].found,
             sweep'[c].kind = sweep[c].kind, sweep'[c].since = sweep[c].since
      PROVE  Clean(k, sweep[c])'
  <2>1. Clean(k, sweep[c])
    BY <1>2, <1>4 DEF MemoryInv, PurgedGone
  <2>2. sweep[c].since \in 0..now
    BY <1>2, <1>3, <1>4
  <2>3. \/ records'[k] = records[k] \/ records'[k] = Vacant
        \/ records'[k].updated >= sweep[c].since
    BY <1>1, <2>2, RecordsAge
  <2> QED
    BY <1>4, <2>1, <2>3
<1>5. CASE sweep'[c] = sweep[c]
  BY <1>2, <1>4, <1>5
<1>6. CASE sweep'[c].todo = Keys \/ sweep'[c] = NoSweep
  BY <1>2, <1>6 DEF NoSweep
<1>7. ASSUME NEW i \in Keys, records' = records, i \in sweep[c].todo,
             sweep'[c].kind = sweep[c].kind, sweep'[c].since = sweep[c].since,
             sweep'[c].todo = sweep[c].todo \ {i},
             sweep'[c].found = IF Collects(sweep[c], records[i])
                               THEN sweep[c].found \cup {i} ELSE sweep[c].found
      PROVE  Clean(k, sweep[c])'
  <2>1. CASE k = i
    <3>1. ~Collects(sweep[c], records[k])
      BY <1>2, <1>7, <2>1
    <3> QED
      BY <1>2, <1>7, <3>1 DEF Collects
  <2>2. CASE k # i
    <3>1. k \notin sweep[c].todo \cup sweep[c].found
      BY <1>2, <1>7, <2>2
    <3> QED
      BY <1>4, <1>7, <3>1
  <2> QED
    BY <2>1, <2>2
<1>8. ASSUME NEW i \in Keys, records'[i] = Vacant, sweep[c].todo = {},
             sweep'[c].kind = sweep[c].kind, sweep'[c].since = sweep[c].since,
             sweep'[c].found = sweep[c].found \ {i}
      PROVE  Clean(k, sweep[c])'
  BY <1>2, <1>4, <1>8
<1> QED
  BY <1>1, <1>5, <1>6, <1>7, <1>8, SweepMoves

\* The invariant holds from the first state on.
LEMMA MemoryInvariant == Spec => []MemoryInv
<1>1. Init => MemoryInv
  <2> SUFFICES ASSUME Init PROVE MemoryInv
    OBVIOUS
  <2>1. Shapes
    BY SharedMemoryAssumption DEF Init, Shapes
  <2>2. AuditComplete
    BY DEF Init, AuditComplete, Vacant, VERSION_ABSENT
  <2>3. SeenIsPast /\ FoundStale /\ PurgedGone
    BY DEF Init, SeenIsPast, FoundStale, PurgedGone, Unread, NoSweep
  <2> QED
    BY <2>1, <2>2, <2>3 DEF MemoryInv
<1>2. MemoryInv /\ [Next]_vars => MemoryInv'
  BY StepEvolves, AuditStep, SeenStep, FoundStep, PurgedStep DEF MemoryInv
<1> QED
  BY <1>1, <1>2, PTL DEF Spec

-----------------------------------------------------------------------------
\* Records, clocks, sweeps and pending audit entries keep the shape the
\* store gives them, whatever its clients do.
THEOREM MemoryTypes == Spec => []TypeOK
<1>1. MemoryInv => TypeOK
  <2> SUFFICES ASSUME MemoryInv PROVE TypeOK
    OBVIOUS
  <2>1. Shapes
    BY DEF MemoryInv
  <2>2. \A k \in Keys : Record(records[k])
    <3> SUFFICES ASSUME NEW k \in Keys PROVE Record(records[k])
      OBVIOUS
    <3>1. now \in 0..MaxTime /\ writes \in Nat /\ MaxTime \in Nat
      BY <2>1, SharedMemoryAssumption DEF Shapes
    <3>2. CASE records[k] = Vacant
      BY <3>1, <3>2, SharedMemoryAssumption DEF Record, Vacant, VERSION_ABSENT, Never
    <3>3. CASE records[k] \in LiveRecord(writes, now)
      BY <3>1, <3>3 DEF Record, LiveRecord, Never
    <3> QED
      BY <2>1, <3>2, <3>3 DEF Shapes
  <2>3. \A c \in Clients : /\ sweep[c].todo \cup sweep[c].found \subseteq Keys
                           /\ sweep[c].kind \in {"none", "compact"} \cup Owners
                           /\ noting[c] # Quiet => noting[c].key \in Keys
    BY <2>1 DEF Shapes, NoSweep
  <2> QED
    BY <2>1, <2>2, <2>3 DEF TypeOK, Shapes
<1> QED
  BY <1>1, MemoryInvariant, PTL

\* Every version a stored record has gone through is in the trail of its key
\* or about to be pushed there (InMemoryStore::note).
THEOREM TrailComplete == Spec => []AuditComplete
<1>1. MemoryInv => AuditComplete
  BY DEF MemoryInv
<1> QED
  BY <1>1, MemoryInvariant, PTL

\* A swap that wins over the lineage its client read replaces exactly the
\* record it read (compare_and_swap).
THEOREM SwapsLoseNothing == Spec => NoLostUpdate
<1> DEFINE Kept ==
      \A c \in Clients : \A k \in Keys :
          (/\ Idle(c) /\ seen[c].key = k /\ seen[c].rec # Vacant
           /\ \E o \in Owners, ttl \in Ttls : compare_and_swap(c, o, ttl)
           /\ records[k].id = seen[c].rec.id)
          => records[k] = seen[c].rec
<1>1. MemoryInv /\ [Next]_vars => [Kept]_vars
  <2> SUFFICES ASSUME MemoryInv, NEW c \in Clients, NEW k \in Keys, NEW o \in Owners, NEW ttl \in Ttls,
                      seen[c].key = k, seen[c].rec # Vacant, compare_and_swap(c, o, ttl),
                      records[k].id = seen[c].rec.id
               PROVE  records[k] = seen[c].rec
    OBVIOUS
  <2>1. Shapes
    BY DEF MemoryInv
  <2>2. seen[c].rec.version \in Nat \ {0}
    BY <2>1 DEF Shapes, Unread, LiveRecord
  <2>3. CurrentVersion(records[k], now) = seen[c].rec.version
    BY DEF compare_and_swap, Swap
  <2>4. records[k].version = seen[c].rec.version
    BY <2>2, <2>3 DEF CurrentVersion, VERSION_ABSENT
  <2>5. records[k] = seen[c].rec \/ records[k].version > seen[c].rec.version
    BY DEF MemoryInv, SeenIsPast
  <2> QED
    BY <2>2, <2>4, <2>5
<1> QED
  BY <1>1, MemoryInvariant, PTL DEF Spec, NoLostUpdate

\* A record that could be read when a compaction removed it was written
\* after the compaction began (compact).
THEOREM CompactionSafe == Spec => CompactSparesOld
<1> DEFINE Spared ==
      \A c \in Clients : \A k \in Keys :
          (sweep[c].kind = "compact" /\ Remove(c, k) /\ Visible(records[k], now))
          => records[k].updated >= sweep[c].since
<1>1. MemoryInv /\ [Next]_vars => [Spared]_vars
  <2> SUFFICES ASSUME MemoryInv, NEW c \in Clients, NEW k \in Keys, sweep[c].kind = "compact",
                      Remove(c, k), Visible(records[k], now)
               PROVE  records[k].updated >= sweep[c].since
    OBVIOUS
  <2>1. Shapes
    BY DEF MemoryInv
  <2>2. sweep[c].since \in 0..now /\ now \in Nat
    BY <2>1, SharedMemoryAssumption DEF Shapes, NoSweep
  <2>3. ~Visible(records[k], sweep[c].since) \/ records[k].updated >= sweep[c].since
    BY DEF MemoryInv, FoundStale, Remove
  <2>4. records[k] # Vacant => records[k].expires \in Nat \cup {-1}
    BY <2>1 DEF Shapes, LiveRecord, Never
  <2>5. records[k] # Vacant
    BY DEF Visible, Vacant
  <2>6. Visible(records[k], sweep[c].since)
    BY <2>2, <2>4, <2>5 DEF Visible, is_expired, Never
  <2> QED
    BY <2>3, <2>6
<1> QED
  BY <1>1, MemoryInvariant, PTL DEF Spec, CompactSparesOld

\* A purge that ends has left nothing of the job that was there before
\* (purge_job).
THEOREM PurgeSafe == Spec => PurgeComplete
<1> DEFINE Purged ==
      \A c \in Clients :
          (sweep[c].kind \notin {"none", "compact"} /\ EndSweep(c))
          => \A k \in Keys : records[k] # Vacant /\ records[k].job = sweep[c].kind
                             => records[k].updated >= sweep[c].since
<1>1. MemoryInv /\ [Next]_vars => [Purged]_vars
  BY DEF MemoryInv, PurgedGone, EndSweep
<1> QED
  BY <1>1, MemoryInvariant, PTL DEF Spec, PurgeComplete

\* Neither kind of sweep is misled by the writes it races with.
THEOREM SweepsSafe == Spec => SweepsHonest
  BY CompactionSafe, PurgeSafe DEF SweepsHonest
=============================================================================
