-------------------------- MODULE TaskQueueProofs --------------------------
(***************************************************************************)
(* The queue's safety for every set of keys, lease identities and offers,  *)
(* every retry policy, and every clock lag; and that the queue implements  *)
(* the delivery contract.                                                  *)
(***************************************************************************)
EXTENDS TaskQueueRefinement, TLAPS

\* A backoff is a natural number of clock units, at most backoff_max_ms.
LEMMA BackoffBounds ==
    ASSUME NEW a \in Nat, NEW n \in Nat
    PROVE  BackoffMs(a, n) \in 0..BackoffMax
<1> DEFINE raw == BackoffBase * 2^Shift(a)
<1>1. Shift(a) \in 0..20
  BY DEF Shift
<1>2. 2^Shift(a) \in Nat \ {0}
  BY <1>1, PowersOfTwo, Zenon
<1>3. raw \in Nat
  BY <1>2, RetryPolicyAssumption
<1>4. Capped(a) \in Nat /\ Capped(a) <= BackoffMax
  BY <1>3, RetryPolicyAssumption DEF Capped
<1> DEFINE c == Capped(a)
           h == c \div 2
<1>5. h \in Nat /\ h <= c
  BY <1>4
<1>6. n % (c - h + 1) \in 0..(c - h)
  BY <1>4, <1>5
<1>7. QED
  BY <1>4, <1>5, <1>6, RetryPolicyAssumption DEF BackoffMs

\* What the updates of an entry change and what they leave alone.
LEMMA EntryUpdates ==
    ASSUME NEW e \in Entry
    PROVE  /\ Charged(e) \in Entry
           /\ Charged(e).key = e.key
           /\ Charged(e).attempt = e.attempt + 1
           /\ Charged(e).first = e.first
           /\ Refunded(e) \in Entry
           /\ Refunded(e).key = e.key
           /\ e.attempt > 0 => Refunded(e).attempt = e.attempt - 1
           /\ Refunded(e).first = e.first
           /\ Readmitted(e) \in Entry
           /\ Readmitted(e).key = e.key
           /\ Readmitted(e).attempt = e.attempt
           /\ Readmitted(e).first = e.attempt
           /\ \A d \in Int : /\ AvailableIn(e, d) \in Entry
                             /\ AvailableIn(e, d).key = e.key
                             /\ AvailableIn(e, d).attempt = e.attempt
                             /\ AvailableIn(e, d).first = e.first
BY DEF Entry, Charged, Refunded, Readmitted, AvailableIn

\* Ageing leaves everything but the times alone.
LEMMA AgedEntry ==
    ASSUME NEW e \in Entry
    PROVE  /\ Aged(e) \in Entry
           /\ Aged(e).key = e.key
           /\ Aged(e).attempt = e.attempt
           /\ Aged(e).first = e.first
<1> DEFINE f == [e EXCEPT !.waited = IF @ < WaitedCap THEN @ + 1 ELSE @]
<1>1. /\ f \in Entry
      /\ f.key = e.key
      /\ f.attempt = e.attempt
      /\ f.first = e.first
  BY TaskQueueAssumption DEF Entry
<1>2. Older(e.delay) \in Int
  BY TaskQueueAssumption DEF Older, Entry
<1>3. Aged(e) = AvailableIn(f, Older(e.delay))
  BY DEF Aged
<1> HIDE DEF f
<1>4. QED
  BY <1>1, <1>2, <1>3, EntryUpdates

LEMMA AgedLeaseTyped ==
    ASSUME NEW l \in Lease
    PROVE  AgedLease(l) \in Lease
<1>1. Older(l.left) \in Int
  BY TaskQueueAssumption DEF Older, Lease
<1>2. QED
  BY <1>1, AgedEntry DEF AgedLease, Lease

\* An entry that leaves its lease after a failure keeps its key and its count.
LEMMA BackoffEntry ==
    ASSUME NEW e \in Entry, NEW n \in Nonces, NEW g \in 0..Lag
    PROVE  /\ Backoff(e, n, g) \in Entry
           /\ Backoff(e, n, g).key = e.key
           /\ Backoff(e, n, g).attempt = e.attempt
           /\ Backoff(e, n, g).first = e.first
<1>1. e.attempt \in Nat /\ n \in Nat
  BY RetryPolicyAssumption DEF Entry, Nonces
<1>2. BackoffMs(e.attempt, n) \in 0..BackoffMax
  BY <1>1, BackoffBounds, Zenon
<1> DEFINE d == BackoffMs(e.attempt, n) - g
<1>3. d \in Int
  BY <1>2, RetryPolicyAssumption, TaskQueueAssumption
<1>4. Backoff(e, n, g) = AvailableIn(e, d)
  BY DEF Backoff
<1> HIDE DEF d
<1>5. QED
  BY <1>3, <1>4, EntryUpdates

LEMMA RetriedTyped ==
    ASSUME NEW E \in SUBSET Entry, NEW n \in Nonces, NEW g \in 0..Lag
    PROVE  Retried(E, n, g) \subseteq Entry /\ Parked(E) \subseteq Entry
BY BackoffEntry DEF Retried, Parked

\* Every record keeps its shape, and every lease in the table stays active.
THEOREM TypeCorrect == Spec => []TypeOK
<1>1. Init => TypeOK
  BY DEF Init, TypeOK
<1>2. TypeOK /\ [Next]_vars => TypeOK'
  <2> SUFFICES ASSUME TypeOK, [Next]_vars PROVE TypeOK'
    OBVIOUS
  <2> USE TaskQueueAssumption DEF TypeOK
  <2>1. ASSUME NEW k \in Keys, NEW a \in StartAttempts, NEW d \in StartDelays,
               Enqueue(k, a, d)
        PROVE  TypeOK'
    BY <2>1 DEF Enqueue, Entry
  <2>2. ASSUME NEW id \in LeaseIds, NEW g \in 0..Lag, NEW offer \in Offers,
               Dequeue(id, g, offer)
        PROVE  TypeOK'
    <3> PICK e \in ready :
               /\ ready' = ready \ {e}
               /\ leases' = leases \cup
                    {[id    |-> id,
                      entry |-> Charged(e),
                      left  |-> LeaseDuration - g,
                      state |-> "Held"]}
               /\ held' = held \cup {[id |-> id, key |-> e.key]}
               /\ UNCHANGED <<seen, dead, done, purged>>
      BY <2>2, Zenon DEF Dequeue, Pick
    <3>1. e \in Entry /\ e.key \in Keys /\ Charged(e) \in Entry
      BY EntryUpdates, Zenon DEF Entry
    <3>2. LeaseDuration - g \in Int
      OBVIOUS
    <3>3. QED
      BY <3>1, <3>2 DEF Lease, Handle, LeaseStates
  <2>3. ASSUME NEW hd \in held, NEW g \in 0..Lag, NEW n \in Nonces,
               Acknowledge(hd, g, n)
        PROVE  TypeOK'
    <3> PICK l \in leases : /\ leases' = leases \ {l}
                            /\ \/ RetryOrPark({l.entry}, n, g) /\ UNCHANGED done
                               \/ /\ done' = IF "Released" \in LeaseAllowed(l.state)
                                             THEN [done EXCEPT ![hd.key] = @ + 1]
                                             ELSE done
                                  /\ UNCHANGED <<ready, dead>>
                            /\ UNCHANGED <<seen, held, purged>>
      BY <2>3, Zenon DEF Acknowledge, TakeLease
    <3>1. {l.entry} \in SUBSET Entry
      BY DEF Lease
    <3>2. ready' \subseteq Entry /\ dead' \subseteq Entry
      BY <3>1, RetriedTyped, Zenon DEF RetryOrPark
    <3>3. done' \in [Keys -> Nat]
      BY DEF Handle, RetryOrPark
    <3>4. QED
      BY <3>2, <3>3
  <2>4. ASSUME NEW hd \in held, NEW g \in 0..Lag, NEW n \in Nonces,
               Reject(hd, g, n)
        PROVE  TypeOK'
    <3> PICK l \in leases : /\ leases' = leases \ {l}
                            /\ IF "Rejected" \in LeaseAllowed(l.state)
                               THEN RetryOrPark({l.entry}, n, g)
                               ELSE UNCHANGED <<ready, dead>>
                            /\ UNCHANGED <<seen, held, done, purged>>
      BY <2>4, Zenon DEF Reject, TakeLease
    <3>1. {l.entry} \in SUBSET Entry
      BY DEF Lease
    <3>2. ready' \subseteq Entry /\ dead' \subseteq Entry
      BY <3>1, RetriedTyped, Zenon DEF RetryOrPark
    <3>3. QED
      BY <3>2
  <2>5. ASSUME NEW hd \in held, NEW g \in 0..Lag, Release(hd, g)
        PROVE  TypeOK'
    <3> PICK l \in leases :
               /\ leases' = leases \ {l}
               /\ ready' = ready \cup {AvailableIn(Refunded(l.entry), -g)}
               /\ UNCHANGED <<seen, dead, held, done, purged>>
      BY <2>5 DEF Release, TakeLease
    <3>1. l.entry \in Entry /\ -g \in Int
      BY DEF Lease
    <3>2. QED
      BY <3>1, EntryUpdates
  <2>6. ASSUME NEW hd \in held, NEW d \in Extensions, NEW g \in 0..Lag,
               ExtendLease(hd, d, g)
        PROVE  TypeOK'
    BY <2>6 DEF ExtendLease, TakeLease, Lease, LeaseStates
  <2>7. ASSUME NEW g \in 0..Lag, NEW n \in Nonces, RequeueExpired(g, n)
        PROVE  TypeOK'
    <3> DEFINE E == {l.entry : l \in {m \in leases : IsExpired(m, g)}}
    <3>1. E \in SUBSET Entry
      BY DEF Lease
    <3>2. ready' \subseteq Entry /\ dead' \subseteq Entry
      BY <2>7, <3>1, RetriedTyped, Zenon DEF RequeueExpired, RetryOrPark
    <3>3. QED
      BY <2>7, <3>2 DEF RequeueExpired
  <2>8. ASSUME NEW k \in Keys, NEW g \in 0..Lag, ReplayDeadLetter(TaskOf[k], g)
        PROVE  TypeOK'
    <3> PICK e \in dead :
               /\ dead' = dead \ {e}
               /\ ready' = ready \cup {AvailableIn(Readmitted(e), -g)}
               /\ UNCHANGED <<leases, seen, held, done, purged>>
      BY <2>8 DEF ReplayDeadLetter
    <3>1. QED
      BY EntryUpdates
  <2>9. ASSUME NEW k \in Keys, PurgeJob(JobOf[k])
        PROVE  TypeOK'
    BY <2>9, Zenon DEF PurgeJob, Lease, Entry
  <2>10. ASSUME NEW hd \in held, Forget(hd)
         PROVE  TypeOK'
    BY <2>10 DEF Forget
  <2>11. CASE Tick
    <3>1. ready' \subseteq Entry /\ dead' \subseteq Entry
      BY <2>11, AgedEntry DEF Tick
    <3>2. leases' \subseteq Lease
      BY <2>11, AgedLeaseTyped DEF Tick
    <3>3. \A l \in leases' : l.state \in {"Held", "Extended"}
      BY <2>11 DEF Tick, AgedLease
    <3>4. QED
      BY <2>11, <3>1, <3>2, <3>3 DEF Tick
  <2>12. CASE UNCHANGED vars
    BY <2>12 DEF vars
  <2>13. QED
    BY <2>1, <2>2, <2>3, <2>4, <2>5, <2>6, <2>7, <2>8, <2>9, <2>10, <2>11,
       <2>12 DEF Next
<1>3. QED
  BY <1>1, <1>2, PTL DEF Spec
-----------------------------------------------------------------------------
\* The keys of a table when a record is added to it or taken from it.
LEMMA KeyAdded ==
    ASSUME NEW S, NEW r
    PROVE  /\ {e.key : e \in S \cup {r}} = {e.key : e \in S} \cup {r.key}
           /\ {l.entry.key : l \in S \cup {r}} =
                {l.entry.key : l \in S} \cup {r.entry.key}
OBVIOUS

LEMMA KeyRemoved ==
    ASSUME NEW S, NEW r \in S
    PROVE  /\ (\A e, f \in S : e.key = f.key => e = f)
                => {e.key : e \in S \ {r}} = {e.key : e \in S} \ {r.key}
           /\ (\A l, m \in S : l.entry.key = m.entry.key => l = m)
                => {l.entry.key : l \in S \ {r}} =
                     {l.entry.key : l \in S} \ {r.entry.key}
OBVIOUS

LEMMA PlacesEnqueue ==
    ASSUME TypeOK, Places,
           NEW k \in Keys, NEW a \in StartAttempts, NEW d \in StartDelays,
           Enqueue(k, a, d)
    PROVE  Places'
<1>1. /\ ReadyKeys' = ReadyKeys \cup {k}
      /\ LeasedKeys' = LeasedKeys
      /\ DeadKeys' = DeadKeys
      /\ AckedKeys' = AckedKeys
      /\ purged' = purged
      /\ seen' = seen \cup {k}
      /\ k \notin seen
  <2>1. ReadyKeys' = ReadyKeys \cup {k}
    <3> DEFINE r == [key |-> k, attempt |-> a, first |-> a, delay |-> d, waited |-> 0]
    <3>1. r.key = k
      OBVIOUS
    <3>2. ready' = ready \cup {r}
      BY DEF Enqueue
    <3> HIDE DEF r
    <3>3. QED
      BY <3>1, <3>2, KeyAdded DEF ReadyKeys
  <2>2. LeasedKeys' = LeasedKeys
    BY DEF Enqueue, LeasedKeys
  <2>3. AckedKeys' = AckedKeys
    BY DEF Enqueue, AckedKeys
  <2>4. DeadKeys' = DeadKeys
    BY DEF Enqueue, DeadKeys
  <2>5. QED
    BY <2>1, <2>2, <2>3, <2>4 DEF Enqueue
<1>2. k \notin ReadyKeys \cup LeasedKeys \cup DeadKeys \cup AckedKeys \cup purged
  BY <1>1 DEF Places, NothingLost
<1>3. UniqueRecords'
  BY <1>2 DEF Places, OnePlace, UniqueRecords, Enqueue, ReadyKeys
<1>4. DisjointPlaces'
  BY <1>1, <1>2 DEF Places, OnePlace, DisjointPlaces
<1>5. QED
  BY <1>1, <1>3, <1>4, Zenon
     DEF Places, OnePlace, NothingLost, AckedOnce, HandlesAgree, Enqueue

LEMMA PlacesDequeue ==
    ASSUME TypeOK, Places,
           NEW id \in LeaseIds, NEW g \in 0..Lag, NEW offer \in Offers,
           Dequeue(id, g, offer)
    PROVE  Places'
<1> DEFINE grant(e) == [id |-> id, entry |-> Charged(e),
                        left |-> LeaseDuration - g, state |-> "Held"]
<1> PICK e \in ready :
           /\ id \notin {l.id : l \in leases} \cup {h.id : h \in held}
           /\ ready' = ready \ {e}
           /\ leases' = leases \cup {grant(e)}
           /\ held' = held \cup {[id |-> id, key |-> e.key]}
           /\ UNCHANGED <<seen, dead, done, purged>>
  BY DEF Dequeue, Pick
<1> DEFINE r == grant(e)
<1>1. r.id = id /\ r.entry.key = e.key
  BY EntryUpdates, Zenon DEF TypeOK
<1>2. leases' = leases \cup {r}
  OBVIOUS
<1> HIDE DEF grant, r
<1>3. /\ ReadyKeys' = ReadyKeys \ {e.key}
      /\ e.key \in ReadyKeys
  BY KeyRemoved, Zenon DEF ReadyKeys, Places, OnePlace, UniqueRecords
<1>4. LeasedKeys' = LeasedKeys \cup {e.key}
  BY <1>1, <1>2, KeyAdded DEF LeasedKeys
<1>5. DeadKeys' = DeadKeys /\ AckedKeys' = AckedKeys
  BY DEF DeadKeys, AckedKeys
<1>6. UniqueRecords'
  <2>1. e.key \notin LeasedKeys
    BY <1>3 DEF Places, OnePlace, DisjointPlaces
  <2>2. QED
    BY <1>1, <1>2, <2>1 DEF Places, OnePlace, UniqueRecords, LeasedKeys
<1>7. DisjointPlaces'
  BY <1>3, <1>4, <1>5 DEF Places, OnePlace, DisjointPlaces
<1>8. HandlesAgree'
  BY <1>1, <1>2 DEF Places, HandlesAgree
<1>9. QED
  BY <1>3, <1>4, <1>5, <1>6, <1>7, <1>8 DEF Places, OnePlace, NothingLost, AckedOnce

\* Leases that fail together: their entries are retried or parked, never both.
LEMMA PlacesFail ==
    ASSUME TypeOK, Places,
           NEW L \in SUBSET leases, NEW n \in Nonces, NEW g \in 0..Lag,
           leases' = leases \ L,
           RetryOrPark({l.entry : l \in L}, n, g),
           UNCHANGED <<seen, held, done, purged>>
    PROVE  Places'
<1> DEFINE E == {l.entry : l \in L}
           K == {e.key : e \in E}
           back == Retried(E, n, g)
           out == Parked(E)
           RK == {e.key : e \in back}
           PK == {e.key : e \in out}
<1>1. E \subseteq Entry
  BY DEF TypeOK, Lease
<1>2. \A e, f \in E : e.key = f.key => e = f
  BY DEF Places, OnePlace, UniqueRecords
<1>3. \A e \in E : Backoff(e, n, g).key = e.key
  BY <1>1, BackoffEntry
<1>4. RK = {e.key : e \in {x \in E : AllowsRetry(x.attempt)}}
  BY <1>3 DEF Retried
<1>5. /\ RK \cup PK = K
      /\ RK \cap PK = {}
  BY <1>2, <1>4, Zenon DEF Parked
<1>6. \A e, f \in back : e.key = f.key => e = f
  BY <1>2, <1>3 DEF Retried
<1>7. \A e, f \in out : e.key = f.key => e = f
  BY <1>2 DEF Parked
<1>8. K \subseteq LeasedKeys
  BY DEF LeasedKeys
<1>9. ready' = ready \cup back /\ dead' = dead \cup out
  BY DEF RetryOrPark
<1>10. LeasedKeys' = LeasedKeys \ K
  BY DEF LeasedKeys, Places, OnePlace, UniqueRecords
<1> HIDE DEF K, back, out
<1>11. ReadyKeys' = ReadyKeys \cup RK
  BY <1>9 DEF ReadyKeys
<1>12. DeadKeys' = DeadKeys \cup PK
  BY <1>9 DEF DeadKeys
<1>13. AckedKeys' = AckedKeys
  BY DEF AckedKeys
<1>14. RK \subseteq LeasedKeys /\ PK \subseteq LeasedKeys
  BY <1>5, <1>8
<1>15. UniqueRecords'
  <2>1. \A e \in ready, f \in back : e.key # f.key
    BY <1>14 DEF Places, OnePlace, DisjointPlaces, ReadyKeys
  <2>2. \A e \in dead, f \in out : e.key # f.key
    BY <1>14 DEF Places, OnePlace, DisjointPlaces, DeadKeys
  <2>3. \A e, f \in ready' : e.key = f.key => e = f
    BY <1>6, <1>9, <2>1 DEF Places, OnePlace, UniqueRecords
  <2>4. \A e, f \in dead' : e.key = f.key => e = f
    BY <1>7, <1>9, <2>2 DEF Places, OnePlace, UniqueRecords
  <2>5. QED
    BY <2>3, <2>4 DEF Places, OnePlace, UniqueRecords
<1> HIDE DEF RK, PK
<1>16. DisjointPlaces'
  BY <1>5, <1>8, <1>10, <1>11, <1>12, <1>13 DEF Places, OnePlace, DisjointPlaces
<1>17. NothingLost'
  BY <1>5, <1>8, <1>10, <1>11, <1>12, <1>13 DEF Places, NothingLost
<1>18. QED
  BY <1>15, <1>16, <1>17 DEF Places, OnePlace, AckedOnce, HandlesAgree

LEMMA PlacesAcknowledge ==
    ASSUME TypeOK, Places,
           NEW hd \in held, NEW g \in 0..Lag, NEW n \in Nonces,
           Acknowledge(hd, g, n)
    PROVE  Places'
<1> PICK l \in leases :
           /\ l.id = hd.id
           /\ leases' = leases \ {l}
           /\ \/ RetryOrPark({l.entry}, n, g) /\ UNCHANGED done
              \/ /\ done' = IF "Released" \in LeaseAllowed(l.state)
                            THEN [done EXCEPT ![hd.key] = @ + 1]
                            ELSE done
                 /\ UNCHANGED <<ready, dead>>
           /\ UNCHANGED <<seen, held, purged>>
  BY Zenon DEF Acknowledge, TakeLease
<1>1. CASE RetryOrPark({l.entry}, n, g) /\ UNCHANGED done
  <2>1. {m.entry : m \in {l}} = {l.entry}
    OBVIOUS
  <2>2. QED
    BY <1>1, <2>1, PlacesFail, Zenon
<1>2. CASE /\ done' = IF "Released" \in LeaseAllowed(l.state)
                      THEN [done EXCEPT ![hd.key] = @ + 1]
                      ELSE done
           /\ UNCHANGED <<ready, dead>>
  <2> DEFINE k == l.entry.key
  <2>1. k = hd.key /\ k \in Keys /\ k \in LeasedKeys
    BY DEF Places, HandlesAgree, TypeOK, Handle, LeasedKeys
  <2>2. done' = [done EXCEPT ![k] = @ + 1]
    BY <1>2, <2>1, Zenon DEF LeaseAllowed, TypeOK
  <2>3. done[k] = 0
    BY <2>1 DEF Places, OnePlace, DisjointPlaces, AckedKeys, TypeOK
  <2>4. AckedKeys' = AckedKeys \cup {k}
    BY <2>1, <2>2, <2>3 DEF AckedKeys, TypeOK
  <2>5. LeasedKeys' = LeasedKeys \ {k}
    BY KeyRemoved DEF LeasedKeys, Places, OnePlace, UniqueRecords
  <2>6. ReadyKeys' = ReadyKeys /\ DeadKeys' = DeadKeys
    BY <1>2 DEF ReadyKeys, DeadKeys
  <2>7. AckedOnce'
    BY <2>2, <2>3 DEF Places, OnePlace, AckedOnce, TypeOK
  <2>8. UniqueRecords' /\ HandlesAgree'
    BY <1>2 DEF Places, OnePlace, UniqueRecords, HandlesAgree
  <2> HIDE DEF k
  <2>9. DisjointPlaces'
    BY <2>1, <2>4, <2>5, <2>6 DEF Places, OnePlace, DisjointPlaces
  <2>10. NothingLost'
    BY <2>1, <2>4, <2>5, <2>6 DEF Places, NothingLost
  <2>11. QED
    BY <2>7, <2>8, <2>9, <2>10 DEF Places, OnePlace
<1>3. QED
  BY <1>1, <1>2

LEMMA PlacesReject ==
    ASSUME TypeOK, Places,
           NEW hd \in held, NEW g \in 0..Lag, NEW n \in Nonces,
           Reject(hd, g, n)
    PROVE  Places'
<1> PICK l \in leases :
           /\ leases' = leases \ {l}
           /\ IF "Rejected" \in LeaseAllowed(l.state)
              THEN RetryOrPark({l.entry}, n, g)
              ELSE UNCHANGED <<ready, dead>>
           /\ UNCHANGED <<seen, held, done, purged>>
  BY Zenon DEF Reject, TakeLease
<1>1. RetryOrPark({l.entry}, n, g)
  BY DEF LeaseAllowed, TypeOK
<1>2. {m.entry : m \in {l}} = {l.entry}
  OBVIOUS
<1>3. QED
  BY <1>1, <1>2, PlacesFail, Zenon

LEMMA PlacesRequeueExpired ==
    ASSUME TypeOK, Places,
           NEW g \in 0..Lag, NEW n \in Nonces, RequeueExpired(g, n)
    PROVE  Places'
<1> DEFINE L == {l \in leases : IsExpired(l, g)}
<1>1. /\ L \in SUBSET leases
      /\ leases' = leases \ L
      /\ RetryOrPark({l.entry : l \in L}, n, g)
      /\ UNCHANGED <<seen, held, done, purged>>
  BY DEF RequeueExpired
<1> HIDE DEF L
<1>2. QED
  BY <1>1, PlacesFail

LEMMA PlacesRelease ==
    ASSUME TypeOK, Places, NEW hd \in held, NEW g \in 0..Lag, Release(hd, g)
    PROVE  Places'
<1> DEFINE back(l) == AvailableIn(Refunded(l.entry), -g)
<1> PICK l \in leases :
           /\ leases' = leases \ {l}
           /\ ready' = ready \cup {back(l)}
           /\ UNCHANGED <<seen, dead, held, done, purged>>
  BY DEF Release, TakeLease
<1> DEFINE r == back(l)
           k == l.entry.key
<1>1. r.key = k
  <2>1. l.entry \in Entry /\ -g \in Int
    BY TaskQueueAssumption DEF TypeOK, Lease
  <2>2. QED
    BY <2>1, EntryUpdates, Zenon
<1>2. ready' = ready \cup {r}
  OBVIOUS
<1> HIDE DEF back, r
<1>3. /\ LeasedKeys' = LeasedKeys \ {k}
      /\ k \in LeasedKeys
  BY KeyRemoved DEF LeasedKeys, Places, OnePlace, UniqueRecords
<1>4. ReadyKeys' = ReadyKeys \cup {k}
  BY <1>1, <1>2, KeyAdded DEF ReadyKeys
<1>5. DeadKeys' = DeadKeys /\ AckedKeys' = AckedKeys
  BY DEF DeadKeys, AckedKeys
<1>6. UniqueRecords'
  <2>1. k \notin ReadyKeys
    BY <1>3 DEF Places, OnePlace, DisjointPlaces
  <2>2. QED
    BY <1>1, <1>2, <2>1 DEF Places, OnePlace, UniqueRecords, ReadyKeys
<1> HIDE DEF k
<1>7. DisjointPlaces'
  BY <1>3, <1>4, <1>5 DEF Places, OnePlace, DisjointPlaces
<1>8. QED
  BY <1>3, <1>4, <1>5, <1>6, <1>7
     DEF Places, OnePlace, NothingLost, AckedOnce, HandlesAgree

LEMMA PlacesExtendLease ==
    ASSUME TypeOK, Places,
           NEW hd \in held, NEW d \in Extensions, NEW g \in 0..Lag,
           ExtendLease(hd, d, g)
    PROVE  Places'
<1> DEFINE longer(l) ==
             [id |-> l.id, entry |-> l.entry, left |-> d - g, state |-> "Extended"]
<1> PICK l \in leases :
           /\ leases' = (leases \ {l}) \cup {longer(l)}
           /\ UNCHANGED <<ready, seen, dead, held, done, purged>>
  BY DEF ExtendLease, TakeLease
<1> DEFINE r == longer(l)
<1>1. r.id = l.id /\ r.entry.key = l.entry.key
  OBVIOUS
<1>2. leases' = (leases \ {l}) \cup {r}
  OBVIOUS
<1> HIDE DEF longer, r
<1>3. LeasedKeys' = LeasedKeys
  BY <1>1, <1>2 DEF LeasedKeys
<1>4. ReadyKeys' = ReadyKeys /\ DeadKeys' = DeadKeys /\ AckedKeys' = AckedKeys
  BY DEF ReadyKeys, DeadKeys, AckedKeys
<1>5. UniqueRecords' /\ HandlesAgree'
  BY <1>1, <1>2 DEF Places, OnePlace, UniqueRecords, HandlesAgree
<1>6. QED
  BY <1>3, <1>4, <1>5, Zenon DEF Places, OnePlace, DisjointPlaces, NothingLost, AckedOnce

LEMMA PlacesReplay ==
    ASSUME TypeOK, Places, NEW t, NEW g \in 0..Lag, ReplayDeadLetter(t, g)
    PROVE  Places'
<1> DEFINE back(e) == AvailableIn(Readmitted(e), -g)
<1> PICK e \in dead :
           /\ dead' = dead \ {e}
           /\ ready' = ready \cup {back(e)}
           /\ UNCHANGED <<leases, seen, held, done, purged>>
  BY DEF ReplayDeadLetter
<1> DEFINE r == back(e)
<1>1. r.key = e.key
  BY EntryUpdates, TaskQueueAssumption DEF TypeOK
<1>2. ready' = ready \cup {r}
  OBVIOUS
<1> HIDE DEF back, r
<1>3. /\ DeadKeys' = DeadKeys \ {e.key}
      /\ e.key \in DeadKeys
  BY KeyRemoved DEF DeadKeys, Places, OnePlace, UniqueRecords
<1>4. ReadyKeys' = ReadyKeys \cup {e.key}
  BY <1>1, <1>2, KeyAdded DEF ReadyKeys
<1>5. LeasedKeys' = LeasedKeys /\ AckedKeys' = AckedKeys
  BY DEF LeasedKeys, AckedKeys
<1>6. UniqueRecords'
  <2>1. e.key \notin ReadyKeys
    BY <1>3 DEF Places, OnePlace, DisjointPlaces
  <2>2. QED
    BY <1>1, <1>2, <2>1 DEF Places, OnePlace, UniqueRecords, ReadyKeys
<1>7. DisjointPlaces'
  BY <1>3, <1>4, <1>5 DEF Places, OnePlace, DisjointPlaces
<1>8. QED
  BY <1>3, <1>4, <1>5, <1>6, <1>7
     DEF Places, OnePlace, NothingLost, AckedOnce, HandlesAgree

LEMMA PlacesPurge ==
    ASSUME TypeOK, Places, NEW j, PurgeJob(j)
    PROVE  Places'
<1> DEFINE D == {e \in ready : JobOf[e.key] = j}
           R == {l \in leases : JobOf[l.entry.key] = j}
           DK == {e.key : e \in D}
           LK == {l.entry.key : l \in R}
<1>1. /\ ready' = ready \ D
      /\ leases' = leases \ R
      /\ purged' = purged \cup DK \cup LK
      /\ UNCHANGED <<seen, dead, held, done>>
  BY DEF PurgeJob
<1>2. ReadyKeys' = ReadyKeys \ DK /\ DK \subseteq ReadyKeys
  BY <1>1 DEF ReadyKeys
<1>3. LeasedKeys' = LeasedKeys \ LK /\ LK \subseteq LeasedKeys
  BY <1>1, Zenon DEF LeasedKeys
<1>4. DeadKeys' = DeadKeys /\ AckedKeys' = AckedKeys
  BY <1>1 DEF DeadKeys, AckedKeys
<1>5. UniqueRecords' /\ HandlesAgree' /\ AckedOnce'
  BY <1>1 DEF Places, OnePlace, UniqueRecords, HandlesAgree, AckedOnce
<1>6. purged' = purged \cup DK \cup LK /\ seen' = seen
  BY <1>1
<1> HIDE DEF DK, LK
<1>7. DisjointPlaces'
  BY <1>2, <1>3, <1>4, <1>6 DEF Places, OnePlace, DisjointPlaces
<1>8. NothingLost'
  BY <1>2, <1>3, <1>4, <1>6 DEF Places, NothingLost
<1>9. QED
  BY <1>5, <1>7, <1>8 DEF Places, OnePlace

LEMMA PlacesTick ==
    ASSUME TypeOK, Places, Tick
    PROVE  Places'
<1>1. /\ \A e \in ready : Aged(e).key = e.key
      /\ \A e \in dead : Aged(e).key = e.key
  BY AgedEntry DEF TypeOK
<1>2. \A l \in leases : /\ AgedLease(l).id = l.id
                        /\ AgedLease(l).entry.key = l.entry.key
  BY AgedEntry DEF TypeOK, AgedLease, Lease
<1>3. /\ ReadyKeys' = ReadyKeys
      /\ DeadKeys' = DeadKeys
  BY <1>1 DEF Tick, ReadyKeys, DeadKeys
<1>4. LeasedKeys' = LeasedKeys
  BY <1>2 DEF Tick, LeasedKeys
<1>5. AckedKeys' = AckedKeys
  BY DEF Tick, AckedKeys
<1>6. UniqueRecords'
  <2>1. \A e, f \in ready' : e.key = f.key => e = f
    BY <1>1 DEF Tick, Places, OnePlace, UniqueRecords
  <2>2. \A e, f \in dead' : e.key = f.key => e = f
    BY <1>1 DEF Tick, Places, OnePlace, UniqueRecords
  <2>3. \A l, m \in leases' : l.id = m.id \/ l.entry.key = m.entry.key => l = m
    BY <1>2 DEF Tick, Places, OnePlace, UniqueRecords
  <2>4. QED
    BY <2>1, <2>2, <2>3 DEF UniqueRecords
<1>7. HandlesAgree'
  BY <1>2 DEF Tick, Places, HandlesAgree
<1>8. QED
  BY <1>3, <1>4, <1>5, <1>6, <1>7, Zenon
     DEF Tick, Places, OnePlace, DisjointPlaces, NothingLost, AckedOnce

LEMMA PlacesSame ==
    ASSUME Places, UNCHANGED <<ready, leases, seen, dead, done, purged>>,
           held' \subseteq held
    PROVE  Places'
BY DEF Places, OnePlace, UniqueRecords, DisjointPlaces, NothingLost, AckedOnce,
       HandlesAgree, ReadyKeys, LeasedKeys, DeadKeys, AckedKeys

\* Whatever the clients do and however stale their clocks and handles are, an
\* admitted attempt is in exactly one place of the queue, is never lost, and is
\* acknowledged at most once; a handle names the key its lease is for.
THEOREM PlacesAlways == Spec => []Places
<1>1. Init => Places
  BY DEF Init, Places, OnePlace, UniqueRecords, DisjointPlaces, NothingLost,
         AckedOnce, HandlesAgree, ReadyKeys, LeasedKeys, DeadKeys, AckedKeys
<1>2. TypeOK /\ Places /\ [Next]_vars => Places'
  <2> SUFFICES ASSUME TypeOK, Places, [Next]_vars PROVE Places'
    OBVIOUS
  <2>1. CASE \E k \in Keys, a \in StartAttempts, d \in StartDelays : Enqueue(k, a, d)
    BY <2>1, PlacesEnqueue
  <2>2. CASE \E id \in LeaseIds, g \in 0..Lag, offer \in Offers :
               Dequeue(id, g, offer)
    BY <2>2, PlacesDequeue
  <2>3. CASE \E h \in held, g \in 0..Lag, n \in Nonces : Acknowledge(h, g, n)
    BY <2>3, PlacesAcknowledge
  <2>4. CASE \E h \in held, g \in 0..Lag, n \in Nonces : Reject(h, g, n)
    BY <2>4, PlacesReject
  <2>5. CASE \E h \in held, g \in 0..Lag : Release(h, g)
    BY <2>5, PlacesRelease
  <2>6. CASE \E h \in held, d \in Extensions, g \in 0..Lag : ExtendLease(h, d, g)
    BY <2>6, PlacesExtendLease
  <2>7. CASE \E g \in 0..Lag, n \in Nonces : RequeueExpired(g, n)
    BY <2>7, PlacesRequeueExpired
  <2>8. CASE \E k \in Keys, g \in 0..Lag : ReplayDeadLetter(TaskOf[k], g)
    BY <2>8, PlacesReplay
  <2>9. CASE \E k \in Keys : PurgeJob(JobOf[k])
    BY <2>9, PlacesPurge
  <2>10. CASE \E h \in held : Forget(h)
    BY <2>10, PlacesSame DEF Forget
  <2>11. CASE Tick
    BY <2>11, PlacesTick
  <2>12. CASE UNCHANGED vars
    BY <2>12, PlacesSame DEF vars
  <2>13. QED
    BY <2>1, <2>2, <2>3, <2>4, <2>5, <2>6, <2>7, <2>8, <2>9, <2>10, <2>11,
       <2>12 DEF Next
<1>3. QED
  BY <1>1, <1>2, TypeCorrect, PTL DEF Spec

\* An admitted task is in exactly one place, for any keys, leases and clocks.
THEOREM ExactlyOnce == Spec => []ExactlyOnePlace
<1>1. Places => ExactlyOnePlace
  BY DEF Places, ExactlyOnePlace
<1>2. QED
  BY <1>1, PlacesAlways, PTL
-----------------------------------------------------------------------------
\* A failed entry goes back only while its budget lasts.
LEMMA BudgetsFail ==
    ASSUME TypeOK, Budgets,
           NEW L \in SUBSET leases, NEW n \in Nonces, NEW g \in 0..Lag,
           leases' \subseteq leases,
           ready' = ready \cup Retried({l.entry : l \in L}, n, g)
    PROVE  Budgets'
<1>1. ASSUME NEW e \in Retried({l.entry : l \in L}, n, g)
      PROVE  e.attempt < MaxAttempts
  <2>1. PICK l \in L : AllowsRetry(l.entry.attempt) /\ e = Backoff(l.entry, n, g)
    BY DEF Retried
  <2>2. l.entry \in Entry
    BY DEF TypeOK, Lease
  <2>3. QED
    BY <2>1, <2>2, BackoffEntry DEF AllowsRetry
<1>2. QED
  BY <1>1 DEF Budgets, WithinBudget, LeasesCharged, WaitingWithinBudget

LEMMA BudgetsKept ==
    ASSUME Budgets, leases' \subseteq leases, ready' \subseteq ready
    PROVE  Budgets'
BY DEF Budgets, WithinBudget, LeasesCharged, WaitingWithinBudget

\* The attempts of every record stay within the budget: a lease has charged one,
\* and a waiting entry may be granted one more (dequeue_from, retry_or_park).
THEOREM BudgetsAlways == Spec => []Budgets
<1>1. Init => Budgets
  BY DEF Init, Budgets, WithinBudget, LeasesCharged, WaitingWithinBudget
<1>2. TypeOK /\ Budgets /\ [Next]_vars => Budgets'
  <2> SUFFICES ASSUME TypeOK, Budgets, [Next]_vars PROVE Budgets'
    OBVIOUS
  <2> USE RetryPolicyAssumption, TaskQueueAssumption
  <2>1. CASE \E k \in Keys, a \in StartAttempts, d \in StartDelays : Enqueue(k, a, d)
    BY <2>1 DEF Enqueue, Budgets, WithinBudget, LeasesCharged, WaitingWithinBudget
  <2>2. ASSUME NEW id \in LeaseIds, NEW g \in 0..Lag, NEW offer \in Offers,
               Dequeue(id, g, offer)
        PROVE  Budgets'
    <3> DEFINE grant(e) == [id |-> id, entry |-> Charged(e),
                            left |-> LeaseDuration - g, state |-> "Held"]
    <3> PICK e \in ready : ready' = ready \ {e} /\ leases' = leases \cup {grant(e)}
      BY <2>2, Zenon DEF Dequeue, Pick
    <3>1. e \in Entry /\ e.attempt \in Nat
      BY DEF TypeOK, Entry
    <3>2. /\ grant(e).entry.attempt = e.attempt + 1
          /\ grant(e).entry.first = e.first
      BY <3>1, EntryUpdates, Zenon
    <3>3. e.attempt < MaxAttempts \/ e.attempt = e.first
      BY DEF Budgets, WaitingWithinBudget
    <3> DEFINE r == grant(e)
    <3>4. /\ r.entry.attempt <= MaxAttempts \/ r.entry.attempt = r.entry.first + 1
          /\ r.entry.attempt > 0
      BY <3>1, <3>2, <3>3
    <3>5. leases' = leases \cup {r}
      OBVIOUS
    <3> HIDE DEF grant, r
    <3>6. QED
      BY <3>4, <3>5, Zenon DEF Budgets, WithinBudget, LeasesCharged, WaitingWithinBudget
  <2>3. ASSUME NEW hd \in held, NEW g \in 0..Lag, NEW n \in Nonces,
               Acknowledge(hd, g, n)
        PROVE  Budgets'
    <3>1. PICK l \in leases :
             /\ leases' = leases \ {l}
             /\ \/ RetryOrPark({l.entry}, n, g)
                \/ UNCHANGED <<ready, dead>>
      BY <2>3, Zenon DEF Acknowledge, TakeLease
    <3>2. {m.entry : m \in {l}} = {l.entry}
      OBVIOUS
    <3>3. QED
      BY <3>1, <3>2, BudgetsFail, BudgetsKept, Zenon DEF RetryOrPark
  <2>4. ASSUME NEW hd \in held, NEW g \in 0..Lag, NEW n \in Nonces, Reject(hd, g, n)
        PROVE  Budgets'
    <3>1. PICK l \in leases :
             /\ leases' = leases \ {l}
             /\ \/ RetryOrPark({l.entry}, n, g)
                \/ UNCHANGED <<ready, dead>>
      BY <2>4, Zenon DEF Reject, TakeLease
    <3>2. {m.entry : m \in {l}} = {l.entry}
      OBVIOUS
    <3>3. QED
      BY <3>1, <3>2, BudgetsFail, BudgetsKept, Zenon DEF RetryOrPark
  <2>5. ASSUME NEW hd \in held, NEW g \in 0..Lag, Release(hd, g)
        PROVE  Budgets'
    <3> DEFINE back(l) == AvailableIn(Refunded(l.entry), -g)
    <3> PICK l \in leases : leases' = leases \ {l} /\ ready' = ready \cup {back(l)}
      BY <2>5 DEF Release, TakeLease
    <3> DEFINE e == l.entry
               f == Refunded(e)
    <3>1. /\ e \in Entry /\ e.attempt \in Nat /\ e.first \in Nat
          /\ -g \in Int
          /\ e.attempt > 0
          /\ e.attempt <= MaxAttempts \/ e.attempt = e.first + 1
      BY DEF TypeOK, Lease, Entry, Budgets, LeasesCharged, WithinBudget
    <3> HIDE DEF e
    <3>2. f \in Entry /\ f.attempt = e.attempt - 1 /\ f.first = e.first
      BY <3>1, EntryUpdates, Zenon
    <3> HIDE DEF f
    <3> DEFINE r == AvailableIn(f, -g)
    <3>3. r.attempt = f.attempt /\ r.first = f.first
      BY <3>1, <3>2, EntryUpdates, Zenon
    <3>4. ready' = ready \cup {r}
      BY DEF e, f
    <3> HIDE DEF r
    <3>5. r.attempt < MaxAttempts \/ r.attempt = r.first
      BY <3>1, <3>2, <3>3
    <3>6. QED
      BY <3>4, <3>5 DEF Budgets, WithinBudget, LeasesCharged, WaitingWithinBudget
  <2>6. ASSUME NEW hd \in held, NEW d \in Extensions, NEW g \in 0..Lag,
               ExtendLease(hd, d, g)
        PROVE  Budgets'
    BY <2>6 DEF ExtendLease, TakeLease, Budgets, WithinBudget, LeasesCharged,
                WaitingWithinBudget
  <2>7. ASSUME NEW g \in 0..Lag, NEW n \in Nonces, RequeueExpired(g, n)
        PROVE  Budgets'
    <3> DEFINE L == {l \in leases : IsExpired(l, g)}
    <3>1. /\ L \in SUBSET leases
          /\ leases' \subseteq leases
          /\ ready' = ready \cup Retried({l.entry : l \in L}, n, g)
      BY <2>7 DEF RequeueExpired, RetryOrPark
    <3> HIDE DEF L
    <3>2. QED
      BY <3>1, BudgetsFail, Zenon
  <2>8. ASSUME NEW k \in Keys, NEW g \in 0..Lag, ReplayDeadLetter(TaskOf[k], g)
        PROVE  Budgets'
    <3> DEFINE back(e) == AvailableIn(Readmitted(e), -g)
    <3> PICK e \in dead : ready' = ready \cup {back(e)} /\ leases' = leases
      BY <2>8 DEF ReplayDeadLetter
    <3> DEFINE r == back(e)
    <3>1. r.attempt = r.first
      BY EntryUpdates DEF TypeOK
    <3>2. ready' = ready \cup {r}
      OBVIOUS
    <3> HIDE DEF back, r
    <3>3. QED
      BY <3>1, <3>2 DEF Budgets, WithinBudget, LeasesCharged, WaitingWithinBudget
  <2>9. CASE \E k \in Keys : PurgeJob(JobOf[k])
    BY <2>9, BudgetsKept, Zenon DEF PurgeJob
  <2>10. CASE \E h \in held : Forget(h)
    BY <2>10, BudgetsKept DEF Forget
  <2>11. CASE Tick
    <3>1. \A e \in ready : Aged(e).attempt = e.attempt /\ Aged(e).first = e.first
      BY AgedEntry DEF TypeOK
    <3>2. \A l \in leases : /\ AgedLease(l).entry.attempt = l.entry.attempt
                            /\ AgedLease(l).entry.first = l.entry.first
      BY AgedEntry DEF TypeOK, AgedLease, Lease
    <3>3. QED
      BY <2>11, <3>1, <3>2 DEF Tick, Budgets, WithinBudget, LeasesCharged,
                               WaitingWithinBudget
  <2>12. CASE UNCHANGED vars
    BY <2>12, BudgetsKept DEF vars
  <2>13. QED
    BY <2>1, <2>2, <2>3, <2>4, <2>5, <2>6, <2>7, <2>8, <2>9, <2>10, <2>11,
       <2>12 DEF Next
<1>3. QED
  BY <1>1, <1>2, TypeCorrect, PTL DEF Spec

\* A lease is granted only within the retry budget, or once when the entry was
\* admitted with its budget spent: crashes, sweeps and releases never make the
\* queue grant more.
THEOREM BudgetSafe == Spec => []WithinBudget
<1>1. Budgets => WithinBudget
  BY DEF Budgets
<1>2. QED
  BY <1>1, BudgetsAlways, PTL
-----------------------------------------------------------------------------
(***************************************************************************)
(* The queue implements the delivery contract.  What the contract sees of  *)
(* a key is read off the one record the key has.                           *)
(***************************************************************************)
Shows(k, s, o, n) == StatusBar[k] = s /\ OwnerBar[k] = o /\ SpentBar[k] = n

Viewed ==
    /\ \A e \in ready : Shows(e.key, "waiting", NoOwner, e.attempt)
    /\ \A l \in leases : Shows(l.entry.key, "leased", l.id, l.entry.attempt)
    /\ \A e \in dead : Shows(e.key, "parked", NoOwner, e.attempt)
    /\ \A k \in AckedKeys : Shows(k, "done", NoOwner, 0)
    /\ \A k \in purged : Shows(k, "dropped", NoOwner, 0)
    /\ \A k \in Keys \ seen : Shows(k, "absent", NoOwner, 0)

\* The record and the lease of a key are the ones in the table it is in.
LEMMA RecordFound ==
    ASSUME Places
    PROVE  /\ \A e \in ready : RecordOf(e.key) = e
           /\ \A l \in leases : RecordOf(l.entry.key) = l.entry
           /\ \A e \in dead : RecordOf(e.key) = e
           /\ \A l \in leases : LeaseOf(l.entry.key) = l
<1> DEFINE R == ready \cup dead \cup {l.entry : l \in leases}
<1>1. \A e, f \in R : e.key = f.key => e = f
  BY DEF Places, OnePlace, UniqueRecords, DisjointPlaces, ReadyKeys, LeasedKeys,
         DeadKeys
<1>2. \A e \in R : RecordOf(e.key) = e
  <2> TAKE e \in R
  <2>1. RecordOf(e.key) = CHOOSE f \in R : f.key = e.key
    BY DEF RecordOf
  <2> HIDE DEF R
  <2>2. QED
    BY <1>1, <2>1
<1>3. \A l \in leases : LeaseOf(l.entry.key) = l
  BY DEF LeaseOf, Places, OnePlace, UniqueRecords
<1>4. QED
  BY <1>2, <1>3

\* A key's view under the refinement mapping is that of its record.
LEMMA ViewOfRecords == TypeOK /\ Places => Viewed
<1> SUFFICES ASSUME TypeOK, Places PROVE Viewed
  OBVIOUS
<1>0. DisjointPlaces
  BY DEF Places, OnePlace
<1>1. /\ ReadyKeys \subseteq Keys /\ LeasedKeys \subseteq Keys
      /\ DeadKeys \subseteq Keys /\ AckedKeys \subseteq Keys /\ purged \subseteq Keys
  BY DEF TypeOK, ReadyKeys, LeasedKeys, DeadKeys, AckedKeys, Entry, Lease
<1>2. \A e \in ready : Shows(e.key, "waiting", NoOwner, e.attempt)
  <2> TAKE e \in ready
  <2>1. e.key \in ReadyKeys /\ e.key \in Keys /\ e.key \notin LeasedKeys
    BY <1>0, <1>1 DEF ReadyKeys, DisjointPlaces
  <2>2. QED
    BY <2>1, RecordFound DEF Shows, StatusBar, OwnerBar, SpentBar
<1>3. \A l \in leases : Shows(l.entry.key, "leased", l.id, l.entry.attempt)
  <2> TAKE l \in leases
  <2>1. /\ l.entry.key \in LeasedKeys /\ l.entry.key \in Keys
        /\ l.entry.key \notin ReadyKeys
    BY <1>0, <1>1 DEF LeasedKeys, DisjointPlaces
  <2>2. QED
    BY <2>1, RecordFound, Zenon DEF Shows, StatusBar, OwnerBar, SpentBar
<1>4. \A e \in dead : Shows(e.key, "parked", NoOwner, e.attempt)
  <2> TAKE e \in dead
  <2>1. /\ e.key \in DeadKeys /\ e.key \in Keys
        /\ e.key \notin ReadyKeys /\ e.key \notin LeasedKeys
    BY <1>0, <1>1 DEF DeadKeys, DisjointPlaces
  <2>2. QED
    BY <2>1, RecordFound DEF Shows, StatusBar, OwnerBar, SpentBar
<1>5. \A k \in AckedKeys : Shows(k, "done", NoOwner, 0)
  BY <1>0, <1>1 DEF DisjointPlaces, Shows, StatusBar, OwnerBar, SpentBar
<1>6. \A k \in purged : Shows(k, "dropped", NoOwner, 0)
  BY <1>0, <1>1 DEF DisjointPlaces, Shows, StatusBar, OwnerBar, SpentBar
<1>7. \A k \in Keys \ seen : Shows(k, "absent", NoOwner, 0)
  BY DEF Places, NothingLost, Shows, StatusBar, OwnerBar, SpentBar
<1>8. QED
  BY <1>2, <1>3, <1>4, <1>5, <1>6, <1>7, Zenon DEF Viewed

\* A step leaves a key where it was, with its owner and its count.
Stays(k) ==
    /\ \A e \in ready : e.key = k => \E f \in ready' : f.key = k /\ f.attempt = e.attempt
    /\ \A l \in leases : l.entry.key = k =>
          \E m \in leases' : /\ m.entry.key = k
                             /\ m.id = l.id
                             /\ m.entry.attempt = l.entry.attempt
    /\ \A e \in dead : e.key = k => \E f \in dead' : f.key = k /\ f.attempt = e.attempt
    /\ k \in AckedKeys => k \in AckedKeys'
    /\ k \in purged => k \in purged'
    /\ k \notin seen => k \notin seen'

Untouched(k) ==
    /\ StatusBar'[k] = StatusBar[k]
    /\ OwnerBar'[k] = OwnerBar[k]
    /\ SpentBar'[k] = SpentBar[k]

\* The states a step of the queue starts and ends in.
Sound == TypeOK /\ Places /\ Viewed

LEMMA StaysUntouched ==
    ASSUME Sound, Viewed', NEW k \in Keys, Stays(k)
    PROVE  Untouched(k)
<1>1. CASE k \in ReadyKeys
  <2>1. PICK e \in ready : e.key = k
    BY <1>1 DEF ReadyKeys
  <2>2. PICK f \in ready' : f.key = k /\ f.attempt = e.attempt
    BY <2>1 DEF Stays
  <2>3. StatusBar[k] = "waiting" /\ OwnerBar[k] = NoOwner /\ SpentBar[k] = e.attempt
    BY <2>1 DEF Sound, Viewed, Shows
  <2>4. StatusBar'[k] = "waiting" /\ OwnerBar'[k] = NoOwner /\ SpentBar'[k] = f.attempt
    BY <2>2 DEF Viewed, Shows
  <2>5. QED
    BY <2>2, <2>3, <2>4 DEF Untouched
<1>2. CASE k \in LeasedKeys
  <2>1. PICK l \in leases : l.entry.key = k
    BY <1>2 DEF LeasedKeys
  <2>2. PICK m \in leases' : /\ m.entry.key = k
                             /\ m.id = l.id
                             /\ m.entry.attempt = l.entry.attempt
    BY <2>1 DEF Stays
  <2>3. StatusBar[k] = "leased" /\ OwnerBar[k] = l.id /\ SpentBar[k] = l.entry.attempt
    BY <2>1 DEF Sound, Viewed, Shows
  <2>4. StatusBar'[k] = "leased" /\ OwnerBar'[k] = m.id /\ SpentBar'[k] = m.entry.attempt
    BY <2>2 DEF Viewed, Shows
  <2>5. QED
    BY <2>2, <2>3, <2>4 DEF Untouched
<1>3. CASE k \in DeadKeys
  <2>1. PICK e \in dead : e.key = k
    BY <1>3 DEF DeadKeys
  <2>2. PICK f \in dead' : f.key = k /\ f.attempt = e.attempt
    BY <2>1 DEF Stays
  <2>3. StatusBar[k] = "parked" /\ OwnerBar[k] = NoOwner /\ SpentBar[k] = e.attempt
    BY <2>1 DEF Sound, Viewed, Shows
  <2>4. StatusBar'[k] = "parked" /\ OwnerBar'[k] = NoOwner /\ SpentBar'[k] = f.attempt
    BY <2>2 DEF Viewed, Shows
  <2>5. QED
    BY <2>2, <2>3, <2>4 DEF Untouched
<1>4. CASE k \in AckedKeys
  BY <1>4 DEF Stays, Sound, Viewed, Shows, Untouched
<1>5. CASE k \in purged
  BY <1>5 DEF Stays, Sound, Viewed, Shows, Untouched
<1>6. CASE k \notin seen
  BY <1>6 DEF Stays, Sound, Viewed, Shows, Untouched
<1>7. QED
  BY <1>1, <1>2, <1>3, <1>4, <1>5, <1>6 DEF Sound, Places, NothingLost

\* The mapped variables are functions of the keys, so a step is known by what
\* it does to each key.
LEMMA ByKey ==
    ASSUME NEW K \in SUBSET Keys, \A x \in Keys \ K : Untouched(x)
    PROVE  /\ StatusBar' = [x \in Keys |-> IF x \in K THEN StatusBar'[x] ELSE StatusBar[x]]
           /\ OwnerBar' = [x \in Keys |-> IF x \in K THEN OwnerBar'[x] ELSE OwnerBar[x]]
           /\ SpentBar' = [x \in Keys |-> IF x \in K THEN SpentBar'[x] ELSE SpentBar[x]]
           /\ StatusBar = [x \in Keys |-> StatusBar[x]]
           /\ OwnerBar = [x \in Keys |-> OwnerBar[x]]
           /\ SpentBar = [x \in Keys |-> SpentBar[x]]
<1>1. /\ StatusBar = [x \in Keys |-> StatusBar[x]]
      /\ OwnerBar = [x \in Keys |-> OwnerBar[x]]
      /\ SpentBar = [x \in Keys |-> SpentBar[x]]
  BY DEF StatusBar, OwnerBar, SpentBar
<1>2. /\ StatusBar' = [x \in Keys |-> StatusBar'[x]]
      /\ OwnerBar' = [x \in Keys |-> OwnerBar'[x]]
      /\ SpentBar' = [x \in Keys |-> SpentBar'[x]]
  BY DEF StatusBar, OwnerBar, SpentBar
<1>3. QED
  BY <1>1, <1>2 DEF Untouched

LEMMA OneKey ==
    ASSUME NEW k \in Keys, \A x \in Keys \ {k} : Untouched(x)
    PROVE  /\ StatusBar' = [StatusBar EXCEPT ![k] = StatusBar'[k]]
           /\ OwnerBar' = [OwnerBar EXCEPT ![k] = OwnerBar'[k]]
           /\ SpentBar' = [SpentBar EXCEPT ![k] = SpentBar'[k]]
BY ByKey DEF Untouched

LEMMA NoKey ==
    ASSUME Sound, Viewed', \A k \in Keys : Stays(k)
    PROVE  UNCHANGED Contract!abstractVars
<1>1. \A k \in Keys \ {} : Untouched(k)
  BY StaysUntouched
<1>2. /\ StatusBar' = [x \in Keys |-> IF x \in {} THEN StatusBar'[x] ELSE StatusBar[x]]
      /\ OwnerBar' = [x \in Keys |-> IF x \in {} THEN OwnerBar'[x] ELSE OwnerBar[x]]
      /\ SpentBar' = [x \in Keys |-> IF x \in {} THEN SpentBar'[x] ELSE SpentBar[x]]
      /\ StatusBar = [x \in Keys |-> StatusBar[x]]
      /\ OwnerBar = [x \in Keys |-> OwnerBar[x]]
      /\ SpentBar = [x \in Keys |-> SpentBar[x]]
  <2>1. {} \in SUBSET Keys
    OBVIOUS
  <2>2. QED
    BY <1>1, <2>1, ByKey, Zenon
<1>3. StatusBar' = StatusBar /\ OwnerBar' = OwnerBar /\ SpentBar' = SpentBar
  BY <1>2
<1>4. QED
  BY <1>3 DEF Contract!abstractVars

LEMMA ContractEnqueue ==
    ASSUME Sound, Viewed',
           NEW k \in Keys, NEW a \in StartAttempts, NEW d \in StartDelays,
           Enqueue(k, a, d)
    PROVE  Contract!Admit(k)
<1> DEFINE r == [key |-> k, attempt |-> a, first |-> a, delay |-> d, waited |-> 0]
<1>1. r.key = k /\ r.attempt = a /\ r \in ready'
  BY DEF Enqueue
<1> HIDE DEF r
<1>2. Shows(k, "absent", NoOwner, 0)
  BY Zenon DEF Enqueue, Sound, Viewed
<1>3. StatusBar'[k] = "waiting" /\ OwnerBar'[k] = NoOwner /\ SpentBar'[k] = a
  BY <1>1, Zenon DEF Viewed, Shows
<1>4. \A x \in Keys \ {k} : Stays(x)
  BY DEF Enqueue, Stays, AckedKeys
<1>5. \A x \in Keys \ {k} : Untouched(x)
  BY <1>4, StaysUntouched
<1>6. OwnerBar' = OwnerBar
  <2>1. OwnerBar = [x \in Keys |-> OwnerBar[x]]
    BY DEF OwnerBar
  <2>2. OwnerBar' = [OwnerBar EXCEPT ![k] = NoOwner] /\ OwnerBar[k] = NoOwner
    BY <1>2, <1>3, <1>5, OneKey, Zenon DEF Shows
  <2>3. QED
    BY <2>1, <2>2
<1>7. a \in Nat
  BY TaskQueueAssumption
<1>8. QED
  BY <1>2, <1>3, <1>5, <1>6, <1>7, OneKey, Zenon DEF Shows, Contract!Admit

LEMMA ContractDequeue ==
    ASSUME Sound, Viewed',
           NEW id \in LeaseIds, NEW g \in 0..Lag, NEW offer \in Offers,
           Dequeue(id, g, offer)
    PROVE  \E k \in Keys : Contract!Grant(k, id)
<1> DEFINE grant(e) == [id |-> id, entry |-> Charged(e),
                        left |-> LeaseDuration - g, state |-> "Held"]
<1> PICK e \in ready :
           /\ id \notin {l.id : l \in leases}
           /\ ready' = ready \ {e}
           /\ leases' = leases \cup {grant(e)}
           /\ UNCHANGED <<seen, dead, done, purged>>
  BY DEF Dequeue, Pick
<1> DEFINE r == grant(e)
           k == e.key
<1>1. k \in Keys
  BY DEF Sound, TypeOK, Entry
<1>2. r.id = id /\ r.entry.key = k /\ r.entry.attempt = e.attempt + 1 /\ r \in leases'
  BY EntryUpdates, Zenon DEF Sound, TypeOK
<1>3. Shows(k, "waiting", NoOwner, e.attempt)
  BY Zenon DEF Sound, Viewed
<1>4. leases \subseteq leases'
  OBVIOUS
<1> HIDE DEF r, grant
<1>5. StatusBar'[k] = "leased" /\ OwnerBar'[k] = id /\ SpentBar'[k] = e.attempt + 1
  BY <1>2 DEF Viewed, Shows
<1>6. \A x \in Keys \ {k} : Stays(x)
  BY <1>4 DEF Stays, AckedKeys
<1>7. \A x \in Keys \ {k} : Untouched(x)
  BY <1>6, StaysUntouched
<1>8. \A other \in Keys : OwnerBar[other] # id
  <2> TAKE other \in Keys
  <2>1. CASE other \in LeasedKeys
    <3>1. PICK l \in leases : l.entry.key = other
      BY <2>1 DEF LeasedKeys
    <3>2. QED
      BY <3>1 DEF Sound, Viewed, Shows
  <2>2. CASE other \notin LeasedKeys
    BY <2>2, NoOwnerAssumption DEF OwnerBar
  <2>3. QED
    BY <2>1, <2>2
<1> HIDE DEF k
<1>9. Contract!Grant(k, id)
  BY <1>1, <1>3, <1>5, <1>7, <1>8, OneKey, Zenon DEF Shows, Contract!Grant
<1>10. QED
  BY <1>1, <1>9

\* Leases that fail together go back or are parked as their budgets say.
LEMMA ContractFail ==
    ASSUME Sound, Viewed',
           NEW L \in SUBSET leases, L # {}, NEW n \in Nonces, NEW g \in 0..Lag,
           leases' = leases \ L,
           RetryOrPark({l.entry : l \in L}, n, g),
           UNCHANGED <<seen, held, done, purged>>
    PROVE  \E K \in SUBSET Keys : Contract!FailLeases(K)
<1> DEFINE K == {l.entry.key : l \in L}
<1>1. K \in SUBSET Keys /\ K # {}
  BY DEF Sound, TypeOK, Lease, Entry
<1>2. ASSUME NEW k \in K
      PROVE  /\ StatusBar[k] = "leased"
             /\ OwnerBar'[k] = NoOwner
             /\ SpentBar'[k] = SpentBar[k]
             /\ StatusBar'[k] = IF SpentBar[k] < MaxAttempts THEN "waiting" ELSE "parked"
  <2>1. PICK l \in L : l.entry.key = k
    OBVIOUS
  <2>2. l.entry \in Entry /\ l \in leases
    BY DEF Sound, TypeOK, Lease
  <2>3. StatusBar[k] = "leased" /\ SpentBar[k] = l.entry.attempt
    BY <2>1, <2>2 DEF Sound, Viewed, Shows
  <2>4. CASE AllowsRetry(l.entry.attempt)
    <3>1. Backoff(l.entry, n, g) \in ready'
      BY <2>4 DEF RetryOrPark, Retried
    <3>2. Backoff(l.entry, n, g).key = k /\ Backoff(l.entry, n, g).attempt = l.entry.attempt
      BY <2>1, <2>2, BackoffEntry
    <3>3. StatusBar'[k] = "waiting" /\ OwnerBar'[k] = NoOwner /\ SpentBar'[k] = l.entry.attempt
      BY <3>1, <3>2, Zenon DEF Viewed, Shows
    <3>4. QED
      BY <2>3, <2>4, <3>3, Zenon DEF AllowsRetry
  <2>5. CASE ~AllowsRetry(l.entry.attempt)
    <3>1. l.entry \in dead'
      BY <2>5 DEF RetryOrPark, Parked
    <3>2. StatusBar'[k] = "parked" /\ OwnerBar'[k] = NoOwner /\ SpentBar'[k] = l.entry.attempt
      BY <2>1, <3>1, Zenon DEF Viewed, Shows
    <3>3. QED
      BY <2>3, <2>5, <3>2, Zenon DEF AllowsRetry
  <2>6. QED
    BY <2>4, <2>5, Zenon
<1>3. \A x \in Keys \ K : Stays(x)
  BY DEF RetryOrPark, Stays, AckedKeys
<1>4. \A x \in Keys \ K : Untouched(x)
  BY <1>3, StaysUntouched
<1> HIDE DEF K
<1>5. K \subseteq Contract!In("leased")
  BY <1>1, <1>2 DEF Contract!In
<1>6. /\ StatusBar' = [x \in Keys |-> IF x \in K THEN StatusBar'[x] ELSE StatusBar[x]]
      /\ OwnerBar' = [x \in Keys |-> IF x \in K THEN OwnerBar'[x] ELSE OwnerBar[x]]
      /\ SpentBar' = [x \in Keys |-> IF x \in K THEN SpentBar'[x] ELSE SpentBar[x]]
      /\ SpentBar = [x \in Keys |-> SpentBar[x]]
  BY <1>1, <1>4, ByKey, Zenon
<1>7. SpentBar' = SpentBar
  BY <1>2, <1>6, Zenon
<1>8. StatusBar' = [x \in Keys |-> IF x \notin K THEN StatusBar[x]
                                  ELSE IF SpentBar[x] < MaxAttempts THEN "waiting"
                                  ELSE "parked"]
  BY <1>2, <1>6, Zenon
<1>9. OwnerBar' = [x \in Keys |-> IF x \in K THEN NoOwner ELSE OwnerBar[x]]
  <2>1. \A x \in K : OwnerBar'[x] = NoOwner
    BY <1>2
  <2>2. QED
    BY <1>6, <2>1
<1>10. Contract!FailLeases(K)
  BY <1>1, <1>5, <1>7, <1>8, <1>9, Zenon DEF Contract!FailLeases
<1>11. QED
  BY <1>1, <1>10

\* An acknowledgement completes its key, or fails its lapsed lease.
LEMMA ContractAcknowledge ==
    ASSUME Sound, Viewed',
           NEW hd \in held, NEW g \in 0..Lag, NEW n \in Nonces,
           Acknowledge(hd, g, n)
    PROVE  Contract!AbstractNext
<1> PICK l \in TakeLease(hd.id) :
           /\ leases' = leases \ {l}
           /\ \/ RetryOrPark({l.entry}, n, g) /\ UNCHANGED done
              \/ /\ done' = IF "Released" \in LeaseAllowed(l.state)
                            THEN [done EXCEPT ![hd.key] = @ + 1]
                            ELSE done
                 /\ UNCHANGED <<ready, dead>>
           /\ UNCHANGED <<seen, held, purged>>
  BY Zenon DEF Acknowledge
<1> l \in leases /\ l.id = hd.id
  BY DEF TakeLease
<1>1. CASE RetryOrPark({l.entry}, n, g) /\ UNCHANGED done
  <2>1. {m.entry : m \in {l}} = {l.entry} /\ {l} \in SUBSET leases /\ {l} # {}
    OBVIOUS
  <2>2. RetryOrPark({m.entry : m \in {l}}, n, g)
    BY <1>1, <2>1, Zenon
  <2>3. UNCHANGED <<seen, held, done, purged>>
    BY <1>1
  <2>4. \E K \in SUBSET Keys : Contract!FailLeases(K)
    BY <2>1, <2>2, <2>3, ContractFail, Zenon
  <2>5. QED
    BY <2>4, Zenon DEF Contract!AbstractNext
<1>2. CASE /\ done' = IF "Released" \in LeaseAllowed(l.state)
                      THEN [done EXCEPT ![hd.key] = @ + 1]
                      ELSE done
           /\ UNCHANGED <<ready, dead>>
  <2> DEFINE k == l.entry.key
  <2>1. k = hd.key /\ k \in Keys
    BY Zenon DEF Sound, Places, HandlesAgree, TypeOK, Handle
  <2>2. done' = [done EXCEPT ![k] = @ + 1]
    BY <1>2, <2>1, Zenon DEF LeaseAllowed, Sound, TypeOK
  <2>3. AckedKeys' = AckedKeys \cup {k}
    BY <2>1, <2>2 DEF AckedKeys, Sound, TypeOK
  <2>4. Shows(k, "leased", l.id, l.entry.attempt)
    BY Zenon DEF Sound, Viewed
  <2>5. \A x \in Keys \ {k} : Stays(x)
    BY <1>2, <2>3, Zenon DEF Stays
  <2> HIDE DEF k
  <2>6. StatusBar'[k] = "done" /\ OwnerBar'[k] = NoOwner /\ SpentBar'[k] = 0
    BY <2>3, Zenon DEF Viewed, Shows
  <2>7. \A x \in Keys \ {k} : Untouched(x)
    BY <2>5, StaysUntouched
  <2>8. Contract!Complete(k)
    BY <2>1, <2>4, <2>6, <2>7, OneKey, Zenon DEF Shows, Contract!Complete
  <2>9. QED
    BY <2>1, <2>8, Zenon DEF Contract!AbstractNext
<1>3. QED
  BY <1>1, <1>2, Zenon

LEMMA ContractReject ==
    ASSUME Sound, Viewed',
           NEW hd \in held, NEW g \in 0..Lag, NEW n \in Nonces,
           Reject(hd, g, n)
    PROVE  \E K \in SUBSET Keys : Contract!FailLeases(K)
<1> PICK l \in leases :
           /\ leases' = leases \ {l}
           /\ IF "Rejected" \in LeaseAllowed(l.state)
              THEN RetryOrPark({l.entry}, n, g)
              ELSE UNCHANGED <<ready, dead>>
           /\ UNCHANGED <<seen, held, done, purged>>
  BY Zenon DEF Reject, TakeLease
<1>1. RetryOrPark({l.entry}, n, g)
  BY DEF LeaseAllowed, Sound, TypeOK
<1>2. {m.entry : m \in {l}} = {l.entry} /\ {l} \in SUBSET leases /\ {l} # {}
  OBVIOUS
<1>3. RetryOrPark({m.entry : m \in {l}}, n, g)
  BY <1>1, <1>2, Zenon
<1>4. QED
  BY <1>2, <1>3, ContractFail, Zenon

LEMMA ContractRequeueExpired ==
    ASSUME Sound, Viewed',
           NEW g \in 0..Lag, NEW n \in Nonces, RequeueExpired(g, n)
    PROVE  \E K \in SUBSET Keys : Contract!FailLeases(K)
<1> DEFINE L == {l \in leases : IsExpired(l, g)}
<1>1. /\ L \in SUBSET leases
      /\ L # {}
      /\ leases' = leases \ L
      /\ RetryOrPark({l.entry : l \in L}, n, g)
      /\ UNCHANGED <<seen, held, done, purged>>
  BY DEF RequeueExpired
<1> HIDE DEF L
<1>2. QED
  BY <1>1, ContractFail

\* A release hands the attempt back: its lease had charged it.
LEMMA ContractRelease ==
    ASSUME Sound, Viewed', LeasesCharged,
           NEW hd \in held, NEW g \in 0..Lag, Release(hd, g)
    PROVE  \E k \in Keys : Contract!HandBack(k)
<1> DEFINE back(l) == AvailableIn(Refunded(l.entry), -g)
<1> PICK l \in leases :
           /\ leases' = leases \ {l}
           /\ ready' = ready \cup {back(l)}
           /\ UNCHANGED <<seen, dead, held, done, purged>>
  BY DEF Release, TakeLease
<1> DEFINE r == back(l)
           k == l.entry.key
<1>1. l.entry \in Entry /\ k \in Keys /\ -g \in Int /\ l.entry.attempt > 0
  BY TaskQueueAssumption DEF Sound, TypeOK, Lease, Entry, LeasesCharged
<1>2. r.key = k /\ r.attempt = l.entry.attempt - 1 /\ r \in ready'
  BY <1>1, EntryUpdates
<1>3. ready \subseteq ready'
  OBVIOUS
<1> HIDE DEF back, r
<1>4. Shows(k, "leased", l.id, l.entry.attempt)
  BY Zenon DEF Sound, Viewed
<1>5. \A x \in Keys \ {k} : Stays(x)
  BY <1>3 DEF Stays, AckedKeys
<1> HIDE DEF k
<1>6. StatusBar'[k] = "waiting" /\ OwnerBar'[k] = NoOwner
      /\ SpentBar'[k] = l.entry.attempt - 1
  BY <1>2, Zenon DEF Viewed, Shows
<1>7. \A x \in Keys \ {k} : Untouched(x)
  BY <1>5, StaysUntouched
<1>8. Contract!HandBack(k)
  BY <1>1, <1>4, <1>6, <1>7, OneKey, Zenon DEF Shows, Contract!HandBack
<1>9. QED
  BY <1>1, <1>8

LEMMA ContractReplay ==
    ASSUME Sound, Viewed', NEW t, NEW g \in 0..Lag, ReplayDeadLetter(t, g)
    PROVE  \E k \in Keys : Contract!Replay(k)
<1> DEFINE back(e) == AvailableIn(Readmitted(e), -g)
<1> PICK e \in dead :
           /\ dead' = dead \ {e}
           /\ ready' = ready \cup {back(e)}
           /\ UNCHANGED <<leases, seen, held, done, purged>>
  BY DEF ReplayDeadLetter
<1> DEFINE r == back(e)
           k == e.key
<1>1. e \in Entry /\ k \in Keys /\ -g \in Int
  BY TaskQueueAssumption DEF Sound, TypeOK, Entry
<1>2. r.key = k /\ r.attempt = e.attempt /\ r \in ready'
  BY <1>1, EntryUpdates, Zenon
<1>3. ready \subseteq ready'
  OBVIOUS
<1> HIDE DEF back, r
<1>4. Shows(k, "parked", NoOwner, e.attempt)
  BY Zenon DEF Sound, Viewed
<1>5. \A x \in Keys \ {k} : Stays(x)
  BY <1>3 DEF Stays, AckedKeys
<1> HIDE DEF k
<1>6. StatusBar'[k] = "waiting" /\ OwnerBar'[k] = NoOwner /\ SpentBar'[k] = e.attempt
  BY <1>2 DEF Viewed, Shows
<1>7. \A x \in Keys \ {k} : Untouched(x)
  BY <1>5, StaysUntouched
<1>8. OwnerBar' = OwnerBar
  <2>1. OwnerBar = [x \in Keys |-> OwnerBar[x]]
    BY DEF OwnerBar
  <2>2. OwnerBar' = [OwnerBar EXCEPT ![k] = NoOwner] /\ OwnerBar[k] = NoOwner
    BY <1>1, <1>4, <1>6, <1>7, OneKey, Zenon DEF Shows
  <2>3. QED
    BY <2>1, <2>2
<1>9. SpentBar' = SpentBar
  <2>1. SpentBar = [x \in Keys |-> SpentBar[x]]
    BY DEF SpentBar
  <2>2. SpentBar' = [SpentBar EXCEPT ![k] = e.attempt] /\ SpentBar[k] = e.attempt
    BY <1>1, <1>4, <1>6, <1>7, OneKey, Zenon DEF Shows
  <2>3. QED
    BY <2>1, <2>2
<1>10. Contract!Replay(k)
  BY <1>1, <1>4, <1>6, <1>7, <1>8, <1>9, OneKey, Zenon DEF Shows, Contract!Replay
<1>11. QED
  BY <1>1, <1>10

LEMMA ContractPurge ==
    ASSUME Sound, Viewed', NEW j, PurgeJob(j)
    PROVE  \E K \in SUBSET Keys : Contract!Drop(K)
<1> DEFINE D == {e \in ready : JobOf[e.key] = j}
           R == {l \in leases : JobOf[l.entry.key] = j}
           K == {e.key : e \in D} \cup {l.entry.key : l \in R}
<1>1. K \in SUBSET Keys /\ K # {}
  <2>1. \A e \in ready : e.key \in Keys
    BY DEF Sound, TypeOK, Entry
  <2>2. \A l \in leases : l.entry.key \in Keys
    BY DEF Sound, TypeOK, Lease, Entry
  <2>3. D # {} \/ R # {}
    BY Zenon DEF PurgeJob
  <2>4. QED
    BY <2>1, <2>2, <2>3, Zenon
<1>2. /\ ready' = ready \ D
      /\ leases' = leases \ R
      /\ purged' = purged \cup K
      /\ UNCHANGED <<seen, dead, held, done>>
  BY Zenon DEF PurgeJob
<1>3. \A x \in Keys \ K : Stays(x)
  BY <1>2, Zenon DEF Stays, AckedKeys
<1>4. \A x \in Keys \ K : Untouched(x)
  BY <1>3, StaysUntouched, Zenon
<1>5. K \subseteq Contract!In("waiting") \cup Contract!In("leased")
  BY <1>1 DEF Sound, Viewed, Shows, Contract!In
<1> HIDE DEF K
<1>6. \A x \in K : StatusBar'[x] = "dropped" /\ OwnerBar'[x] = NoOwner /\ SpentBar'[x] = 0
  BY <1>2, Zenon DEF Viewed, Shows
<1>7. /\ StatusBar' = [x \in Keys |-> IF x \in K THEN StatusBar'[x] ELSE StatusBar[x]]
      /\ OwnerBar' = [x \in Keys |-> IF x \in K THEN OwnerBar'[x] ELSE OwnerBar[x]]
      /\ SpentBar' = [x \in Keys |-> IF x \in K THEN SpentBar'[x] ELSE SpentBar[x]]
      /\ SpentBar = [x \in Keys |-> SpentBar[x]]
  BY <1>1, <1>4, ByKey, Zenon
<1>8. Contract!Drop(K)
  BY <1>1, <1>5, <1>6, <1>7, Zenon DEF Contract!Drop
<1>9. QED
  BY <1>1, <1>8

\* Extending a lease and the passing of time are invisible to the contract.
LEMMA ContractExtendLease ==
    ASSUME Sound, Viewed',
           NEW hd \in held, NEW d \in Extensions, NEW g \in 0..Lag,
           ExtendLease(hd, d, g)
    PROVE  UNCHANGED Contract!abstractVars
<1> DEFINE longer(l) ==
             [id |-> l.id, entry |-> l.entry, left |-> d - g, state |-> "Extended"]
<1> PICK l \in leases :
           /\ leases' = (leases \ {l}) \cup {longer(l)}
           /\ UNCHANGED <<ready, seen, dead, held, done, purged>>
  BY DEF ExtendLease, TakeLease
<1> DEFINE r == longer(l)
<1>1. r.id = l.id /\ r.entry = l.entry
  OBVIOUS
<1>2. leases' = (leases \ {l}) \cup {r}
  OBVIOUS
<1> HIDE DEF longer, r
<1>3. \A k \in Keys : Stays(k)
  BY <1>1, <1>2, Zenon DEF Stays, AckedKeys
<1>4. QED
  BY <1>3, NoKey

LEMMA ContractTick ==
    ASSUME Sound, Viewed', Tick
    PROVE  UNCHANGED Contract!abstractVars
<1>1. \A e \in ready \cup dead : Aged(e).key = e.key /\ Aged(e).attempt = e.attempt
  BY AgedEntry DEF Sound, TypeOK
<1>2. \A l \in leases : /\ AgedLease(l).id = l.id
                        /\ AgedLease(l).entry.key = l.entry.key
                        /\ AgedLease(l).entry.attempt = l.entry.attempt
  BY AgedEntry DEF Sound, TypeOK, AgedLease, Lease
<1>3. \A k \in Keys : Stays(k)
  BY <1>1, <1>2 DEF Tick, Stays, AckedKeys
<1>4. QED
  BY <1>3, NoKey

\* Every step of the queue is a step of the contract, or invisible to it.
LEMMA ContractStep ==
    Sound /\ Viewed' /\ LeasesCharged /\ [Next]_vars
        => [Contract!AbstractNext]_(Contract!abstractVars)
<1> SUFFICES ASSUME Sound, Viewed', LeasesCharged, [Next]_vars
             PROVE  Contract!AbstractNext \/ UNCHANGED Contract!abstractVars
  OBVIOUS
<1>1. CASE \E k \in Keys, a \in StartAttempts, d \in StartDelays : Enqueue(k, a, d)
  BY <1>1, ContractEnqueue DEF Contract!AbstractNext
<1>2. CASE \E id \in LeaseIds, g \in 0..Lag, offer \in Offers : Dequeue(id, g, offer)
  BY <1>2, ContractDequeue DEF Contract!AbstractNext
<1>3. CASE \E h \in held, g \in 0..Lag, n \in Nonces : Acknowledge(h, g, n)
  BY <1>3, ContractAcknowledge
<1>4. CASE \E h \in held, g \in 0..Lag, n \in Nonces : Reject(h, g, n)
  BY <1>4, ContractReject DEF Contract!AbstractNext
<1>5. CASE \E h \in held, g \in 0..Lag : Release(h, g)
  BY <1>5, ContractRelease DEF Contract!AbstractNext
<1>6. CASE \E h \in held, d \in Extensions, g \in 0..Lag : ExtendLease(h, d, g)
  BY <1>6, ContractExtendLease
<1>7. CASE \E g \in 0..Lag, n \in Nonces : RequeueExpired(g, n)
  BY <1>7, ContractRequeueExpired DEF Contract!AbstractNext
<1>8. CASE \E k \in Keys, g \in 0..Lag : ReplayDeadLetter(TaskOf[k], g)
  BY <1>8, ContractReplay DEF Contract!AbstractNext
<1>9. CASE \E k \in Keys : PurgeJob(JobOf[k])
  BY <1>9, ContractPurge DEF Contract!AbstractNext
<1>10. CASE \E h \in held : Forget(h)
  <2>1. \A k \in Keys : Stays(k)
    BY <1>10 DEF Forget, Stays, AckedKeys
  <2>2. QED
    BY <2>1, NoKey
<1>11. CASE Tick
  BY <1>11, ContractTick
<1>12. CASE UNCHANGED vars
  <2>1. \A k \in Keys : Stays(k)
    BY <1>12 DEF vars, Stays, AckedKeys
  <2>2. QED
    BY <2>1, NoKey
<1>13. QED
  BY <1>1, <1>2, <1>3, <1>4, <1>5, <1>6, <1>7, <1>8, <1>9, <1>10, <1>11, <1>12, Zenon
     DEF Next

\* The in-memory queue implements the delivery contract of the TaskQueue trait:
\* whatever the keys, clients and clocks, every operation of memory.rs is one
\* step of the contract or invisible to it.
THEOREM QueueImplementsContract == Spec => ImplementsContract
<1>1. Init => Contract!AbstractInit
  BY DEF Init, Contract!AbstractInit, StatusBar, OwnerBar, SpentBar, ReadyKeys,
         LeasedKeys, DeadKeys, AckedKeys
<1>2. Budgets => LeasesCharged
  BY DEF Budgets
<1>3. TypeOK /\ Places => Sound
  BY ViewOfRecords DEF Sound
<1>4. Sound => Viewed
  BY DEF Sound
<1>5. QED
  BY <1>1, <1>2, <1>3, <1>4, ContractStep, TypeCorrect, PlacesAlways, BudgetsAlways, PTL
     DEF Spec, ImplementsContract, Contract!AbstractSpec
=============================================================================
