------------------------- MODULE AgentRuntimeProofs ------------------------
(***************************************************************************)
(* For every set of tasks and deliveries, every assignment of attempts and *)
(* every set of answers: the runtime implements the write-once register,   *)
(* and an attempt calls the model at most once.                            *)
(***************************************************************************)
EXTENDS AgentRuntime, TLAPS

\* A record nothing in the runtime gave a lifetime.
Lasting(r) ==
    r \in [id : Nat, job : {"none", "job"}, value : {r.value}, version : Nat, updated : Nat,
           expires : {Never}]

Claimed == {"started", "call", "calling", "responded", "publish", "adopt", "completed"}

Replies == {Pending, Error} \cup
    [kind : {"ok"}, by : Deliveries, valid : BOOLEAN, deduplicated : BOOLEAN]

Shapes ==
    /\ pc \in [Deliveries -> {"queued", "done", "dropped"} \cup Steps]
    /\ answer \in [Deliveries -> Answers \cup {NoAnswer}]
    /\ reply \in [Deliveries -> Replies]
    /\ calls \subseteq Deliveries
    /\ store = [k \in StoreKeys |-> store[k]]
    /\ \A k \in StoreKeys : Lasting(store[k])
    /\ \A t \in Tasks : Stored(t) => Winner(t) \in Deliveries

\* A delivery past its claim holds it, and so does one that called the model.
ClaimsKept ==
    \A d \in Deliveries : pc[d] \in Claimed \/ d \in calls =>
        Held(ClaimKey(d)) /\ store[ClaimKey(d)].value = d

\* Only a delivery that is done has an answer to give, and one about to
\* return its own validated answer is the winner.
RepliesFollow ==
    \A d \in Deliveries :
        /\ reply[d].kind = "ok" => pc[d] = "done"
        /\ pc[d] = "adopt" => Stored(TaskOf[d])
        /\ pc[d] = "completed" /\ Passed(d) => Stored(TaskOf[d]) /\ Winner(TaskOf[d]) = d

RuntimeInv == Shapes /\ ClaimsKept /\ RepliesFollow

-----------------------------------------------------------------------------
(* Keys and records.                                                       *)

\* Claims, results and checkpoints are kept under different keys, and a
\* result key tells the task.
LEMMA KeysApart ==
  ASSUME NEW d \in Deliveries, NEW e \in Deliveries, NEW t \in Tasks, NEW u \in Tasks,
         NEW seq \in 0..2
  PROVE  /\ ClaimKey(d) \in StoreKeys /\ ResultKey(t) \in StoreKeys
         /\ CheckpointKey(d, seq) \in StoreKeys
         /\ ClaimKey(d) # ResultKey(t) /\ ClaimKey(d) # CheckpointKey(e, seq)
         /\ ResultKey(t) # CheckpointKey(e, seq)
         /\ ResultKey(t) = ResultKey(u) => t = u
         /\ ClaimKey(d) = ClaimKey(e) <=> (TaskOf[d] = TaskOf[e] /\ AttemptOf[d] = AttemptOf[e])
  BY DEF ClaimKey, ResultKey, CheckpointKey, StoreKeys

\* A record without a lifetime and with a version is lasting and found.
LEMMA NewRecord ==
  ASSUME NEW i \in Nat, NEW v, NEW n \in Nat \ {0}, NEW w,
         w = [id |-> i, job |-> "job", value |-> v, version |-> n, updated |-> 0,
              expires |-> -1]
  PROVE  Lasting(w) /\ Visible(w, 0) /\ w.value = v
<1>1. w.value = v /\ w.version = n /\ w.expires = -1
  OBVIOUS
<1>2. Visible(w, 0)
  BY <1>1 DEF Visible, is_expired, VERSION_ABSENT, Never
<1>3. w \in [id : Nat, job : {"none", "job"}, value : {v}, version : Nat, updated : Nat, expires : {-1}]
  OBVIOUS
<1>4. Lasting(w)
  BY <1>1, <1>3 DEF Lasting, Never
<1> QED
  BY <1>1, <1>2, <1>4

\* Writing a value leaves a lasting record that holds it.
LEMMA WrittenHolds ==
  ASSUME NEW r, Lasting(r), NEW v, NEW w, w = Written(r, Entry(v), 1, 0)
  PROVE  Lasting(w) /\ Visible(w, 0) /\ w.value = v
<1> USE DEF VERSION_ABSENT, NoTtl, Never
<1>1. r.version \in Nat /\ r.expires = -1 /\ r.id \in Nat /\ r.updated \in Nat
  BY DEF Lasting
<1>2. CASE Visible(r, 0)
  <2>1. w = [r EXCEPT !.value = v, !.updated = 0, !.version = r.version + 1, !.job = "job",
                      !.expires = r.expires]
    BY <1>2 DEF Written, bumped, Entry
  <2>2. w = [id |-> r.id, job |-> "job", value |-> v, version |-> r.version + 1,
             updated |-> 0, expires |-> -1]
    BY <1>1, <2>1 DEF Lasting
  <2> QED
    <3>1. r.version + 1 \in Nat \ {0}
      BY <1>1
    <3> QED
      BY <1>1, <2>2, <3>1, NewRecord
<1>3. CASE ~Visible(r, 0)
  <2>1. w = [id |-> 1, job |-> "job", value |-> v, version |-> 1, updated |-> 0, expires |-> -1]
    BY <1>3 DEF Written, fresh, Entry, expiry
  <2> QED
    BY <2>1, NewRecord
<1> QED
  BY <1>2, <1>3

\* A claim can be made exactly where nothing is held.
LEMMA ClaimsWhereVacant ==
  ASSUME NEW k \in StoreKeys, Lasting(store[k])
  PROVE  CanClaim(k) <=> ~Held(k)
  BY DEF CanClaim, CurrentVersion, Held, Visible, VERSION_ABSENT

\* What a write does to the store.
LEMMA PutWrites ==
  ASSUME NEW k \in StoreKeys, NEW v, put(k, v), Shapes
  PROVE  /\ store' = [j \in StoreKeys |-> store'[j]]
         /\ \A j \in StoreKeys : Lasting(store'[j])
         /\ \A j \in StoreKeys : j # k => store'[j] = store[j]
         /\ Visible(store'[k], 0) /\ store'[k].value = v
<1>1. PICK w : w = Written(store[k], Entry(v), 1, 0)
  OBVIOUS
<1>2. Lasting(w) /\ Visible(w, 0) /\ w.value = v
  BY <1>1, WrittenHolds DEF Shapes
<1>3. store' = [store EXCEPT ![k] = w]
  BY <1>1 DEF put
<1>4. store = [j \in StoreKeys |-> store[j]] /\ \A j \in StoreKeys : Lasting(store[j])
  BY DEF Shapes
<1> HIDE DEF Lasting, Visible
<1> QED
  BY <1>2, <1>3, <1>4
-----------------------------------------------------------------------------
(* The invariant.                                                          *)

\* Nothing is stored or answered when the runtime starts.
LEMMA RuntimeInit == Init => RuntimeInv
<1> SUFFICES ASSUME Init PROVE RuntimeInv
  OBVIOUS
<1>1. Lasting(Vacant) /\ ~Visible(Vacant, 0)
  BY DEF Lasting, Visible, Vacant, VERSION_ABSENT, Never
<1>2. \A k \in StoreKeys : store[k] = Vacant
  BY DEF Init
<1>3. \A k \in StoreKeys : Lasting(store[k]) /\ ~Held(k)
  BY <1>1, <1>2 DEF Held
<1>4. \A t \in Tasks : ~Stored(t)
  BY <1>3, KeysApart DEF Stored, StoreKeys
<1>5. Shapes
  BY <1>3, <1>4 DEF Init, Shapes, Replies, Steps
<1>6. ClaimsKept /\ RepliesFollow
  BY DEF Init, ClaimsKept, RepliesFollow, Claimed, Pending
<1> QED
  BY <1>5, <1>6 DEF RuntimeInv

\* A step of d that writes nothing and moves d to `to' keeps the invariant,
\* where d's reply and answer do not run ahead of the store.
LEMMA QuietStep ==
  ASSUME RuntimeInv, NEW d \in Deliveries, NEW to \in {"queued", "done", "dropped"} \cup Steps,
         pc' = [pc EXCEPT ![d] = to],
         to \in Claimed => pc[d] \in Claimed,
         store' = store,
         reply' \in [Deliveries -> Replies],
         \A e \in Deliveries : e # d => reply'[e] = reply[e],
         reply'[d].kind = "ok" => to = "done",
         answer' \in [Deliveries -> Answers \cup {NoAnswer}],
         \A e \in Deliveries : e # d => answer'[e] = answer[e],
         calls' \subseteq calls \cup {d}, d \in calls' => d \in calls \/ pc[d] \in Claimed,
         to = "adopt" => Stored(TaskOf[d]),
         to # "completed" \/ ~Passed(d)' \/ (Stored(TaskOf[d]) /\ Winner(TaskOf[d]) = d)
  PROVE  RuntimeInv'
<1>1. \A k \in StoreKeys : Held(k)' <=> Held(k)
  BY DEF Held
<1>2. \A t \in Tasks : (Stored(t)' <=> Stored(t)) /\ Winner(t)' = Winner(t)
  BY DEF Stored, Held, Winner
<1>3. Shapes'
  BY <1>2 DEF RuntimeInv, Shapes
<1>4. ClaimsKept'
  <2>1. \A e \in Deliveries : pc'[e] \in Claimed \/ e \in calls' => pc[e] \in Claimed \/ e \in calls
    BY DEF RuntimeInv, Shapes
  <2> QED
    BY <2>1 DEF RuntimeInv, ClaimsKept, Held
<1>5. RepliesFollow'
  <2> SUFFICES ASSUME NEW e \in Deliveries
               PROVE  /\ reply'[e].kind = "ok" => pc'[e] = "done"
                      /\ pc'[e] = "adopt" => Stored(TaskOf[e])'
                      /\ pc'[e] = "completed" /\ Passed(e)' =>
                            Stored(TaskOf[e])' /\ Winner(TaskOf[e])' = e
    BY DEF RepliesFollow
  <2>1. TaskOf[e] \in Tasks
    BY AgentRuntimeAssumption
  <2>2. CASE e = d
    BY <1>2, <2>1, <2>2 DEF RuntimeInv, Shapes
  <2>3. CASE e # d
    <3>1. pc'[e] = pc[e] /\ reply'[e] = reply[e] /\ answer'[e] = answer[e]
      BY <2>3 DEF RuntimeInv, Shapes
    <3>2. Passed(e)' <=> Passed(e)
      BY <3>1 DEF Passed
    <3> QED
      BY <1>2, <2>1, <3>1, <3>2 DEF RuntimeInv, RepliesFollow
  <2> QED
    BY <2>2, <2>3
<1> QED
  BY <1>3, <1>4, <1>5 DEF RuntimeInv
\* A write leaves the results of other keys alone, and a result it writes is
\* found.
LEMMA PutResults ==
  ASSUME Shapes, NEW k \in StoreKeys, NEW v, put(k, v)
  PROVE  \A t \in Tasks :
            /\ k # ResultKey(t) => (Stored(t)' <=> Stored(t)) /\ Winner(t)' = Winner(t)
            /\ k = ResultKey(t) => Stored(t)' /\ Winner(t)' = v.by
<1> SUFFICES ASSUME NEW t \in Tasks
             PROVE  /\ k # ResultKey(t) => (Stored(t)' <=> Stored(t)) /\ Winner(t)' = Winner(t)
                    /\ k = ResultKey(t) => Stored(t)' /\ Winner(t)' = v.by
  OBVIOUS
<1>1. /\ \A j \in StoreKeys : j # k => store'[j] = store[j]
      /\ Visible(store'[k], 0) /\ store'[k].value = v
  BY PutWrites
<1>2. ResultKey(t) \in StoreKeys
  BY DEF StoreKeys
<1>3. /\ Stored(t) <=> Visible(store[ResultKey(t)], 0)
      /\ Stored(t)' <=> Visible(store'[ResultKey(t)], 0)
      /\ Winner(t) = store[ResultKey(t)].value.by
      /\ Winner(t)' = store'[ResultKey(t)].value.by
  BY DEF Stored, Held, Winner, ResultKey
<1> QED
  BY <1>1, <1>2, <1>3

\* A step of d that writes v under k keeps the invariant, where k is not a
\* claim somebody holds nor a result that is there.
LEMMA WriteStep ==
  ASSUME RuntimeInv, NEW d \in Deliveries, NEW to \in {"done"} \cup Steps,
         NEW k \in StoreKeys, NEW v, put(k, v),
         pc' = [pc EXCEPT ![d] = to],
         \A e \in Deliveries : pc[e] \in Claimed \/ e \in calls => ClaimKey(e) # k,
         to \in Claimed => pc[d] \in Claimed \/ (k = ClaimKey(d) /\ v = d),
         \A t \in Tasks : k = ResultKey(t) => ~Stored(t) /\ v.by \in Deliveries,
         reply' \in [Deliveries -> Replies],
         \A e \in Deliveries : e # d => reply'[e] = reply[e],
         reply'[d].kind = "ok" => to = "done",
         answer' = answer, calls' = calls,
         to # "adopt",
         to # "completed" \/ ~Passed(d) \/ (k = ResultKey(TaskOf[d]) /\ v.by = d)
  PROVE  RuntimeInv'
<1>1. /\ store' = [j \in StoreKeys |-> store'[j]]
      /\ \A j \in StoreKeys : Lasting(store'[j])
      /\ \A j \in StoreKeys : j # k => store'[j] = store[j]
      /\ Visible(store'[k], 0) /\ store'[k].value = v
  BY PutWrites DEF RuntimeInv
<1>2. \A t \in Tasks :
         /\ k # ResultKey(t) => (Stored(t)' <=> Stored(t)) /\ Winner(t)' = Winner(t)
         /\ k = ResultKey(t) => Stored(t)' /\ Winner(t)' = v.by
  BY PutResults DEF RuntimeInv
<1>3. Shapes'
  <2>1. /\ pc' \in [Deliveries -> {"queued", "done", "dropped"} \cup Steps]
        /\ answer' \in [Deliveries -> Answers \cup {NoAnswer}]
        /\ calls' \subseteq Deliveries
    BY DEF RuntimeInv, Shapes
  <2>2. \A t \in Tasks : Stored(t)' => Winner(t)' \in Deliveries
    BY <1>2 DEF RuntimeInv, Shapes
  <2> QED
    BY <1>1, <2>1, <2>2 DEF Shapes
<1>4. ClaimsKept'
  <2> SUFFICES ASSUME NEW e \in Deliveries, pc'[e] \in Claimed \/ e \in calls'
               PROVE  Visible(store'[ClaimKey(e)], 0) /\ store'[ClaimKey(e)].value = e
    BY DEF ClaimsKept, Held, ClaimKey
  <2>1. ClaimKey(e) \in StoreKeys
    BY DEF StoreKeys
  <2>2. CASE pc[e] \in Claimed \/ e \in calls
    BY <1>1, <2>1, <2>2 DEF RuntimeInv, ClaimsKept, Held
  <2>3. CASE ~(pc[e] \in Claimed \/ e \in calls)
    <3>1. e = d /\ to \in Claimed
      BY <2>3 DEF RuntimeInv, Shapes
    <3> QED
      BY <1>1, <2>3, <3>1
  <2> QED
    BY <2>2, <2>3
<1>5. RepliesFollow'
  <2> SUFFICES ASSUME NEW e \in Deliveries
               PROVE  /\ reply'[e].kind = "ok" => pc'[e] = "done"
                      /\ pc'[e] = "adopt" => Stored(TaskOf[e])'
                      /\ pc'[e] = "completed" /\ Passed(e)' =>
                            Stored(TaskOf[e])' /\ Winner(TaskOf[e])' = e
    BY DEF RepliesFollow
  <2>1. TaskOf[e] \in Tasks
    BY AgentRuntimeAssumption
  <2>2. Passed(e)' <=> Passed(e)
    BY DEF Passed
  <2>3. CASE e = d
    BY <1>2, <2>1, <2>2, <2>3 DEF RuntimeInv, Shapes
  <2>4. CASE e # d
    <3>1. pc'[e] = pc[e] /\ reply'[e] = reply[e]
      BY <2>4 DEF RuntimeInv, Shapes
    <3>2. Stored(TaskOf[e]) => Stored(TaskOf[e])' /\ Winner(TaskOf[e])' = Winner(TaskOf[e])
      BY <1>2, <2>1
    <3> QED
      BY <2>2, <3>1, <3>2 DEF RuntimeInv, RepliesFollow
  <2> QED
    BY <2>3, <2>4
<1> QED
  BY <1>3, <1>4, <1>5 DEF RuntimeInv
\* The parts of the invariant that a step of d uses most.
LEMMA AtDelivery ==
  ASSUME RuntimeInv, NEW d \in Deliveries
  PROVE  /\ pc \in [Deliveries -> {"queued", "done", "dropped"} \cup Steps]
         /\ reply \in [Deliveries -> Replies]
         /\ answer \in [Deliveries -> Answers \cup {NoAnswer}]
         /\ calls \subseteq Deliveries
         /\ TaskOf[d] \in Tasks
         /\ ResultKey(TaskOf[d]) \in StoreKeys /\ ClaimKey(d) \in StoreKeys
         /\ \A seq \in 0..2 : CheckpointKey(d, seq) \in StoreKeys
         /\ CanClaim(ClaimKey(d)) <=> ~Held(ClaimKey(d))
         /\ CanClaim(ResultKey(TaskOf[d])) <=> ~Stored(TaskOf[d])
<1>1. TaskOf[d] \in Tasks
  BY AgentRuntimeAssumption
<1>2. /\ ResultKey(TaskOf[d]) \in StoreKeys /\ ClaimKey(d) \in StoreKeys
      /\ \A seq \in 0..2 : CheckpointKey(d, seq) \in StoreKeys
  BY <1>1 DEF StoreKeys
<1>3. \A k \in StoreKeys : Lasting(store[k])
  BY DEF RuntimeInv, Shapes
<1> QED
  BY <1>1, <1>2, <1>3, ClaimsWhereVacant DEF RuntimeInv, Shapes, Stored

\* Returning the stored result, or an error, is a reply of the right shape.
LEMMA ReturnsShaped ==
  ASSUME RuntimeInv, NEW d \in Deliveries, NEW r, Return(d, r),
         r = Error \/ (Stored(TaskOf[d]) /\ r = Ok(Winner(TaskOf[d]), TRUE, TRUE))
  PROVE  /\ pc' = [pc EXCEPT ![d] = "done"]
         /\ reply' \in [Deliveries -> Replies]
         /\ \A e \in Deliveries : e # d => reply'[e] = reply[e]
         /\ reply'[d] = r
<1>1. TaskOf[d] \in Tasks
  BY AgentRuntimeAssumption
<1>2. r \in Replies
  <2>1. CASE r = Error
    BY <2>1 DEF Replies
  <2>2. CASE Stored(TaskOf[d]) /\ r = Ok(Winner(TaskOf[d]), TRUE, TRUE)
    <3>1. Winner(TaskOf[d]) \in Deliveries
      BY <1>1, <2>2 DEF RuntimeInv, Shapes
    <3>2. PICK w \in Deliveries : w = Winner(TaskOf[d])
      BY <3>1
    <3>3. r = [kind |-> "ok", by |-> w, valid |-> TRUE, deduplicated |-> TRUE]
      BY <2>2, <3>2 DEF Ok
    <3> QED
      BY <3>3 DEF Replies
  <2> QED
    BY <2>1, <2>2
<1> HIDE DEF Replies
<1> QED
  BY <1>2, AtDelivery DEF Return, Goto

\* Every step of the runtime keeps the invariant.
LEMMA RuntimeStep == RuntimeInv /\ [Next]_vars => RuntimeInv'
<1> SUFFICES ASSUME RuntimeInv, [Next]_vars PROVE RuntimeInv'
  OBVIOUS
<1>0. CASE UNCHANGED vars
  BY <1>0 DEF vars, RuntimeInv, Shapes, ClaimsKept, RepliesFollow, Stored, Held, Winner, Passed
<1> SUFFICES ASSUME NEW d \in Deliveries, Deliver(d) \/ Step(d) \/ Drop(d) PROVE RuntimeInv'
  BY <1>0 DEF Next
<1>a. /\ pc \in [Deliveries -> {"queued", "done", "dropped"} \cup Steps]
      /\ reply \in [Deliveries -> Replies]
      /\ answer \in [Deliveries -> Answers \cup {NoAnswer}]
      /\ calls \subseteq Deliveries
      /\ TaskOf[d] \in Tasks
      /\ ResultKey(TaskOf[d]) \in StoreKeys /\ ClaimKey(d) \in StoreKeys
      /\ \A seq \in 0..2 : CheckpointKey(d, seq) \in StoreKeys
      /\ CanClaim(ClaimKey(d)) <=> ~Held(ClaimKey(d))
      /\ CanClaim(ResultKey(TaskOf[d])) <=> ~Stored(TaskOf[d])
  BY AtDelivery
<1>b. reply[d].kind = "ok" => pc[d] = "done"
  BY DEF RuntimeInv, RepliesFollow
<1>c. \A e \in Deliveries : pc[e] \in Claimed \/ e \in calls =>
         Held(ClaimKey(e)) /\ store[ClaimKey(e)].value = e
  BY DEF RuntimeInv, ClaimsKept
<1>d. Error.kind = "error"
  BY DEF Error
<1>e. ASSUME NEW r, Return(d, r), store' = store, answer' = answer, calls' = calls,
             r = Error \/ (Stored(TaskOf[d]) /\ r = Ok(Winner(TaskOf[d]), TRUE, TRUE))
      PROVE  RuntimeInv'
  <2>1. /\ pc' = [pc EXCEPT ![d] = "done"]
        /\ reply' \in [Deliveries -> Replies]
        /\ \A e \in Deliveries : e # d => reply'[e] = reply[e]
    BY <1>e, ReturnsShaped
  <2> QED
    BY <1>a, <1>e, <2>1, QuietStep DEF Claimed
<1>f. ASSUME NEW to \in Steps \cup {"dropped"}, Goto(d, to), pc[d] # "done",
             store' = store, answer' = answer, reply' = reply, calls' = calls,
             to \in Claimed => pc[d] \in Claimed,
             to = "adopt" => Stored(TaskOf[d]), to # "completed"
      PROVE  RuntimeInv'
  BY <1>a, <1>b, <1>f, QuietStep DEF Goto
<1>g. ASSUME NEW seq \in 0..2, NEW validated, Checkpoint(d, seq, validated),
             NEW to \in {"done"} \cup Steps, pc' = [pc EXCEPT ![d] = to],
             pc[d] \in Claimed, answer' = answer, calls' = calls,
             reply' \in [Deliveries -> Replies],
             \A e \in Deliveries : e # d => reply'[e] = reply[e],
             reply'[d].kind = "ok" => to = "done",
             to # "adopt", to # "completed" \/ ~Passed(d)
      PROVE  RuntimeInv'
  <2>1. \A e \in Deliveries : ClaimKey(e) # CheckpointKey(d, seq)
    BY <1>a, KeysApart
  <2>2. \A t \in Tasks : CheckpointKey(d, seq) # ResultKey(t)
    BY <1>a, KeysApart
  <2> QED
    BY <1>a, <1>g, <2>1, <2>2, WriteStep DEF Checkpoint
<1>1. CASE Deliver(d)
  BY <1>1, <1>a, <1>f DEF Deliver, Steps, Claimed
<1>2. CASE Look(d)
  <2>1. CASE Stored(TaskOf[d]) /\ ReturnStored(d)
    BY <1>2, <1>e, <2>1 DEF Look, ReturnStored
  <2>2. CASE ~Stored(TaskOf[d]) /\ Goto(d, "claim") /\ UNCHANGED reply
    BY <1>2, <1>f, <2>2 DEF Look, Steps, Claimed
  <2> QED
    BY <1>2, <2>1, <2>2 DEF Look
<1>3. CASE ClaimAttempt(d)
  <2>1. CASE CanClaim(ClaimKey(d)) /\ put(ClaimKey(d), d) /\ Goto(d, "started")
    <3>1. \A e \in Deliveries : pc[e] \in Claimed \/ e \in calls => ClaimKey(e) # ClaimKey(d)
      BY <1>a, <1>c, <2>1
    <3>2. \A t \in Tasks : ClaimKey(d) # ResultKey(t)
      BY KeysApart
    <3>3. reply[d].kind # "ok"
      BY <1>b, <1>3 DEF ClaimAttempt
    <3> QED
      BY <1>a, <1>3, <2>1, <3>1, <3>2, <3>3, WriteStep DEF ClaimAttempt, Goto, Steps
  <2>2. CASE ~CanClaim(ClaimKey(d)) /\ Goto(d, "recheck") /\ UNCHANGED store
    BY <1>3, <1>f, <2>2 DEF ClaimAttempt, Steps, Claimed
  <2> QED
    BY <1>3, <2>1, <2>2 DEF ClaimAttempt
<1>4. CASE Recheck(d)
  <2>1. CASE Stored(TaskOf[d]) /\ ReturnStored(d)
    BY <1>4, <1>e, <2>1 DEF Recheck, ReturnStored
  <2>2. CASE ~Stored(TaskOf[d]) /\ Return(d, Error)
    BY <1>4, <1>e, <2>2 DEF Recheck
  <2> QED
    BY <1>4, <2>1, <2>2 DEF Recheck
<1>5. CASE CheckpointStarted(d)
  <2>1. /\ Checkpoint(d, 0, FALSE) /\ pc' = [pc EXCEPT ![d] = "call"] /\ pc[d] \in Claimed
        /\ answer' = answer /\ calls' = calls /\ reply' = reply /\ reply[d].kind # "ok"
    BY <1>5, <1>b DEF CheckpointStarted, Goto, Claimed
  <2>2. 0 \in 0..2 /\ "call" \in Steps
    BY DEF Steps
  <2> QED
    BY <1>a, <1>g, <2>1, <2>2
<1>6. CASE CallModel(d)
  <2>1. reply[d].kind # "ok"
    BY <1>6, <1>b DEF CallModel
  <2> QED
    BY <1>6, <1>a, <2>1, QuietStep DEF CallModel, Goto, Steps, Claimed
<1>7. CASE ModelAnswers(d)
  <2>1. PICK a \in Answers : answer' = [answer EXCEPT ![d] = a]
    BY <1>7 DEF ModelAnswers
  <2>2. /\ answer' \in [Deliveries -> Answers \cup {NoAnswer}]
        /\ \A e \in Deliveries : e # d => answer'[e] = answer[e]
    BY <1>a, <2>1
  <2>3. reply[d].kind # "ok"
    BY <1>7, <1>b DEF ModelAnswers
  <2> QED
    BY <1>7, <1>a, <2>2, <2>3, QuietStep DEF ModelAnswers, Goto, Steps, Claimed
<1>8. CASE ModelFails(d)
  BY <1>8, <1>e DEF ModelFails
<1>9. CASE CheckpointResponded(d)
  <2>1. PICK to \in {"publish", "completed"} : Goto(d, to) /\ (to = "completed" => ~Passed(d))
    BY <1>9 DEF CheckpointResponded
  <2> QED
    <3>1. /\ Checkpoint(d, 1, FALSE) /\ pc' = [pc EXCEPT ![d] = to] /\ pc[d] \in Claimed
          /\ answer' = answer /\ calls' = calls /\ reply' = reply /\ reply[d].kind # "ok"
      BY <1>9, <1>b, <2>1 DEF CheckpointResponded, Goto, Claimed
    <3>2. 1 \in 0..2 /\ to \in Steps /\ to # "adopt"
      BY <2>1 DEF Steps
    <3> QED
      BY <1>a, <1>g, <2>1, <3>1, <3>2
<1>10. CASE Publish(d)
  <2> DEFINE k == ResultKey(TaskOf[d])
  <2>1. CASE CanClaim(k) /\ put(k, Result(d)) /\ Goto(d, "completed")
    <3>1. \A e \in Deliveries : ClaimKey(e) # k
      BY <1>a, KeysApart
    <3>2. \A t \in Tasks : k = ResultKey(t) => t = TaskOf[d]
      BY <1>a DEF ResultKey
    <3>3. Result(d).by = d
      BY DEF Result
    <3>4. reply[d].kind # "ok" /\ pc[d] \in Claimed
      BY <1>b, <1>10 DEF Publish, Claimed
    <3>5. pc' = [pc EXCEPT ![d] = "completed"] /\ answer' = answer /\ reply' = reply /\ calls' = calls
      BY <1>10, <2>1 DEF Publish, Goto
    <3> QED
      BY <1>a, <2>1, <3>1, <3>2, <3>3, <3>4, <3>5, WriteStep DEF Steps
  <2>2. CASE ~CanClaim(k) /\ Goto(d, "adopt") /\ UNCHANGED store
    BY <1>10, <1>a, <1>f, <2>2 DEF Publish, Steps, Claimed
  <2> QED
    BY <1>10, <2>1, <2>2 DEF Publish
<1>11. CASE Adopt(d)
  <2>1. Stored(TaskOf[d])
    BY <1>11 DEF Adopt, RuntimeInv, RepliesFollow
  <2> QED
    BY <1>11, <1>e, <2>1 DEF Adopt, ReturnStored
<1>12. CASE CheckpointCompleted(d)
  <2>1. Ok(d, Passed(d), FALSE) \in Replies
    BY DEF Ok, Replies, Passed
  <2>2. /\ reply' \in [Deliveries -> Replies] /\ pc' = [pc EXCEPT ![d] = "done"]
        /\ \A e \in Deliveries : e # d => reply'[e] = reply[e]
    <3> HIDE DEF Replies
    <3> QED
      BY <1>12, <1>a, <2>1 DEF CheckpointCompleted, Return, Goto
  <2> QED
    <3>1. /\ Checkpoint(d, 2, Passed(d)) /\ pc[d] \in Claimed
          /\ answer' = answer /\ calls' = calls
      BY <1>12 DEF CheckpointCompleted, Claimed
    <3>2. 2 \in 0..2
      OBVIOUS
    <3> QED
      BY <1>g, <2>2, <3>1, <3>2
<1>13. CASE Drop(d)
  BY <1>13, <1>f DEF Drop, Steps, Claimed
<1> QED
  BY <1>1, <1>2, <1>3, <1>4, <1>5, <1>6, <1>7, <1>8, <1>9, <1>10, <1>11, <1>12, <1>13 DEF Step
-----------------------------------------------------------------------------
(* The theorems.                                                           *)

\* The inductive invariant holds throughout.
LEMMA RuntimeInvariant == Spec => []RuntimeInv
  BY RuntimeInit, RuntimeStep, PTL DEF Spec

\* Whatever is delivered, retried or dropped, the state of the runtime keeps
\* its shape, and a stored result names the delivery that produced it
\* (Agent::execute).
THEOREM RuntimeTypes == Spec => []TypeOK
<1>1. RuntimeInv => TypeOK
  <2> SUFFICES ASSUME RuntimeInv PROVE TypeOK
    OBVIOUS
  <2>1. DOMAIN store = StoreKeys
    BY DEF RuntimeInv, Shapes
  <2>2. \A r \in Replies : r.kind \in {"pending", "error", "ok"}
    BY DEF Replies, Pending, Error
  <2>3. \A d \in Deliveries : reply[d].kind \in {"pending", "error", "ok"}
    BY <2>2 DEF RuntimeInv, Shapes
  <2> QED
    BY <2>1, <2>3 DEF RuntimeInv, Shapes, TypeOK
<1> QED
  BY <1>1, RuntimeInvariant, PTL

\* An attempt calls the model at most once, however often it is delivered and
\* however its deliveries interleave: the claim is made before the call and is
\* never given up (Agent::execute).
THEOREM OneCallPerAttempt == Spec => []CalledOncePerAttempt
<1>1. RuntimeInv => CalledOncePerAttempt
  <2> SUFFICES ASSUME RuntimeInv, NEW d \in calls, NEW e \in calls,
                      TaskOf[d] = TaskOf[e], AttemptOf[d] = AttemptOf[e]
               PROVE  d = e
    BY DEF CalledOncePerAttempt
  <2>1. d \in Deliveries /\ e \in Deliveries
    BY DEF RuntimeInv, Shapes
  <2>2. store[ClaimKey(d)].value = d /\ store[ClaimKey(e)].value = e
    BY <2>1 DEF RuntimeInv, ClaimsKept
  <2>3. ClaimKey(d) = ClaimKey(e)
    BY DEF ClaimKey
  <2> QED
    BY <2>2, <2>3
<1> QED
  BY <1>1, RuntimeInvariant, PTL

\* What the register sees of a step of d: only d's reply and its task's
\* result can change.
LEMMA RegisterUnchanged ==
  ASSUME
         \A t \in Tasks : (Stored(t)' <=> Stored(t)) /\ Winner(t)' = Winner(t)
  PROVE  ChosenBar' = ChosenBar
  BY DEF ChosenBar

\* A step of d that leaves it under way is invisible in the replies.
LEMMA ReplyUnchanged ==
  ASSUME RuntimeInv, NEW d \in Deliveries, NEW to \in Steps,
         pc[d] \in {"queued"} \cup Steps, pc' = [pc EXCEPT ![d] = to], reply' = reply
  PROVE  ReplyBar' = ReplyBar
<1>1. \A e \in Deliveries : pc'[e] \in {"queued"} \cup Steps <=> pc[e] \in {"queued"} \cup Steps
  BY DEF RuntimeInv, Shapes
<1> QED
  BY <1>1 DEF ReplyBar

\* A step that ends d gives it the reply its state calls for and changes no
\* other.
LEMMA ReplyEnds ==
  ASSUME RuntimeInv, NEW d \in Deliveries, NEW to \in {"done", "dropped"}, NEW r,
         pc[d] \in Steps, pc' = [pc EXCEPT ![d] = to],
         reply' \in [Deliveries -> Replies],
         \A e \in Deliveries : e # d => reply'[e] = reply[e],
         r = IF reply'[d].kind = "ok" /\ reply'[d].valid THEN reply'[d].by ELSE "unanswered"
  PROVE  ReplyBar[d] = "pending" /\ ReplyBar' = [ReplyBar EXCEPT ![d] = r]
<1>1. reply[d].kind # "ok"
  BY DEF RuntimeInv, RepliesFollow, Steps
<1>2. ReplyBar[d] = "pending"
  BY <1>1 DEF ReplyBar
<1>3. pc'[d] = to /\ to \notin {"queued"} \cup Steps
  BY DEF RuntimeInv, Shapes, Steps
<1>4. ReplyBar'[d] = r
  BY <1>3 DEF ReplyBar
<1>5. \A e \in Deliveries : e # d => ReplyBar'[e] = ReplyBar[e]
  <2> SUFFICES ASSUME NEW e \in Deliveries, e # d PROVE ReplyBar'[e] = ReplyBar[e]
    OBVIOUS
  <2>1. pc'[e] = pc[e] /\ reply'[e] = reply[e]
    BY DEF RuntimeInv, Shapes
  <2> QED
    BY <2>1 DEF ReplyBar
<1>6. /\ ReplyBar = [e \in Deliveries |-> ReplyBar[e]]
      /\ ReplyBar' = [e \in Deliveries |-> ReplyBar'[e]]
  BY DEF ReplyBar
<1> HIDE DEF ReplyBar
<1> QED
  BY <1>2, <1>4, <1>5, <1>6
\* A step of the runtime is a step of the register, or invisible to it.
LEMMA RegisterStep ==
  RuntimeInv /\ [Next]_vars => [Register!Next]_(Register!registerVars)
<1> SUFFICES ASSUME RuntimeInv, [Next]_vars
             PROVE  [Register!Next]_(Register!registerVars)
  OBVIOUS
<1> USE DEF Register!registerVars
<1>0. CASE UNCHANGED vars
  <2>1. ChosenBar' = ChosenBar
    BY <1>0 DEF vars, ChosenBar, Stored, Held, Winner
  <2>2. ReplyBar' = ReplyBar
    BY <1>0 DEF vars, ReplyBar
  <2> QED
    BY <2>1, <2>2
<1> SUFFICES ASSUME NEW d \in Deliveries, Deliver(d) \/ Step(d) \/ Drop(d)
             PROVE  [Register!Next]_(Register!registerVars)
  BY <1>0 DEF Next
<1>a. /\ pc \in [Deliveries -> {"queued", "done", "dropped"} \cup Steps]
      /\ reply \in [Deliveries -> Replies]
      /\ TaskOf[d] \in Tasks
      /\ ResultKey(TaskOf[d]) \in StoreKeys /\ ClaimKey(d) \in StoreKeys
      /\ \A seq \in 0..2 : CheckpointKey(d, seq) \in StoreKeys
      /\ CanClaim(ResultKey(TaskOf[d])) <=> ~Stored(TaskOf[d])
  BY AtDelivery
<1>b. /\ ChosenBar[TaskOf[d]] = IF Stored(TaskOf[d]) THEN Winner(TaskOf[d]) ELSE "none"
      /\ Stored(TaskOf[d]) => Winner(TaskOf[d]) \in Deliveries /\ Winner(TaskOf[d]) # "none"
  BY <1>a, AgentRuntimeAssumption DEF ChosenBar, RuntimeInv, Shapes
<1>c. ASSUME store' = store PROVE ChosenBar' = ChosenBar
  BY <1>c DEF ChosenBar, Stored, Held, Winner
<1>d. ASSUME NEW k \in StoreKeys, NEW v, put(k, v), \A t \in Tasks : k # ResultKey(t)
      PROVE  ChosenBar' = ChosenBar
  <2>1. \A t \in Tasks : (Stored(t)' <=> Stored(t)) /\ Winner(t)' = Winner(t)
    BY <1>d, PutResults DEF RuntimeInv
  <2> QED
    BY <2>1, RegisterUnchanged
<1>e. ASSUME ChosenBar' = ChosenBar, NEW to \in Steps, pc[d] \in {"queued"} \cup Steps,
             Goto(d, to), reply' = reply
      PROVE  UNCHANGED Register!registerVars
  BY <1>e, ReplyUnchanged DEF Goto
<1>f. ASSUME store' = store, pc[d] \in Steps, Return(d, Error)
      PROVE  Register!GiveUp(d)
  <2>1. /\ pc' = [pc EXCEPT ![d] = "done"] /\ reply' \in [Deliveries -> Replies]
        /\ \A e \in Deliveries : e # d => reply'[e] = reply[e]
        /\ reply'[d] = Error
    BY <1>f, ReturnsShaped
  <2>2. reply'[d].kind # "ok"
    BY <2>1 DEF Error
  <2>3. ReplyBar[d] = "pending" /\ ReplyBar' = [ReplyBar EXCEPT ![d] = "unanswered"]
    BY <1>f, <2>1, <2>2, ReplyEnds
  <2> QED
    BY <1>c, <1>f, <2>3 DEF Register!GiveUp
<1>g. ASSUME store' = store, pc[d] \in Steps, Stored(TaskOf[d]), ReturnStored(d)
      PROVE  Register!Answer(d)
  <2>1. PICK r : r = Ok(Winner(TaskOf[d]), TRUE, TRUE)
    OBVIOUS
  <2>2. /\ pc' = [pc EXCEPT ![d] = "done"] /\ reply' \in [Deliveries -> Replies]
        /\ \A e \in Deliveries : e # d => reply'[e] = reply[e]
        /\ reply'[d] = r
    BY <1>g, <2>1, ReturnsShaped DEF ReturnStored
  <2>3. r.kind = "ok" /\ r.valid /\ r.by = Winner(TaskOf[d])
    BY <2>1 DEF Ok
  <2>4. ReplyBar[d] = "pending" /\ ReplyBar' = [ReplyBar EXCEPT ![d] = Winner(TaskOf[d])]
    BY <1>g, <2>2, <2>3, ReplyEnds
  <2> QED
    BY <1>b, <1>c, <1>g, <2>4 DEF Register!Answer
<1>h. ASSUME NEW seq \in 0..2, NEW validated, Checkpoint(d, seq, validated)
      PROVE  ChosenBar' = ChosenBar
  <2>1. \A t \in Tasks : CheckpointKey(d, seq) # ResultKey(t)
    BY <1>h, KeysApart
  <2> QED
    BY <1>a, <1>d, <1>h, <2>1 DEF Checkpoint
<1>1. CASE Deliver(d)
  BY <1>1, <1>c, <1>e DEF Deliver, Steps
<1>2. CASE Look(d)
  <2>1. CASE Stored(TaskOf[d]) /\ ReturnStored(d)
    BY <1>2, <1>g, <2>1 DEF Look, Steps, Register!Next
  <2>2. CASE ~Stored(TaskOf[d]) /\ Goto(d, "claim") /\ UNCHANGED reply
    BY <1>2, <1>c, <1>e, <2>2 DEF Look, Steps
  <2> QED
    BY <1>2, <2>1, <2>2 DEF Look
<1>3. CASE ClaimAttempt(d)
  <2>1. ChosenBar' = ChosenBar
    <3>1. \A t \in Tasks : ClaimKey(d) # ResultKey(t)
      BY KeysApart
    <3> QED
      BY <1>3, <1>a, <1>c, <1>d, <3>1 DEF ClaimAttempt
  <2> QED
    BY <1>3, <1>e, <2>1 DEF ClaimAttempt, Steps
<1>4. CASE Recheck(d)
  BY <1>4, <1>f, <1>g DEF Recheck, Steps, Register!Next
<1>5. CASE CheckpointStarted(d)
  <2>1. ChosenBar' = ChosenBar
    <3>1. 0 \in 0..2
      OBVIOUS
    <3>2. Checkpoint(d, 0, FALSE)
      BY <1>5, Zenon DEF CheckpointStarted
    <3> QED
      BY <3>1, <3>2, <1>h
  <2> QED
    BY <1>5, <1>e, <2>1 DEF CheckpointStarted, Steps
<1>6. CASE CallModel(d)
  BY <1>6, <1>c, <1>e DEF CallModel, Steps
<1>7. CASE ModelAnswers(d)
  BY <1>7, <1>c, <1>e DEF ModelAnswers, Steps
<1>8. CASE ModelFails(d)
  BY <1>8, <1>f DEF ModelFails, Steps, Register!Next
<1>9. CASE CheckpointResponded(d)
  <2>1. ChosenBar' = ChosenBar
    <3>1. 1 \in 0..2
      OBVIOUS
    <3>2. Checkpoint(d, 1, FALSE)
      BY <1>9, Zenon DEF CheckpointResponded
    <3> QED
      BY <3>1, <3>2, <1>h
  <2>2. PICK to \in {"publish", "completed"} : Goto(d, to)
    BY <1>9 DEF CheckpointResponded
  <2> QED
    BY <1>9, <1>e, <2>1, <2>2 DEF CheckpointResponded, Steps
<1>10. CASE Publish(d)
  <2> DEFINE k == ResultKey(TaskOf[d])
  <2>1. CASE CanClaim(k) /\ put(k, Result(d)) /\ Goto(d, "completed")
    <3>1. \A t \in Tasks : k = ResultKey(t) <=> t = TaskOf[d]
      BY <1>a DEF ResultKey
    <3>2. Result(d).by = d
      BY DEF Result
    <3>3. \A t \in Tasks :
             /\ t # TaskOf[d] => (Stored(t)' <=> Stored(t)) /\ Winner(t)' = Winner(t)
             /\ t = TaskOf[d] => Stored(t)' /\ Winner(t)' = d
      BY <1>a, <2>1, <3>1, <3>2, PutResults DEF RuntimeInv
    <3>4. ChosenBar' = [ChosenBar EXCEPT ![TaskOf[d]] = d]
      BY <3>3, <1>a DEF ChosenBar
    <3>5. ChosenBar[TaskOf[d]] = "none"
      BY <1>a, <1>b, <2>1
    <3>6. ReplyBar' = ReplyBar
      BY <1>10, <2>1, ReplyUnchanged DEF Publish, Goto, Steps
    <3>7. ReplyBar[d] = "pending"
      BY <1>10 DEF Publish, ReplyBar, RuntimeInv, RepliesFollow, Steps
    <3>8. Register!Choose(d)
      BY <3>4, <3>5, <3>6, <3>7 DEF Register!Choose
    <3> QED
      BY <3>8 DEF Register!Next
  <2>2. CASE ~CanClaim(k) /\ Goto(d, "adopt") /\ UNCHANGED store
    BY <1>10, <1>c, <1>e, <2>2 DEF Publish, Steps
  <2> QED
    BY <1>10, <2>1, <2>2 DEF Publish
<1>11. CASE Adopt(d)
  <2>1. Stored(TaskOf[d])
    BY <1>11 DEF Adopt, RuntimeInv, RepliesFollow
  <2> QED
    BY <1>11, <1>g, <2>1 DEF Adopt, Steps, Register!Next
<1>12. CASE CheckpointCompleted(d)
  <2>1. ChosenBar' = ChosenBar
    BY <1>12, <1>h DEF CheckpointCompleted
  <2>2. Passed(d) \in BOOLEAN
    BY DEF Passed
  <2>3. PICK p \in BOOLEAN : p = Passed(d)
    BY <2>2
  <2>4. PICK r : r = [kind |-> "ok", by |-> d, valid |-> p, deduplicated |-> FALSE]
    OBVIOUS
  <2>5. r \in Replies /\ r.kind = "ok" /\ r.by = d /\ r.valid = p
    BY <2>4 DEF Replies
  <2>6. pc' = [pc EXCEPT ![d] = "done"] /\ reply' = [reply EXCEPT ![d] = r]
    BY <1>12, <2>3, <2>4 DEF CheckpointCompleted, Return, Goto, Ok
  <2>7. /\ reply' \in [Deliveries -> Replies] /\ reply'[d] = r
        /\ \A e \in Deliveries : e # d => reply'[e] = reply[e]
    BY <1>a, <2>5, <2>6
  <2>n. pc[d] \in Steps
    BY <1>12 DEF CheckpointCompleted, Steps
  <2>8. CASE p
    <3>1. Stored(TaskOf[d]) /\ Winner(TaskOf[d]) = d
      BY <1>12, <2>3, <2>8 DEF CheckpointCompleted, RuntimeInv, RepliesFollow
    <3>2. ReplyBar[d] = "pending" /\ ReplyBar' = [ReplyBar EXCEPT ![d] = d]
      <4>1. d = IF reply'[d].kind = "ok" /\ reply'[d].valid THEN reply'[d].by ELSE "unanswered"
        BY <2>5, <2>7, <2>8
      <4> QED
        BY <2>6, <2>7, <2>n, <4>1, ReplyEnds
    <3>3. Register!Answer(d)
      BY <1>b, <2>1, <3>1, <3>2 DEF Register!Answer
    <3> QED
      BY <3>3 DEF Register!Next
  <2>9. CASE ~p
    <3>1. ReplyBar[d] = "pending" /\ ReplyBar' = [ReplyBar EXCEPT ![d] = "unanswered"]
      <4>1. "unanswered" = IF reply'[d].kind = "ok" /\ reply'[d].valid THEN reply'[d].by ELSE "unanswered"
        BY <2>5, <2>7, <2>9
      <4> QED
        BY <2>6, <2>7, <2>n, <4>1, ReplyEnds
    <3>2. Register!GiveUp(d)
      BY <2>1, <3>1 DEF Register!GiveUp
    <3> QED
      BY <3>2 DEF Register!Next
  <2> QED
    BY <2>8, <2>9
<1>13. CASE Drop(d)
  <2>1. reply[d].kind # "ok"
    BY <1>13 DEF Drop, RuntimeInv, RepliesFollow, Steps
  <2>2. ReplyBar[d] = "pending" /\ ReplyBar' = [ReplyBar EXCEPT ![d] = "unanswered"]
    BY <1>13, <1>a, <2>1, ReplyEnds DEF Drop, Goto
  <2>3. Register!GiveUp(d)
    BY <1>13, <1>c, <2>2 DEF Drop, Register!GiveUp
  <2> QED
    BY <2>3 DEF Register!Next
<1> QED
  BY <1>1, <1>2, <1>3, <1>4, <1>5, <1>6, <1>7, <1>8, <1>9, <1>10, <1>11, <1>12, <1>13 DEF Step

\* The runtime implements the write-once register: a task's answer is chosen
\* once, from its own deliveries, and every delivery that returns a validated
\* result returns that one (Agent::execute, MemoryStore::claim).
THEOREM RuntimeImplementsRegister == Spec => ImplementsRegister
<1>1. Init => Register!Init
  <2> SUFFICES ASSUME Init PROVE Register!Init
    OBVIOUS
  <2>1. \A t \in Tasks : ~Stored(t)
    BY DEF Init, Stored, Held, Visible, Vacant, StoreKeys
  <2>2. ChosenBar = [t \in Tasks |-> "none"]
    BY <2>1 DEF ChosenBar
  <2>3. ReplyBar = [d \in Deliveries |-> "pending"]
    BY DEF ReplyBar, Init, Pending
  <2> QED
    BY <2>2, <2>3 DEF Register!Init
<1> QED
  BY <1>1, RegisterStep, RuntimeInvariant, PTL DEF Spec, ImplementsRegister, Register!Spec
=============================================================================
