--------------------------- MODULE JobEngineProofs ---------------------------
(***************************************************************************)
(* The invariant of the job engine, and that what an engine's step may do  *)
(* to the tasks of its job keeps it; then that every step of an engine     *)
(* does no more than that, and that every status and task transition it    *)
(* asks for is granted.                                                    *)
(***************************************************************************)
EXTENDS JobEngine, FiniteSetTheorems, TLAPS

-----------------------------------------------------------------------------
(* The paths the engine asks for.                                          *)

\* Paths of one, two and three edges.
LEMMA OneEdge ==
  ASSUME NEW allowed, NEW from, NEW x, x \in allowed[from]
  PROVE  LegalPath(allowed, from, <<x>>) /\ EndOf(from, <<x>>) = x
  BY DEF LegalPath, EndOf

LEMMA TwoEdges ==
  ASSUME NEW allowed, NEW from, NEW x, NEW y, x \in allowed[from], y \in allowed[x]
  PROVE  LegalPath(allowed, from, <<x, y>>) /\ EndOf(from, <<x, y>>) = y
  BY DEF LegalPath, EndOf

LEMMA ThreeEdges ==
  ASSUME NEW allowed, NEW from, NEW x, NEW y, NEW z,
         x \in allowed[from], y \in allowed[x], z \in allowed[y]
  PROVE  LegalPath(allowed, from, <<x, y, z>>) /\ EndOf(from, <<x, y, z>>) = z
  BY DEF LegalPath, EndOf

\* The edges the engine takes.
LEMMA TaskEdges ==
  /\ "Queued" \in TaskAllowed["Created"]
  /\ "Leased" \in TaskAllowed["Queued"]
  /\ "Running" \in TaskAllowed["Leased"]
  /\ "Queued" \in TaskAllowed["RetryScheduled"]
  /\ {"Completed", "Failed", "TimedOut"} \subseteq TaskAllowed["Running"]
  /\ {"RetryScheduled", "DeadLettered"} \subseteq TaskAllowed["Failed"]
  /\ {"RetryScheduled", "DeadLettered"} \subseteq TaskAllowed["TimedOut"]
  /\ \A s \in {"Created", "Queued", "RetryScheduled"} : "Cancelled" \in TaskAllowed[s]
  BY DEF TaskAllowed

LEMMA JobEdges ==
  /\ "Running" \in JobAllowed["Planning"]
  /\ {"Paused", "Aggregating", "Cancelled"} \subseteq JobAllowed["Running"]
  /\ {"Running", "Cancelled"} \subseteq JobAllowed["Paused"]
  /\ {"Completed", "PartiallyCompleted", "Failed"} \subseteq JobAllowed["Aggregating"]
  BY DEF JobAllowed
-----------------------------------------------------------------------------
(* The invariant.                                                          *)

\* The states the engine puts a task in between two awaits.
Resting == {"Created", "Queued", "Running", "Completed", "RetryScheduled", "Cancelled",
            "DeadLettered"}

\* Where an engine may have dispatches.
Looping == {"collect", "discard", "execute", "apply"}

Shapes ==
    /\ pc \in [Jobs -> Labels] /\ jobStatus \in [Jobs -> JobStatuses]
    /\ control \in [Jobs -> {"Running", "Paused", "Cancelled"}]
    /\ state \in [Tasks -> Resting] /\ results \in [Tasks -> Nat]
    /\ inflight \in [Jobs -> Seq(Dispatch)] /\ stray \in [Jobs -> SUBSET Dispatch]
    /\ slots \in [Jobs -> Nat] /\ \A j \in Jobs : slots[j] <= MaxAgents[j]
    /\ promoted \in [Jobs -> BOOLEAN] /\ late \in [Jobs -> BOOLEAN]
    /\ cancelling \in [Jobs -> {"no", "purging", "done"}]
    /\ checked \in [Jobs -> SUBSET {"pause", "resume"}]

\* An entry that waits has an attempt left.
QueueOwes ==
    /\ status = [k \in Keys |-> status[k]] /\ owner = [k \in Keys |-> owner[k]]
    /\ spent \in [Keys -> Nat]
    /\ \A k \in Keys : status[k] = "waiting" => spent[k] < MaxAttempts

\* The job's status fits the place its engine is at.
Fits(l, s) ==
    /\ l = "new" => s = "Planning"
    /\ l = "parked" => s = "Paused"
    /\ l \in {"tick", "teardown", "cancelled"} => s \in {"Running", "Paused"}
    /\ l \in Looping \cup {"promote", "sweep", "idle", "finish"} => s = "Running"

StatusFits == \A j \in Jobs : Fits(pc[j], jobStatus[j])

\* The dispatches of a job are its running tasks, each once.
Runs(j) ==
    /\ \A i \in 1..Len(inflight[j]) :
          JobOf[inflight[j][i].task] = j /\ state[inflight[j][i].task] = "Running"
    /\ \A i, k \in 1..Len(inflight[j]) : inflight[j][i].task = inflight[j][k].task => i = k
    /\ \A t \in Owned(j) : state[t] = "Running" =>
          pc[j] = "teardown" \/ \E i \in 1..Len(inflight[j]) : inflight[j][i].task = t
    /\ inflight[j] # <<>> => pc[j] \in Looping

DispatchesRun == \A j \in Jobs : Runs(j)

EngineInv == Shapes /\ QueueOwes /\ StatusFits /\ DispatchesRun /\ OneResult /\ UpstreamFirst

-----------------------------------------------------------------------------
(* What a step does to the tasks and the dispatches of its job.            *)

\* The tasks are left alone and the engine keeps its dispatches.
Quiet(j) ==
    /\ UNCHANGED <<state, results, inflight>>
    /\ pc[j] # "teardown"
    /\ \E l \in Labels : /\ pc' = [pc EXCEPT ![j] = l]
                         /\ inflight[j] = <<>> \/ l \in Looping

\* Tasks that wait are queued, or cancelled, while nothing is dispatched.
Moved(j, T, s) ==
    /\ inflight[j] = <<>> /\ pc[j] # "teardown"
    /\ T \subseteq Owned(j)
    /\ \A t \in T : state[t] \in {"Created", "Queued", "RetryScheduled"}
    /\ s \in {"Queued", "Cancelled"}
    /\ s = "Queued" => \A t \in T : \A d \in Deps[t] : state[d] = "Completed"
    /\ state' = [t \in Tasks |-> IF t \in T THEN s ELSE state[t]]
    /\ UNCHANGED <<results, inflight>>
    /\ \E l \in Labels : pc' = [pc EXCEPT ![j] = l]

\* A task that waits for an agent is dispatched.
Started(j, d) ==
    /\ d \in Dispatch /\ JobOf[d.task] = j /\ state[d.task] \in {"Queued", "RetryScheduled"}
    /\ state' = [t \in Tasks |-> IF t = d.task THEN "Running" ELSE state[t]]
    /\ inflight' = [inflight EXCEPT ![j] = Append(inflight[j], d)]
    /\ results' = results
    /\ pc[j] = "collect" /\ pc' = [pc EXCEPT ![j] = "collect"]

\* The first dispatch is over and its task Completed, retried or parked.
Settled(j, t, s) ==
    /\ inflight[j] # <<>> /\ t = inflight[j][1].task
    /\ s \in {"Completed", "RetryScheduled", "DeadLettered"}
    /\ state' = [u \in Tasks |-> IF u = t THEN s ELSE state[u]]
    /\ inflight' = [inflight EXCEPT ![j] = Tail(inflight[j])]
    /\ results' = IF s = "Completed" THEN [results EXCEPT ![t] = results[t] + 1] ELSE results
    /\ pc[j] = "apply" /\ pc' = [pc EXCEPT ![j] = "apply"]

\* The tick is abandoned.
Abandoned(j) ==
    /\ UNCHANGED <<state, results>>
    /\ inflight' = [inflight EXCEPT ![j] = <<>>]
    /\ pc' = [pc EXCEPT ![j] = "teardown"]

\* Every task left is abandoned.
TornDown(j) ==
    /\ inflight[j] = <<>>
    /\ state' = [t \in Tasks |->
          IF JobOf[t] # j \/ state[t] \in Terminal THEN state[t]
          ELSE IF state[t] = "Running" THEN "DeadLettered" ELSE "Cancelled"]
    /\ UNCHANGED <<results, inflight>>
    /\ pc' = [pc EXCEPT ![j] = "cancelled"]

TaskStep(j) ==
    \/ Quiet(j)
    \/ \E T, s : Moved(j, T, s)
    \/ \E d : Started(j, d)
    \/ \E t, s : Settled(j, t, s)
    \/ Abandoned(j)
    \/ TornDown(j)
\* The jobs other than the one that steps.
LEMMA OtherJobs ==
  ASSUME NEW i \in Jobs, Runs(i), pc'[i] = pc[i], inflight'[i] = inflight[i],
         \A t \in Owned(i) : state'[t] = state[t],
         \A n \in 1..Len(inflight[i]) : inflight[i][n].task \in Tasks
  PROVE  Runs(i)'
  BY DEF Runs, Owned

LEMMA TasksTyped ==
  ASSUME Shapes, NEW j \in Jobs
  PROVE  /\ inflight[j] \in Seq(Dispatch)
         /\ \A n \in 1..Len(inflight[j]) : inflight[j][n].task \in Tasks
<1>1. inflight[j] \in Seq(Dispatch)
  BY DEF Shapes
<1>2. \A n \in 1..Len(inflight[j]) : inflight[j][n] \in Dispatch
  BY <1>1
<1> QED
  BY <1>1, <1>2, Zenon DEF Dispatch

\* The dispatches of the job that steps, step by step.
LEMMA QuietRuns ==
  ASSUME Shapes, NEW j \in Jobs, Runs(j), Quiet(j)
  PROVE  Runs(j)' /\ \A i \in Jobs : i # j => pc'[i] = pc[i] /\ inflight'[i] = inflight[i]
<1>1. PICK l \in Labels : pc' = [pc EXCEPT ![j] = l] /\ (inflight[j] = <<>> \/ l \in Looping)
  BY Zenon DEF Quiet
<1>2. pc'[j] = l /\ \A i \in Jobs : i # j => pc'[i] = pc[i]
  BY <1>1 DEF Shapes
<1> QED
  BY <1>1, <1>2, Zenon DEF Quiet, Runs, Owned

LEMMA MovedRuns ==
  ASSUME Shapes, NEW j \in Jobs, Runs(j), NEW T, NEW s, Moved(j, T, s)
  PROVE  /\ Runs(j)' /\ \A i \in Jobs : i # j => pc'[i] = pc[i] /\ inflight'[i] = inflight[i]
         /\ \A t \in Tasks : JobOf[t] # j => state'[t] = state[t]
<1>1. /\ inflight'[j] = <<>> /\ \A i \in Jobs : inflight'[i] = inflight[i]
      /\ \A i \in Jobs : i # j => pc'[i] = pc[i]
  BY DEF Moved, Shapes
<1>2. \A t \in Tasks : state'[t] = IF t \in T THEN s ELSE state[t]
  BY DEF Moved
<1>3. \A t \in Owned(j) : state[t] # "Running"
  BY DEF Moved, Runs
<1>4. T \subseteq Owned(j) /\ s # "Running"
  BY DEF Moved
<1> QED
  BY <1>1, <1>2, <1>3, <1>4 DEF Runs, Owned

LEMMA StartedRuns ==
  ASSUME Shapes, NEW j \in Jobs, Runs(j), NEW d, Started(j, d)
  PROVE  /\ Runs(j)' /\ \A i \in Jobs : i # j => pc'[i] = pc[i] /\ inflight'[i] = inflight[i]
         /\ \A t \in Tasks : JobOf[t] # j => state'[t] = state[t]
<1>1. PICK q : q = inflight[j]
  OBVIOUS
<1>2. q \in Seq(Dispatch) /\ d \in Dispatch /\ d.task \in Tasks
  BY <1>1, TasksTyped, Zenon DEF Started, Dispatch
<1>3. PICK r : r = Append(q, d)
  BY Zenon
<1>4. /\ r \in Seq(Dispatch) /\ Len(r) = Len(q) + 1 /\ r[Len(q) + 1] = d
      /\ \A n \in 1..Len(q) : r[n] = q[n]
  BY <1>2, <1>3
<1>5. /\ inflight'[j] = r /\ pc'[j] = "collect"
      /\ \A i \in Jobs : i # j => pc'[i] = pc[i] /\ inflight'[i] = inflight[i]
  BY <1>1, <1>3, Zenon DEF Started, Shapes
<1>6. /\ \A t \in Tasks : state'[t] = IF t = d.task THEN "Running" ELSE state[t]
      /\ state[d.task] # "Running" /\ JobOf[d.task] = j
  BY DEF Started
<1>7. /\ \A n \in 1..Len(q) : /\ JobOf[q[n].task] = j /\ state[q[n].task] = "Running"
                              /\ q[n].task \in Tasks
      /\ \A n, k \in 1..Len(q) : q[n].task = q[k].task => n = k
      /\ \A t \in Owned(j) : state[t] = "Running" => \E n \in 1..Len(q) : q[n].task = t
  BY <1>1, TasksTyped DEF Runs, Started
<1>8. Len(q) \in Nat
  BY <1>2
<1>9. \A n \in 1..Len(r) : r[n].task \in Tasks /\ JobOf[r[n].task] = j /\ state'[r[n].task] = "Running"
  <2> TAKE n \in 1..Len(r)
  <2>1. CASE n \in 1..Len(q)
    BY <1>4, <1>6, <1>7, <2>1
  <2>2. CASE n = Len(q) + 1
    BY <1>2, <1>4, <1>6, <2>2, Zenon
  <2> QED
    BY <1>4, <1>8, <2>1, <2>2
<1>10. \A n, k \in 1..Len(r) : r[n].task = r[k].task => n = k
  <2> SUFFICES ASSUME NEW n \in 1..Len(r), NEW k \in 1..Len(r), r[n].task = r[k].task PROVE n = k
    OBVIOUS
  <2>1. CASE n \in 1..Len(q) /\ k \in 1..Len(q)
    BY <1>4, <1>7, <2>1, Zenon
  <2>2. CASE n = Len(q) + 1 /\ k = Len(q) + 1
    BY <2>2
  <2>3. CASE n = Len(q) + 1 /\ k \in 1..Len(q)
    BY <1>4, <1>6, <1>7, <2>3
  <2>4. CASE k = Len(q) + 1 /\ n \in 1..Len(q)
    BY <1>4, <1>6, <1>7, <2>4
  <2> QED
    BY <1>4, <1>8, <2>1, <2>2, <2>3, <2>4
<1>11. \A t \in Owned(j) : state'[t] = "Running" => \E n \in 1..Len(r) : r[n].task = t
  <2> SUFFICES ASSUME NEW t \in Owned(j), state'[t] = "Running"
               PROVE  \E n \in 1..Len(r) : r[n].task = t
    OBVIOUS
  <2>1. CASE t = d.task
    <3>1. Len(q) + 1 \in 1..Len(r)
      BY <1>4, <1>8
    <3> QED
      BY <1>4, <2>1, <3>1
  <2>2. CASE t # d.task
    <3>1. PICK n \in 1..Len(q) : q[n].task = t
      BY <1>6, <1>7, <2>2, Zenon DEF Owned
    <3>2. n \in 1..Len(r) /\ r[n] = q[n]
      BY <1>4, <1>8
    <3> QED
      BY <3>1, <3>2
  <2> QED
    BY <2>1, <2>2
<1>12. Runs(j)'
  BY <1>5, <1>9, <1>10, <1>11 DEF Runs, Owned, Looping
<1> QED
  BY <1>5, <1>6, <1>12, Zenon

LEMMA SettledRuns ==
  ASSUME Shapes, NEW j \in Jobs, Runs(j), NEW t, NEW s, Settled(j, t, s)
  PROVE  /\ Runs(j)' /\ \A i \in Jobs : i # j => pc'[i] = pc[i] /\ inflight'[i] = inflight[i]
         /\ \A u \in Tasks : JobOf[u] # j => state'[u] = state[u]
         /\ t \in Owned(j) /\ state[t] = "Running"
<1>1. PICK q : q = inflight[j]
  OBVIOUS
<1>2. q \in Seq(Dispatch) /\ q # <<>> /\ t = q[1].task
  BY <1>1, TasksTyped, Zenon DEF Settled
<1>3. PICK r : r = Tail(q)
  BY Zenon
<1>4. /\ Len(q) \in Nat \ {0} /\ r \in Seq(Dispatch) /\ Len(r) = Len(q) - 1
      /\ \A n \in 1..Len(r) : n + 1 \in 2..Len(q) /\ r[n] = q[n + 1]
  BY <1>2, <1>3
<1>5. /\ inflight'[j] = r /\ pc'[j] = "apply"
      /\ \A i \in Jobs : i # j => pc'[i] = pc[i] /\ inflight'[i] = inflight[i]
  BY <1>1, <1>3, Zenon DEF Settled, Shapes
<1>6. /\ \A n \in 1..Len(q) : /\ JobOf[q[n].task] = j /\ state[q[n].task] = "Running"
                              /\ q[n].task \in Tasks
      /\ \A n, k \in 1..Len(q) : q[n].task = q[k].task => n = k
      /\ \A u \in Owned(j) : state[u] = "Running" => \E n \in 1..Len(q) : q[n].task = u
  BY <1>1, TasksTyped, Zenon DEF Runs, Settled
<1>7. t \in Owned(j) /\ state[t] = "Running"
  BY <1>2, <1>4, <1>6 DEF Owned
<1>8. (\A u \in Tasks : state'[u] = IF u = t THEN s ELSE state[u]) /\ s # "Running"
  BY Zenon DEF Settled
<1>9. \A n \in 1..Len(r) : r[n].task \in Tasks /\ JobOf[r[n].task] = j /\ state'[r[n].task] = "Running"
  <2> TAKE n \in 1..Len(r)
  <2>1. n + 1 \in 1..Len(q) /\ n + 1 # 1 /\ r[n] = q[n + 1] /\ 1 \in 1..Len(q)
    BY <1>4
  <2>2. r[n].task # t
    BY <1>2, <1>6, <2>1, Zenon
  <2> QED
    BY <1>6, <1>8, <2>1, <2>2
<1>10. \A n, k \in 1..Len(r) : r[n].task = r[k].task => n = k
  <2> SUFFICES ASSUME NEW n \in 1..Len(r), NEW k \in 1..Len(r), r[n].task = r[k].task PROVE n = k
    OBVIOUS
  <2>1. n + 1 \in 1..Len(q) /\ k + 1 \in 1..Len(q) /\ r[n] = q[n + 1] /\ r[k] = q[k + 1]
    BY <1>4
  <2>2. n + 1 = k + 1
    BY <1>6, <2>1
  <2> QED
    BY <1>4, <2>2
<1>11. \A u \in Owned(j) : state'[u] = "Running" => \E n \in 1..Len(r) : r[n].task = u
  <2> SUFFICES ASSUME NEW u \in Owned(j), state'[u] = "Running"
               PROVE  \E n \in 1..Len(r) : r[n].task = u
    OBVIOUS
  <2>1. u # t /\ state[u] = "Running"
    BY <1>8 DEF Owned
  <2>2. PICK n \in 1..Len(q) : q[n].task = u
    BY <1>6, <2>1, Zenon
  <2>3. n # 1
    BY <1>2, <2>1, <2>2
  <2>4. n - 1 \in 1..Len(r) /\ r[n - 1] = q[n]
    BY <1>4, <2>2, <2>3
  <2> QED
    BY <2>2, <2>4
<1>12. Runs(j)'
  BY <1>5, <1>9, <1>10, <1>11 DEF Runs, Owned, Looping
<1> QED
  BY <1>5, <1>7, <1>8, <1>12, Zenon DEF Owned
LEMMA AbandonedRuns ==
  ASSUME Shapes, NEW j \in Jobs, Abandoned(j)
  PROVE  Runs(j)' /\ \A i \in Jobs : i # j => pc'[i] = pc[i] /\ inflight'[i] = inflight[i]
<1>1. /\ inflight'[j] = <<>> /\ pc'[j] = "teardown"
      /\ \A i \in Jobs : i # j => pc'[i] = pc[i] /\ inflight'[i] = inflight[i]
  BY DEF Abandoned, Shapes
<1> QED
  BY <1>1 DEF Runs, Owned

LEMMA TornDownRuns ==
  ASSUME Shapes, NEW j \in Jobs, TornDown(j)
  PROVE  /\ Runs(j)' /\ \A i \in Jobs : i # j => pc'[i] = pc[i] /\ inflight'[i] = inflight[i]
         /\ \A t \in Tasks : JobOf[t] # j => state'[t] = state[t]
<1>1. /\ inflight'[j] = <<>> /\ \A i \in Jobs : inflight'[i] = inflight[i]
      /\ \A i \in Jobs : i # j => pc'[i] = pc[i]
  BY DEF TornDown, Shapes
<1>2. \A t \in Tasks :
         state'[t] = IF JobOf[t] # j \/ state[t] \in Terminal THEN state[t]
                     ELSE IF state[t] = "Running" THEN "DeadLettered" ELSE "Cancelled"
  BY DEF TornDown
<1>3. \A t \in Owned(j) : state'[t] # "Running"
  BY <1>2 DEF Owned, Terminal
<1> QED
  BY <1>1, <1>2, <1>3 DEF Runs, Owned

LEMMA RunsStep ==
  ASSUME Shapes, DispatchesRun, NEW j \in Jobs, TaskStep(j)
  PROVE  DispatchesRun'
<1>1. Runs(j)
  BY DEF DispatchesRun
<1>2. /\ Runs(j)' /\ \A i \in Jobs : i # j => pc'[i] = pc[i] /\ inflight'[i] = inflight[i]
      /\ \A t \in Tasks : JobOf[t] # j => state'[t] = state[t]
  <2>1. CASE Quiet(j)
    BY <1>1, <2>1, QuietRuns, Zenon DEF Quiet
  <2>2. CASE \E T, s : Moved(j, T, s)
    BY <1>1, <2>2, MovedRuns, Zenon
  <2>3. CASE \E d : Started(j, d)
    BY <1>1, <2>3, StartedRuns, Zenon
  <2>4. CASE \E t, s : Settled(j, t, s)
    BY <1>1, <2>4, SettledRuns, Zenon
  <2>5. CASE Abandoned(j)
    BY <2>5, AbandonedRuns, Zenon DEF Abandoned
  <2>6. CASE TornDown(j)
    BY <2>6, TornDownRuns
  <2> QED
    BY <2>1, <2>2, <2>3, <2>4, <2>5, <2>6, Zenon DEF TaskStep
<1>3. ASSUME NEW i \in Jobs, i # j PROVE Runs(i)'
  <2>1. Runs(i) /\ pc'[i] = pc[i] /\ inflight'[i] = inflight[i]
    BY <1>2, <1>3 DEF DispatchesRun
  <2>2. \A t \in Owned(i) : state'[t] = state[t]
    BY <1>2, <1>3 DEF Owned
  <2>3. \A n \in 1..Len(inflight[i]) : inflight[i][n].task \in Tasks
    BY TasksTyped
  <2> QED
    BY <2>1, <2>2, <2>3, OtherJobs, Zenon
<1> QED
  BY <1>2, <1>3 DEF DispatchesRun

\* Which states a task moves between: a Completed task stays Completed.
LEMMA StatesStep ==
  ASSUME Shapes, DispatchesRun, NEW j \in Jobs, TaskStep(j)
  PROVE  /\ state' \in [Tasks -> Resting]
         /\ \A t \in Tasks : state[t] = "Completed" => state'[t] = "Completed"
<1>1. state \in [Tasks -> Resting]
  BY DEF Shapes
<1>2. CASE Quiet(j) \/ Abandoned(j)
  BY <1>1, <1>2 DEF Quiet, Abandoned
<1>3. CASE \E T, s : Moved(j, T, s)
  BY <1>1, <1>3 DEF Moved, Resting
<1>4. CASE \E d : Started(j, d)
  BY <1>1, <1>4 DEF Started, Resting
<1>5. CASE \E t, s : Settled(j, t, s)
  <2>1. PICK t, s : Settled(j, t, s)
    BY <1>5
  <2>2. state[t] = "Running"
    BY <2>1, SettledRuns, Zenon DEF DispatchesRun
  <2> QED
    BY <1>1, <2>1, <2>2, Zenon DEF Settled, Resting
<1>6. CASE TornDown(j)
  BY <1>1, <1>6 DEF TornDown, Resting, Terminal
<1> QED
  BY <1>2, <1>3, <1>4, <1>5, <1>6, Zenon DEF TaskStep

\* A result is recorded with the step to Completed and with no other.
LEMMA ResultsStep ==
  ASSUME Shapes, DispatchesRun, OneResult, NEW j \in Jobs, TaskStep(j)
  PROVE  OneResult' /\ results' \in [Tasks -> Nat]
<1>1. state \in [Tasks -> Resting] /\ results \in [Tasks -> Nat]
  BY DEF Shapes
<1>2. CASE results' = results /\ \A t \in Tasks : state'[t] = "Completed" <=> state[t] = "Completed"
  BY <1>1, <1>2 DEF OneResult
<1>3. CASE Quiet(j) \/ Abandoned(j)
  BY <1>2, <1>3, Zenon DEF Quiet, Abandoned
<1>4. CASE \E T, s : Moved(j, T, s)
  <2>1. PICK T, s : Moved(j, T, s)
    BY <1>4
  <2>2. \A t \in Tasks : state'[t] = "Completed" <=> state[t] = "Completed"
    BY <1>1, <2>1, Zenon DEF Moved
  <2> QED
    BY <1>2, <2>1, <2>2, Zenon DEF Moved
<1>5. CASE \E d : Started(j, d)
  <2>1. PICK d : Started(j, d)
    BY <1>5
  <2>2. \A t \in Tasks : state'[t] = "Completed" <=> state[t] = "Completed"
    BY <1>1, <2>1, Zenon DEF Started
  <2> QED
    BY <1>2, <2>1, <2>2, Zenon DEF Started
<1>6. CASE \E t, s : Settled(j, t, s)
  <2>1. PICK t, s : Settled(j, t, s)
    BY <1>6
  <2>2. t \in Tasks /\ state[t] = "Running"
    BY <2>1, SettledRuns, Zenon DEF DispatchesRun, Owned
  <2>3. \A u \in Tasks : state'[u] = IF u = t THEN s ELSE state[u]
    BY <2>1, Zenon DEF Settled
  <2>4. CASE s # "Completed"
    BY <1>2, <2>1, <2>2, <2>3, <2>4, Zenon DEF Settled
  <2>5. CASE s = "Completed"
    <3>1. results[t] = 0
      BY <2>2 DEF OneResult
    <3>2. results' = [results EXCEPT ![t] = 1]
      BY <2>1, <2>5, <3>1 DEF Settled
    <3> QED
      BY <1>1, <2>2, <2>3, <2>5, <3>2 DEF OneResult
  <2> QED
    BY <2>4, <2>5
<1>7. CASE TornDown(j)
  <2>1. \A t \in Tasks : state'[t] = "Completed" <=> state[t] = "Completed"
    BY <1>1, <1>7 DEF TornDown, Terminal
  <2> QED
    BY <1>2, <1>7, <2>1, Zenon DEF TornDown
<1> QED
  BY <1>3, <1>4, <1>5, <1>6, <1>7, Zenon DEF TaskStep

\* A task leaves the waiting states when its dependencies are Completed, and
\* they stay Completed.
LEMMA UpstreamStep ==
  ASSUME Shapes, DispatchesRun, UpstreamFirst, NEW j \in Jobs, TaskStep(j)
  PROVE  UpstreamFirst'
<1> DEFINE Left == {"Queued", "Running", "Completed", "RetryScheduled", "DeadLettered"}
<1>1. state \in [Tasks -> Resting]
  BY DEF Shapes
<1>2. \A t \in Tasks : \A d \in Deps[t] : d \in Tasks
  BY JobEngineAssumption
<1>3. \A d \in Tasks : state[d] = "Completed" => state'[d] = "Completed"
  BY StatesStep
<1>4. SUFFICES ASSUME NEW t \in Tasks, state'[t] \in Left, state[t] \notin Left
               PROVE  \A d \in Deps[t] : state[d] = "Completed"
  BY <1>2, <1>3, Zenon DEF UpstreamFirst
<1>5. CASE Quiet(j) \/ Abandoned(j)
  BY <1>4, <1>5, Zenon DEF Quiet, Abandoned
<1>6. CASE \E T, s : Moved(j, T, s)
  <2>1. PICK T, s : Moved(j, T, s)
    BY <1>6
  <2>2. t \in T /\ s = "Queued"
    BY <1>4, <2>1, Zenon DEF Moved
  <2> QED
    BY <2>1, <2>2, Zenon DEF Moved
<1>7. CASE \E d : Started(j, d)
  BY <1>4, <1>7, Zenon DEF Started
<1>8. CASE \E u, s : Settled(j, u, s)
  <2>1. PICK u, s : Settled(j, u, s)
    BY <1>8
  <2>2. state[u] = "Running"
    BY <2>1, SettledRuns, Zenon DEF DispatchesRun
  <2> QED
    BY <1>4, <2>1, <2>2, Zenon DEF Settled
<1>9. CASE TornDown(j)
  BY <1>4, <1>9, Zenon DEF TornDown
<1> QED
  BY <1>5, <1>6, <1>7, <1>8, <1>9, Zenon DEF TaskStep
-----------------------------------------------------------------------------
(* The engine's steps, one by one: what each does to the tasks, and that   *)
(* the status it asks for is granted.                                      *)

JobMoves(j) ==
    \E l \in Labels, s \in JobStatuses :
        /\ Fits(l, s)
        /\ pc' = [pc EXCEPT ![j] = l]
        /\ jobStatus' = [jobStatus EXCEPT ![j] = s]

LEMMA FitsStep ==
  ASSUME Shapes, StatusFits, NEW j \in Jobs, JobMoves(j)
  PROVE  StatusFits' /\ pc' \in [Jobs -> Labels] /\ jobStatus' \in [Jobs -> JobStatuses]
<1>1. PICK l \in Labels, s \in JobStatuses :
         /\ Fits(l, s) /\ pc' = [pc EXCEPT ![j] = l] /\ jobStatus' = [jobStatus EXCEPT ![j] = s]
  BY Zenon DEF JobMoves
<1>2. pc \in [Jobs -> Labels] /\ jobStatus \in [Jobs -> JobStatuses]
  BY DEF Shapes
<1>3. \A i \in Jobs : Fits(pc[i], jobStatus[i])
  BY DEF StatusFits
<1>4. pc' \in [Jobs -> Labels] /\ jobStatus' \in [Jobs -> JobStatuses]
  BY <1>1, <1>2
<1>5. \A i \in Jobs : Fits(pc'[i], jobStatus'[i])
  <2> HIDE DEF Fits
  <2> QED
    BY <1>1, <1>2, <1>3
<1> QED
  BY <1>4, <1>5, Zenon DEF StatusFits, Fits

\* The engine goes on with the status it has.
LEMMA GotoFits ==
  ASSUME Shapes, NEW j \in Jobs, NEW l \in Labels, Fits(l, jobStatus[j]), Goto(j, l),
         jobStatus' = jobStatus
  PROVE  JobMoves(j)
<1>1. jobStatus[j] \in JobStatuses /\ jobStatus' = [jobStatus EXCEPT ![j] = jobStatus[j]]
  BY DEF Shapes
<1> HIDE DEF Fits
<1> QED
  BY <1>1, Zenon DEF JobMoves, Goto

\* The engine changes the status along a legal path.
LEMMA StatusMoves ==
  ASSUME Shapes, NEW j \in Jobs, NEW l \in Labels, NEW s \in JobStatuses, Fits(l, s),
         NEW path, SetStatus(j, path, l), LegalPath(JobAllowed, jobStatus[j], path),
         EndOf(jobStatus[j], path) = s
  PROVE  JobMoves(j) /\ Goto(j, l)
<1>1. jobStatus' = [jobStatus EXCEPT ![j] = s] /\ Goto(j, l)
  BY DEF SetStatus
<1> HIDE DEF Fits
<1> QED
  BY <1>1, Zenon DEF JobMoves, Goto

LEMMA PathEnds ==
  ASSUME NEW f, NEW x, NEW y
  PROVE  /\ EndOf(f, <<>>) = f /\ EndOf(f, <<x>>) = x /\ EndOf(f, <<x, y>>) = y
  BY DEF EndOf

LEMMA NoEdge == ASSUME NEW allowed, NEW from PROVE LegalPath(allowed, from, <<>>)
  BY DEF LegalPath

LEMMA RunStep ==
  ASSUME Shapes, StatusFits, NEW j \in Jobs, Run(j)
  PROVE  JobMoves(j) /\ Goto(j, "tick")
<1>1. jobStatus[j] = "Planning" /\ SetStatus(j, <<"Running">>, "tick")
  BY DEF Run, StatusFits, Fits
<1>2. LegalPath(JobAllowed, jobStatus[j], <<"Running">>)
  BY <1>1, JobEdges, OneEdge
<1>3. Fits("tick", "Running") /\ "tick" \in Labels /\ "Running" \in JobStatuses
  BY DEF Fits, Looping, Labels, JobStatuses
<1>4. EndOf(jobStatus[j], <<"Running">>) = "Running"
  BY PathEnds, Zenon
<1> QED
  BY <1>1, <1>2, <1>3, <1>4, StatusMoves

\* The top of the loop.
LEMMA TickStep ==
  ASSUME Shapes, StatusFits, NEW j \in Jobs, TickTop(j)
  PROVE  JobMoves(j) /\ \E l \in Labels : Goto(j, l)
<1>1. jobStatus[j] \in {"Running", "Paused"}
  BY DEF TickTop, StatusFits, Fits
<1>2. CASE Goto(j, "teardown") /\ UNCHANGED jobStatus
  <2>1. Fits("teardown", jobStatus[j]) /\ "teardown" \in Labels
    BY <1>1 DEF Fits, Looping, Labels
  <2> QED
    BY <1>2, <2>1, GotoFits
<1>3. ASSUME NEW l \in {"parked", "finish", "promote"}, NEW s \in {"Running", "Paused"},
             SetStatus(j, IF jobStatus[j] = s THEN <<>> ELSE <<s>>, l), Fits(l, s)
      PROVE  JobMoves(j) /\ \E k \in Labels : Goto(j, k)
  <2>1. s \in JobStatuses /\ l \in Labels
    BY DEF JobStatuses, Labels
  <2>2. CASE jobStatus[j] = s
    <3>1. LegalPath(JobAllowed, jobStatus[j], <<>>) /\ EndOf(jobStatus[j], <<>>) = s
      BY <2>2, NoEdge, PathEnds, Zenon
    <3>2. SetStatus(j, <<>>, l)
      BY <1>3, <2>2
    <3> QED
      BY <1>3, <2>1, <3>1, <3>2, StatusMoves, Zenon
  <2>3. CASE jobStatus[j] # s
    <3>1. s \in JobAllowed[jobStatus[j]]
      BY <1>1, <2>3, JobEdges
    <3>2. LegalPath(JobAllowed, jobStatus[j], <<s>>) /\ EndOf(jobStatus[j], <<s>>) = s
      BY <3>1, OneEdge, PathEnds
    <3>3. SetStatus(j, <<s>>, l)
      BY <1>3, <2>3
    <3> QED
      BY <1>3, <2>1, <3>2, <3>3, StatusMoves, Zenon
  <2> QED
    BY <2>2, <2>3
<1>4. CASE SetStatus(j, IF jobStatus[j] = "Paused" THEN <<>> ELSE <<"Paused">>, "parked")
  <2>1. Fits("parked", "Paused")
    BY DEF Fits, Looping
  <2> QED
    BY <1>3, <1>4, <2>1
<1>5. CASE SetStatus(j, IF jobStatus[j] = "Paused" THEN <<"Running">> ELSE <<>>,
                     IF late[j] THEN "finish" ELSE "promote")
  <2>1. PICK l \in {"finish", "promote"} : l = IF late[j] THEN "finish" ELSE "promote"
    OBVIOUS
  <2>2. Fits(l, "Running")
    BY <2>1 DEF Fits, Looping
  <2>3. PICK path : path = IF jobStatus[j] = "Running" THEN <<>> ELSE <<"Running">>
    BY Zenon
  <2>4. path = IF jobStatus[j] = "Paused" THEN <<"Running">> ELSE <<>>
    BY <1>1, <2>3
  <2>5. SetStatus(j, path, l)
    BY <1>5, <2>1, <2>4
  <2> QED
    BY <1>3, <2>2, <2>3, <2>5, Zenon
<1> QED
  BY <1>2, <1>4, <1>5, Zenon DEF TickTop
\* finish: the last two status changes, or the one of a cancelled job.
LEMMA FinishStep ==
  ASSUME Shapes, StatusFits, NEW j \in Jobs, Finish(j) \/ FinishCancelled(j)
  PROVE  JobMoves(j) /\ Goto(j, "over")
<1>1. "over" \in Labels /\ \A s : Fits("over", s)
  BY DEF Labels, Fits, Looping
<1>2. CASE Finish(j)
  <2>1. jobStatus[j] = "Running" /\ SetStatus(j, <<"Aggregating", FinalStatus(j)>>, "over")
    BY <1>2, Zenon DEF Finish, StatusFits, Fits
  <2>2. PICK s \in {"Completed", "PartiallyCompleted", "Failed"} : s = FinalStatus(j)
    BY DEF FinalStatus
  <2>3. "Aggregating" \in JobAllowed[jobStatus[j]] /\ s \in JobAllowed["Aggregating"]
    BY <2>1, JobEdges
  <2>4. LegalPath(JobAllowed, jobStatus[j], <<"Aggregating", s>>)
    BY <2>3, TwoEdges
  <2>5. EndOf(jobStatus[j], <<"Aggregating", s>>) = s
    BY DEF EndOf
  <2>6. SetStatus(j, <<"Aggregating", s>>, "over") /\ s \in JobStatuses
    BY <2>1, <2>2 DEF JobStatuses
  <2> QED
    BY <1>1, <2>4, <2>5, <2>6, StatusMoves
<1>3. CASE FinishCancelled(j)
  <2>1. jobStatus[j] \in {"Running", "Paused"} /\ SetStatus(j, <<"Cancelled">>, "over")
    BY <1>3, Zenon DEF FinishCancelled, StatusFits, Fits
  <2>2. LegalPath(JobAllowed, jobStatus[j], <<"Cancelled">>)
    BY <2>1, JobEdges, OneEdge
  <2>3. EndOf(jobStatus[j], <<"Cancelled">>) = "Cancelled" /\ "Cancelled" \in JobStatuses
    BY PathEnds, Zenon DEF JobStatuses
  <2> QED
    BY <1>1, <2>1, <2>2, <2>3, StatusMoves
<1> QED
  BY <1>2, <1>3

\* An engine outside its tick has no dispatches.
LEMMA NothingOut ==
  ASSUME DispatchesRun, NEW j \in Jobs, pc[j] \notin Looping
  PROVE  inflight[j] = <<>>
  BY Zenon DEF DispatchesRun, Runs

\* The engine moves on and touches no task.
LEMMA PassesOn ==
  ASSUME NEW j \in Jobs, NEW l \in Labels, Goto(j, l), pc[j] # "teardown",
         inflight[j] = <<>> \/ l \in Looping, UNCHANGED <<state, results, inflight>>
  PROVE  TaskStep(j)
  BY Zenon DEF TaskStep, Quiet, Goto

\* The steps between the ones that touch tasks.
LEMMA QuietSteps ==
  ASSUME Shapes, StatusFits, DispatchesRun, NEW j \in Jobs,
         \/ AwaitResume(j) \/ PromoteDone(j) \/ SweepAndCount(j) \/ Discard(j)
         \/ CollectDone(j) \/ ExecuteAll(j) \/ ApplyDone(j)
  PROVE  TaskStep(j) /\ JobMoves(j)
<1>1. Fits(pc[j], jobStatus[j])
  BY DEF StatusFits
<1>2. ASSUME NEW l \in Labels, Goto(j, l), jobStatus' = jobStatus, Fits(l, jobStatus[j]),
             pc[j] # "teardown", inflight[j] = <<>> \/ l \in Looping,
             UNCHANGED <<state, results, inflight>>
      PROVE  TaskStep(j) /\ JobMoves(j)
  BY <1>2, PassesOn, GotoFits, Zenon
<1>3. CASE AwaitResume(j)
  <2>1. /\ pc[j] = "parked" /\ jobStatus' = jobStatus /\ UNCHANGED <<state, results, inflight>>
        /\ \E l \in {"tick", "teardown"} : Goto(j, l)
    BY <1>3, Zenon DEF AwaitResume
  <2>2. inflight[j] = <<>>
    BY <2>1, NothingOut DEF Looping
  <2>3. \A l \in {"tick", "teardown"} : l \in Labels /\ Fits(l, jobStatus[j])
    BY <1>1, <2>1, Zenon DEF Fits, Labels, Looping
  <2> QED
    BY <1>2, <2>1, <2>2, <2>3, Zenon
<1>4. CASE PromoteDone(j)
  <2>1. /\ pc[j] = "promote" /\ jobStatus' = jobStatus /\ UNCHANGED <<state, results, inflight>>
        /\ Goto(j, "sweep")
    BY <1>4, Zenon DEF PromoteDone
  <2>2. inflight[j] = <<>>
    BY <2>1, NothingOut DEF Looping
  <2>3. "sweep" \in Labels /\ Fits("sweep", jobStatus[j])
    BY <1>1, <2>1, Zenon DEF Fits, Labels, Looping
  <2> QED
    BY <1>2, <2>1, <2>2, <2>3, Zenon
<1>5. CASE SweepAndCount(j)
  <2>1. /\ pc[j] = "sweep" /\ jobStatus' = jobStatus /\ UNCHANGED <<state, results, inflight>>
        /\ Goto(j, "collect")
    BY <1>5, Zenon DEF SweepAndCount
  <2>2. "collect" \in Labels /\ Fits("collect", jobStatus[j]) /\ "collect" \in Looping
    BY <1>1, <2>1, Zenon DEF Fits, Labels, Looping
  <2> QED
    BY <1>2, <2>1, <2>2, Zenon
<1>6. CASE Discard(j)
  <2>1. /\ pc[j] = "discard" /\ jobStatus' = jobStatus /\ UNCHANGED <<state, results, inflight>>
        /\ Goto(j, "collect")
    BY <1>6, Zenon DEF Discard
  <2>2. "collect" \in Labels /\ Fits("collect", jobStatus[j]) /\ "collect" \in Looping
    BY <1>1, <2>1, Zenon DEF Fits, Labels, Looping
  <2> QED
    BY <1>2, <2>1, <2>2, Zenon
<1>7. CASE CollectDone(j)
  <2>1. /\ pc[j] = "collect" /\ jobStatus' = jobStatus /\ UNCHANGED <<state, results, inflight>>
        /\ \E l \in {"idle", "execute"} : Goto(j, l) /\ (inflight[j] = <<>> \/ l = "execute")
    BY <1>7, Zenon DEF CollectDone
  <2>2. \A l \in {"idle", "execute"} : l \in Labels /\ Fits(l, jobStatus[j])
    BY <1>1, <2>1, Zenon DEF Fits, Labels, Looping
  <2>3. "execute" \in Looping
    BY DEF Looping
  <2> QED
    BY <1>2, <2>1, <2>2, <2>3, Zenon
<1>8. CASE ExecuteAll(j)
  <2>1. /\ pc[j] = "execute" /\ jobStatus' = jobStatus /\ UNCHANGED <<state, results, inflight>>
        /\ Goto(j, "apply")
    BY <1>8, Zenon DEF ExecuteAll
  <2>2. "apply" \in Labels /\ Fits("apply", jobStatus[j]) /\ "apply" \in Looping
    BY <1>1, <2>1, Zenon DEF Fits, Labels, Looping
  <2> QED
    BY <1>2, <2>1, <2>2, Zenon
<1>9. CASE ApplyDone(j)
  <2>1. /\ pc[j] = "apply" /\ jobStatus' = jobStatus /\ UNCHANGED <<state, results, inflight>>
        /\ inflight[j] = <<>> /\ \E l \in {"finish", "tick"} : Goto(j, l)
    BY <1>9, Zenon DEF ApplyDone
  <2>2. \A l \in {"finish", "tick"} : l \in Labels /\ Fits(l, jobStatus[j])
    BY <1>1, <2>1, Zenon DEF Fits, Labels, Looping
  <2> QED
    BY <1>2, <2>1, <2>2, Zenon
<1> QED
  BY <1>3, <1>4, <1>5, <1>6, <1>7, <1>8, <1>9

LEMMA StatusSteps ==
  ASSUME Shapes, StatusFits, DispatchesRun, NEW j \in Jobs,
         Run(j) \/ TickTop(j) \/ Finish(j) \/ FinishCancelled(j)
  PROVE  TaskStep(j) /\ JobMoves(j)
<1>1. JobMoves(j) /\ \E l \in Labels : Goto(j, l)
  <2>1. "tick" \in Labels /\ "over" \in Labels
    BY DEF Labels
  <2> QED
    BY <2>1, RunStep, TickStep, FinishStep
<1>2. pc[j] \in {"new", "tick", "finish", "cancelled"} /\ UNCHANGED <<state, results, inflight>>
  BY Zenon DEF Run, TickTop, Finish, FinishCancelled
<1>3. inflight[j] = <<>>
  BY <1>2, NothingOut DEF Looping
<1> QED
  BY <1>1, <1>2, <1>3, PassesOn
\* advance along legal paths.
LEMMA AdvancesAll ==
  ASSUME NEW j, NEW T, NEW path, NEW l, AdvanceAll(j, T, path, l),
         \A t \in T : LegalPath(TaskAllowed, state[t], path[t])
  PROVE  /\ state' = [t \in Tasks |-> IF t \in T THEN EndOf(state[t], path[t]) ELSE state[t]]
         /\ Goto(j, l)
  BY DEF AdvanceAll

LEMMA AdvancesOne ==
  ASSUME NEW j, NEW t, NEW path, NEW l, NEW s, Advance(j, t, path, l),
         LegalPath(TaskAllowed, state[t], path), EndOf(state[t], path) = s
  PROVE  state' = [u \in Tasks |-> IF u = t THEN s ELSE state[u]] /\ Goto(j, l)
<1>1. PICK p : p = [u \in {t} |-> path]
  BY Zenon
<1>2. p[t] = path /\ AdvanceAll(j, {t}, p, l)
  BY <1>1 DEF Advance
<1>3. /\ state' = [u \in Tasks |-> IF u \in {t} THEN EndOf(state[u], p[u]) ELSE state[u]]
      /\ Goto(j, l)
  BY <1>2, AdvancesAll, Zenon
<1> QED
  BY <1>2, <1>3, Zenon

LEMMA PromoteStep ==
  ASSUME Shapes, StatusFits, DispatchesRun, NEW j \in Jobs, PromoteReady(j)
  PROVE  TaskStep(j) /\ JobMoves(j)
<1>1. pc[j] = "promote" /\ jobStatus' = jobStatus /\ UNCHANGED <<results, inflight>>
  BY DEF PromoteReady
<1>2. PICK t \in Ready(j) : Advance(j, t, <<"Queued">>, "promote")
  BY DEF PromoteReady
<1>3. /\ t \in Tasks /\ {t} \subseteq Owned(j) /\ state[t] = "Created"
      /\ \A d \in Deps[t] : state[d] = "Completed"
  BY <1>2, Zenon DEF Ready, Owned, Shapes, Resting
<1>4. LegalPath(TaskAllowed, state[t], <<"Queued">>) /\ EndOf(state[t], <<"Queued">>) = "Queued"
  BY <1>3, TaskEdges, OneEdge
<1>5. state' = [u \in Tasks |-> IF u = t THEN "Queued" ELSE state[u]] /\ Goto(j, "promote")
  BY <1>2, <1>4, AdvancesOne, Zenon
<1>6. inflight[j] = <<>> /\ "promote" \in Labels /\ Fits("promote", jobStatus[j])
  BY <1>1, NothingOut, Zenon DEF Looping, Labels, StatusFits, Fits
<1>7. state' = [u \in Tasks |-> IF u \in {t} THEN "Queued" ELSE state[u]]
  BY <1>5
<1>8. Moved(j, {t}, "Queued")
  BY <1>1, <1>3, <1>5, <1>6, <1>7, Zenon DEF Moved, Goto
<1> QED
  BY <1>1, <1>5, <1>6, <1>8, GotoFits, Zenon DEF TaskStep

-----------------------------------------------------------------------------
(* The steps that hand out tasks, apply outcomes and end the job.          *)

\* The dispatch a dequeue makes.
LEMMA DispatchMade ==
  ASSUME Shapes, QueueOwes, NEW j \in Jobs, NEW k \in Keys, Collect(j, k)
  PROVE  /\ TaskOf[k] \in Tasks
         /\ [task |-> TaskOf[k], key |-> k, id |-> FreshLease, attempt |-> spent[k] + 1] \in Dispatch
<1>1. TaskOf[k] \in Tasks /\ MaxAttempts \in Nat
  BY JobEngineAssumption
<1>2. FreshLease \in LeaseIds
  BY Zenon DEF Collect, FreshLease
<1>3. spent[k] \in Nat /\ spent[k] < MaxAttempts
  BY Zenon DEF QueueOwes, Collect, Grant
<1>4. spent[k] + 1 \in 1..MaxAttempts
  BY <1>1, <1>3
<1> QED
  BY <1>1, <1>2, <1>4, Zenon DEF Dispatch

LEMMA CollectStep ==
  ASSUME Shapes, QueueOwes, StatusFits, NEW j \in Jobs, NEW k \in Keys, Collect(j, k)
  PROVE  /\ TaskStep(j) /\ JobMoves(j)
         /\ stray' = stray \/ \E d \in Dispatch : stray' = [stray EXCEPT ![j] = {d}]
<1>1. PICK d : d = [task |-> TaskOf[k], key |-> k, id |-> FreshLease, attempt |-> spent[k] + 1]
  BY Zenon
<1>2. d \in Dispatch /\ d.task = TaskOf[k] /\ d.task \in Tasks
  BY <1>1, DispatchMade, Zenon
<1>3. pc[j] = "collect" /\ jobStatus' = jobStatus /\ results' = results
  BY Zenon DEF Collect
<1>4. jobStatus[j] = "Running"
  BY <1>3 DEF StatusFits, Fits, Looping
<1>5. CASE Leasable(j, d.task)
  <2>1. /\ Advance(j, d.task, StartPath(d.task), "collect") /\ stray' = stray
        /\ inflight' = [inflight EXCEPT ![j] = Append(inflight[j], d)]
    BY <1>1, <1>2, <1>5, Zenon DEF Collect
  <2>2. state[d.task] \in {"Queued", "RetryScheduled"} /\ JobOf[d.task] = j
    BY <1>5 DEF Leasable
  <2>3. /\ LegalPath(TaskAllowed, state[d.task], StartPath(d.task))
        /\ EndOf(state[d.task], StartPath(d.task)) = "Running"
    <3>1. CASE state[d.task] = "Queued"
      BY <3>1, TaskEdges, TwoEdges DEF StartPath
    <3>2. CASE state[d.task] = "RetryScheduled"
      BY <3>2, TaskEdges, ThreeEdges DEF StartPath
    <3> QED
      BY <2>2, <3>1, <3>2, Zenon
  <2>4. /\ state' = [u \in Tasks |-> IF u = d.task THEN "Running" ELSE state[u]]
        /\ Goto(j, "collect")
    BY <2>1, <2>3, AdvancesOne, Zenon
  <2>5. Started(j, d)
    BY <1>2, <1>3, <2>1, <2>2, <2>4, Zenon DEF Started, Goto
  <2>6. "collect" \in Labels /\ Fits("collect", jobStatus[j])
    BY <1>4 DEF Labels, Fits
  <2> QED
    BY <1>3, <2>1, <2>4, <2>5, <2>6, GotoFits, Zenon DEF TaskStep
<1>6. CASE ~Leasable(j, d.task)
  <2>1. /\ Goto(j, "discard") /\ stray' = [stray EXCEPT ![j] = {d}]
        /\ UNCHANGED <<state, inflight>>
    BY <1>1, <1>2, <1>6, Zenon DEF Collect
  <2>2. "discard" \in Labels /\ "discard" \in Looping /\ Fits("discard", jobStatus[j])
    BY <1>4 DEF Labels, Looping, Fits
  <2> QED
    BY <1>2, <1>3, <2>1, <2>2, PassesOn, GotoFits, Zenon
<1> QED
  BY <1>5, <1>6
\* A tick that dispatched nothing.
LEMMA IdleStep ==
  ASSUME Shapes, StatusFits, DispatchesRun, NEW j \in Jobs, IdleTick(j)
  PROVE  TaskStep(j) /\ JobMoves(j)
<1>1. pc[j] = "idle" /\ jobStatus' = jobStatus /\ UNCHANGED <<results, inflight>>
  BY DEF IdleTick
<1>2. inflight[j] = <<>> /\ Runs(j)
  BY <1>1, NothingOut DEF Looping, DispatchesRun
<1>3. \A l \in {"tick", "finish"} : l \in Labels /\ Fits(l, jobStatus[j])
  BY <1>1, Zenon DEF StatusFits, Fits, Looping, Labels
<1>4. CASE state' = state /\ \E l \in {"tick", "finish"} : Goto(j, l)
  BY <1>1, <1>2, <1>3, <1>4, PassesOn, GotoFits
<1>5. CASE \E l \in {"tick", "finish"} :
             AdvanceAll(j, BlockedByAbandoned(j), [t \in Tasks |-> <<"Cancelled">>], l)
  <2>a. PICK l \in {"tick", "finish"} :
           AdvanceAll(j, BlockedByAbandoned(j), [t \in Tasks |-> <<"Cancelled">>], l)
    BY <1>5
  <2>b. PICK T : T = BlockedByAbandoned(j)
    OBVIOUS
  <2>c. PICK path : path = [t \in Tasks |-> <<"Cancelled">>]
    BY Zenon
  <2>1. /\ T = BlockedByAbandoned(j) /\ path = [t \in Tasks |-> <<"Cancelled">>]
        /\ AdvanceAll(j, T, path, l)
    BY <2>a, <2>b, <2>c
  <2>2. T \subseteq Owned(j) /\ \A t \in T : state[t] \notin Terminal
    BY <2>1, Zenon DEF BlockedByAbandoned
  <2>d. state \in [Tasks -> Resting] /\ \A t \in Owned(j) : t \in Tasks /\ state[t] # "Running"
    <3>1. state \in [Tasks -> Resting]
      BY DEF Shapes
    <3>2. inflight[j] = <<>> /\ Len(inflight[j]) = 0 /\ pc[j] # "teardown"
      BY <1>1, <1>2
    <3>3. \A t \in Owned(j) : state[t] # "Running"
      BY <1>2, <3>2 DEF Runs
    <3> QED
      BY <3>1, <3>3 DEF Owned
  <2>3. \A t \in T : t \in Tasks /\ state[t] \in {"Created", "Queued", "RetryScheduled"}
    BY <2>2, <2>d DEF Resting, Terminal
  <2>4. ASSUME NEW t \in T
        PROVE  /\ LegalPath(TaskAllowed, state[t], path[t])
               /\ EndOf(state[t], path[t]) = "Cancelled"
    <3>1. path[t] = <<"Cancelled">> /\ "Cancelled" \in TaskAllowed[state[t]]
      BY <2>1, <2>3, TaskEdges, Zenon
    <3> QED
      BY <3>1, OneEdge
  <2>5. /\ state' = [t \in Tasks |-> IF t \in T THEN EndOf(state[t], path[t]) ELSE state[t]]
        /\ Goto(j, l)
    BY <2>1, <2>4, Zenon DEF AdvanceAll
  <2>6. state' = [t \in Tasks |-> IF t \in T THEN "Cancelled" ELSE state[t]]
    BY <2>4, <2>5, Zenon
  <2>7. Moved(j, T, "Cancelled")
    BY <1>1, <1>2, <1>3, <2>2, <2>3, <2>5, <2>6, Zenon DEF Moved, Goto
  <2> QED
    BY <1>1, <1>3, <2>5, <2>7, GotoFits, Zenon DEF TaskStep
<1> QED
  BY <1>4, <1>5, Zenon DEF IdleTick, MakeProgressPossible

LEMMA AbandonStep ==
  ASSUME Shapes, StatusFits, NEW j \in Jobs, AbandonTick(j)
  PROVE  TaskStep(j) /\ JobMoves(j)
<1>1. "teardown" \in Labels /\ Fits("teardown", jobStatus[j])
  BY DEF AbandonTick, StatusFits, Fits, Looping, Labels
<1>2. Goto(j, "teardown") /\ jobStatus' = jobStatus /\ Abandoned(j)
  BY DEF AbandonTick, Abandoned, Goto
<1> QED
  BY <1>1, <1>2, GotoFits DEF TaskStep

LEMMA TeardownStep ==
  ASSUME Shapes, StatusFits, DispatchesRun, NEW j \in Jobs, Teardown(j)
  PROVE  TaskStep(j) /\ JobMoves(j)
<1>1. pc[j] = "teardown" /\ jobStatus' = jobStatus /\ UNCHANGED <<results, inflight>>
  BY DEF Teardown
<1>2. inflight[j] = <<>>
  BY <1>1, NothingOut DEF Looping
<1>3. PICK T, path : /\ T = {t \in Owned(j) : state[t] \notin Terminal}
                     /\ path = [t \in Tasks |-> AbandonPath(t)]
                     /\ AdvanceAll(j, T, path, "cancelled")
  BY DEF Teardown
<1>4. \A t \in T : /\ t \in Tasks /\ path[t] = AbandonPath(t)
                   /\ state[t] \in {"Created", "Queued", "Running", "RetryScheduled"}
  BY <1>3, Zenon DEF Owned, Shapes, Resting, Terminal
<1>5. \A t \in T : /\ LegalPath(TaskAllowed, state[t], path[t])
                   /\ EndOf(state[t], path[t])
                        = IF state[t] = "Running" THEN "DeadLettered" ELSE "Cancelled"
  <2> TAKE t \in T
  <2>1. CASE state[t] = "Running"
    BY <1>4, <2>1, TaskEdges, TwoEdges DEF AbandonPath
  <2>2. CASE state[t] # "Running"
    BY <1>4, <2>2, TaskEdges, OneEdge DEF AbandonPath
  <2> QED
    BY <2>1, <2>2, Zenon
<1>6. /\ state' = [t \in Tasks |-> IF t \in T THEN EndOf(state[t], path[t]) ELSE state[t]]
      /\ Goto(j, "cancelled")
  BY <1>3, <1>5, AdvancesAll
<1>7. \A t \in Tasks : t \in T <=> ~(JobOf[t] # j \/ state[t] \in Terminal)
  BY <1>3 DEF Owned
<1>8. state' = [t \in Tasks |->
         IF JobOf[t] # j \/ state[t] \in Terminal THEN state[t]
         ELSE IF state[t] = "Running" THEN "DeadLettered" ELSE "Cancelled"]
  BY <1>5, <1>6, <1>7, Zenon
<1>9. TornDown(j)
  BY <1>1, <1>2, <1>6, <1>8, Zenon DEF TornDown, Goto
<1>10. "cancelled" \in Labels /\ Fits("cancelled", jobStatus[j])
  BY <1>1 DEF StatusFits, Fits, Looping, Labels
<1> QED
  BY <1>1, <1>6, <1>9, <1>10, GotoFits DEF TaskStep

\* An outcome: the first dispatch's task is Running, so every path is legal.
LEMMA ApplyStep ==
  ASSUME Shapes, StatusFits, DispatchesRun, NEW j \in Jobs, NEW outcome,
         ApplyOutcome(j, outcome)
  PROVE  TaskStep(j) /\ JobMoves(j)
<1>1. PICK d : d = Head(inflight[j])
  OBVIOUS
<1>2. /\ pc[j] = "apply" /\ jobStatus' = jobStatus /\ inflight[j] # <<>>
      /\ inflight' = [inflight EXCEPT ![j] = Tail(inflight[j])]
      /\ Succeed(j, d) \/ LoseLease(j, d) \/ Fail(j, d, outcome)
  BY <1>1, Zenon DEF ApplyOutcome
<1>3. inflight[j] \in Seq(Dispatch) /\ 1 \in 1..Len(inflight[j]) /\ d = inflight[j][1]
  BY <1>1, <1>2, TasksTyped
<1>4. d.task \in Tasks /\ state[d.task] = "Running"
  BY <1>3, TasksTyped, Zenon DEF DispatchesRun, Runs
<1>5. "apply" \in Labels /\ Fits("apply", jobStatus[j])
  BY <1>2, Zenon DEF StatusFits, Fits, Looping, Labels
<1>6. ASSUME NEW s \in {"Completed", "RetryScheduled", "DeadLettered"}, NEW path,
             Advance(j, d.task, path, "apply"), LegalPath(TaskAllowed, state[d.task], path),
             EndOf(state[d.task], path) = s,
             results' = IF s = "Completed" THEN [results EXCEPT ![d.task] = results[d.task] + 1]
                        ELSE results
      PROVE  TaskStep(j) /\ JobMoves(j)
  <2>1. state' = [u \in Tasks |-> IF u = d.task THEN s ELSE state[u]] /\ Goto(j, "apply")
    <3>1. PICK t : t = d.task
      OBVIOUS
    <3>2. /\ Advance(j, t, path, "apply") /\ LegalPath(TaskAllowed, state[t], path)
          /\ EndOf(state[t], path) = s /\ t \in Tasks
      BY <1>4, <1>6, <3>1, Zenon
    <3>3. state' = [u \in Tasks |-> IF u = t THEN s ELSE state[u]] /\ Goto(j, "apply")
      BY <3>2, AdvancesOne
    <3> QED
      BY <3>1, <3>3
  <2>2. Settled(j, d.task, s)
    BY <1>2, <1>3, <1>6, <2>1, Zenon DEF Settled, Goto
  <2> QED
    BY <1>2, <1>5, <2>1, <2>2, GotoFits, Zenon DEF TaskStep
<1>7. CASE Succeed(j, d)
  <2>1. /\ LegalPath(TaskAllowed, state[d.task], <<"Completed">>)
        /\ EndOf(state[d.task], <<"Completed">>) = "Completed"
    BY <1>4, TaskEdges, OneEdge
  <2>2. /\ Advance(j, d.task, <<"Completed">>, "apply")
        /\ results' = [results EXCEPT ![d.task] = results[d.task] + 1]
    BY <1>7 DEF Succeed
  <2> QED
    BY <1>6, <2>1, <2>2, Zenon
<1>8. ASSUME NEW failure \in {"Failed", "TimedOut"}, NEW retry, FailTask(j, d, failure, retry),
             results' = results
      PROVE  TaskStep(j) /\ JobMoves(j)
  <2>1. PICK s \in {"RetryScheduled", "DeadLettered"} :
           s = IF retry THEN "RetryScheduled" ELSE "DeadLettered"
    OBVIOUS
  <2>2. Advance(j, d.task, <<failure, s>>, "apply")
    BY <1>8, <2>1 DEF FailTask
  <2>3. failure \in TaskAllowed[state[d.task]] /\ s \in TaskAllowed[failure]
    BY <1>4, TaskEdges
  <2>4. /\ LegalPath(TaskAllowed, state[d.task], <<failure, s>>)
        /\ EndOf(state[d.task], <<failure, s>>) = s
    BY <2>3, TwoEdges
  <2> QED
    BY <1>6, <1>8, <2>2, <2>4, Zenon
<1>9. CASE LoseLease(j, d)
  BY <1>8, <1>9 DEF LoseLease
<1>10. CASE Fail(j, d, outcome)
  <2>1. PICK failure \in {"Failed", "TimedOut"} :
           failure = IF outcome = "timeout" THEN "TimedOut" ELSE "Failed"
    OBVIOUS
  <2>2. FailTask(j, d, failure, Retryable(d) /\ outcome # "fatal") /\ results' = results
    BY <1>10, <2>1 DEF Fail
  <2> QED
    BY <1>8, <2>2
<1> QED
  BY <1>2, <1>7, <1>9, <1>10
LEMMA EngineTasks ==
  ASSUME Shapes, QueueOwes, StatusFits, DispatchesRun, NEW j \in Jobs, EngineStep(j)
  PROVE  TaskStep(j) /\ JobMoves(j)
  BY QuietSteps, StatusSteps, PromoteStep, CollectStep, IdleStep, AbandonStep, ApplyStep,
     TeardownStep DEF EngineStep
-----------------------------------------------------------------------------
(* The queue's operations keep an attempt for every entry that waits.      *)

LEMMA AdmitOwes ==
  ASSUME QueueOwes, NEW k \in Keys, spent' = [spent EXCEPT ![k] = 0], Admit(k)
  PROVE  QueueOwes'
<1>1. MaxAttempts \in Nat \ {0}
  BY JobEngineAssumption
<1>2. /\ status' = [status EXCEPT ![k] = "waiting"] /\ owner' = owner
      /\ spent' = [spent EXCEPT ![k] = 0]
  BY DEF Admit
<1> QED
  BY <1>1, <1>2 DEF QueueOwes

LEMMA GrantOwes ==
  ASSUME QueueOwes, NEW k \in Keys, NEW id, Grant(k, id)
  PROVE  QueueOwes'
<1>1. PICK n \in Nat : n = spent[k] + 1
  BY DEF QueueOwes
<1>2. /\ status' = [status EXCEPT ![k] = "leased"] /\ owner' = [owner EXCEPT ![k] = id]
      /\ spent' = [spent EXCEPT ![k] = n]
  BY <1>1 DEF Grant
<1>3. \A h \in Keys : status'[h] = "waiting" => h # k /\ status[h] = "waiting"
  BY <1>2 DEF QueueOwes
<1> QED
  BY <1>2, <1>3, Zenon DEF QueueOwes

LEMMA CompleteOwes ==
  ASSUME QueueOwes, NEW k \in Keys, Complete(k)
  PROVE  QueueOwes'
  BY Zenon DEF QueueOwes, Complete

LEMMA FailOwes ==
  ASSUME QueueOwes, NEW K, FailLeases(K)
  PROVE  QueueOwes'
  BY DEF QueueOwes, FailLeases

LEMMA DropOwes ==
  ASSUME QueueOwes, NEW K, Drop(K)
  PROVE  QueueOwes'
  BY DEF QueueOwes, Drop

LEMMA SameOwes ==
  ASSUME QueueOwes, UNCHANGED abstractVars
  PROVE  QueueOwes'
  BY DEF QueueOwes, abstractVars

LEMMA PurgeOwes ==
  ASSUME QueueOwes, NEW j, Purge(j)
  PROVE  QueueOwes'
  BY DropOwes, SameOwes DEF Purge

LEMMA AckOwes ==
  ASSUME QueueOwes, NEW d, d.key \in Keys, AckOk(d) \/ AckLost(d) \/ RejectLease(d)
  PROVE  QueueOwes'
  BY CompleteOwes, FailOwes, SameOwes DEF AckOk, AckLost, RejectLease

LEMMA EngineOwes ==
  ASSUME Shapes, QueueOwes, NEW j \in Jobs, EngineStep(j)
  PROVE  QueueOwes'
<1>1. CASE \/ Run(j) \/ TickTop(j) \/ AwaitResume(j) \/ PromoteDone(j) \/ CollectDone(j)
           \/ IdleTick(j) \/ ExecuteAll(j) \/ AbandonTick(j) \/ ApplyDone(j) \/ Teardown(j)
           \/ Finish(j)
  <2>1. UNCHANGED abstractVars
    BY <1>1, Zenon DEF Run, TickTop, AwaitResume, PromoteDone, CollectDone, IdleTick, ExecuteAll,
                AbandonTick, ApplyDone, Teardown, Finish
  <2> QED
    BY <2>1, SameOwes
<1>2. CASE PromoteReady(j)
  <2>1. PICK t \in Ready(j) :
           IF status[AttemptKey[t]] = "absent"
           THEN spent' = [spent EXCEPT ![AttemptKey[t]] = 0] /\ Admit(AttemptKey[t])
           ELSE UNCHANGED abstractVars
    BY <1>2, Zenon DEF PromoteReady
  <2>2. AttemptKey[t] \in Keys
    BY JobEngineAssumption, Zenon DEF Ready, Owned
  <2> QED
    BY <2>1, <2>2, AdmitOwes, SameOwes, Zenon
<1>3. CASE SweepAndCount(j)
  <2>1. PICK K : IF K = {} THEN UNCHANGED abstractVars ELSE FailLeases(K)
    BY <1>3 DEF SweepAndCount
  <2> QED
    BY <2>1, FailOwes, SameOwes
<1>4. CASE \E k \in Keys : Collect(j, k)
  BY <1>4, GrantOwes, Zenon DEF Collect
<1>5. CASE Discard(j)
  <2>1. PICK d \in stray[j] : AckOk(d) \/ AckLost(d)
    BY <1>5 DEF Discard
  <2>2. d.key \in Keys
    BY <2>1 DEF Shapes, Dispatch
  <2> QED
    BY <2>1, <2>2, AckOwes
<1>6. CASE \E outcome \in Outcomes : ApplyOutcome(j, outcome)
  <2>1. PICK d : d = Head(inflight[j])
    OBVIOUS
  <2>2. inflight[j] # <<>> /\ (AckOk(d) \/ AckLost(d) \/ RejectLease(d))
    BY <1>6, <2>1, Zenon DEF ApplyOutcome, Succeed, LoseLease, Fail
  <2>3. inflight[j] \in Seq(Dispatch)
    BY TasksTyped
  <2>4. d \in Dispatch
    BY <2>1, <2>2, <2>3
  <2>5. d.key \in Keys
    BY <2>4 DEF Dispatch
  <2> QED
    BY <2>2, <2>5, AckOwes, Zenon
<1>7. CASE FinishCancelled(j)
  BY <1>7, PurgeOwes DEF FinishCancelled
<1> QED
  BY <1>1, <1>2, <1>3, <1>4, <1>5, <1>6, <1>7, Zenon DEF EngineStep
-----------------------------------------------------------------------------
(* The other variables of the engine, and the steps of the others.         *)

LEMMA DispatchesTyped ==
  ASSUME Shapes, NEW j \in Jobs, TaskStep(j)
  PROVE  inflight' \in [Jobs -> Seq(Dispatch)]
<1>1. inflight \in [Jobs -> Seq(Dispatch)] /\ inflight[j] \in Seq(Dispatch)
  BY DEF Shapes
<1>2. CASE inflight' = inflight \/ inflight' = [inflight EXCEPT ![j] = <<>>]
  <2>1. <<>> \in Seq(Dispatch)
    OBVIOUS
  <2> QED
    BY <1>1, <1>2, <2>1, Zenon
<1>3. CASE \E d : Started(j, d)
  <2>1. PICK d \in Dispatch : inflight' = [inflight EXCEPT ![j] = Append(inflight[j], d)]
    BY <1>3, Zenon DEF Started
  <2>2. Append(inflight[j], d) \in Seq(Dispatch)
    BY <1>1
  <2> QED
    BY <1>1, <2>1, <2>2
<1>4. CASE \E t, s : Settled(j, t, s)
  <2>1. inflight' = [inflight EXCEPT ![j] = Tail(inflight[j])] /\ inflight[j] # <<>>
    BY <1>4, Zenon DEF Settled
  <2>2. Tail(inflight[j]) \in Seq(Dispatch)
    BY <1>1, <2>1
  <2> QED
    BY <1>1, <2>1, <2>2
<1> QED
  BY <1>2, <1>3, <1>4, Zenon DEF TaskStep, Quiet, Moved, Abandoned, TornDown

LEMMA EngineLocals ==
  ASSUME Shapes, QueueOwes, StatusFits, NEW j \in Jobs, EngineStep(j)
  PROVE  /\ UNCHANGED <<control, late, cancelling, checked>>
         /\ \E S \in SUBSET Dispatch : stray' = [stray EXCEPT ![j] = S]
         /\ \E n \in Nat : n <= MaxAgents[j] /\ slots' = [slots EXCEPT ![j] = n]
         /\ \E b \in BOOLEAN : promoted' = [promoted EXCEPT ![j] = b]
<1>1. /\ stray[j] \in SUBSET Dispatch /\ stray = [stray EXCEPT ![j] = stray[j]]
      /\ slots[j] \in Nat /\ slots[j] <= MaxAgents[j] /\ slots = [slots EXCEPT ![j] = slots[j]]
      /\ promoted[j] \in BOOLEAN /\ promoted = [promoted EXCEPT ![j] = promoted[j]]
      /\ MaxAgents[j] \in Nat
  BY JobEngineAssumption, Zenon DEF Shapes
<1>2. ASSUME stray' = stray, slots' = slots, promoted' = promoted
      PROVE  /\ \E S \in SUBSET Dispatch : stray' = [stray EXCEPT ![j] = S]
             /\ \E n \in Nat : n <= MaxAgents[j] /\ slots' = [slots EXCEPT ![j] = n]
             /\ \E b \in BOOLEAN : promoted' = [promoted EXCEPT ![j] = b]
  BY <1>1, <1>2
<1>3. UNCHANGED <<control, late, cancelling, checked>>
  BY Zenon DEF EngineStep, Run, TickTop, AwaitResume, PromoteReady, PromoteDone, SweepAndCount,
         Collect, Discard, CollectDone, IdleTick, ExecuteAll, AbandonTick, ApplyOutcome,
         ApplyDone, Teardown, FinishCancelled, Finish, operatorVars
<1>4. CASE \/ Run(j) \/ AwaitResume(j) \/ PromoteDone(j) \/ IdleTick(j) \/ ExecuteAll(j)
           \/ AbandonTick(j) \/ ApplyDone(j) \/ Teardown(j) \/ Finish(j) \/ FinishCancelled(j)
           \/ \E outcome \in Outcomes : ApplyOutcome(j, outcome)
  <2>1. stray' = stray /\ slots' = slots /\ promoted' = promoted
    BY <1>4, Zenon DEF Run, AwaitResume, PromoteDone, IdleTick, ExecuteAll, AbandonTick, ApplyDone,
                Teardown, Finish, FinishCancelled, ApplyOutcome
  <2> QED
    BY <1>2, <1>3, <2>1
<1>5. CASE TickTop(j) \/ PromoteReady(j)
  <2>1. stray' = stray /\ slots' = slots /\ \E b \in BOOLEAN : promoted' = [promoted EXCEPT ![j] = b]
    BY <1>5, Zenon DEF TickTop, PromoteReady
  <2> QED
    BY <1>1, <1>3, <2>1, Zenon
<1>6. CASE SweepAndCount(j)
  <2>1. PICK n \in 1..MaxAgents[j] : slots' = [slots EXCEPT ![j] = n]
    BY <1>6, Zenon DEF SweepAndCount
  <2>2. stray' = stray /\ promoted' = promoted /\ n \in Nat /\ n <= MaxAgents[j]
    BY <1>1, <1>6 DEF SweepAndCount
  <2> QED
    BY <1>1, <1>3, <2>1, <2>2, Zenon
<1>7. CASE \E k \in Keys : Collect(j, k)
  <2>1. PICK k \in Keys : Collect(j, k)
    BY <1>7
  <2>2. promoted' = promoted /\ slots[j] > 0 /\ slots' = [slots EXCEPT ![j] = slots[j] - 1]
    BY <2>1, Zenon DEF Collect
  <2>3. PICK n \in Nat : n = slots[j] - 1 /\ n <= MaxAgents[j]
    BY <1>1, <2>2
  <2>4. \E S \in SUBSET Dispatch : stray' = [stray EXCEPT ![j] = S]
    <3>1. stray' = stray \/ \E d \in Dispatch : stray' = [stray EXCEPT ![j] = {d}]
      BY <2>1, CollectStep
    <3>2. \A d \in Dispatch : {d} \in SUBSET Dispatch
      OBVIOUS
    <3> QED
      BY <1>1, <3>1, <3>2
  <2> QED
    BY <1>1, <1>3, <2>2, <2>3, <2>4, Zenon
<1>8. CASE Discard(j)
  <2>1. stray' = [stray EXCEPT ![j] = {}] /\ slots' = slots /\ promoted' = promoted
    BY <1>8 DEF Discard
  <2> QED
    BY <1>1, <1>3, <2>1, Zenon
<1>9. CASE CollectDone(j)
  <2>1. stray' = stray /\ slots' = [slots EXCEPT ![j] = 0] /\ promoted' = promoted
    BY <1>9 DEF CollectDone
  <2>2. 0 \in Nat /\ 0 <= MaxAgents[j]
    BY <1>1
  <2> QED
    BY <1>1, <1>3, <2>1, <2>2, Zenon
<1> QED
  BY <1>4, <1>5, <1>6, <1>7, <1>8, <1>9, Zenon DEF EngineStep
LEMMA EngineShapes ==
  ASSUME EngineInv, NEW j \in Jobs, EngineStep(j)
  PROVE  Shapes'
<1>1. TaskStep(j) /\ JobMoves(j)
  BY EngineTasks DEF EngineInv
<1>2. /\ pc' \in [Jobs -> Labels] /\ jobStatus' \in [Jobs -> JobStatuses]
      /\ state' \in [Tasks -> Resting] /\ results' \in [Tasks -> Nat]
      /\ inflight' \in [Jobs -> Seq(Dispatch)]
  BY <1>1, FitsStep, StatesStep, ResultsStep, DispatchesTyped, Zenon DEF EngineInv
<1>3. /\ UNCHANGED <<control, late, cancelling, checked>>
      /\ \E S \in SUBSET Dispatch : stray' = [stray EXCEPT ![j] = S]
      /\ \E n \in Nat : n <= MaxAgents[j] /\ slots' = [slots EXCEPT ![j] = n]
      /\ \E b \in BOOLEAN : promoted' = [promoted EXCEPT ![j] = b]
  BY EngineLocals, Zenon DEF EngineInv
<1>4. stray' \in [Jobs -> SUBSET Dispatch]
  BY <1>3 DEF EngineInv, Shapes
<1>5. slots' \in [Jobs -> Nat] /\ \A i \in Jobs : slots'[i] <= MaxAgents[i]
  BY <1>3 DEF EngineInv, Shapes
<1>6. promoted' \in [Jobs -> BOOLEAN]
  <2>1. PICK b \in BOOLEAN : promoted' = [promoted EXCEPT ![j] = b]
    BY <1>3, Zenon
  <2>2. promoted \in [Jobs -> BOOLEAN]
    BY DEF EngineInv, Shapes
  <2> QED
    BY <2>1, <2>2
<1>7. /\ control' \in [Jobs -> {"Running", "Paused", "Cancelled"}] /\ late' \in [Jobs -> BOOLEAN]
      /\ cancelling' \in [Jobs -> {"no", "purging", "done"}]
      /\ checked' \in [Jobs -> SUBSET {"pause", "resume"}]
  BY <1>3, Zenon DEF EngineInv, Shapes
<1> QED
  BY <1>2, <1>4, <1>5, <1>6, <1>7, Zenon DEF Shapes

LEMMA EngineKeeps ==
  ASSUME EngineInv, NEW j \in Jobs, EngineStep(j)
  PROVE  EngineInv'
<1>1. TaskStep(j) /\ JobMoves(j)
  BY EngineTasks DEF EngineInv
<1>2. Shapes' /\ QueueOwes'
  BY EngineShapes, EngineOwes DEF EngineInv
<1>3. StatusFits' /\ DispatchesRun' /\ OneResult' /\ UpstreamFirst'
  BY <1>1, FitsStep, RunsStep, ResultsStep, UpstreamStep DEF EngineInv
<1> QED
  BY <1>2, <1>3, Zenon DEF EngineInv

\* A step that leaves the engines alone.
LEMMA EnginesRest ==
  ASSUME EngineInv, UNCHANGED <<pc, jobStatus, state, results, inflight, slots, promoted, stray>>,
         QueueOwes',
         control' \in [Jobs -> {"Running", "Paused", "Cancelled"}],
         late' \in [Jobs -> BOOLEAN], cancelling' \in [Jobs -> {"no", "purging", "done"}],
         checked' \in [Jobs -> SUBSET {"pause", "resume"}]
  PROVE  EngineInv'
<1>1. Shapes'
  BY Zenon DEF EngineInv, Shapes
<1>2. StatusFits' /\ OneResult' /\ UpstreamFirst'
  BY Zenon DEF EngineInv, StatusFits, Fits, OneResult, UpstreamFirst
<1>3. DispatchesRun'
  BY DEF EngineInv, DispatchesRun, Runs, Owned
<1> QED
  BY <1>1, <1>2, <1>3, Zenon DEF EngineInv

LEMMA OperatorKeeps ==
  ASSUME EngineInv, NEW j \in Jobs, OperatorStep(j)
  PROVE  EngineInv'
<1>1. /\ control \in [Jobs -> {"Running", "Paused", "Cancelled"}] /\ late \in [Jobs -> BOOLEAN]
      /\ cancelling \in [Jobs -> {"no", "purging", "done"}]
      /\ checked \in [Jobs -> SUBSET {"pause", "resume"}] /\ QueueOwes
  BY DEF EngineInv, Shapes
<1>2. CASE Cancel(j)
  <2>1. UNCHANGED <<pc, jobStatus, state, results, inflight, slots, promoted, stray, late, checked>>
    BY <1>2 DEF Cancel
  <2>2. /\ control' \in [Jobs -> {"Running", "Paused", "Cancelled"}]
        /\ cancelling' \in [Jobs -> {"no", "purging", "done"}]
    BY <1>1, <1>2 DEF Cancel
  <2>3. QueueOwes'
    BY <1>1, <1>2, SameOwes DEF Cancel
  <2> QED
    BY <1>1, <2>1, <2>2, <2>3, EnginesRest
<1>3. CASE CancelPurge(j)
  <2>1. UNCHANGED <<pc, jobStatus, state, results, inflight, slots, promoted, stray, control,
                    late, checked>>
    BY <1>3 DEF CancelPurge, engineVars
  <2>2. cancelling' \in [Jobs -> {"no", "purging", "done"}]
    BY <1>1, <1>3 DEF CancelPurge
  <2>3. QueueOwes'
    BY <1>1, <1>3, PurgeOwes DEF CancelPurge
  <2> QED
    BY <1>1, <2>1, <2>2, <2>3, EnginesRest
<1>4. CASE PassDeadline(j)
  <2>1. UNCHANGED <<pc, jobStatus, state, results, inflight, slots, promoted, stray, control,
                    cancelling, checked>>
    BY <1>4 DEF PassDeadline, engineVars
  <2>2. late' \in [Jobs -> BOOLEAN]
    BY <1>1, <1>4, Zenon DEF PassDeadline
  <2>3. QueueOwes'
    BY <1>1, <1>4, SameOwes DEF PassDeadline
  <2> QED
    BY <1>1, <2>1, <2>2, <2>3, EnginesRest
<1>5. CASE \E call \in {"pause", "resume"} : Check(j, call)
  <2>1. UNCHANGED <<pc, jobStatus, state, results, inflight, slots, promoted, stray, control,
                    late, cancelling>>
    BY <1>5 DEF Check, engineVars
  <2>2. checked' \in [Jobs -> SUBSET {"pause", "resume"}]
    BY <1>1, <1>5 DEF Check
  <2>3. QueueOwes'
    BY <1>1, <1>5, SameOwes DEF Check
  <2> QED
    BY <1>1, <2>1, <2>2, <2>3, EnginesRest
<1>6. ASSUME NEW call, NEW value \in {"Running", "Paused"}, Replace(j, call, value)
      PROVE  EngineInv'
  <2>1. UNCHANGED <<pc, jobStatus, state, results, inflight, slots, promoted, stray, late,
                    cancelling>>
    BY <1>6 DEF Replace
  <2>2. /\ control' \in [Jobs -> {"Running", "Paused", "Cancelled"}]
        /\ checked' \in [Jobs -> SUBSET {"pause", "resume"}]
    BY <1>1, <1>6 DEF Replace
  <2>3. QueueOwes'
    BY <1>1, <1>6, SameOwes DEF Replace
  <2> QED
    BY <1>1, <2>1, <2>2, <2>3, EnginesRest
<1> QED
  BY <1>2, <1>3, <1>4, <1>5, <1>6 DEF OperatorStep
-----------------------------------------------------------------------------
(* The theorems.                                                           *)

LEMMA InitInv == Init => EngineInv
<1> SUFFICES ASSUME Init PROVE EngineInv
  OBVIOUS
<1>1. MaxAttempts \in Nat \ {0} /\ \A j \in Jobs : MaxAgents[j] \in Nat
  BY JobEngineAssumption
<1>2. QueueOwes
  BY <1>1 DEF Init, AbstractInit, QueueOwes
<1>3. StatusFits /\ OneResult /\ UpstreamFirst
  BY DEF Init, StatusFits, Fits, Looping, OneResult, UpstreamFirst
<1>4. DispatchesRun
  BY DEF Init, DispatchesRun, Runs, Owned
<1>5. /\ pc \in [Jobs -> Labels] /\ jobStatus \in [Jobs -> JobStatuses]
      /\ control \in [Jobs -> {"Running", "Paused", "Cancelled"}]
      /\ state \in [Tasks -> Resting] /\ results \in [Tasks -> Nat]
  BY DEF Init, Labels, JobStatuses, Resting
<1>6. /\ stray \in [Jobs -> SUBSET Dispatch] /\ checked \in [Jobs -> SUBSET {"pause", "resume"}]
      /\ slots \in [Jobs -> Nat] /\ \A j \in Jobs : slots[j] <= MaxAgents[j]
      /\ cancelling \in [Jobs -> {"no", "purging", "done"}]
  BY <1>1 DEF Init
<1>7. promoted \in [Jobs -> BOOLEAN] /\ late \in [Jobs -> BOOLEAN]
  BY Zenon DEF Init
<1>8. inflight \in [Jobs -> Seq(Dispatch)]
  <2>1. <<>> \in Seq(Dispatch)
    OBVIOUS
  <2> QED
    BY <2>1 DEF Init
<1> QED
  BY <1>2, <1>3, <1>4, <1>5, <1>6, <1>7, <1>8, Zenon DEF EngineInv, Shapes

LEMMA NextInv == EngineInv /\ [Next]_vars => EngineInv'
<1> SUFFICES ASSUME EngineInv, [Next]_vars PROVE EngineInv'
  OBVIOUS
<1>1. CASE \E j \in Jobs : EngineStep(j) \/ OperatorStep(j)
  BY <1>1, EngineKeeps, OperatorKeeps
<1>2. QueueOwes /\ Shapes
  BY DEF EngineInv
<1>3. ASSUME QueueOwes', UNCHANGED <<engineVars, operatorVars>> PROVE EngineInv'
  <2>1. /\ UNCHANGED <<pc, jobStatus, state, results, inflight, slots, promoted, stray>>
        /\ UNCHANGED <<control, late, cancelling, checked>>
    BY <1>3 DEF engineVars, operatorVars
  <2>2. /\ control' \in [Jobs -> {"Running", "Paused", "Cancelled"}] /\ late' \in [Jobs -> BOOLEAN]
        /\ cancelling' \in [Jobs -> {"no", "purging", "done"}]
        /\ checked' \in [Jobs -> SUBSET {"pause", "resume"}]
    BY <1>2, <2>1, Zenon DEF Shapes
  <2> QED
    BY <1>3, <2>1, <2>2, EnginesRest
<1>4. CASE \E k \in Redelivered : Redeliver(k)
  <2>1. QueueOwes'
    BY <1>2, <1>4, AdmitOwes, Zenon DEF Redeliver, Redelivered
  <2> QED
    BY <1>3, <1>4, <2>1 DEF Redeliver
<1>5. CASE UNCHANGED vars
  <2>1. QueueOwes'
    BY <1>2, <1>5, SameOwes DEF vars
  <2> QED
    BY <1>3, <1>5, <2>1 DEF vars
<1> QED
  BY <1>1, <1>4, <1>5 DEF Next, Over

LEMMA EngineInvariant == Spec => []EngineInv
  BY InitInv, NextInv, PTL DEF Spec

\* No engine ever leaves its loop because a state machine refused a transition
\* (advance and set_status in engine.rs), whatever the graphs, the queue's
\* redeliveries and lapses, and the operator's calls.
THEOREM EngineTypes == Spec => []TypeOK
<1>1. EngineInv => TypeOK
  <2> SUFFICES ASSUME EngineInv PROVE TypeOK
    OBVIOUS
  <2>1. Shapes
    BY DEF EngineInv
  <2>2. state \in [Tasks -> TaskStates]
    BY <2>1 DEF Shapes, Resting, TaskStates
  <2>3. ASSUME NEW j \in Jobs
        PROVE  /\ \A i \in 1..Len(inflight[j]) : inflight[j][i] \in Dispatch
               /\ stray[j] \subseteq Dispatch /\ slots[j] \in 0..MaxAgents[j]
               /\ checked[j] \subseteq {"pause", "resume"}
    <3>1. inflight[j] \in Seq(Dispatch)
      BY <2>1, TasksTyped, Zenon
    <3>2. \A i \in 1..Len(inflight[j]) : inflight[j][i] \in Dispatch
      BY <3>1
    <3>3. MaxAgents[j] \in Nat
      BY JobEngineAssumption
    <3>4. stray[j] \subseteq Dispatch /\ slots[j] \in 0..MaxAgents[j]
      BY <2>1, <3>3 DEF Shapes
    <3>5. checked[j] \subseteq {"pause", "resume"}
      BY <2>1 DEF Shapes
    <3> QED
      BY <3>2, <3>4, <3>5, Zenon
  <2> QED
    BY <2>1, <2>2, <2>3, Zenon DEF TypeOK, Shapes
<1> QED
  BY <1>1, EngineInvariant, PTL

\* A task is Completed exactly when one result of it is recorded (apply_outcome
\* and record_success), for any number of retries, redeliveries and lapses.
THEOREM OneResultEach == Spec => []OneResult
<1>1. EngineInv => OneResult
  BY DEF EngineInv
<1> QED
  BY <1>1, EngineInvariant, PTL

\* promote_ready's order holds for good: a task that left the waiting states
\* has all its dependencies Completed.
THEOREM UpstreamAlwaysFirst == Spec => []UpstreamFirst
<1>1. EngineInv => UpstreamFirst
  BY DEF EngineInv
<1> QED
  BY <1>1, EngineInvariant, PTL

\* collect_dispatches starts a task at most once at a time, whatever duplicates
\* the queue delivers, and a Running task is always in its job's dispatches
\* until the engine tears the job down.
THEOREM RunsOnceEach == Spec => []RunsOnce
<1>1. EngineInv => RunsOnce
  <2> SUFFICES ASSUME EngineInv, NEW j \in Jobs
               PROVE  /\ \A t \in Owned(j) :
                            Cardinality({i \in 1..Len(inflight[j]) : inflight[j][i].task = t})
                              = (IF state[t] = "Running" /\ pc[j] # "teardown" THEN 1 ELSE 0)
                      /\ \A i \in 1..Len(inflight[j]) : inflight[j][i].task \in Owned(j)
    BY Zenon DEF RunsOnce
  <2>1. Runs(j) /\ \A i \in 1..Len(inflight[j]) : inflight[j][i].task \in Tasks
    BY TasksTyped DEF EngineInv, DispatchesRun
  <2>2. \A i \in 1..Len(inflight[j]) : inflight[j][i].task \in Owned(j)
    BY <2>1, Zenon DEF Runs, Owned
  <2>3. ASSUME NEW t \in Owned(j)
        PROVE  Cardinality({i \in 1..Len(inflight[j]) : inflight[j][i].task = t})
                 = (IF state[t] = "Running" /\ pc[j] # "teardown" THEN 1 ELSE 0)
    <3>1. PICK I : I = {i \in 1..Len(inflight[j]) : inflight[j][i].task = t}
      BY Zenon
    <3>2. CASE state[t] = "Running" /\ pc[j] # "teardown"
      <4>1. PICK i \in 1..Len(inflight[j]) : inflight[j][i].task = t
        BY <2>1, <3>2, Zenon DEF Runs
      <4>2. I = {i}
        BY <2>1, <3>1, <4>1 DEF Runs
      <4> QED
        BY <3>1, <3>2, <4>2, FS_Singleton, Zenon
    <3>3. CASE ~(state[t] = "Running" /\ pc[j] # "teardown")
      <4>1. I = {}
        <5>1. ASSUME NEW i \in 1..Len(inflight[j]), inflight[j][i].task = t PROVE FALSE
          <6>1. state[t] = "Running" /\ pc[j] = "teardown"
            BY <2>1, <3>3, <5>1 DEF Runs
          <6>2. inflight[j] = <<>>
            BY <2>1, <6>1, Zenon DEF Runs, Looping
          <6> QED
            BY <5>1, <6>2
        <5> QED
          BY <3>1, <5>1
      <4> QED
        BY <3>1, <3>3, <4>1, FS_EmptySet, Zenon
    <3> QED
      BY <3>2, <3>3, Zenon
  <2> QED
    BY <2>2, <2>3, Zenon
<1> QED
  BY <1>1, EngineInvariant, PTL
=============================================================================
