--------------------------- MODULE AgentPoolProofs -------------------------
(***************************************************************************)
(* For every number of jobs, tasks and agents: the cluster counter is      *)
(* exact, a job's pool stays within its bounds and no task has two agents, *)
(* and the quota is exceeded by less than one agent per job.               *)
(***************************************************************************)
EXTENDS AgentPool, FiniteSetTheorems, TLAPS

AgentOf(j) == [type : Range(AgentTypes), status : {"Idle", "Running"},
               task : OwnedBy[j] \cup {NoTask}]

\* The types, with the pools as sequences of agents.
Shapes ==
    /\ cluster \in Nat /\ failures \in 0..MaxFailures
    /\ pc \in [Jobs -> {"submitted", "claimed"} \cup Loop \cup Ended]
    /\ amount \in [Jobs -> Nat] /\ seen \in [Jobs -> Nat]
    /\ waiting \subseteq Tasks
    /\ pool = [j \in Jobs |-> pool[j]]
    /\ \A j \in Jobs : pool[j] \in Seq(AgentOf(j))

\* The pool at each step: empty before it is provisioned, within its bounds in
\* the loop, and with room for one more while the engine is growing it.
Sized ==
    \A j \in Jobs :
        /\ pc[j] = "claimed" => amount[j] \in 1..MaxAgents[j]
        /\ pc[j] \in Loop => Len(pool[j]) \in 1..MaxAgents[j]
        /\ pc[j] \in {"load", "grow", "push"} => Len(pool[j]) < MaxAgents[j]

\* The agents of a job that the quota has admitted: a claim that will be
\* refused is charged but not admitted.
Admitted ==
    [j \in Jobs |->
        IF pc[j] = "claimed" /\ seen[j] + amount[j] > MaxClusterAgents THEN 0 ELSE Holds[j]]

Growing == {j \in Jobs : pc[j] = "grow"}

\* An engine that saw room may still be about to take it.
QuotaNearly ==
    Total(Admitted) + Cardinality(Growing) <= MaxClusterAgents + Cardinality(Jobs) - 1

PoolInv == Shapes /\ Sized /\ CountExact /\ OneAgentPerTask /\ QuotaNearly
-----------------------------------------------------------------------------
(* Sums over the jobs.                                                     *)

Slots(n) == UNION {{j} \X (1..n[j]) : j \in Jobs}

LEMMA SlotIn ==
  ASSUME NEW n, NEW j \in Jobs, NEW i
  PROVE  <<j, i>> \in Slots(n) <=> i \in 1..n[j]
  BY DEF Slots

LEMMA ColumnSize ==
  ASSUME NEW j, NEW m \in Nat
  PROVE  IsFiniteSet({j} \X (1..m)) /\ Cardinality({j} \X (1..m)) = m
<1> DEFINE one == {j}
           many == 1..m
<1>1. IsFiniteSet(one) /\ Cardinality(one) = 1
  BY FS_Singleton
<1>2. IsFiniteSet(many) /\ Cardinality(many) = m
  BY FS_Interval
<1> HIDE DEF one, many
<1>3. IsFiniteSet(one \X many) /\ Cardinality(one \X many) = Cardinality(one) * Cardinality(many)
  BY <1>1, <1>2, FS_Product
<1>4. IsFiniteSet(one \X many) /\ Cardinality(one \X many) = m
  BY <1>1, <1>2, <1>3
<1> QED
  BY <1>4 DEF one, many

LEMMA SlotsFinite ==
  ASSUME NEW n \in [Jobs -> Nat]
  PROVE  IsFiniteSet(Slots(n)) /\ Cardinality(Slots(n)) \in Nat
<1> DEFINE columns == {{j} \X (1..n[j]) : j \in Jobs}
<1> DEFINE column == [j \in Jobs |-> {j} \X (1..n[j])]
<1>1. column \in Surjection(Jobs, columns)
  BY Zenon DEF Surjection
<1>2. IsFiniteSet(columns)
  BY <1>1, FS_Surjection, AgentPoolAssumption DEF AgentPoolAssumption
<1>3. ASSUME NEW c \in columns PROVE IsFiniteSet(c)
  <2>1. PICK j \in Jobs : c = {j} \X (1..n[j])
    OBVIOUS
  <2>2. n[j] \in Nat
    OBVIOUS
  <2> QED
    BY <2>1, <2>2, ColumnSize, Zenon
<1>4. IsFiniteSet(UNION columns)
  BY <1>2, <1>3, FS_UNION, Zenon
<1> QED
  BY <1>4, FS_CardinalityType DEF Slots

\* When one job's number changes, the sum changes by the same amount.
LEMMA TotalUpdate ==
  ASSUME NEW n \in [Jobs -> Nat], NEW m \in [Jobs -> Nat], NEW j \in Jobs,
         \A k \in Jobs \ {j} : m[k] = n[k]
  PROVE  /\ Total(n) \in Nat /\ Total(m) \in Nat
         /\ Total(n) >= n[j]
         /\ Total(m) = Total(n) - n[j] + m[j]
<1> DEFINE before == {j} \X (1..n[j])
           after == {j} \X (1..m[j])
           rest == Slots(n) \ before
<1>1. IsFiniteSet(Slots(n)) /\ Cardinality(Slots(n)) \in Nat
  BY SlotsFinite
<1>2. IsFiniteSet(before) /\ Cardinality(before) = n[j]
  BY ColumnSize, Zenon
<1>3. IsFiniteSet(after) /\ Cardinality(after) = m[j]
  BY ColumnSize, Zenon
<1>4. before \subseteq Slots(n)
  BY DEF Slots
<1>5. Slots(n) \cap before = before
  BY <1>4
<1>6. IsFiniteSet(rest) /\ Cardinality(rest) = Cardinality(Slots(n)) - n[j]
  <2> HIDE DEF before
  <2>1. /\ IsFiniteSet(rest)
        /\ Cardinality(rest) = Cardinality(Slots(n)) - Cardinality(Slots(n) \cap before)
    BY <1>1, FS_Difference, Zenon
  <2> QED
    BY <2>1, <1>2, <1>5, Zenon
<1>7. rest \cap after = {}
  BY DEF Slots
<1>8. Slots(m) = rest \cup after
  BY DEF Slots
<1>9. Cardinality(Slots(m)) = Cardinality(rest) + m[j] - Cardinality(rest \cap after)
  BY <1>3, <1>6, <1>8, FS_Union
<1>10. Cardinality(rest) \in Nat
  BY <1>6, FS_CardinalityType
<1>11. Cardinality(rest \cap after) = 0
  BY <1>7, FS_EmptySet
<1>12. n[j] \in Nat /\ m[j] \in Nat
  OBVIOUS
<1>13. Total(n) = Cardinality(Slots(n)) /\ Total(m) = Cardinality(Slots(m))
  BY DEF Total, Slots
<1> HIDE DEF before, after, rest
<1> QED
  BY <1>1, <1>6, <1>9, <1>10, <1>11, <1>12, <1>13

LEMMA TotalNat ==
  ASSUME NEW n \in [Jobs -> Nat]
  PROVE  Total(n) \in Nat
  BY SlotsFinite DEF Total, Slots

LEMMA TotalMono ==
  ASSUME NEW n \in [Jobs -> Nat], NEW m \in [Jobs -> Nat], \A k \in Jobs : m[k] <= n[k]
  PROVE  Total(m) <= Total(n)
<1>1. Slots(m) \subseteq Slots(n)
  BY DEF Slots
<1>2. IsFiniteSet(Slots(n))
  BY SlotsFinite
<1> QED
  BY <1>1, <1>2, FS_Subset DEF Total, Slots

LEMMA TotalZero ==
  ASSUME NEW n, \A k \in Jobs : n[k] = 0
  PROVE  Total(n) = 0
<1>1. Slots(n) = {}
  BY DEF Slots
<1> QED
  BY <1>1, FS_EmptySet DEF Total, Slots
-----------------------------------------------------------------------------
(* A step of one engine leaves the others where they are.                  *)

OnlyMoves(j) ==
    \A k \in Jobs \ {j} :
        pc'[k] = pc[k] /\ pool'[k] = pool[k] /\ amount'[k] = amount[k] /\ seen'[k] = seen[k]

Countable == Holds \in [Jobs -> Nat] /\ Admitted \in [Jobs -> Nat]

LEMMA HoldsType == Shapes => Countable
<1> SUFFICES ASSUME Shapes PROVE Countable
  OBVIOUS
<1>1. \A j \in Jobs : Len(pool[j]) \in Nat /\ amount[j] \in Nat
  BY DEF Shapes
<1>2. Holds \in [Jobs -> Nat]
  BY <1>1 DEF Holds
<1> QED
  BY <1>2 DEF Admitted, Countable

LEMMA HoldsTypeNext == Shapes' => Countable'
  BY HoldsType, PTL

LEMMA CountStep ==
  ASSUME Shapes, Shapes', CountExact, NEW j \in Jobs, OnlyMoves(j),
         cluster' = cluster - Holds[j] + Holds'[j]
  PROVE  CountExact'
<1>1. Holds \in [Jobs -> Nat] /\ Holds' \in [Jobs -> Nat]
  BY HoldsType, HoldsTypeNext DEF Countable
<1>2. \A k \in Jobs \ {j} : Holds'[k] = Holds[k]
  BY DEF Holds, OnlyMoves
<1>3. Total(Holds') = Total(Holds) - Holds[j] + Holds'[j]
  BY <1>1, <1>2, TotalUpdate
<1> QED
  BY <1>3 DEF CountExact

\* The counter never falls short of what a job will give back.
LEMMA CountCovers ==
  ASSUME Shapes, CountExact, NEW j \in Jobs
  PROVE  cluster >= Holds[j]
<1>1. Holds \in [Jobs -> Nat]
  BY HoldsType DEF Countable
<1> QED
  BY <1>1, TotalUpdate DEF CountExact

LEMMA GrowingFinite ==
  /\ IsFiniteSet(Growing) /\ Cardinality(Growing) \in Nat
  /\ Cardinality(Growing) <= Cardinality(Jobs)
  /\ Cardinality(Jobs) \in Nat
  /\ \A j \in Jobs : pc[j] # "grow" => Cardinality(Growing) <= Cardinality(Jobs) - 1
<1>1. IsFiniteSet(Jobs)
  BY AgentPoolAssumption DEF AgentPoolAssumption
<1>2. Growing \in SUBSET Jobs
  BY DEF Growing
<1>3. IsFiniteSet(Growing) /\ Cardinality(Growing) <= Cardinality(Jobs)
  BY <1>1, <1>2, FS_Subset
<1>4. Cardinality(Growing) \in Nat /\ Cardinality(Jobs) \in Nat
  BY <1>1, <1>3, FS_CardinalityType
<1>5. ASSUME NEW j \in Jobs, pc[j] # "grow"
      PROVE  Cardinality(Growing) <= Cardinality(Jobs) - 1
  <2>1. Growing \in SUBSET (Jobs \ {j})
    BY <1>5 DEF Growing
  <2>2. IsFiniteSet(Jobs \ {j}) /\ Cardinality(Jobs \ {j}) = Cardinality(Jobs) - 1
    BY <1>1, FS_RemoveElement
  <2> QED
    BY <2>1, <2>2, FS_Subset
<1> QED
  BY <1>3, <1>4, <1>5

\* Most steps admit nothing new.
LEMMA QuotaStep ==
  ASSUME Shapes, Shapes', QuotaNearly, NEW j \in Jobs, OnlyMoves(j),
         Admitted'[j] <= Admitted[j], pc'[j] # "grow"
  PROVE  QuotaNearly'
<1>1. Admitted \in [Jobs -> Nat] /\ Admitted' \in [Jobs -> Nat]
  BY HoldsType, HoldsTypeNext DEF Countable
<1>2. \A k \in Jobs \ {j} : Admitted'[k] = Admitted[k]
  BY DEF Admitted, Holds, OnlyMoves
<1>3. \A k \in Jobs : Admitted'[k] <= Admitted[k]
  BY <1>1, <1>2
<1>4. Total(Admitted') <= Total(Admitted)
  BY <1>1, <1>3, TotalMono
<1>5. Growing' \in SUBSET Growing
  BY DEF Growing, OnlyMoves
<1>6. IsFiniteSet(Growing)
  BY GrowingFinite
<1>7. Cardinality(Growing') <= Cardinality(Growing) /\ IsFiniteSet(Growing')
  BY <1>5, <1>6, FS_Subset
<1>8. Cardinality(Growing') \in Nat /\ Cardinality(Growing) \in Nat
  BY <1>6, <1>7, FS_CardinalityType
<1>9. Total(Admitted) \in Nat /\ Total(Admitted') \in Nat
  BY <1>1, TotalNat
<1>10. MaxClusterAgents \in Nat /\ Cardinality(Jobs) \in Nat
  BY GrowingFinite, AgentPoolAssumption DEF AgentPoolAssumption
<1> QED
  BY <1>4, <1>7, <1>8, <1>9, <1>10 DEF QuotaNearly

\* What is admitted is charged, so the counter bounds it.
LEMMA QuotaCounted ==
  ASSUME Shapes, CountExact
  PROVE  Total(Admitted) <= cluster
<1>1. Admitted \in [Jobs -> Nat] /\ Holds \in [Jobs -> Nat]
  BY HoldsType DEF Countable
<1>2. \A k \in Jobs : Admitted[k] <= Holds[k]
  BY <1>1 DEF Admitted
<1> QED
  BY <1>1, <1>2, TotalMono DEF CountExact

\* The same in the next state.
LEMMA QuotaCountedNext == Shapes' /\ CountExact' => Total(Admitted') <= cluster'
<1>1. (Shapes /\ CountExact => Total(Admitted) <= cluster)'
  BY QuotaCounted, PTL
<1> QED
  BY <1>1

LEMMA GrowingNext ==
  /\ Cardinality(Growing') \in Nat /\ Cardinality(Jobs) \in Nat
  /\ Cardinality(Growing') <= Cardinality(Jobs)
  /\ \A j \in Jobs : pc'[j] # "grow" => Cardinality(Growing') <= Cardinality(Jobs) - 1
<1>1. (/\ Cardinality(Growing) \in Nat /\ Cardinality(Jobs) \in Nat
       /\ Cardinality(Growing) <= Cardinality(Jobs)
       /\ \A j \in Jobs : pc[j] # "grow" => Cardinality(Growing) <= Cardinality(Jobs) - 1)'
  <2>1. /\ Cardinality(Growing) \in Nat /\ Cardinality(Jobs) \in Nat
        /\ Cardinality(Growing) <= Cardinality(Jobs)
        /\ \A j \in Jobs : pc[j] # "grow" => Cardinality(Growing) <= Cardinality(Jobs) - 1
    BY GrowingFinite
  <2> QED
    BY <2>1, PTL
<1> QED
  BY <1>1
-----------------------------------------------------------------------------
(* Pools in which every busy agent has a task of its own.                  *)

Agent == [type : Range(AgentTypes), status : {"Idle", "Running"}, task : Tasks \cup {NoTask}]

Placed(agents, queued) ==
    \A i, k \in 1..Len(agents) :
        /\ (agents[i].task # NoTask) <=> (agents[i].status = "Running")
        /\ agents[i].task # NoTask =>
              /\ agents[i].task \notin queued
              /\ supports(agents[i], Requires[agents[i].task])
              /\ agents[k].task = agents[i].task => i = k

LEMMA PlacedAppend ==
  ASSUME NEW agents \in Seq(Agent), NEW queued, Placed(agents, queued), NEW type
  PROVE  Placed(Append(agents, NewAgent(type)), queued)
<1> DEFINE more == Append(agents, NewAgent(type))
<1>1. Len(more) = Len(agents) + 1 /\ Len(agents) \in Nat
  OBVIOUS
<1>2. \A i \in 1..Len(agents) : more[i] = agents[i]
  OBVIOUS
<1>3. more[Len(agents) + 1] = NewAgent(type)
  OBVIOUS
<1>4. NewAgent(type).task = NoTask /\ NewAgent(type).status = "Idle"
  BY DEF NewAgent
<1> HIDE DEF more
<1>5. \A i \in 1..Len(more) : i \in 1..Len(agents) \/ i = Len(agents) + 1
  BY <1>1
<1>6. Placed(more, queued)
  BY <1>2, <1>3, <1>4, <1>5 DEF Placed
<1> QED
  BY <1>6 DEF more

\* left has n of the agents, in their order, at the places at names.
Thinned(left, agents, n, at) ==
    /\ n \in Nat /\ Len(left) = n
    /\ \A l \in 1..n : at[l] \in 1..Len(agents)
    /\ \A l, m \in 1..n : l < m => at[l] < at[m]
    /\ \A i \in 1..n : left[i] = agents[at[i]]

LEMMA PlacedSelect ==
  ASSUME NEW agents, NEW queued, Placed(agents, queued), Len(agents) \in Nat,
         NEW n, NEW at, NEW left, Thinned(left, agents, n, at)
  PROVE  Placed(left, queued)
<1>1. n \in Nat /\ Len(left) = n
  BY DEF Thinned
<1>2. \A i \in 1..n : left[i] = agents[at[i]] /\ at[i] \in 1..Len(agents)
  BY DEF Thinned
<1>3. \A l, m \in 1..n : at[l] = at[m] => l = m
  <2> SUFFICES ASSUME NEW l \in 1..n, NEW m \in 1..n, at[l] = at[m], l # m PROVE FALSE
    OBVIOUS
  <2>1. at[l] \in Nat /\ at[m] \in Nat
    BY <1>1, <1>2
  <2>2. l < m \/ m < l
    BY <1>1
  <2>3. (l < m => at[l] < at[m]) /\ (m < l => at[m] < at[l])
    BY DEF Thinned
  <2> QED
    BY <2>1, <2>2, <2>3
<1>4. ASSUME NEW i \in 1..n, NEW k \in 1..n
      PROVE  /\ (left[i].task # NoTask) <=> (left[i].status = "Running")
             /\ left[i].task # NoTask =>
                   /\ left[i].task \notin queued
                   /\ supports(left[i], Requires[left[i].task])
                   /\ left[k].task = left[i].task => i = k
  <2>1. left[i] = agents[at[i]] /\ at[i] \in 1..Len(agents)
    BY <1>2
  <2>2. left[k] = agents[at[k]] /\ at[k] \in 1..Len(agents)
    BY <1>2
  <2>3. at[i] = at[k] => i = k
    BY <1>3
  <2> QED
    BY <2>1, <2>2, <2>3, Zenon DEF Placed
<1> QED
  BY <1>1, <1>4 DEF Placed

LEMMA PlacedReplace ==
  ASSUME NEW agents \in Seq(Agent), NEW queued, Placed(agents, queued), NEW type,
         NEW i \in 1..Len(agents)
  PROVE  Placed([agents EXCEPT ![i] = NewAgent(type)], queued)
<1>1. NewAgent(type).task = NoTask /\ NewAgent(type).status = "Idle"
  BY DEF NewAgent
<1>2. PICK a : a = NewAgent(type)
  OBVIOUS
<1>3. PICK changed : changed = [agents EXCEPT ![i] = a]
  BY Zenon
<1>4. Len(changed) = Len(agents)
  BY <1>3
<1>5. \A k \in 1..Len(agents) : changed[k] = IF k = i THEN a ELSE agents[k]
  BY <1>3
<1>6. Placed(changed, queued)
  BY <1>1, <1>2, <1>4, <1>5 DEF Placed
<1> QED
  BY <1>2, <1>3, <1>6

LEMMA AssignedAgent ==
  ASSUME NEW a \in Agent, is_available(a), NEW t \in Tasks
  PROVE  /\ Assigned(a, t) \in Agent
         /\ Assigned(a, t).task = t /\ Assigned(a, t).status = "Running"
         /\ Assigned(a, t).type = a.type
<1>1. a.status = "Idle"
  BY DEF Agent, is_available
<1>2. LegalPath(AgentAllowed, "Idle", <<"Assigned", "Running">>)
  BY DEF LegalPath, AgentAllowed
<1> QED
  BY <1>1, <1>2, Zenon DEF Assigned, Agent

LEMMA PlacedAssign ==
  ASSUME NEW agents \in Seq(Agent), NEW queued, Placed(agents, queued), NEW t \in Tasks,
         t \in queued, NEW i \in Candidates(agents, t)
  PROVE  Placed([agents EXCEPT ![i] = Assigned(agents[i], t)], queued \ {t})
<1>1. i \in 1..Len(agents) /\ is_available(agents[i]) /\ supports(agents[i], Requires[t])
  BY DEF Candidates
<1>2. agents[i] \in Agent
  BY <1>1
<1>3. PICK a : a = Assigned(agents[i], t)
  OBVIOUS
<1>4. a.task = t /\ a.status = "Running" /\ a.type = agents[i].type
  BY <1>1, <1>2, <1>3, AssignedAgent
<1>5. t # NoTask
  BY AgentPoolAssumption DEF AgentPoolAssumption
<1>6. supports(a, Requires[t])
  BY <1>1, <1>4 DEF supports
<1>7. PICK changed : changed = [agents EXCEPT ![i] = a]
  BY Zenon
<1>8. Len(changed) = Len(agents)
  BY <1>7
<1>9. \A k \in 1..Len(agents) : changed[k] = IF k = i THEN a ELSE agents[k]
  BY <1>7, <1>1
<1>10. \A k \in 1..Len(agents) : agents[k].task # t
  BY <1>5 DEF Placed
<1>11. Placed(changed, queued \ {t})
  BY <1>4, <1>5, <1>6, <1>8, <1>9, <1>10 DEF Placed
<1> QED
  BY <1>3, <1>7, <1>11

LEMMA ReleasedAgent ==
  ASSUME NEW a \in Agent, a.status = "Running", NEW outcome \in {"Completed", "Failed"}
  PROVE  Released(a, outcome) = [a EXCEPT !.status = "Idle", !.task = NoTask]
<1>1. LegalPath(AgentAllowed, "Running", <<"Completed", "Idle">>)
  BY DEF LegalPath, AgentAllowed
<1>2. LegalPath(AgentAllowed, "Running", <<"Failed", "Idle">>)
  BY DEF LegalPath, AgentAllowed
<1> QED
  BY <1>1, <1>2, Zenon DEF Released, Agent

LEMMA PlacedRelease ==
  ASSUME NEW agents \in Seq(Agent), NEW queued, Placed(agents, queued), NEW t \in Tasks,
         NEW outcome \in {"Completed", "Failed"}
  PROVE  /\ Release(agents, t, outcome) \in Seq(Agent)
         /\ Len(Release(agents, t, outcome)) = Len(agents)
         /\ Placed(Release(agents, t, outcome), queued)
         /\ Placed(Release(agents, t, outcome), queued \cup {t})
<1>1. PICK freed : freed = Release(agents, t, outcome)
  OBVIOUS
<1>2. t # NoTask
  BY AgentPoolAssumption DEF AgentPoolAssumption
<1>3. ASSUME NEW i \in 1..Len(agents)
      PROVE  freed[i] = IF agents[i].task = t
                        THEN [agents[i] EXCEPT !.status = "Idle", !.task = NoTask] ELSE agents[i]
  <2>1. agents[i] \in Agent
    OBVIOUS
  <2>2. agents[i].task = t => agents[i].status = "Running"
    BY <1>2 DEF Placed
  <2>3. freed[i] = IF agents[i].task = t THEN Released(agents[i], outcome) ELSE agents[i]
    BY <1>1 DEF Release
  <2> QED
    BY <2>1, <2>2, <2>3, ReleasedAgent, Zenon
<1>4. ASSUME NEW i \in 1..Len(agents)
      PROVE  /\ freed[i] \in Agent
             /\ freed[i].task = IF agents[i].task = t THEN NoTask ELSE agents[i].task
             /\ freed[i].status = IF agents[i].task = t THEN "Idle" ELSE agents[i].status
             /\ freed[i].type = agents[i].type
  <2>1. agents[i] \in Agent
    OBVIOUS
  <2> QED
    BY <1>3, <2>1, Zenon DEF Agent
<1>5. DOMAIN freed = 1..Len(agents) /\ freed = [i \in 1..Len(agents) |-> freed[i]]
  BY <1>1 DEF Release
<1>6. Len(agents) \in Nat
  OBVIOUS
<1>7. freed \in Seq(Agent) /\ Len(freed) = Len(agents)
  BY <1>4, <1>5, <1>6
<1>8. ASSUME NEW i \in 1..Len(agents), NEW k \in 1..Len(agents)
      PROVE  /\ (freed[i].task # NoTask) <=> (freed[i].status = "Running")
             /\ freed[i].task # NoTask =>
                   /\ freed[i].task \notin queued /\ freed[i].task # t
                   /\ supports(freed[i], Requires[freed[i].task])
                   /\ freed[k].task = freed[i].task => i = k
  <2>1. supports(freed[i], Requires[agents[i].task]) <=> supports(agents[i], Requires[agents[i].task])
    BY <1>4 DEF supports
  <2> QED
    BY <1>4, <2>1 DEF Placed
<1>9. Placed(freed, queued) /\ Placed(freed, queued \cup {t})
  BY <1>7, <1>8 DEF Placed
<1> QED
  BY <1>1, <1>7, <1>9
-----------------------------------------------------------------------------
(* What the steps rest on.                                                 *)

LEMMA PoolOfAgents ==
  ASSUME Shapes, NEW j \in Jobs
  PROVE  pool[j] \in Seq(Agent) /\ Len(pool[j]) \in Nat
<1>1. AgentOf(j) \subseteq Agent
  BY DEF AgentOf, Agent, OwnedBy
<1>2. pool[j] \in Seq(AgentOf(j))
  BY DEF Shapes
<1> HIDE DEF AgentOf, Agent
<1> QED
  BY <1>1, <1>2

LEMMA PlacedStep ==
  ASSUME Shapes, OneAgentPerTask, NEW j \in Jobs, OnlyMoves(j),
         waiting' \subseteq waiting \cup OwnedBy[j],
         pc'[j] \in Loop => Placed(pool'[j], waiting')
  PROVE  OneAgentPerTask'
<1>1. ASSUME NEW m \in Jobs, pc'[m] \in Loop PROVE Placed(pool'[m], waiting')
  <2>1. CASE m = j
    BY <2>1, <1>1
  <2>2. CASE m # j
    <3>1. pc'[m] = pc[m] /\ pool'[m] = pool[m]
      BY <2>2 DEF OnlyMoves
    <3>2. Placed(pool[m], waiting)
      BY <1>1, <3>1 DEF OneAgentPerTask, Placed
    <3>3. ASSUME NEW i \in 1..Len(pool[m]), pool[m][i].task # NoTask
          PROVE  pool[m][i].task \notin OwnedBy[j]
      <4>1. pool[m][i] \in AgentOf(m)
        BY DEF Shapes
      <4>2. pool[m][i].task \in OwnedBy[m]
        BY <4>1, <3>3 DEF AgentOf
      <4> QED
        BY <4>2, <2>2 DEF OwnedBy
    <3>4. \A i \in 1..Len(pool[m]) : pool[m][i].task # NoTask /\ pool[m][i].task \notin waiting
                                       => pool[m][i].task \notin waiting'
      BY <3>3
    <3>5. Placed(pool[m], waiting')
      BY <3>2, <3>4 DEF Placed
    <3> QED
      BY <3>1, <3>5
  <2> QED
    BY <2>1, <2>2
<1> QED
  BY <1>1 DEF OneAgentPerTask, Placed

LEMMA TypesFinite == IsFiniteSet(Range(AgentTypes))
<1>1. AgentTypes \in Surjection(1..11, Range(AgentTypes))
  BY DEF AgentTypes, Range, Surjection
<1>2. PICK n \in Nat : AgentTypes \in Surjection(1..n, Range(AgentTypes))
  BY <1>1, Zenon
<1>3. IsFiniteSet(1..n)
  BY FS_Interval
<1> QED
  BY <1>2, <1>3, FS_Surjection

LEMMA TypeForKnown ==
  ASSUME NEW t \in Tasks
  PROVE  TypeFor[t] \in Range(AgentTypes)
<1>1. KindOf[t] \in TaskKinds
  BY AgentPoolAssumption DEF AgentPoolAssumption
<1>2. agent_type_for(KindOf[t]) \in {"planner", "research", "critic", "verification",
                                      "result_merger", "summarization"}
  BY <1>1 DEF agent_type_for, TaskKinds
<1>3. {"planner", "research", "critic", "verification", "result_merger", "summarization"}
        \subseteq Range(AgentTypes)
  <2>1. /\ AgentTypes[2] = "critic" /\ AgentTypes[5] = "planner" /\ AgentTypes[6] = "research"
        /\ AgentTypes[7] = "result_merger" /\ AgentTypes[9] = "summarization"
        /\ AgentTypes[11] = "verification" /\ {2, 5, 6, 7, 9, 11} \subseteq DOMAIN AgentTypes
    BY DEF AgentTypes
  <2> QED
    BY <2>1 DEF Range
<1> QED
  BY <1>2, <1>3 DEF TypeFor

LEMMA SomeDemand ==
  ASSUME NEW j \in Jobs
  PROVE  Cardinality(DemandedTypes(j)) \in Nat \ {0}
<1>1. PICK t \in Tasks : t \in OwnedBy[j]
  BY AgentPoolAssumption, Zenon DEF AgentPoolAssumption, OwnedBy
<1> DEFINE asking == {u \in OwnedBy[j] : TypeFor[u] = TypeFor[t]}
<1>2. asking \in SUBSET Tasks /\ t \in asking
  BY <1>1 DEF OwnedBy
<1>3. IsFiniteSet(asking)
  BY <1>2, FS_Subset, AgentPoolAssumption DEF AgentPoolAssumption
<1>4. Cardinality(asking) \in Nat /\ Cardinality(asking) # 0
  BY <1>2, <1>3, FS_CardinalityType, FS_EmptySet
<1>5. Demand(j, TypeFor[t]) > 0
  BY <1>4 DEF Demand
<1>6. TypeFor[t] \in DemandedTypes(j)
  BY <1>5, TypeForKnown DEF DemandedTypes
<1>7. DemandedTypes(j) \in SUBSET Range(AgentTypes)
  BY DEF DemandedTypes
<1>8. IsFiniteSet(DemandedTypes(j))
  BY <1>7, TypesFinite, FS_Subset
<1> QED
  BY <1>6, <1>8, FS_CardinalityType, FS_EmptySet

LEMMA TargetBound ==
  ASSUME NEW j \in Jobs
  PROVE  Target[j] \in 1..MaxAgents[j]
<1>1. Widest[j] \in Int /\ MaxAgents[j] \in Nat /\ MaxAgents[j] >= 1
  BY AgentPoolAssumption DEF AgentPoolAssumption
<1>2. Cardinality(DemandedTypes(j)) \in Nat
  BY SomeDemand
<1> QED
  BY <1>1, <1>2 DEF Target, larger, smaller

\* An agent as it is created has a known type and no task.
LEMMA NewAgentOf ==
  ASSUME NEW j \in Jobs, NEW type \in Range(AgentTypes)
  PROVE  NewAgent(type) \in AgentOf(j)
  BY DEF NewAgent, AgentOf
-----------------------------------------------------------------------------
(* Every step keeps the invariant.                                         *)

LEMMA StartInv == Init => PoolInv
<1> SUFFICES ASSUME Init PROVE PoolInv
  OBVIOUS
<1>1. Shapes
  BY AgentPoolAssumption DEF Init, Shapes, AgentPoolAssumption
<1>2. Sized
  BY DEF Init, Sized, Loop
<1>3. \A j \in Jobs : Holds[j] = 0 /\ Admitted[j] = 0
  BY DEF Init, Holds, Admitted
<1>4. CountExact
  BY <1>3, TotalZero DEF Init, CountExact
<1>5. OneAgentPerTask
  BY DEF Init, OneAgentPerTask, Loop
<1>6. QuotaNearly
  <2>1. Total(Admitted) = 0
    BY <1>3, TotalZero
  <2>2. PICK j \in Jobs : pc[j] # "grow"
    BY AgentPoolAssumption DEF Init, AgentPoolAssumption
  <2>3. MaxClusterAgents \in Nat
    BY AgentPoolAssumption DEF AgentPoolAssumption
  <2>4. Cardinality(Growing) <= Cardinality(Jobs) - 1
    BY <2>2, GrowingFinite
  <2> QED
    BY <2>1, <2>3, <2>4, GrowingFinite DEF QuotaNearly
<1> QED
  BY <1>1, <1>2, <1>4, <1>5, <1>6 DEF PoolInv

LEMMA ClaimInv == ASSUME PoolInv, NEW j \in Jobs, Claim(j) PROVE PoolInv'
<1>1. Shapes /\ Sized /\ CountExact /\ OneAgentPerTask /\ QuotaNearly
  BY DEF PoolInv
<1>2. Target[j] \in 1..MaxAgents[j] /\ MaxAgents[j] \in Nat
  BY TargetBound, AgentPoolAssumption DEF AgentPoolAssumption
<1>3. Shapes'
  BY <1>1, <1>2 DEF Shapes, Claim, Goto
<1>4. OnlyMoves(j)
  BY <1>1 DEF OnlyMoves, Claim, Goto, Shapes
<1>5. /\ pc[j] = "submitted" /\ pc'[j] = "claimed" /\ amount'[j] = Target[j]
      /\ seen'[j] = cluster /\ cluster' = cluster + Target[j]
  BY <1>1 DEF Claim, Goto, Shapes
<1>6. Sized'
  BY <1>1, <1>2, <1>4, <1>5 DEF Sized, OnlyMoves, Loop
<1>7. Holds[j] = 0 /\ Holds'[j] = Target[j]
  BY <1>5 DEF Holds
<1>8. CountExact'
  <2>1. cluster' = cluster - Holds[j] + Holds'[j]
    BY <1>1, <1>2, <1>5, <1>7 DEF Shapes
  <2> QED
    BY <2>1, <1>1, <1>3, <1>4, CountStep
<1>9. OneAgentPerTask'
  <2>1. waiting' = waiting /\ pc'[j] \notin Loop
    BY <1>5 DEF Claim, Loop
  <2> QED
    BY <2>1, <1>1, <1>4, PlacedStep
<1>10. QuotaNearly'
  <2>1. CASE cluster + Target[j] > MaxClusterAgents
    <3>1. Admitted'[j] = 0 /\ Admitted[j] = 0
      BY <2>1, <1>5, <1>7 DEF Admitted
    <3> QED
      BY <3>1, <1>1, <1>3, <1>4, <1>5, QuotaStep
  <2>2. CASE ~(cluster + Target[j] > MaxClusterAgents)
    <3>1. Total(Admitted') <= cluster'
      BY <1>3, <1>8, QuotaCountedNext
    <3>2. Cardinality(Growing') <= Cardinality(Jobs) - 1
      BY <1>5, GrowingNext
    <3>3. Total(Admitted') \in Nat /\ Cardinality(Growing') \in Nat /\ Cardinality(Jobs) \in Nat
      BY <1>3, HoldsTypeNext, TotalNat, GrowingNext DEF Countable
    <3>4. MaxClusterAgents \in Nat /\ cluster' \in Nat /\ cluster' <= MaxClusterAgents
      BY <2>2, <1>2, <1>3, <1>5, AgentPoolAssumption DEF AgentPoolAssumption, Shapes
    <3> QED
      BY <3>1, <3>2, <3>3, <3>4 DEF QuotaNearly
  <2> QED
    BY <2>1, <2>2
<1> QED
  BY <1>3, <1>6, <1>8, <1>9, <1>10 DEF PoolInv

LEMMA RefuseInv == ASSUME PoolInv, NEW j \in Jobs, Refuse(j) PROVE PoolInv'
<1>1. Shapes /\ Sized /\ CountExact /\ OneAgentPerTask /\ QuotaNearly
  BY DEF PoolInv
<1>2. /\ pc[j] = "claimed" /\ pc'[j] = "refused" /\ amount'[j] = 0 /\ seen'[j] = 0
      /\ cluster' = cluster - amount[j] /\ seen[j] + amount[j] > MaxClusterAgents
  BY <1>1 DEF Refuse, Goto, Shapes
<1>3. Holds[j] = amount[j] /\ Holds'[j] = 0 /\ amount[j] \in Nat /\ cluster \in Nat
  BY <1>1, <1>2 DEF Holds, Shapes
<1>4. cluster >= amount[j]
  BY <1>1, <1>3, CountCovers
<1>5. Shapes'
  BY <1>1, <1>3, <1>4 DEF Shapes, Refuse, Goto, Ended
<1>6. OnlyMoves(j)
  BY <1>1 DEF OnlyMoves, Refuse, Goto, Shapes
<1>7. Sized'
  BY <1>1, <1>2, <1>6 DEF Sized, OnlyMoves, Loop
<1>8. CountExact'
  BY <1>1, <1>2, <1>3, <1>5, <1>6, CountStep
<1>9. OneAgentPerTask'
  <2>1. waiting' = waiting /\ pc'[j] \notin Loop
    BY <1>2 DEF Refuse, Loop
  <2> QED
    BY <2>1, <1>1, <1>6, PlacedStep
<1>10. Admitted[j] = 0 /\ Admitted'[j] = 0
  BY <1>2, <1>3 DEF Admitted
<1>11. QuotaNearly'
  BY <1>1, <1>2, <1>5, <1>6, <1>10, QuotaStep
<1> QED
  BY <1>5, <1>7, <1>8, <1>9, <1>11 DEF PoolInv

\* The agents of a pool that is being provisioned.
LEMMA ProvisionedPool ==
  ASSUME NEW j \in Jobs, NEW m \in Nat, NEW types \in TypesByDemand(j)
  PROVE  LET agents == [i \in 1..m |->
                          NewAgent(types[((i - 1) % Cardinality(DemandedTypes(j))) + 1])]
         IN  /\ agents \in Seq(AgentOf(j)) /\ Len(agents) = m
             /\ \A queued : Placed(agents, queued)
<1> DEFINE agents == [i \in 1..m |->
                        NewAgent(types[((i - 1) % Cardinality(DemandedTypes(j))) + 1])]
<1>1. PICK n \in Nat \ {0} : n = Cardinality(DemandedTypes(j))
  BY SomeDemand
<1>2. types \in [1..n -> DemandedTypes(j)]
  BY <1>1 DEF TypesByDemand
<1>3. ASSUME NEW i \in 1..m
      PROVE  \E type \in Range(AgentTypes) : agents[i] = NewAgent(type)
  <2>1. ((i - 1) % n) + 1 \in 1..n
    OBVIOUS
  <2>2. types[((i - 1) % n) + 1] \in DemandedTypes(j)
    BY <1>2, <2>1
  <2>3. types[((i - 1) % n) + 1] \in Range(AgentTypes)
    BY <2>2 DEF DemandedTypes
  <2>4. agents[i] = NewAgent(types[((i - 1) % n) + 1])
    BY <1>1
  <2> QED
    BY <2>3, <2>4
<1>4. \A i \in 1..m : agents[i] \in AgentOf(j)
  BY <1>3, NewAgentOf
<1>5. agents \in [1..m -> AgentOf(j)]
  BY <1>4
<1>6. agents \in Seq(AgentOf(j)) /\ Len(agents) = m
  BY <1>5
<1>7. \A i \in 1..m : agents[i].task = NoTask /\ agents[i].status = "Idle"
  BY <1>3 DEF NewAgent
<1> HIDE DEF agents
<1>8. \A queued : Placed(agents, queued)
  BY <1>6, <1>7 DEF Placed
<1> QED
  BY <1>6, <1>8 DEF agents

LEMMA ProvisionInv == ASSUME PoolInv, NEW j \in Jobs, Provision(j) PROVE PoolInv'
<1>1. Shapes /\ Sized /\ CountExact /\ OneAgentPerTask /\ QuotaNearly
  BY DEF PoolInv
<1>2. PICK types \in TypesByDemand(j) :
        pool' = [pool EXCEPT ![j] =
            [i \in 1..amount[j] |->
                NewAgent(types[((i - 1) % Cardinality(DemandedTypes(j))) + 1])]]
  BY Zenon DEF Provision
<1>3. amount[j] \in Nat /\ amount[j] \in 1..MaxAgents[j]
  BY <1>1 DEF Shapes, Sized, Provision
<1>4. PICK agents : agents = [i \in 1..amount[j] |->
                NewAgent(types[((i - 1) % Cardinality(DemandedTypes(j))) + 1])]
  BY Zenon
<1>5. agents \in Seq(AgentOf(j)) /\ Len(agents) = amount[j] /\ \A queued : Placed(agents, queued)
  BY <1>3, <1>4, ProvisionedPool
<1>6. pool' = [pool EXCEPT ![j] = agents]
  BY <1>2, <1>4
<1>7. /\ pc[j] = "claimed" /\ pc'[j] = "tick" /\ amount'[j] = 0 /\ seen'[j] = 0
      /\ cluster' = cluster /\ pool'[j] = agents /\ ~(seen[j] + amount[j] > MaxClusterAgents)
  <2>1. seen[j] + amount[j] \in Nat /\ MaxClusterAgents \in Nat
    BY <1>1, AgentPoolAssumption DEF Shapes, AgentPoolAssumption
  <2> QED
    BY <1>1, <1>6, <2>1 DEF Provision, Goto, Shapes
<1>8. Shapes'
  BY <1>1, <1>5, <1>6, Zenon DEF Shapes, Provision, Goto, Loop
<1>9. OnlyMoves(j)
  BY <1>1, <1>6 DEF OnlyMoves, Provision, Goto, Shapes
<1>10. Sized'
  BY <1>1, <1>3, <1>5, <1>7, <1>9 DEF Sized, OnlyMoves, Loop
<1>11. Holds[j] = amount[j] /\ Holds'[j] = amount[j]
  BY <1>5, <1>7 DEF Holds
<1>12. CountExact'
  BY <1>1, <1>3, <1>7, <1>8, <1>9, <1>11, CountStep DEF Shapes
<1>13. OneAgentPerTask'
  <2>1. waiting' = waiting /\ Placed(pool'[j], waiting')
    BY <1>5, <1>7, Zenon DEF Provision
  <2> QED
    BY <2>1, <1>1, <1>9, PlacedStep
<1>14. Admitted[j] = amount[j] /\ Admitted'[j] = amount[j]
  BY <1>7, <1>11 DEF Admitted
<1>15. QuotaNearly'
  BY <1>1, <1>3, <1>7, <1>8, <1>9, <1>14, QuotaStep
<1> QED
  BY <1>8, <1>10, <1>12, <1>13, <1>15 DEF PoolInv

\* A step that only moves the engine on, between places where it holds its
\* pool and nothing else.
Resting == {"tick", "load", "reclaim", "dispatch", "apply", "finish", "failed"}

LEMMA MovesOnInv ==
  ASSUME PoolInv, NEW j \in Jobs, NEW s \in Resting, pc' = [pc EXCEPT ![j] = s],
         pc[j] \in Resting \cap Loop, s = "load" => Len(pool[j]) < MaxAgents[j],
         UNCHANGED <<cluster, pool, amount, seen, waiting, failures>>
  PROVE  PoolInv'
<1>1. Shapes /\ Sized /\ CountExact /\ OneAgentPerTask /\ QuotaNearly
  BY DEF PoolInv
<1>2. pc'[j] = s
  BY <1>1 DEF Shapes
<1>3. Shapes'
  BY <1>1 DEF Shapes, Resting, Loop, Ended
<1>4. OnlyMoves(j)
  BY <1>1 DEF OnlyMoves, Shapes
<1>5. Sized'
  BY <1>1, <1>2, <1>4 DEF Sized, OnlyMoves, Resting
<1>6. Holds[j] = Len(pool[j]) /\ Holds'[j] = Len(pool[j])
  BY <1>2 DEF Holds, Resting
<1>7. Len(pool[j]) \in Nat
  BY <1>1, PoolOfAgents
<1>8. CountExact'
  BY <1>1, <1>3, <1>4, <1>6, <1>7, CountStep DEF Shapes
<1>9. OneAgentPerTask'
  <2>1. Placed(pool[j], waiting)
    BY <1>1 DEF OneAgentPerTask, Placed
  <2> QED
    BY <2>1, <1>1, <1>4, PlacedStep
<1>10. Admitted[j] = Len(pool[j]) /\ Admitted'[j] = Len(pool[j]) /\ pc'[j] # "grow"
  BY <1>2, <1>6 DEF Admitted, Resting
<1>11. QuotaNearly'
  BY <1>1, <1>3, <1>4, <1>7, <1>10, QuotaStep
<1> QED
  BY <1>3, <1>5, <1>8, <1>9, <1>11 DEF PoolInv

LEMMA ReadPoolInv == ASSUME PoolInv, NEW j \in Jobs, ReadPool(j) PROVE PoolInv'
<1>1. PICK s \in {"load", "reclaim", "dispatch"} :
        pc' = [pc EXCEPT ![j] = s] /\ (s = "load" => Len(pool[j]) < MaxAgents[j])
  BY DEF ReadPool, Goto
<1>2. s \in Resting /\ pc[j] \in Resting \cap Loop
  BY DEF Resting, ReadPool, Loop
<1>3. UNCHANGED <<cluster, pool, amount, seen, waiting, failures>>
  BY DEF ReadPool
<1> QED
  BY <1>1, <1>2, <1>3, MovesOnInv, Zenon

LEMMA LoadInv == ASSUME PoolInv, NEW j \in Jobs, LoadCluster(j) PROVE PoolInv'
<1>1. Shapes /\ Sized /\ CountExact /\ OneAgentPerTask /\ QuotaNearly
  BY DEF PoolInv
<1>2. UNCHANGED <<cluster, pool, amount, seen, waiting, failures>>
  BY DEF LoadCluster
<1>3. CASE pc' = [pc EXCEPT ![j] = "dispatch"]
  <2>1. "dispatch" \in Resting /\ pc[j] \in Resting \cap Loop
    BY DEF Resting, LoadCluster, Loop
  <2> QED
    BY <1>2, <1>3, <2>1, MovesOnInv, Zenon
<1>4. CASE pc' = [pc EXCEPT ![j] = "grow"] /\ cluster < MaxClusterAgents
  <2>1. pc[j] = "load" /\ pc'[j] = "grow"
    BY <1>1, <1>4 DEF LoadCluster, Shapes
  <2>2. Shapes'
    BY <1>1, <1>2, <1>4 DEF Shapes, Loop
  <2>3. OnlyMoves(j)
    BY <1>1, <1>2, <1>4 DEF OnlyMoves, Shapes
  <2>4. Sized'
    BY <1>1, <1>2, <2>1, <2>3 DEF Sized, OnlyMoves, Loop
  <2>5. Holds[j] = Len(pool[j]) /\ Holds'[j] = Len(pool[j])
    BY <1>2, <2>1 DEF Holds
  <2>6. Len(pool[j]) \in Nat
    BY <1>1, PoolOfAgents
  <2>7. CountExact'
    BY <1>1, <1>2, <2>2, <2>3, <2>5, <2>6, CountStep DEF Shapes
  <2>8. OneAgentPerTask'
    <3>1. Placed(pool[j], waiting)
      BY <1>1, <2>1 DEF OneAgentPerTask, Placed, Loop
    <3> QED
      BY <3>1, <1>1, <1>2, <2>3, PlacedStep
  <2>9. QuotaNearly'
    <3>1. Total(Admitted') <= cluster'
      BY <2>2, <2>7, QuotaCountedNext
    <3>2. /\ Cardinality(Growing') <= Cardinality(Jobs)
          /\ Cardinality(Growing') \in Nat /\ Cardinality(Jobs) \in Nat
      BY GrowingNext
    <3>3. Total(Admitted') \in Nat
      BY <2>2, HoldsTypeNext, TotalNat DEF Countable
    <3>4. MaxClusterAgents \in Nat /\ cluster' \in Nat /\ cluster' < MaxClusterAgents
      BY <1>2, <1>4, <2>2, AgentPoolAssumption DEF AgentPoolAssumption, Shapes
    <3> QED
      BY <3>1, <3>2, <3>3, <3>4 DEF QuotaNearly
  <2> QED
    BY <2>2, <2>4, <2>7, <2>8, <2>9 DEF PoolInv
<1> QED
  BY <1>3, <1>4, Zenon DEF LoadCluster, Goto

LEMMA GrowInv == ASSUME PoolInv, NEW j \in Jobs, Grow(j) PROVE PoolInv'
<1>1. Shapes /\ Sized /\ CountExact /\ OneAgentPerTask /\ QuotaNearly
  BY DEF PoolInv
<1>2. pc[j] = "grow" /\ pc'[j] = "push" /\ cluster' = cluster + 1 /\ cluster \in Nat
  BY <1>1 DEF Grow, Goto, Shapes
<1>3. Shapes'
  BY <1>1, <1>2 DEF Shapes, Grow, Goto, Loop
<1>4. OnlyMoves(j)
  BY <1>1 DEF OnlyMoves, Grow, Goto, Shapes
<1>5. Sized'
  BY <1>1, <1>2, <1>4 DEF Sized, OnlyMoves, Loop, Grow
<1>6. Len(pool[j]) \in Nat
  BY <1>1, PoolOfAgents
<1>7. Holds[j] = Len(pool[j]) /\ Holds'[j] = Len(pool[j]) + 1
  BY <1>2 DEF Holds, Grow
<1>8. CountExact'
  BY <1>1, <1>2, <1>3, <1>4, <1>6, <1>7, CountStep
<1>9. OneAgentPerTask'
  <2>1. Placed(pool[j], waiting)
    BY <1>1, <1>2 DEF OneAgentPerTask, Placed, Loop
  <2>2. pool' = pool /\ waiting' = waiting
    BY DEF Grow
  <2> QED
    BY <2>1, <2>2, <1>1, <1>4, PlacedStep
<1>10. QuotaNearly'
  <2>1. Admitted \in [Jobs -> Nat] /\ Admitted' \in [Jobs -> Nat]
    BY <1>1, <1>3, HoldsType, HoldsTypeNext DEF Countable
  <2>2. \A k \in Jobs \ {j} : Admitted'[k] = Admitted[k]
    BY <1>4 DEF Admitted, Holds, OnlyMoves
  <2>3. Admitted'[j] = Admitted[j] + 1
    BY <1>2, <1>7 DEF Admitted
  <2>4. Total(Admitted') = Total(Admitted) + 1 /\ Total(Admitted) \in Nat
    BY <2>1, <2>2, <2>3, TotalUpdate
  <2>5. Growing' = Growing \ {j} /\ j \in Growing
    BY <1>2, <1>4 DEF Growing, OnlyMoves
  <2>6. IsFiniteSet(Growing) /\ Cardinality(Growing) \in Nat
    BY GrowingFinite
  <2>7. Cardinality(Growing') = Cardinality(Growing) - 1
    BY <2>5, <2>6, FS_RemoveElement
  <2> QED
    BY <1>1, <2>4, <2>6, <2>7 DEF QuotaNearly
<1> QED
  BY <1>3, <1>5, <1>8, <1>9, <1>10 DEF PoolInv

LEMMA PushInv == ASSUME PoolInv, NEW j \in Jobs, Push(j) PROVE PoolInv'
<1>1. Shapes /\ Sized /\ CountExact /\ OneAgentPerTask /\ QuotaNearly
  BY DEF PoolInv
<1>2. PICK type \in MostNeeded(j) : pool' = [pool EXCEPT ![j] = Append(pool[j], NewAgent(type))]
  BY Zenon DEF Push
<1>3. type \in Range(AgentTypes)
  BY TypeForKnown DEF MostNeeded, NeededTypes, OwnedBy
<1>4. pool[j] \in Seq(AgentOf(j)) /\ NewAgent(type) \in AgentOf(j)
  BY <1>1, <1>3, NewAgentOf DEF Shapes
<1>5. PICK agents : agents = Append(pool[j], NewAgent(type))
  BY Zenon
<1>6. agents \in Seq(AgentOf(j)) /\ Len(agents) = Len(pool[j]) + 1 /\ Len(pool[j]) \in Nat
  BY <1>4, <1>5
<1>7. pool' = [pool EXCEPT ![j] = agents]
  BY <1>2, <1>5
<1>8. pc[j] = "push" /\ pc'[j] = "dispatch" /\ cluster' = cluster /\ pool'[j] = agents
  BY <1>1, <1>7 DEF Push, Goto, Shapes
<1>9. Shapes'
  BY <1>1, <1>6, <1>7, Zenon DEF Shapes, Push, Goto, Loop
<1>10. OnlyMoves(j)
  BY <1>1, <1>7 DEF OnlyMoves, Push, Goto, Shapes
<1>11. Sized'
  <2>1. MaxAgents[j] \in Nat /\ Len(pool[j]) < MaxAgents[j]
    BY <1>1, <1>8, AgentPoolAssumption DEF AgentPoolAssumption, Sized
  <2> QED
    BY <1>1, <1>6, <1>8, <1>10, <2>1 DEF Sized, OnlyMoves
<1>12. Holds[j] = Len(pool[j]) + 1 /\ Holds'[j] = Len(pool[j]) + 1
  BY <1>6, <1>8 DEF Holds
<1>13. CountExact'
  BY <1>1, <1>6, <1>8, <1>9, <1>10, <1>12, CountStep DEF Shapes
<1>14. OneAgentPerTask'
  <2>1. Placed(pool[j], waiting)
    BY <1>1, <1>8 DEF OneAgentPerTask, Placed, Loop
  <2>2. Placed(agents, waiting)
    BY <1>1, <1>5, <2>1, PlacedAppend, PoolOfAgents
  <2>3. waiting' = waiting
    BY DEF Push
  <2> QED
    BY <1>1, <1>8, <1>10, <2>2, <2>3, PlacedStep
<1>15. Admitted[j] = Len(pool[j]) + 1 /\ Admitted'[j] = Len(pool[j]) + 1
  BY <1>8, <1>12 DEF Admitted
<1>16. QuotaNearly'
  BY <1>1, <1>6, <1>8, <1>9, <1>10, <1>15, QuotaStep
<1> QED
  BY <1>9, <1>11, <1>13, <1>14, <1>16 DEF PoolInv

\* Reclaiming leaves at least one agent and never adds one.
LEMMA ReclaimedPool ==
  ASSUME NEW S, NEW s \in Seq(S), Len(s) >= 1, NEW stale \in SUBSET (1..Len(s)),
         NEW left \in Reclaimed(s, stale)
  PROVE  /\ left \in Seq(S) /\ Len(left) \in 1..Len(s)
         /\ \A queued : Placed(s, queued) => Placed(left, queued)
<1>1. Len(s) \in Nat
  OBVIOUS
<1> DEFINE kept == (1..Len(s)) \ (IF stale = 1..Len(s) THEN stale \ {Len(s)} ELSE stale)
<1>2. kept \in SUBSET (1..Len(s)) /\ kept # {}
  <2>1. CASE stale = 1..Len(s)
    <3>1. Len(s) \in kept
      BY <1>1, <2>1
    <3> QED
      BY <3>1
  <2>2. CASE stale # 1..Len(s)
    <3>1. PICK i \in 1..Len(s) : i \notin stale
      BY <2>2, Zenon
    <3>2. i \in kept
      BY <2>2, <3>1
    <3> QED
      BY <3>2
  <2> QED
    BY <2>1, <2>2
<1>3. PICK at \in {f \in [1..Cardinality(kept) -> kept] :
                      \A l, m \in DOMAIN f : l < m => f[l] < f[m]} :
        left = [i \in 1..Cardinality(kept) |-> s[at[i]]]
  BY Zenon DEF Reclaimed
<1>4. IsFiniteSet(1..Len(s)) /\ Cardinality(1..Len(s)) = Len(s)
  BY <1>1, FS_Interval
<1> HIDE DEF kept
<1>5. /\ IsFiniteSet(kept) /\ Cardinality(kept) \in Nat /\ Cardinality(kept) # 0
      /\ Cardinality(kept) <= Len(s)
  <2>1. IsFiniteSet(kept) /\ Cardinality(kept) <= Cardinality(1..Len(s))
    BY <1>2, <1>4, FS_Subset, Zenon
  <2> QED
    BY <1>2, <1>4, <2>1, FS_CardinalityType, FS_EmptySet
<1>6. PICK n \in Nat : n = Cardinality(kept)
  BY <1>5
<1>7. at \in [1..n -> kept] /\ \A l, m \in 1..n : l < m => at[l] < at[m]
  BY <1>3, <1>6
<1>8. left = [i \in 1..n |-> s[at[i]]]
  BY <1>3, <1>6
<1>9. ASSUME NEW i \in 1..n PROVE at[i] \in 1..Len(s) /\ s[at[i]] \in S
  <2>1. at[i] \in kept
    BY <1>7, Zenon
  <2>2. at[i] \in 1..Len(s)
    BY <1>2, <2>1, Zenon
  <2> QED
    BY <2>2
<1>10. left \in Seq(S) /\ Len(left) = n
  BY <1>8, <1>9
<1>11. ASSUME NEW queued, Placed(s, queued) PROVE Placed(left, queued)
  <2>1. Len(left) = n /\ \A i \in 1..n : left[i] = s[at[i]]
    BY <1>8, <1>10
  <2>2. \A l \in 1..n : at[l] \in 1..Len(s)
    BY <1>9
  <2>3. \A l, m \in 1..n : l < m => at[l] < at[m]
    BY <1>7
  <2>4. Len(left) = n
    BY <2>1
  <2>5. \A i \in 1..n : left[i] = s[at[i]]
    BY <2>1
  <2>6. Len(s) \in Nat /\ Placed(s, queued) /\ n \in Nat
    BY <1>1, <1>11
  <2>7. Thinned(left, s, n, at)
    BY <2>2, <2>3, <2>4, <2>5, <2>6 DEF Thinned
  <2> QED
    BY <2>6, <2>7, PlacedSelect
<1> QED
  BY <1>1, <1>5, <1>6, <1>10, <1>11

LEMMA ReclaimInv == ASSUME PoolInv, NEW j \in Jobs, Reclaim(j) PROVE PoolInv'
<1>1. Shapes /\ Sized /\ CountExact /\ OneAgentPerTask /\ QuotaNearly
  BY DEF PoolInv
<1>2. PICK stale \in SUBSET Available(j) : \E left \in Reclaimed(pool[j], stale) :
          /\ pool' = [pool EXCEPT ![j] = left]
          /\ amount' = [amount EXCEPT ![j] = Len(pool[j]) - Len(left)]
          /\ Goto(j, IF Len(left) < Len(pool[j]) THEN "subtract" ELSE "dispatch")
  BY Zenon DEF Reclaim
<1>3. PICK left \in Reclaimed(pool[j], stale) :
          /\ pool' = [pool EXCEPT ![j] = left]
          /\ amount' = [amount EXCEPT ![j] = Len(pool[j]) - Len(left)]
          /\ pc' = [pc EXCEPT ![j] = IF Len(left) < Len(pool[j]) THEN "subtract" ELSE "dispatch"]
  BY <1>2, Zenon DEF Goto
<1>4. /\ pc[j] = "reclaim" /\ cluster' = cluster /\ pool'[j] = left
      /\ amount'[j] = Len(pool[j]) - Len(left)
      /\ pc'[j] = IF Len(left) < Len(pool[j]) THEN "subtract" ELSE "dispatch"
  BY <1>1, <1>3 DEF Reclaim, Shapes
<1>5. /\ pool[j] \in Seq(AgentOf(j)) /\ Len(pool[j]) \in 1..MaxAgents[j]
      /\ MaxAgents[j] \in Nat
  BY <1>1, <1>4, AgentPoolAssumption DEF Shapes, Sized, Loop, AgentPoolAssumption
<1>6. stale \in SUBSET (1..Len(pool[j]))
  BY DEF Available
<1>7. /\ left \in Seq(AgentOf(j)) /\ Len(left) \in 1..Len(pool[j])
      /\ \A queued : Placed(pool[j], queued) => Placed(left, queued)
  BY <1>5, <1>6, ReclaimedPool
<1>8. Shapes'
  <2>1. Len(pool[j]) - Len(left) \in Nat
    BY <1>5, <1>7
  <2> QED
    BY <1>1, <1>3, <1>7, <2>1 DEF Shapes, Reclaim, Loop
<1>9. OnlyMoves(j)
  BY <1>1, <1>3 DEF OnlyMoves, Reclaim, Shapes
<1>10. Sized'
  BY <1>1, <1>4, <1>5, <1>7, <1>9 DEF Sized, OnlyMoves
<1>11. Holds[j] = Len(pool[j]) /\ Holds'[j] = Len(pool[j])
  BY <1>4, <1>5, <1>7 DEF Holds
<1>12. CountExact'
  <2>1. cluster' = cluster - Holds[j] + Holds'[j]
    BY <1>1, <1>4, <1>5, <1>11 DEF Shapes
  <2> QED
    BY <1>1, <1>8, <1>9, <2>1, CountStep
<1>13. OneAgentPerTask'
  <2>1. Placed(pool[j], waiting)
    BY <1>1, <1>4, Zenon DEF OneAgentPerTask, Placed, Loop
  <2>2. waiting' = waiting
    BY DEF Reclaim
  <2> QED
    BY <1>1, <1>4, <1>7, <1>9, <2>1, <2>2, PlacedStep
<1>14. Admitted[j] = Len(pool[j]) /\ Admitted'[j] = Len(pool[j]) /\ pc'[j] # "grow"
  BY <1>4, <1>11 DEF Admitted
<1>15. QuotaNearly'
  BY <1>1, <1>5, <1>8, <1>9, <1>14, QuotaStep
<1> QED
  BY <1>8, <1>10, <1>12, <1>13, <1>15 DEF PoolInv

LEMMA SubtractInv == ASSUME PoolInv, NEW j \in Jobs, Subtract(j) PROVE PoolInv'
<1>1. Shapes /\ Sized /\ CountExact /\ OneAgentPerTask /\ QuotaNearly
  BY DEF PoolInv
<1>2. /\ pc[j] = "subtract" /\ pc'[j] = "dispatch" /\ cluster' = cluster - amount[j]
      /\ amount'[j] = 0 /\ pool' = pool
  BY <1>1 DEF Subtract, Goto, Shapes
<1>3. amount[j] \in Nat /\ cluster \in Nat /\ Len(pool[j]) \in Nat
  BY <1>1, PoolOfAgents DEF Shapes
<1>4. Holds[j] = Len(pool[j]) + amount[j] /\ Holds'[j] = Len(pool[j])
  BY <1>2 DEF Holds
<1>5. cluster >= Len(pool[j]) + amount[j]
  BY <1>1, <1>4, CountCovers
<1>6. Shapes'
  BY <1>1, <1>3, <1>5 DEF Shapes, Subtract, Goto, Loop
<1>7. OnlyMoves(j)
  BY <1>1 DEF OnlyMoves, Subtract, Goto, Shapes
<1>8. Sized'
  BY <1>1, <1>2, <1>7 DEF Sized, OnlyMoves, Loop
<1>9. CountExact'
  <2>1. cluster' = cluster - Holds[j] + Holds'[j]
    BY <1>2, <1>3, <1>4
  <2> QED
    BY <1>1, <1>6, <1>7, <2>1, CountStep
<1>10. OneAgentPerTask'
  <2>1. Placed(pool[j], waiting)
    BY <1>1, <1>2 DEF OneAgentPerTask, Placed, Loop
  <2>2. waiting' = waiting
    BY DEF Subtract
  <2> QED
    BY <1>1, <1>2, <1>7, <2>1, <2>2, PlacedStep
<1>11. Admitted[j] = Len(pool[j]) + amount[j] /\ Admitted'[j] = Len(pool[j])
  BY <1>2, <1>4 DEF Admitted
<1>12. QuotaNearly'
  BY <1>1, <1>2, <1>3, <1>6, <1>7, <1>11, QuotaStep
<1> QED
  BY <1>6, <1>8, <1>9, <1>10, <1>12 DEF PoolInv

\* A step of the loop that changes who does what, and nothing else.
LEMMA WorkInv ==
  ASSUME PoolInv, NEW j \in Jobs, pc[j] \in {"dispatch", "apply"}, NEW agents,
         agents \in Seq(AgentOf(j)), Len(agents) = Len(pool[j]),
         pool' = [pool EXCEPT ![j] = agents],
         waiting' \subseteq waiting \cup OwnedBy[j], Placed(agents, waiting'),
         failures' \in 0..MaxFailures, UNCHANGED <<cluster, pc, amount, seen>>
  PROVE  PoolInv'
<1>1. Shapes /\ Sized /\ CountExact /\ OneAgentPerTask /\ QuotaNearly
  BY DEF PoolInv
<1>2. pool'[j] = agents
  BY <1>1 DEF Shapes
<1>3. Shapes'
  BY <1>1 DEF Shapes, OwnedBy
<1>4. OnlyMoves(j)
  BY <1>1 DEF OnlyMoves, Shapes
<1>5. Sized'
  BY <1>1, <1>2, <1>4 DEF Sized, OnlyMoves
<1>6. Holds[j] = Len(pool[j]) /\ Holds'[j] = Len(pool[j])
  BY <1>2 DEF Holds
<1>7. Len(pool[j]) \in Nat
  BY <1>1, PoolOfAgents
<1>8. CountExact'
  <2>1. cluster' = cluster - Holds[j] + Holds'[j]
    BY <1>1, <1>6, <1>7 DEF Shapes
  <2> QED
    BY <1>1, <1>3, <1>4, <2>1, CountStep
<1>9. OneAgentPerTask'
  BY <1>1, <1>2, <1>4, PlacedStep
<1>10. Admitted[j] = Len(pool[j]) /\ Admitted'[j] = Len(pool[j]) /\ pc'[j] # "grow"
  BY <1>6 DEF Admitted
<1>11. QuotaNearly'
  BY <1>1, <1>3, <1>4, <1>7, <1>10, QuotaStep
<1> QED
  BY <1>3, <1>5, <1>8, <1>9, <1>11 DEF PoolInv

\* The pool an agent is taken from, as it is or re-specialised.
LEMMA UsablePool ==
  ASSUME Shapes, NEW j \in Jobs, Placed(pool[j], waiting), NEW t \in OwnedBy[j],
         NEW agents \in Usable(j, t)
  PROVE  /\ agents \in Seq(AgentOf(j)) /\ Len(agents) = Len(pool[j])
         /\ Placed(agents, waiting)
<1>1. pool[j] \in Seq(AgentOf(j)) /\ pool[j] \in Seq(Agent)
  BY PoolOfAgents DEF Shapes
<1>2. CASE agents = pool[j]
  BY <1>1, <1>2
<1>3. CASE agents # pool[j]
  <2>1. agents \in Respecialised(j, t)
    BY <1>3 DEF Usable
  <2>2. PICK i \in Available(j) : agents = [pool[j] EXCEPT ![i] = NewAgent(TypeFor[t])]
    BY <2>1 DEF Respecialised
  <2>3. i \in 1..Len(pool[j])
    BY DEF Available
  <2>4. NewAgent(TypeFor[t]) \in AgentOf(j)
    BY TypeForKnown, NewAgentOf DEF OwnedBy
  <2>5. agents \in Seq(AgentOf(j)) /\ Len(agents) = Len(pool[j])
    BY <1>1, <2>2, <2>3, <2>4
  <2>6. Placed(agents, waiting)
    BY <1>1, <2>2, <2>3, PlacedReplace
  <2> QED
    BY <2>5, <2>6
<1> QED
  BY <1>2, <1>3

LEMMA DispatchInv ==
  ASSUME PoolInv, NEW j \in Jobs, NEW t \in OwnedBy[j], Dispatch(j, t)
  PROVE  PoolInv'
<1>1. Shapes /\ OneAgentPerTask
  BY DEF PoolInv
<1>2. pc[j] = "dispatch" /\ t \in waiting /\ t \in Tasks
  BY DEF Dispatch, OwnedBy
<1>3. PICK agents \in Usable(j, t) : \E i \in Candidates(agents, t) :
          pool' = [pool EXCEPT ![j] = [agents EXCEPT ![i] = Assigned(agents[i], t)]]
  BY Zenon DEF Dispatch
<1>4. PICK i \in Candidates(agents, t) :
          pool' = [pool EXCEPT ![j] = [agents EXCEPT ![i] = Assigned(agents[i], t)]]
  BY <1>3, Zenon
<1>5. Placed(pool[j], waiting)
  BY <1>1, <1>2 DEF OneAgentPerTask, Placed, Loop
<1>6. agents \in Seq(AgentOf(j)) /\ Len(agents) = Len(pool[j]) /\ Placed(agents, waiting)
  BY <1>1, <1>5, UsablePool
<1>7. agents \in Seq(Agent)
  <2>1. AgentOf(j) \subseteq Agent
    BY DEF AgentOf, Agent, OwnedBy
  <2> HIDE DEF AgentOf, Agent
  <2> QED
    BY <1>6, <2>1
<1>8. i \in 1..Len(agents) /\ is_available(agents[i])
  BY DEF Candidates
<1>9. PICK working : working = [agents EXCEPT ![i] = Assigned(agents[i], t)]
  BY Zenon
<1>10. Assigned(agents[i], t) \in AgentOf(j)
  <2>1. agents[i] \in Agent
    BY <1>7, <1>8
  <2> QED
    BY <1>2, <1>8, <2>1, AssignedAgent DEF Agent, AgentOf
<1>11. working \in Seq(AgentOf(j)) /\ Len(working) = Len(pool[j])
  <2> HIDE DEF AgentOf
  <2> QED
    BY <1>6, <1>8, <1>9, <1>10
<1>12. Placed(working, waiting \ {t})
  BY <1>2, <1>6, <1>7, <1>9, PlacedAssign, Zenon
<1>13. /\ waiting' = waiting \ {t} /\ pool' = [pool EXCEPT ![j] = working]
       /\ failures' \in 0..MaxFailures /\ UNCHANGED <<cluster, pc, amount, seen>>
  BY <1>1, <1>4, <1>9, Zenon DEF Dispatch, Shapes
<1> QED
  BY <1>2, <1>11, <1>12, <1>13, WorkInv, Zenon

LEMMA ReleaseInv ==
  ASSUME PoolInv, NEW j \in Jobs, NEW t \in OwnedBy[j], Succeed(j, t) \/ Retry(j, t)
  PROVE  PoolInv'
<1>1. Shapes /\ OneAgentPerTask
  BY DEF PoolInv
<1>2. pc[j] = "apply" /\ t \in Tasks
  BY DEF Succeed, Retry, OwnedBy
<1>3. Placed(pool[j], waiting) /\ pool[j] \in Seq(Agent) /\ pool[j] \in Seq(AgentOf(j))
  BY <1>1, <1>2, PoolOfAgents DEF OneAgentPerTask, Placed, Loop, Shapes
<1>4. PICK outcome \in {"Completed", "Failed"} :
        /\ pool' = [pool EXCEPT ![j] = Release(pool[j], t, outcome)]
        /\ waiting' = waiting \/ waiting' = waiting \cup {t}
  BY DEF Succeed, Retry
<1>5. PICK freed : freed = Release(pool[j], t, outcome)
  OBVIOUS
<1>6. /\ freed \in Seq(Agent) /\ Len(freed) = Len(pool[j])
      /\ Placed(freed, waiting) /\ Placed(freed, waiting \cup {t})
  BY <1>2, <1>3, <1>5, PlacedRelease, Zenon
<1>7. ASSUME NEW i \in 1..Len(freed) PROVE freed[i] \in AgentOf(j)
  <2>1. i \in DOMAIN pool[j]
    BY <1>3, <1>6, <1>7
  <2>2. freed[i].task = NoTask \/ freed[i] = pool[j][i]
    <3>1. freed[i] = IF pool[j][i].task = t THEN Released(pool[j][i], outcome) ELSE pool[j][i]
      BY <1>5, <2>1 DEF Release
    <3>2. pool[j][i] \in Agent
      BY <1>3, <2>1
    <3>3. Released(pool[j][i], outcome).task = NoTask
      BY <3>2 DEF Released, Agent
    <3> QED
      BY <3>1, <3>3
  <2>3. pool[j][i] \in AgentOf(j) /\ freed[i] \in Agent
    BY <1>3, <1>6, <2>1
  <2> QED
    BY <2>2, <2>3 DEF Agent, AgentOf
<1>8. freed \in Seq(AgentOf(j))
  <2> HIDE DEF AgentOf
  <2>1. freed = [i \in 1..Len(freed) |-> freed[i]] /\ Len(freed) \in Nat
    BY <1>6
  <2> QED
    BY <1>7, <2>1
<1>9. failures' \in 0..MaxFailures /\ UNCHANGED <<cluster, pc, amount, seen>>
  BY <1>1, AgentPoolAssumption DEF Succeed, Retry, Shapes, AgentPoolAssumption
<1>10. waiting' \subseteq waiting \cup OwnedBy[j] /\ Placed(freed, waiting')
  BY <1>4, <1>6, Zenon
<1>11. pool' = [pool EXCEPT ![j] = freed]
  BY <1>4, <1>5
<1> QED
  BY <1>2, <1>6, <1>8, <1>9, <1>10, <1>11, WorkInv, Zenon

LEMMA FinishInv == ASSUME PoolInv, NEW j \in Jobs, Finish(j) PROVE PoolInv'
<1>1. Shapes /\ Sized /\ CountExact /\ OneAgentPerTask /\ QuotaNearly
  BY DEF PoolInv
<1>2. pc[j] = "finish" /\ pc' = [pc EXCEPT ![j] = "over"] /\ pc'[j] = "over"
  BY <1>1 DEF Finish, Goto, Shapes
<1>3. cluster \in Nat /\ Len(pool[j]) \in Nat
  BY <1>1, PoolOfAgents DEF Shapes
<1>4. Holds[j] = Len(pool[j]) /\ Holds'[j] = 0
  BY <1>2 DEF Holds
<1>5. cluster >= Len(pool[j])
  BY <1>1, <1>4, CountCovers
<1>6. cluster' = cluster - Len(pool[j])
  <2>1. ~ (cluster < Len(pool[j]))
    BY <1>3, <1>5
  <2> QED
    BY <2>1, Zenon DEF Finish
<1>7. UNCHANGED <<pool, amount, seen, waiting, failures>>
  BY DEF Finish
<1>8. Shapes'
  BY <1>1, <1>2, <1>3, <1>5, <1>6, <1>7 DEF Shapes, Ended
<1>9. OnlyMoves(j)
  BY <1>1, <1>2, <1>7 DEF OnlyMoves, Shapes
<1>10. Sized'
  BY <1>1, <1>2, <1>7, <1>9 DEF Sized, OnlyMoves, Loop
<1>11. CountExact'
  <2>1. cluster' = cluster - Holds[j] + Holds'[j]
    BY <1>3, <1>4, <1>6
  <2> QED
    BY <1>1, <1>8, <1>9, <2>1, CountStep
<1>12. OneAgentPerTask'
  <2>1. pc'[j] \notin Loop
    BY <1>2 DEF Loop
  <2> QED
    BY <1>1, <1>7, <1>9, <2>1, PlacedStep
<1>13. Admitted[j] = Len(pool[j]) /\ Admitted'[j] = 0 /\ pc'[j] # "grow"
  BY <1>2, <1>4 DEF Admitted
<1>14. QuotaNearly'
  BY <1>1, <1>3, <1>8, <1>9, <1>13, QuotaStep
<1> QED
  BY <1>8, <1>10, <1>11, <1>12, <1>14 DEF PoolInv

LEMMA LoopInv ==
  ASSUME PoolInv, NEW j \in Jobs, EndDispatch(j) \/ EndApply(j) \/ Cancel(j) \/ Break(j)
  PROVE  PoolInv'
<1>1. PICK s \in {"apply", "finish", "tick", "failed"} :
        /\ pc' = [pc EXCEPT ![j] = s]
        /\ pc[j] \in {"tick", "dispatch", "apply"}
        /\ UNCHANGED <<cluster, pool, amount, seen, waiting, failures>>
  BY DEF EndDispatch, EndApply, Cancel, Break, Goto
<1>2. s \in Resting /\ pc[j] \in Resting \cap Loop /\ s # "load"
  BY <1>1 DEF Resting, Loop
<1> QED
  BY <1>1, <1>2, MovesOnInv, Zenon

LEMMA NextInv == PoolInv /\ [Next]_vars => PoolInv'
<1> SUFFICES ASSUME PoolInv, [Next]_vars PROVE PoolInv'
  OBVIOUS
<1>1. CASE UNCHANGED vars
  BY <1>1 DEF PoolInv, Shapes, Sized, CountExact, OneAgentPerTask, QuotaNearly,
              Holds, Admitted, Growing, vars
<1>2. ASSUME NEW j \in Jobs, EngineStep(j) \/ Cancel(j) \/ Break(j) PROVE PoolInv'
  <2>1. CASE Claim(j)
    BY <2>1, ClaimInv
  <2>2. CASE Refuse(j)
    BY <2>2, RefuseInv
  <2>3. CASE Provision(j)
    BY <2>3, ProvisionInv
  <2>4. CASE ReadPool(j)
    BY <2>4, ReadPoolInv
  <2>5. CASE LoadCluster(j)
    BY <2>5, LoadInv
  <2>6. CASE Grow(j)
    BY <2>6, GrowInv
  <2>7. CASE Push(j)
    BY <2>7, PushInv
  <2>8. CASE Reclaim(j)
    BY <2>8, ReclaimInv
  <2>9. CASE Subtract(j)
    BY <2>9, SubtractInv
  <2>10. ASSUME NEW t \in OwnedBy[j], Dispatch(j, t) PROVE PoolInv'
    BY <2>10, DispatchInv
  <2>11. ASSUME NEW t \in OwnedBy[j], Succeed(j, t) \/ Retry(j, t) PROVE PoolInv'
    BY <2>11, ReleaseInv
  <2>12. CASE Finish(j)
    BY <2>12, FinishInv
  <2>13. CASE EndDispatch(j) \/ EndApply(j) \/ Cancel(j) \/ Break(j)
    BY <2>13, LoopInv
  <2> QED
    BY <1>2, <2>1, <2>2, <2>3, <2>4, <2>5, <2>6, <2>7, <2>8, <2>9, <2>10, <2>11, <2>12,
       <2>13, Zenon DEF EngineStep
<1> QED
  BY <1>1, <1>2 DEF Next

LEMMA PoolSafe == Spec => []PoolInv
  BY StartInv, NextInv, PTL DEF Spec
-----------------------------------------------------------------------------
\* Whatever the jobs do to their pools, their agents have known types and only
\* ever hold tasks of their own job.
THEOREM PoolTypes == Spec => []TypeOK
<1>1. PoolInv => TypeOK
  <2> SUFFICES ASSUME Shapes PROVE TypeOK
    BY DEF PoolInv
  <2>1. ASSUME NEW j \in Jobs, NEW i \in 1..Len(pool[j])
        PROVE  /\ pool[j][i].type \in Range(AgentTypes)
               /\ pool[j][i].status \in {"Idle", "Running"}
               /\ pool[j][i].task \in OwnedBy[j] \cup {NoTask}
    <3>1. pool[j][i] \in AgentOf(j)
      BY <2>1 DEF Shapes
    <3> QED
      BY <3>1 DEF AgentOf
  <2> QED
    BY <2>1 DEF Shapes, TypeOK
<1> QED
  BY <1>1, PoolSafe, PTL

\* For any number of jobs, the cluster counter is exactly the agents the jobs
\* hold or have claimed, whatever provision_agents, maintain_agent_pool and
\* finish interleave: the saturating subtraction of finish never saturates.
THEOREM CountAlwaysExact == Spec => []CountExact
<1>1. PoolInv => CountExact
  BY DEF PoolInv
<1> QED
  BY <1>1, PoolSafe, PTL

\* No task ever has two agents, and no agent is busy with a task it cannot do
\* or that is still queued, through reclaims, respecialisations and retries.
THEOREM OneAgentEach == Spec => []OneAgentPerTask
<1>1. PoolInv => OneAgentPerTask
  BY DEF PoolInv
<1> QED
  BY <1>1, PoolSafe, PTL

\* A pool in its loop keeps an agent and never outgrows what its job asked for.
THEOREM PoolWithinBounds == Spec => []PoolBounds
<1>1. PoolInv => PoolBounds
  BY DEF PoolInv, Sized, PoolBounds
<1> QED
  BY <1>1, PoolSafe, PTL

\* For any number of jobs and any quota, the race between reading and adding to
\* the cluster counter overshoots it by at most one agent per other job.
THEOREM QuotaNearlyHeld == Spec => []OvershootBounded
<1>1. PoolInv => OvershootBounded
  <2> SUFFICES ASSUME PoolInv PROVE OvershootBounded
    OBVIOUS
  <2>1. Shapes /\ QuotaNearly
    BY DEF PoolInv
  <2>2. Admitted \in [Jobs -> Nat]
    BY <2>1, HoldsType DEF Countable
  <2>3. \A j \in Jobs : Len(pool[j]) \in Nat /\ amount[j] \in Nat
    BY <2>1, PoolOfAgents DEF Shapes
  <2>4. InUse \in [Jobs -> Nat]
    BY <2>3 DEF InUse
  <2>5. ASSUME NEW j \in Jobs PROVE InUse[j] <= Admitted[j]
    BY <2>2, <2>3 DEF InUse, Admitted, Holds
  <2>6. Total(InUse) <= Total(Admitted)
    BY <2>2, <2>4, <2>5, TotalMono
  <2>7. Total(InUse) \in Nat /\ Total(Admitted) \in Nat /\ Cardinality(Growing) \in Nat
    BY <2>2, <2>4, TotalNat, GrowingFinite
  <2>8. MaxClusterAgents + Cardinality(Jobs) - 1 \in Int
    BY GrowingFinite, AgentPoolAssumption DEF AgentPoolAssumption
  <2> QED
    BY <2>1, <2>6, <2>7, <2>8 DEF QuotaNearly, OvershootBounded
<1> QED
  BY <1>1, PoolSafe, PTL
=============================================================================
