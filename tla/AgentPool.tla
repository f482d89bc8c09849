------------------------------ MODULE AgentPool ----------------------------
(***************************************************************************)
(* The agents of concurrent jobs and the counter they share: provisioning, *)
(* growing and reclaiming a pool, placing tasks on agents and giving the   *)
(* agents back (crates/coordinator/src/engine.rs), with the schedulers of  *)
(* crates/coordinator/src/schedule.rs.                                     *)
(*                                                                         *)
(* A pool is changed only by its own job's engine; the cluster counter is  *)
(* an atomic that every engine loads, compares and adds to in separate     *)
(* steps.  What the queue reports about its depth, and which agents have   *)
(* been idle for long, is left open.  The ranking a scheduler applies to   *)
(* its candidates is left open too: any of them may be chosen, so what     *)
(* holds here holds for all four strategies.                               *)
(***************************************************************************)
EXTENDS Agents, Integers, FiniteSets, Functions

CONSTANTS
    Jobs, Tasks,
    JobOf,          \* [Tasks -> Jobs]
    KindOf,         \* [Tasks -> TaskKinds]
    Widest,         \* [Jobs -> 1..], size of the widest layer of the job's graph
    Wanted,         \* [Jobs -> sets of capabilities], JobRequest::required_capabilities
    MaxAgents,      \* [Jobs -> Nat], JobRequest::max_agents
    MaxClusterAgents,
    Unlucky,        \* jobs whose engine may return an error
    MaxFailures     \* bound on failed executions

OwnedBy == [j \in Jobs |-> {t \in Tasks : JobOf[t] = j}]
TypeFor == [t \in Tasks |-> agent_type_for(KindOf[t])]
Requires == [t \in Tasks |-> required_capabilities(KindOf[t])]

ASSUME AgentPoolAssumption ==
    /\ Jobs # {} /\ IsFiniteSet(Jobs) /\ IsFiniteSet(Tasks)
    /\ \A j \in Jobs : OwnedBy[j] # {} /\ Widest[j] \in 1..Cardinality(OwnedBy[j])
    /\ MaxClusterAgents \in Nat /\ \A j \in Jobs : MaxAgents[j] \in 1..MaxClusterAgents
    /\ \A t \in Tasks : KindOf[t] \in TaskKinds
    /\ Unlucky \subseteq Jobs /\ MaxFailures \in Nat
    /\ NoTask \notin Tasks

VARIABLES
    cluster,    \* Coordinator::cluster_agents
    pool,       \* JobHandle::agents
    pc,         \* where the job's engine stands
    amount,     \* agents the engine is adding to or taking from the counter
    seen,       \* the counter as the engine's claim found it
    waiting,    \* tasks that are queued
    failures    \* failed executions so far

vars == <<cluster, pool, pc, amount, seen, waiting, failures>>

Ended == {"refused", "over", "failed"}
Loop == {"tick", "load", "grow", "push", "reclaim", "subtract", "dispatch", "apply", "finish"}

TypeOK ==
    /\ cluster \in Nat /\ failures \in 0..MaxFailures
    /\ pc \in [Jobs -> {"submitted", "claimed"} \cup Loop \cup Ended]
    /\ amount \in [Jobs -> Nat] /\ seen \in [Jobs -> Nat]
    /\ waiting \subseteq Tasks
    /\ \A j \in Jobs : \A i \in 1..Len(pool[j]) :
          /\ pool[j][i].type \in Range(AgentTypes)
          /\ pool[j][i].status \in {"Idle", "Running"}
          /\ pool[j][i].task \in OwnedBy[j] \cup {NoTask}

Init ==
    /\ cluster = 0
    /\ pool = [j \in Jobs |-> <<>>]
    /\ pc = [j \in Jobs |-> "submitted"]
    /\ amount = [j \in Jobs |-> 0]
    /\ seen = [j \in Jobs |-> 0]
    /\ waiting = Tasks
    /\ failures = 0

Goto(j, step) == pc' = [pc EXCEPT ![j] = step]
Available(j) == {i \in 1..Len(pool[j]) : is_available(pool[j][i])}
-----------------------------------------------------------------------------
\* How many tasks ask for a type; a capability the job asks for counts once
\* where no task does.
Demand(j, type) ==
    LET tasks == Cardinality({t \in OwnedBy[j] : TypeFor[t] = type})
    IN  IF tasks = 0 /\ type \in {for_capability(c) : c \in Wanted[j]} THEN 1 ELSE tasks

DemandedTypes(j) == {type \in Range(AgentTypes) : Demand(j, type) > 0}

\* The demanded types, the most needed first, ties by name.
TypesByDemand(j) ==
    {types \in [1..Cardinality(DemandedTypes(j)) -> DemandedTypes(j)] :
        \A m, n \in DOMAIN types : m < n =>
            \/ Demand(j, types[m]) > Demand(j, types[n])
            \/ /\ Demand(j, types[m]) = Demand(j, types[n])
               /\ NameRank(types[m]) < NameRank(types[n])}

larger(a, b) == IF a > b THEN a ELSE b
smaller(a, b) == IF a < b THEN a ELSE b
Target ==
    [j \in Jobs |->
        larger(smaller(larger(Widest[j], Cardinality(DemandedTypes(j))), MaxAgents[j]), 1)]

\* provision_agents claims its share of the cluster first and looks afterwards.
Claim(j) ==
    /\ pc[j] = "submitted"
    /\ cluster' = cluster + Target[j]
    /\ seen' = [seen EXCEPT ![j] = cluster]
    /\ amount' = [amount EXCEPT ![j] = Target[j]]
    /\ Goto(j, "claimed")
    /\ UNCHANGED <<pool, waiting, failures>>

\* Too much: the claim is undone and run_job returns the error, with the job
\* already Running.
Refuse(j) ==
    /\ pc[j] = "claimed" /\ seen[j] + amount[j] > MaxClusterAgents
    /\ cluster' = cluster - amount[j]
    /\ amount' = [amount EXCEPT ![j] = 0] /\ seen' = [seen EXCEPT ![j] = 0]
    /\ Goto(j, "refused")
    /\ UNCHANGED <<pool, waiting, failures>>

Provision(j) ==
    /\ pc[j] = "claimed" /\ seen[j] + amount[j] <= MaxClusterAgents
    /\ \E types \in TypesByDemand(j) :
          pool' = [pool EXCEPT ![j] =
              [i \in 1..amount[j] |->
                  NewAgent(types[((i - 1) % Cardinality(DemandedTypes(j))) + 1])]]
    /\ amount' = [amount EXCEPT ![j] = 0] /\ seen' = [seen EXCEPT ![j] = 0]
    /\ Goto(j, "tick")
    /\ UNCHANGED <<cluster, waiting, failures>>
-----------------------------------------------------------------------------
\* most_needed_type, over the tasks that wait; ties go to the first name.
NeededTypes(j) == {TypeFor[t] : t \in waiting \cap OwnedBy[j]}
MostNeeded(j) ==
    LET need(type) == Cardinality({t \in waiting \cap OwnedBy[j] : TypeFor[t] = type})
    IN  {type \in NeededTypes(j) : \A other \in NeededTypes(j) :
            \/ need(type) > need(other)
            \/ need(type) = need(other) /\ NameRank(type) <= NameRank(other)}

\* maintain_agent_pool reads the queue's depth and the pool.  The queue is
\* shared, so it may be busy or quiet whatever this job is waiting for.
ReadPool(j) ==
    /\ pc[j] = "tick"
    /\ \/ Len(pool[j]) < MaxAgents[j] /\ Goto(j, "load")
       \/ Goto(j, "reclaim")
       \/ Goto(j, "dispatch")
    /\ UNCHANGED <<cluster, pool, amount, seen, waiting, failures>>

LoadGenerously(j) ==
    /\ pc[j] = "load"
    /\ Goto(j, IF cluster <= MaxClusterAgents /\ NeededTypes(j) # {} THEN "grow" ELSE "dispatch")
    /\ UNCHANGED <<cluster, pool, amount, seen, waiting, failures>>

LoadCluster(j) ==
    /\ pc[j] = "load"
    /\ Goto(j, IF cluster < MaxClusterAgents /\ NeededTypes(j) # {} THEN "grow" ELSE "dispatch")
    /\ UNCHANGED <<cluster, pool, amount, seen, waiting, failures>>

Grow(j) ==
    /\ pc[j] = "grow"
    /\ cluster' = cluster + 1
    /\ Goto(j, "push")
    /\ UNCHANGED <<pool, amount, seen, waiting, failures>>

Push(j) ==
    /\ pc[j] = "push"
    /\ \E type \in MostNeeded(j) : pool' = [pool EXCEPT ![j] = Append(@, NewAgent(type))]
    /\ Goto(j, "dispatch")
    /\ UNCHANGED <<cluster, amount, seen, waiting, failures>>

\* What may be left of s when the agents at stale are removed from the front
\* on, as long as more than one is left: the others, in their order.
Reclaimed(s, stale) ==
    LET kept == (1..Len(s)) \ (IF stale = 1..Len(s) THEN stale \ {Len(s)} ELSE stale)
    IN  {[i \in 1..Cardinality(kept) |-> s[at[i]]] :
            at \in {f \in [1..Cardinality(kept) -> kept] :
                       \A m, n \in DOMAIN f : m < n => f[m] < f[n]}}

\* The queue is quiet: agents that have been idle for long are reclaimed.
Reclaim(j) ==
    /\ pc[j] = "reclaim"
    /\ \E stale \in SUBSET Available(j) : \E left \in Reclaimed(pool[j], stale) :
          /\ pool' = [pool EXCEPT ![j] = left]
          /\ amount' = [amount EXCEPT ![j] = Len(pool[j]) - Len(left)]
          /\ Goto(j, IF Len(left) < Len(pool[j]) THEN "subtract" ELSE "dispatch")
    /\ UNCHANGED <<cluster, seen, waiting, failures>>

Subtract(j) ==
    /\ pc[j] = "subtract"
    /\ cluster' = cluster - amount[j]
    /\ amount' = [amount EXCEPT ![j] = 0]
    /\ Goto(j, "dispatch")
    /\ UNCHANGED <<pool, seen, waiting, failures>>
-----------------------------------------------------------------------------
\* The agents a scheduler chooses from, as positions in the pool.
Candidates(agents, t) ==
    {i \in 1..Len(agents) : is_available(agents[i])
                            /\ supports(agents[i], Requires[t])}

Assigned(agent, t) ==
    [agent EXCEPT !.status = IF LegalPath(AgentAllowed, @, <<"Assigned", "Running">>)
                             THEN "Running" ELSE @,
                  !.task = t]

NeverRespecialised(j, t) == {}

\* respecialise: the first idle agent, if there is one, becomes the type the
\* task needs.
Respecialised(j, t) ==
    {[pool[j] EXCEPT ![i] = NewAgent(TypeFor[t])] :
        i \in {k \in Available(j) : \A other \in Available(j) : k <= other}}

\* acquire_agent: the pool as it is, or with one agent re-specialised.
Usable(j, t) ==
    IF Candidates(pool[j], t) # {} THEN {pool[j]} ELSE Respecialised(j, t)

\* One round of collect_dispatches: a task of the job gets an agent.
Dispatch(j, t) ==
    /\ pc[j] = "dispatch" /\ t \in waiting \cap OwnedBy[j]
    /\ \E agents \in Usable(j, t) : \E i \in Candidates(agents, t) :
          pool' = [pool EXCEPT ![j] = [agents EXCEPT ![i] = Assigned(agents[i], t)]]
    /\ waiting' = waiting \ {t}
    /\ UNCHANGED <<cluster, pc, amount, seen, failures>>

\* Nothing is left to hand out, or nobody to take it.
EndDispatch(j) ==
    /\ pc[j] = "dispatch"
    /\ \A t \in waiting \cap OwnedBy[j] :
          \A agents \in Usable(j, t) : Candidates(agents, t) = {}
    /\ Goto(j, "apply")
    /\ UNCHANGED <<cluster, pool, amount, seen, waiting, failures>>

Released(agent, outcome) ==
    [agent EXCEPT !.status = IF LegalPath(AgentAllowed, @, <<outcome, "Idle">>)
                             THEN "Idle" ELSE @,
                  !.task = NoTask]

ReleaseIfSuccess(agents, t, outcome) ==
    [i \in DOMAIN agents |->
        IF agents[i].task = t /\ outcome = "Completed" THEN Released(agents[i], outcome)
        ELSE agents[i]]

\* release_agent, for the agent that ran t.
Release(agents, t, outcome) ==
    [i \in DOMAIN agents |-> IF agents[i].task = t THEN Released(agents[i], outcome) ELSE agents[i]]

Running(j) == {pool[j][i].task : i \in 1..Len(pool[j])} \ {NoTask}

\* apply_outcome of an execution that succeeded, or that failed and will be
\* retried.
Succeed(j, t) ==
    /\ pc[j] = "apply" /\ t \in Running(j)
    /\ pool' = [pool EXCEPT ![j] = Release(@, t, "Completed")]
    /\ UNCHANGED <<cluster, pc, amount, seen, waiting, failures>>

Retry(j, t) ==
    /\ pc[j] = "apply" /\ t \in Running(j) /\ failures < MaxFailures
    /\ pool' = [pool EXCEPT ![j] = Release(@, t, "Failed")]
    /\ waiting' = waiting \cup {t}
    /\ failures' = failures + 1
    /\ UNCHANGED <<cluster, pc, amount, seen>>

\* The next tick, or the end of the loop.
EndApply(j) ==
    /\ pc[j] = "apply" /\ Running(j) = {}
    /\ Goto(j, IF waiting \cap OwnedBy[j] = {} THEN "finish" ELSE "tick")
    /\ UNCHANGED <<cluster, pool, amount, seen, waiting, failures>>

\* Cancelled while executions are in flight: their agents are not released.
Cancel(j) ==
    /\ pc[j] = "apply"
    /\ Goto(j, "finish")
    /\ UNCHANGED <<cluster, pool, amount, seen, waiting, failures>>

\* The tail of run_job is never reached when a step of the loop fails, by the
\* tick budget or by the queue.
Break(j) ==
    /\ j \in Unlucky /\ pc[j] \in {"tick", "dispatch", "apply"}
    /\ Goto(j, "failed")
    /\ UNCHANGED <<cluster, pool, amount, seen, waiting, failures>>

FinishIdle(j) ==
    /\ pc[j] = "finish"
    /\ cluster' = IF cluster < Cardinality(Available(j)) THEN 0
                  ELSE cluster - Cardinality(Available(j))
    /\ Goto(j, "over")
    /\ UNCHANGED <<pool, amount, seen, waiting, failures>>

\* finish gives the job's agents back to the cluster, saturating at zero.
Finish(j) ==
    /\ pc[j] = "finish"
    /\ cluster' = IF cluster < Len(pool[j]) THEN 0 ELSE cluster - Len(pool[j])
    /\ Goto(j, "over")
    /\ UNCHANGED <<pool, amount, seen, waiting, failures>>

EngineStep(j) ==
    \/ Claim(j) \/ Refuse(j) \/ Provision(j)
    \/ ReadPool(j) \/ LoadCluster(j) \/ Grow(j) \/ Push(j) \/ Reclaim(j) \/ Subtract(j)
    \/ \E t \in OwnedBy[j] : Dispatch(j, t) \/ Succeed(j, t) \/ Retry(j, t)
    \/ EndDispatch(j) \/ EndApply(j) \/ Finish(j)

Next == \E j \in Jobs : EngineStep(j) \/ Cancel(j) \/ Break(j)

Spec == Init /\ [][Next]_vars

\* Each job is its own tokio task: an engine that can move does.
FairSpec == Spec /\ \A j \in Jobs : WF_vars(EngineStep(j))
-----------------------------------------------------------------------------
\* What the counter should show for a job: its agents, what it has claimed
\* and not yet turned into agents, what it has dropped and not yet given up.
Holds ==
    [j \in Jobs |->
        CASE pc[j] = "claimed" -> amount[j]
          [] pc[j] = "push" -> Len(pool[j]) + 1
          [] pc[j] = "subtract" -> Len(pool[j]) + amount[j]
          [] pc[j] \in {"submitted", "refused", "over"} -> 0
          [] OTHER -> Len(pool[j])]

\* The sum of a number per job, as the size of a disjoint union.
Total(n) == Cardinality(UNION {{j} \X (1..n[j]) : j \in Jobs})

\* The cluster counter is exact at every moment, through refused claims,
\* growth, reclamation, cancellation and errors: it counts the agents of the
\* jobs that have not ended, and those of engines that broke, for good.
CountExact == cluster = Total(Holds)

InUse ==
    [j \in Jobs |->
        IF pc[j] \in {"submitted", "claimed", "refused", "over"} THEN 0 ELSE Len(pool[j])]

\* max_cluster_agents is compared and then added to in two steps, so growing
\* pools may exceed it, by one agent for each other job at the most.
OvershootBounded ==
    Total(InUse) <= MaxClusterAgents + Cardinality(Jobs) - 1

\* A job in its loop has an agent to run a late task on, and never more than
\* it asked for.
PoolBounds == \A j \in Jobs : pc[j] \in Loop => Len(pool[j]) \in 1..MaxAgents[j]

\* While the loop runs, an agent is busy exactly with one task of its job that
\* is not queued, no task has two agents, and an agent can do what it holds.
OneAgentPerTask ==
    \A j \in Jobs : pc[j] \in Loop =>
        \A i, k \in 1..Len(pool[j]) :
            LET t == pool[j][i].task
            IN  /\ (t # NoTask) <=> (pool[j][i].status = "Running")
                /\ t # NoTask => /\ t \notin waiting
                                 /\ supports(pool[j][i], Requires[t])
                                 /\ pool[j][k].task = t => i = k

\* However few agents a job may have, no task waits for a capability nobody
\* has: a job that got its agents runs to its end unless its engine breaks.
NoCapabilityDeadlock ==
    \A j \in Jobs : (pc[j] = "tick") ~> (pc[j] \in {"over", "failed"})
=============================================================================
