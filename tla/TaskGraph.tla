------------------------------ MODULE TaskGraph -----------------------------
(***************************************************************************)
(* The task graph of a job (crates/domain/src/graph.rs) from its plan      *)
(* (Decompose) through the edits it offers while the job runs, and its     *)
(* reconstruction from the journal (rebuild_graph of                       *)
(* crates/coordinator/src/recovery.rs).                                    *)
(*                                                                         *)
(* The graph is kept twice, as in the code: the topology, whose nodes are  *)
(* numbered and never removed, and the map of task nodes with their own    *)
(* dependency lists.  An operation returns the graph it leaves behind and  *)
(* whether it succeeded; a failed one may leave a changed graph behind.    *)
(* Dependency lists hold no task twice.  petgraph is external.             *)
(***************************************************************************)
EXTENDS Decompose, Lifecycles, Integers, TLC

CONSTANTS
    Jobs,       \* the planned jobs: strategy, max_agents, clauses, bound on operations
    MaxTasks    \* bound on tasks a graph is extended to

VARIABLES
    g,          \* the TaskGraph
    plan,       \* the tasks as journaled at submission
    ops,        \* operations to come
    last        \* the last operation: its name, its task, whether it succeeded

vars == <<g, plan, ops, last>>

Ok(graph) == [ok |-> TRUE, g |-> graph]
Err(graph) == [ok |-> FALSE, g |-> graph]

\* TaskGraph::new: weight is the task of each node of the topology, edges
\* point from dependency to dependent.
EmptyGraph == [weight |-> <<>>, edges |-> {}, index |-> <<>>, nodes |-> <<>>]

Without(f, id) == [t \in DOMAIN f \ {id} |-> f[t]]

-----------------------------------------------------------------------------
(* Reading the topology.                                                   *)

In(graph, n) == {e[1] : e \in {x \in graph.edges : x[2] = n}}
Out(graph, n) == {e[2] : e \in {x \in graph.edges : x[1] = n}}

dependencies(graph, t) ==
    IF t \in DOMAIN graph.index
      THEN {graph.weight[n] : n \in In(graph, graph.index[t])} ELSE {}

dependents(graph, t) ==
    IF t \in DOMAIN graph.index
      THEN {graph.weight[n] : n \in Out(graph, graph.index[t])} ELSE {}

\* petgraph's toposort; short when there is a cycle.
RECURSIVE Sorted(_, _)
Sorted(graph, done) ==
    LET next == {n \in 1..Len(graph.weight) \ ToSet(done) : In(graph, n) \subseteq ToSet(done)} IN
    IF next = {} THEN done ELSE Sorted(graph, Append(done, Min(next)))

assert_acyclic(graph) == Len(Sorted(graph, <<>>)) = Len(graph.weight)

topological_order(graph) ==
    LET order == Sorted(graph, <<>>) IN [i \in 1..Len(order) |-> graph.weight[order[i]]]

\* layers: the depth of each task, computed along the order.
depths(graph) ==
    FoldLeft(LAMBDA depth, t :
                 LET known == {depth[d] : d \in dependencies(graph, t) \cap DOMAIN depth} IN
                 (t :> IF known = {} THEN 0 ELSE Max(known) + 1) @@ depth,
             <<>>, topological_order(graph))

layers(graph) ==
    LET depth == depths(graph) IN
    [n \in 1..(1 + Max({0} \cup {depth[t] : t \in DOMAIN depth})) |->
        {t \in DOMAIN depth : depth[t] = n - 1}]

\* ready: waiting tasks whose dependencies are all complete.
Complete(graph) == {t \in DOMAIN graph.nodes : graph.nodes[t].state = "Completed"}

ready(graph) ==
    {t \in DOMAIN graph.nodes :
        /\ graph.nodes[t].state \in {"Created", "WaitingForDependency"}
        /\ graph.nodes[t].deps \subseteq Complete(graph)}

\* blocked_by_abandoned: forward from the abandoned tasks through tasks that
\* are not terminal.
Live(graph) == {t \in DOMAIN graph.nodes : graph.nodes[t].state \notin Terminal}

RECURSIVE Walk(_, _, _)
Walk(graph, frontier, blocked) ==
    LET next == (UNION {dependents(graph, t) : t \in frontier} \cap Live(graph)) \ blocked IN
    IF next = {} THEN blocked ELSE Walk(graph, next, blocked \cup next)

blocked_by_abandoned(graph) ==
    Walk(graph, {t \in DOMAIN graph.nodes :
                    graph.nodes[t].state \in {"DeadLettered", "Cancelled"}}, {})

-----------------------------------------------------------------------------
(* Changing the graph.                                                     *)

insert(graph, id, node) ==
    IF id \in DOMAIN graph.nodes \/ ~(node.deps \subseteq DOMAIN graph.nodes) THEN Err(graph)
    ELSE LET n == Len(graph.weight) + 1 IN
         Ok([weight |-> Append(graph.weight, id),
             edges |-> graph.edges \cup {<<graph.index[d], n>> : d \in node.deps},
             index |-> (id :> n) @@ graph.index,
             nodes |-> (id :> node) @@ graph.nodes])

\* add_dependency: t waits for d, unless that closes a cycle.
add_dependency(graph, t, d) ==
    IF t \notin DOMAIN graph.index \/ d \notin DOMAIN graph.index \/ t = d THEN Err(graph)
    ELSE IF d \in graph.nodes[t].deps THEN Ok(graph)
    ELSE LET linked == [graph EXCEPT !.edges = @ \cup {<<graph.index[d], graph.index[t]>>}] IN
         IF assert_acyclic(linked) THEN Ok([linked EXCEPT !.nodes[t].deps = @ \cup {d}])
                                   ELSE Err(graph)

RemoveEdgeOnly(graph, t, d) ==
    IF t \notin DOMAIN graph.index \/ d \notin DOMAIN graph.index THEN graph
    ELSE [graph EXCEPT !.edges = @ \ {<<graph.index[d], graph.index[t]>>}]

remove_dependency(graph, t, d) ==
    IF t \notin DOMAIN graph.index \/ d \notin DOMAIN graph.index THEN graph
    ELSE [graph EXCEPT !.edges = @ \ {<<graph.index[d], graph.index[t]>>},
                       !.nodes[t].deps = @ \ {d}]

\* The rollback of insert_dynamic: the edges to the dependents are dropped
\* and the node is forgotten; its place in the topology, with the edges from
\* its own dependencies, stays.
Rollback(graph, id, attached) ==
    LET detached == FoldLeft(LAMBDA h, t : remove_dependency(h, t, id), graph, attached) IN
    [detached EXCEPT !.nodes = Without(@, id), !.index = Without(@, id)]

insert_dynamic(graph, id, node, waiting) ==
    LET inserted == insert(graph, id, node)
        attach(r, t) == IF r.ok THEN add_dependency(r.g, t, id) ELSE r
        attached == FoldLeft(attach, inserted, waiting) IN
    IF ~inserted.ok \/ attached.ok THEN attached
    ELSE Err(Rollback(attached.g, id, waiting))

SplitOrphaning(graph, t, children) ==
    IF children = <<>> \/ t \notin DOMAIN graph.index THEN Err(graph)
    ELSE LET child == [graph.nodes[t] EXCEPT !.deps = {}, !.state = "Created"]
             detached == [graph EXCEPT !.edges = {e \in @ : e[2] # graph.index[t]},
                                       !.nodes[t].deps = {}]
             step(r, id) ==
                LET inserted == insert(r.g, id, child) IN
                IF ~r.ok THEN r
                ELSE IF ~inserted.ok THEN inserted ELSE add_dependency(inserted.g, t, id) IN
         FoldLeft(step, Ok(detached), children)

\* split: the task hands its dependencies to its children and waits for
\* them.  A child that cannot be inserted ends the split half way.
split(graph, t, children) ==
    IF children = <<>> \/ t \notin DOMAIN graph.index THEN Err(graph)
    ELSE LET child == [graph.nodes[t] EXCEPT !.deps = dependencies(graph, t),
                                             !.state = "Created"]
             detached == [graph EXCEPT !.edges = {e \in @ : e[2] # graph.index[t]},
                                       !.nodes[t].deps = {}]
             step(r, id) ==
                LET inserted == insert(r.g, id, child) IN
                IF ~r.ok THEN r
                ELSE IF ~inserted.ok THEN inserted ELSE add_dependency(inserted.g, t, id) IN
         FoldLeft(step, Ok(detached), children)

\* set_state validates the edge; restore_state, for replay, does not.
set_state(graph, t, to) ==
    IF t \in DOMAIN graph.nodes /\ to \in TaskAllowed[graph.nodes[t].state]
      THEN Ok([graph EXCEPT !.nodes[t].state = to]) ELSE Err(graph)

restore_state(graph, t, to) ==
    IF t \in DOMAIN graph.nodes THEN Ok([graph EXCEPT !.nodes[t].state = to]) ELSE Err(graph)

\* rebuild_graph: passes over the journaled tasks, in the order they happen
\* to be in, inserting what has its dependencies and deferring the rest.
Pass(graph, nodes, pending) ==
    FoldLeft(LAMBDA r, t :
                 IF nodes[t].deps \subseteq DOMAIN r.g.nodes
                   THEN [r EXCEPT !.g = insert(r.g, t, nodes[t]).g]
                   ELSE [r EXCEPT !.deferred = Append(@, t)],
             [g |-> graph, deferred |-> <<>>], pending)

RECURSIVE Passes(_, _, _)
Passes(graph, nodes, pending) ==
    LET pass == Pass(graph, nodes, pending) IN
    IF pending = <<>> THEN (IF assert_acyclic(graph) THEN Ok(graph) ELSE Err(graph))
    ELSE IF Len(pass.deferred) = Len(pending) THEN Err(pass.g)
    ELSE Passes(pass.g, nodes, pass.deferred)

RebuildOnePass(nodes, order) == Ok(Pass(EmptyGraph, nodes, order).g)

rebuild_graph(nodes, order) == Passes(EmptyGraph, nodes, order)

-----------------------------------------------------------------------------
(* The operations as steps.  New tasks have an id of their own, unless a   *)
(* caller hands in one that is in the graph already, or was.               *)

Ids == DOMAIN g.nodes \cup ToSet(g.weight) \cup {Len(g.weight) + 1}

NewTask(deps) ==
    [deps |-> deps, stage |-> 0, key |-> <<0, "work", <<"dynamic", 0>>>>, state |-> "Created"]

Init ==
    /\ \E j \in Jobs : /\ plan = decompose(j.strategy, j.max_agents, j.clauses)
                      /\ ops = j.ops
    /\ g = rebuild_graph(plan, [t \in 1..Len(plan) |-> t]).g
    /\ last = [op |-> "decompose", task |-> 0, ok |-> TRUE]

Apply(op, t, result) ==
    /\ ops > 0
    /\ g' = result.g /\ ops' = ops - 1
    /\ last' = [op |-> op, task |-> t, ok |-> result.ok]
    /\ UNCHANGED plan

Room == Len(g.weight) < MaxTasks

Insert ==
    /\ Room
    /\ \E id \in Ids, deps \in kSubset(1, Ids) \cup {{}} :
          Apply("insert", id, insert(g, id, NewTask(deps)))

AddDependency ==
    \E t, d \in Ids : Apply("add_dependency", t, add_dependency(g, t, d))

InsertDynamic ==
    /\ Room
    /\ \E id \in Ids \ DOMAIN g.nodes, d, first, second \in DOMAIN g.nodes :
          /\ first # second
          /\ Apply("insert_dynamic", id, insert_dynamic(g, id, NewTask({d}), <<first, second>>))

Split ==
    /\ Room
    /\ \E t \in DOMAIN g.nodes, id \in Ids, another \in Ids :
          Apply("split", t, split(g, t, <<id, another>>))

SetState ==
    \E t \in DOMAIN g.nodes, to \in {"Queued", "Cancelled"} :
        Apply("set_state", t, set_state(g, t, to))

RestoreState ==
    \E t \in DOMAIN g.nodes, to \in {"Completed", "DeadLettered"} :
        Apply("restore_state", t, restore_state(g, t, to))

\* The journal holds the tasks in any order: here forward, backward and
\* with the first task last.
RebuildGraph ==
    LET ids == [t \in 1..Len(plan) |-> t] IN
    \E order \in {ids, Reverse(ids), Append(Tail(ids), 1)} :
        Apply("rebuild_graph", 0, rebuild_graph(plan, order))

Next ==
    \/ Insert \/ AddDependency \/ InsertDynamic \/ Split
    \/ SetState \/ RestoreState \/ RebuildGraph

Spec == Init /\ [][Next]_vars

-----------------------------------------------------------------------------
(* Properties.                                                             *)

\* The plan and every edit of it leave the topology without a cycle, failed
\* edits included (add_dependency, insert_dynamic, split).
Acyclic == assert_acyclic(g)

\* The topology and the dependency lists of the tasks agree, although every
\* operation updates them one after the other: a task's node is its own, and
\* the nodes before it are exactly those of its dependencies.  What a failed
\* insert_dynamic leaves in the topology therefore holds no task up.
TopologyMirrorsTasks ==
    \A t \in DOMAIN g.nodes :
        /\ g.weight[g.index[t]] = t
        /\ In(g, g.index[t]) = {g.index[d] : d \in g.nodes[t].deps \cap DOMAIN g.index}
        /\ g.nodes[t].deps \subseteq DOMAIN g.nodes

RECURSIVE Chain(_, _)
Chain(nodes, t) == Max({0} \cup {1 + Chain(nodes, d) : d \in nodes[t].deps})

\* While the topology holds only the tasks, the layers are the waves of the
\* tasks' own dependency lists: a task is in the layer of its longest chain
\* of dependencies (layers).
LayersAreWaves ==
    Len(g.weight) = Cardinality(DOMAIN g.nodes) =>
        \A t \in DOMAIN g.nodes :
            \E n \in DOMAIN layers(g) : n = 1 + Chain(g.nodes, t) /\ t \in layers(g)[n]

\* A job cannot stall on its graph: when no task is blocked by an abandoned
\* one, some unfinished task has all its dependencies complete, so the
\* engine finds something to queue or is waiting for something in flight
\* (ready, blocked_by_abandoned).
NoStall ==
    Live(g) # {} /\ blocked_by_abandoned(g) = {} =>
        \E t \in Live(g) : g.nodes[t].deps \subseteq Complete(g)

\* The two representations of the plan are one graph: acyclic, with the edges
\* the tasks list, layers that are the waves the tasks can run in, and always
\* a task to go on with.
OneGraph == Acyclic /\ TopologyMirrorsTasks /\ LayersAreWaves /\ NoStall

RECURSIVE Upstream(_, _)
Upstream(nodes, t) == UNION {{d} \cup Upstream(nodes, d) : d \in nodes[t].deps}

\* An edit of several steps keeps the order of the tasks.  A split that
\* succeeds loses none: every task still comes after every task it came after
\* before.  An insert_dynamic that fails half way changes no task and no edge
\* between tasks (split, insert_dynamic).
EditsKeepOrder ==
    [][/\ last'.op = "split" /\ last'.ok =>
             \A t \in DOMAIN g.nodes : Upstream(g.nodes, t) \subseteq Upstream(g'.nodes, t)
       /\ last'.op = "insert_dynamic" /\ ~last'.ok =>
             /\ g'.nodes = g.nodes /\ g'.index = g.index
             /\ \A t \in DOMAIN g.nodes : dependencies(g', t) = dependencies(g, t)]_vars

\* No two tasks of a plan have the same idempotency key, so none is taken
\* for a duplicate delivery of another (subtopics, decompose).
KeysUnique ==
    \A t, u \in 1..Len(plan) : plan[t].key = plan[u].key => t = u

\* Whatever order the journal has the tasks in, the rebuilt graph is the
\* planned one (rebuild_graph).
RebuiltAsPlanned ==
    last.op = "rebuild_graph" => last.ok /\ g.nodes = plan

\* A plan survives its journal: its tasks stay apart and come back with their
\* dependencies, whatever order they were saved in.
PlanSound == KeysUnique /\ RebuiltAsPlanned
=============================================================================
