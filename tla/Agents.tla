------------------------------- MODULE Agents ------------------------------
(***************************************************************************)
(* Agent types, what they can do and what the kinds of task ask for        *)
(* (crates/domain/src/agent.rs, crates/domain/src/task.rs, and             *)
(* agent_type_for of crates/agent-runtime/src/lib.rs).                     *)
(***************************************************************************)
EXTENDS Naturals, Sequences, Lifecycles

\* AgentType, in the order of its labels.
AgentTypes ==
    <<"coding", "critic", "data_analysis", "general", "planner", "research", "result_merger",
      "security_review", "summarization", "tool_use", "verification">>

NameRank(type) == CHOOSE i \in 1..Len(AgentTypes) : AgentTypes[i] = type

TaskKinds ==
    {"plan", "subplan", "work", "map", "reduce", "answer", "critique", "verify", "judge",
     "vote", "merge", "summarize", "supervise"}

\* AgentType::capabilities: what a type is for, and what every type offers.
capabilities(type) ==
    {"general"} \cup
    CASE type = "planner" -> {"planning"}
      [] type = "research" -> {"research"}
      [] type = "coding" -> {"coding", "tool_use"}
      [] type = "critic" -> {"review"}
      [] type = "verification" -> {"verification", "review"}
      [] type = "summarization" -> {"summarization"}
      [] type = "tool_use" -> {"tool_use"}
      [] type = "data_analysis" -> {"data_analysis"}
      [] type = "security_review" -> {"security_review", "review"}
      [] type = "result_merger" -> {"merging", "summarization"}
      [] OTHER -> {}

\* AgentType::for_capability.
for_capability(c) ==
    CASE c = "planning" -> "planner"
      [] c = "review" -> "critic"
      [] c = "merging" -> "result_merger"
      [] OTHER -> c

\* TaskKind::required_capabilities.
required_capabilities(kind) ==
    CASE kind \in {"plan", "subplan", "supervise"} -> {"planning"}
      [] kind \in {"work", "map", "answer"} -> {"research"}
      [] kind \in {"reduce", "merge"} -> {"merging"}
      [] kind = "critique" -> {"review"}
      [] kind \in {"verify", "vote"} -> {"verification"}
      [] kind = "judge" -> {"review", "verification"}
      [] kind = "summarize" -> {"summarization"}

\* agent_type_for: the type that is spawned for a kind of task.
agent_type_for(kind) ==
    CASE kind \in {"plan", "subplan", "supervise"} -> "planner"
      [] kind \in {"work", "map", "answer"} -> "research"
      [] kind = "critique" -> "critic"
      [] kind \in {"verify", "vote", "judge"} -> "verification"
      [] kind \in {"reduce", "merge"} -> "result_merger"
      [] kind = "summarize" -> "summarization"

NoTask == "none"

\* AgentDescriptor::new, announced and put into the idle pool.
NewAgent(type) == [type |-> type, status |-> "Idle", task |-> NoTask]

\* AgentDescriptor::is_available.
is_available(agent) == agent.status \in {"Idle", "Registered"}

\* AgentDescriptor::supports.
supports(agent, required) == required \subseteq capabilities(agent.type)
=============================================================================
