-------------------------- MODULE MCAgentRuntime ---------------------------
(***************************************************************************)
(* A small instance of AgentRuntime: one task, its first attempt delivered *)
(* twice and its second attempt once.  The model may answer in prose, or   *)
(* with a confidence beyond its range.                                     *)
(***************************************************************************)
EXTENDS AgentRuntime, TLC

CONSTANTS t, d1, d2, d3

AllOneTask == [d \in Deliveries |-> t]
Attempts == (d1 :> 1) @@ (d2 :> 1) @@ (d3 :> 2)
WorkRules == [x \in Tasks |-> validation_for("work")]

Reply(shape, keys, confidence) ==
    [shape |-> shape, keys |-> keys, confidence |-> confidence, words |-> 20, mentions |-> {}]
SampleAnswers ==
    {Reply("object", {"summary", "confidence"}, {120}), Reply("prose", {}, {})}
=============================================================================
