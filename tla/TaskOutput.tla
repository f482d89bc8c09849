---------------------------- MODULE TaskOutput -----------------------------
(***************************************************************************)
(* What an agent makes of a model's answer: the mechanical checks          *)
(* (crates/domain/src/task.rs) and the tolerant parser                     *)
(* (crates/agent-runtime/src/lib.rs).  An answer is what these look at:    *)
(*   shape       "prose" (no JSON), "json" (JSON, no object) or "object"   *)
(*   keys        the keys of the object                                    *)
(*   confidence  the number under "confidence", in percent: a singleton,   *)
(*               or empty where there is none                              *)
(*   words       how many words it has                                     *)
(*   mentions    the needles it contains                                   *)
(***************************************************************************)
EXTENDS Integers

Half == 50
Clamp(n) == IF n < 0 THEN 0 ELSE IF n > 100 THEN 100 ELSE n

\* ValidationRule.
NonEmpty == [rule |-> "non_empty"]
MinWords(n) == [rule |-> "min_words", least |-> n]
MustMention(needle) == [rule |-> "must_mention", needle |-> needle]
RequiredJsonKeys(keys) == [rule |-> "required_json_keys", keys |-> keys]

\* ValidationRule::check, as the answers it accepts.
Accepts(r, a) ==
    CASE r.rule = "non_empty" -> a.words > 0
      [] r.rule = "min_words" -> a.words >= r.least
      [] r.rule = "must_mention" -> r.needle \in a.mentions
      [] r.rule = "required_json_keys" -> a.shape = "object" /\ r.keys \subseteq a.keys

\* The failures validate_output collects.
validate_output(a, rules) == {r \in rules : ~ Accepts(r, a)}

\* decompose.rs: the checks a task of each kind must pass.
validation_for(kind) ==
    {NonEmpty, RequiredJsonKeys({"summary", "confidence"})} \cup
    CASE kind \in {"plan", "subplan", "supervise"} -> {MinWords(10)}
      [] kind \in {"work", "map", "answer", "critique"} -> {MinWords(15)}
      [] kind \in {"merge", "reduce", "summarize", "judge"} -> {MinWords(12)}
      [] OTHER -> {}

\* ParsedOutput::from_text: prose, and JSON without a number, count as half.
ParsedConfidence(a) ==
    IF a.shape # "object" \/ a.confidence = {} THEN Half
    ELSE Clamp(CHOOSE n \in a.confidence : TRUE)
=============================================================================
