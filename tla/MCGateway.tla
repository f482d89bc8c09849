------------------------------ MODULE MCGateway ----------------------------
(* Two callers, two providers, two models: the first model has a limit of  *)
(* one, the second can fall back to the second provider.                   *)
EXTENDS Gateway

MCProviders == <<"primary", "backup">>
MCSupports == [p \in {"primary", "backup"} |->
                  IF p = "primary" THEN {"m1", "m2"} ELSE {"m2"}]
MCCost == [m \in {"m1", "m2"} |-> 1]
MCModelLimit == [m \in {"m1", "m2"} |-> IF m = "m1" THEN 1 ELSE NoLimit]

Ask(kind, model, options, bypass) ==
    [kind |-> kind, model |-> model, prompt |-> "q", options |-> options, bypass |-> bypass]

MCAsks == [c \in Callers |->
    {Ask("complete", "m2", "plain", FALSE)} \cup
    IF c = "c1"
      THEN {Ask("complete", "m1", "plain", FALSE), Ask("health", "m1", "plain", FALSE)}
      ELSE {Ask("complete", "m1", "json", TRUE), Ask("stream", "m1", "plain", FALSE)}]
=============================================================================
