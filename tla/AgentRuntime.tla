---------------------------- MODULE AgentRuntime ---------------------------
(***************************************************************************)
(* Agent::execute (crates/agent-runtime/src/lib.rs): deliveries of tasks,  *)
(* duplicates and retries among them, running side by side against one     *)
(* shared memory.  Every call into the memory or the gateway is a step of  *)
(* its own, and the engine may drop a delivery between any two of them:    *)
(* it wraps execute in a timeout and a cancellation                        *)
(* (crates/coordinator/src/engine.rs).                                     *)
(***************************************************************************)
EXTENDS MemoryStore, TaskOutput, Sequences, FiniteSets

CONSTANTS
    Tasks, Deliveries,
    TaskOf,     \* [Deliveries -> Tasks]
    AttemptOf,  \* [Deliveries -> 1..], the attempt the queue handed out
    RulesOf,    \* [Tasks -> sets of validation rules]
    Answers     \* what the model may answer

ASSUME AgentRuntimeAssumption ==
    /\ TaskOf \in [Deliveries -> Tasks]
    /\ AttemptOf \in [Deliveries -> Nat \ {0}]
    /\ {"none", "pending", "unanswered"} \cap Deliveries = {}

VARIABLES
    store,      \* the shared memory
    pc,         \* where a delivery stands in execute
    answer,     \* the model's answer to the delivery
    reply,      \* what execute returned
    calls       \* ghost: the deliveries that called the model

vars == <<store, pc, answer, reply, calls>>

\* ns::executions, results and checkpoints.  A claim is keyed by attempt_key,
\* which is the task's own key and the attempt; a result by the task.
ClaimKey(d) == <<"executions", TaskOf[d], AttemptOf[d]>>
ResultKey(t) == <<"results", t>>
CheckpointKey(d, seq) == <<"checkpoints", TaskOf[d], AttemptOf[d], seq>>

StoreKeys ==
    {ClaimKey(d) : d \in Deliveries} \cup {ResultKey(t) : t \in Tasks} \cup
    {CheckpointKey(d, seq) : d \in Deliveries, seq \in 0..2}

\* Nothing the runtime writes has a lifetime, so the clock does not matter.
Entry(v) == [job |-> "job", value |-> v, ttl |-> NoTtl]
Held(k) == Visible(store[k], 0)
put(k, v) == store' = [store EXCEPT ![k] = Written(@, Entry(v), 1, 0)]

\* MemoryStore::claim: a compare_and_swap against VERSION_ABSENT.
CanClaim(k) == CurrentVersion(store[k], 0) = VERSION_ABSENT

\* Results carry the delivery that produced them.
Result(d) == [by |-> d, answer |-> answer[d], confidence |-> ParsedConfidence(answer[d])]
Stored(t) == Held(ResultKey(t))
Winner(t) == store[ResultKey(t)].value.by

Pending == [kind |-> "pending"]
Error == [kind |-> "error"]
Ok(d, valid, deduplicated) ==
    [kind |-> "ok", by |-> d, valid |-> valid, deduplicated |-> deduplicated]

NoAnswer == [shape |-> "prose", keys |-> {}, confidence |-> {}, words |-> 0, mentions |-> {}]
Passed(d) == validate_output(answer[d], RulesOf[TaskOf[d]]) = {}

Steps == {"look", "claim", "recheck", "started", "call", "calling", "responded",
          "publish", "adopt", "completed"}

TypeOK ==
    /\ pc \in [Deliveries -> {"queued", "done", "dropped"} \cup Steps]
    /\ answer \in [Deliveries -> Answers \cup {NoAnswer}]
    /\ DOMAIN store = StoreKeys
    /\ \A t \in Tasks : Stored(t) => Winner(t) \in Deliveries
    /\ \A d \in Deliveries : reply[d].kind \in {"pending", "error", "ok"}

Init ==
    /\ store = [k \in StoreKeys |-> Vacant]
    /\ pc = [d \in Deliveries |-> "queued"]
    /\ answer = [d \in Deliveries |-> NoAnswer]
    /\ reply = [d \in Deliveries |-> Pending]
    /\ calls = {}

Goto(d, step) == pc' = [pc EXCEPT ![d] = step]
Return(d, r) == Goto(d, "done") /\ reply' = [reply EXCEPT ![d] = r]
ReturnStored(d) == Return(d, Ok(Winner(TaskOf[d]), TRUE, TRUE))

\* The engine dispatches the delivery.
Deliver(d) ==
    /\ pc[d] = "queued"
    /\ Goto(d, "look")
    /\ UNCHANGED <<store, answer, reply, calls>>

\* A result that is already there answers the delivery.
Look(d) ==
    /\ pc[d] = "look"
    /\ \/ Stored(TaskOf[d]) /\ ReturnStored(d)
       \/ ~ Stored(TaskOf[d]) /\ Goto(d, "claim") /\ UNCHANGED reply
    /\ UNCHANGED <<store, answer, calls>>

ClaimFreely(d) ==
    /\ pc[d] = "claim"
    /\ put(ClaimKey(d), d) /\ Goto(d, "started")
    /\ UNCHANGED <<answer, reply, calls>>

\* The attempt is claimed before any side effect.
ClaimAttempt(d) ==
    /\ pc[d] = "claim"
    /\ \/ CanClaim(ClaimKey(d)) /\ put(ClaimKey(d), d) /\ Goto(d, "started")
       \/ ~ CanClaim(ClaimKey(d)) /\ Goto(d, "recheck") /\ UNCHANGED store
    /\ UNCHANGED <<answer, reply, calls>>

\* Another delivery holds the attempt: its result, if it is there by now, or
\* an error.
Recheck(d) ==
    /\ pc[d] = "recheck"
    /\ \/ Stored(TaskOf[d]) /\ ReturnStored(d)
       \/ ~ Stored(TaskOf[d]) /\ Return(d, Error)
    /\ UNCHANGED <<store, answer, calls>>

\* Agent::checkpoint.
Checkpoint(d, seq, validated) ==
    put(CheckpointKey(d, seq), [attempt |-> AttemptOf[d], seq |-> seq, validated |-> validated])

CheckpointStarted(d) ==
    /\ pc[d] = "started"
    /\ Checkpoint(d, 0, FALSE) /\ Goto(d, "call")
    /\ UNCHANGED <<answer, reply, calls>>

CallModel(d) ==
    /\ pc[d] = "call"
    /\ Goto(d, "calling")
    /\ calls' = calls \cup {d}
    /\ UNCHANGED <<store, answer, reply>>

ModelAnswers(d) ==
    /\ pc[d] = "calling"
    /\ \E a \in Answers : answer' = [answer EXCEPT ![d] = a]
    /\ Goto(d, "responded")
    /\ UNCHANGED <<store, reply, calls>>

ModelFails(d) ==
    /\ pc[d] = "calling"
    /\ Return(d, Error)
    /\ UNCHANGED <<store, answer, calls>>

\* The answer is checked; only one that passes is published.
CheckpointResponded(d) ==
    /\ pc[d] = "responded"
    /\ Checkpoint(d, 1, FALSE)
    /\ Goto(d, IF Passed(d) THEN "publish" ELSE "completed")
    /\ UNCHANGED <<answer, reply, calls>>

PublishOver(d) ==
    /\ pc[d] = "publish"
    /\ put(ResultKey(TaskOf[d]), Result(d)) /\ Goto(d, "completed")
    /\ UNCHANGED <<answer, reply, calls>>

PublishWaits(d) ==
    /\ pc[d] = "publish"
    /\ ~ CanClaim(ResultKey(TaskOf[d]))
    /\ Goto(d, "adopt")
    /\ UNCHANGED <<store, answer, reply, calls>>

\* The first validated answer becomes the task's result.
Publish(d) ==
    /\ pc[d] = "publish"
    /\ LET k == ResultKey(TaskOf[d])
       IN  \/ CanClaim(k) /\ put(k, Result(d)) /\ Goto(d, "completed")
           \/ ~ CanClaim(k) /\ Goto(d, "adopt") /\ UNCHANGED store
    /\ UNCHANGED <<answer, reply, calls>>

\* Another delivery published first; its result is returned.
Adopt(d) ==
    /\ pc[d] = "adopt"
    /\ IF Stored(TaskOf[d]) THEN ReturnStored(d)
       ELSE Goto(d, "completed") /\ UNCHANGED reply
    /\ UNCHANGED <<store, answer, calls>>

CheckpointCompleted(d) ==
    /\ pc[d] = "completed"
    /\ Checkpoint(d, 2, Passed(d))
    /\ Return(d, Ok(d, Passed(d), FALSE))
    /\ UNCHANGED <<answer, calls>>

\* The engine drops the future: the timeout elapsed, or the job was cancelled.
Drop(d) ==
    /\ pc[d] \in Steps
    /\ Goto(d, "dropped")
    /\ UNCHANGED <<store, answer, reply, calls>>

Step(d) ==
    \/ Look(d) \/ ClaimAttempt(d) \/ Recheck(d) \/ CheckpointStarted(d) \/ CallModel(d)
    \/ ModelAnswers(d) \/ ModelFails(d) \/ CheckpointResponded(d)
    \/ Publish(d) \/ Adopt(d) \/ CheckpointCompleted(d)

Next == \E d \in Deliveries : Deliver(d) \/ Step(d) \/ Drop(d)

Spec == Init /\ [][Next]_vars

\* A dispatched delivery is driven by join_all until it ends or is dropped.
FairSpec == Spec /\ \A d \in Deliveries : WF_vars(Step(d))
-----------------------------------------------------------------------------
\* An attempt calls the model at most once, however often it is delivered.
CalledOncePerAttempt ==
    \A d, e \in calls : TaskOf[d] = TaskOf[e] /\ AttemptOf[d] = AttemptOf[e] => d = e

\* A published result passed its task's checks, and the confidence the
\* aggregator will average is a percentage, whatever number the model gave.
PublishedSound ==
    \A t \in Tasks : Stored(t) =>
        LET r == store[ResultKey(t)].value
        IN  validate_output(r.answer, RulesOf[t]) = {} /\ r.confidence \in 0..100

\* An answer that passes its checks settles the task unless the delivery is
\* dropped: no holder of a claim, dead or alive, stands in its way.
AnswerSettles ==
    \A d \in Deliveries :
        (pc[d] = "responded" /\ Passed(d)) ~> (Stored(TaskOf[d]) \/ pc[d] = "dropped")

\* The register as the store and the replies show it.
ChosenBar == [t \in Tasks |-> IF Stored(t) THEN Winner(t) ELSE "none"]
ReplyBar ==
    [d \in Deliveries |->
        CASE reply[d].kind = "ok" /\ reply[d].valid -> reply[d].by
          [] pc[d] \in {"queued"} \cup Steps -> "pending"
          [] OTHER -> "unanswered"]

Register == INSTANCE AnswerRegister WITH chosen <- ChosenBar, reply <- ReplyBar

\* Whatever is delivered twice, retried, dropped or overtaken, the runtime
\* implements a register that is written once per task: two deliveries that
\* return a validated result return the same one.
ImplementsRegister == Register!Spec
=============================================================================
