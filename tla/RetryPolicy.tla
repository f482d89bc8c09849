---------------------------- MODULE RetryPolicy ----------------------------
(***************************************************************************)
(* How often, and how patiently, a failed task is retried                  *)
(* (crates/domain/src/task.rs, RetryPolicy).  Times are in clock units.    *)
(***************************************************************************)
EXTENDS Integers

CONSTANTS
    MaxAttempts,     \* max_attempts: attempts allowed, the first included
    BackoffBase,     \* backoff_base_ms
    BackoffMax,      \* backoff_max_ms
    Jitter           \* jitter: spread the retries out

ASSUME RetryPolicyAssumption ==
    /\ MaxAttempts \in Nat
    /\ BackoffBase \in Nat
    /\ BackoffMax \in Nat
    /\ Jitter \in BOOLEAN

\* A fact of arithmetic the provers lack; TLC evaluates all of it.
ASSUME PowersOfTwo == \A n \in 0..20 : 2^n \in Nat \ {0}

\* Mutant of AllowsRetry: one attempt too many.
AllowsRetryOneMore(attempts) == attempts <= MaxAttempts

\* Another attempt is permitted after this many attempts.
AllowsRetry(attempts) == attempts < MaxAttempts

\* The exponent: attempts above 20 share the last one, attempt 0 counts as 1.
Shift(attempt) == IF attempt > 20 THEN 20 ELSE IF attempt = 0 THEN 0 ELSE attempt - 1

\* The backoff before jitter.  The product saturates at u64::MAX in the code,
\* which the ceiling, a u64 itself, makes indistinguishable from no overflow.
Capped(attempt) ==
    LET raw == BackoffBase * 2^Shift(attempt)
    IN  IF raw > BackoffMax THEN BackoffMax ELSE raw

\* Backoff before the next attempt; the nonce supplies the jitter.
BackoffMs(attempt, nonce) ==
    LET capped == Capped(attempt)
        half   == capped \div 2
    IN  IF BackoffBase = 0 THEN 0
        ELSE IF ~Jitter \/ capped = 0 THEN capped
        ELSE half + (nonce % (capped - half + 1))

\* Nonces that between them produce every jittered value.
Nonces == 0..BackoffMax
=============================================================================
