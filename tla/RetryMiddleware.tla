--------------------------- MODULE RetryMiddleware ---------------------------
(***************************************************************************)
(* RetryMiddleware and its builder (core/retry.rs) on one request: how     *)
(* often the wrapped middleware is invoked, how long the loop sleeps in    *)
(* between, and what it returns.  Pipeline has the same loop as a stage    *)
(* among others, without the delays.                                       *)
(***************************************************************************)
EXTENDS Naturals, Sequences

CONSTANTS
    MaxMillis,      \* u64::MAX
    Millis,         \* delays and bases given to the builder
    Limits,         \* max_attempts given to the builder
    Predicates,     \* predicates given to the builder: what they accept
    Nanos,          \* readings of the clock that jitter is taken from
    MaxSettings     \* bound on calls of the builder

ASSUME MillisAssumption ==
    MaxMillis \in Nat /\ Millis \subseteq 0..MaxMillis /\ Nanos \subseteq Nat
ASSUME LimitAssumption == Limits \subseteq Nat \ {0}  \* max_attempts panics on 0

VARIABLES
    policy,         \* max_attempts, backoff, and the errors retried
    settings,       \* calls of the builder so far
    loop,           \* the loop: "built", "calling", "sleeping" or the outcome
    errors,         \* what the wrapped middleware returned, call by call
    waits           \* how long the loop slept after each

retryVars == <<policy, settings, loop, errors, waits>>

-----------------------------------------------------------------------------
\* GatewayError and is_retryable.
GatewayError ==
    {"connection_failed", "authentication_failed", "not_found", "conflict",
     "validation", "rate_limit_exceeded", "timeout", "not_supported", "io",
     "serialization", "backend", "internal", "already_exists",
     "permission_denied", "unavailable", "configuration"}

IsRetryable == {"connection_failed", "rate_limit_exceeded", "timeout", "unavailable"}

\* u64 arithmetic.  A slip: the product wraps.
Capped(n) == IF n > MaxMillis THEN MaxMillis ELSE n
SaturatingPow2(n) == Capped(2 ^ n)
SaturatingAdd(a, b) == Capped(a + b)
WrappingMul(a, b) == (a * b) % (MaxMillis + 1)
SaturatingMul(a, b) == Capped(a * b)

Fixed(delay) == [kind |-> "fixed", millis |-> delay, jitter |-> FALSE]
Exponential(base, jitter) == [kind |-> "exponential", millis |-> base, jitter |-> jitter]

\* What compute_delay may answer for the zero-based attempt.
ComputeDelay(backoff, n) ==
    LET delay == SaturatingMul(backoff.millis, SaturatingPow2(n))
        jitters == IF delay > 0 THEN {k % delay : k \in Nanos} ELSE {0}
    IN  IF backoff.kind = "fixed" THEN {backoff.millis}
        ELSE IF backoff.jitter THEN {SaturatingAdd(delay, j) : j \in jitters}
        ELSE {delay}

-----------------------------------------------------------------------------
RetryInit ==
    /\ policy \in {[max |-> 3, backoff |-> Exponential(m, TRUE), retried |-> IsRetryable] :
                      m \in Millis}
    /\ settings = 0
    /\ loop = "builder"
    /\ errors = <<>>
    /\ waits = <<>>

Set(p) ==
    /\ loop = "builder" /\ settings < MaxSettings
    /\ settings' = settings + 1
    /\ policy' = p
    /\ UNCHANGED <<loop, errors, waits>>

SetMaxAttempts == \E n \in Limits : Set([policy EXCEPT !.max = n])
FixedBackoff == \E d \in Millis : Set([policy EXCEPT !.backoff = Fixed(d)])
ExponentialBackoff ==
    \E b \in Millis, j \in BOOLEAN : Set([policy EXCEPT !.backoff = Exponential(b, j)])
RetryPredicate == \E accepted \in Predicates : Set([policy EXCEPT !.retried = accepted])

BuildWith ==
    /\ loop = "builder"
    /\ loop' = "calling"
    /\ UNCHANGED <<policy, settings, errors, waits>>

InnerSucceeds ==
    /\ loop = "calling"
    /\ loop' = "ok"
    /\ UNCHANGED <<policy, settings, errors, waits>>

\* The last attempt's error and one the predicate does not accept end the loop.
InnerFails(e) ==
    /\ loop = "calling"
    /\ errors' = Append(errors, e)
    /\ IF Len(errors) + 1 >= policy.max \/ e \notin policy.retried
       THEN loop' = e /\ UNCHANGED waits
       ELSE /\ loop' = "sleeping"
            /\ \E d \in ComputeDelay(policy.backoff, Len(errors)) : waits' = Append(waits, d)
    /\ UNCHANGED <<policy, settings>>

Awake ==
    /\ loop = "sleeping"
    /\ loop' = "calling"
    /\ UNCHANGED <<policy, settings, errors, waits>>

RetryNext ==
    \/ SetMaxAttempts \/ FixedBackoff \/ ExponentialBackoff \/ RetryPredicate
    \/ BuildWith
    \/ InnerSucceeds \/ (\E e \in GatewayError : InnerFails(e)) \/ Awake

RetrySpec == RetryInit /\ [][RetryNext]_retryVars
-----------------------------------------------------------------------------
\* However often and with whatever base the loop backs off, the n-th wait is at
\* least base * 2^(n-1), or the longest there is, and with jitter at most twice
\* that; there is one wait between two calls, each after an error the predicate
\* accepts, and the caller is given the error of the last call.
BacksOff ==
    /\ \A n \in DOMAIN waits :
          LET exact == IF policy.backoff.kind = "fixed" THEN policy.backoff.millis
                       ELSE policy.backoff.millis * 2 ^ (n - 1)
          IN  /\ waits[n] >= exact \/ waits[n] = MaxMillis
              /\ waits[n] <= (IF policy.backoff.jitter THEN 2 ELSE 1) * exact
              /\ errors[n] \in policy.retried
    /\ loop \in GatewayError =>
          /\ loop = errors[Len(errors)]
          /\ Len(waits) = Len(errors) - 1
          /\ Len(errors) <= policy.max
=============================================================================
