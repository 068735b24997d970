----------------------------- MODULE RateLimiter -----------------------------
(***************************************************************************)
(* The token-bucket rate limiter of src/core/rate_limit.rs.                *)
(*                                                                         *)
(* The bucket is refilled lazily: nothing happens while time passes, and   *)
(* every call, admitted or not, first credits the time since last_refill.  *)
(* A call runs under the mutex from reading the clock to leaving, so calls *)
(* of concurrent tasks are atomic steps and the caller needs no identity.  *)
(*                                                                         *)
(* Abstractions: f64 tokens are integers in sub-tokens (Unit to a token),  *)
(* the refill rate is sub-tokens per tick of the clock; rounding of f64 is *)
(* not modelled.                                                           *)
(***************************************************************************)
EXTENDS Integers, Sequences

CONSTANTS
    CapacityArg,    \* the argument of capacity()
    RateArg,        \* the argument of refill_rate(); may be zero or negative
    MIN_REFILL_RATE,
    Unit,           \* sub-tokens per token
    MaxTime         \* bound on the clock

ASSUME BuilderArguments ==
    /\ CapacityArg \in Nat
    /\ RateArg \in Int
    /\ MIN_REFILL_RATE \in Nat \ {0}
    /\ Unit \in Nat \ {0}
    /\ MaxTime \in Nat

VARIABLES
    now,            \* the monotonic clock, Instant::now()
    tokens,         \* BucketState::tokens, in sub-tokens
    last_refill,    \* BucketState::last_refill
    reply,          \* <<operation, result>> of the latest call
    grants          \* history: the times at which tokens were handed out

limiterVars == <<now, tokens, last_refill, reply, grants>>

AtLeast(x, lo) == IF x < lo THEN lo ELSE x
AtMost(x, hi) == IF x > hi THEN hi ELSE x

\* RateLimiterBuilder clamps what it is given.
capacity == AtLeast(CapacityArg, 1)
refill_rate == AtLeast(RateArg, MIN_REFILL_RATE)
Full == capacity * Unit

-----------------------------------------------------------------------------
\* The next three and AvailableRoundedUp are slips that a change to the code
\* could make; PROJECT.json pairs each with the property that catches it.

\* The .min(capacity) is lost.
RefilledUncapped == tokens + (now - last_refill) * refill_rate

\* The tokens after crediting the time since the last refill.
Refilled == AtMost(tokens + (now - last_refill) * refill_rate, Full)

\* The refill is stamped but not stored.
SettleUncredited ==
    /\ tokens' = tokens
    /\ last_refill' = now

\* A call that takes no token only settles the refill.
SettleRefill ==
    /\ tokens' = Refilled
    /\ last_refill' = now

LimiterInit ==
    /\ now = 0
    /\ tokens = Full
    /\ last_refill = 0
    /\ reply = <<"none", 0>>
    /\ grants = <<>>

Tick ==
    /\ now < MaxTime
    /\ now' = now + 1
    /\ UNCHANGED <<tokens, last_refill, reply, grants>>

\* The clock is read before the mutex is taken: other calls may have refilled
\* at a later time, and duration_since is then zero.
AcquireStamped(t) ==
    LET refilled == AtMost(tokens + AtLeast(t - last_refill, 0) * refill_rate, Full)
    IN  /\ refilled >= Unit
        /\ tokens' = refilled - Unit
        /\ last_refill' = t
        /\ reply' = <<"try_acquire", 1>>
        /\ grants' = Append(grants, now)
        /\ UNCHANGED now

AcquireBeforeLock == \E t \in 0..now : AcquireStamped(t)

\* try_acquire(), also the whole of process_request(): Ok(()) ...
Acquire ==
    /\ Refilled >= Unit
    /\ tokens' = Refilled - Unit
    /\ last_refill' = now
    /\ reply' = <<"try_acquire", 1>>
    /\ grants' = Append(grants, now)
    /\ UNCHANGED now

\* ... or Err(RateLimitExceeded), which still keeps the refill.
Refuse ==
    /\ Refilled < Unit
    /\ SettleRefill
    /\ reply' = <<"try_acquire", 0>>
    /\ UNCHANGED <<now, grants>>

AvailableRoundedUp ==
    /\ SettleRefill
    /\ reply' = <<"available_tokens", (Refilled + Unit - 1) \div Unit>>
    /\ UNCHANGED <<now, grants>>

\* available_tokens() refills too, and reports whole tokens.
AvailableTokens ==
    /\ SettleRefill
    /\ reply' = <<"available_tokens", Refilled \div Unit>>
    /\ UNCHANGED <<now, grants>>

LimiterNext == Tick \/ Acquire \/ Refuse \/ AvailableTokens

LimiterSpec == LimiterInit /\ [][LimiterNext]_limiterVars

-----------------------------------------------------------------------------
LimiterTypeOK ==
    /\ now \in Nat
    /\ tokens \in 0..Full
    /\ last_refill \in 0..now
    /\ reply \in {"none", "try_acquire", "available_tokens"} \X Nat
    /\ grants \in Seq(0..now)

(***************************************************************************)
(* The guarantee of a token bucket (rate_limit.rs, try_acquire): over any  *)
(* window between two grants, no more tokens are handed out than a full    *)
(* bucket holds plus what flowed in during the window.                     *)
(***************************************************************************)
WindowBound ==
    \A i, j \in 1..Len(grants) :
        i <= j => (j - i + 1) * Unit
                    <= Full + (grants[j] - grants[i]) * refill_rate

\* What the window that opens at the i-th grant still allows.
Allowance(i) ==
    Full + (now - grants[i]) * refill_rate - (Len(grants) - i + 1) * Unit

(***************************************************************************)
(* The bucket is never stingy either: what is available is exactly what    *)
(* the tightest window still allows, however often the bucket was polled,  *)
(* refused or read in between.  A refusal therefore always has a saturated *)
(* window to show for it.                                                  *)
(***************************************************************************)
AvailableIsTightestWindow ==
    /\ \A i \in 1..Len(grants) : Refilled <= Allowance(i)
    /\ \/ Refilled = Full
       \/ \E i \in 1..Len(grants) : Refilled = Allowance(i)

(***************************************************************************)
(* The lazy refill of rate_limit.rs implements the bucket that fills as    *)
(* time passes: no caller can tell when the crediting was done.            *)
(***************************************************************************)
Bucket == INSTANCE TokenBucket WITH
              Rate <- refill_rate, level <- Refilled

ImplementsTokenBucket == Bucket!Spec
=============================================================================
