----------------------------- MODULE TokenBucket -----------------------------
(***************************************************************************)
(* What a token bucket promises its callers, with no clock arithmetic: the *)
(* level fills as time passes, never above the capacity, and a call is     *)
(* admitted exactly when a whole token is there.  RateLimiter.tla shows    *)
(* that the lazy refill of src/core/rate_limit.rs implements it, and the   *)
(* pipeline composes with it in place of the limiter.                      *)
(*                                                                         *)
(* Tokens are counted in sub-tokens, Unit of them to a token: the code     *)
(* keeps a fractional f64 so that a fraction of a second is credited.      *)
(***************************************************************************)
EXTENDS Integers

CONSTANTS
    Full,   \* sub-tokens of a full bucket
    Unit,   \* sub-tokens of one token
    Rate    \* sub-tokens that flow in per tick

VARIABLES
    level,  \* sub-tokens available now
    reply   \* <<operation, result>> of the latest call

bucketVars == <<level, reply>>

AtMost(x, hi) == IF x > hi THEN hi ELSE x

Init ==
    /\ level = Full
    /\ reply = <<"none", 0>>

Elapse ==
    /\ level' = AtMost(level + Rate, Full)
    /\ UNCHANGED reply

Grant ==
    /\ level >= Unit
    /\ level' = level - Unit
    /\ reply' = <<"try_acquire", 1>>

Refuse ==
    /\ level < Unit
    /\ reply' = <<"try_acquire", 0>>
    /\ UNCHANGED level

Observe ==
    /\ reply' = <<"available_tokens", level \div Unit>>
    /\ UNCHANGED level

Next == Elapse \/ Grant \/ Refuse \/ Observe

Spec == Init /\ [][Next]_bucketVars
=============================================================================
