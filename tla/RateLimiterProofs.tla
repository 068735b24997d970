-------------------------- MODULE RateLimiterProofs --------------------------
(***************************************************************************)
(* Proofs about RateLimiter for every capacity, refill rate and clock      *)
(* bound: its types, the window bound, and that the lazy refill implements *)
(* TokenBucket.                                                            *)
(***************************************************************************)
EXTENDS RateLimiter, SequenceTheorems, TLAPS

(***************************************************************************)
(* The builder's clamps leave a bucket that can hold a token and fills.    *)
(***************************************************************************)
LEMMA ParametersClamped ==
    /\ capacity \in Nat \ {0}
    /\ refill_rate \in Nat \ {0}
    /\ Full \in Nat
    /\ Unit \in Nat \ {0}
    /\ Unit <= Full
<1>1. capacity \in Nat \ {0} /\ refill_rate \in Nat \ {0}
  BY BuilderArguments DEF capacity, refill_rate, AtLeast
<1>2. \A c, u \in Nat \ {0} : c * u \in Nat /\ u <= c * u
  OBVIOUS
<1> QED
  BY <1>1, <1>2, BuilderArguments DEF Full

(***************************************************************************)
(* What flows in during a time: it adds up over consecutive times.         *)
(***************************************************************************)
LEMMA InflowAdds ==
    ASSUME NEW a \in Int, NEW b \in Int, NEW c \in Int
    PROVE  /\ (b - a) * refill_rate \in Int
           /\ (c - a) * refill_rate
                = (b - a) * refill_rate + (c - b) * refill_rate
           /\ a <= b => (b - a) * refill_rate >= 0
<1>1. \A r \in Nat : /\ (b - a) * r \in Int
                     /\ (c - a) * r = (b - a) * r + (c - b) * r
                     /\ a <= b => (b - a) * r >= 0
  OBVIOUS
<1> QED
  BY <1>1, ParametersClamped

\* The refill never exceeds a full bucket, and never takes tokens away.
LEMMA RefilledType ==
    ASSUME LimiterTypeOK
    PROVE  /\ Refilled \in 0..Full
           /\ Refilled >= tokens
<1>1. now \in Int /\ last_refill \in Int /\ last_refill <= now /\ tokens \in 0..Full
  BY DEF LimiterTypeOK
<1>2. (now - last_refill) * refill_rate >= 0 /\ (now - last_refill) * refill_rate \in Int
  BY <1>1, InflowAdds
<1> QED
  BY <1>1, <1>2, ParametersClamped DEF Refilled, AtMost

(***************************************************************************)
(* Between nothing and a full bucket of tokens, whatever the builder was   *)
(* given, and never a refill stamped in the future.                        *)
(***************************************************************************)
THEOREM TypeCorrect == LimiterSpec => []LimiterTypeOK
<1>1. LimiterInit => LimiterTypeOK
  BY ParametersClamped DEF LimiterInit, LimiterTypeOK
<1>2. LimiterTypeOK /\ [LimiterNext]_limiterVars => LimiterTypeOK'
  <2> SUFFICES ASSUME LimiterTypeOK, [LimiterNext]_limiterVars
               PROVE  LimiterTypeOK'
    OBVIOUS
  <2>1. Refilled \in 0..Full
    BY RefilledType
  <2> USE ParametersClamped DEF LimiterTypeOK
  <2>2. CASE Tick
    BY <2>2 DEF Tick
  <2>3. CASE Acquire
    <3>1. tokens' \in 0..Full
      BY <2>1, <2>3 DEF Acquire
    <3>2. grants' \in Seq(0..now)
      BY <2>3 DEF Acquire
    <3> QED
      BY <2>3, <3>1, <3>2 DEF Acquire
  <2>4. CASE Refuse
    BY <2>1, <2>4 DEF Refuse, SettleRefill
  <2>5. CASE AvailableTokens
    <3>1. Refilled \div Unit \in Nat
      BY <2>1
    <3> QED
      BY <2>1, <2>5, <3>1 DEF AvailableTokens, SettleRefill
  <2>6. CASE UNCHANGED limiterVars
    BY <2>6 DEF limiterVars
  <2> QED
    BY <2>2, <2>3, <2>4, <2>5, <2>6 DEF LimiterNext
<1> QED
  BY <1>1, <1>2, PTL DEF LimiterSpec

-----------------------------------------------------------------------------
(***************************************************************************)
(* The inductive invariant.  AvailableIsTightestWindow speaks of the       *)
(* present moment; between calls only the settled tokens are stored, so    *)
(* the invariant says the same of last_refill, and every grant was made    *)
(* no later than that.                                                     *)
(***************************************************************************)
SettledAllowance(i) ==
    Full + (last_refill - grants[i]) * refill_rate - (Len(grants) - i + 1) * Unit

IInv ==
    /\ LimiterTypeOK
    /\ \A i \in 1..Len(grants) : grants[i] <= last_refill
    /\ \A i \in 1..Len(grants) : tokens <= SettledAllowance(i)
    /\ tokens = Full \/ \E i \in 1..Len(grants) : tokens = SettledAllowance(i)
    /\ WindowBound

\* One more grant costs one more token.
LEMMA GrantCost ==
    ASSUME NEW k \in Int
    PROVE  k * Unit \in Int /\ (k + 1) * Unit = k * Unit + Unit
BY BuilderArguments

(***************************************************************************)
(* Settling at the present moment turns the settled allowances into the    *)
(* present ones.                                                           *)
(***************************************************************************)
LEMMA Tightest == IInv => AvailableIsTightestWindow
<1> SUFFICES ASSUME IInv PROVE AvailableIsTightestWindow
  OBVIOUS
<1> DEFINE inflow == (now - last_refill) * refill_rate
<1>1. /\ now \in Int /\ last_refill \in Int /\ last_refill <= now
      /\ tokens \in Int /\ tokens <= Full /\ Full \in Int
      /\ Len(grants) \in Nat
  BY ParametersClamped DEF IInv, LimiterTypeOK
<1>2. inflow \in Int /\ inflow >= 0
  BY <1>1, InflowAdds
<1>3. ASSUME NEW i \in 1..Len(grants)
      PROVE  /\ grants[i] \in Int
             /\ Allowance(i) \in Int
             /\ SettledAllowance(i) \in Int
             /\ Allowance(i) = SettledAllowance(i) + inflow
  <2>1. grants[i] \in Int
    BY DEF IInv, LimiterTypeOK
  <2> DEFINE now_flow == (now - grants[i]) * refill_rate
             settled_flow == (last_refill - grants[i]) * refill_rate
             cost == (Len(grants) - i + 1) * Unit
  <2>2. now_flow = settled_flow + inflow /\ settled_flow \in Int
    BY <1>1, <2>1, InflowAdds
  <2>3. Len(grants) - i + 1 \in Int
    BY <1>1
  <2>4. cost \in Int
    BY <2>3, GrantCost
  <2>5. Allowance(i) = Full + now_flow - cost
    BY DEF Allowance
  <2>6. SettledAllowance(i) = Full + settled_flow - cost
    BY DEF SettledAllowance
  <2> HIDE DEF inflow, now_flow, settled_flow, cost
  <2> QED
    BY <1>1, <1>2, <2>1, <2>2, <2>4, <2>5, <2>6
<1>4. Refilled = AtMost(tokens + inflow, Full)
  BY DEF Refilled
<1> HIDE DEF inflow
<1>5. ASSUME NEW i \in 1..Len(grants)
      PROVE  Refilled <= Allowance(i)
  BY <1>1, <1>2, <1>3, <1>4 DEF IInv, AtMost
<1>6. Refilled = Full \/ \E i \in 1..Len(grants) : Refilled = Allowance(i)
  <2>1. CASE tokens = Full
    BY <1>1, <1>2, <1>4, <2>1 DEF AtMost
  <2>2. CASE tokens # Full
    <3>1. PICK i \in 1..Len(grants) : tokens = SettledAllowance(i)
      BY <2>2 DEF IInv
    <3> QED
      BY <1>1, <1>2, <1>3, <1>4, <3>1 DEF AtMost
  <2> QED
    BY <2>1, <2>2
<1> QED
  BY <1>5, <1>6 DEF AvailableIsTightestWindow

(***************************************************************************)
(* A call that only settles moves the windows' closing time to now.        *)
(***************************************************************************)
LEMMA SettlePreserves ==
    ASSUME IInv, LimiterTypeOK', SettleRefill, UNCHANGED <<now, grants>>
    PROVE  IInv'
<1>1. AvailableIsTightestWindow
  BY Tightest
<1>2. \A i \in 1..Len(grants) : SettledAllowance(i)' = Allowance(i)
  BY DEF SettleRefill, SettledAllowance, Allowance
<1>3. WindowBound'
  BY DEF IInv, WindowBound
<1>4. \A i \in 1..Len(grants) : grants[i] <= now
  BY DEF IInv, LimiterTypeOK
<1>5. tokens' = Refilled /\ last_refill' = now /\ grants' = grants
  BY DEF SettleRefill
<1> QED
  BY <1>1, <1>2, <1>3, <1>4, <1>5 DEF IInv, AvailableIsTightestWindow

(***************************************************************************)
(* A grant spends Unit in every open window and opens one more.            *)
(***************************************************************************)
LEMMA AcquirePreserves ==
    ASSUME IInv, LimiterTypeOK', Acquire
    PROVE  IInv'
<1> DEFINE n == Len(grants)
<1>1. /\ n \in Nat /\ now \in Int
      /\ Len(grants') = n + 1
      /\ \A i \in 1..n : grants'[i] = grants[i] /\ grants[i] \in Int /\ grants[i] <= now
      /\ grants'[n + 1] = now
  BY DEF IInv, LimiterTypeOK, Acquire
<1>2. AvailableIsTightestWindow
  BY Tightest
<1>3. Refilled \in Int /\ Unit <= Refilled /\ tokens' = Refilled - Unit /\ last_refill' = now
  BY RefilledType DEF IInv, Acquire
<1>4. ASSUME NEW i \in 1..n
      PROVE  /\ Allowance(i) \in Int
             /\ SettledAllowance(i)' = Allowance(i) - Unit
             /\ (n + 1 - i + 1) * Unit <= Full + (now - grants[i]) * refill_rate
  <2> DEFINE flow == (now - grants[i]) * refill_rate
             cost == (n - i + 1) * Unit
  <2>1. flow \in Int
    BY <1>1, InflowAdds
  <2>2. n - i + 1 \in Int /\ n + 1 - i + 1 = (n - i + 1) + 1
    BY <1>1
  <2>3. cost \in Int /\ (n + 1 - i + 1) * Unit = cost + Unit
    BY <2>2, GrantCost
  <2>4. Allowance(i) = Full + flow - cost
    BY DEF Allowance
  <2>5. SettledAllowance(i)' = Full + flow - (n + 1 - i + 1) * Unit
    BY <1>1, <1>3 DEF SettledAllowance
  <2>6. Refilled <= Allowance(i)
    BY <1>2 DEF AvailableIsTightestWindow
  <2> HIDE DEF flow, cost, n
  <2>7. (n + 1 - i + 1) * Unit <= Full + flow
    BY <1>3, <2>1, <2>3, <2>4, <2>6, ParametersClamped
  <2> QED
    BY <2>1, <2>3, <2>4, <2>5, <2>7, ParametersClamped DEF flow
<1>5. ASSUME NEW i \in Int, i = n + 1
      PROVE  SettledAllowance(i)' = Full - Unit
  <2>1. (now - now) * refill_rate = 0 /\ (n + 1 - i + 1) * Unit = Unit
    BY <1>1, <1>5, ParametersClamped
  <2> QED
    BY <1>1, <1>3, <1>5, <2>1, ParametersClamped DEF SettledAllowance
<1>6. \A i \in 1..Len(grants') : grants'[i] <= last_refill'
  BY <1>1, <1>3
<1>7. \A i \in 1..Len(grants') : tokens' <= SettledAllowance(i)'
  <2>1. Refilled <= Full
    BY RefilledType, ParametersClamped DEF IInv
  <2>2. \A i \in 1..n : tokens' <= SettledAllowance(i)'
    BY <1>2, <1>3, <1>4, ParametersClamped DEF AvailableIsTightestWindow
  <2> HIDE DEF n
  <2>3. ASSUME NEW i \in 1..(n + 1) PROVE tokens' <= SettledAllowance(i)'
    <3>1. CASE i = n + 1
      BY <1>1, <1>3, <1>5, <2>1, <3>1, ParametersClamped
    <3>2. CASE i # n + 1
      BY <1>1, <2>2, <3>2
    <3> QED
      BY <3>1, <3>2
  <2> QED
    BY <1>1, <2>3
<1>8. \E i \in 1..Len(grants') : tokens' = SettledAllowance(i)'
  <2>1. CASE Refilled = Full
    <3>1. PICK i \in 1..Len(grants') : i = n + 1
      BY <1>1
    <3> QED
      BY <1>3, <1>5, <2>1, <3>1
  <2>2. CASE Refilled # Full
    <3>1. PICK i \in 1..n : Refilled = Allowance(i)
      BY <1>2, <2>2 DEF AvailableIsTightestWindow
    <3>2. i \in 1..Len(grants')
      BY <1>1
    <3> QED
      BY <1>3, <1>4, <3>1, <3>2
  <2> QED
    BY <2>1, <2>2
<1>9. WindowBound'
  <2> SUFFICES ASSUME NEW i \in 1..(n + 1), NEW j \in 1..(n + 1), i <= j
               PROVE  (j - i + 1) * Unit
                        <= Full + (grants'[j] - grants'[i]) * refill_rate
    BY <1>1 DEF WindowBound
  <2>1. CASE j <= n
    <3>1. i \in 1..n /\ j \in 1..n
      BY <1>1, <2>1
    <3> QED
      BY <1>1, <3>1 DEF IInv, WindowBound
  <2>2. CASE j = n + 1 /\ i <= n
    <3>1. i \in 1..n
      BY <1>1, <2>2
    <3> QED
      BY <1>1, <1>4, <2>2, <3>1
  <2>3. CASE j = n + 1 /\ i = n + 1
    <3>1. (j - i + 1) * Unit = Unit /\ (now - now) * refill_rate = 0
      BY <1>1, <2>3, ParametersClamped
    <3> QED
      BY <1>1, <2>3, <3>1, ParametersClamped
  <2> QED
    BY <1>1, <2>1, <2>2, <2>3
<1> QED
  BY <1>6, <1>7, <1>8, <1>9 DEF IInv

\* Every step keeps the inductive invariant.
LEMMA IInvInvariant == LimiterSpec => []IInv
<1>1. LimiterInit => IInv
  BY ParametersClamped DEF LimiterInit, IInv, LimiterTypeOK, WindowBound
<1>2. IInv /\ LimiterTypeOK' /\ [LimiterNext]_limiterVars => IInv'
  <2> SUFFICES ASSUME IInv, LimiterTypeOK', [LimiterNext]_limiterVars
               PROVE  IInv'
    OBVIOUS
  <2>1. CASE Tick
    BY <2>1 DEF Tick, IInv, SettledAllowance, WindowBound
  <2>2. CASE Acquire
    BY <2>2, AcquirePreserves
  <2>3. CASE Refuse
    BY <2>3, SettlePreserves DEF Refuse
  <2>4. CASE AvailableTokens
    BY <2>4, SettlePreserves DEF AvailableTokens
  <2>5. CASE UNCHANGED limiterVars
    BY <2>5 DEF limiterVars, IInv, SettledAllowance, WindowBound
  <2> QED
    BY <2>1, <2>2, <2>3, <2>4, <2>5 DEF LimiterNext
<1> QED
  BY <1>1, <1>2, TypeCorrect, PTL DEF LimiterSpec

(***************************************************************************)
(* try_acquire never admits more in a window than a full bucket plus what  *)
(* flowed in, for every capacity, rate, and interleaving of calls.         *)
(***************************************************************************)
THEOREM WindowBoundHolds == LimiterSpec => []WindowBound
<1>1. IInv => WindowBound
  BY DEF IInv
<1> QED
  BY <1>1, IInvInvariant, PTL

(***************************************************************************)
(* What try_acquire finds is exactly what the tightest window allows.      *)
(***************************************************************************)
THEOREM TightestWindowHolds == LimiterSpec => []AvailableIsTightestWindow
BY IInvInvariant, Tightest, PTL

-----------------------------------------------------------------------------
(***************************************************************************)
(* After a step that settled, the clock has not moved: what is stored is   *)
(* what is available.                                                      *)
(***************************************************************************)
LEMMA RefilledWhenSettled ==
    ASSUME NEW n \in Int, NEW t \in 0..Full,
           now' = n, last_refill' = n, tokens' = t
    PROVE  Refilled' = t
<1>1. (n - n) * refill_rate = 0
  BY ParametersClamped
<1>2. Refilled' = AtMost(t + (n - n) * refill_rate, Full)
  BY DEF Refilled
<1> QED
  BY <1>1, <1>2, ParametersClamped DEF AtMost

(***************************************************************************)
(* The lazily refilled bucket of rate_limit.rs implements TokenBucket.     *)
(***************************************************************************)
THEOREM Implementation == LimiterSpec => ImplementsTokenBucket
<1>1. LimiterInit => Bucket!Init
  BY ParametersClamped DEF LimiterInit, Bucket!Init, Refilled, AtMost
<1>2. LimiterTypeOK /\ LimiterTypeOK' /\ [LimiterNext]_limiterVars => [Bucket!Next]_(Bucket!bucketVars)
  <2> SUFFICES ASSUME LimiterTypeOK, LimiterTypeOK', [LimiterNext]_limiterVars
               PROVE  [Bucket!Next]_(Bucket!bucketVars)
    OBVIOUS
  <2>1. CASE Tick
    <3> DEFINE flow == (now - last_refill) * refill_rate
               flow_next == (now' - last_refill) * refill_rate
    <3>1. /\ now \in Int /\ last_refill \in Int /\ last_refill <= now
          /\ now' \in Int /\ now' = now + 1 /\ tokens \in 0..Full
      BY <2>1 DEF LimiterTypeOK, Tick
    <3>2. (now' - now) * refill_rate = refill_rate
      BY <3>1, ParametersClamped
    <3>3. flow \in Int /\ flow >= 0
      BY <3>1, InflowAdds
    <3>4. flow_next = flow + refill_rate
      <4>1. flow_next = flow + (now' - now) * refill_rate
        <5>1. \A a, b, c \in Int : (c - a) * refill_rate
                    = (b - a) * refill_rate + (c - b) * refill_rate
          BY InflowAdds
        <5>2. last_refill \in Int /\ now \in Int /\ now' \in Int
          BY <3>1
        <5> QED
          BY <5>1, <5>2, Zenon
      <4> QED
        BY <3>2, <4>1
    <3>5. Refilled = AtMost(tokens + flow, Full)
      BY DEF Refilled
    <3>6. Refilled' = AtMost(tokens + flow_next, Full)
      BY <2>1 DEF Tick, Refilled
    <3> HIDE DEF flow, flow_next
    <3>7. Refilled' = Bucket!AtMost(Refilled + refill_rate, Full)
      BY <3>1, <3>3, <3>4, <3>5, <3>6, ParametersClamped DEF AtMost, Bucket!AtMost
    <3> QED
      BY <2>1, <3>7 DEF Tick, Bucket!Next, Bucket!Elapse
  <2>2. CASE Acquire
    <3>1. /\ now \in Int /\ now' = now /\ last_refill' = now
          /\ tokens' = Refilled - Unit /\ Refilled - Unit \in 0..Full
      BY <2>2, RefilledType, ParametersClamped DEF Acquire, LimiterTypeOK
    <3>2. Refilled' = Refilled - Unit
      BY <3>1, RefilledWhenSettled
    <3> QED
      BY <2>2, <3>2 DEF Acquire, Bucket!Next, Bucket!Grant
  <2>3. ASSUME SettleRefill, UNCHANGED now
        PROVE  Refilled' = Refilled
    <3>1. /\ now \in Int /\ now' = now /\ last_refill' = now
          /\ tokens' = Refilled /\ Refilled \in 0..Full
      BY <2>3, RefilledType, ParametersClamped DEF SettleRefill, LimiterTypeOK
    <3> QED
      BY <3>1, RefilledWhenSettled
  <2>4. CASE Refuse
    BY <2>3, <2>4 DEF Refuse, Bucket!Next, Bucket!Refuse
  <2>5. CASE AvailableTokens
    BY <2>3, <2>5 DEF AvailableTokens, Bucket!Next, Bucket!Observe
  <2>6. CASE UNCHANGED limiterVars
    BY <2>6 DEF limiterVars, Bucket!bucketVars, Refilled
  <2> QED
    BY <2>1, <2>2, <2>4, <2>5, <2>6 DEF LimiterNext
<1> QED
  BY <1>1, <1>2, TypeCorrect, PTL DEF LimiterSpec, ImplementsTokenBucket, Bucket!Spec
=============================================================================
