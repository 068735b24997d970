------------------------- MODULE CachedServiceProofs -------------------------
(***************************************************************************)
(* Proofs about CachedService for any set of tasks and any bounds: its     *)
(* types, that an epoch has one instance, and that it implements OnceCell. *)
(***************************************************************************)
EXTENDS CachedService, TLAPS

(***************************************************************************)
(* The cell, the tasks and what they were given keep their types; a task   *)
(* holds an instance of its own exactly between init() and the store.      *)
(***************************************************************************)
THEOREM TypeCorrect == CacheSpec => []CacheTypeOK
<1>1. CacheInit => CacheTypeOK
  BY CacheBounds, NoServiceIsNone DEF CacheInit, CacheTypeOK
<1>2. CacheTypeOK /\ [CacheNext]_cacheVars => CacheTypeOK'
  <2> SUFFICES ASSUME CacheTypeOK, [CacheNext]_cacheVars
               PROVE  CacheTypeOK'
    OBVIOUS
  <2> USE CacheBounds DEF CacheTypeOK
  <2>1. CASE Reset
    BY <2>1 DEF Reset
  <2>2. ASSUME NEW t \in Task, Hit(t)
        PROVE  CacheTypeOK'
    BY <2>2 DEF Hit, Answer
  <2>3. ASSUME NEW t \in Task, Miss(t)
        PROVE  CacheTypeOK'
    BY <2>3 DEF Miss
  <2>4. ASSUME NEW t \in Task, InitOk(t)
        PROVE  CacheTypeOK'
    <3>1. new_service'[t] \in Service /\ new_service'[t] # NoService
      BY <2>4, NoServiceIsNone DEF InitOk, Service
    <3> QED
      BY <2>4, <3>1 DEF InitOk
  <2>5. ASSUME NEW t \in Task, InitFails(t)
        PROVE  CacheTypeOK'
    BY <2>5 DEF InitFails
  <2>6. ASSUME NEW t \in Task, StoreFirst(t)
        PROVE  CacheTypeOK'
    BY <2>6 DEF StoreFirst, Answer
  <2>7. CASE UNCHANGED cacheVars
    BY <2>7 DEF cacheVars
  <2> QED
    BY <2>1, <2>2, <2>3, <2>4, <2>5, <2>6, <2>7 DEF CacheNext, Step
<1> QED
  BY <1>1, <1>2, PTL DEF CacheSpec

(***************************************************************************)
(* The inductive invariant.  OneInstancePerEpoch alone does not say what   *)
(* a new answer will be; what keeps it true is that an answer of the       *)
(* present epoch is still what is cached.                                  *)
(***************************************************************************)
AnswersAreCached ==
    \A t \in Task : Answered(t) /\ answer[t][1] = resets => answer[t][2] = inner

IInv == CacheTypeOK /\ AnswersAreCached /\ OneInstancePerEpoch

(***************************************************************************)
(* Handing what is cached to a task keeps the invariant, if the cache did  *)
(* not change or was empty.                                                *)
(***************************************************************************)
LEMMA AnswerPreserves ==
    ASSUME IInv, CacheTypeOK', NEW t \in Task,
           inner = NoService \/ inner' = inner,
           inner' # NoService,
           Answer(t, inner'), resets' = resets
    PROVE  IInv'
<1>1. answer'[t] = <<resets, inner'>>
  BY DEF IInv, CacheTypeOK, Answer
<1>2. \A u \in Task \ {t} : answer'[u] = answer[u]
  BY DEF IInv, CacheTypeOK, Answer
<1>3. \A u \in Task \ {t} :
          Answered(u) /\ answer[u][1] = resets => answer[u][2] = inner'
  BY DEF IInv, AnswersAreCached, Answered
<1>4. \A u \in Task : answer[u] = <<answer[u][1], answer[u][2]>>
  BY DEF IInv, CacheTypeOK
<1>5. AnswersAreCached'
  BY <1>1, <1>2, <1>3 DEF AnswersAreCached, Answered
<1>6. OneInstancePerEpoch'
  BY <1>1, <1>2, <1>3, <1>4 DEF IInv, OneInstancePerEpoch, Answered
<1> QED
  BY <1>5, <1>6 DEF IInv

\* Every step keeps it: only Hit and StoreFirst answer, and both hand out what
\* is cached; only Reset and StoreFirst change what is cached.
LEMMA IInvInvariant == CacheSpec => []IInv
<1>1. CacheInit => IInv
  BY CacheBounds, NoServiceIsNone
     DEF CacheInit, IInv, CacheTypeOK, AnswersAreCached, OneInstancePerEpoch, Answered
<1>2. IInv /\ CacheTypeOK' /\ [CacheNext]_cacheVars => IInv'
  <2> SUFFICES ASSUME IInv, CacheTypeOK', [CacheNext]_cacheVars
               PROVE  IInv'
    OBVIOUS
  <2>1. CASE Reset
    <3>1. \A t \in Task : answer[t][1] \in 0..resets
      BY DEF IInv, CacheTypeOK
    <3>2. AnswersAreCached'
      BY <2>1, <3>1, CacheBounds DEF Reset, IInv, CacheTypeOK, AnswersAreCached, Answered
    <3> QED
      BY <2>1, <3>2 DEF Reset, IInv, OneInstancePerEpoch, Answered
  <2>2. ASSUME NEW t \in Task, Hit(t)
        PROVE  IInv'
    BY <2>2, AnswerPreserves DEF Hit, Answer
  <2>3. ASSUME NEW t \in Task, StoreFirst(t)
        PROVE  IInv'
    <3>1. inner' # NoService
      BY <2>3 DEF StoreFirst, IInv, CacheTypeOK
    <3> QED
      BY <2>3, <3>1, AnswerPreserves DEF StoreFirst
  <2>4. CASE UNCHANGED <<inner, resets, answer>>
    BY <2>4 DEF IInv, AnswersAreCached, OneInstancePerEpoch, Answered
  <2> QED
    BY <2>1, <2>2, <2>3, <2>4 DEF CacheNext, Step, Miss, InitOk, InitFails, cacheVars
<1> QED
  BY <1>1, <1>2, TypeCorrect, PTL DEF CacheSpec

(***************************************************************************)
(* get_or_init hands out one instance between two resets, whatever the     *)
(* number of tasks and the order of their initializations.                 *)
(***************************************************************************)
THEOREM OneInstance == CacheSpec => []OneInstancePerEpoch
<1>1. IInv => OneInstancePerEpoch
  BY DEF IInv
<1> QED
  BY <1>1, IInvInvariant, PTL

(***************************************************************************)
(* CachedService implements the cell that is filled at most once between   *)
(* two clearings.                                                          *)
(***************************************************************************)
THEOREM Implementation == CacheSpec => ImplementsOnceCell
<1> USE DEF Cell!Next, Cell!Read, Cell!Fill, Cell!Clear, Cell!Answer, Cell!cellVars
<1>1. CacheInit => Cell!Init
  BY DEF CacheInit, Cell!Init
<1>2. CacheTypeOK /\ [CacheNext]_cacheVars => [Cell!Next]_(Cell!cellVars)
  <2> SUFFICES ASSUME CacheTypeOK, [CacheNext]_cacheVars
               PROVE  [Cell!Next]_(Cell!cellVars)
    OBVIOUS
  <2>1. CASE Reset
    BY <2>1 DEF Reset
  <2>2. ASSUME NEW t \in Task, Hit(t)
        PROVE  Cell!Read(t)
    BY <2>2 DEF Hit, Answer
  <2>3. ASSUME NEW t \in Task, StoreFirst(t)
        PROVE  Cell!Read(t) \/ Cell!Fill(t)
    <3>1. CASE inner = NoService
      BY <2>3, <3>1 DEF StoreFirst, Answer, CacheTypeOK
    <3>2. CASE inner # NoService
      BY <2>3, <3>2 DEF StoreFirst, Answer
    <3> QED
      BY <3>1, <3>2
  <2>4. CASE UNCHANGED <<inner, resets, answer>>
    BY <2>4
  <2> QED
    BY <2>1, <2>2, <2>3, <2>4 DEF CacheNext, Step, Miss, InitOk, InitFails, cacheVars
<1> QED
  BY <1>1, <1>2, TypeCorrect, PTL DEF CacheSpec, ImplementsOnceCell, Cell!Spec
=============================================================================
