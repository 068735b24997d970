---------------------------- MODULE PipelineProofs -----------------------------
(***************************************************************************)
(* Proofs about Pipeline for any requests, any chain of middleware, any    *)
(* number of attempts and any bucket: its types, the order of the stages,  *)
(* that every response was post-processed, that authorization gates the    *)
(* router, and that retries are bounded.                                   *)
(***************************************************************************)
EXTENDS Pipeline, TLAPS

\* What a sequence is made of.
LEMMA ElementsOf ==
    ASSUME NEW S, NEW q \in Seq(S)
    PROVE  Len(q) \in Nat /\ \A i \in 1..Len(q) : q[i] \in S
OBVIOUS

\* How the stages of any chain are numbered.
LEMMA Stages ==
    /\ Len(Pre) \in Nat /\ Router = Len(Pre) + 1 /\ Router \in Nat \ {0}
    /\ Last \in Nat /\ Last = Router + PostCount /\ Router <= Last
    /\ Stage = 1..Last
    /\ \A s \in 1..Len(Pre) : Pre[s] \in [kind : Kind, retried : BOOLEAN]
<1>1. Len(Pre) \in Nat /\ \A s \in 1..Len(Pre) : Pre[s] \in [kind : Kind, retried : BOOLEAN]
  <2> DEFINE M == [kind : Kind, retried : BOOLEAN]
  <2>1. Pre \in Seq(M)
    BY PipelineConfiguration
  <2> HIDE DEF M
  <2>2. Len(Pre) \in Nat /\ \A s \in 1..Len(Pre) : Pre[s] \in M
    BY <2>1, ElementsOf
  <2> QED
    BY <2>2 DEF M
<1>2. PostCount \in Nat
  BY PipelineConfiguration
<1> QED
  BY <1>1, <1>2 DEF Router, Last, Stage

-----------------------------------------------------------------------------
(***************************************************************************)
(* The inductive invariant.  The properties speak of the stages that were  *)
(* invoked; what makes them inductive is where a request stands: nothing   *)
(* ahead of its stage was invoked, everything behind it is in order, and   *)
(* the stage it is at was invoked once per retry, each answered by a       *)
(* retryable error.                                                        *)
(***************************************************************************)
Live(r) == pc[r] \in {"new", "running", "sleeping"}

Behind(r, s) ==
    /\ InOrder(r, s)
    /\ \A q \in (Router + 1)..(s - 1) : calls[r][q] = 1

NothingAhead(r) ==
    \A q \in Stage : q > stage[r] => calls[r][q] = 0 /\ said[r][q] = "none"

AtStage(r) ==
    /\ Behind(r, stage[r])
    /\ calls[r][stage[r]] = attempt[r]
    /\ said[r][stage[r]] = IF attempt[r] = 0 THEN "none" ELSE "retryable"

Position(r) ==
    /\ NothingAhead(r)
    /\ Live(r) => AtStage(r)
    /\ pc[r] = "new" => stage[r] = 1 /\ attempt[r] = 0
    /\ pc[r] = "sleeping" => attempt[r] > 0
    /\ attempt[r] > 0 => stage[r] < Router /\ Pre[stage[r]].retried
    /\ pc[r] \in {"piped", "ok"} => Behind(r, Last + 1)

History(r) ==
    /\ \A s \in Stage : calls[r][s] > 0 => InOrder(r, s)
    /\ \A s \in 1..Len(Pre) : Passed(r, s) => Admitted(Pre[s].kind, cred[r])
    /\ \A s \in 1..Len(Pre) :
          calls[r][s] <= (IF Pre[s].retried THEN MaxAttempts ELSE 1)

IInv == TypeOK /\ \A r \in Request : Position(r) /\ History(r)

\* A new request stands at the first stage, with nothing behind it.
LEMMA InitIInv == Init => IInv
<1> SUFFICES ASSUME Init
             PROVE  IInv
  OBVIOUS
<1> USE Stages, PipelineConfiguration
<1>1. TypeOK
  BY DEF Init, Limiter!Init, TypeOK, Credentials
<1>2. ASSUME NEW r \in Request
      PROVE  Position(r) /\ History(r)
  BY DEF Init, Position, NothingAhead, Live, AtStage, Behind, InOrder, Passed, History
<1> QED
  BY <1>1, <1>2 DEF IInv

\* The other requests stay as they are.
LEMMA OthersKeep ==
    ASSUME TypeOK, NEW r \in Request, Arrive(r) \/ Step(r),
           NEW u \in Request, u # r
    PROVE  /\ cred'[u] = cred[u] /\ pc'[u] = pc[u] /\ stage'[u] = stage[u]
           /\ attempt'[u] = attempt[u] /\ said'[u] = said[u] /\ calls'[u] = calls[u]
BY DEF TypeOK, Arrive, Step, PreProcess, Wake, RouteOrPostProcess, Respond,
       Record, Proceed, SkipToPost, MoveTo, BackOff

\* A request nobody touched still satisfies the invariant.
LEMMA SameKeeps ==
    ASSUME NEW u \in Request, Position(u), History(u),
           cred'[u] = cred[u], pc'[u] = pc[u], stage'[u] = stage[u],
           attempt'[u] = attempt[u], said'[u] = said[u], calls'[u] = calls[u]
    PROVE  Position(u)' /\ History(u)'
BY DEF Position, NothingAhead, Live, AtStage, Behind, InOrder, Passed,
       ShortCircuited, History
-----------------------------------------------------------------------------
\* One invocation of stage s, before the request moves.
Invoked(r, s, v) ==
    /\ pc[r] = "running" /\ stage[r] = s
    /\ Record(r, s, v)
    /\ cred' = cred
    /\ v = "continue" /\ s < Router => Admitted(Pre[s].kind, cred[r])

\* An invocation is recorded at its own stage: what is behind stays in
\* order, what is ahead stays untouched, and the count is one higher.
LEMMA InvokedKeeps ==
    ASSUME IInv, NEW r \in Request, NEW s \in Stage, NEW v \in Verdict,
           Invoked(r, s, v)
    PROVE  /\ History(r)'
           /\ \A q \in Stage : q > s => calls'[r][q] = 0 /\ said'[r][q] = "none"
           /\ calls'[r][s] = attempt[r] + 1 /\ said'[r][s] = v
           /\ Behind(r, s)'
           /\ s >= Router => attempt[r] = 0
<1>1. /\ said'[r][s] = v
      /\ \A q \in Stage : q # s => said'[r][q] = said[r][q]
  BY DEF IInv, TypeOK, Invoked, Record
<1>2. /\ Position(r) /\ History(r) /\ AtStage(r) /\ NothingAhead(r)
      /\ attempt[r] \in 0..(MaxAttempts - 1)
  BY DEF IInv, TypeOK, Invoked, Position, Live
<1>3. /\ calls[r][s] = attempt[r]
      /\ said[r][s] \in {"none", "retryable"}
      /\ Behind(r, s)
  BY <1>2 DEF AtStage, Invoked
<1>4. /\ calls'[r][s] = calls[r][s] + 1
      /\ \A q \in Stage : q # s => calls'[r][q] = calls[r][q]
  <2>1. Counted(calls[r][s]) = calls[r][s] + 1
    BY <1>2, <1>3, PipelineConfiguration DEF Counted
  <2>2. /\ calls'[r][s] = Counted(calls[r][s])
        /\ \A q \in Stage : q # s => calls'[r][q] = calls[r][q]
    BY DEF IInv, TypeOK, Invoked, Record
  <2> QED
    BY <2>1, <2>2
<1>5. \A q \in Stage : q > s => calls'[r][q] = 0 /\ said'[r][q] = "none"
  BY <1>1, <1>4, <1>2, Stages DEF NothingAhead, Invoked
<1>6. s >= Router => attempt[r] = 0
  BY <1>2, Stages DEF Position, Invoked
<1>7. s > Router => (ShortCircuited(r)' <=> ShortCircuited(r))
  BY <1>1, Stages DEF ShortCircuited
<1>8. ASSUME NEW q \in Stage, q <= s, InOrder(r, q)
      PROVE  InOrder(r, q)'
  BY <1>1, <1>7, <1>8, Stages DEF InOrder, Passed
<1>9. Behind(r, s)'
  BY <1>4, <1>3, <1>8, Stages DEF Behind
<1>10. \A q \in Stage : calls'[r][q] > 0 => InOrder(r, q)'
  BY <1>4, <1>2, <1>3, <1>5, <1>8, Stages DEF History, Behind
<1>11. \A q \in 1..Len(Pre) : Passed(r, q)' => Admitted(Pre[q].kind, cred[r])
  BY <1>1, <1>2, Stages DEF History, Passed, Invoked
<1>12. \A q \in 1..Len(Pre) :
          calls'[r][q] <= (IF Pre[q].retried THEN MaxAttempts ELSE 1)
  <2>1. attempt[r] > 0 => Pre[s].retried
    BY <1>2 DEF Position, Invoked
  <2>2. \A q \in 1..Len(Pre) : q \in Stage
    BY Stages
  <2>3. s \in 1..Len(Pre) => calls'[r][s] <= (IF Pre[s].retried THEN MaxAttempts ELSE 1)
    BY <1>4, <1>2, <1>3, <2>1, Stages, PipelineConfiguration
  <2> QED
    BY <1>4, <1>2, <2>2, <2>3 DEF History
<1>13. History(r)'
  BY <1>10, <1>11, <1>12 DEF History, Invoked
<1> QED
  BY <1>1, <1>4, <1>3, <1>5, <1>6, <1>9, <1>13

\* A stage that let the request pass lies behind it in order.
LEMMA PassedIsBehind ==
    ASSUME IInv, NEW r \in Request, NEW s \in Stage,
           Behind(r, s)', Passed(r, s)', s > Router => calls'[r][s] = 1
    PROVE  Behind(r, s + 1)'
<1>1. CASE s < Router
  BY <1>1, Stages DEF Behind, InOrder, Passed
<1>2. CASE s = Router
  <2>1. ~ShortCircuited(r)'
    BY <1>2, Stages DEF Behind, InOrder, Passed, ShortCircuited
  <2> QED
    BY <1>2, <2>1, Stages DEF Behind, InOrder, Passed
<1>3. CASE s > Router
  BY <1>3, Stages DEF Behind, InOrder, Passed
<1> QED
  BY <1>1, <1>2, <1>3, Stages

\* So does a short circuit, in front of the post-middleware.
LEMMA ShortCircuitIsBehind ==
    ASSUME NEW r \in Request, NEW s \in 1..Len(Pre),
           said'[r][s] = "short_circuit", said'[r][Router] = "none"
    PROVE  Behind(r, Router + 1)'
<1>1. ShortCircuited(r)' /\ ~Passed(r, Router)'
  BY DEF ShortCircuited, Passed
<1> QED
  BY <1>1, Stages DEF Behind, InOrder
-----------------------------------------------------------------------------
(***************************************************************************)
(* Where a request may go from an invoked stage.                           *)
(***************************************************************************)
LEMMA MovedTo ==
    ASSUME TypeOK, NEW r \in Request, NEW where, NEW s, MoveTo(r, where, s)
    PROVE  pc'[r] = where /\ stage'[r] = s /\ attempt'[r] = 0
BY DEF TypeOK, MoveTo

\* Going on to the next stage, or out of the last one.
LEMMA ProceedKeeps ==
    ASSUME IInv, NEW r \in Request, NEW s \in Stage,
           Invoked(r, s, "continue"), Proceed(r, s)
    PROVE  Position(r)'
<1>1. /\ \A q \in Stage : q > s => calls'[r][q] = 0 /\ said'[r][q] = "none"
      /\ said'[r][s] = "continue" /\ Behind(r, s)'
      /\ s > Router => calls'[r][s] = 1
  BY InvokedKeeps, Stages DEF Verdict
<1>2. Behind(r, s + 1)'
  BY <1>1, PassedIsBehind DEF Passed
<1>3. CASE s = Last
  <2>1. pc'[r] = "piped" /\ stage'[r] = s /\ attempt'[r] = 0
    BY <1>3, MovedTo DEF IInv, Proceed
  <2> QED
    BY <1>1, <1>2, <1>3, <2>1, Stages DEF Position, NothingAhead, Live
<1>4. CASE s # Last
  <2>1. pc'[r] = "running" /\ stage'[r] = s + 1 /\ attempt'[r] = 0
    BY <1>4, MovedTo DEF IInv, Proceed
  <2>2. AtStage(r)'
    BY <1>1, <1>2, <1>4, <2>1, Stages DEF AtStage
  <2> QED
    BY <1>1, <2>1, <2>2, Stages DEF Position, NothingAhead
<1> QED
  BY <1>3, <1>4

\* Skipping to the post-middleware after a short circuit.
LEMMA SkipKeeps ==
    ASSUME IInv, NEW r \in Request, NEW s \in Stage, s < Router,
           Invoked(r, s, "short_circuit"), SkipToPost(r)
    PROVE  Position(r)'
<1>1. /\ \A q \in Stage : q > s => calls'[r][q] = 0 /\ said'[r][q] = "none"
      /\ said'[r][s] = "short_circuit"
  BY InvokedKeeps DEF Verdict
<1>2. Behind(r, Router + 1)'
  BY <1>1, ShortCircuitIsBehind, Stages
<1>3. CASE Router = Last
  <2>1. pc'[r] = "piped" /\ stage'[r] = Router /\ attempt'[r] = 0
    BY <1>3, MovedTo DEF IInv, SkipToPost, Proceed
  <2> QED
    BY <1>1, <1>2, <1>3, <2>1, Stages DEF Position, NothingAhead, Live
<1>4. CASE Router # Last
  <2>1. pc'[r] = "running" /\ stage'[r] = Router + 1 /\ attempt'[r] = 0
    BY <1>4, MovedTo DEF IInv, SkipToPost, Proceed
  <2>2. AtStage(r)'
    BY <1>1, <1>2, <1>4, <2>1, Stages DEF AtStage
  <2> QED
    BY <1>1, <2>1, <2>2, Stages DEF Position, NothingAhead
<1> QED
  BY <1>3, <1>4

\* Leaving with an error.
LEMMA FailKeeps ==
    ASSUME IInv, NEW r \in Request, NEW s \in Stage, NEW v \in Verdict,
           Invoked(r, s, v), MoveTo(r, "err", s)
    PROVE  Position(r)'
<1>1. \A q \in Stage : q > s => calls'[r][q] = 0 /\ said'[r][q] = "none"
  BY InvokedKeeps
<1>2. pc'[r] = "err" /\ stage'[r] = s /\ attempt'[r] = 0
  BY MovedTo DEF IInv
<1> QED
  BY <1>1, <1>2 DEF Position, NothingAhead, Live

\* Going to sleep before the next attempt at the same stage.
LEMMA BackOffKeeps ==
    ASSUME IInv, NEW r \in Request, NEW s \in Stage, s < Router, NEW v \in Verdict,
           Invoked(r, s, v), Retries(r, s, v), BackOff(r)
    PROVE  Position(r)'
<1>1. /\ \A q \in Stage : q > s => calls'[r][q] = 0 /\ said'[r][q] = "none"
      /\ calls'[r][s] = attempt[r] + 1 /\ said'[r][s] = "retryable"
      /\ Behind(r, s)'
  BY InvokedKeeps DEF Retries
<1>2. /\ pc'[r] = "sleeping" /\ stage'[r] = s /\ attempt'[r] = attempt[r] + 1
      /\ attempt[r] \in Nat
  BY DEF IInv, TypeOK, BackOff, Invoked
<1>3. AtStage(r)'
  BY <1>1, <1>2 DEF AtStage
<1> QED
  BY <1>1, <1>2, <1>3 DEF Position, NothingAhead, Retries
-----------------------------------------------------------------------------
\* Only AuthMiddleware looks at credentials.
LEMMA AdmittedKinds ==
    ASSUME NEW kind \in Kind, NEW c,
           kind \notin {"authn", "authz"}
    PROVE  Admitted(kind, c)
BY DEF Admitted

\* A middleware that lets a request pass admits it.
LEMMA AnswersAdmit ==
    ASSUME IInv, NEW r \in Request, NEW s \in 1..Len(Pre), NEW v \in Verdict,
           Answers(r, s, v)
    PROVE  v = "continue" => Admitted(Pre[s].kind, cred[r])
<1>1. Pre[s].kind \in Kind
  BY Stages
<1>2. CASE Pre[s].kind \in {"authn", "authz"}
  BY <1>2 DEF Answers, AuthVerdict
<1>3. CASE Pre[s].kind \notin {"authn", "authz"}
  BY <1>1, <1>3, AdmittedKinds
<1> QED
  BY <1>2, <1>3

\* The bucket stays between empty and full.
LEMMA LevelType ==
    ASSUME level \in 0..Full, Limiter!Next \/ UNCHANGED level
    PROVE  level' \in 0..Full
<1>1. Full \in Nat /\ Unit \in Nat /\ Rate \in Nat
  BY PipelineConfiguration
<1> QED
  BY <1>1 DEF Limiter!Next, Limiter!Elapse, Limiter!Grant, Limiter!Refuse,
              Limiter!Observe, Limiter!AtMost

\* An invocation keeps the histories well typed: there is room for one more
\* call, because fewer than max_attempts were made at this stage.
LEMMA RecordType ==
    ASSUME IInv, NEW r \in Request, NEW s \in Stage, NEW v \in Verdict,
           Invoked(r, s, v)
    PROVE  /\ said' \in [Request -> [Stage -> Verdict \cup {"none"}]]
           /\ calls' \in [Request -> [Stage -> 0..MaxAttempts]]
<1>1. /\ said \in [Request -> [Stage -> Verdict \cup {"none"}]]
      /\ calls \in [Request -> [Stage -> 0..MaxAttempts]]
  BY DEF IInv, TypeOK
<1>2. calls[r][s] = attempt[r] /\ attempt[r] \in 0..(MaxAttempts - 1)
  BY DEF IInv, TypeOK, Invoked, Position, Live, AtStage
<1>3. Counted(calls[r][s]) = calls[r][s] + 1 /\ calls[r][s] + 1 \in 0..MaxAttempts
  BY <1>2, PipelineConfiguration DEF Counted
<1>4. [calls[r] EXCEPT ![s] = calls[r][s] + 1] \in [Stage -> 0..MaxAttempts]
  BY <1>1, <1>3
<1>5. [said[r] EXCEPT ![s] = v] \in [Stage -> Verdict \cup {"none"}]
  BY <1>1
<1>6. said' = [said EXCEPT ![r] = [said[r] EXCEPT ![s] = v]]
  BY DEF Invoked, Record
<1>7. calls' = [calls EXCEPT ![r] = [calls[r] EXCEPT ![s] = calls[r][s] + 1]]
  BY <1>3 DEF Invoked, Record
<1> QED
  BY <1>1, <1>4, <1>5, <1>6, <1>7

\* Moving a request keeps it inside the chain.
LEMMA MoveType ==
    ASSUME TypeOK, NEW r \in Request,
           NEW where \in {"running", "piped", "err"}, NEW s \in Stage,
           MoveTo(r, where, s)
    PROVE  /\ pc' \in [Request -> {"new", "running", "sleeping", "piped", "ok", "err"}]
           /\ stage' \in [Request -> Stage]
           /\ attempt' \in [Request -> 0..(MaxAttempts - 1)]
BY PipelineConfiguration DEF TypeOK, MoveTo

\* One turn of the loops of execute() and RetryMiddleware.
LEMMA PreProcessKeeps ==
    ASSUME IInv, NEW r \in Request, PreProcess(r)
    PROVE  TypeOK' /\ Position(r)' /\ History(r)'
<1> DEFINE s == stage[r]
<1>1. s \in Stage /\ s < Router /\ s \in 1..Len(Pre)
  BY Stages DEF IInv, TypeOK, PreProcess
<1>2. PICK v \in Verdict :
        /\ Answers(r, s, v)
        /\ Record(r, s, v)
        /\ \/ v = "continue" /\ Proceed(r, s)
           \/ v = "short_circuit" /\ SkipToPost(r)
           \/ Retries(r, s, v) /\ BackOff(r)
           \/ /\ v \in {"retryable", "fatal"}
              /\ ~Retries(r, s, v)
              /\ MoveTo(r, "err", s)
  BY DEF PreProcess
<1>3. Invoked(r, s, v)
  BY <1>1, <1>2, AnswersAdmit DEF Invoked, PreProcess
<1>4. level' \in 0..Full
  BY <1>2, LevelType DEF IInv, TypeOK, Answers, Limiter!Next
<1>5. /\ said' \in [Request -> [Stage -> Verdict \cup {"none"}]]
      /\ calls' \in [Request -> [Stage -> 0..MaxAttempts]]
  BY <1>1, <1>3, RecordType
<1>6. cred' = cred /\ cached' = cached
  BY DEF PreProcess
<1>7. History(r)'
  BY <1>1, <1>3, InvokedKeeps
<1> HIDE DEF s
<1>8. CASE v = "continue" /\ Proceed(r, s)
  <2>1. PICK where \in {"running", "piped"}, q \in Stage : MoveTo(r, where, q)
    BY <1>1, <1>8, Stages DEF Proceed
  <2>2. TypeOK'
    BY <1>4, <1>5, <1>6, <2>1, MoveType DEF IInv, TypeOK
  <2> QED
    BY <1>1, <1>3, <1>7, <1>8, <2>2, ProceedKeeps
<1>9. CASE v = "short_circuit" /\ SkipToPost(r)
  <2>1. PICK where \in {"running", "piped"}, q \in Stage : MoveTo(r, where, q)
    BY <1>1, <1>9, Stages DEF SkipToPost, Proceed
  <2>2. TypeOK'
    BY <1>4, <1>5, <1>6, <2>1, MoveType DEF IInv, TypeOK
  <2> QED
    BY <1>1, <1>3, <1>7, <1>9, <2>2, SkipKeeps
<1>10. CASE Retries(r, s, v) /\ BackOff(r)
  <2>1. TypeOK'
    BY <1>4, <1>5, <1>6, <1>10, PipelineConfiguration
       DEF IInv, TypeOK, BackOff, Retries
  <2> QED
    BY <1>1, <1>3, <1>7, <1>10, <2>1, BackOffKeeps
<1>11. CASE MoveTo(r, "err", s)
  <2>1. TypeOK'
    BY <1>1, <1>4, <1>5, <1>6, <1>11, MoveType DEF IInv, TypeOK
  <2> QED
    BY <1>1, <1>3, <1>7, <1>11, <2>1, FailKeeps
<1> QED
  BY <1>2, <1>8, <1>9, <1>10, <1>11

\* The router and the post-middleware.
LEMMA RouteOrPostProcessKeeps ==
    ASSUME IInv, NEW r \in Request, RouteOrPostProcess(r)
    PROVE  TypeOK' /\ Position(r)' /\ History(r)'
<1> DEFINE s == stage[r]
<1>1. s \in Stage /\ s >= Router
  BY DEF IInv, TypeOK, RouteOrPostProcess
<1>2. PICK v \in {"continue", "fatal"} :
        /\ Record(r, s, v)
        /\ \/ v = "continue" /\ Proceed(r, s)
           \/ v = "fatal" /\ MoveTo(r, "err", s)
  BY DEF RouteOrPostProcess
<1>3. v \in Verdict /\ Invoked(r, s, v)
  BY <1>1, <1>2, Stages DEF Invoked, RouteOrPostProcess, Verdict
<1>4. level' = level /\ cred' = cred /\ cached' = cached
  BY DEF RouteOrPostProcess
<1>5. /\ said' \in [Request -> [Stage -> Verdict \cup {"none"}]]
      /\ calls' \in [Request -> [Stage -> 0..MaxAttempts]]
  BY <1>1, <1>3, RecordType
<1>6. History(r)'
  BY <1>1, <1>3, InvokedKeeps
<1> HIDE DEF s
<1>7. CASE v = "continue" /\ Proceed(r, s)
  <2>1. PICK where \in {"running", "piped"}, q \in Stage : MoveTo(r, where, q)
    BY <1>1, <1>7, Stages DEF Proceed
  <2>2. TypeOK'
    BY <1>4, <1>5, <2>1, MoveType DEF IInv, TypeOK
  <2> QED
    BY <1>1, <1>3, <1>6, <1>7, <2>2, ProceedKeeps
<1>8. CASE v = "fatal" /\ MoveTo(r, "err", s)
  <2>1. TypeOK'
    BY <1>1, <1>4, <1>5, <1>8, MoveType DEF IInv, TypeOK
  <2> QED
    BY <1>1, <1>3, <1>6, <1>8, <2>1, FailKeeps
<1> QED
  BY <1>2, <1>7, <1>8
-----------------------------------------------------------------------------
(***************************************************************************)
(* The steps between two invocations.                                      *)
(***************************************************************************)
LEMMA ArriveKeeps ==
    ASSUME IInv, NEW r \in Request, Arrive(r)
    PROVE  TypeOK' /\ Position(r)' /\ History(r)'
<1>1. PICK c \in Credentials : cred' = [cred EXCEPT ![r] = c]
  BY DEF Arrive
<1>2. PICK b \in BOOLEAN : cached' = [cached EXCEPT ![r] = b]
  BY DEF Arrive
<1>3. /\ pc[r] = "new" /\ pc' = [pc EXCEPT ![r] = "running"]
      /\ stage' = stage /\ attempt' = attempt /\ said' = said
      /\ calls' = calls /\ level' = level
  BY DEF Arrive
<1>4. TypeOK'
  BY <1>1, <1>2, <1>3 DEF IInv, TypeOK
<1>5. /\ Position(r) /\ History(r) /\ AtStage(r) /\ NothingAhead(r)
      /\ stage[r] = 1 /\ attempt[r] = 0 /\ pc'[r] = "running"
  BY <1>3 DEF IInv, TypeOK, Position, Live
<1>6. Position(r)'
  BY <1>3, <1>5 DEF Position, NothingAhead, Live, AtStage, Behind, InOrder,
                    Passed, ShortCircuited
<1>7. \A s \in Stage : said[r][s] = "none"
  BY <1>5, Stages DEF NothingAhead, AtStage
<1>8. History(r)'
  BY <1>3, <1>5, <1>7, Stages DEF History, InOrder, Passed, ShortCircuited
<1> QED
  BY <1>4, <1>6, <1>8

\* The sleeper comes back to its stage.
LEMMA WakeKeeps ==
    ASSUME IInv, NEW r \in Request, Wake(r)
    PROVE  TypeOK' /\ Position(r)' /\ History(r)'
<1>1. /\ pc[r] = "sleeping" /\ pc' = [pc EXCEPT ![r] = "running"]
      /\ cred' = cred /\ cached' = cached /\ stage' = stage
      /\ attempt' = attempt /\ said' = said /\ calls' = calls /\ level' = level
  BY DEF Wake
<1>2. TypeOK' /\ pc'[r] = "running"
  BY <1>1 DEF IInv, TypeOK
<1>3. Position(r) /\ History(r) /\ AtStage(r) /\ NothingAhead(r)
  BY <1>1 DEF IInv, Position, Live
<1>4. Position(r)'
  BY <1>1, <1>2, <1>3 DEF Position, NothingAhead, Live, AtStage, Behind, InOrder,
                          Passed, ShortCircuited
<1>5. History(r)'
  BY <1>1, <1>3 DEF History, InOrder, Passed, ShortCircuited
<1> QED
  BY <1>2, <1>4, <1>5

\* into_response() changes nothing but the outcome.
LEMMA RespondKeeps ==
    ASSUME IInv, NEW r \in Request, Respond(r)
    PROVE  TypeOK' /\ Position(r)' /\ History(r)'
<1>1. PICK end \in {"ok", "err"} : pc' = [pc EXCEPT ![r] = end]
  BY DEF Respond
<1>2. /\ pc[r] = "piped" /\ cred' = cred /\ cached' = cached /\ stage' = stage
      /\ attempt' = attempt /\ said' = said /\ calls' = calls /\ level' = level
  BY DEF Respond
<1>3. TypeOK' /\ pc'[r] = end
  BY <1>1, <1>2 DEF IInv, TypeOK
<1>4. Position(r) /\ History(r) /\ Behind(r, Last + 1) /\ NothingAhead(r)
  BY <1>2 DEF IInv, Position
<1>5. Position(r)'
  BY <1>2, <1>3, <1>4 DEF Position, NothingAhead, Live, Behind, InOrder,
                          Passed, ShortCircuited
<1>6. History(r)'
  BY <1>2, <1>4 DEF History, InOrder, Passed, ShortCircuited
<1> QED
  BY <1>3, <1>5, <1>6

\* A step of one request keeps the invariant of them all.
LEMMA StepKeeps ==
    ASSUME IInv, NEW r \in Request, Arrive(r) \/ Step(r)
    PROVE  IInv'
<1>1. TypeOK' /\ Position(r)' /\ History(r)'
  BY ArriveKeeps, PreProcessKeeps, WakeKeeps, RouteOrPostProcessKeeps,
     RespondKeeps DEF Step
<1>2. ASSUME NEW u \in Request, u # r
      PROVE  Position(u)' /\ History(u)'
  BY <1>2, OthersKeep, SameKeeps DEF IInv
<1> QED
  BY <1>1, <1>2 DEF IInv

\* So does the passing of time.
LEMMA NoStepKeeps ==
    ASSUME IInv, Elapse \/ UNCHANGED vars
    PROVE  IInv'
<1>1. /\ cred' = cred /\ cached' = cached /\ pc' = pc /\ stage' = stage
      /\ attempt' = attempt /\ said' = said /\ calls' = calls
  BY DEF Elapse, vars, reqVars
<1>2. level' \in 0..Full
  BY LevelType DEF IInv, TypeOK, Elapse, vars, Limiter!Next
<1>3. TypeOK'
  BY <1>1, <1>2 DEF IInv, TypeOK
<1>4. ASSUME NEW u \in Request
      PROVE  Position(u)' /\ History(u)'
  BY <1>1, SameKeeps DEF IInv
<1> QED
  BY <1>3, <1>4 DEF IInv

\* The inductive invariant holds in every reachable state.
THEOREM IInvInvariant == Spec => []IInv
<1>1. IInv /\ [Next]_vars => IInv'
  BY StepKeeps, NoStepKeeps DEF Next
<1> QED
  BY <1>1, InitIInv, PTL DEF Spec
-----------------------------------------------------------------------------
(***************************************************************************)
(* Requests stay inside the chain, their attempts below max_attempts, and  *)
(* the bucket between empty and full.                                      *)
(***************************************************************************)
THEOREM TypeCorrect == Spec => []TypeOK
<1>1. IInv => TypeOK
  BY DEF IInv
<1> QED
  BY <1>1, IInvInvariant, PTL

(***************************************************************************)
(* execute() runs the stages in order: the router behind every             *)
(* pre-middleware, post-middleware behind the router or one short circuit. *)
(***************************************************************************)
THEOREM StagesOrdered == Spec => []StagesInOrder
<1>1. IInv => StagesInOrder
  BY DEF IInv, History, StagesInOrder
<1> QED
  BY <1>1, IInvInvariant, PTL

(***************************************************************************)
(* The response execute() returns has passed each post-middleware once.    *)
(***************************************************************************)
THEOREM PostProcessed == Spec => []ResponsePostProcessed
<1>1. IInv => ResponsePostProcessed
  BY Stages DEF IInv, Position, Behind, ResponsePostProcessed
<1> QED
  BY <1>1, IInvInvariant, PTL

(***************************************************************************)
(* Neither a stage behind AuthMiddleware nor the router sees a request     *)
(* that it denies, wherever it stands in the chain, retried or not.        *)
(***************************************************************************)
THEOREM AuthGates == Spec => []AuthGatesTheRest
<1>1. ASSUME IInv, NEW r \in Request, NEW a \in 1..Len(Pre),
             NEW s \in 1..Router, a < s, calls[r][s] > 0
      PROVE  Admitted(Pre[a].kind, cred[r])
  <2>1. s \in Stage /\ a \in 1..(s - 1) /\ s <= Router
    BY <1>1, Stages
  <2>2. History(r)
    BY <1>1 DEF IInv
  <2>3. InOrder(r, s)
    BY <1>1, <2>1, <2>2 DEF History
  <2>4. Passed(r, a)
    BY <2>1, <2>3 DEF InOrder
  <2> QED
    BY <2>2, <2>4 DEF History
<1>2. IInv => AuthGatesTheRest
  BY <1>1 DEF AuthGatesTheRest
<1> QED
  BY <1>2, IInvInvariant, PTL

(***************************************************************************)
(* RetryMiddleware asks at most max_attempts times, and only again after a *)
(* retryable error; what it does not wrap is asked once.                   *)
(***************************************************************************)
THEOREM RetriesBounded == Spec => []RetryBounded
<1>1. ASSUME IInv, NEW r \in Request, NEW s \in 1..Len(Pre),
             pc[r] = "sleeping", stage[r] = s
      PROVE  said[r][s] = "retryable"
  BY <1>1 DEF IInv, TypeOK, Position, Live, AtStage
<1>2. IInv => RetryBounded
  BY <1>1 DEF IInv, History, RetryBounded
<1> QED
  BY <1>2, IInvInvariant, PTL

(***************************************************************************)
(* execute() never returns to a stage, and the retry loop only to one that *)
(* gave a retryable error: every other verdict stays.                      *)
(***************************************************************************)
THEOREM VerdictsFinal == Spec => NoSecondThoughts
<1>1. ASSUME IInv, NEW r \in Request, PreProcess(r) \/ RouteOrPostProcess(r)
      PROVE  /\ said[r][stage[r]] \in {"none", "retryable"}
             /\ \A q \in Stage : q # stage[r] =>
                    said'[r][q] = said[r][q] /\ calls'[r][q] = calls[r][q]
  BY <1>1 DEF IInv, TypeOK, Position, Live, AtStage, PreProcess,
              RouteOrPostProcess, Record
<1>2. ASSUME IInv, NEW u \in Request, [Next]_vars,
             NEW s \in Stage, said[u][s] \in {"continue", "short_circuit", "fatal"}
      PROVE  said'[u][s] = said[u][s] /\ calls'[u][s] = calls[u][s]
  <2>1. CASE Elapse \/ UNCHANGED vars
    BY <2>1 DEF Elapse, vars, reqVars
  <2>2. ASSUME NEW r \in Request, Arrive(r) \/ Step(r)
        PROVE  said'[u][s] = said[u][s] /\ calls'[u][s] = calls[u][s]
    <3>1. CASE u # r
      BY <1>2, <2>2, <3>1, OthersKeep DEF IInv
    <3>2. CASE u = r /\ (PreProcess(r) \/ RouteOrPostProcess(r))
      BY <1>1, <1>2, <3>2
    <3>3. CASE Arrive(r) \/ Wake(r) \/ Respond(r)
      BY <3>3 DEF Arrive, Wake, Respond
    <3> QED
      BY <2>2, <3>1, <3>2, <3>3 DEF Step
  <2> QED
    BY <1>2, <2>1, <2>2 DEF Next
<1>3. IInv /\ [Next]_vars =>
        \A r \in Request, s \in Stage :
           said[r][s] \in {"continue", "short_circuit", "fatal"}
           => said'[r][s] = said[r][s] /\ calls'[r][s] = calls[r][s]
  BY <1>2
<1> QED
  BY <1>3, IInvInvariant, PTL DEF Spec, NoSecondThoughts

-----------------------------------------------------------------------------
(***************************************************************************)
(* Requests end: the part of RequestsAnswered that is safety.  StepsLeft   *)
(* counts the steps request r can still take: at each stage it comes to, a *)
(* call and a sleep per attempt.                                           *)
(***************************************************************************)
AttemptsLeft(r) == MaxAttempts * (Last - stage[r]) + (MaxAttempts - attempt[r])

StepsLeft(r) ==
    CASE pc[r] \in {"ok", "err"} -> 0
      [] pc[r] = "piped" -> 1
      [] pc[r] = "running" -> 2 * AttemptsLeft(r) + 1
      [] OTHER -> 2 * AttemptsLeft(r) + 2

StepsBounded == \A r \in Request : StepsLeft(r) \in 0..(2 * (MaxAttempts * Last) + 2)

EveryStepCounts ==
    [][\A r \in Request :
          /\ Arrive(r) \/ Step(r) => StepsLeft(r)' < StepsLeft(r)
          /\ ~(Arrive(r) \/ Step(r)) => StepsLeft(r)' = StepsLeft(r)]_vars

\* A stage more or less is MaxAttempts attempts more or less.
LEMMA StageCost ==
    ASSUME NEW a \in Nat, NEW b \in Nat, a > b
    PROVE  /\ MaxAttempts * a \in Nat /\ MaxAttempts * b \in Nat
           /\ MaxAttempts * a >= MaxAttempts * b + MaxAttempts
<1>1. PICK d \in Nat : a = b + 1 + d
  <2>1. a - b - 1 \in Nat /\ a = b + 1 + (a - b - 1)
    OBVIOUS
  <2> QED
    BY <2>1
<1>2. MaxAttempts \in Nat
  BY PipelineConfiguration
<1>3. MaxAttempts * a = MaxAttempts * b + MaxAttempts + MaxAttempts * d
  BY <1>1, <1>2
<1>4. MaxAttempts * a \in Nat /\ MaxAttempts * b \in Nat /\ MaxAttempts * d \in Nat
  BY <1>2
<1> QED
  BY <1>2, <1>3, <1>4

\* There is at least one attempt at the stage a request is at.
LEMMA AttemptsLeftType ==
    ASSUME TypeOK, NEW r \in Request
    PROVE  AttemptsLeft(r) \in 1..(MaxAttempts * Last)
<1>1. /\ stage[r] \in 1..Last /\ attempt[r] \in 0..(MaxAttempts - 1)
      /\ MaxAttempts \in Nat \ {0} /\ Last \in Nat
  BY Stages, PipelineConfiguration DEF TypeOK
<1>2. /\ MaxAttempts * Last >= MaxAttempts * (Last - stage[r]) + MaxAttempts
      /\ MaxAttempts * Last \in Nat /\ MaxAttempts * (Last - stage[r]) \in Nat
  BY <1>1, StageCost
<1> DEFINE m == MaxAttempts * (Last - stage[r])
           n == MaxAttempts * Last
<1>3. m \in Nat /\ n \in Nat /\ n >= m + MaxAttempts
  BY <1>2
<1> HIDE DEF m, n
<1>4. m + (MaxAttempts - attempt[r]) \in 1..n
  BY <1>1, <1>3
<1> QED
  BY <1>4 DEF AttemptsLeft, m, n

\* A later stage leaves fewer attempts than any attempt at this one.
LEMMA LaterIsLess ==
    ASSUME TypeOK, NEW r \in Request, NEW where, NEW s \in Stage,
           s > stage[r], MoveTo(r, where, s)
    PROVE  AttemptsLeft(r)' < AttemptsLeft(r) /\ AttemptsLeft(r)' \in Nat
<1>1. /\ stage[r] \in 1..Last /\ attempt[r] \in 0..(MaxAttempts - 1) /\ s \in 1..Last
      /\ MaxAttempts \in Nat \ {0} /\ Last \in Nat
  BY Stages, PipelineConfiguration DEF TypeOK
<1>2. stage'[r] = s /\ attempt'[r] = 0
  BY MovedTo
<1> DEFINE m == MaxAttempts * (Last - stage[r])
           n == MaxAttempts * (Last - s)
<1>3. m \in Nat /\ n \in Nat /\ m >= n + MaxAttempts
  <2>1. Last - stage[r] \in Nat /\ Last - s \in Nat /\ Last - stage[r] > Last - s
    BY <1>1
  <2> QED
    BY <2>1, StageCost
<1>4. AttemptsLeft(r)' = n + MaxAttempts
  BY <1>1, <1>2, <1>3 DEF AttemptsLeft
<1>5. AttemptsLeft(r) = m + (MaxAttempts - attempt[r])
  BY DEF AttemptsLeft
<1> HIDE DEF m, n
<1> QED
  BY <1>1, <1>3, <1>4, <1>5

\* Every move of execute() and of the retry loop uses up a step.
LEMMA StepCounts ==
    ASSUME TypeOK, NEW r \in Request, Arrive(r) \/ Step(r)
    PROVE  StepsLeft(r)' < StepsLeft(r)
<1> DEFINE n == AttemptsLeft(r)
<1>1. n \in Nat \ {0}
  BY AttemptsLeftType, Stages, PipelineConfiguration
<1>2. pc = [u \in Request |-> pc[u]]
  BY DEF TypeOK
<1>3. ASSUME pc[r] = "running", NEW s, s \in Stage, s > stage[r], MoveTo(r, "running", s)
      PROVE  StepsLeft(r)' < StepsLeft(r)
  <2>1. pc'[r] = "running" /\ AttemptsLeft(r)' < n /\ AttemptsLeft(r)' \in Nat
    BY <1>3, MovedTo, LaterIsLess
  <2>2. StepsLeft(r)' = 2 * AttemptsLeft(r)' + 1
    BY <2>1 DEF StepsLeft
  <2>3. StepsLeft(r) = 2 * n + 1
    BY <1>3 DEF StepsLeft
  <2> HIDE DEF n
  <2> QED
    BY <1>1, <2>1, <2>2, <2>3
<1>4. ASSUME pc[r] = "running", pc'[r] \in {"piped", "err"}
      PROVE  StepsLeft(r)' < StepsLeft(r)
  <2>1. StepsLeft(r)' \in {0, 1}
    BY <1>4 DEF StepsLeft
  <2>2. StepsLeft(r) = 2 * n + 1
    BY <1>4 DEF StepsLeft
  <2> HIDE DEF n
  <2> QED
    BY <1>1, <2>1, <2>2
<1>5. ASSUME pc[r] = "running", NEW s, s \in Stage, s >= stage[r], Proceed(r, s)
      PROVE  StepsLeft(r)' < StepsLeft(r)
  <2>1. CASE s = Last
    BY <1>4, <1>5, <2>1, MovedTo DEF Proceed
  <2>2. CASE s # Last
    <3>1. s + 1 \in Stage /\ s + 1 > stage[r]
      BY <1>5, <2>2, Stages DEF TypeOK
    <3> QED
      BY <1>3, <1>5, <2>2, <3>1 DEF Proceed
  <2> QED
    BY <2>1, <2>2
<1>6. CASE Arrive(r)
  <2>1. /\ pc[r] = "new" /\ pc'[r] = "running"
        /\ stage' = stage /\ attempt' = attempt
    BY <1>2, <1>6 DEF Arrive
  <2>2. StepsLeft(r) = 2 * n + 2 /\ StepsLeft(r)' = 2 * n + 1
    BY <2>1 DEF StepsLeft, AttemptsLeft
  <2> HIDE DEF n
  <2> QED
    BY <1>1, <2>2
<1>7. CASE Wake(r)
  <2>1. /\ pc[r] = "sleeping" /\ pc'[r] = "running"
        /\ stage' = stage /\ attempt' = attempt
    BY <1>2, <1>7 DEF Wake
  <2>2. StepsLeft(r) = 2 * n + 2 /\ StepsLeft(r)' = 2 * n + 1
    BY <2>1 DEF StepsLeft, AttemptsLeft
  <2> HIDE DEF n
  <2> QED
    BY <1>1, <2>2
<1>8. CASE Respond(r)
  BY <1>2, <1>8 DEF Respond, StepsLeft
<1>9. CASE RouteOrPostProcess(r)
  <2>1. CASE Proceed(r, stage[r])
    BY <1>5, <1>9, <2>1, Stages DEF RouteOrPostProcess, TypeOK
  <2>2. CASE MoveTo(r, "err", stage[r])
    BY <1>4, <1>9, <2>2, MovedTo DEF RouteOrPostProcess
  <2> QED
    BY <1>9, <2>1, <2>2 DEF RouteOrPostProcess
<1>10. CASE PreProcess(r)
  <2>1. pc[r] = "running" /\ stage[r] \in Stage /\ stage[r] < Router
    BY <1>10 DEF PreProcess, TypeOK
  <2>2. CASE Proceed(r, stage[r])
    BY <1>5, <2>1, <2>2, Stages
  <2>3. CASE SkipToPost(r)
    BY <1>5, <2>1, <2>3, Stages DEF SkipToPost
  <2>4. ASSUME NEW v, Retries(r, stage[r], v), BackOff(r)
        PROVE  StepsLeft(r)' < StepsLeft(r)
    <3>1. /\ pc'[r] = "sleeping" /\ stage' = stage /\ attempt'[r] = attempt[r] + 1
      BY <1>2, <2>4 DEF BackOff, TypeOK
    <3>2. /\ attempt[r] \in Nat /\ MaxAttempts \in Nat
          /\ MaxAttempts * (Last - stage[r]) \in Int
      BY <2>1, Stages, PipelineConfiguration DEF TypeOK
    <3>3. AttemptsLeft(r)' = n - 1
      BY <3>1, <3>2 DEF AttemptsLeft
    <3>4. StepsLeft(r) = 2 * n + 1 /\ StepsLeft(r)' = 2 * (n - 1) + 2
      BY <2>1, <3>1, <3>3 DEF StepsLeft
    <3> HIDE DEF n
    <3> QED
      BY <1>1, <3>4
  <2>5. CASE MoveTo(r, "err", stage[r])
    BY <1>4, <2>1, <2>5, MovedTo
  <2> QED
    BY <1>10, <2>2, <2>3, <2>4, <2>5 DEF PreProcess
<1> QED
  BY <1>6, <1>7, <1>8, <1>9, <1>10 DEF Step

(***************************************************************************)
(* A request takes at most 2 * (max_attempts * stages) + 2 steps, however  *)
(* the middleware answers and whatever the bucket holds: each step of its  *)
(* own brings the count down, and no other request's step brings it up.    *)
(***************************************************************************)
THEOREM RequestsEnd == Spec => []StepsBounded /\ EveryStepCounts
<1>1. ASSUME TypeOK, NEW r \in Request
      PROVE  StepsLeft(r) \in 0..(2 * (MaxAttempts * Last) + 2)
  <2> DEFINE m == MaxAttempts * Last
             n == AttemptsLeft(r)
  <2>1. m \in Nat /\ n \in 1..m
    BY <1>1, AttemptsLeftType, Stages, PipelineConfiguration
  <2>2. StepsLeft(r) \in {0, 1, 2 * n + 1, 2 * n + 2}
    BY DEF StepsLeft
  <2> HIDE DEF m, n
  <2>3. StepsLeft(r) \in 0..(2 * m + 2)
    BY <2>1, <2>2
  <2> QED
    BY <2>3 DEF m
<1>2. ASSUME TypeOK, [Next]_vars, NEW r \in Request
      PROVE  /\ Arrive(r) \/ Step(r) => StepsLeft(r)' < StepsLeft(r)
             /\ ~(Arrive(r) \/ Step(r)) => StepsLeft(r)' = StepsLeft(r)
  <2>1. ASSUME Arrive(r) \/ Step(r)
        PROVE  StepsLeft(r)' < StepsLeft(r)
    BY <1>2, <2>1, StepCounts
  <2>2. ASSUME NEW u \in Request, u # r, Arrive(u) \/ Step(u)
        PROVE  StepsLeft(r)' = StepsLeft(r)
    <3>1. pc'[r] = pc[r] /\ stage'[r] = stage[r] /\ attempt'[r] = attempt[r]
      BY <1>2, <2>2, OthersKeep
    <3> QED
      BY <3>1 DEF StepsLeft, AttemptsLeft
  <2>3. ASSUME Elapse \/ UNCHANGED vars
        PROVE  StepsLeft(r)' = StepsLeft(r)
    BY <2>3 DEF Elapse, vars, reqVars, StepsLeft, AttemptsLeft
  <2>4. ASSUME ~(Arrive(r) \/ Step(r))
        PROVE  StepsLeft(r)' = StepsLeft(r)
    <3>1. CASE \E u \in Request : Arrive(u) \/ Step(u)
      <4>1. PICK u \in Request : Arrive(u) \/ Step(u)
        BY <3>1
      <4>2. u # r
        BY <2>4, <4>1
      <4> QED
        BY <2>2, <4>1, <4>2
    <3> QED
      BY <1>2, <2>3, <3>1 DEF Next
  <2> QED
    BY <2>1, <2>4
<1>3. TypeOK => StepsBounded
  BY <1>1 DEF StepsBounded
<1>4. TypeOK /\ [Next]_vars =>
        \A r \in Request :
           /\ Arrive(r) \/ Step(r) => StepsLeft(r)' < StepsLeft(r)
           /\ ~(Arrive(r) \/ Step(r)) => StepsLeft(r)' = StepsLeft(r)
  BY <1>2
<1> QED
  BY <1>3, <1>4, TypeCorrect, PTL DEF Spec, EveryStepCounts
=============================================================================
