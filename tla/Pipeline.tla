------------------------------ MODULE Pipeline -------------------------------
(***************************************************************************)
(* The request pipeline of swe-gateway: process_via_pipeline               *)
(* (src/api/process.rs) over DefaultPipeline::execute                      *)
(* (src/core/pipeline.rs), with the middleware the crate ships:            *)
(* AuthMiddleware, RateLimiter and RetryMiddleware around another one.     *)
(*                                                                         *)
(* Concurrent requests run the same chain and share the rate limiter's     *)
(* bucket, which is TokenBucket here: RateLimiterProofs shows that the     *)
(* code's limiter implements it.  Middleware the crate does not ship is    *)
(* a "cache", as in docs/4-development/developer_guide.md, which           *)
(* short-circuits with a response it has, or a "user" middleware, which    *)
(* may fail in either way.                                                 *)
(*                                                                         *)
(* Stages are numbered: the pre-middleware, the router, the                *)
(* post-middleware.  A request is carried by its position and by what the  *)
(* stages last said of it; payloads are left out.                          *)
(***************************************************************************)
EXTENDS Integers, Sequences

CONSTANTS
    Request,
    Pre,            \* the pre-middleware: records [kind, retried]
    PostCount,      \* how many post-middleware there are
    MaxAttempts,    \* RetryMiddleware::max_attempts
    Full, Unit, Rate    \* the rate limiter's bucket

Kind == {"authn", "authz", "limiter", "cache", "user"}

ASSUME PipelineConfiguration ==
    /\ Pre \in Seq([kind : Kind, retried : BOOLEAN])
    /\ PostCount \in Nat
    /\ MaxAttempts \in Nat \ {0}    \* asserted by RetryMiddlewareBuilder
    /\ Full \in Nat /\ Unit \in Nat \ {0} /\ Unit <= Full /\ Rate \in Nat \ {0}

Router == Len(Pre) + 1
Last == Router + PostCount
Stage == 1..Last

\* What a stage says: continue (for the router and post-middleware, a
\* response), a response instead of going on, or an error.
Verdict == {"continue", "short_circuit", "retryable", "fatal"}

\* What the chain looks at in a request: its credentials, and whether the
\* cache has its response.
Credentials == {"absent", "rejected", "unauthorized", "valid"}

VARIABLES
    cred, cached,   \* cred[r], cached[r]: what request r carries
    pc,             \* pc[r]: where r is; "piped" is behind the last stage
    stage,          \* stage[r]: the stage r is at
    attempt,        \* attempt[r]: retries made at this stage
    said,           \* history: said[r][s], the latest verdict of stage s
    calls,          \* history: calls[r][s], how often stage s was invoked
    level, reply    \* the bucket

reqVars == <<cred, cached, pc, stage, attempt, said, calls>>
vars == <<reqVars, level, reply>>

Limiter == INSTANCE TokenBucket

Init ==
    /\ cred = [r \in Request |-> "absent"]
    /\ cached = [r \in Request |-> FALSE]
    /\ pc = [r \in Request |-> "new"]
    /\ stage = [r \in Request |-> 1]
    /\ attempt = [r \in Request |-> 0]
    /\ said = [r \in Request |-> [s \in Stage |-> "none"]]
    /\ calls = [r \in Request |-> [s \in Stage |-> 0]]
    /\ Limiter!Init

\* A request arrives: process_via_pipeline begins.
Arrive(r) ==
    /\ pc[r] = "new"
    /\ pc' = [pc EXCEPT ![r] = "running"]
    /\ cred' \in {[cred EXCEPT ![r] = c] : c \in Credentials}
    /\ cached' \in {[cached EXCEPT ![r] = b] : b \in BOOLEAN}
    /\ UNCHANGED <<stage, attempt, said, calls, level, reply>>

-----------------------------------------------------------------------------
\* AuthMiddleware, with and without an authorizer.  Its process_request()
\* goes through process_request_action(), so wrapping it changes nothing.
Admitted(kind, c) ==
    CASE kind = "authn" -> c \in {"unauthorized", "valid"}
      [] kind = "authz" -> c = "valid"
      [] OTHER -> TRUE

\* A slip: an authorizer is consulted, and its denial is not returned.
AuthVerdictAuthnOnly(r, kind) ==
    IF Admitted("authn", cred[r]) THEN {"continue"} ELSE {"fatal"}

AuthVerdict(r, kind) ==
    IF Admitted(kind, cred[r]) THEN {"continue"} ELSE {"fatal"}

\* The cache of the developer guide: only process_request_action() looks.
\* RetryMiddleware calls process_request() of what it wraps, which goes on.
CacheVerdict(r, retried) ==
    IF cached[r] /\ ~retried THEN {"short_circuit"} ELSE {"continue"}

\* What the middleware of stage s says to r in one invocation.
Answers(r, s, v) ==
    LET m == Pre[s]
    IN  \/ /\ m.kind \in {"authn", "authz"}
           /\ v \in AuthVerdict(r, m.kind)
           /\ UNCHANGED <<level, reply>>
        \/ /\ m.kind = "cache"
           /\ v \in CacheVerdict(r, m.retried)
           /\ UNCHANGED <<level, reply>>
        \/ /\ m.kind = "user"
           /\ v \in {"continue", "retryable", "fatal"}
           /\ UNCHANGED <<level, reply>>
        \/ /\ m.kind = "limiter"
           /\ \/ v = "continue" /\ Limiter!Grant
              \/ v = "retryable" /\ Limiter!Refuse

\* The count of invocations, which stops just above the bound it must keep.
Counted(n) == IF n > MaxAttempts THEN n ELSE n + 1

Record(r, s, v) ==
    /\ said' = [said EXCEPT ![r][s] = v]
    /\ calls' = [calls EXCEPT ![r][s] = Counted(@)]

MoveTo(r, where, s) ==
    /\ pc' = [pc EXCEPT ![r] = where]
    /\ stage' = [stage EXCEPT ![r] = s]
    /\ attempt' = [attempt EXCEPT ![r] = 0]

\* Past stage s; execute() returns the response of the last one.
Proceed(r, s) ==
    IF s = Last THEN MoveTo(r, "piped", s) ELSE MoveTo(r, "running", s + 1)

\* To the first post-middleware, over the stages in between.
\* Slips: one stage short of it, and straight to the caller.
SkipToRouter(r) == MoveTo(r, "running", Router)
SkipToCaller(r) == MoveTo(r, "piped", stage[r])
SkipToPost(r) == Proceed(r, Router)

\* RetryMiddleware goes round again: not after the last attempt, and not
\* after an error that is not retryable.  Slips: either check is lost.
RetriesForEver(r, s, v) == Pre[s].retried /\ v = "retryable"
RetriesAnything(r, s, v) ==
    /\ Pre[s].retried
    /\ v \in {"retryable", "fatal"}
    /\ attempt[r] + 1 < MaxAttempts

Retries(r, s, v) ==
    /\ Pre[s].retried
    /\ v = "retryable"
    /\ attempt[r] + 1 < MaxAttempts

\* A slip: the attempt is not counted.
BackOffUncounted(r) ==
    /\ pc' = [pc EXCEPT ![r] = "sleeping"]
    /\ UNCHANGED <<stage, attempt>>

BackOff(r) ==
    /\ pc' = [pc EXCEPT ![r] = "sleeping"]
    /\ attempt' = [attempt EXCEPT ![r] = @ + 1]
    /\ UNCHANGED stage

\* One invocation of the pre-middleware at stage[r], and what execute() and
\* a RetryMiddleware around it do with the verdict.
PreProcess(r) ==
    LET s == stage[r]
    IN  /\ pc[r] = "running"
        /\ s < Router
        /\ \E v \in Verdict :
              /\ Answers(r, s, v)
              /\ Record(r, s, v)
              /\ \/ v = "continue" /\ Proceed(r, s)
                 \/ v = "short_circuit" /\ SkipToPost(r)
                 \/ Retries(r, s, v) /\ BackOff(r)
                 \/ /\ v \in {"retryable", "fatal"}
                    /\ ~Retries(r, s, v)
                    /\ MoveTo(r, "err", s)
        /\ UNCHANGED <<cred, cached>>

\* The sleeper wakes the retry loop.
Wake(r) ==
    /\ pc[r] = "sleeping"
    /\ pc' = [pc EXCEPT ![r] = "running"]
    /\ UNCHANGED <<cred, cached, stage, attempt, said, calls, level, reply>>

\* The router, and then every post-middleware; ? hands their errors out.
RouteOrPostProcess(r) ==
    LET s == stage[r]
    IN  /\ pc[r] = "running"
        /\ s >= Router
        /\ \/ Record(r, s, "continue") /\ Proceed(r, s)
           \/ Record(r, s, "fatal") /\ MoveTo(r, "err", s)
        /\ UNCHANGED <<cred, cached, level, reply>>

\* into_response() makes the typed response, or fails.
Respond(r) ==
    /\ pc[r] = "piped"
    /\ pc' \in {[pc EXCEPT ![r] = end] : end \in {"ok", "err"}}
    /\ UNCHANGED <<cred, cached, stage, attempt, said, calls, level, reply>>

Step(r) == PreProcess(r) \/ Wake(r) \/ RouteOrPostProcess(r) \/ Respond(r)

Elapse == Limiter!Elapse /\ UNCHANGED reqVars

Next == Elapse \/ \E r \in Request : Arrive(r) \/ Step(r)

\* The runtime polls every request that can go on, and timers fire.
Fairness == \A r \in Request : WF_vars(Step(r))

Spec == Init /\ [][Next]_vars /\ Fairness

-----------------------------------------------------------------------------
TypeOK ==
    /\ cred \in [Request -> Credentials]
    /\ cached \in [Request -> BOOLEAN]
    /\ pc \in [Request -> {"new", "running", "sleeping", "piped", "ok", "err"}]
    /\ stage \in [Request -> Stage]
    /\ attempt \in [Request -> 0..(MaxAttempts - 1)]
    /\ said \in [Request -> [Stage -> Verdict \cup {"none"}]]
    /\ calls \in [Request -> [Stage -> 0..MaxAttempts]]
    /\ level \in 0..Full

Passed(r, s) == said[r][s] = "continue"
ShortCircuited(r) == \E s \in 1..Len(Pre) : said[r][s] = "short_circuit"

\* What lies behind request r when it comes to stage s.
InOrder(r, s) ==
    IF s <= Router
    THEN \A q \in 1..(s - 1) : Passed(r, q)
    ELSE /\ Passed(r, Router) <=> ~ShortCircuited(r)
         /\ \A q \in (Router + 1)..(s - 1) : Passed(r, q)

(***************************************************************************)
(* The router is only reached by a request that every pre-middleware, in   *)
(* order, let pass; a response comes from the router or from one short     *)
(* circuit, never from both; and post-middleware only ever see a response. *)
(***************************************************************************)
StagesInOrder ==
    \A r \in Request, s \in Stage : calls[r][s] > 0 => InOrder(r, s)

(***************************************************************************)
(* A caller that gets a response gets one that all post-middleware passed, *)
(* short-circuited or not, each run once.                                  *)
(***************************************************************************)
ResponsePostProcessed ==
    \A r \in Request :
        pc[r] \in {"piped", "ok"} =>
            /\ InOrder(r, Last + 1)
            /\ \A s \in (Router + 1)..Last : calls[r][s] = 1

(***************************************************************************)
(* No stage behind AuthMiddleware up to the router sees a request it would *)
(* deny, whether or not a RetryMiddleware wraps it.  (The post-middleware  *)
(* may: in front of AuthMiddleware a short circuit skips it.)              *)
(***************************************************************************)
AuthGatesTheRest ==
    \A r \in Request, a \in 1..Len(Pre), s \in 1..Router :
        a < s /\ calls[r][s] > 0 => Admitted(Pre[a].kind, cred[r])

(***************************************************************************)
(* RetryMiddleware invokes what it wraps at most max_attempts times, and   *)
(* only goes on after a retryable error: a denied request is denied once.  *)
(***************************************************************************)
RetryBounded ==
    \A r \in Request, s \in 1..Len(Pre) :
        /\ calls[r][s] <= (IF Pre[s].retried THEN MaxAttempts ELSE 1)
        /\ pc[r] = "sleeping" /\ stage[r] = s => said[r][s] = "retryable"

(***************************************************************************)
(* A verdict that ends a stage is final: once a stage let the request      *)
(* pass, answered it or failed it for good, it is not asked again.         *)
(***************************************************************************)
NoSecondThoughts ==
    [][\A r \in Request, s \in Stage :
          said[r][s] \in {"continue", "short_circuit", "fatal"}
          => said'[r][s] = said[r][s] /\ calls'[r][s] = calls[r][s]]_vars

(***************************************************************************)
(* Every request that arrives is answered, with a response or an error:    *)
(* retries end, also when the bucket stays empty.                          *)
(***************************************************************************)
RequestsAnswered ==
    \A r \in Request : pc[r] = "running" ~> pc[r] \in {"ok", "err"}

(***************************************************************************)
(* pipeline.rs:152: "Post-middleware always runs, even on short-circuited  *)
(* responses."  The code ends the request at the first error, so a request *)
(* that fails in a pre-middleware or in the router meets none.             *)
(***************************************************************************)
PostAlwaysRuns ==
    \A r \in Request :
        pc[r] \in {"ok", "err"} => \A s \in (Router + 1)..Last : calls[r][s] > 0

(***************************************************************************)
(* middleware.rs:11: "When a middleware short-circuits, remaining          *)
(* pre-middleware and the router are skipped."  A RetryMiddleware around a *)
(* middleware that would short-circuit asks it another question, and the   *)
(* request goes on to the router.                                          *)
(***************************************************************************)
CacheHitSkipsRouter ==
    \A r \in Request :
        cached[r] /\ (\E s \in 1..Len(Pre) : Pre[s].kind = "cache")
        => calls[r][Router] = 0
=============================================================================
