----------------------------- MODULE MCPipeline ------------------------------
(***************************************************************************)
(* Chains for model checking Pipeline.                                     *)
(***************************************************************************)
EXTENDS Pipeline

\* Authorization, a retried rate limiter, a cache, and a retried user
\* middleware.
FullChain ==
    << [kind |-> "authz", retried |-> FALSE],
       [kind |-> "limiter", retried |-> TRUE],
       [kind |-> "cache", retried |-> FALSE],
       [kind |-> "user", retried |-> TRUE] >>

\* A cache that a RetryMiddleware wraps.
RetriedCache ==
    << [kind |-> "authn", retried |-> TRUE],
       [kind |-> "cache", retried |-> TRUE] >>
=============================================================================
