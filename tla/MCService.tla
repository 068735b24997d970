------------------------------ MODULE MCService ------------------------------
(***************************************************************************)
(* The parts of a service that share no state, for model checking: a       *)
(* behaviour is one of one part, while the others stay where they are.     *)
(***************************************************************************)
EXTENDS MemoryDatabase, LocalFileGateway, Configuration, DaemonRunner,
        ConsoleNotifier, RetryMiddleware, RestClient, RateLimiter, CachedService, TLC

CONSTANTS a, b, c1, c2, p1, p2

\* The database: texts u, v and a can be ids; 9 and 10 in text are the other
\* way round.
Null == [kind |-> "null", num |-> 0, text |-> 9]
Nine == [kind |-> "num", num |-> 9, text |-> 5]
Ten == [kind |-> "num", num |-> 10, text |-> 1]
TextA == [kind |-> "text", num |-> 0, text |-> 2]
TextU == [kind |-> "text", num |-> 0, text |-> 6]
TextV == [kind |-> "text", num |-> 0, text |-> 7]
N == <<"n">>
MCValue == {Null, Nine, Ten, TextA, TextU, TextV}
MCInserts == {IdField :> Nine @@ <<"_id">> :> TextA @@ N :> Nine, N :> Ten}
MCUpdates == {N :> Null, IdField :> TextA}
MCFilters == {<<>>, <<"n", "gte">> :> Scalar(Ten)}
MCOrders == [by : {N}, desc : BOOLEAN]
MCWithin == {<<TextA, TextA>>}

\* The files: a content of two chunks and one of one.
MCContent == {<<a, a>>, <<b>>}

\* gateway.toml: two fields, the value of the first any short text, or a
\* reference in a default, or two references.
Token == {"$", "{", "}", ":-", "V"}
FirstValue == UNION {[1..n -> Token] : n \in 0..2}
              \cup {<<"$", "{", "}">>, <<"$", "{", "V", "}">>, <<"$", "{", "W", ":-", "V", "}">>,
                    <<"$", "{", "V", ":-", "$", "{", "W", "}", "}">>,
                    <<"$", "{", "V", "}", "$", "{", "W", "}">>}
SecondValue == {<<"}">>, <<"$", "{", "W", "}">>, <<":-", "V", "}">>}
MCFiles == {<<[field |-> f, value |-> v], [field |-> "region", value |-> w]>> :
               f \in {"password", "host"}, v \in FirstValue, w \in SecondValue}
           \cup {<<[field |-> "database_type", value |-> <<"postgres">>]>>,
                   <<[field |-> "sink_type", value |-> <<"file">>],
                     [field |-> "path", value |-> <<"$", "{", "V", "}">>]>>}
\* A variable can end the string it stands in, with what is behind in a comment or
\* a field of its own, or escape the end of it.
MCEnvironment == {<<>>, <<"V">> :> <<"w">> @@ <<"W">> :> <<"w">>,
                  <<"W">> :> <<"$", "{", "V", "}">>}
                 \cup {<<"V">> :> v : v \in {<<Newline>>, <<Newline, "host">>, <<Quote>>,
                     <<"w", Quote, Comment>>, <<Backslash>>, <<Backslash, Backslash>>,
                     <<"w", Quote, Newline, "host", Quote>>}}
MCOverrides == {[field |-> "host", value |-> <<"w">>],
                [field |-> "provider", value |-> <<"stripe">>],
                [field |-> "sink_type", value |-> <<"file">>]}

\* Notifications: one whose subject is cut inside of a character.
Short == [id |-> 1, subject |-> <<1, 1>>]
Again == [id |-> 1, subject |-> <<1, 1, 1, 1, 1, 1>>]
Split == [id |-> 2, subject |-> <<1, 3, 3>>]
MCNotification == {Short, Again, Split}
MCBatches == {<<Short>>, <<Again, Split>>, <<Short, Again>>}

MCPredicates == {IsRetryable, {"backend"}}

\* Requests: a content type in two spellings, and credentials under a name that
\* is a default, the request's own, or neither.
MCHeaders == [name : {ContentType, Lower(ContentType), <<"x-api-key", "lower">>},
              value : {"x", "y"}]
MCAuths == {NoAuth, [kind |-> "bearer", header |-> ContentType, secret |-> "s"],
            [kind |-> "api_key", header |-> <<"x-api-key", "lower">>, secret |-> "s"]}
MCBases == {<<>>, <<"https://", "h">>, <<"https://", "h", "/", "v", "/", "/">>}
MCUrls == {<<>>, <<"/", "/", "u">>, <<"u", "/">>, <<"http://", "o", "/">>}

-----------------------------------------------------------------------------
VARIABLE part       \* the part that runs

mcVars == <<dbVars, fsVars, configVars, daemonVars, notifierVars, retryVars, restVars,
            limiterVars, cacheVars, part>>

\* The parts that do not run start in one of their initial states.
Init ==
    /\ part \in {"database", "files", "configuration", "daemon", "notifier", "retry",
                 "rest", "limiter", "cache"}
    /\ DbInit
    /\ part # "database" => tables = <<>>
    /\ FsInit
    /\ ConfigInit
    /\ part # "configuration" => env = <<>> /\ \A d \in 1..Depth : found[d] = <<>>
    /\ DaemonInit
    /\ NotifierInit
    /\ part # "notifier" => verbose
    /\ RetryInit
    /\ part # "retry" => policy.backoff.millis = 0
    /\ RestInit
    /\ part # "rest" => client.base = <<>>
    /\ LimiterInit
    /\ CacheInit

Next ==
    \/ /\ part = "database" /\ DbNext
       /\ UNCHANGED <<fsVars, configVars, daemonVars, notifierVars, retryVars, restVars,
                      limiterVars, cacheVars, part>>
    \/ /\ part = "files" /\ FsNext
       /\ UNCHANGED <<dbVars, configVars, daemonVars, notifierVars, retryVars, restVars,
                      limiterVars, cacheVars, part>>
    \/ /\ part = "configuration" /\ ConfigNext
       /\ UNCHANGED <<dbVars, fsVars, daemonVars, notifierVars, retryVars, restVars,
                      limiterVars, cacheVars, part>>
    \/ /\ part = "daemon" /\ DaemonNext
       /\ UNCHANGED <<dbVars, fsVars, configVars, notifierVars, retryVars, restVars,
                      limiterVars, cacheVars, part>>
    \/ /\ part = "notifier" /\ NotifierNext
       /\ UNCHANGED <<dbVars, fsVars, configVars, daemonVars, retryVars, restVars,
                      limiterVars, cacheVars, part>>
    \/ /\ part = "retry" /\ RetryNext
       /\ UNCHANGED <<dbVars, fsVars, configVars, daemonVars, notifierVars, restVars,
                      limiterVars, cacheVars, part>>
    \/ /\ part = "rest" /\ RestNext
       /\ UNCHANGED <<dbVars, fsVars, configVars, daemonVars, notifierVars, retryVars,
                      limiterVars, cacheVars, part>>
    \/ /\ part = "limiter" /\ LimiterNext
       /\ UNCHANGED <<dbVars, fsVars, configVars, daemonVars, notifierVars, retryVars,
                      restVars, cacheVars, part>>
    \/ /\ part = "cache" /\ CacheNext
       /\ UNCHANGED <<dbVars, fsVars, configVars, daemonVars, notifierVars, retryVars,
                      restVars, limiterVars, part>>

Spec == Init /\ [][Next]_mcVars

\* The files alone.
FilesSpec == Init /\ part = "files" /\ [][Next]_mcVars

\* Callers and paths are interchangeable, and nothing is asked of liveness.
Symmetric == Permutations({c1, c2}) \cup Permutations({p1, p2})
=============================================================================
