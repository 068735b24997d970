------------------------------ MODULE RestClient ------------------------------
(***************************************************************************)
(* RestClient (core/http/rest.rs) and the requests it is given             *)
(* (api/http.rs): a client is configured, a request is built, and send     *)
(* adds default headers and credentials and resolves the URL.  The client  *)
(* is a stub: it answers 200 by itself, so that what is sent is the request *)
(* as it is handed to the stub, and the URL the one it answers with.       *)
(*                                                                         *)
(* A header name is a word and how it is spelt: HashMap tells spellings    *)
(* apart.  A URL is a sequence of words, schemes and slashes.              *)
(***************************************************************************)
EXTENDS Naturals, Sequences

CONSTANTS
    Headers,        \* [name, value]: given to with_header
    BodyTypes,      \* the content types of bodies
    Auths,          \* HttpAuth: [kind, header, secret]
    Bases,          \* base_url: URLs, or <<>> for none
    Urls,           \* URLs of requests
    MaxGiven        \* bound on calls of the two builders

Word == {"content-type", "authorization", "x-api-key"}
ContentType == <<"content-type", "title">>
Lower(name) == <<name[1], "lower">>

ASSUME HeaderAssumption ==
    \A h \in Headers : h.name \in Word \X {"title", "lower"}
ASSUME UrlAssumption ==
    \A url \in Bases \cup Urls : url \in Seq({url[k] : k \in DOMAIN url})

VARIABLES
    client,         \* base URL, default headers and authentication
    request,        \* the request that is built
    given,          \* what its builder was given, in order: [name, value]
    exchange,       \* where the exchange is
    outgoing,       \* the request as it was sent
    response        \* the answer: its headers, and the URL its body tells

restVars == <<client, request, given, exchange, outgoing, response>>

-----------------------------------------------------------------------------
Scheme == {"http://", "https://"}
Absolute(url) == url # <<>> /\ url[1] \in Scheme
Slashes(url, S) == \A k \in S : url[k] = "/"
TrimEnd(url) == SubSeq(url, 1, CHOOSE n \in 0..Len(url) :
                                  /\ n = 0 \/ url[n] # "/"
                                  /\ Slashes(url, n + 1..Len(url)))
TrimStart(url) == SubSeq(url, CHOOSE n \in 1..Len(url) + 1 :
                                  /\ n > Len(url) \/ url[n] # "/"
                                  /\ Slashes(url, 1..n - 1), Len(url))

\* resolve_url: an absolute URL stays, another one is put behind the base.
ResolveUrl(base, url) ==
    IF base = <<>> \/ Absolute(url) THEN url
    ELSE TrimEnd(base) \o <<"/">> \o TrimStart(url)

PutHeader(headers, name, value) ==
    [n \in DOMAIN headers \cup {name} |-> IF n = name THEN value ELSE headers[n]]

\* A slip: a default header replaces the request's own.
ReplaceByDefaults(headers, defaults) ==
    [n \in DOMAIN headers \cup DOMAIN defaults |->
        IF n \in DOMAIN defaults THEN defaults[n] ELSE headers[n]]

\* entry().or_insert_with: a default header only fills in.
ApplyDefaults(headers, defaults) ==
    [n \in DOMAIN headers \cup DOMAIN defaults |->
        IF n \in DOMAIN headers THEN headers[n] ELSE defaults[n]]

\* apply_auth: a bearer token and basic credentials go into "Authorization", an
\* API key into the header it names.
AuthHeader(auth) ==
    IF auth.kind = "api_key" THEN auth.header ELSE <<"authorization", "title">>
Credentials(auth) == <<auth.kind, auth.secret>>
ApplyAuth(headers, auth) ==
    IF auth.kind = "none" THEN headers
    ELSE PutHeader(headers, AuthHeader(auth), Credentials(auth))

\* header: as it is asked for, or in lower case.
HeaderOf(headers, name) ==
    IF name \in DOMAIN headers THEN headers[name] ELSE headers[Lower(name)]

-----------------------------------------------------------------------------
NoAuth == [kind |-> "none", header |-> ContentType, secret |-> ""]
NoRequest == [url |-> <<>>, headers |-> <<>>, body |-> ""]

RestInit ==
    /\ client \in [base : Bases, defaults : {<<>>}, auth : {NoAuth}]
    /\ request = NoRequest
    /\ given = <<>>
    /\ exchange = "client"
    /\ outgoing = NoRequest
    /\ response = [headers |-> <<>>, url |-> <<>>]

\* with_header of HttpConfig.
WithDefault ==
    /\ exchange = "client"
    /\ \E h \in Headers :
          client' = [client EXCEPT !.defaults = PutHeader(@, h.name, h.value)]
    /\ UNCHANGED <<request, given, exchange, outgoing, response>>

WithAuth ==
    /\ exchange = "client"
    /\ \E auth \in Auths : client' = [client EXCEPT !.auth = auth]
    /\ UNCHANGED <<request, given, exchange, outgoing, response>>

\* HttpRequest::get, post, put and delete, which differ in the method they name.
NewRequest ==
    /\ exchange = "client"
    /\ \E url \in Urls : request' = [NoRequest EXCEPT !.url = url]
    /\ exchange' = "request"
    /\ UNCHANGED <<client, given, outgoing, response>>

Give(name, value, body) ==
    /\ exchange = "request" /\ Len(given) < MaxGiven
    /\ request' = [request EXCEPT !.headers = PutHeader(@, name, value), !.body = body]
    /\ given' = Append(given, [name |-> name, value |-> value])
    /\ UNCHANGED <<client, exchange, outgoing, response>>

WithHeader == \E h \in Headers : Give(h.name, h.value, request.body)

\* with_json, with_body and with_form set the content type as well.
WithBody == \E type \in BodyTypes : Give(ContentType, type, type)

MockResponse(url) ==
    [headers |-> PutHeader(<<>>, Lower(ContentType), "application/json"), url |-> url]

\* send: the defaults first, then the credentials.
SendRequest ==
    /\ exchange = "request"
    /\ outgoing' = [request EXCEPT
                   !.headers = ApplyAuth(ApplyDefaults(@, client.defaults), client.auth)]
    /\ exchange' = "sent"
    /\ response' = MockResponse(ResolveUrl(client.base, request.url))
    /\ UNCHANGED <<client, request, given>>

\* handle echoes the request as it came.
Handle ==
    /\ exchange = "request"
    /\ outgoing' = request
    /\ exchange' = "handled"
    /\ response' = MockResponse(request.url)
    /\ UNCHANGED <<client, request, given>>

RestNext ==
    \/ WithDefault \/ WithAuth \/ NewRequest \/ WithHeader \/ WithBody
    \/ SendRequest \/ Handle

RestSpec == RestInit /\ [][RestNext]_restVars
-----------------------------------------------------------------------------
\* What a request's builder was given under a name, and the last of it.
GivenAs(g, n) == {k \in DOMAIN g : g[k].name = n}
LastGiven(g, n) ==
    g[CHOOSE k \in GivenAs(g, n) : \A j \in GivenAs(g, n) : j <= k].value

\* A URL is its base and the rest, with one slash for those between them.
Joined(joined, base, url) ==
    \E i \in DOMAIN base, j \in 1..Len(url) + 1 :
        /\ joined = SubSeq(base, 1, i) \o <<"/">> \o SubSeq(url, j, Len(url))
        /\ base[i] # "/" /\ Slashes(base, i + 1..Len(base))
        /\ j = Len(url) + 1 \/ url[j] # "/"
        /\ Slashes(url, 1..j - 1)

\* In whatever order client and request were built, the header that is sent
\* under a name, as it is spelt, is the client's credentials if it is theirs,
\* else what the request was given last, a body's content type included, and a
\* default only if it was given none.  A relative URL follows the base after a
\* single slash, whatever slashes either had there, and nothing else is lost of
\* them; the answer's content type is found under either spelling.
OwnHeadersWin ==
    exchange = "sent" =>
        /\ DOMAIN outgoing.headers =
              {given[k].name : k \in DOMAIN given} \cup DOMAIN client.defaults
              \cup IF client.auth.kind = "none" THEN {} ELSE {AuthHeader(client.auth)}
        /\ \A n \in DOMAIN outgoing.headers :
              outgoing.headers[n] =
                 IF client.auth.kind # "none" /\ AuthHeader(client.auth) = n
                 THEN Credentials(client.auth)
                 ELSE IF GivenAs(given, n) # {} THEN LastGiven(given, n)
                 ELSE client.defaults[n]
        /\ ~Absolute(request.url) /\ Absolute(client.base) =>
              Joined(response.url, client.base, request.url)
        /\ HeaderOf(response.headers, ContentType)
              = HeaderOf(response.headers, Lower(ContentType))
=============================================================================
