---------------------------- MODULE Configuration ----------------------------
(***************************************************************************)
(* GatewayConfig (saf/config.rs): gateway.toml is looked for upwards, its  *)
(* text is expanded by the environment, parsed, and the sensitive fields   *)
(* are expanded once more.  Overrides, validation and the factories work   *)
(* on the result.                                                          *)
(*                                                                         *)
(* A text is a sequence of tokens.  A configuration file is a sequence of  *)
(* lines, a field and its value in quotes each: sections and values other  *)
(* than strings are left out.  The expansion sees the whole file, quotes   *)
(* and ends of lines too, and TOML reads what it makes of them.            *)
(***************************************************************************)
EXTENDS Naturals, Sequences, FiniteSets
Seqs == INSTANCE SequencesExt

CONSTANTS
    Files,          \* gateway.toml: sequences of [field, value]
    Environment,    \* functions from names of variables to texts
    Depth,          \* directories from the current one to the root
    Overrides,      \* [field, value]: what with_* closures set
    MaxOverrides    \* bound on them

ASSUME DepthAssumption == Depth \in Nat

Newline == "newline"
Quote == "quote"
Backslash == "backslash"
Comment == "#"
Opening == <<"$", "{">>

Fields == UNION {{file[k].field : k \in DOMAIN file} : file \in Files}

\* What values, and the variables they name, are written with.
Tokens ==
    UNION ({UNION {{file[k].value[i] : i \in DOMAIN file[k].value} : k \in DOMAIN file} :
               file \in Files}
           \cup {UNION {{e[n][i] : i \in DOMAIN e[n]} : n \in DOMAIN e} : e \in Environment})

\* A field is a bare key of TOML.
ASSUME TextAssumption ==
    /\ \A file \in Files : file \in Seq([field : Fields, value : Seq(Tokens)])
    /\ \A e \in Environment : \A n \in DOMAIN e : e[n] \in Seq(Tokens)
    /\ {"$", Newline, Quote, Comment} \cap Fields = {}

NotValidated == {"not validated"}

VARIABLES
    env,            \* the environment
    found,          \* gateway.toml of each directory, or <<>>
    verdict,        \* what validate says of config: the sections found wanting
    text,           \* the file's text, expanded or not
    config,         \* field by field; those not given are left out
    load,           \* where loading is, or the error
    overridden,     \* with_* calls so far
    built,          \* the gateways the factories made
    report          \* where the report was written to, or the error

configVars == <<env, found, verdict, text, config, load, overridden, built, report>>

\* The fields expand_env goes through, in this order.
Sensitive ==
    <<"connection_string", "password", "access_key", "secret_key", "base_url",
      "api_key", "payment_secret_key", "webhook_secret">>

-----------------------------------------------------------------------------
\* The first place from i on where pattern stands in s, or 0.
FindFrom(s, pattern, i) ==
    LET at == {k \in i..Len(s) : Seqs!IsPrefix(pattern, SubSeq(s, k, Len(s)))}
    IN  IF at = {} THEN 0 ELSE CHOOSE k \in at : \A j \in at : k <= j

Failed(error) == [error |-> error, text |-> <<>>]
Done(s) == [error |-> "", text |-> s]

\* `${NAME}` and `${NAME:-default}`.
Reference(expr, e) ==
    LET mark == FindFrom(expr, <<":-">>, 1)
        name == IF mark = 0 THEN expr ELSE SubSeq(expr, 1, mark - 1)
    IN  IF name \in DOMAIN e THEN Done(e[name])
        ELSE IF mark # 0 THEN Done(SubSeq(expr, mark + 1, Len(expr)))
        ELSE Failed("env_var")

\* A slip: a reference ends at the last closing brace there is.
LastBrace(s, i) ==
    LET at == {k \in i..Len(s) : s[k] = "}"}
    IN  IF at = {} THEN 0 ELSE CHOOSE k \in at : \A j \in at : k >= j
CloseBrace(s, i) == FindFrom(s, <<"}">>, i)

\* expand_env_vars, one piece after the other: a character or a reference, whose
\* value is not expanded in its turn; one that is not closed stays, with all
\* behind it.
Opens(s, i) == Seqs!IsPrefix(Opening, SubSeq(s, i, Len(s)))

Piece(s, e, i) ==
    LET close == CloseBrace(s, i + 2)
    IN  IF ~Opens(s, i) THEN Done(<<s[i]>>)
        ELSE IF close = 0 THEN Done(SubSeq(s, i, Len(s)))
        ELSE Reference(SubSeq(s, i + 2, close - 1), e)

After(s, i) ==
    LET close == CloseBrace(s, i + 2)
    IN  IF ~Opens(s, i) THEN i + 1
        ELSE IF close = 0 THEN Len(s) + 1
        ELSE close + 1

Join(r, q) ==
    IF r.error # "" \/ q.error # "" THEN Failed("env_var") ELSE Done(r.text \o q.text)

ExpandEnvVars(s, e) ==
    LET scan[i \in 1..Len(s) + 1] ==
            IF i > Len(s) THEN Done(<<>>) ELSE Join(Piece(s, e, i), scan[After(s, i)])
    IN  scan[1]

\* expand_opt.
ExpandOpt(s, e) == IF FindFrom(s, Opening, 1) # 0 THEN ExpandEnvVars(s, e) ELSE Done(s)

-----------------------------------------------------------------------------
Quoted(x) == <<Quote>> \o x \o <<Quote>>
Line(l) == <<l.field>> \o Quoted(l.value) \o <<Newline>>
TextOf(file) ==
    LET upto[k \in 0..Len(file)] == IF k = 0 THEN <<>> ELSE upto[k - 1] \o Line(file[k])
    IN  upto[Len(file)]

\* toml::from_str.  Behind the opening quote a string goes on to the first quote
\* that no backslash escapes; one that has none on its line is an error, and so is
\* an escape of anything but a quote or a backslash (the others are left out).
Escaped(t, k) == Cardinality({j \in 1..k - 1 : \A m \in j..k - 1 : t[m] = Backslash}) % 2 = 1
Escapes(t, k) == t[k] = Backslash /\ ~Escaped(t, k)
Closings(t) == {k \in 1..Len(t) : t[k] = Quote /\ ~Escaped(t, k)}
Closing(t) == CHOOSE k \in Closings(t) : \A j \in Closings(t) : k <= j

IsString(t) ==
    /\ Closings(t) # {}
    /\ \A k \in 1..Closing(t) - 1 : Escapes(t, k) => t[k + 1] \in {Quote, Backslash}
    /\ Closing(t) = Len(t) \/ t[Closing(t) + 1] = Comment

StringOf(t) ==
    LET upto[k \in 0..Closing(t) - 1] ==
            IF k = 0 THEN <<>>
            ELSE IF Escapes(t, k) THEN upto[k - 1] ELSE Append(upto[k - 1], t[k])
    IN  upto[Closing(t) - 1]

\* Every line that is not blank and no comment gives a field, once.
LinesOf(s) ==
    {l \in [first : DOMAIN s, end : DOMAIN s] :
        /\ l.first <= l.end /\ s[l.end] = Newline
        /\ \A k \in l.first..l.end - 1 : s[k] # Newline
        /\ l.first = 1 \/ s[l.first - 1] = Newline}
FieldLines(s) == {l \in LinesOf(s) : s[l.first] \notin {Newline, Comment}}
Opened(s, l) == SubSeq(s, l.first + 2, l.end - 1)

Parses(s) ==
    /\ s[Len(s)] = Newline
    /\ \A l \in FieldLines(s) :
          s[l.first] \in Fields /\ s[l.first + 1] = Quote /\ IsString(Opened(s, l))
    /\ \A l, m \in FieldLines(s) : s[l.first] = s[m.first] => l = m
Parse(s) ==
    [f \in {s[l.first] : l \in FieldLines(s)} |->
        StringOf(Opened(s, CHOOSE l \in FieldLines(s) : s[l.first] = f))]

\* Three quotes open a string of many lines, which is followed no further.
OpensMany(s) ==
    \E l \in FieldLines(s) : Seqs!IsPrefix(<<Quote, Quote, Quote>>, SubSeq(s, l.first + 1, l.end))

-----------------------------------------------------------------------------
ConfigInit ==
    /\ env \in Environment
    /\ \E at \in 1..Depth + 1, file \in Files :
          found = [d \in 1..Depth |-> IF d = at THEN file ELSE <<>>]
    /\ verdict = NotValidated
    /\ text = <<>>
    /\ config = <<>>
    /\ load = "search"
    /\ overridden = 0
    /\ built = {}
    /\ report = ""

\* load_config: the nearest file, or the defaults if there is none.
LoadConfig ==
    /\ load = "search"
    /\ LET dirs == {d \in 1..Depth : found[d] # <<>>}
       IN  IF dirs = {} THEN load' = "loaded" /\ UNCHANGED text
           ELSE /\ load' = "expand"
                /\ text' = TextOf(found[CHOOSE d \in dirs : \A o \in dirs : d <= o])
    /\ UNCHANGED <<env, found, verdict, config, overridden, built, report>>

\* load_config_from_str, its three steps.
ExpandText ==
    /\ load = "expand"
    /\ LET expanded == ExpandEnvVars(text, env)
       IN  IF expanded.error # "" THEN load' = expanded.error /\ UNCHANGED text
           ELSE load' = "parse" /\ text' = expanded.text
    /\ UNCHANGED <<env, found, verdict, config, overridden, built, report>>

FromStr ==
    /\ load = "parse"
    /\ IF Parses(text) THEN load' = "expand_env" /\ config' = Parse(text)
       ELSE /\ load' = IF OpensMany(text) THEN "many_lines" ELSE "parse_error"
            /\ UNCHANGED config
    /\ UNCHANGED <<env, found, verdict, text, overridden, built, report>>

ExpandEnv ==
    /\ load = "expand_env"
    /\ LET sensitive == DOMAIN config \cap {Sensitive[k] : k \in DOMAIN Sensitive}
           New(f) == ExpandOpt(config[f], env)
       IN  IF \E f \in sensitive : New(f).error # ""
           THEN load' = "env_var" /\ UNCHANGED config
           ELSE /\ load' = "loaded"
                /\ config' = [f \in DOMAIN config |->
                                 IF f \in sensitive THEN New(f).text ELSE config[f]]
    /\ UNCHANGED <<env, found, verdict, text, overridden, built, report>>

-----------------------------------------------------------------------------
\* with_file, with_database and the others; nothing is validated again.
With ==
    /\ load = "loaded" /\ overridden < MaxOverrides
    /\ \E o \in Overrides :
          config' = [f \in DOMAIN config \cup {o.field} |->
                        IF f = o.field THEN o.value ELSE config[f]]
    /\ overridden' = overridden + 1
    /\ verdict' = NotValidated /\ report' = ""
    /\ UNCHANGED <<env, found, text, load, built>>

Given(field) == field \in DOMAIN config /\ config[field] # <<>>
Is(field, values) == Given(field) /\ config[field][1] \in values

\* A slip: the rules stop at the gateways.
MissingFieldsOfGateways ==
    {section \in {"payment"} :
        Given("provider") /\ ~Is("provider", {"mock"}) /\ ~Given("api_key")}

\* validate: every section that lacks what its type requires.
MissingFields ==
    {section \in {"database", "file", "payment", "sink"} :
        \/ /\ section = "database"
           /\ Is("database_type", {"postgres", "mysql", "mongodb", "sqlite"})
           /\ ~Given("connection_string") /\ ~(Given("host") /\ Given("database"))
        \/ /\ section = "file"
           /\ Is("storage_type", {"s3", "gcs", "azure"}) /\ ~Given("region")
        \/ /\ section = "payment"
           /\ Given("provider") /\ ~Is("provider", {"mock"}) /\ ~Given("api_key")
        \/ /\ section = "sink"
           /\ Is("sink_type", {"file"}) /\ ~Given("path")}

Validate ==
    /\ load = "loaded"
    /\ verdict' = MissingFields
    /\ UNCHANGED <<env, found, text, config, load, overridden, built, report>>

\* The factories make the one implementation there is, whatever the type; they
\* share nothing, so one call is followed.
Build ==
    /\ load = "loaded" /\ built = {}
    /\ \E gateway \in {"LocalFileGateway", "MemoryDatabase", "RestClient",
                        "ConsoleNotifier", "MockPaymentGateway"} : built' = {gateway}
    /\ UNCHANGED <<env, found, verdict, text, config, load, overridden, report>>

\* write of ConfiguredOutputSink (core/output.rs): a file takes a path, which
\* may be empty; FileSink writes it through a gateway on its directory.
WriteReport ==
    /\ load = "loaded" /\ report = ""
    /\ report' = IF ~Is("sink_type", {"file"}) THEN "stdout"
                 ELSE IF "path" \in DOMAIN config THEN "file"
                 ELSE "invalid_input"
    /\ UNCHANGED <<env, found, verdict, text, config, load, overridden, built>>

ConfigNext ==
    \/ LoadConfig \/ ExpandText \/ FromStr \/ ExpandEnv
    \/ With \/ Validate \/ Build \/ WriteReport

ConfigSpec == ConfigInit /\ [][ConfigNext]_configVars
-----------------------------------------------------------------------------
\* A configuration that validate has accepted, as it is since, has a sink that
\* can be written, whatever its file, environment and overrides were.
ValidatedSinkWrites == verdict = {} => report # "invalid_input"

\* Every reference in it is closed.
Closed(value) ==
    \A i \in DOMAIN value :
        Opens(value, i) => \E j \in DOMAIN value : j > i /\ value[j] = "}"

\* It stays one string, whatever is around it: TOML reads neither an end of it nor
\* an escape in it.
Unquoted(value) == \A i \in DOMAIN value : value[i] \notin {Quote, Backslash}

\* Although the file is expanded as one text before TOML reads it, a field holds
\* what its own value expands to, whatever the other fields hold, as long as every
\* reference is closed in its field and neither values nor variables have quotes
\* or backslashes; with one, a variable may end its string, escape the end of it,
\* or bring fields.  Only a sensitive field that still has a reference in it then,
\* out of a variable or a default, may differ.
FieldsAsWritten ==
    load = "loaded" /\ overridden = 0 =>
        \A d \in 1..Depth :
            /\ found[d] # <<>> /\ (\A o \in 1..d - 1 : found[o] = <<>>)
            /\ \A k \in DOMAIN found[d] : Closed(found[d][k].value) /\ Unquoted(found[d][k].value)
            /\ \A n \in DOMAIN env : Unquoted(env[n])
            => \A k \in DOMAIN found[d] :
                  LET l == found[d][k]
                      once == ExpandEnvVars(l.value, env)
                  IN  /\ once.error = ""
                      /\ \/ config[l.field] = once.text
                         \/ /\ \E i \in DOMAIN Sensitive : Sensitive[i] = l.field
                            /\ FindFrom(once.text, Opening, 1) # 0
=============================================================================
