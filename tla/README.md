# swe-gateway: a verification project

TLA+ models of swe-gateway, an async Rust crate of gateway providers
(database, file, payment, notification, HTTP) with a middleware pipeline, a rate
limiter, retries and lazily initialized services. The modules are translated
from `src/src` (the crate's source tree) and `src/xtask/src` (the commands that
publish it); TLC checks them on small
instances, TLAPS proves the central results for every value of the constants.

- [1. The system](#1-the-system): components, state, interaction, hazards
- [2. The modules](#2-the-modules-and-the-code): what models what
- [3. Model checking](#3-model-checking): runs, bounds, fairness, disagreements
- [4. Proofs](#4-proofs): what is proved, and along which argument
- [5. Limits](#5-limits): only model-checked, not modelled
- [6. What is left](#6-what-is-left)

## 1. The system

The crate follows a layering `api` (traits and types), `core` (implementations),
`saf` (facade: builders, configuration). Futures run on a multi-threaded runtime
and share their components through `Arc`; whatever a component keeps is behind a
lock of its own.

| Component | State | Operations | What makes it correct |
|---|---|---|---|
| Request pipeline (`core/pipeline.rs`, `api/middleware.rs`, `api/process.rs`) | the chain, fixed after construction; per request: where it is | `execute`, `process_via_pipeline` | stages in order; one response; post-middleware sees every response; an error ends the request |
| RetryMiddleware (`core/retry.rs`) | none; per request: the attempt | `process_request`, `compute_delay` | at most `max_attempts`; only retryable errors; it ends |
| AuthMiddleware (`core/auth_middleware.rs`) | none | `process_request(_action)` | nothing behind it sees a denied request |
| RateLimiter (`core/rate_limit.rs`) | tokens, last refill, under a mutex | `try_acquire`, `available_tokens`, `process_request` | no window admits more than bucket plus inflow; none is refused less |
| MetricsResponseMiddleware (`core/metrics_bridge.rs`) | none | `process_response` | hands every response on |
| CachedService (`state.rs`) | `inner`, under a lock | `get_or_init`, `get`, `reset`, `is_initialized` | one instance between resets |
| ConfiguredCache (`state.rs`) | `service` and `config`, a lock each | `get_or_init_with_config`, `reset`, ... | the pair belongs together; the answer matches the request; no deadlock |
| MockPaymentGateway (`core/payment/mock.rs`) | payments, refunds (customers, methods), a lock each | create, capture, cancel, refund, ... | a refunded payment has a refund, although ids are used again; calls return |
| MemoryDatabase (`core/database/memory.rs`) | tables under one lock | insert, batch and predicate writes, get, count, query with filter, order, limit | rows add up to what callers were told; a row is under its id; pages cover the table in order |
| LocalFileGateway (`core/file/local.rs`) | the file system | read, write, list, copy, rename, delete, create and delete directory | files at rest are whole; a call that is alone is exact; a listing is complete |
| ConsoleNotifier (`core/notification/console.rs`) | receipts by id, under a lock | `send`, `send_batch`, `cancel`, `get_status` | a receipt that was handed out stands |
| RestClient (`core/http/rest.rs`, `api/http.rs`) | base URL, default headers, credentials; per request: its headers and body | `HttpConfig`, `HttpRequest` builders, `with_auth`, `send`, `get`, `post_json`, ..., `handle` | the request's own headers win over defaults, credentials over both |
| Input/output (`core/input.rs`, `core/output.rs`) | none | read a file or tree; write a report to stdout or a file | a sink that validation accepts can be written |
| DaemonRunner (`core/daemon.rs`) | the builder; per run: the sidecar's handle | builder, `run` | no sidecar without observability, none outlives the server |
| Configuration (`saf/config.rs`, `saf/builders.rs`) | the configuration | load, expand variables, override, validate, build | a field holds what its own text expands to |
| xtask publish (`xtask/src/publish.rs`, `index.rs`, `registry.rs`) | index files under git, download files | order, phase 1, phase 2 | a committed checksum is the served file's; no version is lost; dependencies first |
| xtask ws (`xtask/src/workspace.rs`, `main.rs`) | directories, root Cargo.toml | `rename`, `mv`, `bulk-rename`, `sync` | members and dependency paths are the crates' directories |

Interaction. A request goes through `process_via_pipeline`, which calls
`DefaultPipeline::execute`; that calls each pre-middleware's
`process_request_action`, the router, and each post-middleware's
`process_response`. RetryMiddleware wraps another middleware and calls that one's
`process_request`. All requests share one RateLimiter. Providers made from
configuration are cached in CachedService and ConfiguredCache. FileSink and the
configured sink write through LocalFileGateway. The other providers share nothing
with one another. The xtask commands run outside the service: they are killed and
run again by hand, and leave their state on disk.

Hard behaviours, listed line by line in `PROJECT.json` under `hazards`:

- *Interleaving.* `get_or_init` and `get_or_init_with_config` initialize while
  they hold no lock, so tasks race to store and a reset may come in between.
  Concurrent requests drain the bucket that a retry loop waits for.
- *Lock order.* ConfiguredCache takes two locks in one order everywhere;
  `create_refund` does not.
- *Partial failure.* A stage, an initialization, an attempt fails half way.
- *Numbers.* Lazy refill at irregular times; capping; back-off in saturating `u64`;
  a subject cut at a byte; numbers that are ordered as text.
- *Timeouts and retries.* What is retried, how often, how long it waits, and that it
  ends.
- *Check, then act.* `write` looks for the file and then creates it; `list` reads a
  directory and then each file's metadata; `insert` creates its table and then stores.
- *Text that is taken for structure.* Variables are expanded in the whole of
  gateway.toml before it is parsed, so that a quote in one ends a string; paths in
  Cargo.toml are compared and replaced as text, while the system goes by where they lead.
- *Crashes.* Publishing and renaming may be killed between any two steps, and in the
  middle of writing an index file; the command is then run again. Nothing else in
  the repository survives its process.

## 2. The modules and the code

| Module | Models | Notes |
|---|---|---|
| `TokenBucket` | what a rate limiter promises | abstract: fills as time passes |
| `RateLimiter` | `core/rate_limit.rs` | implements `TokenBucket` with `level <- Refilled` |
| `OnceCell` | what a lazily initialized cell promises | abstract: filled at most once between clearings |
| `CachedService` | `CachedService` in `state.rs` | implements `OnceCell` with `cell <- inner, epoch <- resets` |
| `RwLock` | parking_lot's and std's reader-writer lock, as a value | operators only |
| `ConfiguredCache` | `ConfiguredCache` in `state.rs` | over two `RwLock` values |
| `Pipeline` | pipeline, auth, retry, metrics, `process_via_pipeline` | composes with `TokenBucket` |
| `MCPipeline` | chains for the runs of `Pipeline` | |
| `PaymentGateway` | payments and refunds in `core/payment/mock.rs` | over two `RwLock` values |
| `MemoryDatabase` | `core/database/memory.rs`, queries of `api/database.rs` | |
| `LocalFileGateway` | `core/file/local.rs` | system calls over inodes |
| `ConsoleNotifier` | `core/notification/console.rs` | |
| `RetryMiddleware` | `core/retry.rs`: builder, delays, loop | `Pipeline` has the loop without the delays |
| `RestClient` | `core/http/rest.rs`, `api/http.rs` | |
| `Configuration` | `saf/config.rs`, `core/output.rs` | |
| `DaemonRunner` | `core/daemon.rs` | |
| `MCService` | the seven modules above, `RateLimiter` and `CachedService`, one at a time | |
| `Publish` | `xtask publish` | |
| `Workspace` | `xtask ws` | |
| `MCXtask` | the two modules above, one at a time | |
| `ServiceProofs` | theorems about six of the seven modules of `MCService` | section 4 |
| `XtaskProofs` | theorems about `Publish` and `Workspace` | section 4 |
| the other `*Proofs` | theorems about the module they are named after | section 4 |

Each module begins with what it abstracts. The correspondence, in short:

**RateLimiter.** `tokens` and `last_refill` are the fields of `BucketState`.
`try_acquire` is `Acquire` or `Refuse`, `available_tokens` is `AvailableTokens`;
each credits the elapsed time first (`Refilled`), as the code does, also when it
refuses. Everything from reading the clock to unlocking is one step, because the
code reads the clock under the mutex. `CapacityArg` and `RateArg` are what the
builder is given, and `capacity` and `refill_rate` what its clamps make of them.
`f64` tokens are integers of `Unit` sub-tokens. `grants` is a history variable.

**CachedService.** `Hit` and `Miss` are the read-locked fast path, `InitOk` and
`InitFails` the unlocked `init().await` (a dropped future is a failed one),
`StoreFirst` the write-locked double check, `Reset` is `reset`. Each section that holds
the lock touches nothing else and contains no await: it is one step.

**ConfiguredCache.** Here two locks are held together, so taking each lock is a
step: `ReadService`/`ReadConfig` are the fast path, `StoreLockService`,
`StoreService`, `StoreConfig` the store, `ResetFirst`, `ResetSecond`,
`ResetConfig` the reset. `QueueForWrite` is the writer that has begun to wait and
from then on blocks new readers, which is what makes lock cycles through readers
possible.

**Pipeline.** Stages are numbered: pre-middleware `1..Len(Pre)`, `Router`, then
post-middleware up to `Last`. `PreProcess` is one turn of the loop over
pre-middleware with one attempt of RetryMiddleware inside; `BackOff` and `Wake` are
its sleep; `SkipToPost` is the short circuit; `RouteOrPostProcess` is the rest of
`execute`; `Respond` is `into_response`. `said` and `calls` record what each
stage last said and how often it was invoked. A middleware of kind `cache`
short-circuits and one of kind `user` fails either way; they stand for middleware
outside the crate, like the cache in `docs/4-development/developer_guide.md`.

**PaymentGateway.** `create_payment`, `capture_payment`, `cancel_payment` and
`add_payment` hold one lock and are one step (`Overwrite`). `create_refund` is
`ReadPayment`, `StoreRefund`, `MarkPayment`, one per lock it takes. Both tables are maps
from ids that callers choose: a refund under a used id replaces the earlier one
(`Insert`), of another payment too, which is then left refunded without a refund;
`unbacked` is the history of those, and of payments seeded as refunded. The code sets a
status whatever it was before: a refunded payment can be captured or cancelled again, a
second `create_payment` with an id replaces the first, and refunds of one payment
are never summed. The actions allow all of this; no property forbids it, because
nothing in the repository promises otherwise.

**MemoryDatabase.** Each operation is one critical section and one action, but
`insert` and `batch_insert` (`EnsureTable`, then `Insert` or `BatchInsert`). A JSON
value keeps its kind, its number and the place of its text among all texts, which is
what `compare_values` and the filters look at. `HashMap`'s order is any order, until
the next write. `reported`, `inserted` and `renamed` are history variables;
`pager` is a caller that reads a table page by page (`QueryPage` is `query`).
`compare_values` is no order where a column mixes numbers and texts (9 < 10 < the
text "1a" < 9), so that pages are required to cover the table always, and to be
in order over a column of numbers and nulls.

**LocalFileGateway.** A call is the sequence of system calls it awaits: `BeginWrite`
is the check of `overwrite`, then `CreateParent`, `CreateFile`, `WriteChunk`,
`FinishWrite` (tokio's write returns before the data is written, hence the flush) and
`Return`; `copy`, `read`, `list` and the removal of a directory likewise, while
`rename`, `delete` and `create_directory` are one step. A directory maps names to
inodes, and an open handle keeps its inode, as the operating system does it. `mixed` is
the history of which inodes two calls wrote at once.

**ConsoleNotifier.** `Send` is the call, with one notification or a batch; `PrintBox`
and `Panic` are `format_notification`, `StoreReceipt` the insertion under the lock.
A verbose notifier slices the subject at byte 45, which panics inside of a
character. `get_status` of an id that is not known says pending.

**RetryMiddleware.** The builder's calls in any order (`SetMaxAttempts`,
`FixedBackoff`, `ExponentialBackoff`, `RetryPredicate`), then the loop: `InnerSucceeds`,
`InnerFails`, `Awake`. `ComputeDelay` is `compute_delay` with its jitter, over a
word of four bits.

**RestClient.** `WithDefault` and `WithAuth` configure the client, `NewRequest`,
`WithHeader` and `WithBody` build a request, `SendRequest` is `send`, and `get`,
`post_json` and the others are their sequence. Names of headers are told apart by
their spelling, as the `HashMap` does. Nothing leaves the process: the client is a
stub, and `max_retries`, `timeout_secs` and the redirect settings are used nowhere.

**Configuration.** `LoadConfig` looks for the nearest gateway.toml; `ExpandText`,
`FromStr` and `ExpandEnv` are the three steps of `load_config_from_str`. A text is a
sequence of tokens (`$`, `{`, `}`, `:-`, a name, a quote, a backslash, `#`, the end of a
line), and the file one of lines, a field and a basic string each. The expansion knows
nothing of that. `Parses` and `Parse` are what TOML makes of the text afterwards:
where each string really ends, which escapes it holds, what is a comment, and that a
field stands once. `With` stands for
`with_file` and its siblings, `Validate` for `validate`, `Build` for the factories,
which make the one implementation there is whatever type is configured, and
`WriteReport` for the configured sink.

**DaemonRunner.** The builder's methods, then `run`: `RefuseBind`, `RunLightweight`
or `RunObserved`, and `ServerReturns`. `with_obsrv_port(0)` is documented to disable
the sidecar; the code passes 0 on like any other port, and so does the model
(`daemon_zero_port`).

**Publish.** One run of the command at a time: `Begin` sorts, `Register` and
`CommitStubs` are phase 1, `Package`, `Copy`, `UpdateIndex` and `CommitEntry` phase 2.
`Stop` is a failure or kill at any step, `Tear` one in the middle of writing an index
file. `index` is the working tree and `committed` what git has, which is what cargo
reads; `served` is the download directory. A checksum is the content it is of.

**Workspace.** `RenameDir` (rename and mv) and `BulkRename`/`BulkMove` move
directories, `UpdateCargoToml(Bulk)` writes Cargo.toml afterwards, `RenameFails` and
`BulkFails` are a move that is refused or fails after its parents were made, `Interrupt`
is an end before Cargo.toml is written, `Sync` looks for lost crates. Paths are
sequences over `Letter`, with "/" among them. `Resolve` is the directory a path leads
to: `a/x/` and `./a/x` are `a/x` to `exists()` and `fs::rename`, and other texts than
`a/x` to the code that looks for them in Cargo.toml. So `mv a/x/ c/x` moves the directory
and leaves `a/x` in Cargo.toml, where `sync` finds the crate again; `untidy` records it
("respelled"), and `RenameKeepsPaths` is about paths that are given as Cargo.toml has them.

Definitions that a comment calls a slip are not part of the specification. Each is
a change that someone could make to the code by mistake; `mutants` in
`PROJECT.json` pairs it with the property that then fails, so that every property
is known to say something.

## 3. Model checking

    tlc -config X.cfg M        in this directory

| Run | Checks | Bounds |
|---|---|---|
| `configured_cache` | `PairBelongsTogether`, `AnswerMatchesRequest`, `CallsReturn` | 3 tasks, 2 configurations, 2 initializations, 1 reset |
| `pipeline` | `StagesInOrder`, `ResponsePostProcessed`, `AuthGatesTheRest`, `RetryBounded`, `NoSecondThoughts`, `RequestsAnswered` | 2 requests; authorization, retried limiter, cache, retried user middleware, 2 post-middleware; 3 attempts |
| `payments` | `RefundedHasRefund`, `FullRefundIsWhole`, `RefundsReturnUnlessCrossed` | 2 tasks, 2 payments, 2 refund ids, 2 amounts, 2 refunds, payments seeded as refunded |
| `service` | `RowsAddUp`, `RowsUnderTheirIds`, `PagesAreTheTable`; `WholeAtRest`, `AloneIsExact`, `ListComplete`; `FieldsAsWritten`, `ValidatedSinkWrites`; `NoStraySidecar`; `ReceiptsStand`; `BacksOff`; `OwnHeadersWin`; `WindowBound`, `AvailableIsTightestWindow`, implements `TokenBucket`; `OneInstancePerEpoch`, implements `OnceCell` | see below |
| `xtask` | `ChecksumIsServed`, `VersionsKept`, `PlaceholdersAreUnfinished`, `DependenciesFirst`; `RenameKeepsPaths`, `SyncRepairs` | 2 crates, 2 versions, 2 contents, 3 runs; 2 crates, 9 renames, 2 patterns, 4 commands |

`pipeline` checks its module's `TypeOK` too, and `service` those of the limiter and the
cell.

`service` and `xtask` each take parts of the system that share no state. A behaviour
is one of a single part, named by `part`, and the others stay in one of their initial
states: a product of them would show nothing more.

Why the bounds are enough. *Configured cache*: with three tasks a
reader, a storing task and a resetting or waiting writer meet on each lock; a lock
cycle takes two tasks and a queued third. *Pipeline*: the bucket holds one
token, so a request really finds it drained by the other one; three attempts tell
"one too many" from "for ever"; two post-middleware tell skipping one from skipping
all; the chain has each kind of middleware, in front of, behind and inside
RetryMiddleware. *Payments*: two tasks cross, and two refunds of two payments can have
one id or two; more tasks behind a crossing, or in any other order of locks, are
`OnlyCrossingDeadlocks`' matter, which is proved for any number.

In `service`: *database*, 2 clients, 1 table, 3 insertions, values of every kind
with 9 and 10 ordered one way as numbers and the other way as text, pages of one
row. *Files*, 2 callers and 3 overlapping calls on 2 paths, contents of one and of two
chunks: a short file over a long one shows what was not truncated, and two chunks
are the least that can be interleaved or lost at the end; seven inodes are one more
than two names and two calls with two handles each can use at once. *Configuration*, every text
of up to two tokens next to a second field that may hold a closing brace, and
references in defaults, in variables and twice in a row; variables that hold a
reference, the end of a line, a quote, a quote and a comment, one and two backslashes, and
a quote that brings a field of its own. In the last five a field may load as something
else, or the file not at all; `FieldsAsWritten` says what holds without quotes and
backslashes (`Unquoted`). *Daemon*, every sequence of 3 builder calls.
*Notifier*, 2 senders, batches of 2, a subject that is cut inside of a character.
*Retries*, `u64` as four bits, which the bases 3 (with jitter) and 6 overflow within
three waits. *Requests*, three names with two values each, of which a request is given
two, a content type in two spellings, credentials under a name that is a default or
the request's own, bases and URLs with several slashes. *Rate limiter*, capacity 2, 3
sub-tokens a token and 2 a tick: the refill of a tick is no multiple or
divisor of a token, so fractions arise, and in seven ticks the bucket is emptied,
partly refilled and capped, and emptied again. *Cached service*, three tasks, which can
all be between the two checks at once, 4 initializations and 2 resets: an initialization
can begin before both resets and be stored after either.

In `xtask`: *publish*, two crates with two edges between them and a dev-dependency
back, which is what decides the order; three runs are one that fails, one that
publishes another version, and one that repairs. *Workspace*, crates x and xy, one's
path the beginning of the other's, in a directory that is itself renamed; directories
given as `a/x/` and `./b`, and one that is to be moved into itself.

Where TLC stops at these bounds, the theorems of section 4 do not.

**Fairness.** `Pipeline` assumes weak fairness of each request's
step: the runtime polls a future that can go on, a sleep ends, and the locks inside
an atomic step are never held across an await. It assumes nothing of the
clock: requests are answered even when the bucket stays empty for ever.
`ConfiguredCache` and `PaymentGateway` assume strong fairness of a task's step,
because a lock may be free and taken again many times before a given task gets it:
parking_lot's locks are eventually fair, and both parking_lot and std hold back
new readers for a waiting writer. An environment action (a new call, a reset, an
arrival, time passing) is never assumed to happen. That `init()` and
middleware resolve is the caller's promise.

`service` and `xtask` assume no fairness: they check what may happen, not what must.

**Symmetry.** In `service` the callers, and the two paths, are interchangeable, and in
`xtask` the contents of crates; no property there is one of liveness.

**Deadlock checking.** It is off in the two payments runs: two crossing refunds
really block everything, which is a finding. It is off in the runs of `MCService`,
`MCXtask` and `DaemonRunner`, whose parts really end: a request is answered, a server returns, and the
bounded number of calls is used up. It is on everywhere else, and no
other run stops: in the runs of `Pipeline` time passes for ever, and in
`cached_service_reset` and `configured_cache` a call can always begin.

**Where code and text disagree.** Seven runs check what a comment, document or test
says, and TLC finds a behaviour of the code that does otherwise:

- `cached_service_reset`: `reset` is documented as "forcing re-initialization on
  next access"; an initialization that was under way during the reset is stored
  after it, and served to calls that begin after the reset.
- `pipeline_retried_cache`: "When a middleware short-circuits, remaining
  pre-middleware and the router are skipped"; RetryMiddleware only calls
  `process_request` of what it wraps, so a wrapped middleware's short circuit is lost.
- `pipeline_post_always`: "Post-middleware always runs"; at the first error of a
  pre-middleware or the router, `execute` returns without them.
- `payments_deadlock`: `create_refund` waits for the refunds' lock holding the
  payments' read lock, and then for the payments' lock holding the refunds' write
  lock. Two concurrent refunds can wait for each other for ever.
  `RefundsReturnUnlessCrossed`, in `payments`, shows that this is the only way.
- `files_overwrite`: `overwrite` is "Whether to overwrite existing files", and a test
  says that writing again without it should fail; two writes that both pass the check
  before either has created the file both answer Ok, and the later one empties the file
  of the earlier.
- `daemon_zero_port`: `with_obsrv_port` takes "0 to disable", and the context's port is
  "0 if disabled"; `run` does not test for 0 and passes it on to `ObsrvProcess::spawn`,
  of another crate, so that nothing here keeps a sidecar from running.
- `workspace_bulk`: bulk-rename announces to "rename directories and update
  Cargo.toml"; it rewrites every path that matches, but of the directories moves only
  those whose path is the beginning of another matching one. With crates `a/x` and
  `a/xy` the member `b/xy` is left without a directory. `RenameKeepsPaths`, in `xtask`,
  shows that the other commands keep both in step.

## 4. Proofs

    tlapm XProofs.tla          in this directory

The theorems hold for every value of the constants that satisfies the `ASSUME`s of
the module: any number of tasks, requests, configurations and payments, any chain,
capacity and rate, any bound. The assumptions say that

- bounds are natural numbers, a token and a page are positive, `None` and the other
  marks are none of the values, and `max_attempts > 0`, which the builder of
  RetryMiddleware asserts;
- texts, subjects, URLs, paths and contents are finite sequences (`SubjectAssumption`,
  `UrlAssumption`, `ArgumentAssumption`, `ContentAssumption`), paths over letters with
  "/" among them and not empty (`LayoutAssumption`), batches and requests not empty;
- a configuration file is a finite sequence of fields and values, values and variables
  are texts over `Tokens`, a field is none of `$`, the end of a line, a quote and `#`
  (`TextAssumption`), and the number of directories is a number (`DepthAssumption`);
- callers, paths, packages and database values are finitely many, and base delays are
  below the longest one (`MillisAssumption`), as a `u64` is;
- the file system has an inode to spare (`InodeAssumption`: more of them than names and
  handles can use), so that creating a file finds one: on a full disk the call fails
  before it has changed anything, which is no step, or ends in `FailWrite`.

**Recursion.** What a recursive function computes is proved where a property rests on
it: Kahn's algorithm in `Publish`, `str::replace` and sync's loop in `Workspace`. A
recursive function is the choice of one that satisfies its equation, so that there is
one is shown first (`Recursion`, or a witness), and then its values by
`Induction`, which follows from the least element of a set of numbers. The loop of
`expand_env_vars` goes through a text piece by piece; its recursion is from a text's end
(`Scans`), as a piece always ends behind its beginning (`AfterLater`).

**RateLimiterProofs** (`TypeCorrect`, `WindowBoundHolds`, `TightestWindowHolds`,
`Implementation`). `AvailableIsTightestWindow` speaks of the present moment, while
the code stores the tokens as of `last_refill`. The inductive invariant says the
same of that moment: `tokens` is at most what any window since a grant allows, and
equal to one of them unless the bucket is full. Crediting a time interval adds the
same inflow to both sides (`InflowAdds`), capped by the full bucket on both. The
refinement maps `level` to `Refilled`: a tick is `Elapse` or, in a full bucket, a
stutter, and settling does not change `Refilled`.

**CachedServiceProofs** (`TypeCorrect`, `OneInstance`, `Implementation`).
`OneInstancePerEpoch` relates two old answers and says nothing of the next one.
What makes it inductive is `AnswersAreCached`: an answer of the present epoch is
what `inner` still holds. Store keeps it because it looks again before it writes.
The refinement maps a store that won to `Fill`, one that lost to `Read`.

**ConfiguredCacheProofs** (`TypeCorrect`, `PairHolds`, `AnswerHolds`,
`NoWaitWhileHolding`, `NoDeadlock`). The
invariant ties program points to locks (`Holders`), says that the pair is only torn
between the two assignments (`PairIntact`), and that what a reader saw is still
there when it compares (`SeenIsThere`). The proof uses only the service lock: it is
held across both fields by every operation, so the lock on `config` adds nothing to
these two properties. The lock order does not deadlock: `LocksHeld` says exactly which
program points hold which lock, so whoever holds the service lock finds the config lock
free, nobody waits while holding a lock, and of those who hold none the first in a
queue, or the next reader, can go on.

**PipelineProofs** (`TypeCorrect`, `StagesOrdered`, `PostProcessed`, `AuthGates`,
`RetriesBounded`, `VerdictsFinal`, `RequestsEnd`). The properties speak of stages that were
invoked; the invariant adds where the request stands (`Position`): nothing ahead of
it was invoked, everything behind it is in order, and its own stage was invoked
once per retry so far, each time with a retryable error. `History` carries the
properties themselves and that a passed AuthMiddleware admits the request. There is
one lemma per action, over one common lemma about invoking a stage. `RequestsEnd` counts
the steps a request can still take (`StepsLeft`: a call and a sleep per attempt and
stage) and shows that each of its steps makes them fewer and nobody else's changes them.

**PaymentGatewayProofs** (`TypeCorrect`, `RefundExists`, `FullRefunds`,
`OnlyCrossingDeadlocks`, `CrossingIsForEver`). The
invariant says what `create_refund` knows between two locks (`UnderWay`): while it
holds the payments' read lock, its result is the one the payment calls for as it is
now; while it holds the refunds' write lock, its refund is stored under its id. An
operation on payments finds nobody of the first kind, since it needs the write lock,
and a second task of the other kind is excluded by the lock on refunds. That two
refunds can block each other is no obstacle to safety. `LocksHeld` says who holds what between
two steps, and from it follow both halves of the deadlock the run `payments_deadlock`
meets: a state in which calls are under way and none can go on has two refunds crossed,
and two crossed refunds never come apart, nor is a table written again.

**LocalFileGatewayProofs** (`FsInvariant`, `FilesAreWhole`, `AloneCallsAreExact`,
`ListingsAreComplete`). The invariant `FsInv` says what a call has
at each of its steps (`Shape`), that its file holds the beginning of what it writes, or
is the beginning of what it read, as long as nobody else touched that (`Exact`), that
whoever writes a file that is not `mixed` is the only one, and that a file nobody writes
is whole or mixed. It is kept by a lemma on any step that works on one inode: it disturbs
no call on another, marks the file if another call writes it, and leaves it whole when
its last writer ends. Counting shows that a fresh inode is neither named nor
open. A listing has met, or has still to meet, every file that was there all the while.

**XtaskProofs, Publish** (`TypeCorrect`, `ChecksumServed`, `VersionsStay`,
`PlaceholdersOwed`, `SortOrders`, `SortCompletes`, `PackagedInOrder`).
`ChecksumIsServed` speaks of git's HEAD, which is overwritten by whatever the working
tree holds, torn files and the leavings of failed runs included. So the invariant
says of *both* that a checksum that is not the placeholder is the served file's
(`HonestInv`), and adds when the next step may rely on it: once phase 1 is committed,
the version under way has nothing but placeholders in either until its file is
complete (`StubInv`), and then the file is what was packaged (`CopiedInv`). That runs
name no crate twice (`RunInv`) keeps one crate's turn from spoiling another's.
`VersionsKept` follows from `Kept`: every committed version of a crate that was never
torn is in the working tree, because `UpsertEntry` replaces or appends.
`PlaceholdersAreUnfinished` speaks of HEAD as well, and `OwedInv` says the same of the
working tree: a placeholder is that of a version recorded as unfinished, or still to be
published by the run under way (`Left`). A version leaves both only when its commit
succeeds, and then `FilledInv` says that its entry in the index has a checksum.

`topological_sort` keeps `KahnInv` round after round: queue and sorted crates share
none and repeat none, every sorted crate comes after those it needs, and queued or
sorted are just the crates that wait for nothing. So the result repeats no crate and is
ordered (`SortOrders`), and if dependencies have a rank, a crate of least rank among
those left would wait for nothing, so that none is left (`SortCompletes`). With
that, `DependenciesFirst` needs that all the crates before the next one of a run are
published in the index and in HEAD (`DoneInv`), which no later entry undoes.

**XtaskProofs, Workspace** (`SyncFindsCrates`, `RenamesKeepPaths`). `DiskInv` says that
crates are in directories that are there; hence the crate of a lost member's name is
somewhere, and hence sync changes nothing when nothing is lost. `RenameInv` says, as long
as nothing untidy happened, that Cargo.toml is the directories, or, between the move and
the write, that the directories are Cargo.toml's paths moved once. A move that fails
leaves directories behind and no path changed. The write then has
to do to each path what the move did, which is `ReplaceRebases`: `str::replace`, wherever
it finds the text, is `Rebase` on a path that is not ambiguous.

**ServiceProofs** has six sections, and one invariant in each.

- *MemoryDatabase* (`RowsKeepTheirIds`, `ReportsAddUp`, `PagesHold`). `DbInv`: tables are
  finite maps from ids to records, a waiting insert has its table. `RowsAddUp` rests on
  one lemma per kind of write about the cardinality of a table's domain: insertion of new
  ids adds their number, deletion subtracts it, merging leaves it. `RowsUnderTheirIds`
  needs that `WithId` writes the key that `ExtractIds` read. `PagesAreTheTable` needs
  `PagerInv`: what a reader has read is the beginning of one listing of the table, up
  to the offset of its next page; a page continues what the pages before it are, and
  a write that changes the table ends the reading. `compare_values` is transitive on
  numbers and nulls, so a listing in which neighbours are in order is in order.
- *DaemonRunner* (`SidecarsHeld`). `DaemonInv`: no method of the builder takes back
  what `without_observability` set, and before `run` there is no sidecar.
- *ConsoleNotifier* (`ReceiptsHold`). `NotifierInv`: the receipts a batch has collected
  stand as those handed out do, provider ids only grow, and nothing kept is pending, so
  that `cancel` finds nothing to cancel.
- *RetryMiddleware* (`BacksOffEnough`). `RetryInv`: one wait and one error for each call
  but the last, each wait as the property says. `ComputeDelay`
  is the exact product or, when it saturates, the longest delay; that 2^n is a number is
  shown by counting subsets.
- *RestClient* (`OwnHeadersSent`). `RestInv`: the headers of a request are those its
  builder was given last under each name. What trimming slashes does to a URL is shown
  by the least and the greatest place without one.
- *Configuration* (`SinksWrite`, `FieldsHold`). `SinkInv`: what was accepted, and what a
  report failed on, is the configuration as it is now, because an override takes both
  back. `LoadInv`: as long as loading goes on, `text` and `config` are what the steps so
  far make of the nearest file. The property then is one of the expansion. Two texts are
  expanded together as they are alone, if every reference of the first is closed in it
  and none opens between them (`ExpandsApart`); so a line is expanded as its value is
  (`LineExpands`), and each line of the file is still one in the expanded text
  (`FileExpands`), what its value expands to still between its quotes. A text without
  quotes and backslashes stays so under expansion (`UnquotedExpands`), so that the string
  TOML reads there begins and ends where it did (`StringAlone`). The parser takes that line
  for the field (`LineParses`): a text that parses has no field twice.

## 5. Limits

Only model-checked:

- liveness (`CallsReturn`, `RequestsAnswered`, `RefundsReturnUnlessCrossed`), which is
  out of the prover's reach. What it rests on besides fairness is proved: that somebody
  can always go on (`NoDeadlock`, `OnlyCrossingDeadlocks`) and that a request has only so
  many steps (`RequestsEnd`). `GoesOn` in those proofs is the guard of the next step
  written out, as ENABLED is out of reach too.

Every other property of a passing run is also proved, and so are the type invariants
of `ConfiguredCache`, `PaymentGateway` and `Publish`, and `FsInv`, which no run lists.

Abstracted in what is modelled:

- `f64` rounding and `Instant` arithmetic in the limiter: a token is a whole number
  of sub-tokens, the clock a natural number.
- In `Pipeline`, the length of a back-off: a sleep ends some time. `RetryMiddleware` has
  the lengths, over a word of four bits for 64.
- Payloads, request ids, timing, logging, metrics contents. A request carries its
  credentials and whether the cache has its response, no more.
- A panic, which would poison a std lock.
- Customers and payment methods of the mock gateway, which refunds do not depend on;
  timestamps and currencies.
- The order in which a reader-writer lock serves its queue; in `PaymentGateway`
  also the queue itself, as the readers it holds back hold nothing.
- In the database, `select_fields`, which only drops fields of an answer, and all of a
  value but its kind, number and place in the order of texts.
- In the file gateway, prefixes and nested directories, content types, metadata but for
  the size, presigned URLs and health checks; names in one directory stand for paths.
- Layout of what is printed: boxes, wrapping, log lines.
- In configuration files, sections, values other than basic strings, lines of comment in
  the file itself, and of the escapes all but `\"` and `\\`, so that a text with another
  one (`\n`, `\u0041`) counts as one that does not parse. Three quotes, which open a
  string of many lines, are followed no further ("many_lines"). An unknown key, which
  serde passes over, ends loading in the model; `FieldsAsWritten` speaks of files that
  load, with no quotes or backslashes in values and variables, where neither arises.
- In requests, query parameters, timeouts, bodies, and the method; an empty base URL.
- In publishing, the checksum's arithmetic, the registry's paths and which of several
  registries a dependency is looked up in (`scan_local_registry_index`); in the
  workspace commands, Cargo.toml cut short, paths with `..` or from the root of the file
  system, dry runs and `list`, which change nothing.

Not modelled: the gRPC types and the provider traits, which are declarations;
`LocalInputSource`, which walks a tree and reads files without a state of its own;
customers and payment methods; the constructors of `saf/builders.rs`, re-exports and
error texts. `PROJECT.json` gives the reason for each.

## 6. What is left

- Abstract specifications for `MemoryDatabase` (a map with atomic calls; creating the
  table is a stutter) and for `LocalFileGateway` under one caller (a map from paths to
  contents), and the refinements.
- That the pipeline over `RateLimiter` implements the pipeline over `TokenBucket`.
