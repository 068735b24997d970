---------------------------- MODULE CachedService ----------------------------
(***************************************************************************)
(* CachedService of src/state.rs: a lazily initialized, resettable cell    *)
(* shared by concurrent tasks.                                             *)
(*                                                                         *)
(* get_or_init looks under the read lock, initializes holding no lock, and *)
(* then double-checks under the write lock.  The sections under the lock   *)
(* hold one lock, contain no await, and are atomic steps; everything may   *)
(* happen between them, a reset included.                                  *)
(***************************************************************************)
EXTENDS Naturals

CONSTANTS
    Task,
    NoService,
    MaxInits,   \* bound on initializations that succeed
    MaxResets   \* bound on resets

ASSUME CacheBounds == MaxInits \in Nat /\ MaxResets \in Nat

\* An Arc: its identity, and the epoch in which its initialization began.
Service == [id : 1..MaxInits, started : 0..MaxResets]

ASSUME NoServiceIsNone == NoService \notin Service

VARIABLES
    inner,          \* RwLock<Option<Arc<S>>>
    pc,             \* pc[t]: where task t is in get_or_init
    new_service,    \* new_service[t]: the instance t made and has not stored
    made,           \* instances made so far
    resets,         \* resets so far: the epoch
    began,          \* history: the epoch in which t's latest call began
    answer          \* history: <<epoch, instance>> of the latest Ok to t

cacheVars == <<inner, pc, new_service, made, resets, began, answer>>

CacheInit ==
    /\ inner = NoService
    /\ pc = [t \in Task |-> "idle"]
    /\ new_service = [t \in Task |-> NoService]
    /\ made = 0
    /\ resets = 0
    /\ began = [t \in Task |-> 0]
    /\ answer = [t \in Task |-> <<0, NoService>>]

Answer(t, s) == answer' = [answer EXCEPT ![t] = <<resets, s>>]

-----------------------------------------------------------------------------
\* The fast path finds a service, in get_or_init() or in get().
Hit(t) ==
    /\ pc[t] = "idle"
    /\ inner # NoService
    /\ began' = [began EXCEPT ![t] = resets]
    /\ Answer(t, inner)
    /\ UNCHANGED <<inner, pc, new_service, made, resets>>

\* The fast path of get_or_init() finds none: init() is called, unlocked.
Miss(t) ==
    /\ pc[t] = "idle"
    /\ inner = NoService
    /\ began' = [began EXCEPT ![t] = resets]
    /\ pc' = [pc EXCEPT ![t] = "init"]
    /\ UNCHANGED <<inner, new_service, made, resets, answer>>

InitOk(t) ==
    /\ pc[t] = "init"
    /\ made < MaxInits
    /\ made' = made + 1
    /\ new_service' = [new_service EXCEPT
                           ![t] = [id |-> made + 1, started |-> began[t]]]
    /\ pc' = [pc EXCEPT ![t] = "store"]
    /\ UNCHANGED <<inner, resets, began, answer>>

\* A slip: the error of init() is not propagated.
InitErrorIgnored(t) ==
    /\ pc[t] = "init"
    /\ pc' = [pc EXCEPT ![t] = "store"]
    /\ UNCHANGED <<inner, new_service, made, resets, began, answer>>

\* init() fails and ? returns its error, or the caller drops the future.
InitFails(t) ==
    /\ pc[t] = "init"
    /\ pc' = [pc EXCEPT ![t] = "idle"]
    /\ UNCHANGED <<inner, new_service, made, resets, began, answer>>

\* A slip in the write-locked section: the task returns what it made.
StoreReturnsOwn(t) ==
    /\ pc[t] = "store"
    /\ inner' = IF inner = NoService THEN new_service[t] ELSE inner
    /\ Answer(t, new_service[t])
    /\ pc' = [pc EXCEPT ![t] = "idle"]
    /\ new_service' = [new_service EXCEPT ![t] = NoService]
    /\ UNCHANGED <<made, resets, began>>

\* The write-locked section: the first to store wins, and every task returns
\* what is cached.
StoreFirst(t) ==
    /\ pc[t] = "store"
    /\ inner' = IF inner = NoService THEN new_service[t] ELSE inner
    /\ Answer(t, inner')
    /\ pc' = [pc EXCEPT ![t] = "idle"]
    /\ new_service' = [new_service EXCEPT ![t] = NoService]
    /\ UNCHANGED <<made, resets, began>>

\* A slip: the reset clears a copy.
ResetWithoutClear ==
    /\ resets < MaxResets
    /\ resets' = resets + 1
    /\ UNCHANGED <<inner, pc, new_service, made, began, answer>>

\* reset(), by any holder of the cache.
Reset ==
    /\ resets < MaxResets
    /\ resets' = resets + 1
    /\ inner' = NoService
    /\ UNCHANGED <<pc, new_service, made, began, answer>>

Step(t) == InitOk(t) \/ InitFails(t) \/ StoreFirst(t)

CacheNext == Reset \/ \E t \in Task : Hit(t) \/ Miss(t) \/ Step(t)

CacheSpec == CacheInit /\ [][CacheNext]_cacheVars

-----------------------------------------------------------------------------
CacheTypeOK ==
    /\ inner \in Service \cup {NoService}
    /\ pc \in [Task -> {"idle", "init", "store"}]
    /\ new_service \in [Task -> Service \cup {NoService}]
    /\ \A t \in Task : pc[t] = "store" <=> new_service[t] # NoService
    /\ made \in 0..MaxInits
    /\ resets \in 0..MaxResets
    /\ began \in [Task -> 0..resets]
    /\ answer \in [Task -> (0..resets) \X (Service \cup {NoService})]

Answered(t) == answer[t][2] # NoService

(***************************************************************************)
(* Double-checked locking works: between two resets all tasks are handed   *)
(* the same instance, although several may have initialized one.           *)
(***************************************************************************)
OneInstancePerEpoch ==
    \A t, u \in Task :
        /\ Answered(t) /\ Answered(u) /\ answer[t][1] = answer[u][1]
        => answer[t] = answer[u]

(***************************************************************************)
(* get_or_init, get and reset look like operations on a cell that is       *)
(* filled once: the initializations that lost a race leave no trace.       *)
(***************************************************************************)
Cell == INSTANCE OnceCell WITH cell <- inner, epoch <- resets

ImplementsOnceCell == Cell!Spec

(***************************************************************************)
(* state.rs:68 on reset(): "Reset the service, forcing re-initialization   *)
(* on next access".  A call that begins after a reset would then only be   *)
(* given a service whose initialization also began after it.  The code     *)
(* does not guarantee this: an initialization in progress during the reset *)
(* is stored after it.                                                     *)
(***************************************************************************)
ResetForcesReinit ==
    \A t \in Task :
        Answered(t) /\ pc[t] = "idle" => answer[t][2].started >= began[t]
=============================================================================
