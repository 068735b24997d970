--------------------------- MODULE ConfiguredCache ---------------------------
(***************************************************************************)
(* ConfiguredCache of src/state.rs: a service cached together with the     *)
(* configuration it was made for, each under a reader-writer lock of its   *)
(* own.  The operations take the service lock and, holding it, the config  *)
(* lock; taking a lock and touching what it guards are separate steps.     *)
(* The service is made between the two locked sections, holding no lock.   *)
(***************************************************************************)
EXTENDS Naturals, RwLock

CONSTANTS
    Task,
    Config,
    None,
    MaxInits,   \* bound on initializations that succeed
    MaxResets   \* bound on resets

ASSUME CacheBounds == MaxInits \in Nat /\ MaxResets \in Nat

\* An Arc: its identity, and the configuration it was made for.
Service == [id : 1..MaxInits, config : Config]

ASSUME NoneIsNeither == None \notin Service /\ None \notin Config

VARIABLES
    service,        \* the service field: Option<Arc<S>>
    config,         \* the config field: Option<C>
    lock,           \* the two locks
    pc,             \* pc[t]: where task t is
    wanted,         \* wanted[t]: the configuration t asks for
    guard,          \* guard[t]: what t read under its service lock
    new_service,    \* new_service[t]: the instance t made and has not stored
    answer,         \* history: the instance t was last given
    made,           \* instances made so far
    resets          \* resets so far

vars == <<service, config, lock, pc, wanted, guard, new_service, answer, made, resets>>

Init ==
    /\ service = None
    /\ config = None
    /\ lock = [service |-> Free, config |-> Free]
    /\ pc = [t \in Task |-> "idle"]
    /\ wanted = [t \in Task |-> None]
    /\ guard = [t \in Task |-> None]
    /\ new_service = [t \in Task |-> None]
    /\ answer = [t \in Task |-> None]
    /\ made = 0
    /\ resets = 0

Goto(t, from, to) ==
    /\ pc[t] = from
    /\ pc' = [pc EXCEPT ![t] = to]

ReleaseBoth(t) ==
    lock' = [l \in {"service", "config"} |-> Release(lock[l], t)]

TakeRead(t, l) ==
    /\ CanRead(lock[l])
    /\ lock' = [lock EXCEPT ![l] = Read(@, t)]

TakeWrite(t, l) ==
    /\ CanWrite(lock[l])
    /\ lock' = [lock EXCEPT ![l] = Write(@, t)]

-----------------------------------------------------------------------------
\* get_or_init_with_config(): the fast path.
Call(t) ==
    /\ Goto(t, "idle", "read_service")
    /\ wanted' \in {[wanted EXCEPT ![t] = c] : c \in Config}
    /\ answer' = [answer EXCEPT ![t] = None]
    /\ UNCHANGED <<service, config, lock, guard, new_service, made, resets>>

\* A slip: the Arc is cloned and the service lock dropped at once.
ReadServiceUnguarded(t) ==
    /\ Goto(t, "read_service", "read_config")
    /\ CanRead(lock["service"])
    /\ guard' = [guard EXCEPT ![t] = service]
    /\ UNCHANGED <<service, config, lock, wanted, new_service, answer, made, resets>>

ReadService(t) ==
    /\ Goto(t, "read_service", "read_config")
    /\ TakeRead(t, "service")
    /\ guard' = [guard EXCEPT ![t] = service]
    /\ UNCHANGED <<service, config, wanted, new_service, answer, made, resets>>

\* Both are there and the configuration is the wanted one: return the Arc.
Matches(t) == guard[t] # None /\ config # None /\ config = wanted[t]

ReadConfig(t) ==
    /\ CanRead(lock["config"])
    /\ ReleaseBoth(t)
    /\ \/ /\ Matches(t)
          /\ Goto(t, "read_config", "idle")
          /\ answer' = [answer EXCEPT ![t] = guard[t]]
       \/ /\ ~Matches(t)
          /\ Goto(t, "read_config", "init")
          /\ UNCHANGED answer
    /\ guard' = [guard EXCEPT ![t] = None]
    /\ UNCHANGED <<service, config, wanted, new_service, made, resets>>

InitOk(t) ==
    /\ Goto(t, "init", "store_lock_service")
    /\ made < MaxInits
    /\ made' = made + 1
    /\ new_service' = [new_service EXCEPT
                           ![t] = [id |-> made + 1, config |-> wanted[t]]]
    /\ UNCHANGED <<service, config, lock, wanted, guard, answer, resets>>

\* init() fails and ? returns its error, or the caller drops the future.
InitFails(t) ==
    /\ Goto(t, "init", "idle")
    /\ UNCHANGED <<service, config, lock, wanted, guard, new_service, answer, made, resets>>

StoreLockService(t) ==
    /\ Goto(t, "store_lock_service", "store_service")
    /\ TakeWrite(t, "service")
    /\ UNCHANGED <<service, config, wanted, guard, new_service, answer, made, resets>>

\* The config lock is taken, and *service_guard = Some(new_service).
StoreService(t) ==
    /\ Goto(t, "store_service", "store_config")
    /\ TakeWrite(t, "config")
    /\ service' = new_service[t]
    /\ UNCHANGED <<config, wanted, guard, new_service, answer, made, resets>>

\* A slip: the configuration is stored only the first time.
StoreConfigOnce(t) ==
    /\ Goto(t, "store_config", "idle")
    /\ config' = IF config = None THEN wanted[t] ELSE config
    /\ ReleaseBoth(t)
    /\ answer' = [answer EXCEPT ![t] = new_service[t]]
    /\ new_service' = [new_service EXCEPT ![t] = None]
    /\ UNCHANGED <<service, wanted, guard, made, resets>>

\* *config_guard = Some(config); both guards go; the task returns its own.
StoreConfig(t) ==
    /\ Goto(t, "store_config", "idle")
    /\ config' = wanted[t]
    /\ ReleaseBoth(t)
    /\ answer' = [answer EXCEPT ![t] = new_service[t]]
    /\ new_service' = [new_service EXCEPT ![t] = None]
    /\ UNCHANGED <<service, wanted, guard, made, resets>>

-----------------------------------------------------------------------------
\* The order in which reset() takes the locks, and a slip in it.
ResetOrderInverted == [first |-> "config", second |-> "service"]
ResetOrder == [first |-> "service", second |-> "config"]

ResetCall(t) ==
    /\ Goto(t, "idle", "reset_first")
    /\ resets < MaxResets
    /\ resets' = resets + 1
    /\ UNCHANGED <<service, config, lock, wanted, guard, new_service, answer, made>>

ResetFirst(t) ==
    /\ Goto(t, "reset_first", "reset_second")
    /\ TakeWrite(t, ResetOrder.first)
    /\ UNCHANGED <<service, config, wanted, guard, new_service, answer, made, resets>>

\* The second lock is taken, and *service_guard = None.
ResetSecond(t) ==
    /\ Goto(t, "reset_second", "reset_config")
    /\ TakeWrite(t, ResetOrder.second)
    /\ service' = None
    /\ UNCHANGED <<config, wanted, guard, new_service, answer, made, resets>>

\* A slip: the service goes and its configuration stays.
ResetForgetsConfig(t) ==
    /\ Goto(t, "reset_config", "idle")
    /\ ReleaseBoth(t)
    /\ UNCHANGED <<service, config, wanted, guard, new_service, answer, made, resets>>

ResetConfig(t) ==
    /\ Goto(t, "reset_config", "idle")
    /\ config' = None
    /\ ReleaseBoth(t)
    /\ UNCHANGED <<service, wanted, guard, new_service, answer, made, resets>>

\* The lock task t waits to write, if any.
AwaitsWrite(t) ==
    CASE pc[t] = "store_lock_service" -> {"service"}
      [] pc[t] = "store_service" -> {"config"}
      [] pc[t] = "reset_first" -> {ResetOrder.first}
      [] pc[t] = "reset_second" -> {ResetOrder.second}
      [] OTHER -> {}

\* A writer that finds the lock taken joins its queue.
QueueForWrite(t) ==
    \E l \in AwaitsWrite(t) :
        /\ ~CanWrite(lock[l])
        /\ t \notin lock[l].queued
        /\ lock' = [lock EXCEPT ![l] = Queue(@, t)]
        /\ UNCHANGED <<service, config, pc, wanted, guard, new_service, answer, made, resets>>

-----------------------------------------------------------------------------
Begin(t) == Call(t) \/ ResetCall(t)

Step(t) ==
    \/ ReadService(t) \/ ReadConfig(t) \/ InitOk(t) \/ InitFails(t)
    \/ StoreLockService(t) \/ StoreService(t) \/ StoreConfig(t)
    \/ ResetFirst(t) \/ ResetSecond(t) \/ ResetConfig(t)

Next == \E t \in Task : Begin(t) \/ Step(t) \/ QueueForWrite(t)

\* A task that can go on does; parking_lot hands a lock over fairly in the
\* end, so a task that can take a lock again and again takes it.
Fairness == \A t \in Task : SF_vars(Step(t)) /\ WF_vars(QueueForWrite(t))

Spec == Init /\ [][Next]_vars /\ Fairness

-----------------------------------------------------------------------------
Storing(t) == pc[t] \in {"store_lock_service", "store_service", "store_config"}

TypeOK ==
    /\ service \in Service \cup {None}
    /\ config \in Config \cup {None}
    /\ lock \in [{"service", "config"} -> RwLockType(Task)]
    /\ pc \in [Task -> {"idle", "read_service", "read_config", "init",
                        "store_lock_service", "store_service", "store_config",
                        "reset_first", "reset_second", "reset_config"}]
    /\ wanted \in [Task -> Config \cup {None}]
    /\ guard \in [Task -> Service \cup {None}]
    /\ new_service \in [Task -> Service \cup {None}]
    /\ \A t \in Task : Storing(t) <=> new_service[t] # None
    /\ answer \in [Task -> Service \cup {None}]
    /\ made \in 0..MaxInits
    /\ resets \in 0..MaxResets
    /\ \A l \in {"service", "config"} : Exclusive(lock[l])

(***************************************************************************)
(* Whoever can read the service lock finds a pair that belongs together:   *)
(* both fields empty, or a service and the configuration it was made for.  *)
(***************************************************************************)
PairBelongsTogether ==
    lock["service"].writer = {} =>
        IF service = None THEN config = None ELSE config = service.config

(***************************************************************************)
(* get_or_init_with_config never hands out a service made for another      *)
(* configuration, whatever stores and resets happen between its reading    *)
(* the service and its comparing the configuration.                        *)
(***************************************************************************)
AnswerMatchesRequest ==
    \A t \in Task : answer[t] # None => answer[t].config = wanted[t]

(***************************************************************************)
(* Nobody waits for ever: the two locks are taken in one order everywhere, *)
(* so every call of get_or_init_with_config and reset returns.             *)
(***************************************************************************)
CallsReturn == \A t \in Task : pc[t] # "idle" ~> pc[t] = "idle"
=============================================================================
