------------------------ MODULE ConfiguredCacheProofs -------------------------
(***************************************************************************)
(* Proofs about ConfiguredCache for any tasks, configurations and bounds:  *)
(* its types, that the service and its configuration belong together, and  *)
(* that every answer is for the configuration that was asked for.          *)
(***************************************************************************)
EXTENDS ConfiguredCache, TLAPS

\* Taking the lock to write, when nobody has it: the writer is alone.
LEMMA WriteIsLock ==
    ASSUME NEW T, NEW l \in RwLockType(T), NEW t \in T, CanWrite(l)
    PROVE  /\ Write(l, t) \in RwLockType(T)
           /\ Write(l, t).readers = {} /\ Write(l, t).writer = {t}
           /\ Write(l, t).queued = l.queued \ {t}
           /\ Exclusive(Write(l, t))
  BY DEF Write, Lock, RwLockType, CanWrite, Exclusive

\* Releasing takes the task out of the readers and the writer.
LEMMA ReleaseIsLock ==
    ASSUME NEW T, NEW l \in RwLockType(T), NEW t \in T, Exclusive(l)
    PROVE  /\ Release(l, t) \in RwLockType(T)
           /\ Release(l, t).readers = l.readers \ {t}
           /\ Release(l, t).writer = l.writer \ {t}
           /\ Release(l, t).queued = l.queued
           /\ Exclusive(Release(l, t))
  BY DEF Release, Lock, RwLockType, Exclusive

(***************************************************************************)
(* TypeOK is inductive once it also says that a call under way asks for a  *)
(* configuration.                                                          *)
(***************************************************************************)
Asking(t) ==
    pc[t] \in {"read_service", "read_config", "init",
               "store_lock_service", "store_service", "store_config"}

Typed == TypeOK /\ \A t \in Task : Asking(t) => wanted[t] \in Config

\* Every step of get_or_init_with_config and reset keeps the types.
LEMMA TypedInvariant == Spec => []Typed
<1>1. Init => Typed
  BY CacheBounds
     DEF Init, Typed, TypeOK, Asking, Storing, Free, Lock, RwLockType, Exclusive
<1>2. Typed /\ [Next]_vars => Typed'
  <2> SUFFICES ASSUME Typed, [Next]_vars
               PROVE  Typed'
    OBVIOUS
  <2> USE CacheBounds, NoneIsNeither DEF Typed, TypeOK, Asking, Storing, Goto
  <2>1. ASSUME NEW t \in Task, NEW l \in {"service", "config"}, TakeRead(t, l)
        PROVE  /\ lock' \in [{"service", "config"} -> RwLockType(Task)]
               /\ \A k \in {"service", "config"} : Exclusive(lock'[k])
    BY <2>1 DEF TakeRead, CanRead, Read, Lock, RwLockType, Exclusive
  <2>2. ASSUME NEW t \in Task, NEW l \in {"service", "config"}, TakeWrite(t, l)
        PROVE  /\ lock' \in [{"service", "config"} -> RwLockType(Task)]
               /\ \A k \in {"service", "config"} : Exclusive(lock'[k])
    <3>1. Write(lock[l], t) \in RwLockType(Task) /\ Exclusive(Write(lock[l], t))
      BY <2>2, WriteIsLock DEF TakeWrite
    <3> QED
      BY <2>2, <3>1 DEF TakeWrite
  <2>3. ASSUME NEW t \in Task, ReleaseBoth(t)
        PROVE  /\ lock' \in [{"service", "config"} -> RwLockType(Task)]
               /\ \A k \in {"service", "config"} : Exclusive(lock'[k])
    <3>1. \A k \in {"service", "config"} :
              Release(lock[k], t) \in RwLockType(Task) /\ Exclusive(Release(lock[k], t))
      BY ReleaseIsLock
    <3> QED
      BY <2>3, <3>1 DEF ReleaseBoth
  <2>4. ASSUME NEW t \in Task, QueueForWrite(t)
        PROVE  /\ lock' \in [{"service", "config"} -> RwLockType(Task)]
               /\ \A k \in {"service", "config"} : Exclusive(lock'[k])
    BY <2>4 DEF QueueForWrite, AwaitsWrite, ResetOrder, Queue, Lock, RwLockType, Exclusive
  <2>5. ASSUME NEW t \in Task, Call(t)
        PROVE  Typed'
    BY <2>5 DEF Call
  <2>6. ASSUME NEW t \in Task, ResetCall(t)
        PROVE  Typed'
    BY <2>6 DEF ResetCall
  <2>7. ASSUME NEW t \in Task, ReadService(t)
        PROVE  Typed'
    BY <2>1, <2>7 DEF ReadService
  <2>8. ASSUME NEW t \in Task, ReadConfig(t)
        PROVE  Typed'
    BY <2>3, <2>8 DEF ReadConfig
  <2>9. ASSUME NEW t \in Task, InitOk(t)
        PROVE  Typed'
    <3>1. new_service'[t] \in Service /\ new_service'[t] # None
      BY <2>9 DEF InitOk, Service
    <3> QED
      BY <2>9, <3>1 DEF InitOk
  <2>10. ASSUME NEW t \in Task, InitFails(t)
         PROVE  Typed'
    BY <2>10 DEF InitFails
  <2>11. ASSUME NEW t \in Task, StoreLockService(t)
         PROVE  Typed'
    BY <2>2, <2>11 DEF StoreLockService
  <2>12. ASSUME NEW t \in Task, StoreService(t)
         PROVE  Typed'
    BY <2>2, <2>12 DEF StoreService
  <2>13. ASSUME NEW t \in Task, StoreConfig(t)
         PROVE  Typed'
    BY <2>3, <2>13 DEF StoreConfig
  <2>14. ASSUME NEW t \in Task, ResetFirst(t)
         PROVE  Typed'
    BY <2>2, <2>14 DEF ResetFirst, ResetOrder
  <2>15. ASSUME NEW t \in Task, ResetSecond(t)
         PROVE  Typed'
    BY <2>2, <2>15 DEF ResetSecond, ResetOrder
  <2>16. ASSUME NEW t \in Task, ResetConfig(t)
         PROVE  Typed'
    BY <2>3, <2>16 DEF ResetConfig
  <2>17. ASSUME NEW t \in Task, QueueForWrite(t)
         PROVE  Typed'
    BY <2>4, <2>17 DEF QueueForWrite
  <2>18. CASE UNCHANGED vars
    BY <2>18 DEF vars
  <2> QED
    BY <2>5, <2>6, <2>7, <2>8, <2>9, <2>10, <2>11, <2>12, <2>13, <2>14,
       <2>15, <2>16, <2>17, <2>18 DEF Next, Begin, Step
<1> QED
  BY <1>1, <1>2, PTL DEF Spec

(***************************************************************************)
(* The locks exclude, and only a storing task carries a new instance.      *)
(***************************************************************************)
THEOREM TypeCorrect == Spec => []TypeOK
<1>1. Typed => TypeOK
  BY DEF Typed
<1> QED
  BY <1>1, TypedInvariant, PTL

-----------------------------------------------------------------------------
(***************************************************************************)
(* The inductive invariant.  PairBelongsTogether says nothing while a task *)
(* writes; what holds then is that the pair is torn only between the two   *)
(* assignments of the one task that holds the service lock, and that this  *)
(* task is about to store what matches.  AnswerMatchesRequest needs that   *)
(* what a reader saw is still there when it compares the configuration.    *)
(* Only the service lock matters for this: it is held across both fields.  *)
(***************************************************************************)
Writing(t) ==
    pc[t] \in {"store_service", "store_config", "reset_second", "reset_config"}

Holders ==
    \A t \in Task :
        /\ pc[t] = "read_config" => t \in lock["service"].readers
        /\ Writing(t) => t \in lock["service"].writer

Torn == \E t \in Task : pc[t] \in {"store_config", "reset_config"}

Belongs == IF service = None THEN config = None ELSE config = service.config

PairIntact ==
    /\ ~Torn => Belongs
    /\ \A t \in Task :
          /\ pc[t] = "store_config" => service = new_service[t]
          /\ pc[t] = "reset_config" => service = None

SeenIsThere == \A t \in Task : pc[t] = "read_config" => guard[t] = service

MadeForRequest ==
    \A t \in Task : new_service[t] # None => new_service[t].config = wanted[t]

IInv == Typed /\ Holders /\ PairIntact /\ SeenIsThere /\ MadeForRequest /\ AnswerMatchesRequest

\* Whoever holds the service lock to write holds it alone.
LEMMA OneWriter ==
    ASSUME Typed, Holders, NEW t \in Task, Writing(t), NEW u \in Task
    PROVE  /\ pc[u] # "read_config"
           /\ Writing(u) => u = t
<1>1. Exclusive(lock["service"])
  BY DEF Typed, TypeOK
<1> QED
  BY <1>1 DEF Holders, Exclusive

\* Taking and releasing locks keeps tasks and locks in agreement.
LEMMA HoldersPreserved ==
    ASSUME Typed, Typed', Holders, [Next]_vars
    PROVE  Holders'
<1> USE DEF Holders, Writing, Goto
<1>1. /\ lock \in [{"service", "config"} -> RwLockType(Task)]
      /\ pc = [t \in Task |-> pc[t]]
  BY DEF Typed, TypeOK
<1>2. /\ lock["service"] \in RwLockType(Task)
      /\ Exclusive(lock["service"])
  BY DEF Typed, TypeOK
<1>3. ASSUME NEW t \in Task, ReleaseBoth(t)
      PROVE  /\ lock'["service"].readers = lock["service"].readers \ {t}
             /\ lock'["service"].writer = lock["service"].writer \ {t}
  BY <1>2, <1>3, ReleaseIsLock DEF ReleaseBoth
<1>4. ASSUME NEW t \in Task, Call(t) \/ ResetCall(t) \/ InitOk(t) \/ InitFails(t)
      PROVE  Holders'
  BY <1>1, <1>4 DEF Call, ResetCall, InitOk, InitFails
<1>5. ASSUME NEW t \in Task, ReadService(t)
      PROVE  Holders'
  <2>1. /\ lock'["service"].readers = lock["service"].readers \cup {t}
        /\ lock'["service"].writer = lock["service"].writer
    BY <1>1, <1>2, <1>5 DEF ReadService, TakeRead, Read, Lock, RwLockType
  <2> QED
    BY <1>1, <1>5, <2>1 DEF ReadService
<1>6. ASSUME NEW t \in Task, ReadConfig(t) \/ StoreConfig(t) \/ ResetConfig(t)
      PROVE  Holders'
  BY <1>1, <1>3, <1>6 DEF ReadConfig, StoreConfig, ResetConfig
<1>7. ASSUME NEW t \in Task, StoreLockService(t) \/ ResetFirst(t)
      PROVE  Holders'
  <2>1. CanWrite(lock["service"]) /\ lock'["service"] = Write(lock["service"], t)
    BY <1>1, <1>7 DEF StoreLockService, ResetFirst, ResetOrder, TakeWrite
  <2>2. lock'["service"].writer = {t}
    BY <1>2, <2>1, WriteIsLock
  <2> QED
    BY <1>1, <1>7, <2>1, <2>2 DEF StoreLockService, ResetFirst, CanWrite
<1>8. ASSUME NEW t \in Task, StoreService(t) \/ ResetSecond(t)
      PROVE  Holders'
  <2>1. lock'["service"] = lock["service"]
    BY <1>1, <1>8 DEF StoreService, ResetSecond, ResetOrder, TakeWrite
  <2> QED
    BY <1>1, <1>8, <2>1 DEF StoreService, ResetSecond
<1>9. ASSUME NEW t \in Task, QueueForWrite(t)
      PROVE  Holders'
  <2>1. /\ lock'["service"].readers = lock["service"].readers
        /\ lock'["service"].writer = lock["service"].writer
    <3>1. PICK l \in {"service", "config"} : lock' = [lock EXCEPT ![l] = Queue(@, t)]
      BY <1>9 DEF QueueForWrite, AwaitsWrite, ResetOrder
    <3> QED
      BY <1>1, <1>2, <3>1 DEF Queue, Lock, RwLockType
  <2> QED
    BY <1>9, <2>1 DEF QueueForWrite
<1>10. CASE UNCHANGED vars
  BY <1>10 DEF vars
<1> QED
  BY <1>4, <1>5, <1>6, <1>7, <1>8, <1>9, <1>10 DEF Next, Begin, Step
\* Every step keeps the inductive invariant.
LEMMA IInvInvariant == Spec => []IInv
<1>1. Init => IInv
  <2> SUFFICES ASSUME Init, Typed
               PROVE  IInv
    <3>1. Init => Typed
      BY CacheBounds
         DEF Init, Typed, TypeOK, Asking, Storing, Free, Lock, RwLockType, Exclusive
    <3> QED
      BY <3>1
  <2> QED
    BY DEF Init, IInv, Holders, Writing, PairIntact, Torn, Belongs, SeenIsThere,
           MadeForRequest, AnswerMatchesRequest
<1>2. IInv /\ Typed' /\ [Next]_vars => IInv'
  <2> SUFFICES ASSUME IInv, Typed', [Next]_vars
               PROVE  IInv'
    OBVIOUS
  <2>1. Holders'
    BY HoldersPreserved DEF IInv
  <2>2. /\ pc = [t \in Task |-> pc[t]] /\ guard = [t \in Task |-> guard[t]]
        /\ wanted = [t \in Task |-> wanted[t]] /\ answer = [t \in Task |-> answer[t]]
        /\ new_service = [t \in Task |-> new_service[t]]
    BY DEF IInv, Typed, TypeOK
  <2>3. \A t, u \in Task : Writing(t) => pc[u] # "read_config" /\ (Writing(u) => u = t)
    BY OneWriter DEF IInv
  <2>4. \A t \in Task : Storing(t) <=> new_service[t] # None
    BY DEF IInv, Typed, TypeOK
  <2> USE DEF PairIntact, Torn, Belongs, SeenIsThere, MadeForRequest,
              AnswerMatchesRequest, Writing, Goto
  <2>5. ASSUME NEW t \in Task, Call(t)
        PROVE  IInv'
    BY <2>1, <2>2, <2>4, <2>5 DEF IInv, Call, Storing
  <2>6. ASSUME NEW t \in Task, ResetCall(t) \/ InitFails(t)
        PROVE  IInv'
    BY <2>1, <2>2, <2>6 DEF IInv, ResetCall, InitFails
  <2>7. ASSUME NEW t \in Task, ReadService(t)
        PROVE  IInv'
    BY <2>1, <2>2, <2>7 DEF IInv, ReadService
  <2>8. ASSUME NEW t \in Task, ReadConfig(t)
        PROVE  IInv'
    <3>1. ~Torn
      BY <2>3, <2>8 DEF ReadConfig
    <3>2. guard[t] = service /\ Belongs
      BY <2>8, <3>1 DEF IInv, ReadConfig
    <3>3. Matches(t) => guard[t].config = wanted[t]
      BY <3>2 DEF Matches
    <3> QED
      BY <2>1, <2>2, <2>8, <3>3 DEF IInv, ReadConfig
  <2>9. ASSUME NEW t \in Task, InitOk(t)
        PROVE  IInv'
    BY <2>1, <2>2, <2>9 DEF IInv, InitOk
  <2>10. ASSUME NEW t \in Task, StoreLockService(t) \/ ResetFirst(t)
         PROVE  IInv'
    BY <2>1, <2>2, <2>10 DEF IInv, StoreLockService, ResetFirst
  <2>11. ASSUME NEW t \in Task, StoreService(t)
         PROVE  IInv'
    BY <2>1, <2>2, <2>3, <2>11 DEF IInv, StoreService
  <2>12. ASSUME NEW t \in Task, StoreConfig(t)
         PROVE  IInv'
    <3>1. service = new_service[t] /\ service # None /\ service.config = wanted[t]
      BY <2>4, <2>12 DEF IInv, StoreConfig, Storing
    <3>2. Belongs'
      BY <2>12, <3>1 DEF StoreConfig
    <3> QED
      BY <2>1, <2>2, <2>3, <2>12, <3>1, <3>2 DEF IInv, StoreConfig
  <2>13. ASSUME NEW t \in Task, ResetSecond(t)
         PROVE  IInv'
    BY <2>1, <2>2, <2>3, <2>13 DEF IInv, ResetSecond
  <2>14. ASSUME NEW t \in Task, ResetConfig(t)
         PROVE  IInv'
    BY <2>1, <2>2, <2>3, <2>14 DEF IInv, ResetConfig
  <2>15. ASSUME NEW t \in Task, QueueForWrite(t)
         PROVE  IInv'
    BY <2>1, <2>15 DEF IInv, QueueForWrite
  <2>16. CASE UNCHANGED vars
    BY <2>1, <2>16 DEF IInv, vars
  <2> QED
    BY <2>5, <2>6, <2>7, <2>8, <2>9, <2>10, <2>11, <2>12, <2>13, <2>14, <2>15, <2>16
       DEF Next, Begin, Step
<1> QED
  BY <1>1, <1>2, TypedInvariant, PTL DEF Spec

(***************************************************************************)
(* A reader of the cache never sees the service of one configuration with  *)
(* another one, for any number of tasks, configurations and resets.        *)
(***************************************************************************)
THEOREM PairHolds == Spec => []PairBelongsTogether
<1>1. IInv => PairBelongsTogether
  BY DEF IInv, PairBelongsTogether, PairIntact, Torn, Belongs, Holders, Writing
<1> QED
  BY <1>1, IInvInvariant, PTL

(***************************************************************************)
(* get_or_init_with_config never returns a service made for a              *)
(* configuration other than the one it was asked for.                      *)
(***************************************************************************)
THEOREM AnswerHolds == Spec => []AnswerMatchesRequest
<1>1. IInv => AnswerMatchesRequest
  BY DEF IInv
<1> QED
  BY <1>1, IInvInvariant, PTL

-----------------------------------------------------------------------------
(***************************************************************************)
(* Nobody waits for ever: the part of CallsReturn that is safety.  GoesOn  *)
(* is the guards of Step(t), so it says that t's next step is to be had.   *)
(***************************************************************************)
GoesOn(t) ==
    \/ pc[t] \in {"init", "store_config", "reset_config"}
    \/ pc[t] = "read_service" /\ CanRead(lock["service"])
    \/ pc[t] = "read_config" /\ CanRead(lock["config"])
    \/ \E l \in AwaitsWrite(t) : CanWrite(lock[l])

HasLock(t) == \E l \in {"service", "config"} : t \in lock[l].readers \cup lock[l].writer

HolderNeverWaits == \A t \in Task : HasLock(t) => GoesOn(t)

SomeoneGoesOn == (\E t \in Task : pc[t] # "idle") => \E t \in Task : GoesOn(t)

(***************************************************************************)
(* The invariant: where a task is says which locks it has, no more and no  *)
(* less, and whoever queues for a lock is about to take it.  So whoever    *)
(* queues for, or writes, the configuration has the service lock to write. *)
(***************************************************************************)
LocksHeld ==
    /\ lock["service"].readers = {t \in Task : pc[t] = "read_config"}
    /\ lock["service"].writer = {t \in Task : Writing(t)}
    /\ lock["service"].queued
           \subseteq {t \in Task : pc[t] \in {"store_lock_service", "reset_first"}}
    /\ lock["config"].readers = {}
    /\ lock["config"].writer = {t \in Task : pc[t] \in {"store_config", "reset_config"}}
    /\ lock["config"].queued
           \subseteq {t \in Task : pc[t] \in {"store_service", "reset_second"}}

\* Every step keeps the locks where the tasks' places put them.
LEMMA LocksHeldInvariant == Spec => []LocksHeld
<1>1. Init => LocksHeld
  BY DEF Init, LocksHeld, Writing, Free, Lock
<1>2. Typed /\ LocksHeld /\ [Next]_vars => LocksHeld'
  <2> SUFFICES ASSUME Typed, LocksHeld, [Next]_vars
               PROVE  LocksHeld'
    OBVIOUS
  <2> USE DEF LocksHeld, Writing, Goto
  <2>1. /\ lock \in [{"service", "config"} -> RwLockType(Task)]
        /\ pc = [t \in Task |-> pc[t]]
        /\ \A k \in {"service", "config"} : Exclusive(lock[k])
    BY DEF Typed, TypeOK
  <2>2. ASSUME NEW t \in Task, ReleaseBoth(t)
        PROVE  \A k \in {"service", "config"} :
                   /\ lock'[k].readers = lock[k].readers \ {t}
                   /\ lock'[k].writer = lock[k].writer \ {t}
                   /\ lock'[k].queued = lock[k].queued
    BY <2>1, <2>2, ReleaseIsLock DEF ReleaseBoth
  <2>3. ASSUME NEW t \in Task, NEW k \in {"service", "config"}, TakeWrite(t, k)
        PROVE  /\ lock[k].readers = {} /\ lock[k].writer = {}
               /\ lock'[k].readers = {} /\ lock'[k].writer = {t}
               /\ lock'[k].queued = lock[k].queued \ {t}
               /\ \A j \in {"service", "config"} : j # k => lock'[j] = lock[j]
    <3>1. CanWrite(lock[k]) /\ lock'[k] = Write(lock[k], t)
      BY <2>1, <2>3 DEF TakeWrite
    <3>2. \A j \in {"service", "config"} : j # k => lock'[j] = lock[j]
      BY <2>1, <2>3 DEF TakeWrite
    <3> QED
      BY <2>1, <3>1, <3>2, WriteIsLock DEF CanWrite
  <2>4. ASSUME NEW t \in Task, Call(t) \/ ResetCall(t) \/ InitOk(t) \/ InitFails(t)
        PROVE  LocksHeld'
    BY <2>1, <2>4 DEF Call, ResetCall, InitOk, InitFails
  <2>5. ASSUME NEW t \in Task, ReadService(t)
        PROVE  LocksHeld'
    <3>1. /\ lock'["service"].readers = lock["service"].readers \cup {t}
          /\ lock'["service"].writer = lock["service"].writer
          /\ lock'["service"].queued = lock["service"].queued
          /\ lock'["config"] = lock["config"]
      BY <2>1, <2>5 DEF ReadService, TakeRead, Read, Lock, RwLockType
    <3> QED
      BY <2>1, <2>5, <3>1 DEF ReadService
  <2>6. ASSUME NEW t \in Task, ReadConfig(t) \/ StoreConfig(t) \/ ResetConfig(t)
        PROVE  LocksHeld'
    <3>1. /\ pc'[t] \in {"idle", "init"}
          /\ \A u \in Task : u # t => pc'[u] = pc[u]
      BY <2>1, <2>6 DEF ReadConfig, StoreConfig, ResetConfig
    <3>2. pc[t] \in {"read_config", "store_config", "reset_config"}
      BY <2>6 DEF ReadConfig, StoreConfig, ResetConfig
    <3>3. ReleaseBoth(t)
      BY <2>6 DEF ReadConfig, StoreConfig, ResetConfig
    <3>4. \A k \in {"service", "config"} :
              /\ lock'[k].readers = lock[k].readers \ {t}
              /\ lock'[k].writer = lock[k].writer \ {t}
              /\ lock'[k].queued = lock[k].queued
      BY <2>2, <3>3
    <3> QED
      BY <3>1, <3>2, <3>4
  <2>7. ASSUME NEW t \in Task, StoreLockService(t) \/ ResetFirst(t)
        PROVE  LocksHeld'
    <3>1. TakeWrite(t, "service")
      BY <2>7 DEF StoreLockService, ResetFirst, ResetOrder
    <3> QED
      BY <2>1, <2>3, <2>7, <3>1 DEF StoreLockService, ResetFirst
  <2>8. ASSUME NEW t \in Task, StoreService(t) \/ ResetSecond(t)
        PROVE  LocksHeld'
    <3>1. TakeWrite(t, "config")
      BY <2>8 DEF StoreService, ResetSecond, ResetOrder
    <3> QED
      BY <2>1, <2>3, <2>8, <3>1 DEF StoreService, ResetSecond
  <2>9. ASSUME NEW t \in Task, QueueForWrite(t)
        PROVE  LocksHeld'
    <3>1. PICK l \in AwaitsWrite(t) : lock' = [lock EXCEPT ![l] = Queue(@, t)]
      BY <2>9 DEF QueueForWrite
    <3>2. /\ l \in {"service", "config"}
          /\ l = "service" => pc[t] \in {"store_lock_service", "reset_first"}
          /\ l = "config" => pc[t] \in {"store_service", "reset_second"}
      BY <3>1 DEF AwaitsWrite, ResetOrder
    <3>3. /\ lock'[l].readers = lock[l].readers /\ lock'[l].writer = lock[l].writer
          /\ lock'[l].queued = lock[l].queued \cup {t}
          /\ \A j \in {"service", "config"} : j # l => lock'[j] = lock[j]
      BY <2>1, <3>1, <3>2 DEF Queue, Lock, RwLockType
    <3>4. pc' = pc
      BY <2>9 DEF QueueForWrite
    <3>5. CASE l = "service"
      <4>1. lock'["config"] = lock["config"]
        BY <3>3, <3>5
      <4> QED
        BY <3>2, <3>3, <3>4, <3>5, <4>1
    <3>6. CASE l = "config"
      <4>1. lock'["service"] = lock["service"]
        BY <3>3, <3>6
      <4> QED
        BY <3>2, <3>3, <3>4, <3>6, <4>1
    <3> QED
      BY <3>2, <3>5, <3>6
  <2>10. CASE UNCHANGED vars
    BY <2>10 DEF vars
  <2> QED
    BY <2>4, <2>5, <2>6, <2>7, <2>8, <2>9, <2>10 DEF Next, Begin, Step
<1> QED
  BY <1>1, <1>2, TypedInvariant, PTL DEF Spec

\* Whoever has a lock has its next one to hand: nothing blocks while holding.
LEMMA HolderGoesOn ==
    ASSUME Typed, LocksHeld, NEW t \in Task, HasLock(t)
    PROVE  GoesOn(t)
<1>1. pc[t] = "read_config" \/ Writing(t)
  BY DEF HasLock, LocksHeld, Writing
<1>2. Exclusive(lock["service"])
  BY DEF Typed, TypeOK
<1>3. ASSUME NEW u \in Task, Writing(u)
      PROVE  u = t
  BY <1>1, <1>2, <1>3 DEF LocksHeld, Exclusive
<1>4. CASE pc[t] = "read_config"
  <2>1. ~Writing(t)
    BY <1>4 DEF Writing
  <2>2. \A u \in Task : ~Writing(u)
    BY <1>3, <2>1
  <2> QED
    BY <1>4, <2>2 DEF GoesOn, CanRead, LocksHeld, Writing
<1>5. CASE pc[t] \in {"store_config", "reset_config"}
  BY <1>5 DEF GoesOn
<1>6. CASE pc[t] \in {"store_service", "reset_second"}
  <2>1. CanWrite(lock["config"])
    BY <1>3, <1>6 DEF CanWrite, LocksHeld, Writing
  <2>2. "config" \in AwaitsWrite(t)
    BY <1>6 DEF AwaitsWrite, ResetOrder
  <2> QED
    BY <2>1, <2>2 DEF GoesOn
<1> QED
  BY <1>1, <1>4, <1>5, <1>6 DEF Writing

(***************************************************************************)
(* get_or_init_with_config and reset never wait for a lock while they hold *)
(* another: the service lock is taken first everywhere, and whoever has it *)
(* finds the config lock free.  For any number of tasks.                   *)
(***************************************************************************)
THEOREM NoWaitWhileHolding == Spec => []HolderNeverWaits
<1>1. Typed /\ LocksHeld => HolderNeverWaits
  BY HolderGoesOn DEF HolderNeverWaits
<1> QED
  BY <1>1, TypedInvariant, LocksHeldInvariant, PTL

(***************************************************************************)
(* There is no deadlock between get_or_init_with_config and reset: while a *)
(* call is under way some call has its next step to hand.                  *)
(***************************************************************************)
THEOREM NoDeadlock == Spec => []SomeoneGoesOn
<1>1. Typed /\ LocksHeld => SomeoneGoesOn
  <2> SUFFICES ASSUME Typed, LocksHeld, NEW t \in Task, pc[t] # "idle"
               PROVE  \E u \in Task : GoesOn(u)
    BY DEF SomeoneGoesOn
  <2>1. CASE \E u \in Task : HasLock(u)
    BY <2>1, HolderGoesOn
  <2>2. CASE ~ \E u \in Task : HasLock(u)
    <3>1. CanWrite(lock["service"])
      BY <2>2 DEF CanWrite, HasLock, LocksHeld
    <3>2. \A u \in Task : pc[u] # "read_config" /\ ~Writing(u)
      BY <2>2 DEF HasLock, LocksHeld
    <3>3. ASSUME NEW u \in Task, pc[u] \in {"store_lock_service", "reset_first"}
          PROVE  GoesOn(u)
      <4>1. "service" \in AwaitsWrite(u)
        BY <3>3 DEF AwaitsWrite, ResetOrder
      <4> QED
        BY <3>1, <4>1 DEF GoesOn
    <3>4. CASE lock["service"].queued # {}
      BY <3>3, <3>4 DEF LocksHeld
    <3>5. CASE lock["service"].queued = {}
      <4>1. CanRead(lock["service"])
        BY <3>1, <3>5 DEF CanRead, CanWrite
      <4>2. pc[t] \in {"read_service", "init", "store_lock_service", "reset_first"}
        BY <3>2 DEF Typed, TypeOK, Writing
      <4> QED
        BY <3>3, <4>1, <4>2 DEF GoesOn
    <3> QED
      BY <3>4, <3>5
  <2> QED
    BY <2>1, <2>2
<1> QED
  BY <1>1, TypedInvariant, LocksHeldInvariant, PTL
=============================================================================
