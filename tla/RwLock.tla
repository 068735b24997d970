------------------------------- MODULE RwLock --------------------------------
(***************************************************************************)
(* A reader-writer lock as a value, for modules that hold several: the     *)
(* parking_lot and std locks of src/state.rs and the in-memory providers.  *)
(* Both block a new reader while a writer waits, so a writer that cannot   *)
(* take the lock at once queues.                                           *)
(***************************************************************************)
Lock(readers, writer, queued) ==
    [readers |-> readers, writer |-> writer, queued |-> queued]

Free == Lock({}, {}, {})

RwLockType(T) ==
    [readers : SUBSET T, writer : SUBSET T, queued : SUBSET T]

CanRead(l) == l.writer = {} /\ l.queued = {}
CanWrite(l) == l.writer = {} /\ l.readers = {}

Read(l, t) == Lock(l.readers \cup {t}, l.writer, l.queued)
Write(l, t) == Lock(l.readers, {t}, l.queued \ {t})
Queue(l, t) == Lock(l.readers, l.writer, l.queued \cup {t})
Release(l, t) == Lock(l.readers \ {t}, l.writer \ {t}, l.queued)

\* What a lock is for: one writer, or readers only.
Exclusive(l) ==
    /\ \A t, u \in l.writer : t = u
    /\ l.writer # {} => l.readers = {}
=============================================================================
