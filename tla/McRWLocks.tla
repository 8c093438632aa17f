----------------------------- MODULE McRWLocks -----------------------------
(* The shadow reader-writer locks of McMini (MCRWLock.cpp) and the          *)
(* transitions on them (transitions/rwlock).  Taking a lock is two          *)
(* transitions: the thread enters the queues, then takes the lock when the  *)
(* kind allows it and it is first.  The wrappers create every lock with no  *)
(* preference, so the order is that of acquire_queue.                       *)
EXTENDS McThreads, Sequences

CONSTANT RWLocks

RWOps == {"rwInit", "readerEnqueue", "readerLock", "writerEnqueue", "writerLock", "rwUnlock"}

RWTransition == [tid : Threads, type : RWOps, obj : RWLocks]

\* writer is an optional thread, {} for none; readers counts how often each
\* thread reads (active_readers is a vector, of which unlock erases one element).
RWStates == [RWLocks -> [writer : SUBSET Threads, readers : [Threads -> Nat],
                         readerQ : Seq(Threads), writerQ : Seq(Threads),
                         acquireQ : Seq(Threads)]]

InitialRWLocks ==
    [l \in RWLocks |-> [writer |-> {}, readers |-> [t \in Threads |-> 0],
                        readerQ |-> <<>>, writerQ |-> <<>>, acquireQ |-> <<>>]]

IsReaderLocked(lock) == \E t \in Threads : lock.readers[t] > 0
IsWriterLocked(lock) == lock.writer # {}
IsRWUnlocked(lock)   == ~IsWriterLocked(lock) /\ ~IsReaderLocked(lock)

EnterAsReader(lock, t) == [lock EXCEPT !.readerQ = Append(@, t), !.acquireQ = Append(@, t)]
EnterAsWriter(lock, t) == [lock EXCEPT !.writerQ = Append(@, t), !.acquireQ = Append(@, t)]

CanAcquireOutOfTurn(lock, t) == ~IsWriterLocked(lock)   \* mutant: the queue is not asked

CanAcquireAsReader(lock, t) == ~IsWriterLocked(lock) /\ Head(lock.acquireQ) = t

CanAcquireBesideReaders(lock, t) ==    \* mutant: only another writer is waited for
    ~IsWriterLocked(lock) /\ Head(lock.acquireQ) = t

CanAcquireAsWriter(lock, t) == IsRWUnlocked(lock) /\ Head(lock.acquireQ) = t

LockAsReader(lock, t) == [lock EXCEPT !.readers[t] = @ + 1, !.readerQ = Tail(@),
                                      !.acquireQ = Tail(@)]
LockAsWriter(lock, t) == [lock EXCEPT !.writer = {t}, !.writerQ = Tail(@), !.acquireQ = Tail(@)]

Release(lock, t) == IF IsWriterLocked(lock) THEN [lock EXCEPT !.writer = {}]
                    ELSE [lock EXCEPT !.readers[t] = @ - 1]

EnqueueAsReader(objs, tr) == [objs EXCEPT !.rwlock[tr.obj] = EnterAsReader(@, tr.tid)]
EnqueueAsWriter(objs, tr) == [objs EXCEPT !.rwlock[tr.obj] = EnterAsWriter(@, tr.tid)]
ReaderLock(objs, tr)      == [objs EXCEPT !.rwlock[tr.obj] = LockAsReader(@, tr.tid)]
WriterLock(objs, tr)      == [objs EXCEPT !.rwlock[tr.obj] = LockAsWriter(@, tr.tid)]
UnlockRW(objs, tr)        == [objs EXCEPT !.rwlock[tr.obj] = Release(@, tr.tid)]

\* What MCReadRWLockUnlock reports as undefined behaviour, and what the
\* assertions of MCRWLock::unlock abort McMini for.
UndefinedRWUnlock(objs, tr) == tr.type = "rwUnlock" /\ IsRWUnlocked(objs.rwlock[tr.obj])

HoldsRW(lock, t) == IF IsWriterLocked(lock) THEN lock.writer = {t} ELSE lock.readers[t] > 0

AbortsInRWUnlock(objs, tr) == tr.type = "rwUnlock" /\ ~HoldsRW(objs.rwlock[tr.obj], tr.tid)

ReaderEnqueueDependsOn == RWOps
ReaderLockDependsOn    == RWOps \ {"readerLock"}

RWNotCoenabledWith(a, b) ==
    /\ <<a.type, b.type>> \in {<<"readerLock", "writerLock">>, <<"writerLock", "readerLock">>,
                               <<"writerLock", "writerLock">>}
    /\ a.obj = b.obj
=============================================================================
