----------------------------- MODULE McRWWLocks -----------------------------
(* The shadow locks of McMini with readers and two kinds of writers         *)
(* (MCRWWLock.cpp) and the transitions on them (transitions/rwwlock), which *)
(* a program uses through the mc_pthread_rwwlock functions.  They have no   *)
(* preference, so the order is that of acquire_queue.                       *)
EXTENDS McThreads, Sequences

CONSTANT RWWLocks

RWWOps == {"rwwInit", "rwwReaderEnqueue", "rwwReaderLock", "writer1Enqueue", "writer1Lock",
           "writer2Enqueue", "writer2Lock", "rwwUnlock"}

RWWTransition == [tid : Threads, type : RWWOps, obj : RWWLocks]

\* writer1 and writer2 are optional threads, {} for none.
RWWStates == [RWWLocks -> [writer1 : SUBSET Threads, writer2 : SUBSET Threads,
                           readers : [Threads -> Nat], readerQ : Seq(Threads),
                           writer1Q : Seq(Threads), writer2Q : Seq(Threads),
                           acquireQ : Seq(Threads)]]

InitialRWWLocks ==
    [l \in RWWLocks |-> [writer1 |-> {}, writer2 |-> {}, readers |-> [t \in Threads |-> 0],
                         readerQ |-> <<>>, writer1Q |-> <<>>, writer2Q |-> <<>>,
                         acquireQ |-> <<>>]]

HasReader(lock)   == \E t \in Threads : lock.readers[t] > 0
HasWriter(lock)   == lock.writer1 # {} \/ lock.writer2 # {}
IsRWWUnlocked(lock) == ~HasWriter(lock) /\ ~HasReader(lock)

RWWEnterAsReader(lock, t) == [lock EXCEPT !.readerQ = Append(@, t), !.acquireQ = Append(@, t)]
EnterAsWriter1(lock, t) == [lock EXCEPT !.writer1Q = Append(@, t), !.acquireQ = Append(@, t)]
EnterAsWriter2(lock, t) == [lock EXCEPT !.writer2Q = Append(@, t), !.acquireQ = Append(@, t)]

RWWCanAcquireAsReader(lock, t) == ~HasWriter(lock) /\ Head(lock.acquireQ) = t

CanAcquireAsWriter1(lock, t) == IsRWWUnlocked(lock) /\ Head(lock.acquireQ) = t

CanAcquireAsWriter2(lock, t) == IsRWWUnlocked(lock) /\ Head(lock.acquireQ) = t

RWWLockAsReader(lock, t) == [lock EXCEPT !.readers[t] = @ + 1, !.readerQ = Tail(@),
                                         !.acquireQ = Tail(@)]
LockAsWriter1(lock, t) == [lock EXCEPT !.writer1 = {t}, !.writer1Q = Tail(@), !.acquireQ = Tail(@)]
LockAsWriter2(lock, t) == [lock EXCEPT !.writer2 = {t}, !.writer2Q = Tail(@), !.acquireQ = Tail(@)]

RWWRelease(lock, t) == IF lock.writer1 # {} THEN [lock EXCEPT !.writer1 = {}]
                       ELSE IF lock.writer2 # {} THEN [lock EXCEPT !.writer2 = {}]
                       ELSE [lock EXCEPT !.readers[t] = @ - 1]

RWWEnqueueAsReader(objs, tr) == [objs EXCEPT !.rwwlock[tr.obj] = RWWEnterAsReader(@, tr.tid)]
EnqueueAsWriter1(objs, tr)   == [objs EXCEPT !.rwwlock[tr.obj] = EnterAsWriter1(@, tr.tid)]
EnqueueAsWriter2(objs, tr)   == [objs EXCEPT !.rwwlock[tr.obj] = EnterAsWriter2(@, tr.tid)]
RWWReaderLock(objs, tr)      == [objs EXCEPT !.rwwlock[tr.obj] = RWWLockAsReader(@, tr.tid)]
Writer1Lock(objs, tr)        == [objs EXCEPT !.rwwlock[tr.obj] = LockAsWriter1(@, tr.tid)]
Writer2Lock(objs, tr)        == [objs EXCEPT !.rwwlock[tr.obj] = LockAsWriter2(@, tr.tid)]
UnlockRWW(objs, tr)          == [objs EXCEPT !.rwwlock[tr.obj] = RWWRelease(@, tr.tid)]

UndefinedRWWUnlock(objs, tr) == tr.type = "rwwUnlock" /\ IsRWWUnlocked(objs.rwwlock[tr.obj])

HoldsRWW(lock, t) == IF lock.writer1 # {} THEN lock.writer1 = {t}
                     ELSE IF lock.writer2 # {} THEN lock.writer2 = {t}
                     ELSE lock.readers[t] > 0

AbortsInRWWUnlock(objs, tr) == tr.type = "rwwUnlock" /\ ~HoldsRWW(objs.rwwlock[tr.obj], tr.tid)

RWWReaderLockDependsOn == RWWOps \ {"rwwReaderLock"}

\* A writer of the second kind refuses readers and its own kind; the first kind
\* refuses all, so the pair of both is refused by one side.
RWWNotCoenabledWith(a, b) ==
    /\ \/ a.type = "rwwReaderLock" /\ b.type \in {"writer1Lock", "writer2Lock"}
       \/ a.type = "writer1Lock" /\ b.type \in {"rwwReaderLock", "writer1Lock", "writer2Lock"}
       \/ a.type = "writer2Lock" /\ b.type \in {"rwwReaderLock", "writer2Lock"}
    /\ a.obj = b.obj
=============================================================================
