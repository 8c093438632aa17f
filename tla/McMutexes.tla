----------------------------- MODULE McMutexes -----------------------------
(* The shadow mutexes of McMini (MCMutex.cpp) and the transitions on them  *)
(* (mcmini-alpha/src/transitions/mutex).  No wrapper intercepts            *)
(* pthread_mutex_destroy, so no mutex is ever in the state "destroyed".    *)
EXTENDS McThreads

CONSTANT Mutexes

MutexOps == {"mutexInit", "lock", "unlock"}

MutexTransition == [tid : Threads, type : MutexOps, obj : Mutexes]

MutexStates == [Mutexes -> {"undefined", "unlocked", "locked"}]

IsUnlocked(objs, m) == objs.mutex[m] = "unlocked"

InitMutex(objs, tr)   == [objs EXCEPT !.mutex[tr.obj] = "unlocked"]
LockMutex(objs, tr)   == [objs EXCEPT !.mutex[tr.obj] = "locked"]
UnlockMutex(objs, tr) == [objs EXCEPT !.mutex[tr.obj] = "unlocked"]

\* Run backwards, an initialisation leaves the mutex undefined and an unlock
\* leaves it locked, whatever state it was in before.
UndoInit(objs, tr)   == [objs EXCEPT !.mutex[tr.obj] = "undefined"]
UndoUnlock(objs, tr) == [objs EXCEPT !.mutex[tr.obj] = "locked"]

LockEnabled(objs, tr) == IsUnlocked(objs, tr.obj)

\* What MCReadMutexUnlock reports as undefined behaviour of a mutex it knows.  (Programs
\* post an initialisation before they use a mutex: the reports of one that has none, by
\* MCReadMutexLock too, are left out.)
UndefinedUnlock(objs, tr) == tr.type = "unlock" /\ IsUnlocked(objs, tr.obj)

MutexInitDependsOn == MutexOps

LockDependsOnLock == {"lock"}              \* mutant: unlock is forgotten

LockDependsOn == {"lock", "unlock"}

LockNotCoenabledWith(a, b) == a.type = "lock" /\ b.type = "unlock" /\ a.obj = b.obj
=============================================================================
