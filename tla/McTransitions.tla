---------------------------- MODULE McTransitions ----------------------------
(***************************************************************************)
(* The visible operations of McMini (MCTransition.h and .cpp): what each   *)
(* transition class does to the shadow objects of the scheduler, when it   *)
(* is enabled, and what it declares about other transitions.  A transition *)
(* is [tid, type, obj]: the thread that runs it, the operation, and the    *)
(* thread or object it is on.                                              *)
(***************************************************************************)
EXTENDS McThreads, McMutexes, McSemaphores, McGlobals, McConds, McBarriers, McRWLocks,
        McRWWLocks

Transition == ThreadTransition \cup MutexTransition \cup SemTransition
              \cup GlobalTransition \cup CondTransition \cup BarrierTransition
              \cup RWTransition \cup RWWTransition

Objects == [thread : ThreadStates, mutex : MutexStates, count : Counts, queue : Queues,
            cond : CondStates, barrier : BarrierStates, rwlock : RWStates,
            rwwlock : RWWStates]

\* The state an object is registered in, and reset to.
InitialObjects == [thread |-> [t \in Threads |-> "embryo"],
                   mutex  |-> [m \in Mutexes |-> "undefined"],
                   count  |-> SemCount,
                   queue  |-> [s \in Sems |-> <<>>],
                   cond   |-> InitialConds,
                   barrier |-> [b \in Barriers |-> FreshBarrier],
                   rwlock |-> InitialRWLocks,
                   rwwlock |-> InitialRWWLocks]

EnabledInState(objs, tr) ==
    CASE tr.type = "finish"  -> FinishEnabled(tr)
      [] tr.type = "exit"    -> ExitEnabled(tr)
      [] tr.type = "join"    -> JoinEnabled(objs, tr)
      [] tr.type = "lock"    -> LockEnabled(objs, tr)
      [] tr.type = "semWait" -> SemWaitEnabled(objs, tr)
      [] tr.type = "condWait"      -> CondWaitEnabled(objs, tr)
      [] tr.type = "barrierWait"   -> BarrierWaitEnabled(objs, tr)
      [] tr.type = "readerLock"    -> CanAcquireAsReader(objs.rwlock[tr.obj], tr.tid)
      [] tr.type = "writerLock"    -> CanAcquireAsWriter(objs.rwlock[tr.obj], tr.tid)
      [] tr.type = "rwwReaderLock" -> RWWCanAcquireAsReader(objs.rwwlock[tr.obj], tr.tid)
      [] tr.type = "writer1Lock"   -> CanAcquireAsWriter1(objs.rwwlock[tr.obj], tr.tid)
      [] tr.type = "writer2Lock"   -> CanAcquireAsWriter2(objs.rwwlock[tr.obj], tr.tid)
      [] OTHER                     -> TRUE

TransitionEnabled(objs, tr) == IsAlive(objs, tr.tid) /\ EnabledInState(objs, tr)

Apply(objs, tr) ==
    CASE tr.type = "start"      -> StartThread(objs, tr)
      [] tr.type = "create"     -> CreateThread(objs, tr)
      [] tr.type = "finish"     -> FinishThread(objs, tr)
      [] tr.type = "mutexInit"  -> InitMutex(objs, tr)
      [] tr.type = "lock"       -> LockMutex(objs, tr)
      [] tr.type = "unlock"     -> UnlockMutex(objs, tr)
      [] tr.type = "semEnqueue" -> EnterQueue(objs, tr)
      [] tr.type = "semWait"    -> WaitSem(objs, tr)
      [] tr.type = "semPost"    -> PostSem(objs, tr)
      [] tr.type = "condEnqueue"      -> EnqueueWaiter(objs, tr)
      [] tr.type = "condWait"         -> WakeAndLock(objs, tr)
      [] tr.type \in {"signal", "broadcast"} -> SendSignal(objs, tr)
      [] tr.type = "readerEnqueue"    -> EnqueueAsReader(objs, tr)
      [] tr.type = "readerLock"       -> ReaderLock(objs, tr)
      [] tr.type = "writerEnqueue"    -> EnqueueAsWriter(objs, tr)
      [] tr.type = "writerLock"       -> WriterLock(objs, tr)
      [] tr.type = "rwUnlock"         -> UnlockRW(objs, tr)
      [] tr.type = "rwwReaderEnqueue" -> RWWEnqueueAsReader(objs, tr)
      [] tr.type = "rwwReaderLock"    -> RWWReaderLock(objs, tr)
      [] tr.type = "writer1Enqueue"   -> EnqueueAsWriter1(objs, tr)
      [] tr.type = "writer1Lock"      -> Writer1Lock(objs, tr)
      [] tr.type = "writer2Enqueue"   -> EnqueueAsWriter2(objs, tr)
      [] tr.type = "writer2Lock"      -> Writer2Lock(objs, tr)
      [] tr.type = "rwwUnlock"        -> UnlockRWW(objs, tr)
      [] OTHER -> objs      \* join, exit, read, write, barrierWait, and the
                            \* initialisations of all but mutexes

\* What reading an operation from the mailbox does to the shadow objects, before
\* the operation is run.  A replay does not read anything again.
WhenRead(objs, tr) ==
    CASE tr.type = "condEnqueue" -> ReadCondEnqueue(objs, tr)
      [] tr.type = "barrierWait" -> WaitOnBarrier(objs, tr)
      [] OTHER                   -> objs

\* Undefined behaviour of the program that is reported when an operation is read,
\* and an assertion of McMini that fails when one is run.
Undefined(objs, tr) == \/ UndefinedUnlock(objs, tr)
                       \/ UndefinedRWUnlock(objs, tr)
                       \/ UndefinedRWWUnlock(objs, tr)

Aborts(objs, tr) == AbortsInRWUnlock(objs, tr) \/ AbortsInRWWUnlock(objs, tr)

\* Only these can be run backwards; MCTransition::unapplyToState throws for
\* the others.
ReversibleOps == {"unlock", "mutexInit", "finish", "join"}

Unapply(objs, tr) ==
    CASE tr.type = "finish"    -> UndoFinish(objs, tr)
      [] tr.type = "unlock"    -> UndoUnlock(objs, tr)
      [] tr.type = "mutexInit" -> UndoInit(objs, tr)
      [] OTHER                 -> objs       \* join

CountsAgainstDepth(tr) ==
    tr.type \notin {"start", "finish", "exit", "semEnqueue", "condEnqueue",
                     "readerEnqueue", "writerEnqueue",
                     "rwwReaderEnqueue", "writer1Enqueue", "writer2Enqueue"}

EnsuresNoDeadlock(tr) == \/ tr.type = "finish" /\ FinishEnsuresNoDeadlock(tr)
                         \/ tr.type = "exit"

(***************************************************************************)
(* The declarations the partial-order reduction rests on: the operations   *)
(* each class names in dependentWith and refuses in coenabledWith.  They   *)
(* ask the objects a transition points to: the live ones if it is pending, *)
(* copies made before it ran if it is on the transition stack.             *)
(***************************************************************************)
Live(objs, tr) ==
    CASE tr.type \in {"condEnqueue", "condWait"} -> SeenCond(objs, tr)
      [] tr.type = "barrierWait" -> SeenBarrier(objs.barrier[tr.obj], tr)
      [] OTHER -> tr

StaticCopy(objs, tr) == IF tr.type = "barrierWait" THEN SeenBarrier(FreshBarrier, tr)
                        ELSE Live(objs, tr)

\* dynamicCopyInState: the operation alone, pointing at the live objects again.
Operation(tr) == [tid |-> tr.tid, type |-> tr.type, obj |-> tr.obj]

DependentOps(type) ==
    CASE type = "mutexInit"  -> MutexInitDependsOn
      [] type = "lock"       -> LockDependsOn
      [] type = "semEnqueue" -> EnqueueDependsOn
      [] type = "semWait"    -> WaitDependsOn
      [] type = "semPost"    -> PostDependsOn
      [] type = "write"      -> WriteDependsOn
      [] type = "read"       -> ReadDependsOn
      [] type \in BarrierOps -> BarrierOps
      [] type = "readerEnqueue"              -> ReaderEnqueueDependsOn
      [] type = "readerLock"                 -> ReaderLockDependsOn
      [] type \in RWOps \ {"readerEnqueue", "readerLock"} -> RWOps
      [] type = "rwwReaderLock"              -> RWWReaderLockDependsOn
      [] type \in RWWOps \ {"rwwReaderLock"} -> RWWOps
      [] OTHER               -> {}

DependentWith(a, b) == \/ NamesThreadOf(a, b)
                       \/ b.type \in DependentOps(a.type) /\ a.obj = b.obj
                       \/ CondDependentWith(a, b)

Dependent(a, b) == a.tid = b.tid \/ DependentWith(a, b) \/ DependentWith(b, a)

CoenabledWith(a, b) == /\ ~NamesThreadOf(a, b)
                       /\ ~LockNotCoenabledWith(a, b)
                       /\ ~CondNotCoenabledWith(a, b)
                       /\ ~BarrierNotCoenabledWith(a, b)
                       /\ ~RWNotCoenabledWith(a, b)
                       /\ ~RWWNotCoenabledWith(a, b)

Coenabled(a, b) == a.tid # b.tid /\ CoenabledWith(a, b) /\ CoenabledWith(b, a)

\* What dependentWith promises of two transitions that are not dependent
\* (MCTransition.h:345): the first neither enables nor disables the second,
\* and their order does not matter.
Commute(objs, a, b) ==
    /\ TransitionEnabled(objs, b) <=> TransitionEnabled(Apply(objs, a), b)
    /\ TransitionEnabled(objs, b) => Apply(Apply(objs, a), b) = Apply(Apply(objs, b), a)

RacingWith(a, b) == \/ RacesWithWrite(a, b) \/ RacesWithRead(a, b)
                    \/ RacesWithWrite(b, a) \/ RacesWithRead(b, a)
=============================================================================
