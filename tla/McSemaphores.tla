---------------------------- MODULE McSemaphores ----------------------------
(* The shadow semaphores of McMini (MCSemaphore.cpp) and the transitions   *)
(* on them (mcmini-alpha/src/transitions/semaphore).  A sem_wait is two    *)
(* transitions: the thread enters the queue, then leaves it when the count *)
(* is positive and it is first ("Strategy B").  A semaphore has no         *)
(* spurious wakeups left (spuriousWakeupCount is never set).               *)
EXTENDS McThreads, SequencesExt

CONSTANTS Sems,
          SemCount      \* the value each semaphore is initialised with

ASSUME SemCountAssumption == SemCount \in [Sems -> Nat]

SemOps == {"semInit", "semEnqueue", "semWait", "semPost"}

SemTransition == [tid : Threads, type : SemOps, obj : Sems]

Counts == [Sems -> Nat]
Queues == [Sems -> Seq(Threads)]

\* std::find(queue.begin(), queue.end(), tid) == queue.begin()
FirstInQueue(queue, t) == queue = <<>> \/ Head(queue) = t

\* std::find, and erase if there is one.
Without(queue, t) == RemoveFirst(queue, t)

EnterQueue(objs, tr) == [objs EXCEPT !.queue[tr.obj] = Append(@, tr.tid)]

PostSem(objs, tr) == [objs EXCEPT !.count[tr.obj] = @ + 1]

WaitSem(objs, tr) == [objs EXCEPT !.count[tr.obj] = IF @ > 0 THEN @ - 1 ELSE @,
                                  !.queue[tr.obj] = Without(@, tr.tid)]

SemWaitEnabled(objs, tr) == /\ objs.count[tr.obj] > 0
                            /\ FirstInQueue(objs.queue[tr.obj], tr.tid)

EnqueueDependsOn == {"semInit", "semEnqueue"}
WaitDependsOn    == {"semInit", "semWait"}
PostDependsOn    == {"semInit"}
=============================================================================
