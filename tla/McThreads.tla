----------------------------- MODULE McThreads -----------------------------
(* The shadow threads of McMini (MCThread.cpp) and the transitions on them *)
(* (mcmini-alpha/src/transitions/threads and misc/MCExitTransition.cpp).   *)
EXTENDS Naturals

CONSTANT Threads        \* thread ids, numbered in the order of their creation

Main == 0               \* TID_MAIN_THREAD

ASSUME ThreadsAssumption == Threads \subseteq Nat /\ Main \in Threads

ThreadOps == {"start", "create", "join", "finish", "exit"}

ThreadTransition == [tid : Threads, type : ThreadOps, obj : Threads]

ThreadStates == [Threads -> {"embryo", "alive", "dead"}]

IsAlive(objs, t) == objs.thread[t] = "alive"
IsDead(objs, t)  == objs.thread[t] = "dead"

Spawn(objs, t) == [objs EXCEPT !.thread[t] = "alive"]
Die(objs, t)   == [objs EXCEPT !.thread[t] = "dead"]

StartThread(objs, tr)  == Spawn(objs, tr.tid)
CreateThread(objs, tr) == Spawn(objs, tr.obj)
FinishThread(objs, tr) == Die(objs, tr.tid)

UndoFinishNothing(objs, tr) == objs        \* mutant: a finished thread stays dead

UndoFinish(objs, tr) == Spawn(objs, tr.tid)

JoinEnabled(objs, tr) == IsDead(objs, tr.obj)
FinishEnabled(tr) == tr.tid # Main
ExitEnabled(tr) == FALSE

\* doesCreateThread and joinsOnThread: such a transition depends on everything
\* the thread it names does, and is never enabled together with it.
NamesThreadOf(a, b) == a.type \in {"create", "join"} /\ b.tid = a.obj

\* The main thread never finishes: McMini keeps it for the next trace.
FinishEnsuresNoDeadlock(tr) == tr.tid = Main
=============================================================================
