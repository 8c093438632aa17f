------------------------------ MODULE McConds ------------------------------
(* The shadow condition variables of McMini (MCConditionVariable.cpp), with *)
(* the policies every one of them is given (misc/cond), and the transitions *)
(* on them (transitions/cond).  A pthread_cond_wait is two transitions: the *)
(* thread becomes a waiter and releases the mutex, then wakes up and takes  *)
(* it again.                                                                *)
EXTENDS McMutexes, SequencesExt

CONSTANTS Conds,
          CondMutex     \* the one mutex the program waits with on each of them

ASSUME CondMutexAssumption == CondMutex \in [Conds -> Mutexes]

CondOps == {"condInit", "condEnqueue", "condWait", "signal", "broadcast"}

CondTransition == [tid : Threads, type : CondOps, obj : Conds]

\* mutex is an optional value, {} for none; a wake group is the set of threads
\* that one signal or broadcast may still wake.
CondStates == [Conds -> [mutex : SUBSET Mutexes, waiters : SUBSET Threads,
                         groups : Seq(SUBSET Threads), spurious : Nat]]

InitialConds ==
    [c \in Conds |-> [mutex |-> {}, waiters |-> {}, groups |-> <<>>, spurious |-> 1]]

\* MCReadCondEnqueue associates the mutex before the operation is run.
ReadCondEnqueue(objs, tr) == [objs EXCEPT !.cond[tr.obj].mutex = {CondMutex[tr.obj]}]

EnqueueWaiter(objs, tr) ==
    [objs EXCEPT !.cond[tr.obj].waiters = @ \cup {tr.tid},
                 !.cond[tr.obj].mutex = {CondMutex[tr.obj]},
                 !.mutex[CondMutex[tr.obj]] = "unlocked"]

\* Both policies of receiving a message put every current waiter in the group.
PushWakeupGroup(cond) ==
    IF cond.waiters = {} THEN cond ELSE [cond EXCEPT !.groups = Append(@, cond.waiters)]

SendSignal(objs, tr) == [objs EXCEPT !.cond[tr.obj] = PushWakeupGroup(@)]

ThreadCanExit(cond, t) == \E i \in DOMAIN cond.groups : t \in cond.groups[i]

WaiterCanExit(cond, t) == cond.spurious > 0 \/ ThreadCanExit(cond, t)

WakeFromFirstGroup(groups, t) ==       \* mutant: the later groups keep the thread
    [i \in DOMAIN groups |->
        IF t \in groups[i] /\ \A j \in 1..(i - 1) : t \notin groups[j]
        THEN groups[i] \ {t} ELSE groups[i]]

WakeThread(groups, t) ==               \* what is left of each group, if anything is
    FoldLeft(LAMBDA kept, group : IF group \ {t} = {} THEN kept ELSE Append(kept, group \ {t}),
             <<>>, groups)

RemoveWaiterAlways(cond, t) ==         \* mutant: spurious wakeups are not counted
    [cond EXCEPT !.waiters = @ \ {t}, !.groups = WakeThread(@, t)]

RemoveWaiter(cond, t) ==
    [cond EXCEPT !.waiters = @ \ {t}, !.groups = WakeThread(@, t),
                 !.spurious = IF @ > 0 THEN @ - 1 ELSE @]

CondWaitEnabled(objs, tr) ==
    WaiterCanExit(objs.cond[tr.obj], tr.tid) /\ IsUnlocked(objs, CondMutex[tr.obj])

WakeAndLock(objs, tr) ==
    [objs EXCEPT !.mutex[CondMutex[tr.obj]] = "locked",
                 !.cond[tr.obj] = RemoveWaiter(@, tr.tid)]

(***************************************************************************)
(* The declarations see the object the transition points to: tr.mutex is   *)
(* the mutex associated with that object.  Towards mutex operations an     *)
(* enqueue asks whether an unlock could be enabled together with them, and *)
(* a wait whether a lock could, even to decide on dependence.              *)
(***************************************************************************)
SeenCond(objs, tr) == [tid |-> tr.tid, type |-> tr.type, obj |-> tr.obj,
                       mutex |-> objs.cond[tr.obj].mutex]

\* coenabledTransitions of that unlock or lock and the mutex operation: a lock and
\* an unlock of one mutex are never enabled together.
MayRunBeside(a, b) ==
    /\ a.tid # b.tid
    /\ <<a.type, b.type>> \in {<<"condEnqueue", "lock">>, <<"condWait", "unlock">>} =>
           a.mutex # {b.obj}

CondDependentOnConds(a, b) ==          \* mutant: mutex operations are forgotten
    a.type \in CondOps /\ b.type \in CondOps /\ a.obj = b.obj

CondDependentWith(a, b) ==
    /\ a.type \in CondOps
    /\ \/ b.type \in CondOps /\ a.obj = b.obj
       \/ a.type \in {"condEnqueue", "condWait"} /\ b.type \in MutexOps /\ MayRunBeside(a, b)

CondNotCoenabledWith(a, b) ==
    /\ a.type \in {"condEnqueue", "condWait"}
    /\ \/ b.type = a.type /\ b.obj = a.obj
       \/ b.type \in MutexOps /\ ~MayRunBeside(a, b)

\* MCMutexLock::coenabledWith compares its mutex with the one of the unlock that
\* stands for an enqueue (MCMutexLock.cpp:81), through a null pointer if there is none.
DereferencesNull(a, b) ==
    /\ a.type = "condEnqueue" /\ b.type = "lock"
    /\ a.tid # b.tid /\ a.mutex = {}
=============================================================================
