------------------------------ MODULE Semaphore ------------------------------
(***************************************************************************)
(* The counting semaphore of hw6/semaphore.c: a count, a number of         *)
(* waiters, one mutex and one condition variable.  count goes below zero   *)
(* when threads wait, so -count is the number of waits not yet matched by  *)
(* a post, and a waiter stays while that number equals `waiting`.          *)
(*                                                                         *)
(* count and waiting are touched only with the mutex held; each step below *)
(* is the code between two operations on the mutex or the condition.       *)
(***************************************************************************)
EXTENDS Integers, FiniteSets

CONSTANTS Threads,    \* the threads that share the semaphore
          NoThread,   \* "the mutex is free"
          InitCount,  \* sem_init's third argument
          MaxCount    \* no sem_post is called once count is here (int overflow is not modelled)

ASSUME ThreadsAssumption == IsFiniteSet(Threads) /\ NoThread \notin Threads
ASSUME CountAssumption == InitCount \in Nat /\ MaxCount \in Nat

VARIABLES
  pc,         \* where each thread is in sem_wait or sem_post
  mutex,      \* the thread that holds sem->mutex, or NoThread
  condition,  \* the threads asleep on sem->condition
  count,      \* sem->count
  waiting     \* sem->waiting

vars == <<pc, mutex, condition, count, waiting>>

Labels == {"idle", "wait_lock", "wait_dec", "wait_test", "wait_cond", "wait_unlock",
           "post_lock", "post_inc", "post_unlock"}

Init ==
  /\ pc = [t \in Threads |-> "idle"]
  /\ mutex = NoThread
  /\ condition = {}
  /\ count = InitCount
  /\ waiting = 0

Goto(t, from, to) ==
  /\ pc[t] = from
  /\ pc' = [pc EXCEPT ![t] = to]

Lock(t)   == mutex = NoThread /\ mutex' = t
Unlock(t) == mutex = t /\ mutex' = NoThread

-----------------------------------------------------------------------------
(* sem_wait                                                                *)

CallWait(t) ==
  /\ Goto(t, "idle", "wait_lock")
  /\ UNCHANGED <<mutex, condition, count, waiting>>

WaitLock(t) ==
  /\ Goto(t, "wait_lock", "wait_dec")
  /\ Lock(t)
  /\ UNCHANGED <<condition, count, waiting>>

\* count -= 1; if there was a permit the wait is over, else join the waiters.
WaitDecrement(t) ==
  /\ count' = count - 1
  /\ \/ count' >= 0 /\ Goto(t, "wait_dec", "wait_unlock") /\ UNCHANGED waiting
     \/ count' < 0 /\ Goto(t, "wait_dec", "wait_test") /\ waiting' = waiting + 1
  /\ UNCHANGED <<mutex, condition>>

\* Mutant: wait while the count is negative, as the first draft of a textbook semaphore does.
MustSleepWhileNegative == count < 0

\* The while loop: -count = waiting says that no post is left for this waiter.
MustSleep == -count = waiting

\* pthread_cond_wait releases the mutex and sleeps in one step.
WaitSleep(t) ==
  /\ MustSleep
  /\ Goto(t, "wait_test", "wait_cond")
  /\ condition' = condition \cup {t}
  /\ Unlock(t)
  /\ UNCHANGED <<count, waiting>>

WaitLeave(t) ==
  /\ ~MustSleep
  /\ Goto(t, "wait_test", "wait_unlock")
  /\ waiting' = waiting - 1
  /\ UNCHANGED <<mutex, condition, count>>

\* pthread_cond_wait may return with no signal.
SpuriousWakeup(t) ==
  /\ t \in condition
  /\ condition' = condition \ {t}
  /\ UNCHANGED <<pc, mutex, count, waiting>>

\* Mutant: `if` in place of `while`, so a woken thread believes its signal.
WaitRelockWithIf(t) ==
  /\ t \notin condition
  /\ Goto(t, "wait_cond", "wait_unlock")
  /\ Lock(t)
  /\ waiting' = waiting - 1
  /\ UNCHANGED <<condition, count>>

\* A woken thread takes the mutex again and evaluates the loop test again.
WaitRelock(t) ==
  /\ t \notin condition
  /\ Goto(t, "wait_cond", "wait_test")
  /\ Lock(t)
  /\ UNCHANGED <<condition, count, waiting>>

WaitUnlock(t) ==
  /\ Goto(t, "wait_unlock", "idle")
  /\ Unlock(t)
  /\ UNCHANGED <<condition, count, waiting>>

-----------------------------------------------------------------------------
(* sem_post                                                                *)

CallPost(t) ==
  /\ count < MaxCount
  /\ Goto(t, "idle", "post_lock")
  /\ UNCHANGED <<mutex, condition, count, waiting>>

PostLock(t) ==
  /\ Goto(t, "post_lock", "post_inc")
  /\ Lock(t)
  /\ UNCHANGED <<condition, count, waiting>>

\* pthread_cond_signal wakes one sleeper, whichever, or nobody.
Signal ==
  \/ condition = {} /\ UNCHANGED condition
  \/ \E u \in condition : condition' = condition \ {u}

\* Mutant: signal only while the count is still negative.
PostIncrementQuiet(t) ==
  /\ Goto(t, "post_inc", "post_unlock")
  /\ count' = count + 1
  /\ IF count' < 0 THEN Signal ELSE UNCHANGED condition
  /\ UNCHANGED <<mutex, waiting>>

PostIncrement(t) ==
  /\ Goto(t, "post_inc", "post_unlock")
  /\ count' = count + 1
  /\ IF waiting > 0 THEN Signal ELSE UNCHANGED condition
  /\ UNCHANGED <<mutex, waiting>>

PostUnlock(t) ==
  /\ Goto(t, "post_unlock", "idle")
  /\ Unlock(t)
  /\ UNCHANGED <<condition, count, waiting>>

-----------------------------------------------------------------------------

\* The steps a thread takes once it is inside a call.
Progress(t) ==
  \/ WaitLock(t) \/ WaitDecrement(t) \/ WaitSleep(t) \/ WaitLeave(t)
  \/ WaitRelock(t) \/ WaitUnlock(t)
  \/ PostLock(t) \/ PostIncrement(t) \/ PostUnlock(t)

Next == \E t \in Threads : CallWait(t) \/ CallPost(t) \/ SpuriousWakeup(t) \/ Progress(t)

Spec == Init /\ [][Next]_vars

\* The operating system runs every thread that can run.  Nothing forces a
\* thread to make a call, or the condition to wake a thread with no signal,
\* and the mutex favours nobody: a thread waiting for it may be overtaken.
FairSpec == Spec /\ \A t \in Threads : WF_vars(Progress(t))

-----------------------------------------------------------------------------
(* Properties                                                              *)

\* Every variable has its type; waiting never counts more than the threads.
TypeOK ==
  /\ pc \in [Threads -> Labels]
  /\ mutex \in Threads \cup {NoThread}
  /\ condition \in SUBSET Threads
  /\ count \in Int
  /\ waiting \in 0..Cardinality(Threads)

\* Permits that a waiter may take: count + waiting, because every waiter
\* has already subtracted the permit it has not got.
Value == count + waiting

\* Threads in the loop of sem_wait, and those of them that are not asleep.
Waiters == {t \in Threads : pc[t] \in {"wait_test", "wait_cond"}}
Awake   == Waiters \ condition

\* The threads inside sem_wait that have no permit yet.
Blocked == {t \in Threads : pc[t] \in {"wait_lock", "wait_dec", "wait_test", "wait_cond"}}

\* No wakeup is lost: whenever a thread sleeps on the condition, every
\* permit left has an awake waiter on its way to the loop test.  The signal
\* of sem_post goes to one thread, that a newcomer or a spurious wakeup may
\* have overtaken, so the two counters have to stay in step for this.
NoLostWakeup == condition = {} \/ Value <= Cardinality(Awake)

\* The code implements the abstract counting semaphore.
Abstract == INSTANCE CountingSemaphore
              WITH InitValue <- InitCount, value <- Value, blocked <- Blocked
Implements == Abstract!Spec

\* If from some point on nobody starts a new call, then in the end no
\* permit is free or nobody is left in sem_wait.
NoNewCalls == \A t \in Threads : pc[t] = "idle" => pc'[t] = "idle"
EventuallyServed == <>[][NoNewCalls]_vars => <>[](Value = 0 \/ Blocked = {})
==============================================================================
