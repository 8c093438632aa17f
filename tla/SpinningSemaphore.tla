-------------------------- MODULE SpinningSemaphore --------------------------
(***************************************************************************)
(* The first semaphore of hw6, semaphore-temp.c, which the Makefile links  *)
(* with producer-consumer-temp and producer-consumer-temp2: a count and a  *)
(* mutex, no condition variable.  A thread that finds no permit looks at   *)
(* the count again and again until it is not negative.                     *)
(*                                                                         *)
(* As in Semaphore, each step is the code between two operations on the    *)
(* mutex.  sleep(1) lets time pass and nothing else.                       *)
(***************************************************************************)
EXTENDS Integers, FiniteSets

CONSTANTS Threads,    \* the threads that share the semaphore
          NoThread,   \* "the mutex is free"
          InitCount,  \* sem_init's third argument
          MaxCount    \* no sem_post is called once count is here (int overflow is not modelled)

VARIABLES
  pc,         \* where each thread is in sem_wait, block or sem_post
  mutex,      \* the thread that holds sem->mutex, or NoThread
  count       \* sem->count

vars == <<pc, mutex, count>>

Init ==
  /\ pc = [t \in Threads |-> "idle"]
  /\ mutex = NoThread
  /\ count = InitCount

Goto(t, from, to) ==
  /\ pc[t] = from
  /\ pc' = [pc EXCEPT ![t] = to]

Lock(t, from, to)   == Goto(t, from, to) /\ mutex = NoThread /\ mutex' = t /\ UNCHANGED count
Unlock(t, from, to) == Goto(t, from, to) /\ mutex = t /\ mutex' = NoThread /\ UNCHANGED count

-----------------------------------------------------------------------------
(* sem_wait                                                                *)

CallWait(t) == Goto(t, "idle", "wait_lock") /\ UNCHANGED <<mutex, count>>

WaitLock(t) == Lock(t, "wait_lock", "wait_dec")

\* count -= 1; if it is negative now the thread goes to block().
WaitDecrement(t) ==
  /\ count' = count - 1
  /\ IF count' < 0 THEN Goto(t, "wait_dec", "wait_release") ELSE Goto(t, "wait_dec", "wait_unlock")
  /\ UNCHANGED mutex

WaitRelease(t) == Unlock(t, "wait_release", "block_lock")

\* Mutant: after block() the permit is subtracted (again).
WaitRelockSubtracts(t) == Lock(t, "wait_relock", "wait_dec")

\* After block(), the mutex is taken for nothing but to be released.
WaitRelock(t) == Lock(t, "wait_relock", "wait_unlock")

WaitUnlock(t) == Unlock(t, "wait_unlock", "idle")

-----------------------------------------------------------------------------
(* block                                                                   *)

BlockLock(t) == Lock(t, "block_lock", "block_test")

\* Mutant: the waiter sees that a post came, and takes it for its own.
MayPassOnAnyPost == count >= -1

\* Mutant: a count of zero is taken for no permit.
MayPassLate == count > 0

\* The waiter has subtracted its own permit, so zero is enough.
MayPass == count >= 0

BlockTest(t) ==
  /\ IF MayPass THEN Goto(t, "block_test", "block_return") ELSE Goto(t, "block_test", "block_again")
  /\ UNCHANGED <<mutex, count>>

BlockReturn(t) == Unlock(t, "block_return", "wait_relock")

BlockAgain(t) == Unlock(t, "block_again", "block_lock")

-----------------------------------------------------------------------------
(* sem_post                                                                *)

CallPost(t) ==
  /\ count < MaxCount
  /\ Goto(t, "idle", "post_lock") /\ UNCHANGED <<mutex, count>>

PostLock(t) == Lock(t, "post_lock", "post_inc")

PostIncrement(t) ==
  /\ Goto(t, "post_inc", "post_unlock")
  /\ count' = count + 1
  /\ UNCHANGED mutex

PostUnlock(t) == Unlock(t, "post_unlock", "idle")

-----------------------------------------------------------------------------

\* The steps a thread takes once it is inside a call.
Progress(t) ==
  \/ WaitLock(t) \/ WaitDecrement(t) \/ WaitRelease(t) \/ WaitRelock(t) \/ WaitUnlock(t)
  \/ BlockLock(t) \/ BlockTest(t) \/ BlockReturn(t) \/ BlockAgain(t)
  \/ PostLock(t) \/ PostIncrement(t) \/ PostUnlock(t)

Next == \E t \in Threads : CallWait(t) \/ CallPost(t) \/ Progress(t)

Spec == Init /\ [][Next]_vars

\* The steps that take the mutex.
Locks(t) == WaitLock(t) \/ WaitRelock(t) \/ BlockLock(t) \/ PostLock(t)

-----------------------------------------------------------------------------
(* Properties                                                              *)

\* Threads that have subtracted their permit and have not got it.
Waiters == {t \in Threads :
              pc[t] \in {"wait_release", "block_lock", "block_test", "block_again"}}

\* The threads inside sem_wait that have no permit yet.
Blocked == Waiters \cup {t \in Threads : pc[t] \in {"wait_lock", "wait_dec"}}

\* Permits that a waiter may take: each waiter subtracted one that it has not got.
Value == count + Cardinality(Waiters)

\* Spinning gives no permit twice: the code implements the abstract counting
\* semaphore, although a waiter passes without changing the count.
Abstract == INSTANCE CountingSemaphore
              WITH InitValue <- InitCount, value <- Value, blocked <- Blocked
Implements == Abstract!Spec
==============================================================================
