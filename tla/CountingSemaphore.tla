-------------------------- MODULE CountingSemaphore --------------------------
(***************************************************************************)
(* What a counting semaphore promises its callers, with nothing said of    *)
(* how: `value` permits are free, and `blocked` are the threads inside     *)
(* sem_wait that have not been granted a permit yet.  The implementations  *)
(* of sem_wait and sem_post in the repository are checked against it.      *)
(***************************************************************************)
EXTENDS Integers

CONSTANTS Threads,    \* the threads that share the semaphore
          InitValue   \* the value given to sem_init

VARIABLES value, blocked

Init ==
  /\ value = InitValue
  /\ blocked = {}

\* A thread calls sem_wait.
Request(t) ==
  /\ t \notin blocked
  /\ blocked' = blocked \cup {t}
  /\ UNCHANGED value

\* A thread inside sem_wait is granted a permit: it will return.
Grant(t) ==
  /\ t \in blocked
  /\ value > 0
  /\ value' = value - 1
  /\ blocked' = blocked \ {t}

\* sem_post: a thread that is not waiting frees a permit.
Release(t) ==
  /\ t \notin blocked
  /\ value' = value + 1
  /\ UNCHANGED blocked

Next == \E t \in Threads : Request(t) \/ Grant(t) \/ Release(t)

Spec == Init /\ [][Next]_<<value, blocked>>
==============================================================================
