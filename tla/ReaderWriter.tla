----------------------------- MODULE ReaderWriter -----------------------------
(***************************************************************************)
(* hw7/reader-writer.c: readers and writers around one mutex and one       *)
(* condition variable, in the three policies the file can be built with.   *)
(*                                                                         *)
(* Everything shared is read and written with mut held, so the code from a *)
(* lock to the unlock (or to pthread_cond_wait, which gives mut up) is one *)
(* step.  Each thread does one task, as in the file.                       *)
(***************************************************************************)
EXTENDS Integers, FiniteSets

CONSTANTS Readers, Writers, Policies

AllPolicies == {"writers", "readers", "default"}
ASSUME ReaderWriterAssumption ==
  IsFiniteSet(Readers \cup Writers) /\ Readers \cap Writers = {} /\ Policies \subseteq AllPolicies

Threads == Readers \cup Writers

VARIABLES
  policy,               \* WRITER_PREFERRED, READER_PREFERRED or neither
  at,                   \* "start", "asleep" in pthread_cond_wait, "woken", "task" or "done"
  num_active_readers, num_active_writers, num_waiting_readers, num_waiting_writers

counts == <<num_active_readers, num_active_writers, num_waiting_readers, num_waiting_writers>>
vars == <<policy, at, counts>>

Init ==
  /\ policy \in Policies
  /\ at = [t \in Threads |-> "start"]
  /\ num_active_readers = 0 /\ num_active_writers = 0
  /\ num_waiting_readers = 0 /\ num_waiting_writers = 0

ReaderMustWait ==
  num_active_writers > 0 \/ (policy = "writers" /\ num_waiting_writers > 0)

\* Mutant: a writer looks for other writers only.
WriterMustWaitForWriters ==
  num_active_writers > 0

WriterMustWait ==
  \/ num_active_readers > 0 \/ num_active_writers > 0
  \/ (policy = "readers" /\ num_waiting_readers > 0)

\* The first look at the condition of the loop.
ReaderStarts(r) ==
  /\ at[r] = "start"
  /\ IF ReaderMustWait
     THEN /\ at' = [at EXCEPT ![r] = "asleep"]
          /\ num_waiting_readers' = num_waiting_readers + 1 /\ UNCHANGED num_active_readers
     ELSE /\ at' = [at EXCEPT ![r] = "task"]
          /\ num_active_readers' = num_active_readers + 1 /\ UNCHANGED num_waiting_readers
  /\ UNCHANGED <<policy, num_active_writers, num_waiting_writers>>

WriterStarts(w) ==
  /\ at[w] = "start"
  /\ IF WriterMustWait
     THEN /\ at' = [at EXCEPT ![w] = "asleep"]
          /\ num_waiting_writers' = num_waiting_writers + 1 /\ UNCHANGED num_active_writers
     ELSE /\ at' = [at EXCEPT ![w] = "task"]
          /\ num_active_writers' = num_active_writers + 1 /\ UNCHANGED num_waiting_writers
  /\ UNCHANGED <<policy, num_active_readers, num_waiting_readers>>

\* A woken reader is not counted while it looks again; if it waits again it is.
ReaderResumes(r) ==
  /\ at[r] = "woken"
  /\ IF ReaderMustWait
     THEN at' = [at EXCEPT ![r] = "asleep"] /\ UNCHANGED <<num_waiting_readers, num_active_readers>>
     ELSE /\ at' = [at EXCEPT ![r] = "task"]
          /\ num_waiting_readers' = num_waiting_readers - 1
          /\ num_active_readers' = num_active_readers + 1
  /\ UNCHANGED <<policy, num_active_writers, num_waiting_writers>>

WriterResumes(w) ==
  /\ at[w] = "woken"
  /\ IF WriterMustWait
     THEN at' = [at EXCEPT ![w] = "asleep"] /\ UNCHANGED <<num_waiting_writers, num_active_writers>>
     ELSE /\ at' = [at EXCEPT ![w] = "task"]
          /\ num_waiting_writers' = num_waiting_writers - 1
          /\ num_active_writers' = num_active_writers + 1
  /\ UNCHANGED <<policy, num_active_readers, num_waiting_readers>>

\* pthread_cond_signal wakes one sleeper, whichever the system picks, if there is one.
Leaves(t) ==
  LET done == [at EXCEPT ![t] = "done"]
      asleep == {s \in Threads : at[s] = "asleep"}
  IN IF asleep = {} THEN at' = done ELSE \E s \in asleep : at' = [done EXCEPT ![s] = "woken"]

\* Mutant: a writer does not signal.
LeavesQuietly(w) ==
  /\ at[w] = "task"
  /\ num_active_writers' = num_active_writers - 1
  /\ at' = [at EXCEPT ![w] = "done"]
  /\ UNCHANGED <<policy, num_active_readers, num_waiting_readers, num_waiting_writers>>

ReaderLeaves(r) ==
  /\ at[r] = "task"
  /\ num_active_readers' = num_active_readers - 1
  /\ Leaves(r)
  /\ UNCHANGED <<policy, num_active_writers, num_waiting_readers, num_waiting_writers>>

WriterLeaves(w) ==
  /\ at[w] = "task"
  /\ num_active_writers' = num_active_writers - 1
  /\ Leaves(w)
  /\ UNCHANGED <<policy, num_active_readers, num_waiting_readers, num_waiting_writers>>

\* pthread_cond_wait may return without a signal.
SpuriousWakeup(t) ==
  /\ at[t] = "asleep"
  /\ at' = [at EXCEPT ![t] = "woken"]
  /\ UNCHANGED <<policy, counts>>

Runs(t) ==
  \/ t \in Readers /\ (ReaderStarts(t) \/ ReaderResumes(t) \/ ReaderLeaves(t))
  \/ t \in Writers /\ (WriterStarts(t) \/ WriterResumes(t) \/ WriterLeaves(t))

Next == \E t \in Threads : Runs(t) \/ SpuriousWakeup(t)

Spec == Init /\ [][Next]_vars

\* The operating system runs every thread that can run: one that wants mut gets it, as nobody
\* keeps it and nobody spins.  Nothing says that a spurious wakeup ever comes.
FairSpec == Spec /\ \A t \in Threads : WF_vars(Runs(t))

-----------------------------------------------------------------------------
(* Properties                                                              *)

In(place) == {t \in Threads : at[t] = place}

\* A writer at its task is alone.
Exclusion == In("task") \cap Writers # {} => Cardinality(In("task")) = 1

\* Everybody who is not done sleeps.
Hangs == In("asleep") # {} /\ Threads = In("asleep") \cup In("done")

\* One signal may go to a thread that must wait on, and is lost: the program hangs.  That
\* takes a preference, and a reader and a writer that both sleep.
HangsOnlyMixed ==
  Hangs => policy # "default" /\ In("asleep") \cap Readers # {} /\ In("asleep") \cap Writers # {}

\* Without a preference every task is done in the end, one signal at a time.
DefaultFinishes == policy = "default" => <>(In("done") = Threads)
=============================================================================
