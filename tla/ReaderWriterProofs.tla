-------------------------- MODULE ReaderWriterProofs --------------------------
(***************************************************************************)
(* Proofs about hw7/reader-writer.c for any finite sets of readers and     *)
(* writers and every policy: a writer works alone, and the program hangs   *)
(* only with a preference, and with a reader and a writer asleep.          *)
(***************************************************************************)
EXTENDS ReaderWriter, FiniteSetTheorems, TLAPS

Places == {"start", "asleep", "woken", "task", "done"}

ActiveReaders == In("task") \cap Readers
ActiveWriters == In("task") \cap Writers
WaitingReaders == (In("asleep") \cup In("woken")) \cap Readers
WaitingWriters == (In("asleep") \cup In("woken")) \cap Writers

Typed == at \in [Threads -> Places]

\* The four counters are the numbers of threads they stand for: a woken thread counts as
\* waiting until it has looked at the condition again.
Counted ==
  /\ num_active_readers = Cardinality(ActiveReaders)
  /\ num_active_writers = Cardinality(ActiveWriters)
  /\ num_waiting_readers = Cardinality(WaitingReaders)
  /\ num_waiting_writers = Cardinality(WaitingWriters)

Alone == num_active_writers <= 1 /\ (num_active_writers = 1 => num_active_readers = 0)

\* Whoever sleeps will be woken, by the signal of a thread at its task or after a woken
\* thread has looked, or else a preference holds a reader and a writer up.
Watched ==
  In("asleep") = {} \/ In("task") \cup In("woken") # {}
    \/ /\ policy # "default"
       /\ In("asleep") \cap Readers # {} /\ In("asleep") \cap Writers # {}

\* The inductive invariant.
IInv == Typed /\ Counted /\ Alone /\ Watched

-----------------------------------------------------------------------------
(* Sets of threads and their numbers.                                      *)

LEMMA Counts ==
  ASSUME NEW S \in SUBSET Threads
  PROVE  /\ Cardinality(S) \in Nat
         /\ Cardinality(S) = 0 <=> S = {}
         /\ \A t \in Threads \ S : Cardinality(S \cup {t}) = Cardinality(S) + 1
         /\ \A t \in S : Cardinality(S \ {t}) = Cardinality(S) - 1
<1>1. IsFiniteSet(S) /\ Cardinality(S) \in Nat
  BY ReaderWriterAssumption, FS_Subset, FS_CardinalityType DEF Threads
<1>2. Cardinality(S) = 0 <=> S = {}
  BY <1>1, FS_EmptySet
<1>3. ASSUME NEW t \in Threads \ S PROVE Cardinality(S \cup {t}) = Cardinality(S) + 1
  BY <1>1, FS_AddElement
<1>4. ASSUME NEW t \in S PROVE Cardinality(S \ {t}) = Cardinality(S) - 1
  BY <1>1, FS_RemoveElement
<1> QED BY <1>1, <1>2, <1>3, <1>4

LEMMA CountedSets ==
  /\ ActiveReaders \in SUBSET Threads /\ ActiveWriters \in SUBSET Threads
  /\ WaitingReaders \in SUBSET Threads /\ WaitingWriters \in SUBSET Threads
BY DEF ActiveReaders, ActiveWriters, WaitingReaders, WaitingWriters, In

\* The counters are numbers, and say whether there is anybody.
LEMMA CountersTell ==
  ASSUME Counted
  PROVE  /\ num_active_readers \in Nat /\ num_active_writers \in Nat
         /\ num_waiting_readers \in Nat /\ num_waiting_writers \in Nat
         /\ num_active_readers = 0 <=> ActiveReaders = {}
         /\ num_active_writers = 0 <=> ActiveWriters = {}
         /\ num_waiting_readers = 0 <=> WaitingReaders = {}
         /\ num_waiting_writers = 0 <=> WaitingWriters = {}
BY CountedSets, Counts DEF Counted

\* What a thread that must wait waits for: somebody at a task, or, with a preference, one
\* of the other kind that waits too.
LEMMA WhyReaderWaits ==
  ASSUME Counted, ReaderMustWait
  PROVE  ActiveWriters # {} \/ (policy = "writers" /\ WaitingWriters # {})
BY CountersTell DEF ReaderMustWait

LEMMA WhyWriterWaits ==
  ASSUME Counted, WriterMustWait
  PROVE  \/ ActiveReaders # {} \/ ActiveWriters # {}
         \/ policy = "readers" /\ WaitingReaders # {}
BY CountersTell DEF WriterMustWait

-----------------------------------------------------------------------------
(* The steps.                                                              *)

LEMMA InitInv == Init => IInv
<1> SUFFICES ASSUME Init PROVE IInv OBVIOUS
<1>1. Typed /\ \A t \in Threads : at[t] = "start"
  BY DEF Init, Typed, Places
<1>2. /\ ActiveReaders = {} /\ ActiveWriters = {} /\ WaitingReaders = {} /\ WaitingWriters = {}
      /\ In("asleep") = {}
  BY <1>1 DEF ActiveReaders, ActiveWriters, WaitingReaders, WaitingWriters, In
<1>3. Counted
  BY <1>2, FS_EmptySet DEF Init, Counted
<1> QED BY <1>1, <1>2, <1>3 DEF Init, IInv, Alone, Watched

\* A thread goes from one place to another and the rest stay.
Goes(t, from, to) == at[t] = from /\ at' = [at EXCEPT ![t] = to]

\* A reader that looks at the condition, for the first time or after a wakeup.
LEMMA ReaderLooks ==
  ASSUME IInv, NEW r \in Readers, ReaderStarts(r) \/ ReaderResumes(r)
  PROVE  IInv'
<1>0. r \in Threads /\ r \notin Writers /\ Typed /\ Counted /\ Alone
  BY ReaderWriterAssumption DEF Threads, IInv
<1>1. Typed'
  BY <1>0 DEF Typed, Places, ReaderStarts, ReaderResumes
<1>2. CASE ReaderMustWait
  <2>1. /\ at[r] \in {"start", "woken"} /\ at' = [at EXCEPT ![r] = "asleep"]
        /\ UNCHANGED <<policy, num_active_readers, num_active_writers, num_waiting_writers>>
        /\ num_waiting_readers' = IF at[r] = "start" THEN num_waiting_readers + 1
                                                     ELSE num_waiting_readers
    BY <1>2 DEF ReaderStarts, ReaderResumes
  <2>2. /\ ActiveReaders' = ActiveReaders /\ ActiveWriters' = ActiveWriters
        /\ WaitingWriters' = WaitingWriters
        /\ WaitingReaders' = WaitingReaders \cup {r}
        /\ r \in WaitingReaders <=> at[r] = "woken"
    BY <1>0, <2>1
    DEF Typed, ActiveReaders, ActiveWriters, WaitingReaders, WaitingWriters, In
  <2>3. Cardinality(WaitingReaders') = IF at[r] = "start" THEN Cardinality(WaitingReaders) + 1
                                                          ELSE Cardinality(WaitingReaders)
    <3>1. CASE at[r] = "start"
      BY <1>0, <2>2, <3>1, Counts, CountedSets
    <3>2. CASE at[r] = "woken"
      BY <2>2, <3>2
    <3> QED BY <2>1, <3>1, <3>2
  <2>4. Counted'
    BY <1>0, <2>1, <2>2, <2>3 DEF Counted
  <2>5. Alone'
    BY <1>0, <2>1 DEF Alone
  <2>6. r \in In("asleep")'
    BY <1>0, <2>1 DEF In, Typed
  <2>7. ASSUME ActiveWriters # {} PROVE Watched'
    <3>1. In("task")' # {}
      BY <2>2, <2>7 DEF ActiveWriters, In
    <3> QED BY <3>1 DEF Watched
  <2>8. ASSUME policy = "writers" /\ WaitingWriters # {} PROVE Watched'
    <3>1. In("asleep")' \cap Readers # {} /\ policy' # "default"
      BY <2>1, <2>6, <2>8
    <3>2. In("asleep")' \cap Writers # {} \/ In("woken")' # {}
      BY <2>2, <2>8 DEF WaitingWriters, In
    <3> QED BY <3>1, <3>2 DEF Watched
  <2> QED BY <1>0, <1>1, <1>2, <2>4, <2>5, <2>7, <2>8, WhyReaderWaits DEF IInv
<1>3. CASE ~ReaderMustWait
  <2>1. /\ at[r] \in {"start", "woken"} /\ at' = [at EXCEPT ![r] = "task"]
        /\ UNCHANGED <<policy, num_active_writers, num_waiting_writers>>
        /\ num_active_readers' = num_active_readers + 1
        /\ num_waiting_readers' = IF at[r] = "start" THEN num_waiting_readers
                                                     ELSE num_waiting_readers - 1
    BY <1>3 DEF ReaderStarts, ReaderResumes
  <2>2. /\ ActiveReaders' = ActiveReaders \cup {r} /\ r \notin ActiveReaders
        /\ ActiveWriters' = ActiveWriters
        /\ WaitingWriters' = WaitingWriters
        /\ WaitingReaders' = WaitingReaders \ {r}
        /\ r \in WaitingReaders <=> at[r] = "woken"
    BY <1>0, <2>1
    DEF Typed, ActiveReaders, ActiveWriters, WaitingReaders, WaitingWriters, In
  <2>3. Cardinality(WaitingReaders') = IF at[r] = "start" THEN Cardinality(WaitingReaders)
                                                          ELSE Cardinality(WaitingReaders) - 1
    <3>1. CASE at[r] = "start"
      <4>1. WaitingReaders' = WaitingReaders
        BY <2>2, <3>1
      <4> QED BY <4>1, <3>1
    <3>2. CASE at[r] = "woken"
      BY <2>2, <3>2, Counts, CountedSets
    <3> QED BY <2>1, <3>1, <3>2
  <2>4. Cardinality(ActiveReaders') = Cardinality(ActiveReaders) + 1
    BY <1>0, <2>2, Counts, CountedSets
  <2>5. Counted'
    BY <1>0, <2>1, <2>2, <2>3, <2>4 DEF Counted
  <2>6. num_active_writers = 0
    BY <1>0, <1>3, CountersTell DEF ReaderMustWait
  <2>7. Alone'
    BY <2>1, <2>6 DEF Alone
  <2>8. r \in In("task")'
    BY <1>0, <2>1 DEF In, Typed
  <2>9. Watched'
    BY <2>8 DEF Watched
  <2> QED BY <1>1, <2>5, <2>7, <2>9 DEF IInv
<1> QED BY <1>2, <1>3

\* The same of a writer.
LEMMA WriterLooks ==
  ASSUME IInv, NEW w \in Writers, WriterStarts(w) \/ WriterResumes(w)
  PROVE  IInv'
<1>0. w \in Threads /\ w \notin Readers /\ Typed /\ Counted /\ Alone
  BY ReaderWriterAssumption DEF Threads, IInv
<1>1. Typed'
  BY <1>0 DEF Typed, Places, WriterStarts, WriterResumes
<1>2. CASE WriterMustWait
  <2>1. /\ at[w] \in {"start", "woken"} /\ at' = [at EXCEPT ![w] = "asleep"]
        /\ UNCHANGED <<policy, num_active_readers, num_active_writers, num_waiting_readers>>
        /\ num_waiting_writers' = IF at[w] = "start" THEN num_waiting_writers + 1
                                                     ELSE num_waiting_writers
    BY <1>2 DEF WriterStarts, WriterResumes
  <2>2. /\ ActiveReaders' = ActiveReaders /\ ActiveWriters' = ActiveWriters
        /\ WaitingReaders' = WaitingReaders
        /\ WaitingWriters' = WaitingWriters \cup {w}
        /\ w \in WaitingWriters <=> at[w] = "woken"
    BY <1>0, <2>1
    DEF Typed, ActiveReaders, ActiveWriters, WaitingReaders, WaitingWriters, In
  <2>3. Cardinality(WaitingWriters') = IF at[w] = "start" THEN Cardinality(WaitingWriters) + 1
                                                          ELSE Cardinality(WaitingWriters)
    <3>1. CASE at[w] = "start"
      BY <1>0, <2>2, <3>1, Counts, CountedSets
    <3>2. CASE at[w] = "woken"
      BY <2>2, <3>2
    <3> QED BY <2>1, <3>1, <3>2
  <2>4. Counted'
    BY <1>0, <2>1, <2>2, <2>3 DEF Counted
  <2>5. Alone'
    BY <1>0, <2>1 DEF Alone
  <2>6. w \in In("asleep")'
    BY <1>0, <2>1 DEF In, Typed
  <2>7. ASSUME ActiveReaders # {} \/ ActiveWriters # {} PROVE Watched'
    <3>1. In("task")' # {}
      BY <2>2, <2>7 DEF ActiveReaders, ActiveWriters, In
    <3> QED BY <3>1 DEF Watched
  <2>8. ASSUME policy = "readers" /\ WaitingReaders # {} PROVE Watched'
    <3>1. In("asleep")' \cap Writers # {} /\ policy' # "default"
      BY <2>1, <2>6, <2>8
    <3>2. In("asleep")' \cap Readers # {} \/ In("woken")' # {}
      BY <2>2, <2>8 DEF WaitingReaders, In
    <3> QED BY <3>1, <3>2 DEF Watched
  <2> QED BY <1>0, <1>1, <1>2, <2>4, <2>5, <2>7, <2>8, WhyWriterWaits DEF IInv
<1>3. CASE ~WriterMustWait
  <2>1. /\ at[w] \in {"start", "woken"} /\ at' = [at EXCEPT ![w] = "task"]
        /\ UNCHANGED <<policy, num_active_readers, num_waiting_readers>>
        /\ num_active_writers' = num_active_writers + 1
        /\ num_waiting_writers' = IF at[w] = "start" THEN num_waiting_writers
                                                     ELSE num_waiting_writers - 1
    BY <1>3 DEF WriterStarts, WriterResumes
  <2>2. /\ ActiveWriters' = ActiveWriters \cup {w} /\ w \notin ActiveWriters
        /\ ActiveReaders' = ActiveReaders
        /\ WaitingReaders' = WaitingReaders
        /\ WaitingWriters' = WaitingWriters \ {w}
        /\ w \in WaitingWriters <=> at[w] = "woken"
    BY <1>0, <2>1
    DEF Typed, ActiveReaders, ActiveWriters, WaitingReaders, WaitingWriters, In
  <2>3. Cardinality(WaitingWriters') = IF at[w] = "start" THEN Cardinality(WaitingWriters)
                                                          ELSE Cardinality(WaitingWriters) - 1
    <3>1. CASE at[w] = "start"
      <4>1. WaitingWriters' = WaitingWriters
        BY <2>2, <3>1
      <4> QED BY <4>1, <3>1
    <3>2. CASE at[w] = "woken"
      BY <2>2, <3>2, Counts, CountedSets
    <3> QED BY <2>1, <3>1, <3>2
  <2>4. Cardinality(ActiveWriters') = Cardinality(ActiveWriters) + 1
    BY <1>0, <2>2, Counts, CountedSets
  <2>5. Counted'
    BY <1>0, <2>1, <2>2, <2>3, <2>4 DEF Counted
  <2>6. num_active_writers = 0 /\ num_active_readers = 0
    BY <1>0, <1>3, CountersTell DEF WriterMustWait
  <2>7. Alone'
    BY <2>1, <2>6 DEF Alone
  <2>8. w \in In("task")'
    BY <1>0, <2>1 DEF In, Typed
  <2>9. Watched'
    BY <2>8 DEF Watched
  <2> QED BY <1>1, <2>5, <2>7, <2>9 DEF IInv
<1> QED BY <1>2, <1>3

\* A thread that leaves signals, and the one it wakes goes on waiting for a while.
LEMMA LeavesMoves ==
  ASSUME Typed, NEW t \in Threads, at[t] = "task", Leaves(t)
  PROVE  /\ Typed'
         /\ ActiveReaders' = ActiveReaders \ {t} /\ ActiveWriters' = ActiveWriters \ {t}
         /\ WaitingReaders' = WaitingReaders /\ WaitingWriters' = WaitingWriters
         /\ Watched'
<1>1. CASE In("asleep") = {}
  <2>1. at' = [at EXCEPT ![t] = "done"]
    BY <1>1 DEF Leaves, In
  <2>2. In("asleep")' = {}
    BY <1>1, <2>1 DEF In, Typed
  <2> QED BY <2>1, <2>2
          DEF Typed, Places, ActiveReaders, ActiveWriters, WaitingReaders, WaitingWriters, In, Watched
<1>2. CASE In("asleep") # {}
  <2>1. PICK s \in In("asleep") : at' = [[at EXCEPT ![t] = "done"] EXCEPT ![s] = "woken"]
    BY <1>2 DEF Leaves, In
  <2>2. s \in Threads /\ at[s] = "asleep" /\ s # t
    BY DEF In
  <2>3. s \in In("woken")'
    BY <2>1, <2>2 DEF In, Typed
  <2> QED BY <2>1, <2>2, <2>3
          DEF Typed, Places, ActiveReaders, ActiveWriters, WaitingReaders, WaitingWriters, In, Watched
<1> QED BY <1>1, <1>2

LEMMA ReaderLeavesStep ==
  ASSUME IInv, NEW r \in Readers, ReaderLeaves(r)
  PROVE  IInv'
<1>0. r \in Threads /\ r \notin Writers /\ Typed /\ Counted /\ Alone
  BY ReaderWriterAssumption DEF Threads, IInv
<1>1. /\ Typed' /\ Watched' /\ ActiveReaders' = ActiveReaders \ {r} /\ r \in ActiveReaders
      /\ ActiveWriters' = ActiveWriters
      /\ WaitingReaders' = WaitingReaders /\ WaitingWriters' = WaitingWriters
  BY <1>0, LeavesMoves DEF ReaderLeaves, ActiveReaders, ActiveWriters, In
<1>2. Cardinality(ActiveReaders') = Cardinality(ActiveReaders) - 1
  BY <1>1, Counts, CountedSets
<1>3. Counted'
  BY <1>0, <1>1, <1>2 DEF Counted, ReaderLeaves
<1>4. Alone'
  <2>1. num_active_readers \in Nat /\ num_active_readers # 0
    BY <1>0, <1>1, CountersTell
  <2> QED BY <1>0, <2>1 DEF Alone, ReaderLeaves
<1> QED BY <1>1, <1>3, <1>4 DEF IInv

LEMMA WriterLeavesStep ==
  ASSUME IInv, NEW w \in Writers, WriterLeaves(w)
  PROVE  IInv'
<1>0. w \in Threads /\ w \notin Readers /\ Typed /\ Counted /\ Alone
  BY ReaderWriterAssumption DEF Threads, IInv
<1>1. /\ Typed' /\ Watched' /\ ActiveWriters' = ActiveWriters \ {w} /\ w \in ActiveWriters
      /\ ActiveReaders' = ActiveReaders
      /\ WaitingReaders' = WaitingReaders /\ WaitingWriters' = WaitingWriters
  BY <1>0, LeavesMoves DEF WriterLeaves, ActiveReaders, ActiveWriters, In
<1>2. Cardinality(ActiveWriters') = Cardinality(ActiveWriters) - 1
  BY <1>1, Counts, CountedSets
<1>3. Counted'
  BY <1>0, <1>1, <1>2 DEF Counted, WriterLeaves
<1>4. Alone'
  BY <1>0, CountersTell DEF Alone, WriterLeaves
<1> QED BY <1>1, <1>3, <1>4 DEF IInv

LEMMA SpuriousWakeupStep ==
  ASSUME IInv, NEW t \in Threads, SpuriousWakeup(t)
  PROVE  IInv'
<1>1. Typed'
  BY DEF IInv, Typed, Places, SpuriousWakeup
<1>2. /\ ActiveReaders' = ActiveReaders /\ ActiveWriters' = ActiveWriters
      /\ WaitingReaders' = WaitingReaders /\ WaitingWriters' = WaitingWriters
      /\ t \in In("woken")'
  BY DEF IInv, Typed, SpuriousWakeup, ActiveReaders, ActiveWriters, WaitingReaders,
         WaitingWriters, In
<1> QED BY <1>1, <1>2 DEF IInv, Counted, Alone, Watched, SpuriousWakeup, counts

LEMMA NextInv == IInv /\ [Next]_vars => IInv'
<1> SUFFICES ASSUME IInv, [Next]_vars PROVE IInv' OBVIOUS
<1>1. ASSUME NEW t \in Threads, Runs(t) PROVE IInv'
  BY <1>1, ReaderLooks, WriterLooks, ReaderLeavesStep, WriterLeavesStep DEF Runs
<1>2. ASSUME NEW t \in Threads, SpuriousWakeup(t) PROVE IInv'
  BY <1>2, SpuriousWakeupStep
<1>3. CASE UNCHANGED vars
  BY <1>3 DEF vars, counts, IInv, Typed, Counted, Alone, Watched, ActiveReaders, ActiveWriters,
              WaitingReaders, WaitingWriters, In
<1> QED BY <1>1, <1>2, <1>3 DEF Next

\* The counters of reader-writer.c are always the numbers of threads they stand for.
THEOREM CountersAreExact == Spec => []IInv
BY InitInv, NextInv, PTL DEF Spec

-----------------------------------------------------------------------------

\* A writer at its task (reader-writer.c:81) is alone, whatever the policy and however
\* the signals go.
THEOREM WritersExclude == Spec => []Exclusion
<1>1. IInv => Exclusion
  <2> SUFFICES ASSUME IInv, ActiveWriters # {} PROVE Cardinality(In("task")) = 1
    BY DEF Exclusion, ActiveWriters
  <2>1. num_active_writers = 1 /\ num_active_readers = 0
    BY CountersTell DEF IInv, Alone
  <2>2. ActiveReaders = {} /\ Cardinality(ActiveWriters) = 1
    BY <2>1, CountersTell DEF IInv, Counted
  <2>3. In("task") = ActiveWriters
    BY <2>2 DEF ActiveReaders, ActiveWriters, In, Threads
  <2> QED BY <2>2, <2>3
<1> QED BY CountersAreExact, <1>1, PTL

\* Without a preference the program never hangs, and with one it hangs only while a reader
\* and a writer both sleep: whoever must wait waits for a task that will end in a signal, or
\* for a thread of the other kind that waits itself (reader-writer.c:40 and 74).
THEOREM OnlyAPreferenceHangs == Spec => []HangsOnlyMixed
<1>1. IInv => HangsOnlyMixed
  BY DEF IInv, Watched, HangsOnlyMixed, Hangs, In
<1> QED BY CountersAreExact, <1>1, PTL
===============================================================================
