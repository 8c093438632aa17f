------------------------ MODULE ProducerConsumerProofs ------------------------
(***************************************************************************)
(* The ring buffer of hw6/producer-consumer.c loses, repeats and reorders  *)
(* nothing, for any number of producers, consumers and slots.              *)
(***************************************************************************)
EXTENDS ProducerConsumer, FiniteSetTheorems, TLAPS

\* Threads that hold a permit they have not used, and threads that have
\* used it and not posted yet.
Granted(S) == {t \in S : pc[t] \in {"lock", "access"}}
Used(S)    == {t \in S : pc[t] \in {"unlock", "sem_post"}}

InBuffer == pushed - taken

\* The slot j places after consumer_index, wrapping once.
Wrap(i) == IF i < BufferSize THEN i ELSE i - BufferSize
Slot(j) == Wrap(consumer_index + j)

Types ==
  /\ pc \in [Threads -> Labels]
  /\ sem_producer \in Nat
  /\ sem_consumer \in Nat
  /\ mut_buf \in Threads \cup {NoThread}
  /\ buffer \in [Slots -> Int]
  /\ producer_index \in Slots
  /\ consumer_index \in Slots
  /\ pushed \in Nat
  /\ taken \in Nat

MutualExclusion == \A t \in Threads : pc[t] \in {"access", "unlock"} <=> mut_buf = t

\* Every slot and every item is accounted for by a semaphore or by a thread
\* between its sem_wait and its sem_post.
PermitsCounted ==
  /\ sem_producer + Cardinality(Granted(Producers)) + Cardinality(Used(Consumers))
       = BufferSize - InBuffer
  /\ sem_consumer + Cardinality(Granted(Consumers)) + Cardinality(Used(Producers))
       = InBuffer

\* The slots from consumer_index on hold the items not taken, oldest first,
\* and the others hold items taken already.
WindowCorrect ==
  /\ producer_index = Slot(InBuffer)
  /\ \A j \in Slots : IF j < InBuffer THEN buffer[Slot(j)] = taken + j
                                      ELSE buffer[Slot(j)] < taken

\* The inductive invariant: the two properties follow from WindowCorrect
\* once PermitsCounted says that a producer inside the critical section has
\* a free slot and a consumer an item.
IInv == Types /\ MutualExclusion /\ PermitsCounted /\ WindowCorrect

-----------------------------------------------------------------------------

\* Incrementing an index modulo the size of the buffer.
LEMMA NextSlot ==
  ASSUME NEW i \in Slots
  PROVE  /\ (i + 1) % BufferSize = Wrap(i + 1)
         /\ (i + 1) % BufferSize \in Slots
<1>1. CASE i + 1 < BufferSize
  BY <1>1, SizeAssumption DEF Slots, Wrap
<1>2. CASE i + 1 = BufferSize
  BY <1>2, SizeAssumption DEF Slots, Wrap
<1>3. QED BY <1>1, <1>2, SizeAssumption DEF Slots

\* A set of threads has a size; it moves by one with one thread.
LEMMA Sizes ==
  ASSUME NEW S, IsFiniteSet(S), NEW T \in SUBSET S
  PROVE  /\ Cardinality(T) \in Nat
         /\ \A t \in S : t \notin T => Cardinality(T \cup {t}) = Cardinality(T) + 1
         /\ \A t \in T : Cardinality(T \ {t}) = Cardinality(T) - 1 /\ Cardinality(T) > 0
<1>1. IsFiniteSet(T) /\ Cardinality(T) \in Nat
  BY FS_Subset, FS_CardinalityType
<1>2. \A t \in S : t \notin T => Cardinality(T \cup {t}) = Cardinality(T) + 1
  BY <1>1, FS_AddElement
<1>3. ASSUME NEW t \in T
      PROVE  Cardinality(T \ {t}) = Cardinality(T) - 1 /\ Cardinality(T) > 0
  <2>1. Cardinality(T \ {t}) = Cardinality(T) - 1
    BY <1>1, FS_RemoveElement
  <2>2. Cardinality(T) # 0
    BY <1>1, FS_EmptySet
  <2>3. QED BY <1>1, <2>1, <2>2
<1>4. QED BY <1>1, <1>2, <1>3

LEMMA ThreadSizes ==
  /\ Cardinality(Granted(Producers)) \in Nat
  /\ Cardinality(Granted(Consumers)) \in Nat
  /\ Cardinality(Used(Producers)) \in Nat
  /\ Cardinality(Used(Consumers)) \in Nat
<1>1. /\ Granted(Producers) \in SUBSET Producers /\ Used(Producers) \in SUBSET Producers
      /\ Granted(Consumers) \in SUBSET Consumers /\ Used(Consumers) \in SUBSET Consumers
  BY DEF Granted, Used
<1>2. QED BY <1>1, Sizes, ThreadsAssumption

LEMMA InitIInv == Init => IInv
<1> SUFFICES ASSUME Init PROVE IInv OBVIOUS
<1> USE DEF Init
<1>1. /\ Granted(Producers) = {} /\ Used(Producers) = {}
      /\ Granted(Consumers) = {} /\ Used(Consumers) = {}
  BY DEF Granted, Used, Threads
<1>2. Cardinality({}) = 0
  BY FS_EmptySet
<1>3. Types
  BY SizeAssumption DEF Types, Labels, Slots
<1>4. MutualExclusion
  BY ThreadsAssumption DEF MutualExclusion, Threads
<1>5. PermitsCounted
  BY <1>1, <1>2, SizeAssumption DEF PermitsCounted, InBuffer
<1>6. WindowCorrect
  BY SizeAssumption DEF WindowCorrect, Slot, Wrap, InBuffer, Slots
<1>7. QED BY <1>3, <1>4, <1>5, <1>6 DEF IInv

-----------------------------------------------------------------------------

\* How the four sets of threads change when thread t moves to label l.
LEMMA Moves ==
  ASSUME Types, NEW t \in Threads, NEW l, pc' = [pc EXCEPT ![t] = l],
         NEW S \in {Producers, Consumers}
  PROVE  /\ Granted(S)' = IF t \notin S THEN Granted(S)
                          ELSE IF l \in {"lock", "access"} THEN Granted(S) \cup {t}
                          ELSE Granted(S) \ {t}
         /\ Used(S)' = IF t \notin S THEN Used(S)
                       ELSE IF l \in {"unlock", "sem_post"} THEN Used(S) \cup {t}
                       ELSE Used(S) \ {t}
<1>1. S \in SUBSET Threads
  BY DEF Threads
<1>2. \A u \in S : pc'[u] = IF u = t THEN l ELSE pc[u]
  BY <1>1 DEF Types
<1>3. QED BY <1>2 DEF Granted, Used

\* The window only depends on the ring's variables.
LEMMA SameWindow ==
  ASSUME WindowCorrect, UNCHANGED ring PROVE WindowCorrect'
BY DEF ring, WindowCorrect, Slot, Wrap, InBuffer

\* Adding an item at producer_index, or taking the one at consumer_index,
\* keeps the window, if there is a free slot, or an item.
LEMMA PushWindow ==
  ASSUME Types, WindowCorrect, NEW p \in Producers, PushBuf(p), InBuffer \in 0..(BufferSize - 1)
  PROVE  WindowCorrect'
<1> DEFINE P == producer_index  C == consumer_index  N == BufferSize
<1>0. /\ P \in 0..(N-1) /\ C \in 0..(N-1) /\ N \in Nat \ {0} /\ pushed \in Nat /\ taken \in Nat
      /\ buffer \in [Slots -> Int] /\ InBuffer \in Int
  BY SizeAssumption DEF Types, Slots, InBuffer
<1>1. /\ P' = Wrap(P + 1) /\ InBuffer' = InBuffer + 1 /\ taken' = taken /\ C' = C
      /\ buffer' = [buffer EXCEPT ![P] = pushed] /\ pushed = taken + InBuffer
  BY NextSlot DEF InBuffer, PushBuf, Types
<1>2. P = Slot(InBuffer)
  BY DEF WindowCorrect
<1>3. Slot(InBuffer)' = Wrap(C + (InBuffer + 1))
  BY <1>1 DEF Slot, Wrap
<1>4. P' = Slot(InBuffer)'
  BY <1>0, <1>1, <1>2, <1>3 DEF Slot, Wrap
<1>5. ASSUME NEW j \in Slots
      PROVE  IF j < InBuffer' THEN buffer'[Slot(j)'] = taken' + j ELSE buffer'[Slot(j)'] < taken'
  <2>1. Slot(j)' = Slot(j) /\ Slot(j) \in Slots
    BY <1>0, <1>1 DEF Slot, Wrap, Slots
  <2>2. j = InBuffer <=> Slot(j) = P
    BY <1>0, <1>2 DEF Slot, Wrap, Slots
  <2>3. buffer'[Slot(j)] = IF j = InBuffer THEN pushed ELSE buffer[Slot(j)]
    BY <1>0, <1>1, <2>1, <2>2
  <2>4. IF j < InBuffer THEN buffer[Slot(j)] = taken + j ELSE buffer[Slot(j)] < taken
    BY DEF WindowCorrect
  <2>5. j \in Int
    BY <1>0 DEF Slots
  <2>6. CASE j = InBuffer
    BY <1>0, <1>1, <2>1, <2>3, <2>5, <2>6
  <2>7. CASE j # InBuffer
    BY <1>0, <1>1, <2>1, <2>3, <2>4, <2>5, <2>7
  <2>8. QED BY <2>6, <2>7
<1>6. QED BY <1>4, <1>5 DEF WindowCorrect

LEMMA TakeWindow ==
  ASSUME Types, WindowCorrect, NEW c \in Consumers, TakeFromBuf(c), InBuffer \in 1..BufferSize
  PROVE  WindowCorrect'
<1> DEFINE P == producer_index  C == consumer_index  N == BufferSize
<1>0. /\ P \in 0..(N-1) /\ C \in 0..(N-1) /\ N \in Nat \ {0} /\ taken \in Nat
      /\ buffer \in [Slots -> Int] /\ InBuffer \in Int
  BY SizeAssumption DEF Types, Slots, InBuffer
<1>1. /\ C' = Wrap(C + 1) /\ InBuffer' = InBuffer - 1 /\ taken' = taken + 1
      /\ P' = P /\ buffer' = buffer
  BY NextSlot DEF InBuffer, TakeFromBuf, Types
<1>2. P = Wrap(C + InBuffer)
  BY DEF WindowCorrect, Slot
<1>3. Slot(InBuffer)' = Wrap(Wrap(C + 1) + (InBuffer - 1))
  BY <1>1 DEF Slot, Wrap
<1>4. P' = Slot(InBuffer)'
  BY <1>0, <1>1, <1>2, <1>3 DEF Wrap
<1>5. ASSUME NEW j \in Slots
      PROVE  IF j < InBuffer' THEN buffer'[Slot(j)'] = taken' + j ELSE buffer'[Slot(j)'] < taken'
  <2>0. j \in 0..(N-1) /\ Slot(j)' = Wrap(Wrap(C + 1) + j)
    BY <1>1 DEF Slots, Slot, Wrap
  <2>1. CASE j + 1 < N
    <3>1. j + 1 \in Slots
      BY <1>0, <2>0, <2>1 DEF Slots
    <3>2. Slot(j)' = Slot(j + 1) /\ Slot(j + 1) \in Slots
      BY <1>0, <2>0, <2>1 DEF Slot, Wrap, Slots
    <3>3. IF j + 1 < InBuffer THEN buffer[Slot(j + 1)] = taken + (j + 1)
                              ELSE buffer[Slot(j + 1)] < taken
      BY <3>1 DEF WindowCorrect
    <3>4. buffer[Slot(j + 1)] \in Int
      BY <1>0, <3>2
    <3>5. QED BY <1>0, <1>1, <2>0, <3>2, <3>3, <3>4
  <2>2. CASE j + 1 = N
    <3>1. Slot(j)' = Slot(0)
      BY <1>0, <2>0, <2>2 DEF Slot, Wrap
    <3>2. 0 \in Slots /\ 0 < InBuffer
      BY <1>0 DEF Slots
    <3>3. buffer[Slot(0)] = taken + 0
      BY <3>2 DEF WindowCorrect
    <3>4. ~(j < InBuffer')
      BY <1>0, <1>1, <2>0, <2>2
    <3>5. QED BY <1>0, <1>1, <3>1, <3>3, <3>4
  <2>3. QED BY <1>0, <2>0, <2>1, <2>2
<1>6. QED BY <1>4, <1>5 DEF WindowCorrect

\* What PermitsCounted says to a thread inside the critical section.
LEMMA RoomToPush ==
  ASSUME Types, PermitsCounted, NEW p \in Producers, pc[p] = "access"
  PROVE  InBuffer \in 0..(BufferSize - 1)
<1>1. p \in Granted(Producers) /\ Granted(Producers) \in SUBSET Producers
  BY DEF Granted
<1>2. Cardinality(Granted(Producers)) > 0
  BY <1>1, Sizes, ThreadsAssumption
<1>3. QED BY <1>2, ThreadSizes, SizeAssumption DEF PermitsCounted, Types, InBuffer

LEMMA ItemToTake ==
  ASSUME Types, PermitsCounted, NEW c \in Consumers, pc[c] = "access"
  PROVE  InBuffer \in 1..BufferSize
<1>1. c \in Granted(Consumers) /\ Granted(Consumers) \in SUBSET Consumers
  BY DEF Granted
<1>2. Cardinality(Granted(Consumers)) > 0
  BY <1>1, Sizes, ThreadsAssumption
<1>3. QED BY <1>2, ThreadSizes, SizeAssumption DEF PermitsCounted, Types, InBuffer

-----------------------------------------------------------------------------

LEMMA NextIInv == IInv /\ [Next]_vars => IInv'
<1> SUFFICES ASSUME IInv, [Next]_vars PROVE IInv' OBVIOUS
<1> USE DEF IInv
<1>s. ASSUME NEW S \in {Producers, Consumers}
      PROVE  /\ IsFiniteSet(S) /\ S \in SUBSET Threads
             /\ Granted(S) \in SUBSET S /\ Used(S) \in SUBSET S
  BY <1>s, ThreadsAssumption DEF Threads, Granted, Used
<1>n. InBuffer \in Int /\ BufferSize \in Nat
  BY SizeAssumption DEF Types, InBuffer
<1>1. ASSUME NEW t \in Threads, StartRound(t) PROVE IInv'
  <2> USE <1>1 DEF StartRound, Goto, sems, ring
  <2>1. Types'
    BY DEF Types, Labels, Threads
  <2>2. MutualExclusion'
    BY ThreadsAssumption DEF MutualExclusion, Types, Threads
  <2>3. \A S \in {Producers, Consumers} : Granted(S)' = Granted(S) /\ Used(S)' = Used(S)
    BY DEF Granted, Used, Types, Threads
  <2>4. PermitsCounted' /\ WindowCorrect'
    BY <2>3, SameWindow DEF PermitsCounted, InBuffer
  <2>5. QED BY <2>1, <2>2, <2>4
<1>2. ASSUME NEW t \in Threads, LockBuffer(t) PROVE IInv'
  <2> USE <1>2 DEF LockBuffer, Goto, sems, ring
  <2>1. Types'
    BY DEF Types, Labels, Threads
  <2>2. MutualExclusion'
    BY ThreadsAssumption DEF MutualExclusion, Types, Threads
  <2>3. \A S \in {Producers, Consumers} : Granted(S)' = Granted(S) /\ Used(S)' = Used(S)
    BY DEF Granted, Used, Types, Threads
  <2>4. PermitsCounted' /\ WindowCorrect'
    BY <2>3, SameWindow DEF PermitsCounted, InBuffer
  <2>5. QED BY <2>1, <2>2, <2>4
<1>3. ASSUME NEW t \in Threads, UnlockBuffer(t) PROVE IInv'
  <2> USE <1>3 DEF UnlockBuffer, Goto, sems, ring
  <2>1. Types'
    BY DEF Types, Labels, Threads
  <2>2. MutualExclusion'
    BY ThreadsAssumption DEF MutualExclusion, Types, Threads
  <2>3. \A S \in {Producers, Consumers} : Granted(S)' = Granted(S) /\ Used(S)' = Used(S)
    BY DEF Granted, Used, Types, Threads
  <2>4. PermitsCounted' /\ WindowCorrect'
    BY <2>3, SameWindow DEF PermitsCounted, InBuffer
  <2>5. QED BY <2>1, <2>2, <2>4
<1>4. ASSUME NEW t \in Producers, ProducerGranted(t) PROVE IInv'
  <2> USE <1>4 DEF ProducerGranted, Goto, sems, ring
  <2>0. t \in Threads /\ sem_producer > 0 /\ sem_producer' = sem_producer - 1
    BY <1>s DEF EmptySlots!Grant
  <2>1. Types'
    BY <2>0 DEF Types, Labels
  <2>2. MutualExclusion'
    BY <2>0, ThreadsAssumption DEF MutualExclusion, Types
  <2>3. /\ t \notin Granted(Producers) /\ Granted(Producers)' = Granted(Producers) \cup {t}
        /\ Used(Producers)' = Used(Producers)
    BY <2>0 DEF Types, Granted, Used, Threads
  <2>4. Granted(Consumers)' = Granted(Consumers) /\ Used(Consumers)' = Used(Consumers)
    BY <2>0, ThreadsAssumption DEF Types, Granted, Used, Threads
  <2>5. Cardinality(Granted(Producers)') = Cardinality(Granted(Producers)) + 1
    BY <1>s, <2>3, Sizes
  <2>6. PermitsCounted'
    BY <1>n, <2>0, <2>3, <2>4, <2>5, ThreadSizes DEF PermitsCounted, InBuffer, Types
  <2>7. WindowCorrect'
    BY SameWindow
  <2>8. QED BY <2>1, <2>2, <2>6, <2>7
<1>5. ASSUME NEW t \in Consumers, ConsumerGranted(t) PROVE IInv'
  <2> USE <1>5 DEF ConsumerGranted, Goto, sems, ring
  <2>0. t \in Threads /\ sem_consumer > 0 /\ sem_consumer' = sem_consumer - 1
    BY <1>s DEF FullSlots!Grant
  <2>1. Types'
    BY <2>0 DEF Types, Labels
  <2>2. MutualExclusion'
    BY <2>0, ThreadsAssumption DEF MutualExclusion, Types
  <2>3. /\ t \notin Granted(Consumers) /\ Granted(Consumers)' = Granted(Consumers) \cup {t}
        /\ Used(Consumers)' = Used(Consumers)
    BY <2>0 DEF Types, Granted, Used, Threads
  <2>4. Granted(Producers)' = Granted(Producers) /\ Used(Producers)' = Used(Producers)
    BY <2>0, ThreadsAssumption DEF Types, Granted, Used, Threads
  <2>5. Cardinality(Granted(Consumers)') = Cardinality(Granted(Consumers)) + 1
    BY <1>s, <2>3, Sizes
  <2>6. PermitsCounted'
    BY <1>n, <2>0, <2>3, <2>4, <2>5, ThreadSizes DEF PermitsCounted, InBuffer, Types
  <2>7. WindowCorrect'
    BY SameWindow
  <2>8. QED BY <2>1, <2>2, <2>6, <2>7
<1>6. ASSUME NEW t \in Producers, PushBuf(t) PROVE IInv'
  <2> USE <1>6
  <2>0. /\ t \in Threads /\ pc[t] = "access" /\ pc' = [pc EXCEPT ![t] = "unlock"]
        /\ UNCHANGED <<sem_producer, sem_consumer, mut_buf>>
    BY <1>s DEF PushBuf, Goto, sems
  <2>1. InBuffer \in 0..(BufferSize - 1)
    BY <2>0, RoomToPush
  <2>2. WindowCorrect'
    BY <2>1, PushWindow
  <2>3. Types'
    BY <2>0, NextSlot DEF PushBuf, Types, Labels
  <2>4. MutualExclusion'
    BY <2>0 DEF MutualExclusion, Types
  <2>5. /\ t \in Granted(Producers) /\ Granted(Producers)' = Granted(Producers) \ {t}
        /\ t \notin Used(Producers) /\ Used(Producers)' = Used(Producers) \cup {t}
    BY <2>0 DEF Types, Granted, Used, Threads
  <2>6. Granted(Consumers)' = Granted(Consumers) /\ Used(Consumers)' = Used(Consumers)
    BY <2>0, ThreadsAssumption DEF Types, Granted, Used, Threads
  <2>7. /\ Cardinality(Granted(Producers)') = Cardinality(Granted(Producers)) - 1
        /\ Cardinality(Used(Producers)') = Cardinality(Used(Producers)) + 1
    BY <1>s, <2>5, Sizes
  <2>8. InBuffer' = InBuffer + 1
    BY DEF PushBuf, InBuffer, Types
  <2>9. PermitsCounted'
    BY <1>n, <2>0, <2>6, <2>7, <2>8, ThreadSizes DEF PermitsCounted, Types
  <2>10. QED BY <2>2, <2>3, <2>4, <2>9
<1>7. ASSUME NEW t \in Consumers, TakeFromBuf(t) PROVE IInv'
  <2> USE <1>7
  <2>0. /\ t \in Threads /\ pc[t] = "access" /\ pc' = [pc EXCEPT ![t] = "unlock"]
        /\ UNCHANGED <<sem_producer, sem_consumer, mut_buf>>
    BY <1>s DEF TakeFromBuf, Goto, sems
  <2>1. InBuffer \in 1..BufferSize
    BY <2>0, ItemToTake
  <2>2. WindowCorrect'
    BY <2>1, TakeWindow
  <2>3. Types'
    BY <2>0, NextSlot DEF TakeFromBuf, Types, Labels
  <2>4. MutualExclusion'
    BY <2>0 DEF MutualExclusion, Types
  <2>5. /\ t \in Granted(Consumers) /\ Granted(Consumers)' = Granted(Consumers) \ {t}
        /\ t \notin Used(Consumers) /\ Used(Consumers)' = Used(Consumers) \cup {t}
    BY <2>0 DEF Types, Granted, Used, Threads
  <2>6. Granted(Producers)' = Granted(Producers) /\ Used(Producers)' = Used(Producers)
    BY <2>0, ThreadsAssumption DEF Types, Granted, Used, Threads
  <2>7. /\ Cardinality(Granted(Consumers)') = Cardinality(Granted(Consumers)) - 1
        /\ Cardinality(Used(Consumers)') = Cardinality(Used(Consumers)) + 1
    BY <1>s, <2>5, Sizes
  <2>8. InBuffer' = InBuffer - 1
    BY DEF TakeFromBuf, InBuffer, Types
  <2>9. PermitsCounted'
    BY <1>n, <2>0, <2>6, <2>7, <2>8, ThreadSizes DEF PermitsCounted, Types
  <2>10. QED BY <2>2, <2>3, <2>4, <2>9
<1>8. ASSUME NEW t \in Producers, ProducerPosts(t) PROVE IInv'
  <2> USE <1>8 DEF ProducerPosts, Goto, sems, ring
  <2>0. t \in Threads /\ sem_consumer' = sem_consumer + 1
    BY <1>s DEF FullSlots!Release
  <2>1. Types'
    BY <2>0 DEF Types, Labels
  <2>2. MutualExclusion'
    BY <2>0, ThreadsAssumption DEF MutualExclusion, Types
  <2>3. /\ t \in Used(Producers) /\ Used(Producers)' = Used(Producers) \ {t}
        /\ Granted(Producers)' = Granted(Producers)
    BY <2>0 DEF Types, Granted, Used, Threads
  <2>4. Granted(Consumers)' = Granted(Consumers) /\ Used(Consumers)' = Used(Consumers)
    BY <2>0, ThreadsAssumption DEF Types, Granted, Used, Threads
  <2>5. Cardinality(Used(Producers)') = Cardinality(Used(Producers)) - 1
    BY <1>s, <2>3, Sizes
  <2>6. PermitsCounted'
    BY <1>n, <2>0, <2>3, <2>4, <2>5, ThreadSizes DEF PermitsCounted, InBuffer, Types
  <2>7. WindowCorrect'
    BY SameWindow
  <2>8. QED BY <2>1, <2>2, <2>6, <2>7
<1>9. ASSUME NEW t \in Consumers, ConsumerPosts(t) PROVE IInv'
  <2> USE <1>9 DEF ConsumerPosts, Goto, sems, ring
  <2>0. t \in Threads /\ sem_producer' = sem_producer + 1
    BY <1>s DEF EmptySlots!Release
  <2>1. Types'
    BY <2>0 DEF Types, Labels
  <2>2. MutualExclusion'
    BY <2>0, ThreadsAssumption DEF MutualExclusion, Types
  <2>3. /\ t \in Used(Consumers) /\ Used(Consumers)' = Used(Consumers) \ {t}
        /\ Granted(Consumers)' = Granted(Consumers)
    BY <2>0 DEF Types, Granted, Used, Threads
  <2>4. Granted(Producers)' = Granted(Producers) /\ Used(Producers)' = Used(Producers)
    BY <2>0, ThreadsAssumption DEF Types, Granted, Used, Threads
  <2>5. Cardinality(Used(Consumers)') = Cardinality(Used(Consumers)) - 1
    BY <1>s, <2>3, Sizes
  <2>6. PermitsCounted'
    BY <1>n, <2>0, <2>3, <2>4, <2>5, ThreadSizes DEF PermitsCounted, InBuffer, Types
  <2>7. WindowCorrect'
    BY SameWindow
  <2>8. QED BY <2>1, <2>2, <2>6, <2>7
<1>10. CASE UNCHANGED vars
  BY <1>10, SameWindow DEF vars, sems, ring, Types, MutualExclusion, PermitsCounted, Granted, Used, InBuffer
<1>11. QED
  BY <1>1, <1>2, <1>3, <1>4, <1>5, <1>6, <1>7, <1>8, <1>9, <1>10
     DEF Next, ProducerStep, ConsumerStep, Threads

-----------------------------------------------------------------------------

THEOREM Invariance == Spec => []IInv
BY InitIInv, NextIInv, PTL DEF Spec

\* Type correctness: indexes stay in the buffer and no semaphore exceeds
\* the number of slots.
THEOREM TypeCorrect == Spec => []TypeOK
<1>1. IInv => TypeOK
  BY ThreadSizes, SizeAssumption DEF IInv, Types, PermitsCounted, TypeOK, InBuffer
<1>2. QED BY <1>1, Invariance, PTL

\* No producer ever overwrites an item that was not taken, however many
\* producers share producer_index.
THEOREM NothingOverwritten == Spec => []NoOverwrite
<1>1. IInv => NoOverwrite
  <2> SUFFICES ASSUME IInv, NEW p \in Producers, pc[p] = "access"
               PROVE  buffer[producer_index] < taken
    BY DEF NoOverwrite
  <2> USE DEF IInv
  <2>1. InBuffer \in 0..(BufferSize - 1)
    BY RoomToPush
  <2>2. InBuffer \in Slots /\ ~(InBuffer < InBuffer)
    BY <2>1 DEF Slots
  <2>3. QED BY <2>2 DEF WindowCorrect
<1>2. QED BY <1>1, Invariance, PTL

\* Every consumer takes the oldest item that was not taken yet.
THEOREM FirstInFirstOut == Spec => []TakesOldest
<1>1. IInv => TakesOldest
  <2> SUFFICES ASSUME IInv, NEW c \in Consumers, pc[c] = "access"
               PROVE  buffer[consumer_index] = taken
    BY DEF TakesOldest
  <2> USE DEF IInv
  <2>1. 0 < InBuffer
    BY ItemToTake, SizeAssumption
  <2>2. 0 \in Slots /\ Slot(0) = consumer_index
    BY SizeAssumption DEF Types, Slots, Slot, Wrap
  <2>3. buffer[Slot(0)] = taken + 0
    BY <2>1, <2>2 DEF WindowCorrect
  <2>4. QED BY <2>2, <2>3 DEF Types
<1>2. QED BY <1>1, Invariance, PTL
==============================================================================
