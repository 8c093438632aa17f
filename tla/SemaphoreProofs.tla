--------------------------- MODULE SemaphoreProofs ---------------------------
(***************************************************************************)
(* Proofs about hw6/semaphore.c for any finite set of threads and any      *)
(* initial count: no wakeup is lost, and the code implements a counting    *)
(* semaphore.                                                              *)
(***************************************************************************)
EXTENDS Semaphore, FiniteSetTheorems, TLAPS

\* Threads that are between taking and releasing the mutex.
Holders == {t \in Threads :
              pc[t] \in {"wait_dec", "wait_test", "wait_unlock", "post_inc", "post_unlock"}}

Types ==
  /\ pc \in [Threads -> Labels]
  /\ mutex \in Threads \cup {NoThread}
  /\ condition \in SUBSET Threads
  /\ count \in Int
  /\ waiting \in Nat

\* The mutex is held by exactly the thread that is inside it.
MutualExclusion == \A t \in Threads : t \in Holders <=> mutex = t

\* waiting counts the waiters, and only they sleep.
WaitersCounted ==
  /\ waiting = Cardinality(Waiters)
  /\ \A t \in condition : pc[t] = "wait_cond"

NeverOverdrawn == Value >= 0

\* The inductive invariant.  NoLostWakeup alone is not inductive: that a
\* thread leaving the loop takes a permit, and that sem_post signals when
\* there is a sleeper, both rest on waiting being the number of waiters.
IInv ==
  /\ Types
  /\ MutualExclusion
  /\ WaitersCounted
  /\ NeverOverdrawn
  /\ NoLostWakeup

-----------------------------------------------------------------------------

\* One thread joins or leaves a finite set of threads: how its size moves.
LEMMA AddOne ==
  ASSUME NEW S \in SUBSET Threads, NEW t \in Threads, t \notin S
  PROVE  /\ Cardinality(S) \in Nat
         /\ Cardinality(S \cup {t}) = Cardinality(S) + 1
BY ThreadsAssumption, FS_Subset, FS_AddElement, FS_CardinalityType

LEMMA RemoveOne ==
  ASSUME NEW S \in SUBSET Threads, NEW t \in S
  PROVE  /\ Cardinality(S) \in Nat
         /\ Cardinality(S) > 0
         /\ Cardinality(S \ {t}) = Cardinality(S) - 1
<1>1. IsFiniteSet(S)
  BY ThreadsAssumption, FS_Subset
<1>2. Cardinality(S) \in Nat /\ Cardinality(S) # 0
  BY <1>1, FS_CardinalityType, FS_EmptySet
<1>3. Cardinality(S \ {t}) = Cardinality(S) - 1
  BY <1>1, FS_RemoveElement
<1>4. QED BY <1>2, <1>3

\* Any set of threads has a size, and a part is no larger than the whole.
LEMMA PartSize ==
  ASSUME NEW S \in SUBSET Threads, NEW T \in SUBSET S
  PROVE  /\ Cardinality(S) \in Nat
         /\ Cardinality(T) \in Nat
         /\ Cardinality(T) <= Cardinality(S)
         /\ Cardinality(S) = 0 => S = {}
<1>1. IsFiniteSet(S) /\ IsFiniteSet(T)
  BY ThreadsAssumption, FS_Subset
<1>2. QED BY <1>1, FS_Subset, FS_CardinalityType, FS_EmptySet

LEMMA InitIInv == Init => IInv
<1> SUFFICES ASSUME Init PROVE IInv OBVIOUS
<1> USE DEF Init
<1>1. Waiters = {} /\ Holders = {}
  BY DEF Waiters, Holders
<1>2. Cardinality(Waiters) = 0
  BY <1>1, FS_EmptySet
<1>3. Types
  BY CountAssumption DEF Types, Labels
<1>4. MutualExclusion
  BY <1>1, ThreadsAssumption DEF MutualExclusion
<1>5. WaitersCounted /\ NeverOverdrawn /\ NoLostWakeup
  BY <1>2, CountAssumption DEF WaitersCounted, NeverOverdrawn, NoLostWakeup, Value
<1>6. QED BY <1>3, <1>4, <1>5 DEF IInv

-----------------------------------------------------------------------------

\* The steps that move one thread among the labels outside the loop of
\* sem_wait, and leave counters and sleepers alone, keep the three
\* conjuncts about counters.
LEMMA OutsideLoop ==
  ASSUME IInv, NEW t \in Threads,
         NEW l \in Labels, l \notin {"wait_test", "wait_cond"},
         pc[t] \notin {"wait_test", "wait_cond"},
         pc' = [pc EXCEPT ![t] = l],
         UNCHANGED <<condition, count, waiting>>
  PROVE  WaitersCounted' /\ NeverOverdrawn' /\ NoLostWakeup'
<1> USE DEF IInv, Types
<1>1. Waiters' = Waiters
  BY DEF Waiters
<1>2. Awake' = Awake
  BY <1>1 DEF Awake
<1>3. \A u \in condition' : pc'[u] = "wait_cond"
  BY DEF WaitersCounted
<1>4. QED BY <1>1, <1>2, <1>3 DEF WaitersCounted, NeverOverdrawn, NoLostWakeup, Value

\* Waking one sleeper adds one awake waiter.
LEMMA WakeOne ==
  ASSUME IInv, NEW u \in condition
  PROVE  /\ u \in Waiters
         /\ Waiters \ (condition \ {u}) = Awake \cup {u}
         /\ Cardinality(Awake) \in Nat
         /\ Cardinality(Awake \cup {u}) = Cardinality(Awake) + 1
<1>1. u \in Threads /\ u \in Waiters /\ u \notin Awake /\ Awake \in SUBSET Threads
  BY DEF IInv, Types, WaitersCounted, Waiters, Awake
<1>2. Waiters \ (condition \ {u}) = Awake \cup {u}
  BY <1>1 DEF Awake
<1>3. QED BY <1>1, <1>2, AddOne

LEMMA NextIInv == IInv /\ [Next]_vars => IInv'
<1> SUFFICES ASSUME IInv, [Next]_vars PROVE IInv' OBVIOUS
<1> USE DEF IInv
<1>t. /\ Waiters \in SUBSET Threads /\ Awake \in SUBSET Waiters
      /\ Cardinality(Waiters) \in Nat /\ Cardinality(Awake) \in Nat
      /\ Cardinality(Awake) <= Cardinality(Waiters)
      /\ Cardinality(Waiters) = 0 => Waiters = {}
  <2>1. Waiters \in SUBSET Threads /\ Awake \in SUBSET Waiters
    BY DEF Waiters, Awake
  <2>2. QED BY <2>1, PartSize
<1>v. Value \in Nat
  BY DEF Types, NeverOverdrawn, Value
<1>1. ASSUME NEW t \in Threads, CallWait(t) PROVE IInv'
  <2> USE <1>1 DEF CallWait, Goto
  <2>1. Types'
    BY DEF Types, Labels
  <2>2. MutualExclusion'
    BY DEF MutualExclusion, Holders, Types
  <2>3. WaitersCounted' /\ NeverOverdrawn' /\ NoLostWakeup'
    BY OutsideLoop DEF Labels
  <2>4. QED BY <2>1, <2>2, <2>3
<1>2. ASSUME NEW t \in Threads, WaitLock(t) PROVE IInv'
  <2> USE <1>2 DEF WaitLock, Goto, Lock
  <2>1. Types'
    BY DEF Types, Labels
  <2>2. MutualExclusion'
    BY ThreadsAssumption DEF MutualExclusion, Holders, Types
  <2>3. WaitersCounted' /\ NeverOverdrawn' /\ NoLostWakeup'
    BY OutsideLoop DEF Labels
  <2>4. QED BY <2>1, <2>2, <2>3
<1>3. ASSUME NEW t \in Threads, WaitDecrement(t) PROVE IInv'
  <2> USE <1>3 DEF WaitDecrement, Goto
  <2>1. Types'
    BY DEF Types, Labels
  <2>2. MutualExclusion'
    BY DEF MutualExclusion, Holders, Types
  <2>3. CASE count' >= 0 /\ pc' = [pc EXCEPT ![t] = "wait_unlock"] /\ UNCHANGED waiting
    <3>1. pc[t] = "wait_dec" /\ Waiters' = Waiters
      BY <2>3 DEF Waiters, Types
    <3>2. Awake' = Awake
      BY <3>1 DEF Awake
    <3>3. WaitersCounted'
      BY <2>3, <3>1 DEF WaitersCounted, Types
    <3>4. Value' = Value - 1 /\ Value' >= 0
      BY <2>3 DEF Value, Types
    <3>5. NeverOverdrawn' /\ NoLostWakeup'
      BY <1>t, <1>v, <3>2, <3>4 DEF NeverOverdrawn, NoLostWakeup
    <3>6. QED BY <2>1, <2>2, <3>3, <3>5
  <2>4. CASE count' < 0 /\ pc' = [pc EXCEPT ![t] = "wait_test"] /\ waiting' = waiting + 1
    <3>1. pc[t] = "wait_dec" /\ t \notin Waiters /\ Waiters' = Waiters \cup {t}
      BY <2>4 DEF Waiters, Types
    <3>2. t \notin condition /\ t \notin Awake /\ Awake' = Awake \cup {t}
      BY <3>1 DEF Awake, WaitersCounted
    <3>3. Cardinality(Waiters') = Cardinality(Waiters) + 1
      BY <1>t, <3>1, AddOne
    <3>4. Cardinality(Awake') = Cardinality(Awake) + 1
      BY <1>t, <3>2, AddOne
    <3>5. WaitersCounted'
      BY <2>4, <3>2, <3>3 DEF WaitersCounted, Types
    <3>6. Value' = Value
      BY <2>4 DEF Value, Types
    <3>7. NeverOverdrawn' /\ NoLostWakeup'
      BY <1>t, <1>v, <3>4, <3>6 DEF NeverOverdrawn, NoLostWakeup
    <3>8. QED BY <2>1, <2>2, <3>5, <3>7
  <2>5. QED BY <2>3, <2>4
<1>4. ASSUME NEW t \in Threads, WaitSleep(t) PROVE IInv'
  <2> USE <1>4 DEF WaitSleep, Goto, Unlock
  <2>1. Types'
    BY DEF Types, Labels
  <2>2. MutualExclusion'
    BY ThreadsAssumption DEF MutualExclusion, Holders, Types
  <2>3. Waiters' = Waiters
    BY DEF Waiters, Types
  <2>4. WaitersCounted'
    BY <2>3 DEF WaitersCounted, Types
  <2>5. Awake' \in SUBSET Threads
    BY DEF Awake, Waiters
  <2>6. Cardinality(Awake') \in Nat /\ Cardinality(Awake') >= 0
    BY <2>5, PartSize
  <2>7. Value' = 0
    BY DEF MustSleep, Value, Types
  <2>8. NeverOverdrawn' /\ NoLostWakeup'
    BY <2>6, <2>7 DEF NeverOverdrawn, NoLostWakeup
  <2>9. QED BY <2>1, <2>2, <2>4, <2>8
<1>5. ASSUME NEW t \in Threads, WaitLeave(t) PROVE IInv'
  <2> USE <1>5 DEF WaitLeave, Goto
  <2>1. t \in Waiters /\ t \notin condition /\ t \in Awake
    BY DEF Waiters, Awake, WaitersCounted
  <2>2. Waiters' = Waiters \ {t} /\ Awake' = Awake \ {t}
    BY <2>1 DEF Waiters, Awake, Types
  <2>3. /\ Cardinality(Waiters) > 0
        /\ Cardinality(Waiters') = Cardinality(Waiters) - 1
        /\ Cardinality(Awake') = Cardinality(Awake) - 1
    BY <1>t, <2>1, <2>2, RemoveOne
  <2>4. Types'
    BY <1>t, <2>3 DEF Types, Labels, WaitersCounted
  <2>5. MutualExclusion'
    BY DEF MutualExclusion, Holders, Types
  <2>6. WaitersCounted'
    BY <1>t, <2>1, <2>3 DEF WaitersCounted, Types
  <2>7. Value' = Value - 1 /\ Value # 0
    BY DEF MustSleep, Value, Types
  <2>8. NeverOverdrawn' /\ NoLostWakeup'
    BY <1>t, <1>v, <2>3, <2>7 DEF NeverOverdrawn, NoLostWakeup
  <2>9. QED BY <2>4, <2>5, <2>6, <2>8
<1>6. ASSUME NEW t \in Threads, SpuriousWakeup(t) PROVE IInv'
  <2> USE <1>6 DEF SpuriousWakeup
  <2>1. Types' /\ MutualExclusion'
    BY DEF Types, MutualExclusion, Holders
  <2>2. Waiters' = Waiters /\ Awake' = Waiters \ (condition \ {t}) /\ Value' = Value
    BY DEF Waiters, Awake, Value
  <2>3. Cardinality(Awake') = Cardinality(Awake) + 1
    BY <2>2, WakeOne
  <2>4. WaitersCounted'
    BY <2>2 DEF WaitersCounted
  <2>5. NeverOverdrawn' /\ NoLostWakeup'
    BY <1>t, <1>v, <2>2, <2>3 DEF NeverOverdrawn, NoLostWakeup
  <2>6. QED BY <2>1, <2>4, <2>5
<1>7. ASSUME NEW t \in Threads, WaitRelock(t) PROVE IInv'
  <2> USE <1>7 DEF WaitRelock, Goto, Lock
  <2>1. Types'
    BY DEF Types, Labels
  <2>2. MutualExclusion'
    BY ThreadsAssumption DEF MutualExclusion, Holders, Types
  <2>3. Waiters' = Waiters
    BY DEF Waiters, Types
  <2>4. Awake' = Awake
    BY <2>3 DEF Awake
  <2>5. WaitersCounted' /\ NeverOverdrawn' /\ NoLostWakeup'
    BY <2>3, <2>4 DEF WaitersCounted, NeverOverdrawn, NoLostWakeup, Value, Types
  <2>6. QED BY <2>1, <2>2, <2>5
<1>8. ASSUME NEW t \in Threads, WaitUnlock(t) PROVE IInv'
  <2> USE <1>8 DEF WaitUnlock, Goto, Unlock
  <2>1. Types'
    BY DEF Types, Labels
  <2>2. MutualExclusion'
    BY ThreadsAssumption DEF MutualExclusion, Holders, Types
  <2>3. WaitersCounted' /\ NeverOverdrawn' /\ NoLostWakeup'
    BY OutsideLoop DEF Labels
  <2>4. QED BY <2>1, <2>2, <2>3
<1>9. ASSUME NEW t \in Threads, CallPost(t) PROVE IInv'
  <2> USE <1>9 DEF CallPost, Goto
  <2>1. Types'
    BY DEF Types, Labels
  <2>2. MutualExclusion'
    BY ThreadsAssumption DEF MutualExclusion, Holders, Types
  <2>3. WaitersCounted' /\ NeverOverdrawn' /\ NoLostWakeup'
    BY OutsideLoop DEF Labels
  <2>4. QED BY <2>1, <2>2, <2>3
<1>10. ASSUME NEW t \in Threads, PostLock(t) PROVE IInv'
  <2> USE <1>10 DEF PostLock, Goto, Lock
  <2>1. Types'
    BY DEF Types, Labels
  <2>2. MutualExclusion'
    BY ThreadsAssumption DEF MutualExclusion, Holders, Types
  <2>3. WaitersCounted' /\ NeverOverdrawn' /\ NoLostWakeup'
    BY OutsideLoop DEF Labels
  <2>4. QED BY <2>1, <2>2, <2>3
<1>11. ASSUME NEW t \in Threads, PostUnlock(t) PROVE IInv'
  <2> USE <1>11 DEF PostUnlock, Goto, Unlock
  <2>1. Types'
    BY DEF Types, Labels
  <2>2. MutualExclusion'
    BY ThreadsAssumption DEF MutualExclusion, Holders, Types
  <2>3. WaitersCounted' /\ NeverOverdrawn' /\ NoLostWakeup'
    BY OutsideLoop DEF Labels
  <2>4. QED BY <2>1, <2>2, <2>3
<1>12. ASSUME NEW t \in Threads, PostIncrement(t) PROVE IInv'
  <2> USE <1>12 DEF PostIncrement, Goto
  <2>1. condition' \in SUBSET condition /\ Types'
    BY DEF Types, Labels, Signal
  <2>2. MutualExclusion'
    BY DEF MutualExclusion, Holders, Types
  <2>3. pc[t] = "post_inc" /\ Waiters' = Waiters
    BY DEF Waiters, Types
  <2>4. WaitersCounted'
    BY <2>1, <2>3 DEF WaitersCounted, Types
  <2>5. Value' = Value + 1
    BY DEF Value, Types
  <2>6. CASE condition = {}
    <3>1. condition' = {}
      BY <2>1, <2>6
    <3>2. QED BY <1>v, <2>1, <2>2, <2>4, <2>5, <3>1 DEF NeverOverdrawn, NoLostWakeup
  <2>7. CASE condition # {}
    <3>1. waiting > 0
      <4>1. Waiters # {}
        BY <2>7 DEF WaitersCounted, Waiters, Types
      <4>2. QED BY <1>t, <4>1 DEF WaitersCounted
    <3>2. PICK u \in condition : condition' = condition \ {u}
      BY <2>7, <3>1 DEF Signal
    <3>3. Awake' = Waiters \ (condition \ {u})
      BY <2>3, <3>2 DEF Awake
    <3>4. Cardinality(Awake') = Cardinality(Awake) + 1
      BY <3>3, WakeOne
    <3>5. NeverOverdrawn' /\ NoLostWakeup'
      BY <1>t, <1>v, <2>5, <2>7, <3>4 DEF NeverOverdrawn, NoLostWakeup
    <3>6. QED BY <2>1, <2>2, <2>4, <3>5
  <2>8. QED BY <2>6, <2>7
<1>13. CASE UNCHANGED vars
  BY <1>13 DEF vars, Types, MutualExclusion, Holders, WaitersCounted, Waiters,
               NeverOverdrawn, NoLostWakeup, Awake, Value
<1>14. QED
  BY <1>1, <1>2, <1>3, <1>4, <1>5, <1>6, <1>7, <1>8, <1>9, <1>10, <1>11, <1>12, <1>13
     DEF Next, Progress

-----------------------------------------------------------------------------

THEOREM Invariance == Spec => []IInv
BY InitIInv, NextIInv, PTL DEF Spec

\* Type correctness, with waiting bounded by the number of threads.
THEOREM TypeCorrect == Spec => []TypeOK
<1>1. IInv => TypeOK
  <2> SUFFICES ASSUME IInv PROVE TypeOK OBVIOUS
  <2>1. Waiters \in SUBSET Threads
    BY DEF Waiters
  <2>2. Cardinality(Waiters) \in 0..Cardinality(Threads)
    BY <2>1, PartSize
  <2>3. QED BY <2>2 DEF IInv, Types, WaitersCounted, TypeOK
<1>2. QED BY <1>1, Invariance, PTL

\* The signal of sem_post is enough: a thread asleep on the condition never
\* has a free permit that no awake waiter is about to take.
THEOREM LostWakeupFreedom == Spec => []NoLostWakeup
<1>1. IInv => NoLostWakeup
  BY DEF IInv
<1>2. QED BY <1>1, Invariance, PTL

\* sem_wait and sem_post implement a counting semaphore whose value is
\* count + waiting.
THEOREM Refinement == Spec => Implements
<1> USE DEF Abstract!Init, Abstract!Next, Abstract!Request, Abstract!Grant, Abstract!Release
<1>1. Init => Abstract!Init
  BY CountAssumption DEF Init, Value, Blocked
<1>2. IInv /\ [Next]_vars => [Abstract!Next]_<<Value, Blocked>>
  <2> SUFFICES ASSUME IInv, [Next]_vars
               PROVE  [Abstract!Next]_<<Value, Blocked>>
    OBVIOUS
  <2> USE DEF IInv, Types
  <2>1. ASSUME NEW t \in Threads, CallWait(t) PROVE Abstract!Request(t)
    BY <2>1 DEF CallWait, Goto, Value, Blocked
  <2>2. ASSUME NEW t \in Threads, WaitDecrement(t)
        PROVE  Abstract!Grant(t) \/ UNCHANGED <<Value, Blocked>>
    <3> USE <2>2 DEF WaitDecrement, Goto
    <3>1. CASE count' >= 0 /\ pc' = [pc EXCEPT ![t] = "wait_unlock"] /\ UNCHANGED waiting
      <4>1. t \in Blocked /\ Blocked' = Blocked \ {t}
        BY <3>1 DEF Blocked
      <4>2. Value > 0 /\ Value' = Value - 1
        BY <3>1 DEF Value
      <4>3. QED BY <4>1, <4>2
    <3>2. CASE count' < 0 /\ pc' = [pc EXCEPT ![t] = "wait_test"] /\ waiting' = waiting + 1
      BY <3>2 DEF Blocked, Value
    <3>3. QED BY <3>1, <3>2
  <2>3. ASSUME NEW t \in Threads, WaitLeave(t) PROVE Abstract!Grant(t)
    <3> USE <2>3 DEF WaitLeave, Goto
    <3>1. t \in Blocked /\ Blocked' = Blocked \ {t}
      BY DEF Blocked
    <3>2. Value > 0 /\ Value' = Value - 1
      BY DEF Value, MustSleep, NeverOverdrawn
    <3>3. QED BY <3>1, <3>2
  <2>4. ASSUME NEW t \in Threads, PostIncrement(t) PROVE Abstract!Release(t)
    BY <2>4 DEF PostIncrement, Goto, Value, Blocked
  <2>5. ASSUME NEW t \in Threads,
               \/ WaitLock(t) \/ WaitSleep(t) \/ WaitRelock(t) \/ WaitUnlock(t) \/ SpuriousWakeup(t)
               \/ CallPost(t) \/ PostLock(t) \/ PostUnlock(t)
        PROVE  UNCHANGED <<Value, Blocked>>
    BY <2>5 DEF WaitLock, WaitSleep, WaitRelock, WaitUnlock, SpuriousWakeup, CallPost, PostLock,
                PostUnlock, Goto, Value, Blocked
  <2>6. CASE UNCHANGED vars
    BY <2>6 DEF vars, Value, Blocked
  <2>7. QED BY <2>1, <2>2, <2>3, <2>4, <2>5, <2>6 DEF Next, Progress
<1>3. QED
  BY <1>1, <1>2, Invariance, PTL DEF Spec, Implements, Abstract!Spec
==============================================================================
