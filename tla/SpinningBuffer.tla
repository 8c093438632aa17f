---------------------------- MODULE SpinningBuffer ----------------------------
(***************************************************************************)
(* The producers and consumers of producer-consumer-temp.c and -temp2.c    *)
(* over two spinning semaphores (hw7/producer-consumer is the same program *)
(* with 2 and 2 threads and 4 slots).  ProducerConsumer says what happens  *)
(* to the items when the semaphores are right; here the question is        *)
(* whether everybody goes on, since a spinning semaphore may hold a permit *)
(* that nobody takes.  The buffer is the number of its items.              *)
(***************************************************************************)
EXTENDS Integers, FiniteSets

CONSTANTS Producers, Consumers,
          NoThread,     \* "the mutex is free"
          BufferSize    \* BUFFER_SIZE

Threads == Producers \cup Consumers

ASSUME BufferAssumption ==
  /\ IsFiniteSet(Producers) /\ IsFiniteSet(Consumers)
  /\ Producers \cap Consumers = {} /\ NoThread \notin Threads
  /\ BufferSize \in Nat \ {0}

VARIABLES
  at,                              \* where each thread is in its loop
  slotsPc, slotsMutex, slotsCount, \* sem_producer: the free slots
  itemsPc, itemsMutex, itemsCount, \* sem_consumer: the items
  mut_buf,                         \* the thread that holds mut_buf, or NoThread
  items                            \* how many items the buffer holds

slots == <<slotsPc, slotsMutex, slotsCount>>
filled == <<itemsPc, itemsMutex, itemsCount>>
vars == <<at, slots, filled, mut_buf, items>>

Slots == INSTANCE SpinningSemaphore
           WITH InitCount <- BufferSize, MaxCount <- BufferSize,
                pc <- slotsPc, mutex <- slotsMutex, count <- slotsCount
Items == INSTANCE SpinningSemaphore
           WITH InitCount <- 0, MaxCount <- BufferSize,
                pc <- itemsPc, mutex <- itemsMutex, count <- itemsCount

Init ==
  /\ at = [t \in Threads |-> "wait"]
  /\ Slots!Init /\ Items!Init
  /\ mut_buf = NoThread
  /\ items = 0

\* A call on a semaphore takes many steps; when it returns the thread goes on.
Returns(t, place, from, to) ==
  /\ at[t] = from
  /\ at' = IF place = "idle" THEN [at EXCEPT ![t] = to] ELSE at
  /\ UNCHANGED <<mut_buf, items>>

ProducerWaits(p) ==
  /\ Slots!CallWait(p) \/ Slots!Progress(p)
  /\ Returns(p, slotsPc'[p], "wait", "lock")
  /\ UNCHANGED filled

ConsumerWaits(c) ==
  /\ Items!CallWait(c) \/ Items!Progress(c)
  /\ Returns(c, itemsPc'[c], "wait", "lock")
  /\ UNCHANGED slots

LockBuffer(t) ==
  /\ at[t] = "lock" /\ mut_buf = NoThread
  /\ at' = [at EXCEPT ![t] = "access"]
  /\ mut_buf' = t
  /\ UNCHANGED <<slots, filled, items>>

\* push_buf or take_from_buf, then the unlock.
Access(t) ==
  /\ at[t] = "access"
  /\ at' = [at EXCEPT ![t] = "post"]
  /\ items' = IF t \in Producers THEN items + 1 ELSE items - 1
  /\ mut_buf' = NoThread
  /\ UNCHANGED <<slots, filled>>

\* Mutant: the producer posts the semaphore it waited for.
ProducerPostsSlots(p) ==
  /\ Slots!CallPost(p) \/ Slots!Progress(p)
  /\ Returns(p, slotsPc'[p], "post", "wait")
  /\ UNCHANGED filled

ProducerPosts(p) ==
  /\ Items!CallPost(p) \/ Items!Progress(p)
  /\ Returns(p, itemsPc'[p], "post", "wait")
  /\ UNCHANGED slots

ConsumerPosts(c) ==
  /\ Slots!CallPost(c) \/ Slots!Progress(c)
  /\ Returns(c, slotsPc'[c], "post", "wait")
  /\ UNCHANGED filled

Step(t) ==
  \/ t \in Producers /\ (ProducerWaits(t) \/ ProducerPosts(t))
  \/ t \in Consumers /\ (ConsumerWaits(t) \/ ConsumerPosts(t))
  \/ LockBuffer(t) \/ Access(t)

Next == \E t \in Threads : Step(t)

Spec == Init /\ [][Next]_vars

\* The steps that take a mutex of a semaphore or of the buffer.
Locks(t) == Step(t) /\ (Slots!Locks(t) \/ Items!Locks(t) \/ LockBuffer(t))

\* The operating system runs every thread that can run (the loops have no end), and a
\* thread that tries again and again to lock a mutex gets it in the end: the others
\* spin, so a mutex is free and taken without end, and weak fairness would let a thread
\* that wants to post starve.  Between two looks a waiter sleeps for a second.
FairSpec == Spec /\ \A t \in Threads : WF_vars(Step(t)) /\ SF_vars(Locks(t))

-----------------------------------------------------------------------------
(* Properties                                                              *)

\* The threads between the permit they took and the one they give.
Holding ==
  {t \in Threads :
     \/ at[t] = "wait" /\ \/ t \in Producers /\ slotsPc[t] \in {"block_return", "wait_relock", "wait_unlock"}
                          \/ t \in Consumers /\ itemsPc[t] \in {"block_return", "wait_relock", "wait_unlock"}
     \/ at[t] \in {"lock", "access"}
     \/ at[t] = "post" /\ \/ t \in Producers /\ itemsPc[t] # "post_unlock"
                          \/ t \in Consumers /\ slotsPc[t] # "post_unlock"}

\* Permits of each semaphore that a waiter may take (SpinningSemaphore's Value).
SlotsValue == slotsCount + Cardinality(Slots!Waiters)
ItemsValue == itemsCount + Cardinality(Items!Waiters)

\* No permit is lost or made between the two semaphores: the values of both,
\* and the threads on their way from one to the other, add up to the slots.
PermitsCounted == SlotsValue + ItemsValue + Cardinality(Holding) = BufferSize

\* Spinning gives no permit twice here either: producers and consumers may go on as
\* ProducerConsumer describes them over abstract semaphores.
SlotsImplement == Slots!Implements

\* Everybody spins, and as both counts are negative nobody will stop.
Stuck ==
  /\ Producers \subseteq Slots!Waiters /\ slotsCount < 0
  /\ Consumers \subseteq Items!Waiters /\ itemsCount < 0

\* Each semaphore may withhold as many permits as it has waiters but one, so
\* everybody may spin for ever when the slots are few (producer-consumer-temp2:
\* 3 and 3 threads, 2 slots); with more slots than that, never (-temp: 1 and 1
\* threads, 5 slots; hw7: 2 and 2 threads, 4 slots).
EnoughSlots == Cardinality(Producers) + Cardinality(Consumers) < BufferSize + 2
NeverStuck == EnoughSlots => ~Stuck

\* Items are moved for ever, then.
GoesOn == EnoughSlots => []<>(\E t \in Threads : at[t] = "access")
==============================================================================
