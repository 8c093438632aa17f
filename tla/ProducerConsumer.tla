--------------------------- MODULE ProducerConsumer ---------------------------
(***************************************************************************)
(* hw6/producer-consumer.c: producers and consumers around a ring buffer,  *)
(* two counting semaphores (free slots, items) and a mutex on the buffer.  *)
(* The semaphores are abstract ones: module Semaphore shows that           *)
(* hw6/semaphore.c implements them.                                        *)
(*                                                                         *)
(* An item is abstracted to its serial number in the order of the pushes,  *)
(* so that the buffer's contents say which push each slot holds.           *)
(***************************************************************************)
EXTENDS Integers, FiniteSets

CONSTANTS Producers, Consumers,
          NoThread,    \* "mut_buf is free"
          BufferSize,  \* BUFFER_SIZE
          MaxItems     \* producers start no further round once this many items are pushed

ASSUME ThreadsAssumption ==
  /\ IsFiniteSet(Producers) /\ IsFiniteSet(Consumers)
  /\ Producers \cap Consumers = {}
  /\ NoThread \notin Producers \cup Consumers
ASSUME SizeAssumption == BufferSize \in Nat \ {0} /\ MaxItems \in Nat

Threads == Producers \cup Consumers
Slots   == 0..(BufferSize - 1)

VARIABLES
  pc,             \* where each thread is in its loop
  sem_producer,   \* value of the semaphore that counts the free slots
  sem_consumer,   \* value of the semaphore that counts the items
  mut_buf,        \* the thread that holds mut_buf, or NoThread
  buffer, producer_index, consumer_index,
  pushed, taken   \* history: how many items were pushed and taken so far

sems  == <<sem_producer, sem_consumer>>
ring  == <<buffer, producer_index, consumer_index, pushed, taken>>
vars  == <<pc, sems, mut_buf, ring>>

Labels == {"sleep", "sem_wait", "lock", "access", "unlock", "sem_post"}

\* The threads inside sem_wait on each semaphore.
EmptySlots == INSTANCE CountingSemaphore
                WITH InitValue <- BufferSize, value <- sem_producer,
                     blocked <- {p \in Producers : pc[p] = "sem_wait"}
FullSlots  == INSTANCE CountingSemaphore
                WITH InitValue <- 0, value <- sem_consumer,
                     blocked <- {c \in Consumers : pc[c] = "sem_wait"}

Init ==
  /\ pc = [t \in Threads |-> "sleep"]
  /\ sem_producer = BufferSize
  /\ sem_consumer = 0
  /\ mut_buf = NoThread
  /\ buffer = [i \in Slots |-> -1]
  /\ producer_index = 0
  /\ consumer_index = 0
  /\ pushed = 0
  /\ taken = 0

Goto(t, from, to) ==
  /\ pc[t] = from
  /\ pc' = [pc EXCEPT ![t] = to]

-----------------------------------------------------------------------------
(* One round of a producer or a consumer                                   *)

\* The random sleep is over: call sem_wait.
StartRound(t) ==
  /\ t \in Producers => pushed < MaxItems
  /\ Goto(t, "sleep", "sem_wait")
  /\ UNCHANGED <<sems, mut_buf, ring>>

ProducerGranted(p) ==
  /\ Goto(p, "sem_wait", "lock")
  /\ EmptySlots!Grant(p)
  /\ UNCHANGED <<sem_consumer, mut_buf, ring>>

ConsumerGranted(c) ==
  /\ Goto(c, "sem_wait", "lock")
  /\ FullSlots!Grant(c)
  /\ UNCHANGED <<sem_producer, mut_buf, ring>>

LockBuffer(t) ==
  /\ Goto(t, "lock", "access")
  /\ mut_buf = NoThread
  /\ mut_buf' = t
  /\ UNCHANGED <<sems, ring>>

\* Mutant: the index wraps one slot early.
PushBufWrapsEarly(p) ==
  /\ Goto(p, "access", "unlock")
  /\ buffer' = [buffer EXCEPT ![producer_index] = pushed]
  /\ producer_index' = IF producer_index + 2 < BufferSize THEN producer_index + 1 ELSE 0
  /\ pushed' = pushed + 1
  /\ UNCHANGED <<sems, mut_buf, consumer_index, taken>>

PushBuf(p) ==
  /\ Goto(p, "access", "unlock")
  /\ buffer' = [buffer EXCEPT ![producer_index] = pushed]
  /\ producer_index' = (producer_index + 1) % BufferSize
  /\ pushed' = pushed + 1
  /\ UNCHANGED <<sems, mut_buf, consumer_index, taken>>

TakeFromBuf(c) ==
  /\ Goto(c, "access", "unlock")
  /\ consumer_index' = (consumer_index + 1) % BufferSize
  /\ taken' = taken + 1
  /\ UNCHANGED <<sems, mut_buf, buffer, producer_index, pushed>>

UnlockBuffer(t) ==
  /\ Goto(t, "unlock", "sem_post")
  /\ mut_buf = t
  /\ mut_buf' = NoThread
  /\ UNCHANGED <<sems, ring>>

\* Mutant: the producer returns the permit it took instead of announcing an item.
ProducerPostsWrongSemaphore(p) ==
  /\ Goto(p, "sem_post", "sleep")
  /\ EmptySlots!Release(p)
  /\ UNCHANGED <<sem_consumer, mut_buf, ring>>

ProducerPosts(p) ==
  /\ Goto(p, "sem_post", "sleep")
  /\ FullSlots!Release(p)
  /\ UNCHANGED <<sem_producer, mut_buf, ring>>

ConsumerPosts(c) ==
  /\ Goto(c, "sem_post", "sleep")
  /\ EmptySlots!Release(c)
  /\ UNCHANGED <<sem_consumer, mut_buf, ring>>

ProducerStep(p) ==
  StartRound(p) \/ ProducerGranted(p) \/ LockBuffer(p) \/ PushBuf(p) \/ UnlockBuffer(p) \/ ProducerPosts(p)
ConsumerStep(c) ==
  StartRound(c) \/ ConsumerGranted(c) \/ LockBuffer(c) \/ TakeFromBuf(c) \/ UnlockBuffer(c) \/ ConsumerPosts(c)

Next == (\E p \in Producers : ProducerStep(p)) \/ (\E c \in Consumers : ConsumerStep(c))

Spec == Init /\ [][Next]_vars

\* Each thread runs whenever it can; neither the mutex nor a semaphore is fair.
FairSpec ==
  /\ Spec
  /\ \A p \in Producers : WF_vars(ProducerStep(p))
  /\ \A c \in Consumers : WF_vars(ConsumerStep(c))

-----------------------------------------------------------------------------
(* Properties                                                              *)

\* Every variable has its type and the indexes stay inside the buffer.
TypeOK ==
  /\ pc \in [Threads -> Labels]
  /\ sem_producer \in 0..BufferSize
  /\ sem_consumer \in 0..BufferSize
  /\ mut_buf \in Threads \cup {NoThread}
  /\ buffer \in [Slots -> Int]
  /\ producer_index \in Slots
  /\ consumer_index \in Slots
  /\ pushed \in Nat
  /\ taken \in Nat

\* push_buf never overwrites an item that no consumer has taken yet.
NoOverwrite ==
  \A p \in Producers : pc[p] = "access" => buffer[producer_index] < taken

\* take_from_buf returns the oldest item not taken: none is lost, returned
\* twice or out of order, and no slot is read before it was written.
TakesOldest ==
  \A c \in Consumers : pc[c] = "access" => buffer[consumer_index] = taken

\* Every item pushed is taken in the end.
EveryItemTaken == \A k \in 0..(MaxItems - 1) : pushed > k ~> taken > k
==============================================================================
