------------------------- MODULE SpinningBufferProofs -------------------------
(***************************************************************************)
(* For any numbers of producers, consumers and slots: each of the two      *)
(* spinning semaphores implements the counting semaphore that semaphore.c  *)
(* implements, no permit is lost or made between them, and where there are *)
(* enough slots everybody cannot spin at once.                             *)
(***************************************************************************)
EXTENDS SpinningBuffer, FiniteSetTheorems, TLAPS

Waiting == {"idle", "wait_lock", "wait_dec", "wait_release", "wait_relock", "wait_unlock",
            "block_lock", "block_test", "block_return", "block_again"}
Posting == {"idle", "post_lock", "post_inc", "post_unlock"}

\* How the number of waiters moves when a thread joins or leaves them.
LEMMA WaitersMove ==
  ASSUME NEW W \in SUBSET Threads
  PROVE  /\ Cardinality(W) \in Nat
         /\ \A t \in Threads \ W : Cardinality(W \cup {t}) = Cardinality(W) + 1
         /\ \A t \in W : Cardinality(W) > 0 /\ Cardinality(W \ {t}) = Cardinality(W) - 1
<1>1. IsFiniteSet(W) /\ Cardinality(W) \in Nat
  BY BufferAssumption, FS_Union, FS_Subset, FS_CardinalityType DEF Threads
<1>2. ASSUME NEW t \in Threads \ W PROVE Cardinality(W \cup {t}) = Cardinality(W) + 1
  BY <1>1, FS_AddElement
<1>3. ASSUME NEW t \in W PROVE Cardinality(W) > 0 /\ Cardinality(W \ {t}) = Cardinality(W) - 1
  BY <1>1, FS_RemoveElement, FS_EmptySet
<1> QED BY <1>1, <1>2, <1>3

-----------------------------------------------------------------------------
(* sem_producer: what sem_wait and sem_post do to the permits.                     *)

\* The inductive invariant of a spinning semaphore.  The mutex is not in it: the count is
\* read or changed once in each section, so a step of the model is enough.
SlotsTypes ==
  /\ slotsPc \in [Threads -> Waiting \cup Posting]
  /\ slotsCount \in Int

LEMMA SlotsCounted == Slots!Value = SlotsValue /\ Slots!Value' = SlotsValue'
<1>1. ASSUME NEW S PROVE Slots!Cardinality(S) = Cardinality(S)
  BY DEF Slots!Cardinality, Cardinality
<1> QED BY <1>1 DEF Slots!Value, SlotsValue

LEMMA sem_producernitTypes == Slots!Init => SlotsTypes
BY BufferAssumption DEF Slots!Init, SlotsTypes, Waiting

LEMMA SlotsNextTypes == SlotsTypes /\ [Slots!Next]_slots => SlotsTypes'
<1> SUFFICES ASSUME SlotsTypes, [Slots!Next]_slots PROVE SlotsTypes' OBVIOUS
<1> USE DEF SlotsTypes
<1>1. ASSUME NEW t \in Threads, NEW from, NEW to \in Waiting \cup Posting, Slots!Goto(t, from, to)
      PROVE  slotsPc' \in [Threads -> Waiting \cup Posting]
  BY <1>1 DEF Slots!Goto
<1>2. ASSUME NEW t \in Threads, NEW from, NEW to \in Waiting \cup Posting,
             Slots!Lock(t, from, to) \/ Slots!Unlock(t, from, to)
      PROVE  SlotsTypes'
  BY <1>1, <1>2 DEF Slots!Lock, Slots!Unlock
<1>3. ASSUME NEW t \in Threads,
             \/ Slots!WaitLock(t) \/ Slots!WaitRelease(t) \/ Slots!WaitRelock(t) \/ Slots!WaitUnlock(t)
             \/ Slots!BlockLock(t) \/ Slots!BlockReturn(t) \/ Slots!BlockAgain(t)
             \/ Slots!PostLock(t) \/ Slots!PostUnlock(t)
      PROVE  SlotsTypes'
  BY <1>2, <1>3 DEF Slots!WaitLock, Slots!WaitRelease, Slots!WaitRelock, Slots!WaitUnlock, Slots!BlockLock,
     Slots!BlockReturn, Slots!BlockAgain, Slots!PostLock, Slots!PostUnlock, Waiting, Posting
<1>4. ASSUME NEW t \in Threads,
             \/ Slots!CallWait(t) \/ Slots!CallPost(t) \/ Slots!WaitDecrement(t)
             \/ Slots!BlockTest(t) \/ Slots!PostIncrement(t)
      PROVE  SlotsTypes'
  BY <1>1, <1>4 DEF Slots!CallWait, Slots!CallPost, Slots!WaitDecrement, Slots!BlockTest,
     Slots!PostIncrement, Waiting, Posting
<1>5. CASE UNCHANGED slots
  BY <1>5 DEF slots
<1> QED BY <1>3, <1>4, <1>5 DEF Slots!Next, Slots!Progress

LEMMA SlotsStep ==
  ASSUME SlotsTypes, [Slots!Next]_slots
  PROVE  [Slots!Abstract!Next]_<<Slots!Value, Slots!Blocked>>
<1> USE DEF SlotsTypes, SlotsValue, Slots!Abstract!Next, Slots!Abstract!Request, Slots!Abstract!Grant,
            Slots!Abstract!Release
<1>0. Slots!Value = SlotsValue /\ Slots!Value' = SlotsValue'
  BY SlotsCounted
<1>1. Slots!Waiters \in SUBSET Threads /\ Cardinality(Slots!Waiters) \in Nat
  BY WaitersMove DEF Slots!Waiters
<1>2. ASSUME NEW t \in Threads, Slots!CallWait(t) PROVE Slots!Abstract!Request(t)
  <2>1. /\ Slots!Waiters' = Slots!Waiters /\ t \notin Slots!Blocked
        /\ Slots!Blocked' = Slots!Blocked \cup {t}
    BY <1>2 DEF Slots!CallWait, Slots!Goto, Slots!Waiters, Slots!Blocked
  <2> QED BY <1>0, <1>2, <2>1 DEF Slots!CallWait
<1>3. ASSUME NEW t \in Threads, Slots!WaitDecrement(t)
      PROVE  Slots!Abstract!Grant(t) \/ UNCHANGED <<Slots!Value, Slots!Blocked>>
  <2> USE <1>3 DEF Slots!WaitDecrement, Slots!Goto
  <2>1. CASE slotsCount' < 0
    <3>1. /\ t \notin Slots!Waiters /\ Slots!Waiters' = Slots!Waiters \cup {t}
          /\ Slots!Blocked' = Slots!Blocked
      BY <2>1 DEF Slots!Waiters, Slots!Blocked
    <3>2. Cardinality(Slots!Waiters') = Cardinality(Slots!Waiters) + 1
      BY <1>1, <3>1, WaitersMove
    <3> QED BY <1>0, <1>1, <3>1, <3>2
  <2>2. CASE ~(slotsCount' < 0)
    <3>1. /\ Slots!Waiters' = Slots!Waiters /\ t \in Slots!Blocked
          /\ Slots!Blocked' = Slots!Blocked \ {t}
      BY <2>2 DEF Slots!Waiters, Slots!Blocked
    <3>2. SlotsValue > 0 /\ SlotsValue' = SlotsValue - 1
      BY <1>1, <2>2, <3>1
    <3> QED BY <1>0, <3>1, <3>2
  <2> QED BY <2>1, <2>2
<1>4. ASSUME NEW t \in Threads, Slots!BlockTest(t)
      PROVE  Slots!Abstract!Grant(t) \/ UNCHANGED <<Slots!Value, Slots!Blocked>>
  <2> USE <1>4 DEF Slots!BlockTest, Slots!Goto
  <2>1. CASE Slots!MayPass
    <3>1. /\ t \in Slots!Waiters /\ Slots!Waiters' = Slots!Waiters \ {t}
          /\ t \in Slots!Blocked /\ Slots!Blocked' = Slots!Blocked \ {t}
      BY <2>1 DEF Slots!Waiters, Slots!Blocked
    <3>2. /\ Cardinality(Slots!Waiters) > 0
          /\ Cardinality(Slots!Waiters') = Cardinality(Slots!Waiters) - 1
      BY <1>1, <3>1, WaitersMove
    <3>3. SlotsValue > 0 /\ SlotsValue' = SlotsValue - 1
      BY <1>1, <2>1, <3>2 DEF Slots!MayPass
    <3> QED BY <1>0, <3>1, <3>3
  <2>2. CASE ~Slots!MayPass
    <3>1. Slots!Waiters' = Slots!Waiters /\ Slots!Blocked' = Slots!Blocked
      BY <2>2 DEF Slots!Waiters, Slots!Blocked
    <3> QED BY <1>0, <3>1
  <2> QED BY <2>1, <2>2
<1>5. ASSUME NEW t \in Threads, Slots!PostIncrement(t) PROVE Slots!Abstract!Release(t)
  <2>1. Slots!Waiters' = Slots!Waiters /\ t \notin Slots!Blocked /\ Slots!Blocked' = Slots!Blocked
    BY <1>5 DEF Slots!PostIncrement, Slots!Goto, Slots!Waiters, Slots!Blocked
  <2> QED BY <1>0, <1>1, <1>5, <2>1 DEF Slots!PostIncrement
<1>6. ASSUME NEW t \in Threads,
             \/ Slots!WaitLock(t) \/ Slots!WaitRelease(t) \/ Slots!WaitRelock(t) \/ Slots!WaitUnlock(t)
             \/ Slots!BlockLock(t) \/ Slots!BlockReturn(t) \/ Slots!BlockAgain(t)
             \/ Slots!CallPost(t) \/ Slots!PostLock(t) \/ Slots!PostUnlock(t)
      PROVE  UNCHANGED <<Slots!Value, Slots!Blocked>>
  <2>1. /\ Slots!Waiters' = Slots!Waiters /\ Slots!Blocked' = Slots!Blocked
        /\ slotsCount' = slotsCount
    BY <1>6 DEF Slots!WaitLock, Slots!WaitRelease, Slots!WaitRelock, Slots!WaitUnlock, Slots!BlockLock,
       Slots!BlockReturn, Slots!BlockAgain, Slots!CallPost, Slots!PostLock, Slots!PostUnlock, Slots!Lock,
       Slots!Unlock, Slots!Goto, Slots!Waiters, Slots!Blocked
  <2> QED BY <1>0, <2>1
<1>7. CASE UNCHANGED slots
  <2>1. Slots!Waiters' = Slots!Waiters /\ Slots!Blocked' = Slots!Blocked /\ slotsCount' = slotsCount
    BY <1>7 DEF slots, Slots!Waiters, Slots!Blocked
  <2> QED BY <1>0, <2>1
<1> QED BY <1>2, <1>3, <1>4, <1>5, <1>6, <1>7 DEF Slots!Next, Slots!Progress

\* sem_wait and sem_post with block() implement a counting semaphore whose value is count plus
\* the number of waiters: a waiter that passes takes the permit it subtracted, though count stays.
THEOREM SlotsRefine == Slots!Spec => Slots!Implements
<1>1. Slots!Init => Slots!Abstract!Init
  <2> SUFFICES ASSUME Slots!Init PROVE Slots!Abstract!Init OBVIOUS
  <2>1. Slots!Waiters = {} /\ Slots!Blocked = {}
    BY DEF Slots!Init, Slots!Waiters, Slots!Blocked
  <2>2. SlotsValue = BufferSize
    BY <2>1, FS_EmptySet, BufferAssumption DEF Slots!Init, SlotsValue
  <2> QED BY <2>1, <2>2, SlotsCounted DEF Slots!Abstract!Init
<1> QED
  BY <1>1, sem_producernitTypes, SlotsNextTypes, SlotsStep, PTL
  DEF Slots!Spec, Slots!Implements, Slots!Abstract!Spec, Slots!vars, slots

-----------------------------------------------------------------------------
(* sem_consumer: what sem_wait and sem_post do to the permits.                     *)

\* The inductive invariant of a spinning semaphore.  The mutex is not in it: the count is
\* read or changed once in each section, so a step of the model is enough.
ItemsTypes ==
  /\ itemsPc \in [Threads -> Waiting \cup Posting]
  /\ itemsCount \in Int

LEMMA ItemsCounted == Items!Value = ItemsValue /\ Items!Value' = ItemsValue'
<1>1. ASSUME NEW S PROVE Items!Cardinality(S) = Cardinality(S)
  BY DEF Items!Cardinality, Cardinality
<1> QED BY <1>1 DEF Items!Value, ItemsValue

LEMMA sem_consumernitTypes == Items!Init => ItemsTypes
BY BufferAssumption DEF Items!Init, ItemsTypes, Waiting

LEMMA ItemsNextTypes == ItemsTypes /\ [Items!Next]_filled => ItemsTypes'
<1> SUFFICES ASSUME ItemsTypes, [Items!Next]_filled PROVE ItemsTypes' OBVIOUS
<1> USE DEF ItemsTypes
<1>1. ASSUME NEW t \in Threads, NEW from, NEW to \in Waiting \cup Posting, Items!Goto(t, from, to)
      PROVE  itemsPc' \in [Threads -> Waiting \cup Posting]
  BY <1>1 DEF Items!Goto
<1>2. ASSUME NEW t \in Threads, NEW from, NEW to \in Waiting \cup Posting,
             Items!Lock(t, from, to) \/ Items!Unlock(t, from, to)
      PROVE  ItemsTypes'
  BY <1>1, <1>2 DEF Items!Lock, Items!Unlock
<1>3. ASSUME NEW t \in Threads,
             \/ Items!WaitLock(t) \/ Items!WaitRelease(t) \/ Items!WaitRelock(t) \/ Items!WaitUnlock(t)
             \/ Items!BlockLock(t) \/ Items!BlockReturn(t) \/ Items!BlockAgain(t)
             \/ Items!PostLock(t) \/ Items!PostUnlock(t)
      PROVE  ItemsTypes'
  BY <1>2, <1>3 DEF Items!WaitLock, Items!WaitRelease, Items!WaitRelock, Items!WaitUnlock, Items!BlockLock,
     Items!BlockReturn, Items!BlockAgain, Items!PostLock, Items!PostUnlock, Waiting, Posting
<1>4. ASSUME NEW t \in Threads,
             \/ Items!CallWait(t) \/ Items!CallPost(t) \/ Items!WaitDecrement(t)
             \/ Items!BlockTest(t) \/ Items!PostIncrement(t)
      PROVE  ItemsTypes'
  BY <1>1, <1>4 DEF Items!CallWait, Items!CallPost, Items!WaitDecrement, Items!BlockTest,
     Items!PostIncrement, Waiting, Posting
<1>5. CASE UNCHANGED filled
  BY <1>5 DEF filled
<1> QED BY <1>3, <1>4, <1>5 DEF Items!Next, Items!Progress

LEMMA ItemsStep ==
  ASSUME ItemsTypes, [Items!Next]_filled
  PROVE  [Items!Abstract!Next]_<<Items!Value, Items!Blocked>>
<1> USE DEF ItemsTypes, ItemsValue, Items!Abstract!Next, Items!Abstract!Request, Items!Abstract!Grant,
            Items!Abstract!Release
<1>0. Items!Value = ItemsValue /\ Items!Value' = ItemsValue'
  BY ItemsCounted
<1>1. Items!Waiters \in SUBSET Threads /\ Cardinality(Items!Waiters) \in Nat
  BY WaitersMove DEF Items!Waiters
<1>2. ASSUME NEW t \in Threads, Items!CallWait(t) PROVE Items!Abstract!Request(t)
  <2>1. /\ Items!Waiters' = Items!Waiters /\ t \notin Items!Blocked
        /\ Items!Blocked' = Items!Blocked \cup {t}
    BY <1>2 DEF Items!CallWait, Items!Goto, Items!Waiters, Items!Blocked
  <2> QED BY <1>0, <1>2, <2>1 DEF Items!CallWait
<1>3. ASSUME NEW t \in Threads, Items!WaitDecrement(t)
      PROVE  Items!Abstract!Grant(t) \/ UNCHANGED <<Items!Value, Items!Blocked>>
  <2> USE <1>3 DEF Items!WaitDecrement, Items!Goto
  <2>1. CASE itemsCount' < 0
    <3>1. /\ t \notin Items!Waiters /\ Items!Waiters' = Items!Waiters \cup {t}
          /\ Items!Blocked' = Items!Blocked
      BY <2>1 DEF Items!Waiters, Items!Blocked
    <3>2. Cardinality(Items!Waiters') = Cardinality(Items!Waiters) + 1
      BY <1>1, <3>1, WaitersMove
    <3> QED BY <1>0, <1>1, <3>1, <3>2
  <2>2. CASE ~(itemsCount' < 0)
    <3>1. /\ Items!Waiters' = Items!Waiters /\ t \in Items!Blocked
          /\ Items!Blocked' = Items!Blocked \ {t}
      BY <2>2 DEF Items!Waiters, Items!Blocked
    <3>2. ItemsValue > 0 /\ ItemsValue' = ItemsValue - 1
      BY <1>1, <2>2, <3>1
    <3> QED BY <1>0, <3>1, <3>2
  <2> QED BY <2>1, <2>2
<1>4. ASSUME NEW t \in Threads, Items!BlockTest(t)
      PROVE  Items!Abstract!Grant(t) \/ UNCHANGED <<Items!Value, Items!Blocked>>
  <2> USE <1>4 DEF Items!BlockTest, Items!Goto
  <2>1. CASE Items!MayPass
    <3>1. /\ t \in Items!Waiters /\ Items!Waiters' = Items!Waiters \ {t}
          /\ t \in Items!Blocked /\ Items!Blocked' = Items!Blocked \ {t}
      BY <2>1 DEF Items!Waiters, Items!Blocked
    <3>2. /\ Cardinality(Items!Waiters) > 0
          /\ Cardinality(Items!Waiters') = Cardinality(Items!Waiters) - 1
      BY <1>1, <3>1, WaitersMove
    <3>3. ItemsValue > 0 /\ ItemsValue' = ItemsValue - 1
      BY <1>1, <2>1, <3>2 DEF Items!MayPass
    <3> QED BY <1>0, <3>1, <3>3
  <2>2. CASE ~Items!MayPass
    <3>1. Items!Waiters' = Items!Waiters /\ Items!Blocked' = Items!Blocked
      BY <2>2 DEF Items!Waiters, Items!Blocked
    <3> QED BY <1>0, <3>1
  <2> QED BY <2>1, <2>2
<1>5. ASSUME NEW t \in Threads, Items!PostIncrement(t) PROVE Items!Abstract!Release(t)
  <2>1. Items!Waiters' = Items!Waiters /\ t \notin Items!Blocked /\ Items!Blocked' = Items!Blocked
    BY <1>5 DEF Items!PostIncrement, Items!Goto, Items!Waiters, Items!Blocked
  <2> QED BY <1>0, <1>1, <1>5, <2>1 DEF Items!PostIncrement
<1>6. ASSUME NEW t \in Threads,
             \/ Items!WaitLock(t) \/ Items!WaitRelease(t) \/ Items!WaitRelock(t) \/ Items!WaitUnlock(t)
             \/ Items!BlockLock(t) \/ Items!BlockReturn(t) \/ Items!BlockAgain(t)
             \/ Items!CallPost(t) \/ Items!PostLock(t) \/ Items!PostUnlock(t)
      PROVE  UNCHANGED <<Items!Value, Items!Blocked>>
  <2>1. /\ Items!Waiters' = Items!Waiters /\ Items!Blocked' = Items!Blocked
        /\ itemsCount' = itemsCount
    BY <1>6 DEF Items!WaitLock, Items!WaitRelease, Items!WaitRelock, Items!WaitUnlock, Items!BlockLock,
       Items!BlockReturn, Items!BlockAgain, Items!CallPost, Items!PostLock, Items!PostUnlock, Items!Lock,
       Items!Unlock, Items!Goto, Items!Waiters, Items!Blocked
  <2> QED BY <1>0, <2>1
<1>7. CASE UNCHANGED filled
  <2>1. Items!Waiters' = Items!Waiters /\ Items!Blocked' = Items!Blocked /\ itemsCount' = itemsCount
    BY <1>7 DEF filled, Items!Waiters, Items!Blocked
  <2> QED BY <1>0, <2>1
<1> QED BY <1>2, <1>3, <1>4, <1>5, <1>6, <1>7 DEF Items!Next, Items!Progress

\* The same of the semaphore that begins with no permit.
THEOREM ItemsRefine == Items!Spec => Items!Implements
<1>1. Items!Init => Items!Abstract!Init
  <2> SUFFICES ASSUME Items!Init PROVE Items!Abstract!Init OBVIOUS
  <2>1. Items!Waiters = {} /\ Items!Blocked = {}
    BY DEF Items!Init, Items!Waiters, Items!Blocked
  <2>2. ItemsValue = 0
    BY <2>1, FS_EmptySet, BufferAssumption DEF Items!Init, ItemsValue
  <2> QED BY <2>1, <2>2, ItemsCounted DEF Items!Abstract!Init
<1> QED
  BY <1>1, sem_consumernitTypes, ItemsNextTypes, ItemsStep, PTL
  DEF Items!Spec, Items!Implements, Items!Abstract!Spec, Items!vars, filled

-----------------------------------------------------------------------------
(* The program on the two semaphores.                                      *)

\* Each thread is inside of one semaphore at most, in the call its place says.
Placed ==
  /\ \A p \in Producers : /\ slotsPc[p] \in Waiting /\ itemsPc[p] \in Posting
                          /\ at[p] # "wait" => slotsPc[p] = "idle"
                          /\ at[p] # "post" => itemsPc[p] = "idle"
  /\ \A c \in Consumers : /\ itemsPc[c] \in Waiting /\ slotsPc[c] \in Posting
                          /\ at[c] # "wait" => itemsPc[c] = "idle"
                          /\ at[c] # "post" => slotsPc[c] = "idle"

Typed ==
  /\ at \in [Threads -> {"wait", "lock", "access", "post"}]
  /\ slotsPc \in [Threads -> Waiting \cup Posting] /\ slotsCount \in Int
  /\ itemsPc \in [Threads -> Waiting \cup Posting] /\ itemsCount \in Int

\* The inductive invariant.
IInv == Typed /\ Placed /\ PermitsCounted

-----------------------------------------------------------------------------
(* How a thread moves between the waiters and the holders of a permit.     *)

\* Nothing moves; the thread subtracts a permit and waits for it, or has it;
\* a waiter gets its permit.
Still(W, W1, H, H1, count, count1) == W1 = W /\ H1 = H /\ count1 = count
Joins(t, W, W1, H, H1, count, count1) ==
  t \notin W /\ W1 = W \cup {t} /\ H1 = H /\ count1 = count - 1
Takes(t, W, W1, H, H1, count, count1) ==
  W1 = W /\ t \notin H /\ H1 = H \cup {t} /\ count1 = count - 1
Passes(t, W, W1, H, H1, count, count1) ==
  /\ t \in W /\ W1 = W \ {t} /\ count1 = count
  /\ t \notin H /\ H1 = H \cup {t}
Gives(t, W, W1, H, H1, count, count1) ==
  W1 = W /\ t \in H /\ H1 = H \ {t} /\ count1 = count + 1

Moves(t, W, W1, H, H1, count, count1) ==
  \/ Still(W, W1, H, H1, count, count1) \/ Joins(t, W, W1, H, H1, count, count1) \/ Takes(t, W, W1, H, H1, count, count1)
  \/ Passes(t, W, W1, H, H1, count, count1) \/ Gives(t, W, W1, H, H1, count, count1)

\* Each of these keeps the sum of the value and of the permits held.
LEMMA MovesBalance ==
  ASSUME NEW t, NEW W, NEW W1, NEW H, NEW H1, NEW count, NEW count1,
         t \in Threads, W \in SUBSET Threads, H \in SUBSET Threads, count \in Int,
         Moves(t, W, W1, H, H1, count, count1)
  PROVE  /\ count1 \in Int /\ Cardinality(W) \in Nat /\ Cardinality(W1) \in Nat
         /\ Cardinality(H) \in Nat /\ Cardinality(H1) \in Nat
         /\ count1 + Cardinality(W1) + Cardinality(H1) = count + Cardinality(W) + Cardinality(H)
<1>w. /\ Cardinality(W) \in Nat
      /\ t \notin W => Cardinality(W \cup {t}) = Cardinality(W) + 1
      /\ t \in W => Cardinality(W \ {t}) = Cardinality(W) - 1
  BY WaitersMove
<1>h. /\ Cardinality(H) \in Nat
      /\ t \notin H => Cardinality(H \cup {t}) = Cardinality(H) + 1
      /\ t \in H => Cardinality(H \ {t}) = Cardinality(H) - 1
  BY WaitersMove
<1>n. Cardinality(W1) \in Nat /\ Cardinality(H1) \in Nat
  <2>1. W1 \in SUBSET Threads /\ H1 \in SUBSET Threads
    BY DEF Moves, Still, Joins, Takes, Passes, Gives
  <2> QED BY WaitersMove, <2>1
<1>4. CASE Still(W, W1, H, H1, count, count1)
  BY <1>w, <1>h, <1>4 DEF Still
<1>5. CASE Joins(t, W, W1, H, H1, count, count1)
  BY <1>w, <1>h, <1>n, <1>5 DEF Joins
<1>6. CASE Takes(t, W, W1, H, H1, count, count1)
  BY <1>w, <1>h, <1>n, <1>6 DEF Takes
<1>7. CASE Passes(t, W, W1, H, H1, count, count1)
  BY <1>w, <1>h, <1>n, <1>7 DEF Passes
<1>8. CASE Gives(t, W, W1, H, H1, count, count1)
  BY <1>w, <1>h, <1>n, <1>8 DEF Gives
<1> QED BY <1>4, <1>5, <1>6, <1>7, <1>8 DEF Moves

MovesSlots(t) == Moves(t, Slots!Waiters, Slots!Waiters', Holding, Holding', slotsCount, slotsCount')
MovesItems(t) == Moves(t, Items!Waiters, Items!Waiters', Holding, Holding', itemsCount, itemsCount')

-----------------------------------------------------------------------------
(* The four calls.                                                         *)

LEMMA ProducerWaitsMoves ==
  ASSUME Typed, Placed, NEW p \in Producers, ProducerWaits(p)
  PROVE  Typed' /\ Placed' /\ MovesSlots(p) /\ UNCHANGED filled
<1>0. p \in Threads /\ p \notin Consumers
  BY BufferAssumption DEF Threads
<1>1. /\ slotsPc[p] \in Waiting /\ itemsPc[p] = "idle" /\ at[p] = "wait"
      /\ slotsPc \in [Threads -> Waiting \cup Posting] /\ slotsCount \in Int
      /\ at \in [Threads -> {"wait", "lock", "access", "post"}]
  BY DEF Typed, Placed, ProducerWaits, Returns
<1>2. /\ \E l \in Waiting : slotsPc' = [slotsPc EXCEPT ![p] = l]
      /\ slotsCount' \in Int
  BY <1>1 DEF ProducerWaits, Waiting, Slots!CallWait, Slots!Progress, Slots!WaitLock,
     Slots!WaitDecrement, Slots!WaitRelease, Slots!WaitRelock, Slots!WaitUnlock, Slots!BlockLock,
     Slots!BlockTest, Slots!BlockReturn, Slots!BlockAgain, Slots!PostLock, Slots!PostIncrement,
     Slots!PostUnlock, Slots!Lock, Slots!Unlock, Slots!Goto
<1>3. PICK l \in Waiting : slotsPc' = [slotsPc EXCEPT ![p] = l]
  BY <1>2
<1>4. slotsPc' \in [Threads -> Waiting \cup Posting]
  BY <1>1, <1>3 DEF Waiting
<1>5. UNCHANGED filled
  BY DEF ProducerWaits
<1>6. /\ at' \in [Threads -> {"wait", "lock", "access", "post"}]
      /\ at'[p] = IF slotsPc'[p] = "idle" THEN "lock" ELSE "wait"
      /\ \A q \in Threads \ {p} : at'[q] = at[q]
  BY <1>0, <1>1 DEF ProducerWaits, Returns
<1>7. Typed'
  BY <1>2, <1>4, <1>5, <1>6 DEF Typed, filled
<1>8. slotsPc'[p] \in Waiting /\ \A q \in Threads \ {p} : slotsPc'[q] = slotsPc[q]
  BY <1>0, <1>1, <1>3
<1>9. Placed'
  BY <1>0, <1>1, <1>5, <1>6, <1>8 DEF Placed, Threads, filled
<1>10. MovesSlots(p)
  <2>1. CASE Slots!WaitDecrement(p) /\ slotsCount - 1 < 0
    <3>1. Joins(p, Slots!Waiters, Slots!Waiters', Holding, Holding', slotsCount, slotsCount')
      BY <1>0, <1>1, <1>5, <1>6, <1>8, <2>1
      DEF Joins, Slots!WaitDecrement, Slots!Goto, Slots!Waiters, Holding, filled
    <3> QED BY <3>1 DEF MovesSlots, Moves
  <2>2. CASE Slots!WaitDecrement(p) /\ ~(slotsCount - 1 < 0)
    <3>1. Takes(p, Slots!Waiters, Slots!Waiters', Holding, Holding', slotsCount, slotsCount')
      BY <1>0, <1>1, <1>5, <1>6, <1>8, <2>2
      DEF Takes, Slots!WaitDecrement, Slots!Goto, Slots!Waiters, Holding, filled
    <3> QED BY <3>1 DEF MovesSlots, Moves
  <2>3. CASE Slots!BlockTest(p) /\ Slots!MayPass
    <3>1. Passes(p, Slots!Waiters, Slots!Waiters', Holding, Holding', slotsCount, slotsCount')
      BY <1>0, <1>1, <1>5, <1>6, <1>8, <2>3
      DEF Passes, Slots!BlockTest, Slots!Goto, Slots!Waiters, Holding, filled
    <3> QED BY <3>1 DEF MovesSlots, Moves
  <2>4. CASE Slots!BlockTest(p) /\ ~Slots!MayPass
    <3>1. Still(Slots!Waiters, Slots!Waiters', Holding, Holding', slotsCount, slotsCount')
      BY <1>0, <1>1, <1>5, <1>6, <1>8, <2>4
      DEF Still, Slots!BlockTest, Slots!Goto, Slots!Waiters, Holding, filled
    <3> QED BY <3>1 DEF MovesSlots, Moves
  <2>5. CASE \/ Slots!CallWait(p) \/ Slots!WaitLock(p) \/ Slots!WaitRelease(p) \/ Slots!WaitRelock(p)
             \/ Slots!WaitUnlock(p) \/ Slots!BlockLock(p) \/ Slots!BlockReturn(p) \/ Slots!BlockAgain(p)
    <3>1. Still(Slots!Waiters, Slots!Waiters', Holding, Holding', slotsCount, slotsCount')
      BY <1>0, <1>1, <1>5, <1>6, <1>8, <2>5
      DEF Still, Slots!CallWait, Slots!WaitLock, Slots!WaitRelease,
          Slots!WaitRelock, Slots!WaitUnlock, Slots!BlockLock, Slots!BlockReturn, Slots!BlockAgain,
          Slots!Lock, Slots!Unlock, Slots!Goto, Slots!Waiters, Holding, filled
    <3> QED BY <3>1 DEF MovesSlots, Moves
  <2> QED
    BY <1>1, <2>1, <2>2, <2>3, <2>4, <2>5
    DEF ProducerWaits, Waiting, Slots!Progress, Slots!PostLock, Slots!PostIncrement,
        Slots!PostUnlock, Slots!Lock, Slots!Unlock, Slots!Goto
<1> QED BY <1>5, <1>7, <1>9, <1>10

LEMMA ConsumerWaitsMoves ==
  ASSUME Typed, Placed, NEW c \in Consumers, ConsumerWaits(c)
  PROVE  Typed' /\ Placed' /\ MovesItems(c) /\ UNCHANGED slots
<1>0. c \in Threads /\ c \notin Producers
  BY BufferAssumption DEF Threads
<1>1. /\ itemsPc[c] \in Waiting /\ slotsPc[c] = "idle" /\ at[c] = "wait"
      /\ itemsPc \in [Threads -> Waiting \cup Posting] /\ itemsCount \in Int
      /\ at \in [Threads -> {"wait", "lock", "access", "post"}]
  BY DEF Typed, Placed, ConsumerWaits, Returns
<1>2. /\ \E l \in Waiting : itemsPc' = [itemsPc EXCEPT ![c] = l]
      /\ itemsCount' \in Int
  BY <1>1 DEF ConsumerWaits, Waiting, Items!CallWait, Items!Progress, Items!WaitLock,
     Items!WaitDecrement, Items!WaitRelease, Items!WaitRelock, Items!WaitUnlock, Items!BlockLock,
     Items!BlockTest, Items!BlockReturn, Items!BlockAgain, Items!PostLock, Items!PostIncrement,
     Items!PostUnlock, Items!Lock, Items!Unlock, Items!Goto
<1>3. PICK l \in Waiting : itemsPc' = [itemsPc EXCEPT ![c] = l]
  BY <1>2
<1>4. itemsPc' \in [Threads -> Waiting \cup Posting]
  BY <1>1, <1>3 DEF Waiting
<1>5. UNCHANGED slots
  BY DEF ConsumerWaits
<1>6. /\ at' \in [Threads -> {"wait", "lock", "access", "post"}]
      /\ at'[c] = IF itemsPc'[c] = "idle" THEN "lock" ELSE "wait"
      /\ \A q \in Threads \ {c} : at'[q] = at[q]
  BY <1>0, <1>1 DEF ConsumerWaits, Returns
<1>7. Typed'
  BY <1>2, <1>4, <1>5, <1>6 DEF Typed, slots
<1>8. itemsPc'[c] \in Waiting /\ \A q \in Threads \ {c} : itemsPc'[q] = itemsPc[q]
  BY <1>0, <1>1, <1>3
<1>9. Placed'
  BY <1>0, <1>1, <1>5, <1>6, <1>8 DEF Placed, Threads, slots
<1>10. MovesItems(c)
  <2>1. CASE Items!WaitDecrement(c) /\ itemsCount - 1 < 0
    <3>1. Joins(c, Items!Waiters, Items!Waiters', Holding, Holding', itemsCount, itemsCount')
      BY <1>0, <1>1, <1>5, <1>6, <1>8, <2>1
      DEF Joins, Items!WaitDecrement, Items!Goto, Items!Waiters, Holding, slots
    <3> QED BY <3>1 DEF MovesItems, Moves
  <2>2. CASE Items!WaitDecrement(c) /\ ~(itemsCount - 1 < 0)
    <3>1. Takes(c, Items!Waiters, Items!Waiters', Holding, Holding', itemsCount, itemsCount')
      BY <1>0, <1>1, <1>5, <1>6, <1>8, <2>2
      DEF Takes, Items!WaitDecrement, Items!Goto, Items!Waiters, Holding, slots
    <3> QED BY <3>1 DEF MovesItems, Moves
  <2>3. CASE Items!BlockTest(c) /\ Items!MayPass
    <3>1. Passes(c, Items!Waiters, Items!Waiters', Holding, Holding', itemsCount, itemsCount')
      BY <1>0, <1>1, <1>5, <1>6, <1>8, <2>3
      DEF Passes, Items!BlockTest, Items!Goto, Items!Waiters, Holding, slots
    <3> QED BY <3>1 DEF MovesItems, Moves
  <2>4. CASE Items!BlockTest(c) /\ ~Items!MayPass
    <3>1. Still(Items!Waiters, Items!Waiters', Holding, Holding', itemsCount, itemsCount')
      BY <1>0, <1>1, <1>5, <1>6, <1>8, <2>4
      DEF Still, Items!BlockTest, Items!Goto, Items!Waiters, Holding, slots
    <3> QED BY <3>1 DEF MovesItems, Moves
  <2>5. CASE \/ Items!CallWait(c) \/ Items!WaitLock(c) \/ Items!WaitRelease(c) \/ Items!WaitRelock(c)
             \/ Items!WaitUnlock(c) \/ Items!BlockLock(c) \/ Items!BlockReturn(c) \/ Items!BlockAgain(c)
    <3>1. Still(Items!Waiters, Items!Waiters', Holding, Holding', itemsCount, itemsCount')
      BY <1>0, <1>1, <1>5, <1>6, <1>8, <2>5
      DEF Still, Items!CallWait, Items!WaitLock, Items!WaitRelease,
          Items!WaitRelock, Items!WaitUnlock, Items!BlockLock, Items!BlockReturn, Items!BlockAgain,
          Items!Lock, Items!Unlock, Items!Goto, Items!Waiters, Holding, slots
    <3> QED BY <3>1 DEF MovesItems, Moves
  <2> QED
    BY <1>1, <2>1, <2>2, <2>3, <2>4, <2>5
    DEF ConsumerWaits, Waiting, Items!Progress, Items!PostLock, Items!PostIncrement,
        Items!PostUnlock, Items!Lock, Items!Unlock, Items!Goto
<1> QED BY <1>5, <1>7, <1>9, <1>10

LEMMA ProducerPostsMoves ==
  ASSUME Typed, Placed, NEW p \in Producers, ProducerPosts(p)
  PROVE  Typed' /\ Placed' /\ MovesItems(p) /\ UNCHANGED slots
<1>0. p \in Threads /\ p \notin Consumers
  BY BufferAssumption DEF Threads
<1>1. /\ itemsPc[p] \in Posting /\ slotsPc[p] = "idle" /\ at[p] = "post"
      /\ itemsPc \in [Threads -> Waiting \cup Posting] /\ itemsCount \in Int
      /\ at \in [Threads -> {"wait", "lock", "access", "post"}]
  BY DEF Typed, Placed, ProducerPosts, Returns
<1>2. /\ \E l \in Posting : itemsPc' = [itemsPc EXCEPT ![p] = l]
      /\ itemsCount' \in Int
  BY <1>1 DEF ProducerPosts, Posting, Items!CallPost, Items!Progress, Items!WaitLock,
     Items!WaitDecrement, Items!WaitRelease, Items!WaitRelock, Items!WaitUnlock, Items!BlockLock,
     Items!BlockTest, Items!BlockReturn, Items!BlockAgain, Items!PostLock, Items!PostIncrement,
     Items!PostUnlock, Items!Lock, Items!Unlock, Items!Goto
<1>3. PICK l \in Posting : itemsPc' = [itemsPc EXCEPT ![p] = l]
  BY <1>2
<1>4. itemsPc' \in [Threads -> Waiting \cup Posting]
  BY <1>1, <1>3
<1>5. UNCHANGED slots
  BY DEF ProducerPosts
<1>6. /\ at' \in [Threads -> {"wait", "lock", "access", "post"}]
      /\ at'[p] = IF itemsPc'[p] = "idle" THEN "wait" ELSE "post"
      /\ \A q \in Threads \ {p} : at'[q] = at[q]
  BY <1>0, <1>1 DEF ProducerPosts, Returns
<1>7. Typed'
  BY <1>2, <1>4, <1>5, <1>6 DEF Typed, slots
<1>8. itemsPc'[p] \in Posting /\ \A q \in Threads \ {p} : itemsPc'[q] = itemsPc[q]
  BY <1>0, <1>1, <1>3
<1>9. Placed'
  BY <1>0, <1>1, <1>5, <1>6, <1>8 DEF Placed, Threads, slots
<1>10. MovesItems(p)
  <2>1. CASE Items!PostIncrement(p)
    <3>1. Gives(p, Items!Waiters, Items!Waiters', Holding, Holding', itemsCount, itemsCount')
      BY <1>0, <1>1, <1>5, <1>6, <1>8, <2>1
      DEF Gives, Items!PostIncrement, Items!Goto, Items!Waiters, Holding, slots
    <3> QED BY <3>1 DEF MovesItems, Moves
  <2>2. CASE Items!CallPost(p) \/ Items!PostLock(p) \/ Items!PostUnlock(p)
    <3>1. Still(Items!Waiters, Items!Waiters', Holding, Holding', itemsCount, itemsCount')
      BY <1>0, <1>1, <1>5, <1>6, <1>8, <2>2
      DEF Still, Items!CallPost, Items!PostLock, Items!PostUnlock, Items!Lock, Items!Unlock,
          Items!Goto, Items!Waiters, Holding, slots
    <3> QED BY <3>1 DEF MovesItems, Moves
  <2> QED
    BY <1>1, <2>1, <2>2
    DEF ProducerPosts, Posting, Items!Progress, Items!WaitLock, Items!WaitDecrement,
        Items!WaitRelease, Items!WaitRelock, Items!WaitUnlock, Items!BlockLock, Items!BlockTest,
        Items!BlockReturn, Items!BlockAgain, Items!Lock, Items!Unlock, Items!Goto
<1> QED BY <1>5, <1>7, <1>9, <1>10

LEMMA ConsumerPostsMoves ==
  ASSUME Typed, Placed, NEW c \in Consumers, ConsumerPosts(c)
  PROVE  Typed' /\ Placed' /\ MovesSlots(c) /\ UNCHANGED filled
<1>0. c \in Threads /\ c \notin Producers
  BY BufferAssumption DEF Threads
<1>1. /\ slotsPc[c] \in Posting /\ itemsPc[c] = "idle" /\ at[c] = "post"
      /\ slotsPc \in [Threads -> Waiting \cup Posting] /\ slotsCount \in Int
      /\ at \in [Threads -> {"wait", "lock", "access", "post"}]
  BY DEF Typed, Placed, ConsumerPosts, Returns
<1>2. /\ \E l \in Posting : slotsPc' = [slotsPc EXCEPT ![c] = l]
      /\ slotsCount' \in Int
  BY <1>1 DEF ConsumerPosts, Posting, Slots!CallPost, Slots!Progress, Slots!WaitLock,
     Slots!WaitDecrement, Slots!WaitRelease, Slots!WaitRelock, Slots!WaitUnlock, Slots!BlockLock,
     Slots!BlockTest, Slots!BlockReturn, Slots!BlockAgain, Slots!PostLock, Slots!PostIncrement,
     Slots!PostUnlock, Slots!Lock, Slots!Unlock, Slots!Goto
<1>3. PICK l \in Posting : slotsPc' = [slotsPc EXCEPT ![c] = l]
  BY <1>2
<1>4. slotsPc' \in [Threads -> Waiting \cup Posting]
  BY <1>1, <1>3
<1>5. UNCHANGED filled
  BY DEF ConsumerPosts
<1>6. /\ at' \in [Threads -> {"wait", "lock", "access", "post"}]
      /\ at'[c] = IF slotsPc'[c] = "idle" THEN "wait" ELSE "post"
      /\ \A q \in Threads \ {c} : at'[q] = at[q]
  BY <1>0, <1>1 DEF ConsumerPosts, Returns
<1>7. Typed'
  BY <1>2, <1>4, <1>5, <1>6 DEF Typed, filled
<1>8. slotsPc'[c] \in Posting /\ \A q \in Threads \ {c} : slotsPc'[q] = slotsPc[q]
  BY <1>0, <1>1, <1>3
<1>9. Placed'
  BY <1>0, <1>1, <1>5, <1>6, <1>8 DEF Placed, Threads, filled
<1>10. MovesSlots(c)
  <2>1. CASE Slots!PostIncrement(c)
    <3>1. Gives(c, Slots!Waiters, Slots!Waiters', Holding, Holding', slotsCount, slotsCount')
      BY <1>0, <1>1, <1>5, <1>6, <1>8, <2>1
      DEF Gives, Slots!PostIncrement, Slots!Goto, Slots!Waiters, Holding, filled
    <3> QED BY <3>1 DEF MovesSlots, Moves
  <2>2. CASE Slots!CallPost(c) \/ Slots!PostLock(c) \/ Slots!PostUnlock(c)
    <3>1. Still(Slots!Waiters, Slots!Waiters', Holding, Holding', slotsCount, slotsCount')
      BY <1>0, <1>1, <1>5, <1>6, <1>8, <2>2
      DEF Still, Slots!CallPost, Slots!PostLock, Slots!PostUnlock, Slots!Lock, Slots!Unlock,
          Slots!Goto, Slots!Waiters, Holding, filled
    <3> QED BY <3>1 DEF MovesSlots, Moves
  <2> QED
    BY <1>1, <2>1, <2>2
    DEF ConsumerPosts, Posting, Slots!Progress, Slots!WaitLock, Slots!WaitDecrement,
        Slots!WaitRelease, Slots!WaitRelock, Slots!WaitUnlock, Slots!BlockLock, Slots!BlockTest,
        Slots!BlockReturn, Slots!BlockAgain, Slots!Lock, Slots!Unlock, Slots!Goto
<1> QED BY <1>5, <1>7, <1>9, <1>10

-----------------------------------------------------------------------------
(* The invariant.                                                          *)

LEMMA MovesKeepPermits ==
  ASSUME Typed, PermitsCounted, NEW t \in Threads,
         (MovesSlots(t) /\ UNCHANGED filled) \/ (MovesItems(t) /\ UNCHANGED slots)
  PROVE  PermitsCounted'
<1>1. Slots!Waiters \in SUBSET Threads /\ Items!Waiters \in SUBSET Threads /\ Holding \in SUBSET Threads
  BY DEF Slots!Waiters, Items!Waiters, Holding
<1>2. slotsCount \in Int /\ itemsCount \in Int
  BY DEF Typed
<1>3. ASSUME NEW S \in SUBSET Threads PROVE Cardinality(S) \in Nat
  BY WaitersMove
<1>4. CASE MovesSlots(t) /\ UNCHANGED filled
  <2>0. Moves(t, Slots!Waiters, Slots!Waiters', Holding, Holding', slotsCount, slotsCount')
    BY <1>4 DEF MovesSlots
  <2>1. /\ slotsCount' \in Int /\ Cardinality(Slots!Waiters') \in Nat /\ Cardinality(Holding') \in Nat
        /\ Cardinality(Slots!Waiters) \in Nat /\ Cardinality(Holding) \in Nat
        /\ slotsCount' + Cardinality(Slots!Waiters') + Cardinality(Holding')
             = slotsCount + Cardinality(Slots!Waiters) + Cardinality(Holding)
    BY <1>1, <1>2, <2>0, MovesBalance
  <2>2. ItemsValue' = ItemsValue
    BY <1>4 DEF filled, ItemsValue, Items!Waiters
  <2>3. ItemsValue \in Int
    BY <1>1, <1>2, <1>3 DEF ItemsValue
  <2> QED BY <1>2, <2>1, <2>2, <2>3 DEF PermitsCounted, SlotsValue
<1>5. CASE MovesItems(t) /\ UNCHANGED slots
  <2>0. Moves(t, Items!Waiters, Items!Waiters', Holding, Holding', itemsCount, itemsCount')
    BY <1>5 DEF MovesItems
  <2>1. /\ itemsCount' \in Int /\ Cardinality(Items!Waiters') \in Nat /\ Cardinality(Holding') \in Nat
        /\ Cardinality(Items!Waiters) \in Nat /\ Cardinality(Holding) \in Nat
        /\ itemsCount' + Cardinality(Items!Waiters') + Cardinality(Holding')
             = itemsCount + Cardinality(Items!Waiters) + Cardinality(Holding)
    BY <1>1, <1>2, <2>0, MovesBalance
  <2>2. SlotsValue' = SlotsValue
    BY <1>5 DEF slots, SlotsValue, Slots!Waiters
  <2>3. SlotsValue \in Int
    BY <1>1, <1>2, <1>3 DEF SlotsValue
  <2> QED BY <1>2, <2>1, <2>2, <2>3 DEF PermitsCounted, ItemsValue
<1> QED BY <1>4, <1>5

LEMMA InitInv == Init => IInv
<1> SUFFICES ASSUME Init PROVE IInv OBVIOUS
<1> USE DEF Init, Slots!Init, Items!Init
<1>1. Typed /\ Placed
  BY BufferAssumption DEF Typed, Placed, Waiting, Posting, Threads
<1>2. Slots!Waiters = {} /\ Items!Waiters = {} /\ Holding = {}
  BY DEF Slots!Waiters, Items!Waiters, Holding, Threads
<1>3. PermitsCounted
  BY <1>2, FS_EmptySet, BufferAssumption DEF PermitsCounted, SlotsValue, ItemsValue
<1> QED BY <1>1, <1>3 DEF IInv

\* The steps in the buffer touch neither semaphore.
LEMMA BufferStep ==
  ASSUME IInv, NEW t \in Threads, LockBuffer(t) \/ Access(t)
  PROVE  IInv'
<1>1. UNCHANGED <<slots, filled>> /\ at[t] \in {"lock", "access"}
  BY DEF LockBuffer, Access
<1>2. Typed'
  BY <1>1 DEF IInv, Typed, slots, filled, LockBuffer, Access
<1>3. /\ at'[t] \in {"access", "post"} /\ \A q \in Threads \ {t} : at'[q] = at[q]
      /\ at'[t] = "post" => at[t] = "access"
  BY DEF IInv, Typed, LockBuffer, Access
<1>4. Placed'
  BY <1>1, <1>3 DEF IInv, Placed, Threads, slots, filled
<1>5. Holding' = Holding
  BY <1>1, <1>3 DEF IInv, Placed, Threads, slots, filled, Holding
<1>6. PermitsCounted'
  BY <1>1, <1>5 DEF IInv, PermitsCounted, slots, filled, SlotsValue, Slots!Waiters,
                    ItemsValue, Items!Waiters
<1> QED BY <1>2, <1>4, <1>6 DEF IInv

LEMMA NextInv == IInv /\ [Next]_vars => IInv'
<1> SUFFICES ASSUME IInv, [Next]_vars PROVE IInv' OBVIOUS
<1>1. ASSUME NEW t \in Producers, ProducerWaits(t) PROVE IInv'
  BY <1>1, ProducerWaitsMoves, MovesKeepPermits DEF IInv, Threads
<1>2. ASSUME NEW t \in Producers, ProducerPosts(t) PROVE IInv'
  BY <1>2, ProducerPostsMoves, MovesKeepPermits DEF IInv, Threads
<1>3. ASSUME NEW t \in Consumers, ConsumerWaits(t) PROVE IInv'
  BY <1>3, ConsumerWaitsMoves, MovesKeepPermits DEF IInv, Threads
<1>4. ASSUME NEW t \in Consumers, ConsumerPosts(t) PROVE IInv'
  BY <1>4, ConsumerPostsMoves, MovesKeepPermits DEF IInv, Threads
<1>5. ASSUME NEW t \in Threads, LockBuffer(t) \/ Access(t) PROVE IInv'
  BY <1>5, BufferStep
<1>6. CASE UNCHANGED vars
  BY <1>6 DEF vars, slots, filled, IInv, Typed, Placed, PermitsCounted, Holding, SlotsValue,
              Slots!Waiters, ItemsValue, Items!Waiters
<1> QED BY <1>1, <1>2, <1>3, <1>4, <1>5, <1>6 DEF Next, Step

LEMMA Invariance == Spec => []IInv
<1> QED BY InitInv, NextInv, PTL DEF Spec

\* While all spin, the two semaphores withhold at least all the permits there are; each of
\* them can withhold one permit less than it has waiters.
LEMMA SpinningWithholds == IInv => NeverStuck
<1> SUFFICES ASSUME IInv, EnoughSlots, Stuck PROVE FALSE
  BY DEF NeverStuck
<1>1. Holding = {}
  BY DEF IInv, Placed, Stuck, Holding, Threads, Slots!Waiters, Items!Waiters, Waiting, Posting
<1>2. Slots!Waiters = Producers /\ Items!Waiters = Consumers
  BY DEF IInv, Placed, Stuck, Threads, Slots!Waiters, Items!Waiters, Posting
<1>3. Cardinality(Producers) \in Nat /\ Cardinality(Consumers) \in Nat
  BY BufferAssumption, FS_CardinalityType
<1>4. slotsCount + Cardinality(Producers) + (itemsCount + Cardinality(Consumers)) = BufferSize
  BY <1>1, <1>2, <1>3, FS_EmptySet DEF IInv, Typed, PermitsCounted, SlotsValue, ItemsValue
<1> QED BY <1>3, <1>4, BufferAssumption DEF IInv, Typed, Stuck, EnoughSlots

\* No permit is lost or made between the two semaphores of the program (semaphore-temp.c:14
\* and 20), for any numbers of threads and slots.
THEOREM PermitsAreCounted == Spec => []PermitsCounted
<1>1. IInv => PermitsCounted
  BY DEF IInv
<1> QED BY Invariance, <1>1, PTL

\* With fewer threads than slots and two, the threads of the program never all spin for
\* ever in block() (semaphore-temp.c:30).
THEOREM NeverAllStuck == Spec => []NeverStuck
<1> QED BY Invariance, SpinningWithholds, PTL

\* Whatever producers and consumers do, the free slots are a counting semaphore for them
\* (producer-consumer-temp.c:71 and 88): a run of the program is a run of the semaphore.
THEOREM SlotsImplementation == Spec => SlotsImplement
<1>1. Init => Slots!Init
  BY DEF Init
<1>2. [Next]_vars => [Slots!Next]_slots
  BY DEF Next, Step, vars, ProducerWaits, ConsumerWaits, ProducerPosts, ConsumerPosts, LockBuffer,
         Access, Slots!Next, Threads
<1> QED BY <1>1, <1>2, SlotsRefine, PTL DEF Spec, SlotsImplement, Slots!Spec, Slots!vars, slots

\* So are the items.
THEOREM ItemsImplementation == Spec => Items!Implements
<1>1. Init => Items!Init
  BY DEF Init
<1>2. [Next]_vars => [Items!Next]_filled
  BY DEF Next, Step, vars, ProducerWaits, ConsumerWaits, ProducerPosts, ConsumerPosts, LockBuffer,
         Access, Items!Next, Threads
<1> QED BY <1>1, <1>2, ItemsRefine, PTL DEF Spec, Items!Spec, Items!vars, filled
===============================================================================
