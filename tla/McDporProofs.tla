---------------------------- MODULE McDporProofs ----------------------------
(***************************************************************************)
(* The bookkeeping of the search is sound for every program, any number of *)
(* threads and any limits: the stacks never outgrow their arrays and match *)
(* each other, and the backtrack, done and sleep sets of every state on    *)
(* the stack keep what the search relies on.                               *)
(*                                                                         *)
(* The declarations of independence, that the search prunes by, are sound  *)
(* for any number of threads and objects: transitions they call            *)
(* independent commute, in every state of the shadow objects and so in     *)
(* every state of a program, but for barriers and three pairs.             *)
(*                                                                         *)
(* What the search believes is true: the stack is a trace of the program,  *)
(* and the scheduler's objects and its threads' next operations are those  *)
(* the trace leads to, whatever was undone, replayed or forked.  So the    *)
(* search runs only what can run, and what it reports is there.  A trace   *)
(* is what it makes of the objects one transition after another, so the    *)
(* proofs begin with folds, and are by induction on the length of a trace. *)
(*                                                                         *)
(* Clock vectors decide exactly which transitions happen before which: on  *)
(* the stack in every search, and for the threads as long as no branch     *)
(* undoes the transitions it drops.                                        *)
(***************************************************************************)
EXTENDS McDpor, FiniteSetTheorems, SequenceTheorems, WellFoundedInduction, TLAPS

-----------------------------------------------------------------------------
(* Sequences of anything, and the extremes of sets of numbers.             *)

IsStack(s) == \E S : s \in Seq(S)

LEMMA Stack ==
  ASSUME NEW s, IsStack(s)
  PROVE  Len(s) \in Nat /\ DOMAIN s = 1..Len(s)
BY DEF IsStack

LEMMA Pushed ==
  ASSUME NEW s, IsStack(s), NEW x
  PROVE  /\ IsStack(Append(s, x)) /\ Len(Append(s, x)) = Len(s) + 1
         /\ \A i \in 1..Len(s) : Append(s, x)[i] = s[i]
         /\ Append(s, x)[Len(s) + 1] = x
<1>1. PICK S : s \in Seq(S)
  BY DEF IsStack
<1>2. s \in Seq(S \cup {x})
  BY <1>1, SeqMonotonic
<1> QED BY <1>2, AppendProperties DEF IsStack

LEMMA Replaced ==
  ASSUME NEW s, NEW z, IsStack(s), NEW k \in 1..Len(s), NEW x, z = [s EXCEPT ![k] = x]
  PROVE  /\ IsStack(z) /\ Len(z) = Len(s)
         /\ \A i \in 1..Len(s) : z[i] = IF i = k THEN x ELSE s[i]
<1>1. PICK S : s \in Seq(S)
  BY DEF IsStack
<1>2. s \in Seq(S \cup {x})
  BY <1>1, SeqMonotonic
<1>3. z \in Seq(S \cup {x}) /\ Len(z) = Len(s)
  BY <1>2, ExceptSeq
<1>4. \A i \in 1..Len(s) : z[i] = IF i = k THEN x ELSE s[i]
  BY <1>2
<1> QED BY <1>3, <1>4 DEF IsStack

LEMMA Truncated ==
  ASSUME NEW s, IsStack(s), NEW n \in 0..Len(s)
  PROVE  /\ IsStack(SubSeq(s, 1, n)) /\ Len(SubSeq(s, 1, n)) = n
         /\ \A i \in 1..n : SubSeq(s, 1, n)[i] = s[i]
<1>1. PICK S : s \in Seq(S)
  BY DEF IsStack
<1>2. n \in Int /\ \A i \in 1..n : s[i] \in S
  BY <1>1
<1>3. /\ SubSeq(s, 1, n) \in Seq(S)
      /\ Len(SubSeq(s, 1, n)) = IF 1 <= n THEN n - 1 + 1 ELSE 0
      /\ \A i \in 1..n - 1 + 1 : SubSeq(s, 1, n)[i] = s[1 + i - 1]
  BY <1>2, SubSeqProperties
<1> QED BY <1>3 DEF IsStack

LEMMA Reopened ==
  ASSUME NEW s, NEW z, IsStack(s), NEW k \in 1..Len(s), NEW x,
         z = [SubSeq(s, 1, k) EXCEPT ![k] = x]
  PROVE  /\ IsStack(z) /\ Len(z) = k
         /\ \A i \in 1..k : z[i] = IF i = k THEN x ELSE s[i]
<1> DEFINE kept == SubSeq(s, 1, k)
<1>1. /\ IsStack(kept) /\ Len(kept) = k
      /\ \A i \in 1..k : kept[i] = s[i]
  <2>1. Len(s) \in Nat
    BY DEF IsStack
  <2>2. k \in 0..Len(s)
    BY <2>1
  <2> QED BY <2>2, Truncated
<1>2. k \in 1..Len(kept)
  BY <1>1
<1>3. z = [kept EXCEPT ![k] = x]
  OBVIOUS
<1> HIDE DEF kept
<1>4. /\ IsStack(z) /\ Len(z) = Len(kept)
      /\ \A i \in 1..Len(kept) : z[i] = IF i = k THEN x ELSE kept[i]
  BY <1>1, <1>2, <1>3, Replaced
<1> QED BY <1>1, <1>4

LEMMA LeastOf ==
  ASSUME NEW T \in SUBSET Nat, T # {}
  PROVE  \E x \in T : \A y \in T : x <= y
<1> DEFINE R == OpToRel(<, Nat)
<1>1. \A x, y \in Nat : <<y, x>> \in R <=> y < x
  BY DEF OpToRel
<1> HIDE DEF R
<1>2. IsWellFoundedOn(R, Nat)
  BY NatLessThanWellFounded DEF R
<1>3. \E x \in T : \A y \in T : ~(<<y, x>> \in R)
  BY <1>2, WFMin
<1>4. \A x, y \in Nat : ~(y < x) => x <= y
  OBVIOUS
<1> QED BY <1>1, <1>3, <1>4, Zenon

LEMMA MinIsElement ==
  ASSUME NEW T \in SUBSET Nat, T # {}
  PROVE  Min(T) \in T
BY LeastOf DEF Min

LEMMA MaxIsElement ==
  ASSUME NEW n \in Nat, NEW T \in SUBSET (1..n), T # {}
  PROVE  Max(T) \in T
<1> DEFINE mirror == {n - x : x \in T}
<1>1. mirror \in SUBSET Nat /\ mirror # {}
  <2>1. \A x \in T : n - x \in Nat
    OBVIOUS
  <2> QED BY <2>1
<1>2. PICK z \in mirror : \A y \in mirror : z <= y
  BY <1>1, LeastOf
<1>3. PICK x \in T : z = n - x
  BY <1>2
<1>4. \A y \in T : x >= y
  <2> TAKE y \in T
  <2>1. z <= n - y
    BY <1>2
  <2> QED BY <1>3, <2>1
<1> QED BY <1>4 DEF Max

-----------------------------------------------------------------------------
(* The inductive invariant.  The three sets of a state are sound by        *)
(* themselves (ItemSound), but that what was searched is asleep holds of   *)
(* the states already left only: in the one a branch starts in, the thread *)
(* it starts with is searched and not asleep before it has run (TopItem).  *)

StacksMatch ==
    /\ IsStack(tstack) /\ IsStack(sstack)
    /\ Len(sstack) = Len(tstack) + 1 /\ Len(tstack) <= MaxTransitions

ThreadsKnown ==
    /\ prog \in Programs /\ pc \in [Threads -> Nat]
    /\ DOMAIN next \subseteq Threads /\ leader \in DOMAIN next
    /\ \A t \in DOMAIN next : next[t].tid = t

Shaped(item) ==
    item = [clock |-> item.clock, backtrack |-> item.backtrack, done |-> item.done,
            sleep |-> item.sleep, enabled |-> item.enabled]

ItemSound(item, known) ==
    /\ Shaped(item)
    /\ item.backtrack \subseteq item.enabled /\ item.enabled \subseteq known
    /\ item.backtrack \cap (item.done \cup item.sleep) = {}

ItemsSound == \A i \in 1..Len(sstack) : ItemSound(sstack[i], DOMAIN next)

SearchedAsleep ==
    \A i \in 1..Len(tstack) : /\ tstack[i].tid \in sstack[i].done
                              /\ sstack[i].done \subseteq sstack[i].sleep

Between == {"others", "choose", "branch"}

TopItem ==
    LET top == sstack[Len(sstack)]
    IN /\ stage = "run" => top.done \subseteq top.sleep \cup {leader}
       /\ stage \in Between => tstack # <<>> /\ top.done = {} /\ top.enabled = {}

IInv == StacksMatch /\ ThreadsKnown /\ ItemsSound /\ SearchedAsleep /\ TopItem

-----------------------------------------------------------------------------
(* What a step does to one state of the stack.                             *)

LEMMA FreshItem ==
  ASSUME NEW cv, NEW sleep, NEW known
  PROVE  /\ ItemSound(NewItem(cv, sleep), known)
         /\ NewItem(cv, sleep).done = {} /\ NewItem(cv, sleep).enabled = {}
BY DEF ItemSound, Shaped, NewItem

LEMMA OneField ==
  ASSUME NEW item, Shaped(item), NEW x
  PROVE  /\ [item EXCEPT !.done = x] =
                [clock |-> item.clock, backtrack |-> item.backtrack, done |-> x,
                 sleep |-> item.sleep, enabled |-> item.enabled]
         /\ [item EXCEPT !.backtrack = x] =
                [clock |-> item.clock, backtrack |-> x, done |-> item.done,
                 sleep |-> item.sleep, enabled |-> item.enabled]
         /\ [item EXCEPT !.sleep = x] =
                [clock |-> item.clock, backtrack |-> item.backtrack, done |-> item.done,
                 sleep |-> x, enabled |-> item.enabled]
         /\ [item EXCEPT !.enabled = x] =
                [clock |-> item.clock, backtrack |-> item.backtrack, done |-> item.done,
                 sleep |-> item.sleep, enabled |-> x]
BY DEF Shaped

LEMMA SearchedFields ==
  ASSUME NEW item, Shaped(item), NEW t
  PROVE  Searched(item, t) = [clock |-> item.clock, backtrack |-> item.backtrack \ {t},
             done |-> item.done \cup {t}, sleep |-> item.sleep, enabled |-> item.enabled]
<1> DEFINE one == [item EXCEPT !.done = item.done \cup {t}]
<1>1. one = [clock |-> item.clock, backtrack |-> item.backtrack, done |-> item.done \cup {t},
             sleep |-> item.sleep, enabled |-> item.enabled]
  BY OneField
<1>2. Searched(item, t) = [one EXCEPT !.backtrack = one.backtrack \ {t}]
  BY Zenon DEF Searched
<1> HIDE DEF one
<1>3. Shaped(one)
  BY <1>1 DEF Shaped
<1> QED BY <1>1, <1>2, <1>3, OneField

LEMMA SearchedItem ==
  ASSUME NEW item, NEW known, ItemSound(item, known), NEW t
  PROVE  /\ ItemSound(Searched(item, t), known)
         /\ Searched(item, t).done = item.done \cup {t}
         /\ Searched(item, t).sleep = item.sleep
         /\ Searched(item, t).enabled = item.enabled
BY SearchedFields DEF ItemSound, Shaped

LEMMA LeftItem ==
  ASSUME NEW item, ItemSound(item, DOMAIN next), NEW t
  PROVE  /\ ItemSound(LeftBy(item, t), DOMAIN next)
         /\ LeftBy(item, t).done = item.done \cup {t}
         /\ LeftBy(item, t).sleep = item.sleep \cup {t}
         /\ LeftBy(item, t).enabled = item.enabled \cup EnabledThreads(objs, next)
<1> DEFINE enabled == EnabledThreads(objs, next)
           one == Searched(item, t)
           two == [one EXCEPT !.enabled = one.enabled \cup enabled]
<1>1. enabled \subseteq DOMAIN next
  BY DEF EnabledThreads
<1>2. LeftBy(item, t) = [two EXCEPT !.sleep = two.sleep \cup {t}]
  BY Zenon DEF LeftBy
<1>3. /\ ItemSound(one, DOMAIN next) /\ one.done = item.done \cup {t}
      /\ one.sleep = item.sleep /\ one.enabled = item.enabled /\ t \notin one.backtrack
  BY SearchedItem, SearchedFields DEF ItemSound
<1> HIDE DEF enabled, one
<1>4. two = [clock |-> one.clock, backtrack |-> one.backtrack, done |-> one.done,
             sleep |-> one.sleep, enabled |-> one.enabled \cup enabled]
  BY <1>3, OneField DEF ItemSound
<1> HIDE DEF two
<1>5. Shaped(two)
  BY <1>4 DEF Shaped
<1>6. LeftBy(item, t) = [clock |-> one.clock, backtrack |-> one.backtrack, done |-> one.done,
          sleep |-> one.sleep \cup {t}, enabled |-> one.enabled \cup enabled]
  BY <1>2, <1>4, <1>5, OneField
<1> QED BY <1>1, <1>3, <1>6 DEF ItemSound, Shaped, enabled

LEMMA QueuedItem ==
  ASSUME NEW known, NEW i, NEW p, ItemSound(sstack[i], known), NEW B \in BacktrackSets(i, p)
  PROVE  /\ ItemSound([sstack[i] EXCEPT !.backtrack = B], known)
         /\ [sstack[i] EXCEPT !.backtrack = B].done = sstack[i].done
         /\ [sstack[i] EXCEPT !.backtrack = B].sleep = sstack[i].sleep
         /\ [sstack[i] EXCEPT !.backtrack = B].enabled = sstack[i].enabled
<1> DEFINE item == sstack[i]
<1>1. /\ item.backtrack \subseteq B
      /\ B \subseteq item.backtrack \cup ((item.enabled \ item.sleep) \ item.done)
  <2>1. Candidates(i, p) \subseteq item.enabled \ item.sleep
    BY DEF Candidates
  <2> QED BY <2>1 DEF BacktrackSets, Unsearched
<1>2. [item EXCEPT !.backtrack = B] = [clock |-> item.clock, backtrack |-> B,
          done |-> item.done, sleep |-> item.sleep, enabled |-> item.enabled]
  BY DEF ItemSound, Shaped
<1> HIDE DEF item
<1>3. ItemSound(item, known)
  BY DEF item
<1>4. /\ ItemSound([item EXCEPT !.backtrack = B], known)
      /\ [item EXCEPT !.backtrack = B].done = item.done
      /\ [item EXCEPT !.backtrack = B].sleep = item.sleep
      /\ [item EXCEPT !.backtrack = B].enabled = item.enabled
  BY <1>1, <1>2, <1>3 DEF ItemSound, Shaped
<1> QED BY <1>4 DEF item

-----------------------------------------------------------------------------
(* What a step does to the threads the scheduler knows.                    *)

LEMMA OpTid ==
  ASSUME NEW p, NEW t, NEW n
  PROVE  Op(p, t, n).tid = t
BY DEF Op

LEMMA TypedTransition ==
  ASSUME NEW tr \in Transition
  PROVE  /\ tr.tid \in Threads
         /\ tr.type \in ThreadOps => tr.obj \in Threads
         /\ tr.type \in MutexOps => tr.obj \in Mutexes
         /\ tr.type \in SemOps => tr.obj \in Sems
         /\ tr.type \in CondOps => tr.obj \in Conds
         /\ tr.type \in BarrierOps => tr.obj \in Barriers
         /\ tr.type \in RWOps => tr.obj \in RWLocks
         /\ tr.type \in RWWOps => tr.obj \in RWWLocks
BY DEF Transition, ThreadTransition, MutexTransition, SemTransition, GlobalTransition,
  CondTransition, BarrierTransition, RWTransition, RWWTransition, ThreadOps, MutexOps, SemOps,
  GlobalOps, CondOps, BarrierOps, RWOps, RWWOps

\* What a thread posts is an operation there is, on an object of its kind.
LEMMA OpTyped ==
  ASSUME NEW p \in Programs, NEW t \in Threads, NEW n \in Nat
  PROVE  /\ Op(p, t, n) \in Transition
         /\ n # 0 => Op(p, t, n).type # "start"
<1>1. CASE n = 0 \/ n > Len(p[t])
  BY <1>1 DEF Op, Transition, ThreadTransition, ThreadOps
<1>2. CASE ~(n = 0 \/ n > Len(p[t]))
  <2>1. n \in 1..Len(p[t])
    BY <1>2, ProgramsAssumption
  <2> QED BY <1>2, <2>1, ProgramsAssumption DEF Op
<1> QED BY <1>1, <1>2

LEMMA NamedThread ==
  ASSUME NEW p \in Programs, NEW t \in Threads, NEW n \in Nat,
         Op(p, t, n).type \in {"create", "join"}
  PROVE  Op(p, t, n).obj \in Threads
BY OpTyped, TypedTransition DEF ThreadOps

LEMMA CopyTid ==
  ASSUME NEW os, NEW tr
  PROVE  StaticCopy(os, tr).tid = tr.tid /\ Operation(tr).tid = tr.tid
<1>1. SeenCond(os, tr).tid = tr.tid
  BY DEF SeenCond
<1>2. \A barrier : SeenBarrier(barrier, tr).tid = tr.tid
  BY DEF SeenBarrier
<1>3. Live(os, tr).tid = tr.tid
  BY <1>1, <1>2 DEF Live
<1> QED BY <1>2, <1>3 DEF StaticCopy, Operation

LEMMA NextPosted ==
  ASSUME ThreadsKnown, NEW post, post = Posted(leader, pc[leader] + 1)
  PROVE  /\ DOMAIN next \subseteq DOMAIN WithNext(post)
         /\ DOMAIN WithNext(post) \subseteq Threads
         /\ \A t \in DOMAIN WithNext(post) : WithNext(post)[t].tid = t
<1>1. leader \in Threads /\ pc[leader] + 1 \in Nat
  BY DEF ThreadsKnown
<1>2. post.type \in {"create", "join"} => post.obj \in Threads
  BY <1>1, NamedThread DEF ThreadsKnown, Posted
<1>3. post.tid = leader
  BY OpTid DEF Posted
<1> DEFINE named == IF post.type \in {"create", "join"} THEN {post.obj} ELSE {}
<1>4. named \subseteq Threads
  BY <1>2
<1>5. WithNext(post) = [t \in DOMAIN next \cup named |->
          IF t = post.tid THEN post ELSE IF t \in DOMAIN next THEN next[t] ELSE Posted(t, 0)]
  BY DEF WithNext
<1> HIDE DEF named
<1>6. \A t : Posted(t, 0).tid = t
  BY OpTid DEF Posted
<1> QED BY <1>3, <1>4, <1>5, <1>6 DEF ThreadsKnown

LEMMA NextRestored ==
  ASSUME StacksMatch, ThreadsKnown, NEW b \in 1..Len(tstack)
  PROVE  /\ DOMAIN NextAt(b) = DOMAIN next
         /\ \A t \in DOMAIN next : NextAt(b)[t].tid = t
<1>1. ASSUME NEW t \in DOMAIN next
      PROVE  NextAt(b)[t].tid = t
  <2>1. CASE Of(t, Dropped(b)) = {}
    BY <2>1 DEF NextAt, ThreadsKnown
  <2>2. CASE Of(t, Dropped(b)) # {}
    <3>1. Of(t, Dropped(b)) \in SUBSET Nat
      BY Stack DEF Of, Dropped, StacksMatch
    <3>2. Min(Of(t, Dropped(b))) \in Of(t, Dropped(b))
      BY <2>2, <3>1, MinIsElement
    <3>3. tstack[Min(Of(t, Dropped(b)))].tid = t
      BY <3>2 DEF Of
    <3> QED BY <2>2, <3>3 DEF NextAt, Operation
  <2> QED BY <2>1, <2>2
<1> QED BY <1>1 DEF NextAt

-----------------------------------------------------------------------------
(* The invariant holds initially and every action keeps it.                *)

LEMMA InitInv == Init => IInv
<1> SUFFICES ASSUME Init PROVE IInv
  OBVIOUS
<1> USE DEF Init
<1>1. /\ sstack = <<NewItem(NoClock, {})>> /\ sstack[1] = NewItem(NoClock, {})
      /\ IsStack(sstack) /\ IsStack(tstack) /\ Len(sstack) = 1 /\ Len(tstack) = 0
  <2> DEFINE item == NewItem(NoClock, {})
  <2>1. sstack = <<item>> /\ tstack = <<>>
    OBVIOUS
  <2> HIDE DEF item
  <2>2. sstack \in Seq({item}) /\ tstack \in Seq({item}) /\ Len(sstack) = 1 /\ sstack[1] = item
    BY <2>1
  <2> QED BY <2>1, <2>2 DEF IsStack, item
<1>2. StacksMatch
  BY <1>1, MaxTransitionsAssumption DEF StacksMatch
<1>3. ThreadsKnown
  BY ThreadsAssumption, OpTid DEF ThreadsKnown, Posted
<1>4. ItemsSound
  BY <1>1, FreshItem DEF ItemsSound
<1>5. SearchedAsleep
  BY <1>1 DEF SearchedAsleep
<1>6. TopItem
  <2>1. stage = "run" /\ sstack[Len(sstack)] = NewItem(NoClock, {})
    BY <1>1
  <2>2. NewItem(NoClock, {}).done = {}
    BY FreshItem
  <2> HIDE DEF Init
  <2> QED BY <2>1, <2>2 DEF TopItem, Between
<1> QED BY <1>2, <1>3, <1>4, <1>5, <1>6 DEF IInv

LEMMA RunStep ==
  ASSUME IInv, Run
  PROVE  IInv'
<1> USE DEF IInv
<1> DEFINE n == Len(sstack)
           left == [sstack EXCEPT ![n] = LeftBy(sstack[n], leader)]
           tr == next[leader]
           cv == [ClockOf(tr) EXCEPT ![leader] = Len(tstack) + 1]
           top == NewItem(cv, StillAsleep(tr))
           post == Posted(leader, pc[leader] + 1)
<1>1. /\ sstack' = Append(left, top) /\ tstack' = Append(tstack, StaticCopy(objs, tr))
      /\ pc' = [pc EXCEPT ![leader] = pc[leader] + 1]
      /\ prog' = prog /\ leader' = leader
      /\ stage = "run" /\ ~(Len(tstack) >= MaxTransitions)
      /\ \/ stage' = "undefined" /\ next' = next
         \/ stage' = "others" /\ next' = WithNext(post)
  BY DEF Run, AtLimit
<1> HIDE DEF cv, post, tr
<1>2. /\ Len(tstack) \in Nat /\ n \in Nat /\ n = Len(tstack) + 1
      /\ IsStack(sstack) /\ IsStack(tstack) /\ Len(tstack) <= MaxTransitions
  BY Stack DEF StacksMatch
<1>3. /\ IsStack(left) /\ Len(left) = n
      /\ \A i \in 1..n : left[i] = IF i = n THEN LeftBy(sstack[n], leader) ELSE sstack[i]
  <2>1. n \in 1..Len(sstack)
    BY <1>2
  <2> QED BY <1>2, <2>1, Replaced
<1> HIDE DEF left, top
<1>4. /\ IsStack(sstack') /\ Len(sstack') = n + 1 /\ sstack'[n + 1] = top
      /\ \A i \in 1..n : sstack'[i] = IF i = n THEN LeftBy(sstack[n], leader) ELSE sstack[i]
  BY <1>1, <1>2, <1>3, Pushed
<1>5. /\ IsStack(tstack') /\ Len(tstack') = n
      /\ \A i \in 1..(n - 1) : tstack'[i] = tstack[i]
      /\ tstack'[n].tid = leader
  <2>1. StaticCopy(objs, tr).tid = leader
    BY CopyTid DEF tr, ThreadsKnown
  <2> QED BY <1>1, <1>2, <2>1, Pushed
<1>6. StacksMatch'
  BY <1>1, <1>2, <1>4, <1>5, MaxTransitionsAssumption DEF StacksMatch
<1>7. /\ DOMAIN next \subseteq DOMAIN next' /\ DOMAIN next' \subseteq Threads
      /\ \A t \in DOMAIN next' : next'[t].tid = t
  BY <1>1, NextPosted DEF post, ThreadsKnown
<1>8. ThreadsKnown'
  BY <1>1, <1>7 DEF ThreadsKnown
<1>9. /\ ItemSound(LeftBy(sstack[n], leader), DOMAIN next)
      /\ LeftBy(sstack[n], leader).done = sstack[n].done \cup {leader}
      /\ LeftBy(sstack[n], leader).sleep = sstack[n].sleep \cup {leader}
  BY <1>2, LeftItem DEF ItemsSound
<1>10. ItemsSound'
  <2>1. \A i \in 1..n : ItemSound(sstack'[i], DOMAIN next)
    BY <1>4, <1>9 DEF ItemsSound
  <2>2. \A i \in 1..n : ItemSound(sstack'[i], DOMAIN next')
    BY <2>1, <1>7 DEF ItemSound
  <2>3. ItemSound(sstack'[n + 1], DOMAIN next')
    BY <1>4, FreshItem DEF top
  <2> QED BY <1>2, <1>4, <2>2, <2>3 DEF ItemsSound
<1>11. SearchedAsleep'
  <2> SUFFICES ASSUME NEW i \in 1..n
               PROVE  /\ tstack'[i].tid \in sstack'[i].done
                      /\ sstack'[i].done \subseteq sstack'[i].sleep
    BY <1>5 DEF SearchedAsleep
  <2>1. CASE i = n
    BY <2>1, <1>1, <1>2, <1>4, <1>5, <1>9 DEF TopItem
  <2>2. CASE i # n
    BY <2>2, <1>2, <1>4, <1>5 DEF SearchedAsleep
  <2> QED BY <2>1, <2>2
<1>12. TopItem'
  <2>1. sstack'[Len(sstack')].done = {} /\ sstack'[Len(sstack')].enabled = {}
    BY <1>4, FreshItem DEF top
  <2>2. tstack' # <<>> /\ stage' # "run"
    BY <1>1, <1>2, <1>5
  <2> QED BY <2>1, <2>2 DEF TopItem, Between
<1> QED BY <1>6, <1>8, <1>10, <1>11, <1>12

LEMMA FrameStep ==
  ASSUME IInv, UNCHANGED <<prog, pc, next, tstack, sstack>>, leader' \in DOMAIN next,
         stage' \in Between => stage \in Between,
         stage' = "run" => stage \in Between \/ (stage = "run" /\ leader' = leader)
  PROVE  IInv'
<1> USE DEF IInv
<1>1. StacksMatch' /\ ItemsSound' /\ SearchedAsleep'
  BY DEF StacksMatch, ItemsSound, SearchedAsleep, ItemSound
<1>2. ThreadsKnown'
  BY DEF ThreadsKnown
<1>3. TopItem'
  BY DEF TopItem
<1> QED BY <1>1, <1>2, <1>3

LEMMA QueueStep ==
  ASSUME IInv, NEW k \in 1..Len(tstack), NEW p, NEW B \in BacktrackSets(k, p),
         sstack' = [sstack EXCEPT ![k].backtrack = B],
         UNCHANGED <<prog, pc, next, tstack, leader>>,
         stage \in Between, stage' \in Between
  PROVE  IInv'
<1> USE DEF IInv
<1> DEFINE n == Len(sstack)
           item == [sstack[k] EXCEPT !.backtrack = B]
<1>1. /\ n \in Nat /\ Len(tstack) \in Nat /\ n = Len(tstack) + 1 /\ IsStack(sstack)
      /\ k \in 1..n /\ k # n
  BY Stack DEF StacksMatch
<1>2. /\ ItemSound(item, DOMAIN next) /\ item.done = sstack[k].done
      /\ item.sleep = sstack[k].sleep
  BY <1>1, QueuedItem DEF ItemsSound
<1>3. sstack' = [sstack EXCEPT ![k] = item]
  OBVIOUS
<1>4. k \in 1..Len(sstack)
  BY <1>1
<1> HIDE DEF item
<1>5. /\ IsStack(sstack') /\ Len(sstack') = n
      /\ \A i \in 1..n : sstack'[i] = IF i = k THEN item ELSE sstack[i]
  <2> DEFINE left == [sstack EXCEPT ![k] = item]
  <2>1. /\ IsStack(left) /\ Len(left) = n
        /\ \A i \in 1..n : left[i] = IF i = k THEN item ELSE sstack[i]
    BY <1>1, <1>4, Replaced
  <2> HIDE DEF left
  <2>2. sstack' = left
    BY <1>3 DEF left
  <2> QED BY <2>1, <2>2
<1>6. StacksMatch' /\ ThreadsKnown'
  BY <1>1, <1>5 DEF StacksMatch, ThreadsKnown
<1>7. ItemsSound'
  BY <1>2, <1>5 DEF ItemsSound
<1>8. SearchedAsleep'
  <2> SUFFICES ASSUME NEW i \in 1..Len(tstack)
               PROVE  /\ tstack'[i].tid \in sstack'[i].done
                      /\ sstack'[i].done \subseteq sstack'[i].sleep
    BY DEF SearchedAsleep
  <2>1. i \in 1..n
    BY <1>1
  <2>2. sstack'[i].done = sstack[i].done /\ sstack'[i].sleep = sstack[i].sleep
    BY <1>2, <1>5, <2>1
  <2> QED BY <2>2 DEF SearchedAsleep
<1>9. TopItem'
  <2>1. sstack'[Len(sstack')] = sstack[n]
    BY <1>1, <1>5
  <2> QED BY <2>1 DEF TopItem, Between
<1> QED BY <1>6, <1>7, <1>8, <1>9

LEMMA UpdateOtherStep ==
  ASSUME IInv, NEW p \in Threads, UpdateOther(p)
  PROVE  IInv'
<1>1. /\ UNCHANGED <<prog, pc, next, tstack, leader>>
      /\ stage = "others" /\ stage' = stage
  BY DEF UpdateOther
<1>2. Len(tstack) \in 1..Len(tstack)
  <2>1. Len(tstack) \in Nat /\ IsStack(tstack) /\ tstack # <<>>
    BY <1>1, Stack DEF IInv, StacksMatch, TopItem, Between
  <2>2. Len(tstack) # 0
    BY <2>1 DEF IsStack
  <2> QED BY <2>1, <2>2
<1>3. CASE \E B \in BacktrackSets(Len(tstack), p) :
               sstack' = [sstack EXCEPT ![Len(tstack)].backtrack = B]
  BY <1>1, <1>2, <1>3, QueueStep DEF Between
<1>4. CASE UNCHANGED sstack
  BY <1>1, <1>4, FrameStep DEF IInv, ThreadsKnown
<1> QED BY <1>3, <1>4 DEF UpdateOther

LEMMA UpdateLastStep ==
  ASSUME IInv, UpdateLast
  PROVE  IInv'
<1> DEFINE p == Last(tstack).tid
           k == Max(Conflicts(p))
<1>1. /\ UNCHANGED <<prog, pc, next, tstack, leader>>
      /\ stage = "others" /\ stage' = "choose"
  BY DEF UpdateLast
<1>2. CASE Conflicts(p) # {} /\ \E B \in BacktrackSets(k, p) :
               sstack' = [sstack EXCEPT ![k].backtrack = B]
  <2>1. Len(tstack) \in Nat
    BY Stack DEF IInv, StacksMatch
  <2>2. Conflicts(p) \in SUBSET (1..Len(tstack))
    BY <2>1 DEF Conflicts
  <2>3. k \in 1..Len(tstack)
    BY <1>2, <2>1, <2>2, MaxIsElement
  <2>4. PICK i \in 1..Len(tstack) : \E B \in BacktrackSets(i, p) :
            sstack' = [sstack EXCEPT ![i].backtrack = B]
    BY <1>2, <2>3
  <2>5. PICK B \in BacktrackSets(i, p) : sstack' = [sstack EXCEPT ![i].backtrack = B]
    BY <2>4
  <2>6. stage \in Between /\ stage' \in Between
    BY <1>1 DEF Between
  <2> HIDE DEF p
  <2> QED BY <1>1, <2>5, <2>6, QueueStep
<1>3. CASE UNCHANGED sstack
  BY <1>1, <1>3, FrameStep DEF IInv, ThreadsKnown, Between
<1> QED BY <1>2, <1>3 DEF UpdateLast

LEMMA ChooseStep ==
  ASSUME IInv, Choose
  PROVE  IInv'
<1>1. leader' = Min(Awake) /\ Awake # {} /\ stage = "choose" /\ stage' = "run"
  BY DEF Choose
<1>2. Awake \subseteq DOMAIN next /\ Awake \in SUBSET Nat
  BY ThreadsAssumption DEF Awake, IInv, ThreadsKnown
<1>3. leader' \in DOMAIN next
  BY <1>1, <1>2, MinIsElement
<1>4. UNCHANGED <<prog, pc, next, tstack, sstack>>
  BY DEF Choose, schedVars
<1>5. /\ stage' \in Between => stage \in Between
      /\ stage' = "run" => stage \in Between \/ (stage = "run" /\ leader' = leader)
  BY <1>1 DEF Between
<1> QED BY <1>3, <1>4, <1>5, FrameStep

LEMMA BranchStep ==
  ASSUME IInv, Branch
  PROVE  IInv'
<1> USE DEF IInv
<1>1. /\ Len(sstack) \in Nat /\ Len(tstack) \in Nat /\ Len(sstack) = Len(tstack) + 1
      /\ IsStack(sstack) /\ IsStack(tstack) /\ DOMAIN sstack = 1..Len(sstack)
  BY Stack DEF StacksMatch
<1>2. stage = "branch" /\ stage' = "run" /\ prog' = prog /\ BranchPoints # {}
  BY DEF Branch
<1>3. PICK b \in 1..Len(sstack) : b = Max(BranchPoints) /\ sstack[b].backtrack # {}
  <2>1. BranchPoints \in SUBSET (1..Len(sstack))
    BY <1>1 DEF BranchPoints
  <2>2. Max(BranchPoints) \in BranchPoints
    BY <1>1, <1>2, <2>1, MaxIsElement
  <2> QED BY <2>1, <2>2 DEF BranchPoints
<1>4. PICK t \in sstack[b].backtrack :
        /\ leader' = t /\ sstack' = [SubSeq(sstack, 1, b) EXCEPT ![b] = Searched(@, t)]
        /\ tstack' = SubSeq(tstack, 1, b - 1) /\ next' = NextAt(b)
        /\ pc' = [u \in Threads |-> Cardinality(Of(u, Kept(b)))]
  BY <1>3 DEF Branch
<1>5. b \in 1..Len(tstack)
  <2>1. sstack[Len(sstack)].backtrack = {}
    BY <1>1, <1>2 DEF TopItem, ItemsSound, ItemSound, Between
  <2> QED BY <1>1, <1>3, <2>1
<1> DEFINE item == Searched(sstack[b], t)
           reopened == [SubSeq(sstack, 1, b) EXCEPT ![b] = item]
<1>6. SubSeq(sstack, 1, b)[b] = sstack[b]
  <2>1. b \in 0..Len(sstack) /\ b \in 1..b
    BY <1>1, <1>3
  <2> QED BY <1>1, <2>1, Truncated
<1>7. sstack' = reopened
  BY <1>4, <1>6
<1> HIDE DEF item
<1>8. /\ IsStack(reopened) /\ Len(reopened) = b
      /\ \A i \in 1..b : reopened[i] = IF i = b THEN item ELSE sstack[i]
  BY <1>1, <1>3, Reopened
<1> HIDE DEF reopened
<1>9. /\ IsStack(sstack') /\ Len(sstack') = b
      /\ \A i \in 1..b : sstack'[i] = IF i = b THEN item ELSE sstack[i]
  BY <1>7, <1>8
<1>10. /\ IsStack(tstack') /\ Len(tstack') = b - 1
       /\ \A i \in 1..(b - 1) : tstack'[i] = tstack[i]
  <2>1. b - 1 \in 0..Len(tstack)
    BY <1>1, <1>5
  <2> QED BY <1>4, <1>1, <2>1, Truncated
<1>11. StacksMatch'
  BY <1>1, <1>5, <1>9, <1>10, MaxTransitionsAssumption DEF StacksMatch
<1>12. /\ ItemSound(item, DOMAIN next) /\ item.done = sstack[b].done \cup {t}
       /\ item.sleep = sstack[b].sleep
  BY <1>3, SearchedItem DEF ItemsSound, item
<1>13. DOMAIN next' = DOMAIN next /\ \A u \in DOMAIN next' : next'[u].tid = u
  BY <1>4, <1>5, NextRestored
<1>14. ThreadsKnown'
  <2>1. pc' \in [Threads -> Nat]
    <3>1. ASSUME NEW u \in Threads
          PROVE  Cardinality(Of(u, Kept(b))) \in Nat
      <4>1. IsFiniteSet(Kept(b))
        <5>1. b \in Int /\ b - 1 \in Int
          BY <1>3
        <5>2. IsFiniteSet(1..(b - 1))
          BY <5>1, FS_Interval
        <5> QED BY <5>2, Zenon DEF Kept
      <4>2. Of(u, Kept(b)) \subseteq Kept(b)
        BY DEF Of
      <4> QED BY <4>1, <4>2, FS_Subset, FS_CardinalityType
    <3> QED BY <1>4, <3>1
  <2>2. leader' \in DOMAIN next
    BY <1>4, <1>3 DEF ItemsSound, ItemSound
  <2> QED BY <1>2, <1>13, <2>1, <2>2 DEF ThreadsKnown
<1>15. ItemsSound'
  <2> SUFFICES ASSUME NEW i \in 1..b
               PROVE  ItemSound(sstack'[i], DOMAIN next)
    BY <1>9, <1>13 DEF ItemsSound
  <2>1. i \in 1..Len(sstack)
    BY <1>1, <1>3
  <2> QED BY <2>1, <1>9, <1>12 DEF ItemsSound
<1>16. SearchedAsleep'
  <2> SUFFICES ASSUME NEW i \in 1..(b - 1)
               PROVE  /\ tstack'[i].tid \in sstack'[i].done
                      /\ sstack'[i].done \subseteq sstack'[i].sleep
    BY <1>10 DEF SearchedAsleep
  <2>1. i \in 1..Len(tstack) /\ i \in 1..b /\ i # b
    BY <1>1, <1>5
  <2> QED BY <2>1, <1>9, <1>10 DEF SearchedAsleep
<1>17. TopItem'
  <2>1. sstack'[Len(sstack')] = item
    BY <1>3, <1>9
  <2>2. sstack[b].done \subseteq sstack[b].sleep
    BY <1>5 DEF SearchedAsleep
  <2> QED BY <1>4, <1>2, <1>12, <2>1, <2>2 DEF TopItem, Between
<1> QED BY <1>11, <1>14, <1>15, <1>16, <1>17

LEMMA NextInv == IInv /\ [Next]_vars => IInv'
<1> SUFFICES ASSUME IInv, [Next]_vars PROVE IInv'
  OBVIOUS
<1> USE DEF Between
<1>1. leader \in DOMAIN next
  BY DEF IInv, ThreadsKnown
<1>2. CASE Run
  BY <1>2, RunStep
<1>3. CASE \E p \in Threads : UpdateOther(p)
  BY <1>3, UpdateOtherStep
<1>4. CASE UpdateLast
  BY <1>4, UpdateLastStep
<1>5. CASE Choose
  BY <1>5, ChooseStep
<1>6. CASE Branch
  BY <1>6, BranchStep
<1>7. CASE LimitReached
  BY <1>1, <1>7, FrameStep DEF LimitReached, schedVars
<1>8. CASE Crash
  BY <1>1, <1>8, FrameStep DEF Crash, schedVars
<1>9. CASE EndTrace
  BY <1>1, <1>9, FrameStep DEF EndTrace, schedVars
<1>10. CASE Finished
  BY <1>1, <1>10, FrameStep DEF Finished, schedVars
<1>11. CASE UNCHANGED vars
  BY <1>1, <1>11, FrameStep DEF vars, schedVars
<1> QED BY <1>2, <1>3, <1>4, <1>5, <1>6, <1>7, <1>8, <1>9, <1>10, <1>11 DEF Next

LEMMA InvHolds == Spec => []IInv
BY InitInv, NextInv, PTL DEF Spec

-----------------------------------------------------------------------------
(* In every state of a search a thread to backtrack on is enabled there,   *)
(* has not been searched there and is not asleep; what was searched in a   *)
(* state already left is asleep in it (MCStateStackItem.cpp).              *)
THEOREM BacktrackSetsAreSound == Spec => []BacktrackSetsSound
<1>1. IInv => BacktrackSetsSound
  <2> SUFFICES ASSUME IInv PROVE BacktrackSetsSound
    OBVIOUS
  <2>1. /\ DOMAIN sstack = 1..Len(sstack) /\ Len(tstack) \in Nat /\ Len(sstack) \in Nat
    BY Stack DEF IInv, StacksMatch
  <2>2. ASSUME NEW i \in DOMAIN sstack
        PROVE  /\ sstack[i].backtrack \subseteq sstack[i].enabled
               /\ sstack[i].backtrack \cap (sstack[i].done \cup sstack[i].sleep) = {}
    BY <2>1, <2>2 DEF IInv, ItemsSound, ItemSound
  <2>3. ASSUME NEW i \in DOMAIN sstack, i <= Len(tstack)
        PROVE  /\ tstack[i].tid \in sstack[i].done
               /\ sstack[i].done \subseteq sstack[i].sleep
    BY <2>1, <2>3 DEF IInv, SearchedAsleep
  <2> QED BY <2>2, <2>3 DEF BacktrackSetsSound
<1> QED BY <1>1, InvHolds, PTL

\* The stacks of transitions and of states fit the arrays of MCState.h, of
\* MAX_TOTAL_TRANSITIONS_IN_PROGRAM and of one more elements, whatever the program:
\* the search asks before it runs a transition, and nothing else lets them grow.
StacksBounded ==
    /\ Len(tstack) <= MaxTransitions /\ Len(sstack) <= MaxTransitions + 1
    /\ Len(sstack) = Len(tstack) + 1

THEOREM StacksNeverOverflow == Spec => []StacksBounded
<1>1. IInv => StacksBounded
  BY Stack, MaxTransitionsAssumption DEF IInv, StacksMatch, StacksBounded
<1> QED BY <1>1, InvHolds, PTL

-----------------------------------------------------------------------------
(* Folds, one element at a time.  A fold to the left is defined by a        *)
(* function on sets of indices, which is shown to exist by induction on     *)
(* the length; then the results after each element are a sequence h in      *)
(* which each is a turn of the one before it.                               *)

LEMMA NatSetInduction ==
  ASSUME NEW S, 0 \in S, \A n \in Nat : n \in S => n + 1 \in S
  PROVE  \A n \in Nat : n \in S
<1> DEFINE T == Nat \ S
<1> SUFFICES ASSUME T # {} PROVE FALSE
  OBVIOUS
<1>1. PICK x \in T : \A y \in T : x <= y
  BY LeastOf
<1>2. x # 0 /\ x - 1 \in Nat
  BY <1>1
<1>3. x - 1 \in S
  BY <1>1, <1>2
<1> QED BY <1>1, <1>2, <1>3

LEMMA MaxOfInitial ==
  ASSUME NEW n \in Nat, NEW s \in SUBSET (1..(n + 1)), n + 1 \in s
  PROVE  Max(s) = n + 1
<1>1. \A y \in s : n + 1 >= y
  OBVIOUS
<1>2. \A x \in s : (\A y \in s : x >= y) => x = n + 1
  OBVIOUS
<1> QED BY <1>1, <1>2 DEF Max

LEMMA Initial ==
  ASSUME NEW n \in Nat, NEW k \in Nat, k < n
  PROVE  /\ 1..k \in SUBSET (1..n) /\ 1..(k + 1) \in SUBSET (1..n) /\ 1..(k + 1) # {}
         /\ (1..(k + 1)) \ {k + 1} = 1..k /\ Max(1..(k + 1)) = k + 1
<1>1. \A i \in 1..(k + 1) : i \in 1..n
  OBVIOUS
<1>2. \A i \in 1..k : i \in 1..n
  OBVIOUS
<1>3. k + 1 \in 1..(k + 1)
  OBVIOUS
<1>4. \A i : i \in 1..k <=> i \in 1..(k + 1) /\ i # k + 1
  OBVIOUS
<1>5. (1..(k + 1)) \ {k + 1} = 1..k
  BY <1>4
<1>6. Max(1..(k + 1)) = k + 1
  BY <1>3, MaxOfInitial
<1> QED BY <1>1, <1>2, <1>3, <1>5, <1>6

\* The transitions before transition j of a trace that it depends on.
Feeds(q, j) == {k \in 1..(j - 1) : Dependent(q[k], q[j])}

\* What the folds of the model do with one element: transitions are run or undone,
\* threads of a program take a step, the states it may be in grow by those one step
\* further, a thread leaves the wake groups, what happens before a transition is
\* collected, and who did an operation on an object is listed.
Turn(kind, p, s, x) ==
    IF kind = "run" THEN Apply(s, x)
    ELSE IF kind = "undo" THEN Unapply(s, x)
    ELSE IF kind = "step" THEN Step(p, s, x)
    ELSE IF kind = "grow" THEN Extended(p, s)
    ELSE IF kind = "wake" THEN IF x \ {p} = {} THEN s ELSE Append(s, x \ {p})
    ELSE IF kind = "order" THEN Append(s, {x} \cup UNION {s[j] : j \in Feeds(p, x)})
    ELSE IF x.type \in p.types /\ x.obj = p.obj THEN Append(s, x.tid) ELSE s

LeftFold(kind, p, g, base, q, n) ==
    g = [s \in SUBSET (1..n) |-> IF s = {} THEN base
                                 ELSE Turn(kind, p, g[s \ {Max(s)}], q[Max(s)])]

LEMMA LeftFoldExists ==
  ASSUME NEW kind, NEW p, NEW base, NEW q
  PROVE  \A n \in Nat : \E g : LeftFold(kind, p, g, base, q, n)
<1> DEFINE S == {n \in Nat : \E g : LeftFold(kind, p, g, base, q, n)}
<1>1. 0 \in S
  <2> DEFINE g == [s \in SUBSET (1..0) |-> base]
  <2>1. \A s \in SUBSET (1..0) : s = {}
    OBVIOUS
  <2>2. LeftFold(kind, p, g, base, q, 0)
    BY <2>1 DEF LeftFold
  <2> QED BY <2>2
<1>2. ASSUME NEW n \in Nat, n \in S PROVE n + 1 \in S
  <2>1. PICK g : LeftFold(kind, p, g, base, q, n)
    BY <1>2
  <2> DEFINE h == [s \in SUBSET (1..(n + 1)) |->
                     IF n + 1 \in s THEN Turn(kind, p, g[s \ {n + 1}], q[n + 1]) ELSE g[s]]
  <2>2. ASSUME NEW s \in SUBSET (1..(n + 1)), n + 1 \notin s
        PROVE  s \in SUBSET (1..n)
    BY <2>2
  <2>3. ASSUME NEW s \in SUBSET (1..(n + 1)), s # {}
        PROVE  h[s] = Turn(kind, p, h[s \ {Max(s)}], q[Max(s)])
    <3>1. CASE n + 1 \in s
      <4>1. Max(s) = n + 1
        BY <3>1, MaxOfInitial
      <4>2. s \ {n + 1} \in SUBSET (1..(n + 1)) /\ n + 1 \notin s \ {n + 1}
        OBVIOUS
      <4>3. h[s \ {n + 1}] = g[s \ {n + 1}]
        BY <4>2
      <4> QED BY <3>1, <4>1, <4>3
    <3>2. CASE n + 1 \notin s
      <4>1. s \in SUBSET (1..n) /\ s \ {Max(s)} \in SUBSET (1..n)
        BY <2>2, <3>2
      <4>2. s \ {Max(s)} \in SUBSET (1..(n + 1)) /\ n + 1 \notin s \ {Max(s)}
        BY <3>2
      <4>3. g[s] = Turn(kind, p, g[s \ {Max(s)}], q[Max(s)])
        BY <2>1, <2>3, <4>1 DEF LeftFold
      <4> QED BY <3>2, <4>2, <4>3
    <3> QED BY <3>1, <3>2
  <2>4. h[{}] = base
    <3>1. g[{}] = base
      BY <2>1 DEF LeftFold
    <3> QED BY <3>1
  <2>5. h = [s \in SUBSET (1..(n + 1)) |-> h[s]]
    OBVIOUS
  <2> HIDE DEF h
  <2>6. LeftFold(kind, p, h, base, q, n + 1)
    BY <2>3, <2>4, <2>5 DEF LeftFold
  <2> QED BY <2>6
<1> HIDE DEF S
<1>3. \A n \in Nat : n \in S
  BY <1>1, <1>2, NatSetInduction
<1> QED BY <1>3 DEF S

\* The results of taking the elements of q one after the other.
Takes(kind, p, base, q, h) ==
    /\ h[0] = base
    /\ \A i \in 1..Len(q) : h[i] = Turn(kind, p, h[i - 1], q[i])

LEMMA FoldTakes ==
  ASSUME NEW kind, NEW p, NEW base, NEW q, IsStack(q),
         NEW g, LeftFold(kind, p, g, base, q, Len(q))
  PROVE  \E h : h = [k \in 0..Len(q) |-> h[k]] /\ Takes(kind, p, base, q, h) /\ g[1..Len(q)] = h[Len(q)]
<1> DEFINE h == [k \in 0..Len(q) |-> g[1..k]]
<1>1. Len(q) \in Nat
  BY Stack
<1>2. h[0] = base
  <2>1. 1..0 = {} /\ {} \in SUBSET (1..Len(q)) /\ 0 \in 0..Len(q)
    BY <1>1
  <2> QED BY <2>1 DEF LeftFold
<1>3. ASSUME NEW i \in 1..Len(q) PROVE h[i] = Turn(kind, p, h[i - 1], q[i])
  <2>1. PICK k \in Nat : k = i - 1 /\ k < Len(q) /\ i = k + 1
    BY <1>1
  <2>2. /\ 1..(k + 1) \in SUBSET (1..Len(q)) /\ 1..(k + 1) # {}
        /\ (1..(k + 1)) \ {k + 1} = 1..k /\ Max(1..(k + 1)) = k + 1
    BY <1>1, <2>1, Initial
  <2>3. g[1..(k + 1)] = Turn(kind, p, g[1..k], q[k + 1])
    BY <2>2 DEF LeftFold
  <2>4. k \in 0..Len(q) /\ k + 1 \in 0..Len(q)
    BY <1>1, <2>1
  <2> QED BY <2>1, <2>3, <2>4
<1>4. h[Len(q)] = g[1..Len(q)] /\ h = [k \in 0..Len(q) |-> h[k]]
  BY <1>1
<1> QED BY <1>2, <1>3, <1>4 DEF Takes

\* Sequences that begin alike give the same results as long as they do.
LEMMA TakesAlike ==
  ASSUME NEW kind, NEW p, NEW base, NEW q, NEW h, Takes(kind, p, base, q, h),
         NEW r, NEW g, Takes(kind, p, base, r, g), IsStack(q), IsStack(r),
         NEW n \in Nat, n <= Len(q), n <= Len(r), \A i \in 1..n : q[i] = r[i]
  PROVE  \A k \in 0..n : h[k] = g[k]
<1> DEFINE S == {k \in Nat : k <= n => h[k] = g[k]}
<1>0. Len(q) \in Nat /\ Len(r) \in Nat
  BY Stack
<1>1. 0 \in S
  BY DEF Takes
<1>2. ASSUME NEW k \in Nat, k \in S PROVE k + 1 \in S
  <2> SUFFICES ASSUME k + 1 <= n PROVE h[k + 1] = g[k + 1]
    OBVIOUS
  <2>1. k + 1 \in 1..Len(q) /\ k + 1 \in 1..Len(r) /\ k + 1 \in 1..n /\ (k + 1) - 1 = k /\ k <= n
    BY <1>0
  <2>2. h[k + 1] = Turn(kind, p, h[k], q[k + 1]) /\ g[k + 1] = Turn(kind, p, g[k], r[k + 1])
    BY <2>1 DEF Takes
  <2> QED BY <1>2, <2>1, <2>2
<1> HIDE DEF S
<1>3. \A k \in Nat : k \in S
  BY <1>1, <1>2, NatSetInduction
<1> QED BY <1>3 DEF S

LEMMA RunOneByOne ==
  ASSUME NEW p, NEW base, NEW q, IsStack(q)
  PROVE  \E h : Takes("run", p, base, q, h) /\ FoldLeft(Apply, base, q) = h[Len(q)]
<1> DEFINE Defines(f) == f = [s \in SUBSET (1..Len(q)) |->
                                IF s = {} THEN base ELSE Apply(f[s \ {Max(s)}], q[Max(s)])]
           g == CHOOSE f : Defines(f)
<1>1. FoldLeft(Apply, base, q) =
        (CHOOSE f : f = [s \in SUBSET DOMAIN q |->
             IF s = {} THEN base ELSE Apply(f[s \ {Max(s)}], q[Max(s)])])[DOMAIN q]
  BY Zenon DEF FoldLeft, MapThenFoldSet
<1>2. Len(q) \in Nat /\ DOMAIN q = 1..Len(q)
  BY Stack
<1>3. FoldLeft(Apply, base, q) = g[1..Len(q)]
  BY <1>1, <1>2, Zenon
<1>4. \A f : Defines(f) <=> LeftFold("run", p, f, base, q, Len(q))
  <2>1. \A s, x : Turn("run", p, s, x) = Apply(s, x)
    BY DEF Turn
  <2> QED BY <2>1 DEF LeftFold
<1>5. \E f : LeftFold("run", p, f, base, q, Len(q))
  BY <1>2, LeftFoldExists
<1> HIDE DEF Defines
<1>6. Defines(g)
  BY <1>4, <1>5
<1> HIDE DEF g
<1>7. LeftFold("run", p, g, base, q, Len(q))
  BY <1>4, <1>6
<1> QED BY <1>3, <1>7, FoldTakes

LEMMA UndoneOneByOne ==
  ASSUME NEW p, NEW base, NEW q, IsStack(q)
  PROVE  \E h : Takes("undo", p, base, q, h) /\ FoldLeft(Unapply, base, q) = h[Len(q)]
<1> DEFINE Defines(f) == f = [s \in SUBSET (1..Len(q)) |->
                                IF s = {} THEN base ELSE Unapply(f[s \ {Max(s)}], q[Max(s)])]
           g == CHOOSE f : Defines(f)
<1>1. FoldLeft(Unapply, base, q) =
        (CHOOSE f : f = [s \in SUBSET DOMAIN q |->
             IF s = {} THEN base ELSE Unapply(f[s \ {Max(s)}], q[Max(s)])])[DOMAIN q]
  BY Zenon DEF FoldLeft, MapThenFoldSet
<1>2. Len(q) \in Nat /\ DOMAIN q = 1..Len(q)
  BY Stack
<1>3. FoldLeft(Unapply, base, q) = g[1..Len(q)]
  BY <1>1, <1>2, Zenon
<1>4. \A f : Defines(f) <=> LeftFold("undo", p, f, base, q, Len(q))
  <2>1. \A s, x : Turn("undo", p, s, x) = Unapply(s, x)
    BY DEF Turn
  <2> QED BY <2>1 DEF LeftFold
<1>5. \E f : LeftFold("undo", p, f, base, q, Len(q))
  BY <1>2, LeftFoldExists
<1> HIDE DEF Defines
<1>6. Defines(g)
  BY <1>4, <1>5
<1> HIDE DEF g
<1>7. LeftFold("undo", p, g, base, q, Len(q))
  BY <1>4, <1>6
<1> QED BY <1>3, <1>7, FoldTakes

LEMMA AfterOneByOne ==
  ASSUME NEW p, NEW q, IsStack(q)
  PROVE  \E h : Takes("step", p, StartState, q, h) /\ After(p, q) = h[Len(q)]
<1> DEFINE Defines(f) == f = [s \in SUBSET (1..Len(q)) |->
                                IF s = {} THEN StartState ELSE Step(p, f[s \ {Max(s)}], q[Max(s)])]
           g == CHOOSE f : Defines(f)
<1>1. After(p, q) =
        (CHOOSE f : f = [s \in SUBSET DOMAIN q |->
             IF s = {} THEN StartState ELSE Step(p, f[s \ {Max(s)}], q[Max(s)])])[DOMAIN q]
  BY Zenon DEF After, FoldLeft, MapThenFoldSet
<1>2. Len(q) \in Nat /\ DOMAIN q = 1..Len(q)
  BY Stack
<1>3. After(p, q) = g[1..Len(q)]
  BY <1>1, <1>2, Zenon
<1>4. \A f : Defines(f) <=> LeftFold("step", p, f, StartState, q, Len(q))
  <2>1. \A s, x : Turn("step", p, s, x) = Step(p, s, x)
    BY DEF Turn
  <2> QED BY <2>1 DEF LeftFold
<1>5. \E f : LeftFold("step", p, f, StartState, q, Len(q))
  BY <1>2, LeftFoldExists
<1> HIDE DEF Defines
<1>6. Defines(g)
  BY <1>4, <1>5
<1> HIDE DEF g
<1>7. LeftFold("step", p, g, StartState, q, Len(q))
  BY <1>4, <1>6
<1> QED BY <1>3, <1>7, FoldTakes

LEMMA WokenOneByOne ==
  ASSUME NEW t, NEW q, IsStack(q)
  PROVE  \E h : Takes("wake", t, <<>>, q, h) /\ WakeThread(q, t) = h[Len(q)]
<1> DEFINE none == <<>>
           Left(s, x) == IF x \ {t} = {} THEN s ELSE Append(s, x \ {t})
           Defines(f) == f = [s \in SUBSET (1..Len(q)) |->
                                IF s = {} THEN none ELSE Left(f[s \ {Max(s)}], q[Max(s)])]
           g == CHOOSE f : Defines(f)
<1>1. WakeThread(q, t) =
        (CHOOSE f : f = [s \in SUBSET DOMAIN q |->
             IF s = {} THEN none ELSE Left(f[s \ {Max(s)}], q[Max(s)])])[DOMAIN q]
  BY Zenon DEF WakeThread, FoldLeft, MapThenFoldSet
<1>2. Len(q) \in Nat /\ DOMAIN q = 1..Len(q)
  BY Stack
<1>3. WakeThread(q, t) = g[1..Len(q)]
  BY <1>1, <1>2, Zenon
<1>4. \A s, x : Turn("wake", t, s, x) = Left(s, x)
  BY DEF Turn
<1> HIDE DEF none, Left
<1>5. \A f : Defines(f) <=> LeftFold("wake", t, f, none, q, Len(q))
  BY <1>4 DEF LeftFold
<1>6. \E f : LeftFold("wake", t, f, none, q, Len(q))
  BY <1>2, LeftFoldExists
<1> HIDE DEF Defines
<1>7. Defines(g)
  BY <1>5, <1>6
<1> HIDE DEF g
<1>8. LeftFold("wake", t, g, none, q, Len(q))
  BY <1>5, <1>7
<1>9. \E h : Takes("wake", t, none, q, h) /\ WakeThread(q, t) = h[Len(q)]
  BY <1>3, <1>8, FoldTakes
<1> QED BY <1>9 DEF none

-----------------------------------------------------------------------------
(* What each operation does to each kind of shadow objects, for every       *)
(* operation there is.                                                      *)

LEMMA ApplyByType ==
  ASSUME NEW shadow, NEW tr
  PROVE  /\ tr.type = "start"     => Apply(shadow, tr) = StartThread(shadow, tr)
         /\ tr.type = "create"    => Apply(shadow, tr) = CreateThread(shadow, tr)
         /\ tr.type = "finish"    => Apply(shadow, tr) = FinishThread(shadow, tr)
         /\ tr.type = "mutexInit" => Apply(shadow, tr) = InitMutex(shadow, tr)
         /\ tr.type = "lock"      => Apply(shadow, tr) = LockMutex(shadow, tr)
         /\ tr.type = "unlock"    => Apply(shadow, tr) = UnlockMutex(shadow, tr)
         /\ tr.type = "readerEnqueue" => Apply(shadow, tr) = EnqueueAsReader(shadow, tr)
         /\ tr.type = "readerLock"    => Apply(shadow, tr) = ReaderLock(shadow, tr)
         /\ tr.type = "writerEnqueue" => Apply(shadow, tr) = EnqueueAsWriter(shadow, tr)
         /\ tr.type = "writerLock"    => Apply(shadow, tr) = WriterLock(shadow, tr)
         /\ tr.type = "rwUnlock"      => Apply(shadow, tr) = UnlockRW(shadow, tr)
         /\ tr.type = "rwwReaderEnqueue" => Apply(shadow, tr) = RWWEnqueueAsReader(shadow, tr)
         /\ tr.type = "rwwReaderLock"    => Apply(shadow, tr) = RWWReaderLock(shadow, tr)
         /\ tr.type = "writer1Enqueue"   => Apply(shadow, tr) = EnqueueAsWriter1(shadow, tr)
         /\ tr.type = "writer1Lock"      => Apply(shadow, tr) = Writer1Lock(shadow, tr)
         /\ tr.type = "writer2Enqueue"   => Apply(shadow, tr) = EnqueueAsWriter2(shadow, tr)
         /\ tr.type = "writer2Lock"      => Apply(shadow, tr) = Writer2Lock(shadow, tr)
         /\ tr.type = "rwwUnlock"        => Apply(shadow, tr) = UnlockRWW(shadow, tr)
         /\ tr.type \in {"join", "exit", "read", "write", "rwInit", "rwwInit"} =>
                Apply(shadow, tr) = shadow
BY DEF Apply

WritesThread(tr, t) == \/ tr.type \in {"start", "finish"} /\ t = tr.tid
                       \/ tr.type = "create" /\ t = tr.obj

ThreadAfter(thread, tr) ==
    [t \in Threads |-> IF WritesThread(tr, t)
                       THEN IF tr.type = "finish" THEN "dead" ELSE "alive"
                       ELSE thread[t]]

\* A mutex is locked by a lock and when a thread wakes up from a condition variable,
\* and unlocked by an unlock and when a thread begins to wait on one.
Acquires(x, m) == \/ x.type = "lock" /\ x.obj = m
                  \/ x.type = "condWait" /\ CondMutex[x.obj] = m

Releases(x, m) == \/ x.type = "unlock" /\ x.obj = m
                  \/ x.type = "condEnqueue" /\ CondMutex[x.obj] = m

Initialises(x, m) == x.type = "mutexInit" /\ x.obj = m

MutexesAfter(mutex, x) ==
    [m \in Mutexes |-> IF Acquires(x, m) THEN "locked"
                       ELSE IF Releases(x, m) \/ Initialises(x, m) THEN "unlocked"
                       ELSE mutex[m]]

CountsAfter(count, x) ==
    [s \in Sems |-> IF x.obj # s THEN count[s]
                    ELSE IF x.type = "semPost" THEN count[s] + 1
                    ELSE IF x.type = "semWait" THEN IF count[s] > 0 THEN count[s] - 1 ELSE count[s]
                    ELSE count[s]]

QueuesAfter(queue, x) ==
    [s \in Sems |-> IF x.obj # s THEN queue[s]
                    ELSE IF x.type = "semEnqueue" THEN Append(queue[s], x.tid)
                    ELSE IF x.type = "semWait" THEN Without(queue[s], x.tid)
                    ELSE queue[s]]

CondAfter(cond, x) ==
    IF x.type = "condEnqueue"
    THEN [cond EXCEPT !.waiters = @ \cup {x.tid}, !.mutex = {CondMutex[x.obj]}]
    ELSE IF x.type = "condWait" THEN RemoveWaiter(cond, x.tid)
    ELSE IF x.type \in {"signal", "broadcast"} THEN PushWakeupGroup(cond)
    ELSE cond

CondsAfter(cond, x) ==
    [c \in Conds |-> IF x.obj = c THEN CondAfter(cond[c], x) ELSE cond[c]]

RWLockAfter(lock, tr) ==
    IF tr.type = "readerEnqueue" THEN EnterAsReader(lock, tr.tid)
    ELSE IF tr.type = "readerLock" THEN LockAsReader(lock, tr.tid)
    ELSE IF tr.type = "writerEnqueue" THEN EnterAsWriter(lock, tr.tid)
    ELSE IF tr.type = "writerLock" THEN LockAsWriter(lock, tr.tid)
    ELSE IF tr.type = "rwUnlock" THEN Release(lock, tr.tid) ELSE lock

RWAfter(rwlock, tr) ==
    [l \in RWLocks |-> IF tr.type \in RWOps /\ l = tr.obj THEN RWLockAfter(rwlock[l], tr)
                       ELSE rwlock[l]]

RWWLockAfter(lock, tr) ==
    IF tr.type = "rwwReaderEnqueue" THEN RWWEnterAsReader(lock, tr.tid)
    ELSE IF tr.type = "rwwReaderLock" THEN RWWLockAsReader(lock, tr.tid)
    ELSE IF tr.type = "writer1Enqueue" THEN EnterAsWriter1(lock, tr.tid)
    ELSE IF tr.type = "writer1Lock" THEN LockAsWriter1(lock, tr.tid)
    ELSE IF tr.type = "writer2Enqueue" THEN EnterAsWriter2(lock, tr.tid)
    ELSE IF tr.type = "writer2Lock" THEN LockAsWriter2(lock, tr.tid)
    ELSE IF tr.type = "rwwUnlock" THEN RWWRelease(lock, tr.tid) ELSE lock

RWWAfter(rwwlock, tr) ==
    [l \in RWWLocks |-> IF tr.type \in RWWOps /\ l = tr.obj THEN RWWLockAfter(rwwlock[l], tr)
                        ELSE rwwlock[l]]

Whole(thread, mutex, count, queue, cond, barrier, rwlock, rwwlock) ==
    [thread |-> thread, mutex |-> mutex, count |-> count, queue |-> queue,
     cond |-> cond, barrier |-> barrier, rwlock |-> rwlock, rwwlock |-> rwwlock]

IsCond(cond) == {"mutex", "waiters", "groups", "spurious"} \subseteq DOMAIN cond

IsRWLock(lock) == {"writer", "readers", "readerQ", "writerQ", "acquireQ"} \subseteq DOMAIN lock

IsRWWLock(lock) == {"writer1", "writer2", "readers", "readerQ", "writer1Q", "writer2Q",
                    "acquireQ"} \subseteq DOMAIN lock

HaveFields(s) ==
    /\ s = Whole(s.thread, s.mutex, s.count, s.queue, s.cond, s.barrier, s.rwlock, s.rwwlock)
    /\ s.thread = [t \in Threads |-> s.thread[t]]
    /\ s.mutex = [m \in Mutexes |-> s.mutex[m]]
    /\ s.count = [m \in Sems |-> s.count[m]]
    /\ s.queue = [m \in Sems |-> s.queue[m]]
    /\ s.cond = [c \in Conds |-> s.cond[c]]
    /\ s.rwlock = [l \in RWLocks |-> s.rwlock[l]]
    /\ s.rwwlock = [l \in RWWLocks |-> s.rwwlock[l]]

AreObjects(s) ==
    /\ HaveFields(s)
    /\ \A c \in Conds : IsCond(s.cond[c])
    /\ \A l \in RWLocks : IsRWLock(s.rwlock[l])
    /\ \A l \in RWWLocks : IsRWWLock(s.rwwlock[l])

LEMMA FieldsKept ==
  ASSUME NEW s, HaveFields(s), NEW x
  PROVE  /\ x.type \notin {"start", "finish", "create"} => ThreadAfter(s.thread, x) = s.thread
         /\ x.type \notin {"mutexInit", "lock", "unlock", "condEnqueue", "condWait"} =>
                MutexesAfter(s.mutex, x) = s.mutex
         /\ x.type \notin {"semPost", "semWait"} => CountsAfter(s.count, x) = s.count
         /\ x.type \notin {"semEnqueue", "semWait"} => QueuesAfter(s.queue, x) = s.queue
         /\ x.type \notin {"condEnqueue", "condWait", "signal", "broadcast"} =>
                CondsAfter(s.cond, x) = s.cond
         /\ x.type \notin RWOps \/ x.type = "rwInit" => RWAfter(s.rwlock, x) = s.rwlock
         /\ x.type \notin RWWOps \/ x.type = "rwwInit" => RWWAfter(s.rwwlock, x) = s.rwwlock
<1>1. ASSUME x.type \notin {"start", "finish", "create"}
      PROVE  ThreadAfter(s.thread, x) = s.thread
  BY <1>1 DEF HaveFields, ThreadAfter, WritesThread
<1>2. ASSUME x.type \notin {"mutexInit", "lock", "unlock", "condEnqueue", "condWait"}
      PROVE  MutexesAfter(s.mutex, x) = s.mutex
  BY <1>2 DEF HaveFields, MutexesAfter, Acquires, Releases, Initialises
<1>3. ASSUME x.type \notin {"semPost", "semWait"} PROVE CountsAfter(s.count, x) = s.count
  BY <1>3 DEF HaveFields, CountsAfter
<1>4. ASSUME x.type \notin {"semEnqueue", "semWait"} PROVE QueuesAfter(s.queue, x) = s.queue
  BY <1>4 DEF HaveFields, QueuesAfter
<1>5. ASSUME x.type \notin {"condEnqueue", "condWait", "signal", "broadcast"}
      PROVE  CondsAfter(s.cond, x) = s.cond
  <2>1. \A c : CondAfter(s.cond[c], x) = s.cond[c]
    BY <1>5 DEF CondAfter
  <2> QED BY <2>1 DEF HaveFields, CondsAfter
<1>6. ASSUME x.type \notin RWOps \/ x.type = "rwInit" PROVE RWAfter(s.rwlock, x) = s.rwlock
  <2>1. \A l \in RWLocks : RWAfter(s.rwlock, x)[l] = s.rwlock[l]
    BY <1>6 DEF RWAfter, RWLockAfter
  <2> QED BY <2>1 DEF HaveFields, RWAfter
<1>7. ASSUME x.type \notin RWWOps \/ x.type = "rwwInit" PROVE RWWAfter(s.rwwlock, x) = s.rwwlock
  <2>1. \A l \in RWWLocks : RWWAfter(s.rwwlock, x)[l] = s.rwwlock[l]
    BY <1>7 DEF RWWAfter, RWWLockAfter
  <2> QED BY <2>1 DEF HaveFields, RWWAfter
<1> QED BY <1>1, <1>2, <1>3, <1>4, <1>5, <1>6, <1>7

LEMMA FieldWritten ==
  ASSUME NEW s, HaveFields(s), NEW v
  PROVE  /\ [s EXCEPT !.thread = v] =
                Whole(v, s.mutex, s.count, s.queue, s.cond, s.barrier, s.rwlock, s.rwwlock)
         /\ [s EXCEPT !.mutex = v] =
                Whole(s.thread, v, s.count, s.queue, s.cond, s.barrier, s.rwlock, s.rwwlock)
         /\ [s EXCEPT !.count = v] =
                Whole(s.thread, s.mutex, v, s.queue, s.cond, s.barrier, s.rwlock, s.rwwlock)
         /\ [s EXCEPT !.queue = v] =
                Whole(s.thread, s.mutex, s.count, v, s.cond, s.barrier, s.rwlock, s.rwwlock)
         /\ [s EXCEPT !.cond = v] =
                Whole(s.thread, s.mutex, s.count, s.queue, v, s.barrier, s.rwlock, s.rwwlock)
         /\ [s EXCEPT !.barrier = v] =
                Whole(s.thread, s.mutex, s.count, s.queue, s.cond, v, s.rwlock, s.rwwlock)
         /\ [s EXCEPT !.rwlock = v] =
                Whole(s.thread, s.mutex, s.count, s.queue, s.cond, s.barrier, v, s.rwwlock)
         /\ [s EXCEPT !.rwwlock = v] =
                Whole(s.thread, s.mutex, s.count, s.queue, s.cond, s.barrier, s.rwlock, v)
<1>0. s = Whole(s.thread, s.mutex, s.count, s.queue, s.cond, s.barrier, s.rwlock, s.rwwlock)
  BY DEF HaveFields
<1> QED BY <1>0 DEF Whole

WholeAfter(s, x) ==
    Whole(ThreadAfter(s.thread, x), MutexesAfter(s.mutex, x), CountsAfter(s.count, x),
          QueuesAfter(s.queue, x), CondsAfter(s.cond, x), s.barrier, RWAfter(s.rwlock, x),
          RWWAfter(s.rwwlock, x))

LEMMA WholeRecord ==
  ASSUME NEW th, NEW mu, NEW co, NEW qu, NEW cn, NEW ba, NEW rw, NEW rww, NEW r,
         r = Whole(th, mu, co, qu, cn, ba, rw, rww)
  PROVE  /\ r.thread = th /\ r.mutex = mu /\ r.count = co /\ r.queue = qu
         /\ r.cond = cn /\ r.barrier = ba /\ r.rwlock = rw /\ r.rwwlock = rww
BY DEF Whole

LEMMA WholeFields ==
  ASSUME NEW s, NEW x, NEW r, r = WholeAfter(s, x)
  PROVE  /\ r.thread = ThreadAfter(s.thread, x) /\ r.mutex = MutexesAfter(s.mutex, x)
         /\ r.count = CountsAfter(s.count, x) /\ r.queue = QueuesAfter(s.queue, x)
         /\ r.cond = CondsAfter(s.cond, x) /\ r.barrier = s.barrier
         /\ r.rwlock = RWAfter(s.rwlock, x) /\ r.rwwlock = RWWAfter(s.rwwlock, x)
BY DEF Whole, WholeAfter

LEMMA WholeHasFields ==
  ASSUME NEW s, NEW x
  PROVE  HaveFields(WholeAfter(s, x))
<1> DEFINE r == WholeAfter(s, x)
<1>1. r = Whole(r.thread, r.mutex, r.count, r.queue, r.cond, r.barrier, r.rwlock, r.rwwlock)
  BY DEF Whole, WholeAfter
<1>2. /\ r.thread = ThreadAfter(s.thread, x) /\ r.mutex = MutexesAfter(s.mutex, x)
      /\ r.count = CountsAfter(s.count, x) /\ r.queue = QueuesAfter(s.queue, x)
      /\ r.cond = CondsAfter(s.cond, x) /\ r.rwlock = RWAfter(s.rwlock, x)
      /\ r.rwwlock = RWWAfter(s.rwwlock, x)
  BY WholeFields
<1> HIDE DEF r
<1>3. r.thread = [t \in Threads |-> r.thread[t]]
  BY <1>2 DEF ThreadAfter
<1>4. r.mutex = [m \in Mutexes |-> r.mutex[m]]
  BY <1>2 DEF MutexesAfter
<1>5. r.count = [m \in Sems |-> r.count[m]]
  BY <1>2 DEF CountsAfter
<1>6. r.queue = [m \in Sems |-> r.queue[m]]
  BY <1>2 DEF QueuesAfter
<1>7. r.cond = [c \in Conds |-> r.cond[c]]
  BY <1>2 DEF CondsAfter
<1>8. r.rwlock = [l \in RWLocks |-> r.rwlock[l]]
  BY <1>2 DEF RWAfter
<1>9. r.rwwlock = [l \in RWWLocks |-> r.rwwlock[l]]
  BY <1>2 DEF RWWAfter
<1> QED BY <1>1, <1>3, <1>4, <1>5, <1>6, <1>7, <1>8, <1>9 DEF HaveFields, r

LEMMA ApplyFields ==
  ASSUME NEW s, AreObjects(s), NEW x
  PROVE  Apply(s, x) = WholeAfter(s, x)
<1> USE DEF AreObjects
<1>1. CASE x.type \in {"start", "create", "finish"}
  <2> DEFINE t == IF x.type = "create" THEN x.obj ELSE x.tid
             state == IF x.type = "finish" THEN "dead" ELSE "alive"
  <2>1. ThreadAfter(s.thread, x) = [s.thread EXCEPT ![t] = state]
    BY <1>1 DEF ThreadAfter, WritesThread, HaveFields
  <2>2. Apply(s, x) = [s EXCEPT !.thread = [s.thread EXCEPT ![t] = state]]
    BY <1>1, ApplyByType DEF StartThread, CreateThread, FinishThread, Spawn, Die
  <2> HIDE DEF t, state
  <2>3. Apply(s, x) = [s EXCEPT !.thread = ThreadAfter(s.thread, x)]
    BY <2>1, <2>2
  <2>4. [s EXCEPT !.thread = ThreadAfter(s.thread, x)] =
            Whole(ThreadAfter(s.thread, x), s.mutex, s.count, s.queue, s.cond, s.barrier, s.rwlock, s.rwwlock)
    BY FieldWritten
  <2> QED BY <1>1, <2>3, <2>4, FieldsKept DEF WholeAfter, RWOps, RWWOps
<1>2. CASE x.type \in {"mutexInit", "lock", "unlock"}
  <2> DEFINE state == IF x.type = "lock" THEN "locked" ELSE "unlocked"
  <2>1. MutexesAfter(s.mutex, x) = [s.mutex EXCEPT ![x.obj] = state]
    BY <1>2 DEF MutexesAfter, Acquires, Releases, Initialises, HaveFields
  <2>2. Apply(s, x) = [s EXCEPT !.mutex = [s.mutex EXCEPT ![x.obj] = state]]
    BY <1>2, ApplyByType DEF InitMutex, LockMutex, UnlockMutex
  <2> HIDE DEF state
  <2>3. Apply(s, x) = [s EXCEPT !.mutex = MutexesAfter(s.mutex, x)]
    BY <2>1, <2>2
  <2>4. [s EXCEPT !.mutex = MutexesAfter(s.mutex, x)] =
            Whole(s.thread, MutexesAfter(s.mutex, x), s.count, s.queue, s.cond,
                  s.barrier, s.rwlock, s.rwwlock)
    BY FieldWritten
  <2> QED BY <1>2, <2>3, <2>4, FieldsKept DEF WholeAfter, RWOps, RWWOps
<1>3. CASE x.type = "semPost"
  <2>1. CountsAfter(s.count, x) = [s.count EXCEPT ![x.obj] = s.count[x.obj] + 1]
    BY <1>3 DEF CountsAfter, HaveFields
  <2>2. Apply(s, x) = [s EXCEPT !.count = [s.count EXCEPT ![x.obj] = s.count[x.obj] + 1]]
    BY <1>3 DEF Apply, PostSem
  <2>3. Apply(s, x) = [s EXCEPT !.count = CountsAfter(s.count, x)]
    BY <2>1, <2>2
  <2>4. [s EXCEPT !.count = CountsAfter(s.count, x)] =
            Whole(s.thread, s.mutex, CountsAfter(s.count, x), s.queue, s.cond, s.barrier, s.rwlock, s.rwwlock)
    BY FieldWritten
  <2> QED BY <1>3, <2>3, <2>4, FieldsKept DEF WholeAfter, RWOps, RWWOps
<1>4. CASE x.type = "semEnqueue"
  <2>1. QueuesAfter(s.queue, x) = [s.queue EXCEPT ![x.obj] = Append(s.queue[x.obj], x.tid)]
    BY <1>4 DEF QueuesAfter, HaveFields
  <2>2. Apply(s, x) = [s EXCEPT !.queue = [s.queue EXCEPT ![x.obj] = Append(s.queue[x.obj], x.tid)]]
    BY <1>4 DEF Apply, EnterQueue
  <2>3. Apply(s, x) = [s EXCEPT !.queue = QueuesAfter(s.queue, x)]
    BY <2>1, <2>2
  <2>4. [s EXCEPT !.queue = QueuesAfter(s.queue, x)] =
            Whole(s.thread, s.mutex, s.count, QueuesAfter(s.queue, x), s.cond, s.barrier, s.rwlock, s.rwwlock)
    BY FieldWritten
  <2> QED BY <1>4, <2>3, <2>4, FieldsKept DEF WholeAfter, RWOps, RWWOps
<1>5. CASE x.type = "semWait"
  <2> DEFINE one == [s EXCEPT !.count = CountsAfter(s.count, x)]
             left == IF s.count[x.obj] > 0 THEN s.count[x.obj] - 1 ELSE s.count[x.obj]
  <2>1. CountsAfter(s.count, x) = [s.count EXCEPT ![x.obj] = left]
    BY <1>5 DEF CountsAfter, HaveFields
  <2>2. QueuesAfter(s.queue, x) = [s.queue EXCEPT ![x.obj] = Without(s.queue[x.obj], x.tid)]
    BY <1>5 DEF QueuesAfter, HaveFields
  <2>3. one = Whole(s.thread, s.mutex, CountsAfter(s.count, x), s.queue, s.cond, s.barrier,
                    s.rwlock, s.rwwlock)
    BY FieldWritten
  <2>4. HaveFields(one) /\ one.queue = s.queue
    BY <2>3 DEF HaveFields, Whole, CountsAfter
  <2>5. Apply(s, x) = [[s EXCEPT !.count = [s.count EXCEPT ![x.obj] = left]]
                          EXCEPT !.queue = [s.queue EXCEPT ![x.obj] = Without(s.queue[x.obj], x.tid)]]
    <3>1. Apply(s, x) = WaitSem(s, x)
      BY <1>5 DEF Apply
    <3>2. [s EXCEPT !.count = [s.count EXCEPT ![x.obj] = left]].queue = s.queue
      BY <2>1, <2>4
    <3> QED BY <3>1, <3>2 DEF WaitSem
  <2>6. Apply(s, x) = [one EXCEPT !.queue = QueuesAfter(s.queue, x)]
    BY <2>1, <2>2, <2>5
  <2> HIDE DEF one, left
  <2>8. [one EXCEPT !.queue = QueuesAfter(s.queue, x)] =
            Whole(one.thread, one.mutex, one.count, QueuesAfter(s.queue, x), one.cond,
                  one.barrier, one.rwlock, one.rwwlock)
    BY <2>4, FieldWritten
  <2> QED BY <1>5, <2>3, <2>6, <2>8, FieldsKept DEF WholeAfter, Whole, RWOps, RWWOps
<1>6. CASE x.type \in {"signal", "broadcast"}
  <2>1. CondsAfter(s.cond, x) = [s.cond EXCEPT ![x.obj] = PushWakeupGroup(s.cond[x.obj])]
    BY <1>6 DEF CondsAfter, CondAfter, HaveFields
  <2>2. Apply(s, x) = [s EXCEPT !.cond = [s.cond EXCEPT ![x.obj] = PushWakeupGroup(s.cond[x.obj])]]
    BY <1>6 DEF Apply, SendSignal
  <2>3. Apply(s, x) = [s EXCEPT !.cond = CondsAfter(s.cond, x)]
    BY <2>1, <2>2
  <2>4. [s EXCEPT !.cond = CondsAfter(s.cond, x)] =
            Whole(s.thread, s.mutex, s.count, s.queue, CondsAfter(s.cond, x), s.barrier, s.rwlock, s.rwwlock)
    BY FieldWritten
  <2> QED BY <1>6, <2>3, <2>4, FieldsKept DEF WholeAfter, RWOps, RWWOps
<1>7. CASE x.type = "condEnqueue"
  <2> DEFINE m == CondMutex[x.obj]
             joined == [s.cond[x.obj] EXCEPT !.waiters = s.cond[x.obj].waiters \cup {x.tid}]
             cond1 == [s.cond EXCEPT ![x.obj] = joined]
             cond2 == [cond1 EXCEPT ![x.obj] = [cond1[x.obj] EXCEPT !.mutex = {m}]]
             mutex1 == [s.mutex EXCEPT ![m] = "unlocked"]
             one == [s EXCEPT !.cond = cond1]
             two == [one EXCEPT !.cond = cond2]
  <2>1. one.cond = cond1 /\ HaveFields(one) /\ one.mutex = s.mutex
    <3>1. one = Whole(s.thread, s.mutex, s.count, s.queue, cond1, s.barrier, s.rwlock, s.rwwlock)
      BY FieldWritten
    <3>2. cond1 = [c \in Conds |-> cond1[c]]
      BY DEF HaveFields
    <3> HIDE DEF cond1, one
    <3> QED BY <3>1, <3>2 DEF HaveFields, Whole
  <2>2. Apply(s, x) = [two EXCEPT !.mutex = [two.mutex EXCEPT ![m] = "unlocked"]]
    <3>1. Apply(s, x) = EnqueueWaiter(s, x)
      BY <1>7 DEF Apply
    <3> QED BY <2>1, <3>1 DEF EnqueueWaiter
  <2>3. MutexesAfter(s.mutex, x) = mutex1
    BY <1>7 DEF MutexesAfter, Acquires, Releases, Initialises, HaveFields
  <2>4. CondsAfter(s.cond, x) = cond2
    <3>1. CondsAfter(s.cond, x) =
            [s.cond EXCEPT ![x.obj] = [joined EXCEPT !.mutex = {m}]]
      BY <1>7 DEF CondsAfter, CondAfter, HaveFields
    <3>2. x.obj \in Conds => cond1[x.obj] = joined
      BY DEF HaveFields
    <3>3. cond2 = [s.cond EXCEPT ![x.obj] = [joined EXCEPT !.mutex = {m}]]
      BY <3>2 DEF HaveFields
    <3> QED BY <3>1, <3>3
  <2> HIDE DEF cond1, cond2, mutex1, m
  <2>5. two = Whole(one.thread, one.mutex, one.count, one.queue, cond2, one.barrier,
                    one.rwlock, one.rwwlock)
    BY <2>1, FieldWritten
  <2>6. one = Whole(s.thread, s.mutex, s.count, s.queue, cond1, s.barrier, s.rwlock, s.rwwlock)
    BY FieldWritten
  <2> HIDE DEF one, two
  <2>7. two = Whole(s.thread, s.mutex, s.count, s.queue, cond2, s.barrier, s.rwlock, s.rwwlock)
    BY <2>5, <2>6 DEF Whole
  <2>8. two.mutex = s.mutex
    BY <2>7 DEF Whole
  <2>9. Apply(s, x) = [two EXCEPT !.mutex = mutex1]
    BY <2>2, <2>8 DEF mutex1
  <2>10. Apply(s, x) = Whole(s.thread, mutex1, s.count, s.queue, cond2, s.barrier, s.rwlock, s.rwwlock)
    BY <2>7, <2>9 DEF Whole
  <2> QED BY <1>7, <2>3, <2>4, <2>10, FieldsKept DEF WholeAfter, RWOps, RWWOps
<1>8. CASE x.type = "condWait"
  <2> DEFINE m == CondMutex[x.obj]
             mutex1 == [s.mutex EXCEPT ![m] = "locked"]
             cond1 == [s.cond EXCEPT ![x.obj] = RemoveWaiter(s.cond[x.obj], x.tid)]
             one == [s EXCEPT !.mutex = mutex1]
  <2>1. one = Whole(s.thread, mutex1, s.count, s.queue, s.cond, s.barrier, s.rwlock, s.rwwlock)
    BY FieldWritten
  <2>2. one.cond = s.cond
    BY <2>1 DEF Whole
  <2>3. Apply(s, x) = [one EXCEPT !.cond = cond1]
    <3>1. Apply(s, x) = WakeAndLock(s, x)
      BY <1>8 DEF Apply
    <3> QED BY <2>2, <3>1 DEF WakeAndLock
  <2>4. MutexesAfter(s.mutex, x) = mutex1
    BY <1>8 DEF MutexesAfter, Acquires, Releases, Initialises, HaveFields
  <2>5. CondsAfter(s.cond, x) = cond1
    BY <1>8 DEF CondsAfter, CondAfter, HaveFields
  <2> HIDE DEF mutex1, cond1, one
  <2>6. Apply(s, x) = Whole(s.thread, mutex1, s.count, s.queue, cond1, s.barrier, s.rwlock, s.rwwlock)
    BY <2>1, <2>3 DEF Whole
  <2> QED BY <1>8, <2>4, <2>5, <2>6, FieldsKept DEF WholeAfter, RWOps, RWWOps
<1>9. CASE x.type \in RWOps \ {"rwInit"}
  <2>1. RWAfter(s.rwlock, x) = [s.rwlock EXCEPT ![x.obj] = RWLockAfter(s.rwlock[x.obj], x)]
    BY <1>9 DEF RWAfter, HaveFields
  <2>2. Apply(s, x) = [s EXCEPT !.rwlock = [s.rwlock EXCEPT ![x.obj] = RWLockAfter(s.rwlock[x.obj], x)]]
    BY <1>9, ApplyByType DEF RWOps, RWLockAfter, EnqueueAsReader, EnqueueAsWriter,
      ReaderLock, WriterLock, UnlockRW
  <2>3. Apply(s, x) = [s EXCEPT !.rwlock = RWAfter(s.rwlock, x)]
    BY <2>1, <2>2
  <2> DEFINE locks == RWAfter(s.rwlock, x)
  <2> HIDE DEF locks
  <2>5. [s EXCEPT !.rwlock = locks] =
            Whole(s.thread, s.mutex, s.count, s.queue, s.cond, s.barrier, locks, s.rwwlock)
    <3>1. s = Whole(s.thread, s.mutex, s.count, s.queue, s.cond, s.barrier, s.rwlock, s.rwwlock)
      BY DEF HaveFields
    <3> QED BY ONLY <3>1 DEF Whole
  <2> USE DEF locks
  <2> QED BY <1>9, <2>3, <2>5, FieldsKept DEF WholeAfter, RWOps, RWWOps
<1>10. CASE x.type \in RWWOps \ {"rwwInit"}
  <2>1. RWWAfter(s.rwwlock, x) = [s.rwwlock EXCEPT ![x.obj] = RWWLockAfter(s.rwwlock[x.obj], x)]
    BY <1>10 DEF RWWAfter, HaveFields
  <2>2. Apply(s, x) = [s EXCEPT !.rwwlock = [s.rwwlock EXCEPT ![x.obj] = RWWLockAfter(s.rwwlock[x.obj], x)]]
    BY <1>10, ApplyByType DEF RWWOps, RWWLockAfter, RWWEnqueueAsReader, RWWReaderLock,
      EnqueueAsWriter1, Writer1Lock, EnqueueAsWriter2, Writer2Lock, UnlockRWW
  <2>3. Apply(s, x) = [s EXCEPT !.rwwlock = RWWAfter(s.rwwlock, x)]
    BY <2>1, <2>2
  <2> DEFINE locks == RWWAfter(s.rwwlock, x)
  <2> HIDE DEF locks
  <2>5. [s EXCEPT !.rwwlock = locks] =
            Whole(s.thread, s.mutex, s.count, s.queue, s.cond, s.barrier, s.rwlock, locks)
    <3>1. s = Whole(s.thread, s.mutex, s.count, s.queue, s.cond, s.barrier, s.rwlock, s.rwwlock)
      BY DEF HaveFields
    <3> QED BY ONLY <3>1 DEF Whole
  <2> USE DEF locks
  <2> QED BY <1>10, <2>3, <2>5, FieldsKept DEF WholeAfter, RWOps, RWWOps
<1>11. CASE x.type \notin {"start", "create", "finish", "mutexInit", "lock", "unlock", "semPost",
                           "semEnqueue", "semWait", "signal", "broadcast", "condEnqueue", "condWait"}
                          \cup (RWOps \ {"rwInit"}) \cup (RWWOps \ {"rwwInit"})
  <2>1. Apply(s, x) = s
    BY <1>11 DEF Apply, RWOps, RWWOps
  <2> QED BY <1>11, <2>1, FieldsKept DEF WholeAfter, HaveFields, RWOps, RWWOps
<1> QED BY <1>1, <1>2, <1>3, <1>4, <1>5, <1>6, <1>7, <1>8, <1>9, <1>10, <1>11

LEMMA CondKept ==
  ASSUME NEW cond, IsCond(cond), NEW x
  PROVE  IsCond(CondAfter(cond, x))
<1>1. IsCond([cond EXCEPT !.waiters = @ \cup {x.tid}, !.mutex = {CondMutex[x.obj]}])
  BY DEF IsCond
<1>2. IsCond(RemoveWaiter(cond, x.tid))
  BY DEF IsCond, RemoveWaiter
<1>3. IsCond(PushWakeupGroup(cond))
  BY DEF IsCond, PushWakeupGroup
<1> QED BY <1>1, <1>2, <1>3 DEF CondAfter

LEMMA RWLockKept ==
  ASSUME NEW lock, IsRWLock(lock), NEW x
  PROVE  IsRWLock(RWLockAfter(lock, x))
<1> USE DEF IsRWLock
<1>1. IsRWLock(EnterAsReader(lock, x.tid)) /\ IsRWLock(EnterAsWriter(lock, x.tid))
  BY DEF EnterAsReader, EnterAsWriter
<1>2. IsRWLock(LockAsReader(lock, x.tid))
  BY DEF LockAsReader
<1>3. IsRWLock(LockAsWriter(lock, x.tid))
  BY DEF LockAsWriter
<1>4. IsRWLock(Release(lock, x.tid))
  BY DEF Release
<1> QED BY <1>1, <1>2, <1>3, <1>4 DEF RWLockAfter

LEMMA RWWLockKept ==
  ASSUME NEW lock, IsRWWLock(lock), NEW x
  PROVE  IsRWWLock(RWWLockAfter(lock, x))
<1>1. IsRWWLock(RWWEnterAsReader(lock, x.tid))
  BY DEF IsRWWLock, RWWEnterAsReader
<1>2. IsRWWLock(EnterAsWriter1(lock, x.tid)) /\ IsRWWLock(EnterAsWriter2(lock, x.tid))
  BY DEF IsRWWLock, EnterAsWriter1, EnterAsWriter2
<1>3. IsRWWLock(RWWLockAsReader(lock, x.tid))
  BY DEF IsRWWLock, RWWLockAsReader
<1>4. IsRWWLock(LockAsWriter1(lock, x.tid)) /\ IsRWWLock(LockAsWriter2(lock, x.tid))
  BY DEF IsRWWLock, LockAsWriter1, LockAsWriter2
<1>5. IsRWWLock(RWWRelease(lock, x.tid))
  BY DEF IsRWWLock, RWWRelease
<1> QED BY <1>1, <1>2, <1>3, <1>4, <1>5 DEF RWWLockAfter

LEMMA ApplyKeeps ==
  ASSUME NEW s, AreObjects(s), NEW x
  PROVE  AreObjects(Apply(s, x))
<1> DEFINE r == WholeAfter(s, x)
<1>1. Apply(s, x) = r
  BY ApplyFields
<1>2. HaveFields(r)
  BY WholeHasFields
<1>3. /\ r.cond = CondsAfter(s.cond, x) /\ r.rwlock = RWAfter(s.rwlock, x)
      /\ r.rwwlock = RWWAfter(s.rwwlock, x)
  BY WholeFields
<1> HIDE DEF r
<1>4. ASSUME NEW c \in Conds PROVE IsCond(r.cond[c])
  BY <1>3, CondKept DEF AreObjects, CondsAfter
<1>5. ASSUME NEW l \in RWLocks PROVE IsRWLock(r.rwlock[l])
  BY <1>3, RWLockKept DEF AreObjects, RWAfter
<1>6. ASSUME NEW l \in RWWLocks PROVE IsRWWLock(r.rwwlock[l])
  BY <1>3, RWWLockKept DEF AreObjects, RWWAfter
<1> QED BY <1>1, <1>2, <1>4, <1>5, <1>6 DEF AreObjects

LEMMA ThreadWritten ==
  ASSUME NEW s, AreObjects(s), NEW v, v = [t \in Threads |-> v[t]], NEW r,
         r = [s EXCEPT !.thread = v]
  PROVE  /\ AreObjects(r) /\ r.thread = v
         /\ r.mutex = s.mutex /\ r.count = s.count /\ r.queue = s.queue /\ r.cond = s.cond
         /\ r.barrier = s.barrier /\ r.rwlock = s.rwlock /\ r.rwwlock = s.rwwlock
<1>1. r = Whole(v, s.mutex, s.count, s.queue, s.cond, s.barrier, s.rwlock, s.rwwlock)
  BY FieldWritten DEF AreObjects
<1>2. /\ r.thread = v /\ r.mutex = s.mutex /\ r.count = s.count /\ r.queue = s.queue
      /\ r.cond = s.cond /\ r.barrier = s.barrier /\ r.rwlock = s.rwlock /\ r.rwwlock = s.rwwlock
  BY <1>1 DEF Whole
<1>3. HaveFields(r)
  BY <1>1, <1>2 DEF AreObjects, HaveFields
<1> QED BY <1>2, <1>3 DEF AreObjects

LEMMA MutexWritten ==
  ASSUME NEW s, AreObjects(s), NEW v, v = [m \in Mutexes |-> v[m]], NEW r,
         r = [s EXCEPT !.mutex = v]
  PROVE  /\ AreObjects(r) /\ r.mutex = v
         /\ r.thread = s.thread /\ r.count = s.count /\ r.queue = s.queue /\ r.cond = s.cond
         /\ r.barrier = s.barrier /\ r.rwlock = s.rwlock /\ r.rwwlock = s.rwwlock
<1>1. r = Whole(s.thread, v, s.count, s.queue, s.cond, s.barrier, s.rwlock, s.rwwlock)
  BY FieldWritten DEF AreObjects
<1>2. /\ r.thread = s.thread /\ r.mutex = v /\ r.count = s.count /\ r.queue = s.queue
      /\ r.cond = s.cond /\ r.barrier = s.barrier /\ r.rwlock = s.rwlock /\ r.rwwlock = s.rwwlock
  BY <1>1 DEF Whole
<1>3. HaveFields(r)
  BY <1>1, <1>2 DEF AreObjects, HaveFields
<1> QED BY <1>2, <1>3 DEF AreObjects

\* What undoing an operation does.
AfterUndoing(s, x, r) ==
    /\ AreObjects(r)
    /\ r.count = s.count /\ r.queue = s.queue /\ r.cond = s.cond
    /\ r.barrier = s.barrier /\ r.rwlock = s.rwlock /\ r.rwwlock = s.rwwlock
    /\ r.thread = [t \in Threads |-> IF x.type = "finish" /\ t = x.tid THEN "alive"
                                     ELSE s.thread[t]]
    /\ r.mutex = [m \in Mutexes |-> IF x.type = "unlock" /\ m = x.obj THEN "locked"
                                    ELSE IF x.type = "mutexInit" /\ m = x.obj THEN "undefined"
                                    ELSE s.mutex[m]]

LEMMA UnapplyFields ==
  ASSUME NEW s, AreObjects(s), NEW x, NEW r, r = Unapply(s, x)
  PROVE  AfterUndoing(s, x, r)
<1> USE DEF AfterUndoing
<1>0. /\ s.thread = [t \in Threads |-> s.thread[t]] /\ s.mutex = [m \in Mutexes |-> s.mutex[m]]
  BY DEF AreObjects, HaveFields
<1>1. CASE x.type = "finish"
  <2> DEFINE v == [s.thread EXCEPT ![x.tid] = "alive"]
  <2>1. v = [t \in Threads |-> v[t]] /\ v = [t \in Threads |-> IF t = x.tid THEN "alive" ELSE s.thread[t]]
    BY <1>0
  <2>2. r = [s EXCEPT !.thread = v]
    BY <1>1 DEF Unapply, UndoFinish, Spawn
  <2> HIDE DEF v
  <2>3. /\ AreObjects(r) /\ r.thread = v
        /\ r.mutex = s.mutex /\ r.count = s.count /\ r.queue = s.queue /\ r.cond = s.cond
        /\ r.barrier = s.barrier /\ r.rwlock = s.rwlock /\ r.rwwlock = s.rwwlock
    BY <2>1, <2>2, ThreadWritten
  <2> QED BY <1>0, <1>1, <2>1, <2>3
<1>2. CASE x.type \in {"unlock", "mutexInit"}
  <2> DEFINE v == [s.mutex EXCEPT ![x.obj] = IF x.type = "unlock" THEN "locked" ELSE "undefined"]
  <2>1. v = [m \in Mutexes |-> v[m]] /\ v = [m \in Mutexes |-> IF m = x.obj
             THEN IF x.type = "unlock" THEN "locked" ELSE "undefined" ELSE s.mutex[m]]
    BY <1>0
  <2>2. r = [s EXCEPT !.mutex = v]
    BY <1>2 DEF Unapply, UndoUnlock, UndoInit
  <2> HIDE DEF v
  <2>3. /\ AreObjects(r) /\ r.mutex = v
        /\ r.thread = s.thread /\ r.count = s.count /\ r.queue = s.queue /\ r.cond = s.cond
        /\ r.barrier = s.barrier /\ r.rwlock = s.rwlock /\ r.rwwlock = s.rwwlock
    BY <2>1, <2>2, MutexWritten
  <2> QED BY <1>0, <1>2, <2>1, <2>3
<1>3. CASE x.type \notin {"finish", "unlock", "mutexInit"}
  <2>1. r = s
    BY <1>3 DEF Unapply
  <2> QED BY <1>0, <1>3, <2>1
<1> QED BY <1>1, <1>2, <1>3

\* What reading an operation does.
AfterReading(s, x, r) ==
    /\ AreObjects(r)
    /\ r.thread = s.thread /\ r.mutex = s.mutex /\ r.count = s.count /\ r.queue = s.queue
    /\ r.rwlock = s.rwlock /\ r.rwwlock = s.rwwlock
    /\ x.type # "barrierWait" => r.barrier = s.barrier
    /\ x.type # "condEnqueue" => r.cond = s.cond
    /\ \A c \in Conds : /\ r.cond[c].waiters = s.cond[c].waiters
                        /\ r.cond[c].groups = s.cond[c].groups
                        /\ r.cond[c].spurious = s.cond[c].spurious

LEMMA ReadFields ==
  ASSUME NEW s, AreObjects(s), NEW x, NEW r, r = WhenRead(s, x)
  PROVE  AfterReading(s, x, r)
<1> USE DEF AfterReading
<1>1. CASE x.type = "condEnqueue"
  <2> DEFINE v == [s.cond EXCEPT ![x.obj] = [s.cond[x.obj] EXCEPT !.mutex = {CondMutex[x.obj]}]]
  <2>1. r = [s EXCEPT !.cond = v]
    BY <1>1 DEF WhenRead, ReadCondEnqueue
  <2>2. /\ v = [c \in Conds |-> v[c]]
        /\ \A c \in Conds : /\ IsCond(v[c]) /\ v[c].waiters = s.cond[c].waiters
                            /\ v[c].groups = s.cond[c].groups /\ v[c].spurious = s.cond[c].spurious
    BY DEF AreObjects, HaveFields, IsCond
  <2> HIDE DEF v
  <2>3. r = Whole(s.thread, s.mutex, s.count, s.queue, v, s.barrier, s.rwlock, s.rwwlock)
    BY <2>1, FieldWritten DEF AreObjects
  <2>4. /\ r.thread = s.thread /\ r.mutex = s.mutex /\ r.count = s.count /\ r.queue = s.queue
        /\ r.cond = v /\ r.barrier = s.barrier /\ r.rwlock = s.rwlock /\ r.rwwlock = s.rwwlock
    BY <2>3 DEF Whole
  <2>5. HaveFields(r)
    BY <2>2, <2>3, <2>4 DEF AreObjects, HaveFields
  <2> QED BY <1>1, <2>2, <2>4, <2>5 DEF AreObjects
<1>2. CASE x.type = "barrierWait"
  <2>1. PICK v : r = [s EXCEPT !.barrier = v]
    <3>1. CASE r = s
      <4>1. s = [s EXCEPT !.barrier = s.barrier]
        BY FieldWritten DEF AreObjects, HaveFields
      <4> QED BY <3>1, <4>1
    <3>2. CASE r # s
      <4>1. r = WaitOnBarrier(s, x)
        BY <1>2 DEF WhenRead
      <4>2. \E w : r = [s EXCEPT !.barrier[x.obj] = w]
        BY <3>2, <4>1 DEF WaitOnBarrier
      <4>3. PICK w : r = [s EXCEPT !.barrier[x.obj] = w]
        BY <4>2
      <4>4. r = [s EXCEPT !.barrier = [s.barrier EXCEPT ![x.obj] = w]]
        BY <4>3
      <4> QED BY <4>4
    <3> QED BY <3>1, <3>2
  <2>2. r = Whole(s.thread, s.mutex, s.count, s.queue, s.cond, v, s.rwlock, s.rwwlock)
    BY <2>1, FieldWritten DEF AreObjects
  <2>3. /\ r.thread = s.thread /\ r.mutex = s.mutex /\ r.count = s.count /\ r.queue = s.queue
        /\ r.cond = s.cond /\ r.rwlock = s.rwlock /\ r.rwwlock = s.rwwlock /\ r.barrier = v
    BY <2>2 DEF Whole
  <2>4. HaveFields(r)
    BY <2>2, <2>3 DEF AreObjects, HaveFields
  <2> QED BY <1>2, <2>3, <2>4 DEF AreObjects
<1>3. CASE x.type \notin {"condEnqueue", "barrierWait"}
  BY <1>3 DEF WhenRead
<1> QED BY <1>1, <1>2, <1>3

Fresh == StartState.objs

LEMMA FreshFields ==
  /\ AreObjects(InitialObjects) /\ AreObjects(Fresh)
  /\ StartState.pc = [t \in Threads |-> 0]
  /\ Fresh.thread = [t \in Threads |-> IF t = Main THEN "alive" ELSE "embryo"]
  /\ InitialObjects.thread = [t \in Threads |-> "embryo"]
  /\ InitialObjects = [Fresh EXCEPT !.thread = InitialObjects.thread]
  /\ Fresh.mutex = [m \in Mutexes |-> "undefined"]
  /\ Fresh.cond = InitialConds /\ Fresh.rwlock = InitialRWLocks /\ Fresh.rwwlock = InitialRWWLocks
<1> DEFINE i == InitialObjects
<1>1. i = Whole([t \in Threads |-> "embryo"], [m \in Mutexes |-> "undefined"], SemCount,
            [s \in Sems |-> <<>>], InitialConds, [b \in Barriers |-> FreshBarrier],
            InitialRWLocks, InitialRWWLocks)
  BY DEF InitialObjects, Whole
<1>2. /\ i.thread = [t \in Threads |-> "embryo"] /\ i.mutex = [m \in Mutexes |-> "undefined"]
      /\ i.count = SemCount /\ i.queue = [s \in Sems |-> <<>>] /\ i.cond = InitialConds
      /\ i.rwlock = InitialRWLocks /\ i.rwwlock = InitialRWWLocks
      /\ i.barrier = [b \in Barriers |-> FreshBarrier]
  BY <1>1 DEF Whole
<1>3. HaveFields(i)
  <2>1. /\ SemCount = [s \in Sems |-> SemCount[s]]
        /\ InitialConds = [c \in Conds |-> InitialConds[c]]
        /\ InitialRWLocks = [l \in RWLocks |-> InitialRWLocks[l]]
        /\ InitialRWWLocks = [l \in RWWLocks |-> InitialRWWLocks[l]]
    BY SemCountAssumption DEF InitialConds, InitialRWLocks, InitialRWWLocks
  <2> HIDE DEF i
  <2> QED BY <1>1, <1>2, <2>1 DEF HaveFields
<1>4. AreObjects(i)
  <2> HIDE DEF i
  <2>1. \A c \in Conds : IsCond(i.cond[c])
    BY <1>2 DEF InitialConds, IsCond
  <2>2. \A l \in RWLocks : IsRWLock(i.rwlock[l])
    BY <1>2 DEF InitialRWLocks, IsRWLock
  <2>3. \A l \in RWWLocks : IsRWWLock(i.rwwlock[l])
    BY <1>2 DEF InitialRWWLocks, IsRWWLock
  <2> QED BY <1>3, <2>1, <2>2, <2>3 DEF AreObjects
<1> DEFINE v == [i.thread EXCEPT ![Main] = "alive"]
<1>5. Fresh = [i EXCEPT !.thread = v] /\ StartState.pc = [t \in Threads |-> 0]
  BY DEF Fresh, StartState
<1>6. v = [t \in Threads |-> v[t]] /\ v = [t \in Threads |-> IF t = Main THEN "alive" ELSE "embryo"]
  BY <1>2
<1> HIDE DEF v, i
<1>7. /\ AreObjects(Fresh) /\ Fresh.thread = v
      /\ Fresh.mutex = i.mutex /\ Fresh.count = i.count /\ Fresh.queue = i.queue
      /\ Fresh.cond = i.cond /\ Fresh.barrier = i.barrier
      /\ Fresh.rwlock = i.rwlock /\ Fresh.rwwlock = i.rwwlock
  BY <1>4, <1>5, <1>6, ThreadWritten
<1>8. [Fresh EXCEPT !.thread = i.thread] = Whole(i.thread, Fresh.mutex, Fresh.count, Fresh.queue,
          Fresh.cond, Fresh.barrier, Fresh.rwlock, Fresh.rwwlock)
  BY <1>7, FieldWritten DEF AreObjects
<1>9. i = [Fresh EXCEPT !.thread = i.thread]
  BY <1>7, <1>8, <1>3 DEF HaveFields
<1> QED BY <1>2, <1>4, <1>5, <1>6, <1>7, <1>9 DEF i

-----------------------------------------------------------------------------
(* The objects after each transition of a trace, and how often each thread  *)
(* ran in it.                                                               *)

IsAlong(h, q) == h = [k \in 0..Len(q) |-> h[k]] /\ Takes("run", Main, Fresh, q, h)

Along(q) == CHOOSE h : IsAlong(h, q)

LEMMA AlongStack ==
  ASSUME NEW q, IsStack(q)
  PROVE  /\ IsAlong(Along(q), q)
         /\ Along(q)[0] = Fresh
         /\ \A i \in 1..Len(q) : Along(q)[i] = Apply(Along(q)[i - 1], q[i])
<1>1. PICK g : LeftFold("run", Main, g, Fresh, q, Len(q))
  BY Stack, LeftFoldExists
<1>2. \E h : IsAlong(h, q)
  BY <1>1, FoldTakes DEF IsAlong
<1>3. IsAlong(Along(q), q)
  BY <1>2 DEF Along
<1> QED BY <1>3 DEF IsAlong, Takes, Turn

LEMMA AlongAlike ==
  ASSUME NEW q, IsStack(q), NEW r, IsStack(r), NEW n \in Nat, n <= Len(q), n <= Len(r),
         \A i \in 1..n : q[i] = r[i]
  PROVE  \A k \in 0..n : Along(q)[k] = Along(r)[k]
BY AlongStack, TakesAlike DEF IsAlong

LEMMA AlongObjects ==
  ASSUME NEW q, IsStack(q)
  PROVE  \A k \in 0..Len(q) : AreObjects(Along(q)[k])
<1> DEFINE S == {k \in Nat : k <= Len(q) => AreObjects(Along(q)[k])}
<1>0. Len(q) \in Nat
  BY Stack
<1>1. 0 \in S
  BY AlongStack, FreshFields
<1>2. ASSUME NEW k \in Nat, k \in S PROVE k + 1 \in S
  <2> SUFFICES ASSUME k + 1 <= Len(q) PROVE AreObjects(Along(q)[k + 1])
    OBVIOUS
  <2>1. k + 1 \in 1..Len(q) /\ (k + 1) - 1 = k /\ k <= Len(q)
    BY <1>0
  <2>2. Along(q)[k + 1] = Apply(Along(q)[k], q[k + 1])
    BY <2>1, AlongStack
  <2> QED BY <1>2, <2>1, <2>2, ApplyKeeps
<1> HIDE DEF S
<1>3. \A k \in Nat : k \in S
  BY <1>1, <1>2, NatSetInduction
<1> QED BY <1>0, <1>3 DEF S

\* Replaying a trace that begins with the start of main, in the objects as they were
\* registered, before main was alive.
LEMMA Replayed ==
  ASSUME NEW q, IsStack(q), Len(q) >= 1, q[1].type = "start", q[1].tid = Main
  PROVE  FoldLeft(Apply, InitialObjects, q) = Along(q)[Len(q)]
<1>0. Len(q) \in Nat
  BY Stack
<1>1. PICK h : Takes("run", Main, InitialObjects, q, h) /\ FoldLeft(Apply, InitialObjects, q) = h[Len(q)]
  BY RunOneByOne
<1>2. h[0] = InitialObjects /\ \A i \in 1..Len(q) : h[i] = Apply(h[i - 1], q[i])
  BY <1>1 DEF Takes, Turn
<1>3. h[1] = Along(q)[1]
  <2>1. 1 \in 1..Len(q) /\ 1 - 1 = 0
    BY <1>0
  <2>2. h[1] = Apply(InitialObjects, q[1]) /\ Along(q)[1] = Apply(Fresh, q[1])
    BY <1>2, <2>1, AlongStack
  <2>3. \A s : Apply(s, q[1]) = [s EXCEPT !.thread[Main] = "alive"]
    BY ApplyByType DEF StartThread, Spawn
  <2>4. h[1] = Fresh
    BY <2>2, <2>3 DEF Fresh, StartState
  <2>5. Fresh = [Fresh EXCEPT !.thread[Main] = "alive"]
    <3> DEFINE v == [Fresh.thread EXCEPT ![Main] = "alive"]
    <3>1. v = Fresh.thread
      BY FreshFields
    <3>2. [Fresh EXCEPT !.thread = v] = Whole(v, Fresh.mutex, Fresh.count, Fresh.queue, Fresh.cond,
              Fresh.barrier, Fresh.rwlock, Fresh.rwwlock)
      BY FreshFields, FieldWritten DEF AreObjects
    <3>3. Fresh = Whole(Fresh.thread, Fresh.mutex, Fresh.count, Fresh.queue, Fresh.cond,
              Fresh.barrier, Fresh.rwlock, Fresh.rwwlock)
      BY FreshFields DEF AreObjects, HaveFields
    <3>4. [Fresh EXCEPT !.thread[Main] = "alive"] = [Fresh EXCEPT !.thread = v]
      OBVIOUS
    <3> HIDE DEF v
    <3> QED BY <3>1, <3>2, <3>3, <3>4
  <2> QED BY <2>2, <2>3, <2>4, <2>5
<1> DEFINE S == {k \in Nat : k + 1 <= Len(q) => h[k + 1] = Along(q)[k + 1]}
<1>4. 0 \in S
  BY <1>3
<1>5. ASSUME NEW k \in Nat, k \in S PROVE k + 1 \in S
  <2> SUFFICES ASSUME k + 1 + 1 <= Len(q) PROVE h[k + 1 + 1] = Along(q)[k + 1 + 1]
    OBVIOUS
  <2>1. k + 1 + 1 \in 1..Len(q) /\ (k + 1 + 1) - 1 = k + 1 /\ k + 1 <= Len(q)
    BY <1>0
  <2>2. Along(q)[k + 1 + 1] = Apply(Along(q)[k + 1], q[k + 1 + 1])
    BY <2>1, AlongStack
  <2> QED BY <1>2, <1>5, <2>1, <2>2
<1> HIDE DEF S
<1>6. \A k \in Nat : k \in S
  BY <1>4, <1>5, NatSetInduction
<1>7. Len(q) - 1 \in S /\ (Len(q) - 1) + 1 = Len(q)
  BY <1>0, <1>6
<1> QED BY <1>1, <1>7, <1>0 DEF S

Ran(q, t, k) == {i \in 1..k : q[i].tid = t}

Times(q, t, k) == Cardinality(Ran(q, t, k))

Deep(q, t, k) == {i \in Ran(q, t, k) : CountsAgainstDepth(q[i])}

LEMMA Ranges ==
  ASSUME NEW q, NEW t, NEW k \in Nat
  PROVE  /\ IsFiniteSet(Ran(q, t, k)) /\ Times(q, t, k) \in Nat
         /\ IsFiniteSet(Deep(q, t, k)) /\ Cardinality(Deep(q, t, k)) \in Nat
<1>1. IsFiniteSet(1..k)
  BY FS_Interval
<1>2. Ran(q, t, k) \subseteq 1..k /\ Deep(q, t, k) \subseteq 1..k
  BY DEF Ran, Deep
<1> QED BY <1>1, <1>2, FS_Subset, FS_CardinalityType DEF Times

LEMMA RanNone ==
  ASSUME NEW q, NEW t
  PROVE  Times(q, t, 0) = 0 /\ Cardinality(Deep(q, t, 0)) = 0
<1>1. Ran(q, t, 0) = {} /\ Deep(q, t, 0) = {}
  BY DEF Ran, Deep
<1> QED BY <1>1, FS_EmptySet DEF Times

LEMMA RanOnce ==
  ASSUME NEW q, NEW t, NEW k \in Nat
  PROVE  /\ Times(q, t, k + 1) = Times(q, t, k) + (IF q[k + 1].tid = t THEN 1 ELSE 0)
         /\ Cardinality(Deep(q, t, k + 1)) = Cardinality(Deep(q, t, k))
                + (IF q[k + 1].tid = t /\ CountsAgainstDepth(q[k + 1]) THEN 1 ELSE 0)
<1>1. Ran(q, t, k + 1) = IF q[k + 1].tid = t THEN Ran(q, t, k) \cup {k + 1} ELSE Ran(q, t, k)
  BY DEF Ran
<1>2. Deep(q, t, k + 1) = IF q[k + 1].tid = t /\ CountsAgainstDepth(q[k + 1])
                          THEN Deep(q, t, k) \cup {k + 1} ELSE Deep(q, t, k)
  BY <1>1 DEF Deep
<1>3. k + 1 \notin Ran(q, t, k) /\ k + 1 \notin Deep(q, t, k)
  BY DEF Ran, Deep
<1>4. Cardinality(Ran(q, t, k) \cup {k + 1}) = Cardinality(Ran(q, t, k)) + 1
  BY <1>3, Ranges, FS_AddElement
<1>5. Cardinality(Deep(q, t, k) \cup {k + 1}) = Cardinality(Deep(q, t, k)) + 1
  BY <1>3, Ranges, FS_AddElement
<1>6. Cardinality(Ran(q, t, k)) \in Nat /\ Cardinality(Deep(q, t, k)) \in Nat
  BY Ranges DEF Times
<1> QED BY <1>1, <1>2, <1>4, <1>5, <1>6 DEF Times

LEMMA RanAlike ==
  ASSUME NEW q, NEW r, NEW t, NEW k \in Nat, \A i \in 1..k : q[i] = r[i]
  PROVE  Times(q, t, k) = Times(r, t, k) /\ Deep(q, t, k) = Deep(r, t, k)
<1>1. Ran(q, t, k) = Ran(r, t, k)
  BY DEF Ran
<1> QED BY <1>1 DEF Times, Deep, Ran

-----------------------------------------------------------------------------
(* Programs that keep the rules of POSIX about mutexes: a thread unlocks a  *)
(* mutex, or waits on a condition variable with it, only when it has locked *)
(* it, and a mutex is initialised once.  They use no barrier, which McMini  *)
(* forgets (findings).                                                      *)

\* Thread t of program p, about to do its n-th operation, has locked m.
Holds(p, t, n, m) ==
    \E i \in 0..(n - 1) : /\ Acquires(Op(p, t, i), m)
                          /\ \A j \in (i + 1)..(n - 1) : ~Releases(Op(p, t, j), m)

Disciplined(p) ==
    \A t \in Threads : \A n \in 0..Len(p[t]) :
        /\ Op(p, t, n).type # "barrierWait"
        /\ \A m \in Mutexes :
               /\ Releases(Op(p, t, n), m) => Holds(p, t, n, m)
               /\ Initialises(Op(p, t, n), m) =>
                      \A u \in Threads : \A k \in 0..Len(p[u]) :
                          Initialises(Op(p, u, k), m) => u = t /\ k = n

WaitsOnConds(p) == \E t \in Threads : \E n \in 0..Len(p[t]) : Op(p, t, n).type = "condEnqueue"

LEMMA PastTheEnd ==
  ASSUME NEW p \in Programs, NEW t \in Threads, NEW n \in Nat, n \notin 0..Len(p[t])
  PROVE  Op(p, t, n) = [tid |-> t, type |-> "finish", obj |-> t]
BY ProgramsAssumption DEF Op

LEMMA DisciplinedOp ==
  ASSUME NEW p \in Programs, NEW t \in Threads, NEW n \in Nat, Disciplined(p)
  PROVE  /\ Op(p, t, n).type # "barrierWait"
         /\ \A m \in Mutexes :
                /\ Releases(Op(p, t, n), m) => Holds(p, t, n, m)
                /\ Initialises(Op(p, t, n), m) =>
                      \A u \in Threads : \A k \in Nat :
                          Initialises(Op(p, u, k), m) => u = t /\ k = n
<1>1. ASSUME NEW u \in Threads, NEW k \in Nat, k \notin 0..Len(p[u])
      PROVE  /\ Op(p, u, k).type # "barrierWait"
             /\ \A m \in Mutexes : ~Releases(Op(p, u, k), m) /\ ~Initialises(Op(p, u, k), m)
  BY <1>1, PastTheEnd DEF Releases, Initialises
<1> QED BY <1>1 DEF Disciplined

LEMMA NoCondEnqueue ==
  ASSUME NEW p \in Programs, NEW t \in Threads, NEW n \in Nat, ~WaitsOnConds(p)
  PROVE  Op(p, t, n).type # "condEnqueue"
BY PastTheEnd DEF WaitsOnConds

LEMMA HoldsNone ==
  ASSUME NEW p, NEW t, NEW m
  PROVE  ~Holds(p, t, 0, m)
BY DEF Holds

LEMMA HoldsNext ==
  ASSUME NEW p, NEW t, NEW n \in Nat, NEW m
  PROVE  Holds(p, t, n + 1, m) <=> \/ Acquires(Op(p, t, n), m)
                                   \/ Holds(p, t, n, m) /\ ~Releases(Op(p, t, n), m)
<1>1. (n + 1) - 1 = n /\ n \in 0..n
  OBVIOUS
<1>2. ASSUME Acquires(Op(p, t, n), m) PROVE Holds(p, t, n + 1, m)
  BY <1>1, <1>2 DEF Holds
<1>3. ASSUME Holds(p, t, n, m), ~Releases(Op(p, t, n), m) PROVE Holds(p, t, n + 1, m)
  <2>1. PICK i \in 0..(n - 1) : /\ Acquires(Op(p, t, i), m)
                                /\ \A j \in (i + 1)..(n - 1) : ~Releases(Op(p, t, j), m)
    BY <1>3 DEF Holds
  <2>2. i \in 0..n /\ \A j \in (i + 1)..n : j = n \/ j \in (i + 1)..(n - 1)
    OBVIOUS
  <2> QED BY <1>1, <1>3, <2>1, <2>2 DEF Holds
<1>4. ASSUME Holds(p, t, n + 1, m), ~Acquires(Op(p, t, n), m)
      PROVE  Holds(p, t, n, m) /\ ~Releases(Op(p, t, n), m)
  <2>1. PICK i \in 0..n : /\ Acquires(Op(p, t, i), m)
                          /\ \A j \in (i + 1)..n : ~Releases(Op(p, t, j), m)
    BY <1>1, <1>4 DEF Holds
  <2>2. i # n
    BY <1>4, <2>1
  <2>3. i \in 0..(n - 1) /\ n \in (i + 1)..n /\ \A j \in (i + 1)..(n - 1) : j \in (i + 1)..n
    BY <2>2
  <2> QED BY <2>1, <2>3 DEF Holds
<1> QED BY <1>2, <1>3, <1>4

-----------------------------------------------------------------------------
(* What the scheduler's objects have in common with those of a trace.  The  *)
(* mutexes and barriers only if the program is disciplined: to undo an      *)
(* unlock is to lock the mutex, and a barrier is written when an operation  *)
(* is read.  Of a condition variable all but its mutex, that reading writes *)
(* too.                                                                     *)

Asks(type) == type \in {"lock", "condWait", "barrierWait"}   \* about such objects

MayGo(p, s, tr) ==
    /\ IsAlive(s, tr.tid)
    /\ ~Asks(tr.type) \/ Disciplined(p) => EnabledInState(s, tr)
    /\ tr.type = "condWait" => WaiterCanExit(s.cond[tr.obj], tr.tid)

Agrees(p, s, r) ==
    /\ AreObjects(s) /\ AreObjects(r)
    /\ s.thread = r.thread /\ s.count = r.count /\ s.queue = r.queue
    /\ s.rwlock = r.rwlock /\ s.rwwlock = r.rwwlock
    /\ \A c \in Conds : /\ s.cond[c].waiters = r.cond[c].waiters
                        /\ s.cond[c].groups = r.cond[c].groups
                        /\ s.cond[c].spurious = r.cond[c].spurious
    /\ Disciplined(p) => s.mutex = r.mutex /\ s.barrier = r.barrier
    /\ ~WaitsOnConds(p) => s.cond = r.cond

LEMMA SameGuards ==
  ASSUME NEW p, NEW s, NEW r, Agrees(p, s, r), NEW tr \in Transition,
         Disciplined(p) => tr.type # "barrierWait"
  PROVE  MayGo(p, s, tr) <=> MayGo(p, r, tr)
<1>1. IsAlive(s, tr.tid) <=> IsAlive(r, tr.tid)
  BY DEF Agrees, IsAlive
<1>2. ASSUME ~Asks(tr.type) PROVE EnabledInState(s, tr) <=> EnabledInState(r, tr)
  BY <1>2 DEF Asks, EnabledInState, Agrees, JoinEnabled, IsDead, SemWaitEnabled
<1>3. ASSUME Disciplined(p), tr.type = "lock"
      PROVE  EnabledInState(s, tr) <=> EnabledInState(r, tr)
  BY <1>3 DEF EnabledInState, Agrees, LockEnabled, IsUnlocked
<1>4. ASSUME tr.type = "condWait"
      PROVE  WaiterCanExit(s.cond[tr.obj], tr.tid) <=> WaiterCanExit(r.cond[tr.obj], tr.tid)
  <2>1. tr.obj \in Conds
    BY <1>4, TypedTransition DEF CondOps
  <2>2. ThreadCanExit(s.cond[tr.obj], tr.tid) <=> ThreadCanExit(r.cond[tr.obj], tr.tid)
    BY <2>1 DEF Agrees, ThreadCanExit
  <2> QED BY <2>1, <2>2 DEF Agrees, WaiterCanExit
<1>5. ASSUME Disciplined(p), tr.type = "condWait"
      PROVE  EnabledInState(s, tr) <=> EnabledInState(r, tr)
  <2>1. /\ EnabledInState(s, tr) <=> CondWaitEnabled(s, tr)
        /\ EnabledInState(r, tr) <=> CondWaitEnabled(r, tr)
    BY <1>5 DEF EnabledInState
  <2>2. s.mutex = r.mutex
    BY <1>5 DEF Agrees
  <2> QED BY <1>4, <1>5, <2>1, <2>2 DEF CondWaitEnabled, IsUnlocked
<1> QED BY <1>1, <1>2, <1>3, <1>4, <1>5 DEF MayGo, Asks

LEMMA EnabledExits ==
  ASSUME NEW s, NEW tr, tr.type = "condWait", EnabledInState(s, tr)
  PROVE  WaiterCanExit(s.cond[tr.obj], tr.tid)
BY DEF EnabledInState, CondWaitEnabled

\* Enabled in the scheduler's objects is more than MayGo asks for.
LEMMA EnabledMayGo ==
  ASSUME NEW p, NEW s, NEW r, Agrees(p, s, r), NEW tr \in Transition,
         Disciplined(p) => tr.type # "barrierWait", TransitionEnabled(s, tr)
  PROVE  MayGo(p, r, tr)
<1>1. MayGo(p, s, tr)
  BY EnabledExits DEF MayGo, TransitionEnabled
<1> QED BY <1>1, SameGuards

LEMMA ApplyAlike ==
  ASSUME NEW s, AreObjects(s), NEW x, NEW y, x.tid = y.tid, x.type = y.type, x.obj = y.obj
  PROVE  Apply(s, x) = Apply(s, y)
<1>1. Apply(s, x) = WholeAfter(s, x) /\ Apply(s, y) = WholeAfter(s, y)
  BY ApplyFields
<1>2. ThreadAfter(s.thread, x) = ThreadAfter(s.thread, y)
  BY DEF ThreadAfter, WritesThread
<1>3. MutexesAfter(s.mutex, x) = MutexesAfter(s.mutex, y)
  BY DEF MutexesAfter, Acquires, Releases, Initialises
<1>4. CountsAfter(s.count, x) = CountsAfter(s.count, y) /\ QueuesAfter(s.queue, x) = QueuesAfter(s.queue, y)
  BY DEF CountsAfter, QueuesAfter
<1>5. CondsAfter(s.cond, x) = CondsAfter(s.cond, y)
  BY DEF CondsAfter, CondAfter
<1>6. RWAfter(s.rwlock, x) = RWAfter(s.rwlock, y)
  BY DEF RWAfter, RWLockAfter
<1>7. RWWAfter(s.rwwlock, x) = RWWAfter(s.rwwlock, y)
  BY DEF RWWAfter, RWWLockAfter
<1> QED BY <1>1, <1>2, <1>3, <1>4, <1>5, <1>6, <1>7 DEF WholeAfter

LEMMA AgreesApplied ==
  ASSUME NEW p, NEW s, NEW r, Agrees(p, s, r), NEW x
  PROVE  Agrees(p, Apply(s, x), Apply(r, x))
<1> DEFINE a == WholeAfter(s, x)
           b == WholeAfter(r, x)
<1>1. /\ Apply(s, x) = a /\ Apply(r, x) = b
      /\ AreObjects(Apply(s, x)) /\ AreObjects(Apply(r, x))
  BY ApplyFields, ApplyKeeps DEF Agrees
<1>2. /\ a.thread = ThreadAfter(s.thread, x) /\ a.mutex = MutexesAfter(s.mutex, x)
      /\ a.count = CountsAfter(s.count, x) /\ a.queue = QueuesAfter(s.queue, x)
      /\ a.cond = CondsAfter(s.cond, x) /\ a.barrier = s.barrier
      /\ a.rwlock = RWAfter(s.rwlock, x) /\ a.rwwlock = RWWAfter(s.rwwlock, x)
  BY WholeFields
<1>3. /\ b.thread = ThreadAfter(r.thread, x) /\ b.mutex = MutexesAfter(r.mutex, x)
      /\ b.count = CountsAfter(r.count, x) /\ b.queue = QueuesAfter(r.queue, x)
      /\ b.cond = CondsAfter(r.cond, x) /\ b.barrier = r.barrier
      /\ b.rwlock = RWAfter(r.rwlock, x) /\ b.rwwlock = RWWAfter(r.rwwlock, x)
  BY WholeFields
<1> HIDE DEF a, b
<1>4. ASSUME NEW c \in Conds
      PROVE  /\ a.cond[c].waiters = b.cond[c].waiters
             /\ a.cond[c].groups = b.cond[c].groups
             /\ a.cond[c].spurious = b.cond[c].spurious
  <2> DEFINE one == s.cond[c]
             two == r.cond[c]
  <2>1. /\ one.waiters = two.waiters /\ one.groups = two.groups /\ one.spurious = two.spurious
        /\ IsCond(one) /\ IsCond(two)
    BY DEF Agrees, AreObjects
  <2> HIDE DEF one, two
  <2>2. /\ CondAfter(one, x).waiters = CondAfter(two, x).waiters
        /\ CondAfter(one, x).groups = CondAfter(two, x).groups
        /\ CondAfter(one, x).spurious = CondAfter(two, x).spurious
    BY <2>1 DEF CondAfter, IsCond, RemoveWaiter, PushWakeupGroup
  <2> QED BY <1>2, <1>3, <2>1, <2>2 DEF CondsAfter, one, two
<1> QED BY <1>1, <1>2, <1>3, <1>4 DEF Agrees

LEMMA AgreesRead ==
  ASSUME NEW p, NEW s, NEW r, Agrees(p, s, r), NEW x,
         Disciplined(p) => x.type # "barrierWait", ~WaitsOnConds(p) => x.type # "condEnqueue"
  PROVE  Agrees(p, WhenRead(s, x), r)
<1> DEFINE a == WhenRead(s, x)
<1>1. AfterReading(s, x, a)
  <2>1. AreObjects(s) /\ a = WhenRead(s, x)
    BY DEF Agrees
  <2> HIDE DEF a
  <2> QED BY <2>1, ReadFields
<1> HIDE DEF a
<1> QED BY <1>1 DEF Agrees, AfterReading, a

\* Undoing a transition that was enabled when it ran leads back to before it.
LEMMA AgreesUndone ==
  ASSUME NEW p, NEW s, NEW r, NEW x, Agrees(p, s, Apply(r, x)), AreObjects(r),
         x.type \in ReversibleOps, IsAlive(r, x.tid),
         Disciplined(p) => /\ x.type = "unlock" => r.mutex[x.obj] = "locked"
                           /\ x.type = "mutexInit" => r.mutex[x.obj] = "undefined"
  PROVE  Agrees(p, Unapply(s, x), r)
<1> DEFINE a == Unapply(s, x)
           b == WholeAfter(r, x)
<1>1. Apply(r, x) = b
  BY ApplyFields
<1>2. AfterUndoing(s, x, a)
  <2>1. AreObjects(s) /\ a = Unapply(s, x)
    BY DEF Agrees
  <2> HIDE DEF a, b
  <2> QED BY <2>1, UnapplyFields
<1>3. /\ b.thread = ThreadAfter(r.thread, x) /\ b.mutex = MutexesAfter(r.mutex, x)
      /\ b.count = CountsAfter(r.count, x) /\ b.queue = QueuesAfter(r.queue, x)
      /\ b.cond = CondsAfter(r.cond, x) /\ b.barrier = r.barrier
      /\ b.rwlock = RWAfter(r.rwlock, x) /\ b.rwwlock = RWWAfter(r.rwwlock, x)
  BY WholeFields
<1> HIDE DEF a, b
<1>4. /\ CountsAfter(r.count, x) = r.count /\ QueuesAfter(r.queue, x) = r.queue
      /\ CondsAfter(r.cond, x) = r.cond
      /\ RWAfter(r.rwlock, x) = r.rwlock /\ RWWAfter(r.rwwlock, x) = r.rwwlock
  <2>1. HaveFields(r) /\ x.type \notin RWOps /\ x.type \notin RWWOps
    BY DEF AreObjects, ReversibleOps, RWOps, RWWOps
  <2> QED BY <2>1, FieldsKept DEF ReversibleOps
<1>5. a.thread = r.thread
  <2>1. s.thread = ThreadAfter(r.thread, x) /\ r.thread = [t \in Threads |-> r.thread[t]]
    BY <1>1, <1>3 DEF Agrees, AreObjects, HaveFields
  <2>2. ASSUME NEW t \in Threads PROVE a.thread[t] = r.thread[t]
    <3>1. s.thread[t] = IF WritesThread(x, t) THEN "dead" ELSE r.thread[t]
      BY <2>1 DEF ThreadAfter, WritesThread, ReversibleOps
    <3>2. WritesThread(x, t) <=> x.type = "finish" /\ t = x.tid
      BY DEF WritesThread, ReversibleOps
    <3>3. a.thread[t] = IF x.type = "finish" /\ t = x.tid THEN "alive" ELSE s.thread[t]
      BY <1>2 DEF AfterUndoing
    <3>4. r.thread[x.tid] = "alive"
      BY DEF IsAlive
    <3> QED BY <3>1, <3>2, <3>3, <3>4
  <2> QED BY <1>2, <2>1, <2>2 DEF AfterUndoing
<1>6. ASSUME Disciplined(p) PROVE a.mutex = r.mutex
  <2>1. s.mutex = MutexesAfter(r.mutex, x) /\ r.mutex = [m \in Mutexes |-> r.mutex[m]]
    BY <1>1, <1>3, <1>6 DEF Agrees, AreObjects, HaveFields
  <2>2. \A m \in Mutexes : a.mutex[m] = r.mutex[m]
    BY <1>2, <1>6, <2>1 DEF AfterUndoing, MutexesAfter, Acquires, Releases, Initialises, ReversibleOps
  <2> QED BY <1>2, <2>1, <2>2 DEF AfterUndoing
<1> QED BY <1>1, <1>2, <1>3, <1>4, <1>5, <1>6 DEF Agrees, AfterUndoing, a

-----------------------------------------------------------------------------
(* A trace the program can run: what each thread does in it are the first   *)
(* operations of its routine, and each of them was enabled.                 *)

History(p, q) ==
    /\ IsStack(q)
    /\ \A i \in 1..Len(q) :
           /\ q[i].tid \in Threads
           /\ Operation(q[i]) = Op(p, q[i].tid, Times(q, q[i].tid, i - 1))
           /\ MayGo(p, Along(q)[i - 1], Operation(q[i]))

LEMMA HistoryEmpty ==
  ASSUME NEW p, NEW q, q = <<>>
  PROVE  History(p, q) /\ Len(q) = 0
<1>1. q \in Seq({}) /\ Len(q) = 0
  OBVIOUS
<1> QED BY <1>1 DEF History, IsStack

LEMMA Operated ==
  ASSUME NEW p, NEW q, History(p, q), NEW i \in 1..Len(q)
  PROVE  /\ i - 1 \in Nat /\ Times(q, q[i].tid, i - 1) \in Nat
         /\ q[i].tid \in Threads
         /\ Operation(q[i]) = Op(p, q[i].tid, Times(q, q[i].tid, i - 1))
         /\ q[i].tid = Operation(q[i]).tid /\ q[i].type = Operation(q[i]).type
         /\ q[i].obj = Operation(q[i]).obj
         /\ MayGo(p, Along(q)[i - 1], Operation(q[i]))
<1>1. i - 1 \in Nat
  BY Stack DEF History
<1> QED BY <1>1, Ranges DEF History, Operation

\* Trace r begins as q does, for n transitions.
Alike(q, r, n) ==
    /\ \A i \in 1..n : r[i] = q[i]
    /\ \A k \in 0..n : Along(r)[k] = Along(q)[k]
    /\ \A k \in 0..n : \A t : Times(r, t, k) = Times(q, t, k) /\ Deep(r, t, k) = Deep(q, t, k)

LEMMA HistoryCut ==
  ASSUME NEW p, NEW q, History(p, q), NEW n \in 0..Len(q), NEW r, r = SubSeq(q, 1, n)
  PROVE  History(p, r) /\ Len(r) = n /\ Alike(q, r, n)
<1> USE DEF Alike
<1>1. IsStack(r) /\ Len(r) = n /\ \A i \in 1..n : r[i] = q[i]
  BY Truncated DEF History
<1>2. Len(q) \in Nat /\ n \in Nat /\ n <= Len(q)
  BY Stack DEF History
<1>3. \A k \in 0..n : Along(r)[k] = Along(q)[k]
  <2>1. /\ IsStack(r) /\ IsStack(q) /\ n \in Nat /\ n <= Len(r) /\ n <= Len(q)
        /\ \A i \in 1..n : r[i] = q[i]
    BY <1>1, <1>2 DEF History
  <2> QED BY <2>1, AlongAlike
<1>4. ASSUME NEW k \in 0..n, NEW t
      PROVE  Times(r, t, k) = Times(q, t, k) /\ Deep(r, t, k) = Deep(q, t, k)
  <2>1. k \in Nat /\ \A i \in 1..k : r[i] = q[i]
    BY <1>1, <1>2
  <2> QED BY ONLY <2>1, RanAlike
<1>5. ASSUME NEW i \in 1..n
      PROVE  /\ r[i].tid \in Threads
             /\ Operation(r[i]) = Op(p, r[i].tid, Times(r, r[i].tid, i - 1))
             /\ MayGo(p, Along(r)[i - 1], Operation(r[i]))
  <2>1. i \in 1..Len(q) /\ i - 1 \in 0..n /\ r[i] = q[i]
    BY <1>1, <1>2
  <2> QED BY <1>3, <1>4, <2>1 DEF History
<1> QED BY <1>1, <1>3, <1>4, <1>5 DEF History

\* Thread x.tid can run transition x after trace q, of length n.
MayPush(p, q, x, n) ==
    /\ History(p, q) /\ n = Len(q) /\ x.tid \in Threads
    /\ Operation(x) = Op(p, x.tid, Times(q, x.tid, n))
    /\ MayGo(p, Along(q)[n], Operation(x))

\* Sequence r is q and then x.
Extends(r, q, x) == r = Append(q, x)

\* Trace r is trace q, of length n, and then x.
Pushes(r, q, x, p, n) ==
    /\ History(p, r) /\ Len(r) = n + 1 /\ r[n + 1] = x
    /\ Along(r)[n + 1] = Apply(Along(q)[n], x)
    /\ Alike(q, r, n)

LEMMA HistoryPushed ==
  ASSUME NEW p, NEW q, NEW x, NEW r, NEW n, MayPush(p, q, x, n), Extends(r, q, x)
  PROVE  Pushes(r, q, x, p, n)
<1> USE DEF Alike
<1>0. /\ History(p, q) /\ n = Len(q) /\ x.tid \in Threads
      /\ Operation(x) = Op(p, x.tid, Times(q, x.tid, n))
      /\ MayGo(p, Along(q)[n], Operation(x)) /\ r = Append(q, x)
  BY DEF MayPush, Extends
<1>1. /\ IsStack(r) /\ Len(r) = n + 1 /\ r[n + 1] = x /\ \A i \in 1..n : r[i] = q[i]
      /\ n \in Nat /\ IsStack(q)
  BY <1>0, Pushed, Stack DEF History
<1>2. \A k \in 0..n : Along(r)[k] = Along(q)[k]
  <2>1. /\ IsStack(r) /\ IsStack(q) /\ n \in Nat /\ n <= Len(r) /\ n <= Len(q)
        /\ \A i \in 1..n : r[i] = q[i]
    BY <1>0, <1>1
  <2> QED BY <2>1, AlongAlike
<1>3. Along(r)[n + 1] = Apply(Along(q)[n], x)
  <2>1. n + 1 \in 1..Len(r) /\ (n + 1) - 1 = n /\ n \in 0..n
    BY <1>1
  <2>2. Along(r)[n + 1] = Apply(Along(r)[(n + 1) - 1], r[n + 1])
    BY <1>1, <2>1, AlongStack
  <2> QED BY <1>1, <1>2, <2>1, <2>2
<1>4. ASSUME NEW k \in 0..n, NEW t
      PROVE  Times(r, t, k) = Times(q, t, k) /\ Deep(r, t, k) = Deep(q, t, k)
  <2>1. k \in Nat /\ \A i \in 1..k : r[i] = q[i]
    BY <1>1
  <2> QED BY <2>1, RanAlike
<1>5. ASSUME NEW i \in 1..(n + 1)
      PROVE  /\ r[i].tid \in Threads
             /\ Operation(r[i]) = Op(p, r[i].tid, Times(r, r[i].tid, i - 1))
             /\ MayGo(p, Along(r)[i - 1], Operation(r[i]))
  <2>1. CASE i \in 1..n
    <3>1. i - 1 \in 0..n /\ r[i] = q[i]
      BY <1>1, <2>1
    <3> QED BY <1>0, <1>2, <1>4, <2>1, <3>1 DEF History
  <2>2. CASE i = n + 1
    <3>1. i - 1 = n /\ n \in 0..n
      BY <1>1, <2>2
    <3> QED BY <1>0, <1>1, <1>2, <1>4, <2>2, <3>1
  <2> QED BY <1>1, <2>1, <2>2
<1> QED BY <1>1, <1>2, <1>3, <1>4, <1>5 DEF History, Pushes

-----------------------------------------------------------------------------
(* The mutexes of a disciplined program.                                    *)

InitPending(p, count, m) ==
    \E t \in Threads : \E n \in Nat : n >= count[t] /\ Initialises(Op(p, t, n), m)

Ordered(p, count, mutex) ==
    \A m \in Mutexes :
        /\ InitPending(p, count, m) => mutex[m] = "undefined"
        /\ \A t \in Threads : Holds(p, t, count[t], m) => mutex[m] = "locked"
        /\ \A t, u \in Threads : Holds(p, t, count[t], m) /\ Holds(p, u, count[u], m) => t = u

\* A mutex is locked by a thread that finds it unlocked.
LEMMA AcquiresUnlocked ==
  ASSUME NEW s, NEW tr, EnabledInState(s, tr), NEW m, Acquires(tr, m)
  PROVE  s.mutex[m] = "unlocked"
<1>1. CASE tr.type = "lock"
  BY <1>1 DEF EnabledInState, LockEnabled, IsUnlocked, Acquires
<1>2. CASE tr.type = "condWait"
  BY <1>2 DEF EnabledInState, CondWaitEnabled, IsUnlocked, Acquires
<1> QED BY <1>1, <1>2 DEF Acquires

LEMMA OrderedStep ==
  ASSUME NEW p \in Programs, Disciplined(p), NEW count \in [Threads -> Nat], NEW mutex,
         Ordered(p, count, mutex), NEW u \in Threads, NEW after,
         after = [count EXCEPT ![u] = count[u] + 1], NEW tr, tr = Op(p, u, count[u]),
         \A m \in Mutexes : Acquires(tr, m) => mutex[m] = "unlocked"
  PROVE  Ordered(p, after, MutexesAfter(mutex, tr))
<1> SUFFICES ASSUME NEW m \in Mutexes
             PROVE  /\ InitPending(p, after, m) => MutexesAfter(mutex, tr)[m] = "undefined"
                    /\ \A t \in Threads : Holds(p, t, after[t], m) => MutexesAfter(mutex, tr)[m] = "locked"
                    /\ \A t, v \in Threads : Holds(p, t, after[t], m) /\ Holds(p, v, after[v], m) => t = v
  BY DEF Ordered
<1>1. /\ InitPending(p, count, m) => mutex[m] = "undefined"
      /\ \A t \in Threads : Holds(p, t, count[t], m) => mutex[m] = "locked"
      /\ \A t, v \in Threads : Holds(p, t, count[t], m) /\ Holds(p, v, count[v], m) => t = v
  BY DEF Ordered
<1>2. /\ \A t \in Threads : count[t] \in Nat /\ after[t] = IF t = u THEN count[t] + 1 ELSE count[t]
      /\ InitPending(p, after, m) => InitPending(p, count, m)
  <2>1. \A t \in Threads : count[t] \in Nat /\ after[t] = IF t = u THEN count[t] + 1 ELSE count[t]
    OBVIOUS
  <2>2. \A t \in Threads : \A n \in Nat : n >= after[t] => n >= count[t]
    BY <2>1
  <2> QED BY <2>1, <2>2 DEF InitPending
<1>3. MutexesAfter(mutex, tr)[m] = IF Acquires(tr, m) THEN "locked"
                                   ELSE IF Releases(tr, m) \/ Initialises(tr, m) THEN "unlocked"
                                   ELSE mutex[m]
  BY DEF MutexesAfter
<1>4. \A t \in Threads : Holds(p, t, after[t], m) <=>
          IF t = u THEN Acquires(tr, m) \/ (Holds(p, u, count[u], m) /\ ~Releases(tr, m))
          ELSE Holds(p, t, count[t], m)
  BY <1>2, HoldsNext
<1>5. Acquires(tr, m) => ~Releases(tr, m) /\ ~Initialises(tr, m)
  BY DEF Acquires, Releases, Initialises
<1>6. CASE Acquires(tr, m)
  BY <1>1, <1>2, <1>3, <1>4, <1>6
<1>7. CASE Releases(tr, m)
  <2>1. Holds(p, u, count[u], m)
    BY <1>2, <1>7, DisciplinedOp
  <2> QED BY <1>1, <1>2, <1>3, <1>4, <1>5, <1>7, <2>1
<1>8. CASE Initialises(tr, m)
  <2>1. InitPending(p, count, m)
    BY <1>2, <1>8 DEF InitPending
  <2>2. ~InitPending(p, after, m)
    <3> SUFFICES ASSUME NEW t \in Threads, NEW n \in Nat, n >= after[t], Initialises(Op(p, t, n), m)
                 PROVE  FALSE
      BY DEF InitPending
    <3>1. t = u /\ n = count[u]
      BY <1>2, <1>8, DisciplinedOp
    <3> QED BY <1>2, <3>1
  <2> QED BY <1>1, <1>4, <1>5, <1>8, <2>1, <2>2
<1>9. CASE ~Acquires(tr, m) /\ ~Releases(tr, m) /\ ~Initialises(tr, m)
  BY <1>1, <1>2, <1>3, <1>4, <1>9
<1> QED BY <1>6, <1>7, <1>8, <1>9

\* How far the threads are after k transitions.
CountersAt(q, k) == [t \in Threads |-> Times(q, t, k)]

LEMMA OrderedAlong ==
  ASSUME NEW p \in Programs, Disciplined(p), NEW q, History(p, q)
  PROVE  \A k \in 0..Len(q) : Ordered(p, CountersAt(q, k), Along(q)[k].mutex)
<1> DEFINE S == {k \in Nat : k <= Len(q) => Ordered(p, CountersAt(q, k), Along(q)[k].mutex)}
<1>0. Len(q) \in Nat /\ IsStack(q)
  BY Stack DEF History
<1>1. 0 \in S
  <2>1. Along(q)[0].mutex = [m \in Mutexes |-> "undefined"]
    BY <1>0, AlongStack, FreshFields
  <2>2. \A t \in Threads : CountersAt(q, 0)[t] = 0
    BY RanNone DEF CountersAt
  <2> QED BY <2>1, <2>2, HoldsNone DEF Ordered
<1>2. ASSUME NEW k \in Nat, k \in S PROVE k + 1 \in S
  <2> SUFFICES ASSUME k + 1 <= Len(q) PROVE Ordered(p, CountersAt(q, k + 1), Along(q)[k + 1].mutex)
    OBVIOUS
  <2> DEFINE i == k + 1
             u == q[i].tid
             tr == Operation(q[i])
             s == Along(q)[k]
  <2>1. i \in 1..Len(q) /\ i - 1 = k /\ k <= Len(q) /\ k \in 0..Len(q)
    BY <1>0
  <2>2. /\ u \in Threads /\ tr = Op(p, u, Times(q, u, k)) /\ Times(q, u, k) \in Nat
        /\ tr.tid = u /\ tr.type = q[i].type /\ tr.obj = q[i].obj
        /\ MayGo(p, s, tr)
    BY <2>1, Operated
  <2>3. Along(q)[i] = Apply(s, q[i]) /\ AreObjects(s)
    BY <1>0, <2>1, AlongStack, AlongObjects
  <2>4. Apply(s, q[i]) = WholeAfter(s, q[i])
    BY <2>3, ApplyFields
  <2>5. Along(q)[i].mutex = MutexesAfter(s.mutex, q[i])
    <3> DEFINE r == WholeAfter(s, q[i])
    <3>1. r.mutex = MutexesAfter(s.mutex, q[i])
      BY WholeFields
    <3> QED BY <2>3, <2>4, <3>1
  <2>6. MutexesAfter(s.mutex, q[i]) = MutexesAfter(s.mutex, tr)
    BY <2>2 DEF MutexesAfter, Acquires, Releases, Initialises
  <2>7. CountersAt(q, k) \in [Threads -> Nat]
    BY Ranges DEF CountersAt
  <2>8. CountersAt(q, i) = [CountersAt(q, k) EXCEPT ![u] = CountersAt(q, k)[u] + 1]
    <3>2. ASSUME NEW t \in Threads
          PROVE  Times(q, t, k + 1) = IF u = t THEN Times(q, t, k) + 1 ELSE Times(q, t, k)
      <4>1. Times(q, t, k) \in Nat
        BY Ranges
      <4>2. Times(q, t, k + 1) = Times(q, t, k) + (IF u = t THEN 1 ELSE 0)
        BY RanOnce
      <4> HIDE DEF u
      <4> QED BY <4>1, <4>2
    <3> QED BY <2>2, <3>2 DEF CountersAt
  <2>9. CountersAt(q, k)[u] = Times(q, u, k)
    BY <2>2 DEF CountersAt
  <2>10. ASSUME NEW m \in Mutexes, Acquires(tr, m) PROVE s.mutex[m] = "unlocked"
    BY <2>2, <2>10, AcquiresUnlocked DEF MayGo
  <2>11. Ordered(p, CountersAt(q, k), s.mutex)
    BY <1>2, <2>1
  <2> HIDE DEF s, tr, u, i
  <2>12. tr = Op(p, u, CountersAt(q, k)[u])
    BY <2>2, <2>9
  <2>13. Ordered(p, CountersAt(q, i), MutexesAfter(s.mutex, tr))
    BY <2>2, <2>7, <2>8, <2>10, <2>11, <2>12, OrderedStep
  <2> QED BY <2>5, <2>6, <2>13 DEF i
<1> HIDE DEF S
<1>3. \A k \in Nat : k \in S
  BY <1>1, <1>2, NatSetInduction
<1> QED BY <1>0, <1>3 DEF S

-----------------------------------------------------------------------------
(* What holds in the objects after every transition of a trace, whatever    *)
(* the program: the locks are exclusive and the wake groups nested.         *)

Exclusive(lock) == IsWriterLocked(lock) => ~IsReaderLocked(lock)

RWWExclusive(lock) == /\ HasWriter(lock) => ~HasReader(lock)
                      /\ lock.writer1 = {} \/ lock.writer2 = {}

AreNested(groups, all) ==
    /\ IsStack(groups)
    /\ \A i \in 1..Len(groups) : groups[i] \subseteq all
    /\ \A i, j \in 1..Len(groups) : i < j => groups[i] \subseteq groups[j]

Nested(cond) == AreNested(cond.groups, cond.waiters)

WellKept(s) == /\ \A l \in RWLocks : Exclusive(s.rwlock[l])
               /\ \A l \in RWWLocks : RWWExclusive(s.rwwlock[l])
               /\ \A c \in Conds : Nested(s.cond[c])

LEMMA ExclusiveStep ==
  ASSUME NEW lock, IsRWLock(lock), Exclusive(lock), NEW tr,
         tr.type = "readerLock" => CanAcquireAsReader(lock, tr.tid),
         tr.type = "writerLock" => CanAcquireAsWriter(lock, tr.tid)
  PROVE  Exclusive(RWLockAfter(lock, tr))
<1> DEFINE t == tr.tid
<1>1. Exclusive(EnterAsReader(lock, t)) /\ Exclusive(EnterAsWriter(lock, t))
  BY DEF Exclusive, EnterAsReader, EnterAsWriter, IsRWLock, IsWriterLocked, IsReaderLocked
<1>2. ASSUME CanAcquireAsReader(lock, t) PROVE Exclusive(LockAsReader(lock, t))
  BY <1>2 DEF Exclusive, LockAsReader, CanAcquireAsReader, IsRWLock, IsWriterLocked
<1>3. ASSUME CanAcquireAsWriter(lock, t) PROVE Exclusive(LockAsWriter(lock, t))
  BY <1>3 DEF Exclusive, LockAsWriter, CanAcquireAsWriter, IsRWUnlocked, IsRWLock,
    IsWriterLocked, IsReaderLocked
<1>4. Exclusive(Release(lock, t))
  BY DEF Exclusive, Release, IsRWLock, IsWriterLocked
<1> QED BY <1>1, <1>2, <1>3, <1>4 DEF RWLockAfter

LEMMA RWWExclusiveStep ==
  ASSUME NEW lock, IsRWWLock(lock), RWWExclusive(lock), NEW tr,
         tr.type = "rwwReaderLock" => RWWCanAcquireAsReader(lock, tr.tid),
         tr.type = "writer1Lock" => CanAcquireAsWriter1(lock, tr.tid),
         tr.type = "writer2Lock" => CanAcquireAsWriter2(lock, tr.tid)
  PROVE  RWWExclusive(RWWLockAfter(lock, tr))
<1> DEFINE t == tr.tid
<1>1. /\ RWWExclusive(RWWEnterAsReader(lock, t))
      /\ RWWExclusive(EnterAsWriter1(lock, t)) /\ RWWExclusive(EnterAsWriter2(lock, t))
  BY DEF RWWExclusive, RWWEnterAsReader, EnterAsWriter1, EnterAsWriter2, IsRWWLock, HasWriter, HasReader
<1>2. ASSUME RWWCanAcquireAsReader(lock, t) PROVE RWWExclusive(RWWLockAsReader(lock, t))
  BY <1>2 DEF RWWExclusive, RWWLockAsReader, RWWCanAcquireAsReader, IsRWWLock, HasWriter
<1>3. ASSUME CanAcquireAsWriter1(lock, t) PROVE RWWExclusive(LockAsWriter1(lock, t))
  BY <1>3 DEF RWWExclusive, LockAsWriter1, CanAcquireAsWriter1, IsRWWUnlocked, IsRWWLock, HasWriter, HasReader
<1>4. ASSUME CanAcquireAsWriter2(lock, t) PROVE RWWExclusive(LockAsWriter2(lock, t))
  BY <1>4 DEF RWWExclusive, LockAsWriter2, CanAcquireAsWriter2, IsRWWUnlocked, IsRWWLock, HasWriter, HasReader
<1>5. RWWExclusive(RWWRelease(lock, t))
  BY DEF RWWExclusive, RWWRelease, IsRWWLock, HasWriter, HasReader
<1> QED BY <1>1, <1>2, <1>3, <1>4, <1>5 DEF RWWLockAfter

\* A thread that wakes up leaves every group, and the groups left are still nested.
LEMMA WokenNested ==
  ASSUME NEW t, NEW q, NEW all, AreNested(q, all), NEW r, r = WakeThread(q, t)
  PROVE  AreNested(r, all \ {t}) /\ \A i \in 1..Len(r) : \E j \in 1..Len(q) : r[i] = q[j] \ {t}
<1> USE DEF AreNested
<1>0. Len(q) \in Nat
  BY Stack
<1>1. PICK h : Takes("wake", t, <<>>, q, h) /\ r = h[Len(q)]
  BY WokenOneByOne
<1> DEFINE Good(k) == /\ IsStack(h[k])
                      /\ \A i \in 1..Len(h[k]) : \E j \in 1..k : h[k][i] = q[j] \ {t}
                      /\ \A i, j \in 1..Len(h[k]) : i < j => h[k][i] \subseteq h[k][j]
           S == {k \in Nat : k <= Len(q) => Good(k)}
<1> HIDE DEF Good
<1>2. 0 \in S
  <2>1. h[0] = <<>>
    BY <1>1 DEF Takes
  <2>2. Len(h[0]) = 0 /\ IsStack(h[0])
    <3>1. Len(<<>>) = 0 /\ <<>> \in Seq({})
      OBVIOUS
    <3> QED BY <2>1, <3>1 DEF IsStack
  <2>3. Good(0)
    BY <2>2 DEF Good
  <2> QED BY <2>3
<1>3. ASSUME NEW k \in Nat, k \in S PROVE k + 1 \in S
  <2> SUFFICES ASSUME k + 1 <= Len(q) PROVE Good(k + 1)
    OBVIOUS
  <2> DEFINE x == q[k + 1] \ {t}
             s == h[k]
             n == Len(s)
  <2>1. k + 1 \in 1..Len(q) /\ (k + 1) - 1 = k /\ k <= Len(q) /\ Good(k)
    BY <1>0, <1>3
  <2>2. h[k + 1] = IF x = {} THEN s ELSE Append(s, x)
    <3>1. h[k + 1] = Turn("wake", t, s, q[k + 1])
      BY <1>1, <2>1 DEF Takes
    <3> QED BY <3>1 DEF Turn
  <2>3. \A j \in 1..k : j \in 1..(k + 1) /\ j \in 1..Len(q) /\ q[j] \subseteq q[k + 1]
    BY <1>0, <2>1
  <2>4. /\ IsStack(s) /\ \A i \in 1..n : \E j \in 1..k : s[i] = q[j] \ {t}
        /\ \A i, j \in 1..n : i < j => s[i] \subseteq s[j]
    BY <2>1 DEF Good
  <2>5. CASE x = {}
    <3>1. h[k + 1] = s
      BY <2>2, <2>5
    <3> HIDE DEF s
    <3> QED BY <2>3, <2>4, <3>1 DEF Good
  <2>6. CASE x # {}
    <3> DEFINE r2 == Append(s, x)
    <3>1. /\ IsStack(r2) /\ Len(r2) = n + 1 /\ r2[n + 1] = x /\ n \in Nat
          /\ \A i \in 1..n : r2[i] = s[i]
      BY <2>4, Pushed, Stack
    <3>2. h[k + 1] = r2
      BY <2>2, <2>6
    <3> HIDE DEF r2, x, s
    <3>3. \A i \in 1..(n + 1) : i \in 1..n \/ i = n + 1
      BY <3>1
    <3>4. ASSUME NEW i \in 1..(n + 1) PROVE \E j \in 1..(k + 1) : r2[i] = q[j] \ {t}
      <4>1. CASE i \in 1..n
        BY <2>3, <2>4, <3>1, <4>1
      <4>2. CASE i = n + 1
        <5>1. k + 1 \in 1..(k + 1) /\ r2[i] = q[k + 1] \ {t}
          BY <3>1, <4>2 DEF x
        <5> QED BY <5>1
      <4> QED BY <3>3, <4>1, <4>2
    <3>5. ASSUME NEW i \in 1..(n + 1), NEW j \in 1..(n + 1), i < j PROVE r2[i] \subseteq r2[j]
      <4>1. i \in 1..n
        BY <3>1, <3>5
      <4>2. CASE j \in 1..n
        BY <2>4, <3>1, <3>5, <4>1, <4>2
      <4>3. CASE j = n + 1
        <5>1. PICK l \in 1..k : s[i] = q[l] \ {t}
          BY <2>4, <4>1
        <5>2. q[l] \subseteq q[k + 1]
          BY <2>3
        <5> QED BY <3>1, <4>1, <4>3, <5>1, <5>2 DEF x
      <4> QED BY <3>3, <4>2, <4>3
    <3> QED BY <3>1, <3>2, <3>4, <3>5 DEF Good
  <2> QED BY <2>5, <2>6
<1> HIDE DEF S
<1>4. \A k \in Nat : k \in S
  BY <1>2, <1>3, NatSetInduction
<1>5. Good(Len(q))
  BY <1>0, <1>4 DEF S
<1>6. \A i \in 1..Len(r) : \E j \in 1..Len(q) : r[i] = q[j] \ {t}
  BY <1>1, <1>5 DEF Good
<1>7. ASSUME NEW i \in 1..Len(r) PROVE r[i] \subseteq all \ {t}
  <2>1. PICK j \in 1..Len(q) : r[i] = q[j] \ {t}
    BY <1>6
  <2> QED BY <2>1
<1> QED BY <1>1, <1>5, <1>6, <1>7 DEF Good

LEMMA NestedStep ==
  ASSUME NEW cond, IsCond(cond), Nested(cond), NEW tr
  PROVE  Nested(CondAfter(cond, tr))
<1> DEFINE r == CondAfter(cond, tr)
           n == Len(cond.groups)
<1>1. CASE tr.type = "condEnqueue"
  <2>1. r.groups = cond.groups /\ cond.waiters \subseteq r.waiters
    BY <1>1 DEF CondAfter, IsCond
  <2> HIDE DEF r
  <2>2. \A i \in 1..Len(r.groups) : r.groups[i] \subseteq r.waiters
    BY <2>1 DEF Nested, AreNested
  <2> QED BY <2>1, <2>2 DEF Nested, AreNested, r
<1>2. CASE tr.type = "condWait"
  <2>1. r.groups = WakeThread(cond.groups, tr.tid) /\ r.waiters = cond.waiters \ {tr.tid}
    BY <1>2 DEF CondAfter, RemoveWaiter, IsCond
  <2> HIDE DEF r
  <2>2. AreNested(r.groups, cond.waiters \ {tr.tid})
    <3>1. AreNested(cond.groups, cond.waiters)
      BY DEF Nested
    <3> QED BY <2>1, <3>1, WokenNested
  <2> QED BY <2>1, <2>2 DEF Nested, AreNested, r
<1>3. CASE tr.type \in {"signal", "broadcast"}
  <2>1. CASE cond.waiters = {}
    BY <1>3, <2>1 DEF CondAfter, PushWakeupGroup
  <2>2. CASE cond.waiters # {}
    <3>1. r.groups = Append(cond.groups, cond.waiters) /\ r.waiters = cond.waiters
      BY <1>3, <2>2 DEF CondAfter, PushWakeupGroup, IsCond
    <3>2. /\ IsStack(r.groups) /\ Len(r.groups) = n + 1 /\ n \in Nat
          /\ r.groups[n + 1] = cond.waiters
          /\ \A i \in 1..n : r.groups[i] = cond.groups[i]
      <4>1. IsStack(cond.groups)
        BY DEF Nested, AreNested
      <4> HIDE DEF r
      <4> QED BY <3>1, <4>1, Pushed, Stack
    <3> HIDE DEF r
    <3>3. \A i \in 1..(n + 1) : i \in 1..n \/ i = n + 1
      BY <3>2
    <3>4. \A i \in 1..n : cond.groups[i] \subseteq cond.waiters
      BY DEF Nested, AreNested
    <3>5. ASSUME NEW i \in 1..(n + 1), NEW j \in 1..(n + 1), i < j
          PROVE  r.groups[i] \subseteq r.groups[j]
      <4>1. i \in 1..n
        BY <3>2, <3>5
      <4>2. CASE j \in 1..n
        BY <3>2, <3>5, <4>1, <4>2 DEF Nested, AreNested
      <4>3. CASE j = n + 1
        BY <3>2, <3>4, <4>1, <4>3
      <4> QED BY <3>3, <4>2, <4>3
    <3>6. \A i \in 1..(n + 1) : r.groups[i] \subseteq r.waiters
      BY <3>1, <3>2, <3>3, <3>4
    <3> QED BY <3>2, <3>5, <3>6 DEF Nested, AreNested, r
  <2> QED BY <2>1, <2>2
<1>4. CASE tr.type \notin {"condEnqueue", "condWait", "signal", "broadcast"}
  BY <1>4 DEF CondAfter
<1> QED BY <1>1, <1>2, <1>3, <1>4

LEMMA WellKeptStep ==
  ASSUME NEW s, AreObjects(s), WellKept(s), NEW tr, ~Asks(tr.type) => EnabledInState(s, tr)
  PROVE  WellKept(Apply(s, tr))
<1> DEFINE r == WholeAfter(s, tr)
<1>1. Apply(s, tr) = r
  BY ApplyFields
<1>2. /\ r.rwlock = RWAfter(s.rwlock, tr) /\ r.rwwlock = RWWAfter(s.rwwlock, tr)
      /\ r.cond = CondsAfter(s.cond, tr)
  BY WholeFields
<1> HIDE DEF r
<1>3. ASSUME NEW l \in RWLocks PROVE Exclusive(r.rwlock[l])
  <2>1. IsRWLock(s.rwlock[l]) /\ Exclusive(s.rwlock[l])
    BY DEF AreObjects, WellKept
  <2>2. CASE tr.type \in RWOps /\ l = tr.obj
    <3>1. /\ tr.type = "readerLock" => CanAcquireAsReader(s.rwlock[l], tr.tid)
          /\ tr.type = "writerLock" => CanAcquireAsWriter(s.rwlock[l], tr.tid)
      BY <2>2 DEF EnabledInState, Asks
    <3>2. r.rwlock[l] = RWLockAfter(s.rwlock[l], tr)
      BY <1>2, <2>2 DEF RWAfter
    <3> QED BY <2>1, <3>1, <3>2, ExclusiveStep
  <2>3. CASE ~(tr.type \in RWOps /\ l = tr.obj)
    BY <1>2, <2>1, <2>3 DEF RWAfter
  <2> QED BY <2>2, <2>3
<1>4. ASSUME NEW l \in RWWLocks PROVE RWWExclusive(r.rwwlock[l])
  <2>1. IsRWWLock(s.rwwlock[l]) /\ RWWExclusive(s.rwwlock[l])
    BY DEF AreObjects, WellKept
  <2>2. CASE tr.type \in RWWOps /\ l = tr.obj
    <3>1. /\ tr.type = "rwwReaderLock" => RWWCanAcquireAsReader(s.rwwlock[l], tr.tid)
          /\ tr.type = "writer1Lock" => CanAcquireAsWriter1(s.rwwlock[l], tr.tid)
          /\ tr.type = "writer2Lock" => CanAcquireAsWriter2(s.rwwlock[l], tr.tid)
      BY <2>2 DEF EnabledInState, Asks
    <3>2. r.rwwlock[l] = RWWLockAfter(s.rwwlock[l], tr)
      BY <1>2, <2>2 DEF RWWAfter
    <3> QED BY <2>1, <3>1, <3>2, RWWExclusiveStep
  <2>3. CASE ~(tr.type \in RWWOps /\ l = tr.obj)
    BY <1>2, <2>1, <2>3 DEF RWWAfter
  <2> QED BY <2>2, <2>3
<1>5. ASSUME NEW c \in Conds PROVE Nested(r.cond[c])
  <2>1. IsCond(s.cond[c]) /\ Nested(s.cond[c])
    BY DEF AreObjects, WellKept
  <2> QED BY <1>2, <2>1, NestedStep DEF CondsAfter
<1> QED BY <1>1, <1>3, <1>4, <1>5 DEF WellKept

LEMMA WellKeptAlong ==
  ASSUME NEW p, NEW q, History(p, q)
  PROVE  \A k \in 0..Len(q) : WellKept(Along(q)[k])
<1> DEFINE S == {k \in Nat : k <= Len(q) => WellKept(Along(q)[k])}
<1>0. Len(q) \in Nat /\ IsStack(q)
  BY Stack DEF History
<1>1. 0 \in S
  <2> DEFINE s == Along(q)[0]
  <2>1. s.cond = InitialConds /\ s.rwlock = InitialRWLocks /\ s.rwwlock = InitialRWWLocks
    BY <1>0, AlongStack, FreshFields
  <2> HIDE DEF s
  <2>2. \A l \in RWLocks : Exclusive(s.rwlock[l])
    BY <2>1 DEF InitialRWLocks, Exclusive, IsWriterLocked
  <2>3. \A l \in RWWLocks : RWWExclusive(s.rwwlock[l])
    BY <2>1 DEF InitialRWWLocks, RWWExclusive, HasWriter
  <2>4. ASSUME NEW c \in Conds PROVE Nested(s.cond[c])
    <3> DEFINE none == <<>>
    <3>1. s.cond[c].groups = none
      BY <2>1 DEF InitialConds
    <3>2. IsStack(none) /\ Len(none) = 0
      BY DEF IsStack
    <3> HIDE DEF none
    <3> QED BY <3>1, <3>2 DEF Nested, AreNested
  <2> QED BY <2>2, <2>3, <2>4 DEF WellKept, s
<1>2. ASSUME NEW k \in Nat, k \in S PROVE k + 1 \in S
  <2> SUFFICES ASSUME k + 1 <= Len(q) PROVE WellKept(Along(q)[k + 1])
    OBVIOUS
  <2> DEFINE i == k + 1
             tr == Operation(q[i])
             s == Along(q)[k]
  <2>1. i \in 1..Len(q) /\ i - 1 = k /\ k <= Len(q) /\ k \in 0..Len(q)
    BY <1>0
  <2>2. /\ tr.tid = q[i].tid /\ tr.type = q[i].type /\ tr.obj = q[i].obj /\ MayGo(p, s, tr)
    BY <2>1, Operated
  <2>3. Along(q)[i] = Apply(s, q[i]) /\ AreObjects(s)
    BY <1>0, <2>1, AlongStack, AlongObjects
  <2> HIDE DEF tr, s
  <2>4. Apply(s, q[i]) = Apply(s, tr)
    BY <2>2, <2>3, ApplyAlike
  <2>5. ~Asks(tr.type) => EnabledInState(s, tr)
    BY <2>2 DEF MayGo
  <2>6. WellKept(s)
    BY <1>2, <2>1 DEF s
  <2> QED BY <2>3, <2>4, <2>5, <2>6, WellKeptStep
<1> HIDE DEF S
<1>3. \A k \in Nat : k \in S
  BY <1>1, <1>2, NatSetInduction
<1> QED BY <1>0, <1>3 DEF S

-----------------------------------------------------------------------------
(* The invariant of the search about the trace on its stack.  The stack is  *)
(* a trace of the program, the scheduler's objects and counters are those   *)
(* it leads to, and so are the next operations of the threads.  What makes  *)
(* it inductive is about the states that a branch may lead back to: the     *)
(* threads enabled in each of them, and which transitions after it can be   *)
(* undone.                                                                  *)

Shadow == Along(tstack)[Len(tstack)]

Traced == History(prog, tstack) /\ Agrees(prog, objs, Shadow)

Counted == /\ pc = [t \in Threads |-> Times(tstack, t, Len(tstack))]
           /\ depth = [t \in Threads |-> Cardinality(Deep(tstack, t, Len(tstack)))]

NextTraced == stage # "undefined" => \A t \in DOMAIN next : next[t] = Op(prog, t, pc[t])

EnabledThen ==
    \A i \in 1..Len(sstack) : \A t \in sstack[i].enabled :
        MayGo(prog, Along(tstack)[i - 1], Op(prog, t, Times(tstack, t, i - 1)))

LeaderReady == stage \in {"run", "limit"} => MayGo(prog, Shadow, next[leader])

Irreversibles ==
    /\ IsStack(irrev)
    /\ \A k \in 1..Len(irrev) : irrev[k] \in 1..(Len(tstack) + 1)
    /\ \A j, k \in 1..Len(irrev) : j < k => irrev[j] < irrev[k]
    /\ \A i \in 1..Len(tstack) :
           tstack[i].type \notin ReversibleOps => \E k \in 1..Len(irrev) : irrev[k] = i + 1

ThreadsMet ==
    /\ \A k \in 0..Len(tstack) : \A t \in Threads :
           Along(tstack)[k].thread[t] = "alive" => t \in DOMAIN next
    /\ \A t \in DOMAIN next : next[t].type = "create" => next[t].obj \in DOMAIN next

TraceInv == /\ Traced /\ Counted /\ NextTraced /\ EnabledThen /\ LeaderReady
            /\ Irreversibles /\ ThreadsMet

LEMMA CopyOperation ==
  ASSUME NEW os, NEW tr
  PROVE  /\ StaticCopy(os, tr).tid = tr.tid /\ StaticCopy(os, tr).type = tr.type
         /\ StaticCopy(os, tr).obj = tr.obj
BY DEF StaticCopy, Live, SeenCond, SeenBarrier

LEMMA OperationIs ==
  ASSUME NEW x, NEW p, NEW t, NEW n, x.tid = Op(p, t, n).tid, x.type = Op(p, t, n).type,
         x.obj = Op(p, t, n).obj
  PROVE  Operation(x) = Op(p, t, n)
BY DEF Operation, Op

LEMMA AgreesSelf ==
  ASSUME NEW p, NEW s, AreObjects(s)
  PROVE  Agrees(p, s, s)
BY DEF Agrees

\* A thread not known yet has not run.
LEMMA UnknownIdle ==
  ASSUME Traced, ThreadsMet, NEW t \in Threads, t \notin DOMAIN next
  PROVE  Times(tstack, t, Len(tstack)) = 0
<1>1. ASSUME NEW i \in 1..Len(tstack), tstack[i].tid = t PROVE FALSE
  <2>1. MayGo(prog, Along(tstack)[i - 1], Operation(tstack[i])) /\ Operation(tstack[i]).tid = t
    BY <1>1, Operated DEF Traced
  <2>2. Along(tstack)[i - 1].thread[t] = "alive"
    BY <2>1 DEF MayGo, IsAlive
  <2>3. i - 1 \in 0..Len(tstack)
    BY Stack DEF Traced, History
  <2> QED BY <2>2, <2>3 DEF ThreadsMet
<1>2. Ran(tstack, t, Len(tstack)) = {}
  BY <1>1 DEF Ran
<1> QED BY <1>2, FS_EmptySet DEF Times

LEMMA TraceInit ==
  ASSUME Init
  PROVE  TraceInv
<1>1. tstack = <<>> /\ irrev = <<>> /\ prog \in Programs
  BY DEF Init
<1>2. History(prog, tstack) /\ Len(tstack) = 0 /\ IsStack(tstack)
  BY <1>1, HistoryEmpty DEF History
<1>3. Shadow = Fresh /\ Along(tstack)[0] = Fresh /\ objs = Fresh
  BY <1>2, AlongStack DEF Shadow, Init, Fresh, StartState
<1>4. Traced
  BY <1>2, <1>3, FreshFields, AgreesSelf DEF Traced
<1>5. Counted
  BY <1>2, RanNone DEF Counted, Init
<1>6. DOMAIN next = {Main} /\ next[Main] = Op(prog, Main, 0) /\ pc[Main] = 0 /\ leader = Main
  BY ThreadsAssumption DEF Init, Posted
<1>7. NextTraced
  BY <1>6 DEF NextTraced
<1>8. EnabledThen
  <2> DEFINE item == NewItem(NoClock, {})
  <2>1. sstack = <<item>> /\ item.enabled = {}
    BY DEF Init, NewItem
  <2> HIDE DEF item
  <2>2. Len(sstack) = 1 /\ sstack[1].enabled = {}
    BY <2>1
  <2> QED BY <2>2 DEF EnabledThen
<1>9. LeaderReady
  <2>1. /\ Op(prog, Main, 0).tid = Main /\ Op(prog, Main, 0).type = "start"
    BY DEF Op
  <2>2. Fresh.thread[Main] = "alive"
    BY FreshFields, ThreadsAssumption
  <2>3. EnabledInState(Fresh, Op(prog, Main, 0))
    BY <2>1 DEF EnabledInState
  <2> QED BY <1>3, <1>6, <2>1, <2>2, <2>3 DEF LeaderReady, MayGo, IsAlive
<1>10. Irreversibles
  <2>1. IsStack(irrev) /\ Len(irrev) = 0
    BY <1>1 DEF IsStack
  <2> QED BY <1>2, <2>1 DEF Irreversibles
<1>11. ThreadsMet
  <2>1. \A t \in Threads : Fresh.thread[t] = "alive" => t = Main
    BY FreshFields
  <2>2. next[Main].type = "start"
    BY <1>6 DEF Op
  <2> QED BY <1>2, <1>3, <1>6, <2>1, <2>2 DEF ThreadsMet
<1> QED BY <1>4, <1>5, <1>7, <1>8, <1>9, <1>10, <1>11 DEF TraceInv

\* The steps that leave the trace, the objects and the enabled threads alone.
LEMMA TraceFrame ==
  ASSUME TraceInv, UNCHANGED <<prog, pc, objs, next, depth, tstack, irrev>>,
         Len(sstack') = Len(sstack),
         \A i \in 1..Len(sstack) : sstack'[i].enabled = sstack[i].enabled,
         stage' # "undefined" => stage # "undefined",
         stage' \in {"run", "limit"} => MayGo(prog, Shadow, next[leader'])
  PROVE  TraceInv'
<1> USE DEF TraceInv
<1>1. Traced'
  BY DEF Traced, Shadow
<1>2. Counted'
  BY DEF Counted
<1>3. NextTraced'
  BY DEF NextTraced
<1>4. EnabledThen'
  BY DEF EnabledThen
<1>5. LeaderReady'
  BY DEF LeaderReady, Shadow
<1>6. Irreversibles'
  BY DEF Irreversibles
<1>7. ThreadsMet'
  BY DEF ThreadsMet
<1> QED BY <1>1, <1>2, <1>3, <1>4, <1>5, <1>6, <1>7

\* The operation a thread that runs posts next.
LEMMA PostedOp ==
  ASSUME IInv, NEW post, post = Posted(leader, pc[leader] + 1)
  PROVE  /\ post = Op(prog, leader, pc[leader] + 1) /\ post \in Transition /\ post.tid = leader
         /\ Disciplined(prog) => post.type # "barrierWait"
         /\ ~WaitsOnConds(prog) => post.type # "condEnqueue"
<1>1. leader \in Threads /\ pc[leader] + 1 \in Nat /\ prog \in Programs
  BY DEF IInv, ThreadsKnown
<1>2. post = Op(prog, leader, pc[leader] + 1)
  BY DEF Posted
<1> QED BY <1>1, <1>2, OpTyped, OpTid, DisciplinedOp, NoCondEnqueue

\* Sequence z is s with y at k.
Overwrites(z, s, k, y) == z = [s EXCEPT ![k] = y]

LEMMA Written ==
  ASSUME NEW s, NEW z, NEW k, NEW y, IsStack(s), k \in 1..Len(s), Overwrites(z, s, k, y)
  PROVE  /\ IsStack(z) /\ Len(z) = Len(s)
         /\ \A i \in 1..Len(s) : z[i] = IF i = k THEN y ELSE s[i]
<1>1. PICK S : s \in Seq(S)
  BY DEF IsStack
<1>2. s \in Seq(S \cup {y})
  BY <1>1, SeqMonotonic
<1>3. z \in Seq(S \cup {y}) /\ Len(z) = Len(s)
  BY <1>2, ExceptSeq DEF Overwrites
<1>4. \A i \in 1..Len(s) : z[i] = IF i = k THEN y ELSE s[i]
  BY <1>2 DEF Overwrites
<1> QED BY <1>3, <1>4 DEF IsStack

LEMMA RunTraced ==
  ASSUME IInv, TraceInv, Run
  PROVE  TraceInv'
<1> DEFINE n == Len(tstack)
           tr == next[leader]
           x == StaticCopy(objs, tr)
           post == Posted(leader, pc[leader] + 1)
<1>1. /\ stage = "run" /\ prog' = prog /\ leader' = leader
      /\ tstack' = Append(tstack, x) /\ pc' = [pc EXCEPT ![leader] = pc[leader] + 1]
      /\ sstack' = Append([sstack EXCEPT ![Len(sstack)] = LeftBy(@, leader)],
                          NewItem([ClockOf(tr) EXCEPT ![leader] = Len(tstack) + 1], StillAsleep(tr)))
      /\ irrev' = IF tr.type \in ReversibleOps THEN irrev ELSE Append(irrev, Len(sstack) + 1)
      /\ objs' = WhenRead(Apply(objs, tr), post)
      /\ depth' = [depth EXCEPT ![leader] = IF CountsAgainstDepth(tr) THEN @ + 1 ELSE @]
      /\ \/ stage' = "undefined" /\ next' = next
         \/ stage' = "others" /\ next' = WithNext(post)
  BY DEF Run
<1>2. /\ prog \in Programs /\ leader \in Threads /\ leader \in DOMAIN next
      /\ DOMAIN next \subseteq Threads
      /\ \A t \in Threads : pc[t] = Times(tstack, t, n) /\ depth[t] = Cardinality(Deep(tstack, t, n))
      /\ n \in Nat /\ History(prog, tstack) /\ IsStack(tstack) /\ n \in 0..n
      /\ IsStack(sstack) /\ Len(sstack) = n + 1
  BY Stack DEF IInv, ThreadsKnown, TraceInv, Counted, Traced, History, StacksMatch
<1>3. /\ tr = Op(prog, leader, pc[leader]) /\ MayGo(prog, Shadow, tr) /\ Agrees(prog, objs, Shadow)
      /\ tr.tid = leader
  BY <1>1, <1>2, OpTid DEF TraceInv, NextTraced, LeaderReady, Traced
<1>4. /\ x.tid = leader /\ x.type = tr.type /\ x.obj = tr.obj
  BY <1>3, CopyOperation
<1>5. Operation(x) = Op(prog, leader, Times(tstack, leader, n))
  <2>1. Operation(x) = Op(prog, leader, pc[leader])
    BY <1>3, <1>4, OperationIs
  <2> QED BY <1>2, <2>1
<1>6. Operation(x) = tr /\ MayGo(prog, Along(tstack)[n], Operation(x))
  BY <1>2, <1>3, <1>5 DEF Shadow
<1> HIDE DEF x
<1>7. /\ History(prog, tstack') /\ Len(tstack') = n + 1 /\ tstack'[n + 1] = x
      /\ \A i \in 1..n : tstack'[i] = tstack[i]
      /\ \A k \in 0..n : Along(tstack')[k] = Along(tstack)[k]
      /\ Along(tstack')[n + 1] = Apply(Along(tstack)[n], x)
      /\ \A k \in 0..n : \A t : Times(tstack', t, k) = Times(tstack, t, k)
                                /\ Deep(tstack', t, k) = Deep(tstack, t, k)
  <2>1. /\ History(prog, tstack') /\ Len(tstack') = n + 1 /\ tstack'[n + 1] = x
        /\ Along(tstack')[n + 1] = Apply(Along(tstack)[n], x) /\ Alike(tstack, tstack', n)
    <3> HIDE DEF n
    <3>1. MayPush(prog, tstack, x, n)
      BY <1>2, <1>4, <1>5, <1>6 DEF MayPush, n
    <3>2. Extends(tstack', tstack, x)
      BY <1>1 DEF Extends
    <3>3. Pushes(tstack', tstack, x, prog, n)
      BY <3>1, <3>2, HistoryPushed
    <3> QED BY <3>3 DEF Pushes
  <2> QED BY <2>1 DEF Alike
<1>8. Apply(Along(tstack)[n], x) = Apply(Shadow, tr)
  BY <1>3, <1>4, ApplyAlike DEF Agrees, Shadow
<1>9. Traced'
  <2>1. Agrees(prog, Apply(objs, tr), Apply(Shadow, tr))
    BY <1>3, AgreesApplied
  <2>2. Agrees(prog, objs', Apply(Shadow, tr))
    BY <1>1, <2>1, PostedOp, AgreesRead
  <2>3. Shadow' = Apply(Shadow, tr)
    BY <1>7, <1>8 DEF Shadow
  <2> QED BY <1>1, <1>7, <2>2, <2>3 DEF Traced
<1>10. /\ \A t \in Threads : Times(tstack', t, n + 1) = IF t = leader THEN pc[t] + 1 ELSE pc[t]
       /\ \A t \in Threads : Cardinality(Deep(tstack', t, n + 1)) =
              IF t = leader /\ CountsAgainstDepth(tr) THEN depth[t] + 1 ELSE depth[t]
  <2> SUFFICES ASSUME NEW t \in Threads
               PROVE  /\ Times(tstack', t, n + 1) = IF t = leader THEN pc[t] + 1 ELSE pc[t]
                      /\ Cardinality(Deep(tstack', t, n + 1)) =
                           IF t = leader /\ CountsAgainstDepth(tr) THEN depth[t] + 1 ELSE depth[t]
    OBVIOUS
  <2>1. /\ Times(tstack', t, n + 1) = Times(tstack', t, n) + (IF tstack'[n + 1].tid = t THEN 1 ELSE 0)
        /\ Cardinality(Deep(tstack', t, n + 1)) = Cardinality(Deep(tstack', t, n))
             + (IF tstack'[n + 1].tid = t /\ CountsAgainstDepth(tstack'[n + 1]) THEN 1 ELSE 0)
    BY <1>2, RanOnce
  <2>2. Times(tstack', t, n) = pc[t] /\ Cardinality(Deep(tstack', t, n)) = depth[t]
    BY <1>2, <1>7
  <2>3. pc[t] \in Nat /\ depth[t] \in Nat
    BY <1>2, Ranges
  <2>4. CountsAgainstDepth(x) <=> CountsAgainstDepth(tr)
    BY <1>4 DEF CountsAgainstDepth
  <2> QED BY <1>4, <1>7, <2>1, <2>2, <2>3, <2>4
<1>11. Counted'
  <2>1. pc = [t \in Threads |-> pc[t]] /\ depth = [t \in Threads |-> depth[t]]
    BY DEF TraceInv, Counted
  <2>2. pc' = [t \in Threads |-> IF t = leader THEN pc[t] + 1 ELSE pc[t]]
    BY <1>1, <2>1
  <2>3. depth' = [t \in Threads |-> IF t = leader /\ CountsAgainstDepth(tr) THEN depth[t] + 1 ELSE depth[t]]
    BY <1>1, <2>1
  <2> QED BY <1>7, <1>10, <2>2, <2>3 DEF Counted
<1>12. NextTraced'
  <2> SUFFICES ASSUME stage' # "undefined", NEW t \in DOMAIN next'
               PROVE  next'[t] = Op(prog, t, pc'[t])
    BY <1>1 DEF NextTraced
  <2> DEFINE named == IF post.type \in {"create", "join"} THEN {post.obj} ELSE {}
  <2>1. next' = [u \in DOMAIN next \cup named |->
            IF u = post.tid THEN post ELSE IF u \in DOMAIN next THEN next[u] ELSE Posted(u, 0)]
    BY <1>1 DEF WithNext
  <2>2. post = Op(prog, leader, pc[leader] + 1) /\ post.tid = leader
    BY PostedOp
  <2>3. t \in DOMAIN next \cup named
    BY <2>1
  <2>4. t \in Threads
    BY <1>1, <1>2, NextPosted DEF IInv
  <2> HIDE DEF named, post
  <2>5. pc'[t] = IF t = leader THEN pc[t] + 1 ELSE pc[t]
    BY <1>1, <2>4 DEF TraceInv, Counted
  <2>6. CASE t = leader
    BY <2>1, <2>2, <2>3, <2>5, <2>6
  <2>7. CASE t # leader /\ t \in DOMAIN next
    <3>1. next[t] = Op(prog, t, pc[t])
      BY <1>1, <2>7 DEF TraceInv, NextTraced
    <3> QED BY <2>1, <2>2, <2>3, <2>5, <2>7, <3>1
  <2>8. CASE t # leader /\ t \notin DOMAIN next
    <3>1. pc[t] = 0
      BY <1>2, <2>4, <2>8, UnknownIdle DEF TraceInv
    <3> QED BY <2>1, <2>2, <2>3, <2>5, <2>8, <3>1 DEF Posted
  <2> QED BY <2>6, <2>7, <2>8
<1>13. EnabledThen'
  <2> DEFINE left == [sstack EXCEPT ![Len(sstack)] = LeftBy(sstack[Len(sstack)], leader)]
             top == NewItem([ClockOf(tr) EXCEPT ![leader] = Len(tstack) + 1], StillAsleep(tr))
  <2>1. /\ IsStack(left) /\ Len(left) = n + 1
        /\ \A i \in 1..(n + 1) : left[i] = IF i = n + 1 THEN LeftBy(sstack[n + 1], leader) ELSE sstack[i]
    <3>1. Len(sstack) \in 1..Len(sstack)
      BY <1>2
    <3> DEFINE y == LeftBy(sstack[Len(sstack)], leader)
               k == Len(sstack)
    <3>2. Overwrites(left, sstack, k, y) /\ IsStack(sstack) /\ k \in 1..Len(sstack)
      BY <1>2, <3>1 DEF Overwrites
    <3>3. k = n + 1 /\ y = LeftBy(sstack[n + 1], leader)
      BY <1>2
    <3> HIDE DEF left, y, k
    <3>4. /\ IsStack(left) /\ Len(left) = Len(sstack)
          /\ \A i \in 1..Len(sstack) : left[i] = IF i = k THEN y ELSE sstack[i]
      BY <3>2, Written
    <3> QED BY <1>2, <3>3, <3>4
  <2>2. top.enabled = {} /\ sstack' = Append(left, top)
    BY <1>1, FreshItem
  <2> HIDE DEF left, top
  <2>3. /\ Len(sstack') = n + 2 /\ sstack'[n + 2] = top
        /\ \A i \in 1..(n + 1) : sstack'[i] = left[i]
    BY <1>2, <2>1, <2>2, Pushed
  <2>4. LeftBy(sstack[n + 1], leader).enabled = sstack[n + 1].enabled \cup EnabledThreads(objs, next)
    <3>1. n + 1 \in 1..Len(sstack)
      BY <1>2
    <3>2. ItemSound(sstack[n + 1], DOMAIN next)
      BY <3>1 DEF IInv, ItemsSound
    <3> QED BY <3>2, LeftItem
  <2>5. ASSUME NEW t \in EnabledThreads(objs, next)
        PROVE  MayGo(prog, Along(tstack)[n], Op(prog, t, Times(tstack, t, n)))
    <3>1. t \in DOMAIN next /\ TransitionEnabled(objs, next[t]) /\ t \in Threads
      BY <1>2 DEF EnabledThreads
    <3>2. next[t] = Op(prog, t, pc[t]) /\ pc[t] \in Nat
      BY <1>1, <1>2, <3>1, Ranges DEF TraceInv, NextTraced
    <3>3. next[t] \in Transition /\ (Disciplined(prog) => next[t].type # "barrierWait")
      BY <1>2, <3>1, <3>2, OpTyped, DisciplinedOp
    <3>4. MayGo(prog, Shadow, next[t])
      BY <1>3, <3>1, <3>3, EnabledMayGo
    <3> QED BY <1>2, <3>1, <3>2, <3>4 DEF Shadow
  <2> SUFFICES ASSUME NEW i \in 1..(n + 2), NEW t \in sstack'[i].enabled
               PROVE  MayGo(prog, Along(tstack')[i - 1], Op(prog, t, Times(tstack', t, i - 1)))
    BY <1>1, <2>3 DEF EnabledThen
  <2>6. i \in 1..(n + 1)
    BY <1>2, <2>2, <2>3
  <2>7. /\ i - 1 \in 0..n
        /\ Along(tstack')[i - 1] = Along(tstack)[i - 1] /\ Times(tstack', t, i - 1) = Times(tstack, t, i - 1)
    BY <1>2, <1>7, <2>6
  <2>8. CASE t \in sstack[i].enabled
    BY <1>2, <2>6, <2>7, <2>8 DEF TraceInv, EnabledThen
  <2>9. CASE t \notin sstack[i].enabled
    <3>1. i = n + 1 /\ t \in EnabledThreads(objs, next)
      BY <2>1, <2>3, <2>4, <2>6, <2>9
    <3> QED BY <1>2, <2>5, <2>7, <3>1
  <2> QED BY <2>8, <2>9
<1>14. LeaderReady'
  BY <1>1 DEF LeaderReady
<1>15. Irreversibles'
  <2>1. /\ IsStack(irrev) /\ \A k \in 1..Len(irrev) : irrev[k] \in 1..(n + 1)
        /\ \A j, k \in 1..Len(irrev) : j < k => irrev[j] < irrev[k]
        /\ \A i \in 1..n : tstack[i].type \notin ReversibleOps => \E k \in 1..Len(irrev) : irrev[k] = i + 1
    BY DEF TraceInv, Irreversibles
  <2>2. \A i \in 1..(n + 1) : i \in 1..n \/ i = n + 1
    BY <1>2
  <2>3. CASE tr.type \in ReversibleOps
    <3>1. irrev' = irrev
      BY <1>1, <2>3
    <3>2. \A k \in 1..Len(irrev) : irrev[k] \in 1..((n + 1) + 1)
      BY <1>2, <2>1
    <3> QED BY <1>4, <1>7, <2>1, <2>2, <2>3, <3>1, <3>2 DEF Irreversibles
  <2>4. CASE tr.type \notin ReversibleOps
    <3> DEFINE m == Len(irrev)
    <3>1. irrev' = Append(irrev, n + 2) /\ n + 2 = (n + 1) + 1
      BY <1>1, <1>2, <2>4
    <3>2. /\ IsStack(irrev') /\ Len(irrev') = m + 1 /\ irrev'[m + 1] = n + 2 /\ m \in Nat
          /\ \A k \in 1..m : irrev'[k] = irrev[k]
      BY <2>1, <3>1, Pushed, Stack
    <3>3. \A k \in 1..(m + 1) : k \in 1..m \/ k = m + 1
      BY <3>2
    <3>4. ASSUME NEW k \in 1..(m + 1) PROVE irrev'[k] \in 1..((n + 1) + 1)
      <4>1. CASE k \in 1..m
        <5>1. irrev[k] \in 1..(n + 1) /\ irrev'[k] = irrev[k]
          BY <2>1, <3>2, <4>1
        <5> QED BY <1>2, <5>1
      <4>2. CASE k = m + 1
        BY <1>2, <3>2, <4>2
      <4> QED BY <3>3, <4>1, <4>2
    <3>5. ASSUME NEW j \in 1..(m + 1), NEW k \in 1..(m + 1), j < k PROVE irrev'[j] < irrev'[k]
      <4>1. j \in 1..m
        BY <3>2, <3>5
      <4>2. irrev[j] \in 1..(n + 1) /\ irrev'[j] = irrev[j]
        BY <2>1, <3>2, <4>1
      <4>3. CASE k \in 1..m
        BY <2>1, <3>2, <3>5, <4>1, <4>3
      <4>4. CASE k = m + 1
        BY <1>2, <3>2, <4>2, <4>4
      <4> QED BY <3>3, <4>3, <4>4
    <3>6. ASSUME NEW i \in 1..(n + 1), tstack'[i].type \notin ReversibleOps
          PROVE  \E k \in 1..(m + 1) : irrev'[k] = i + 1
      <4>1. CASE i \in 1..n
        <5>1. PICK k \in 1..m : irrev[k] = i + 1
          BY <1>7, <2>1, <3>6, <4>1
        <5>2. k \in 1..(m + 1) /\ irrev'[k] = i + 1
          BY <3>2, <5>1
        <5> QED BY <5>2
      <4>2. CASE i = n + 1
        <5>1. m + 1 \in 1..(m + 1) /\ irrev'[m + 1] = i + 1
          BY <1>2, <3>2, <4>2
        <5> QED BY <5>1
      <4> QED BY <2>2, <4>1, <4>2
    <3> QED BY <1>7, <3>2, <3>4, <3>5, <3>6 DEF Irreversibles
  <2> QED BY <2>3, <2>4
<1>16. ThreadsMet'
  <2>1. DOMAIN next \subseteq DOMAIN next'
    BY <1>1, NextPosted DEF IInv
  <2>2. \A k \in 0..n : \A t \in Threads : Along(tstack)[k].thread[t] = "alive" => t \in DOMAIN next
    BY DEF TraceInv, ThreadsMet
  <2>3. ASSUME NEW t \in Threads, Along(tstack')[n + 1].thread[t] = "alive"
        PROVE  t \in DOMAIN next'
    <3> DEFINE r == WholeAfter(Shadow, tr)
    <3>1. Along(tstack')[n + 1] = r
      BY <1>3, <1>7, <1>8, ApplyFields DEF Agrees
    <3>2. r.thread = ThreadAfter(Shadow.thread, tr)
      BY WholeFields
    <3> HIDE DEF r
    <3>3. CASE WritesThread(tr, t)
      BY <1>2, <1>3, <2>1, <3>3 DEF WritesThread, TraceInv, ThreadsMet
    <3>4. CASE ~WritesThread(tr, t)
      <4>1. Shadow.thread[t] = "alive"
        BY <2>3, <3>1, <3>2, <3>4 DEF ThreadAfter
      <4> QED BY <1>2, <2>1, <2>2, <4>1 DEF Shadow
    <3> QED BY <3>3, <3>4
  <2>4. ASSUME NEW k \in 0..(n + 1), NEW t \in Threads, Along(tstack')[k].thread[t] = "alive"
        PROVE  t \in DOMAIN next'
    <3>1. CASE k \in 0..n
      BY <1>7, <2>1, <2>2, <2>4, <3>1
    <3>2. CASE k = n + 1
      BY <2>3, <2>4, <3>2
    <3> QED BY <1>2, <3>1, <3>2
  <2>5. ASSUME NEW t \in DOMAIN next', next'[t].type = "create"
        PROVE  next'[t].obj \in DOMAIN next'
    <3>1. CASE next' = next
      BY <2>5, <3>1 DEF TraceInv, ThreadsMet
    <3>2. CASE next' = WithNext(post)
      <4> DEFINE named == IF post.type \in {"create", "join"} THEN {post.obj} ELSE {}
      <4>1. next' = [u \in DOMAIN next \cup named |->
                IF u = post.tid THEN post ELSE IF u \in DOMAIN next THEN next[u] ELSE Posted(u, 0)]
        BY <3>2 DEF WithNext
      <4>2. post.type = "create" => post.obj \in named
        OBVIOUS
      <4>3. Posted(t, 0).type = "start"
        BY DEF Posted, Op
      <4> HIDE DEF named, post
      <4> QED BY <2>5, <4>1, <4>2, <4>3 DEF TraceInv, ThreadsMet
    <3> QED BY <1>1, <3>1, <3>2
  <2> QED BY <1>7, <2>4, <2>5 DEF ThreadsMet
<1> QED BY <1>9, <1>11, <1>12, <1>13, <1>14, <1>15, <1>16 DEF TraceInv

-----------------------------------------------------------------------------
(* What a branch makes of the trace, in terms of the trace alone.           *)

\* The operations of thread t after state b, and its first.
LEMMA FirstDropped ==
  ASSUME IInv, NEW b \in 1..Len(tstack), NEW t, Of(t, Dropped(b)) # {}, NEW i,
         i = Min(Of(t, Dropped(b)))
  PROVE  /\ i \in b..Len(tstack) /\ tstack[i].tid = t
         /\ Times(tstack, t, i - 1) = Times(tstack, t, b - 1)
<1>0. Len(tstack) \in Nat
  BY Stack DEF IInv, StacksMatch
<1> DEFINE O == Of(t, Dropped(b))
<1>1. O \in SUBSET Nat /\ O # {} /\ O = {k \in b..Len(tstack) : tstack[k].tid = t}
  BY <1>0 DEF Of, Dropped
<1>2. \E x \in O : \A y \in O : x <= y
  BY <1>1, LeastOf
<1>3. i \in O /\ \A y \in O : i <= y
  BY <1>2 DEF Min
<1>4. i \in b..Len(tstack) /\ tstack[i].tid = t
  BY <1>1, <1>3
<1>5. ASSUME NEW k \in b..(i - 1), tstack[k].tid = t PROVE FALSE
  <2>1. k \in b..Len(tstack) /\ k < i
    BY <1>0, <1>4
  <2>2. k \in O
    BY <1>1, <1>5, <2>1
  <2> QED BY <1>0, <1>3, <1>4, <2>1, <2>2
<1> HIDE DEF O
<1>6. \A k \in 1..(i - 1) : k \in 1..(b - 1) \/ k \in b..(i - 1)
  BY <1>0, <1>4
<1>7. \A k \in 1..(b - 1) : k \in 1..(i - 1)
  BY <1>0, <1>4
<1>8. Ran(tstack, t, i - 1) = Ran(tstack, t, b - 1)
  BY <1>5, <1>6, <1>7 DEF Ran
<1> QED BY <1>4, <1>8 DEF Times

LEMMA KeptIs ==
  ASSUME NEW b, NEW t
  PROVE  /\ Of(t, Kept(b)) = Ran(tstack, t, b - 1)
         /\ CountedIn(t, Kept(b)) = Cardinality(Deep(tstack, t, b - 1))
<1>1. Of(t, Kept(b)) = Ran(tstack, t, b - 1)
  BY DEF Of, Kept, Ran
<1>2. {i \in Of(t, Kept(b)) : CountsAgainstDepth(tstack[i])} = Deep(tstack, t, b - 1)
  BY <1>1 DEF Deep
<1> QED BY <1>1, <1>2 DEF CountedIn

LEMMA DroppedIs ==
  ASSUME IInv, NEW b \in 1..Len(tstack), NEW t
  PROVE  CountedIn(t, Dropped(b)) =
             Cardinality(Deep(tstack, t, Len(tstack))) - Cardinality(Deep(tstack, t, b - 1))
<1>0. Len(tstack) \in Nat /\ b - 1 \in Nat
  BY Stack DEF IInv, StacksMatch
<1> DEFINE A == Deep(tstack, t, b - 1)
           B == {i \in Of(t, Dropped(b)) : CountsAgainstDepth(tstack[i])}
<1>1. Deep(tstack, t, Len(tstack)) = A \cup B /\ A \cap B = {}
  <2>1. /\ \A k \in 1..Len(tstack) : k \in 1..(b - 1) \/ k \in b..Len(tstack)
        /\ \A k \in 1..(b - 1) : k \in 1..Len(tstack) /\ k \notin b..Len(tstack)
        /\ \A k \in b..Len(tstack) : k \in 1..Len(tstack)
    BY <1>0
  <2> QED BY <2>1 DEF Deep, Ran, Of, Dropped
<1>2. IsFiniteSet(A) /\ Cardinality(A) \in Nat /\ IsFiniteSet(A \cup B)
  <2>1. IsFiniteSet(Deep(tstack, t, b - 1)) /\ Cardinality(Deep(tstack, t, b - 1)) \in Nat
    BY <1>0, Ranges
  <2>2. IsFiniteSet(Deep(tstack, t, Len(tstack)))
    BY <1>0, Ranges
  <2>3. IsFiniteSet(A \cup B)
    BY <1>1, <2>2
  <2> QED BY <2>1, <2>3
<1>3. IsFiniteSet(B)
  BY <1>2, FS_Subset
<1>4. Cardinality(B) \in Nat /\ Cardinality(A \cap B) = 0
  BY <1>1, <1>3, FS_CardinalityType, FS_EmptySet
<1>5. Cardinality(A \cup B) = Cardinality(A) + Cardinality(B) - Cardinality(A \cap B)
  BY <1>2, <1>3, FS_Union
<1>6. CountedIn(t, Dropped(b)) = Cardinality(B)
  BY DEF CountedIn
<1> HIDE DEF A, B
<1>7. Cardinality(B) = Cardinality(A \cup B) - Cardinality(A)
  BY <1>2, <1>4, <1>5
<1> QED BY <1>1, <1>6, <1>7 DEF A

LEMMA NextThen ==
  ASSUME IInv, TraceInv, stage # "undefined", NEW b \in 1..Len(tstack), NEW t \in DOMAIN next
  PROVE  NextAt(b)[t] = Op(prog, t, Times(tstack, t, b - 1))
<1>0. Len(tstack) \in Nat /\ t \in Threads
  BY Stack DEF IInv, StacksMatch, ThreadsKnown
<1>1. CASE Of(t, Dropped(b)) = {}
  <2>1. /\ \A k \in 1..Len(tstack) : k \in 1..(b - 1) \/ k \in b..Len(tstack)
        /\ \A k \in 1..(b - 1) : k \in 1..Len(tstack)
    BY <1>0
  <2>2. Ran(tstack, t, Len(tstack)) = Ran(tstack, t, b - 1)
    BY <1>1, <2>1 DEF Ran, Of, Dropped
  <2>3. next[t] = Op(prog, t, pc[t]) /\ pc[t] = Times(tstack, t, Len(tstack))
    BY <1>0 DEF TraceInv, NextTraced, Counted
  <2> QED BY <1>1, <2>2, <2>3 DEF NextAt, Times
<1>2. CASE Of(t, Dropped(b)) # {}
  <2> DEFINE i == Min(Of(t, Dropped(b)))
  <2>1. NextAt(b)[t] = Operation(tstack[i])
    BY <1>2 DEF NextAt
  <2> HIDE DEF i
  <2>2. /\ i \in b..Len(tstack) /\ tstack[i].tid = t
        /\ Times(tstack, t, i - 1) = Times(tstack, t, b - 1)
    BY <1>2, FirstDropped DEF i
  <2>3. i \in 1..Len(tstack)
    BY <1>0, <2>2
  <2>4. Operation(tstack[i]) = Op(prog, t, Times(tstack, t, i - 1))
    BY <2>2, <2>3, Operated DEF TraceInv, Traced
  <2> QED BY <2>1, <2>2, <2>4
<1> QED BY <1>1, <1>2

\* In the state the search begins in only main can run, and the search runs it.
LEMMA FirstState ==
  ASSUME IInv, TraceInv, NEW b \in 1..Len(tstack), NEW t \in sstack[b].backtrack
  PROVE  /\ b >= 2 /\ tstack[1].type = "start" /\ tstack[1].tid = Main
         /\ MayGo(prog, Along(tstack)[b - 1], Op(prog, t, Times(tstack, t, b - 1)))
         /\ t \in Threads
<1>0. /\ Len(tstack) \in Nat /\ Len(sstack) = Len(tstack) + 1 /\ IsStack(tstack)
      /\ b \in 1..Len(sstack) /\ 1 \in 1..Len(tstack) /\ 1 \in 1..Len(sstack)
      /\ 1 - 1 = 0 /\ 0 \in Nat
  BY Stack DEF IInv, StacksMatch
<1>1. /\ t \in sstack[b].enabled /\ t \in DOMAIN next /\ t \in Threads /\ t \notin sstack[b].done
  BY <1>0 DEF IInv, ItemsSound, ItemSound, ThreadsKnown
<1>2. MayGo(prog, Along(tstack)[b - 1], Op(prog, t, Times(tstack, t, b - 1)))
  BY <1>0, <1>1 DEF TraceInv, EnabledThen
<1>3. Along(tstack)[0].thread = [u \in Threads |-> IF u = Main THEN "alive" ELSE "embryo"]
  BY <1>0, AlongStack, FreshFields
<1>4. /\ tstack[1].tid \in Threads
      /\ Operation(tstack[1]) = Op(prog, tstack[1].tid, Times(tstack, tstack[1].tid, 0))
      /\ tstack[1].type = Operation(tstack[1]).type
      /\ tstack[1].tid = Operation(tstack[1]).tid
      /\ MayGo(prog, Along(tstack)[0], Operation(tstack[1]))
  <2>1. History(prog, tstack) /\ 1 \in 1..Len(tstack) /\ 1 - 1 = 0
    BY <1>0 DEF TraceInv, Traced
  <2> QED BY ONLY <2>1, Operated
<1>5. tstack[1].tid = Main
  BY <1>3, <1>4 DEF MayGo, IsAlive
<1>6. tstack[1].type = "start"
  BY <1>4, <1>5, RanNone DEF Op
<1>7. b # 1
  <2> SUFFICES ASSUME b = 1 PROVE FALSE
    OBVIOUS
  <2>1. Op(prog, t, Times(tstack, t, 0)).tid = t
    BY OpTid
  <2>2. t = Main
    BY <1>0, <1>1, <1>2, <1>3, <2>1 DEF MayGo, IsAlive
  <2>3. Main \in sstack[1].done
    BY <1>0, <1>5 DEF IInv, SearchedAsleep
  <2> QED BY <1>1, <2>2, <2>3
<1> QED BY <1>0, <1>1, <1>2, <1>5, <1>6, <1>7

LEMMA ReplayedObjects ==
  ASSUME IInv, TraceInv, NEW b \in 1..Len(tstack), b >= 2, tstack[1].type = "start",
         tstack[1].tid = Main
  PROVE  FoldLeft(Apply, InitialObjects, SubSeq(tstack, 1, b - 1)) = Along(tstack)[b - 1]
<1>0. Len(tstack) \in Nat /\ b - 1 \in 0..Len(tstack) /\ IsStack(tstack) /\ b - 1 >= 1
  BY Stack DEF IInv, StacksMatch
<1> DEFINE r == SubSeq(tstack, 1, b - 1)
<1>1. /\ History(prog, r) /\ Len(r) = b - 1 /\ Alike(tstack, r, b - 1)
  BY <1>0, HistoryCut DEF TraceInv, Traced
<1>2. IsStack(r) /\ Len(r) >= 1 /\ r[1] = tstack[1]
  BY <1>0, <1>1 DEF History, Alike
<1>3. Along(r)[Len(r)] = Along(tstack)[b - 1]
  BY <1>0, <1>1 DEF Alike
<1> HIDE DEF r
<1>4. FoldLeft(Apply, InitialObjects, r) = Along(r)[Len(r)]
  BY <1>2, Replayed
<1> QED BY <1>3, <1>4 DEF r

\* The transitions that a branch undoes can be.
LEMMA AllReversible ==
  ASSUME IInv, TraceInv, NEW b \in 1..Len(tstack), CanRunInReverseTo(b),
         NEW i \in b..Len(tstack)
  PROVE  tstack[i].type \in ReversibleOps
<1> SUFFICES ASSUME tstack[i].type \notin ReversibleOps PROVE FALSE
  OBVIOUS
<1>0. Len(tstack) \in Nat /\ i \in 1..Len(tstack)
  BY Stack DEF IInv, StacksMatch
<1>1. PICK k \in 1..Len(irrev) : irrev[k] = i + 1
  BY <1>0 DEF TraceInv, Irreversibles
<1>2. Len(irrev) \in Nat /\ Len(irrev) \in 1..Len(irrev)
  BY <1>1, Stack DEF TraceInv, Irreversibles
<1>3. irrev # <<>>
  BY <1>1, <1>2
<1>4. b >= irrev[Len(irrev)]
  BY <1>3 DEF CanRunInReverseTo, Last
<1>5. irrev[Len(irrev)] >= irrev[k] /\ irrev[Len(irrev)] \in Nat
  <2>1. irrev[Len(irrev)] \in 1..(Len(tstack) + 1) /\ irrev[k] \in 1..(Len(tstack) + 1)
    BY <1>1, <1>2 DEF TraceInv, Irreversibles
  <2>2. CASE k = Len(irrev)
    BY <1>0, <2>1, <2>2
  <2>3. CASE k # Len(irrev)
    <3>1. k < Len(irrev)
      BY <1>1, <1>2, <2>3
    <3>2. irrev[k] < irrev[Len(irrev)]
      BY <1>1, <1>2, <3>1 DEF TraceInv, Irreversibles
    <3> QED BY <1>0, <2>1, <3>2
  <2> QED BY <2>2, <2>3
<1> QED BY <1>0, <1>1, <1>4, <1>5

\* Before an unlock its thread had the mutex; before it is initialised, nobody used it.
LEMMA MutexBefore ==
  ASSUME NEW p \in Programs, Disciplined(p), NEW q, History(p, q), NEW i \in 1..Len(q)
  PROVE  /\ q[i].type = "unlock" => Along(q)[i - 1].mutex[q[i].obj] = "locked"
         /\ q[i].type = "mutexInit" => Along(q)[i - 1].mutex[q[i].obj] = "undefined"
<1> DEFINE t == q[i].tid
           m == q[i].obj
           n == Times(q, t, i - 1)
           tr == Operation(q[i])
<1>1. /\ i - 1 \in Nat /\ n \in Nat /\ t \in Threads /\ tr = Op(p, t, n)
      /\ q[i].type = tr.type /\ q[i].obj = tr.obj
  BY Operated
<1>2. i - 1 \in 0..Len(q)
  BY <1>1, Stack DEF History
<1>3. Ordered(p, CountersAt(q, i - 1), Along(q)[i - 1].mutex) /\ CountersAt(q, i - 1)[t] = n
  BY <1>1, <1>2, OrderedAlong DEF CountersAt
<1>4. tr \in Transition
  BY <1>1, OpTyped
<1> HIDE DEF n, tr
<1>5. CASE q[i].type = "unlock"
  <2>1. m \in Mutexes
    BY <1>1, <1>4, <1>5, TypedTransition DEF MutexOps
  <2>2. Releases(Op(p, t, n), m)
    BY <1>1, <1>5 DEF Releases
  <2>3. Holds(p, t, n, m)
    BY <1>1, <2>1, <2>2, DisciplinedOp
  <2> QED BY <1>1, <1>3, <1>5, <2>1, <2>3 DEF Ordered
<1>6. CASE q[i].type = "mutexInit"
  <2>1. m \in Mutexes
    BY <1>1, <1>4, <1>6, TypedTransition DEF MutexOps
  <2>2. Initialises(Op(p, t, n), m)
    BY <1>1, <1>6 DEF Initialises
  <2>3. InitPending(p, CountersAt(q, i - 1), m)
    BY <1>1, <1>3, <2>2 DEF InitPending
  <2> QED BY <1>3, <1>6, <2>1, <2>3 DEF Ordered
<1> QED BY <1>5, <1>6

LEMMA Backwards ==
  ASSUME NEW q, IsStack(q), NEW b \in 1..Len(q), NEW w, w = Reverse(SubSeq(q, b, Len(q)))
  PROVE  /\ IsStack(w) /\ Len(w) = Len(q) - b + 1
         /\ \A j \in 1..Len(w) : w[j] = q[Len(q) - j + 1]
<1>0. Len(q) \in Nat
  BY Stack
<1>1. PICK S : q \in Seq(S)
  BY DEF IsStack
<1> DEFINE r == SubSeq(q, b, Len(q))
<1>2. \A i \in b..Len(q) : q[i] \in S
  BY <1>0, <1>1
<1>3. b \in Int /\ Len(q) \in Int /\ b <= Len(q)
  BY <1>0
<1>4. /\ r \in Seq(S) /\ Len(r) = Len(q) - b + 1
      /\ \A i \in 1..(Len(q) - b + 1) : r[i] = q[b + i - 1]
  BY <1>2, <1>3, SubSeqProperties
<1> HIDE DEF r
<1>5. w = [i \in 1..Len(r) |-> r[(Len(r) - i) + 1]]
  BY DEF Reverse, r
<1>6. Len(r) \in Nat /\ \A i \in 1..Len(r) : (Len(r) - i) + 1 \in 1..Len(r)
  BY <1>4
<1>7. \A i \in 1..Len(r) : r[(Len(r) - i) + 1] \in S
  BY <1>4, <1>6
<1>8. w \in [1..Len(r) -> S]
  BY <1>5, <1>7
<1>9. w \in Seq(S) /\ Len(w) = Len(r)
  BY <1>6, <1>8
<1>10. ASSUME NEW j \in 1..Len(w) PROVE w[j] = q[Len(q) - j + 1]
  <2>1. w[j] = r[(Len(r) - j) + 1] /\ (Len(r) - j) + 1 \in 1..(Len(q) - b + 1)
    BY <1>4, <1>5, <1>6, <1>9
  <2>2. b + ((Len(r) - j) + 1) - 1 = Len(q) - j + 1
    BY <1>0, <1>4, <1>9
  <2>3. r[(Len(r) - j) + 1] = q[b + ((Len(r) - j) + 1) - 1]
    BY <1>4, <2>1
  <2> QED BY <2>1, <2>2, <2>3
<1> QED BY <1>4, <1>9, <1>10 DEF IsStack

LEMMA RevertedObjects ==
  ASSUME IInv, TraceInv, NEW b \in 1..Len(tstack), CanRunInReverseTo(b)
  PROVE  Agrees(prog, FoldLeft(Unapply, objs, Reverse(SubSeq(tstack, b, Len(tstack)))),
                Along(tstack)[b - 1])
<1> DEFINE n == Len(tstack)
           w == Reverse(SubSeq(tstack, b, Len(tstack)))
<1>0. n \in Nat /\ IsStack(tstack) /\ History(prog, tstack) /\ prog \in Programs
  BY Stack DEF IInv, StacksMatch, ThreadsKnown, TraceInv, Traced
<1>1. /\ IsStack(w) /\ Len(w) = n - b + 1
      /\ \A j \in 1..Len(w) : w[j] = tstack[n - j + 1]
  BY <1>0, Backwards
<1> HIDE DEF w
<1>2. PICK h : Takes("undo", prog, objs, w, h) /\ FoldLeft(Unapply, objs, w) = h[Len(w)]
  <2>1. IsStack(w)
    BY <1>1
  <2> QED BY ONLY <2>1, UndoneOneByOne
<1>3. h[0] = objs /\ \A j \in 1..Len(w) : h[j] = Unapply(h[j - 1], w[j])
  BY <1>2 DEF Takes, Turn
<1> DEFINE S == {j \in Nat : j <= Len(w) => Agrees(prog, h[j], Along(tstack)[n - j])}
<1>4. 0 \in S
  <2>1. n - 0 = n /\ Agrees(prog, objs, Along(tstack)[n])
    BY <1>0 DEF TraceInv, Traced, Shadow
  <2> HIDE DEF n
  <2> QED BY <1>3, <2>1
<1>5. ASSUME NEW j \in Nat, j \in S PROVE j + 1 \in S
  <2> SUFFICES ASSUME j + 1 <= Len(w) PROVE Agrees(prog, h[j + 1], Along(tstack)[n - (j + 1)])
    OBVIOUS
  <2> DEFINE i == n - j
             x == tstack[i]
             r == Along(tstack)[i - 1]
             s == h[j]
  <2>1. /\ j + 1 \in 1..Len(w) /\ (j + 1) - 1 = j /\ n - (j + 1) + 1 = i /\ n - (j + 1) = i - 1
        /\ i \in b..Len(tstack) /\ i \in 1..Len(tstack) /\ i - 1 \in 0..Len(tstack) /\ j <= Len(w)
    BY <1>0, <1>1
  <2>2. h[j + 1] = Unapply(s, x)
    <3>1. h[j + 1] = Unapply(h[(j + 1) - 1], w[j + 1]) /\ w[j + 1] = tstack[n - (j + 1) + 1]
      BY <1>1, <1>3, <2>1
    <3> QED BY <2>1, <3>1
  <2>3. Agrees(prog, s, Along(tstack)[i])
    BY <1>5, <2>1
  <2>4. Along(tstack)[i] = Apply(r, x) /\ AreObjects(r)
    BY <1>0, <2>1, AlongStack, AlongObjects
  <2>5. x.type \in ReversibleOps
    BY <2>1, AllReversible
  <2>6. IsAlive(r, x.tid)
    <3>1. MayGo(prog, r, Operation(x)) /\ Operation(x).tid = x.tid
      <4>1. History(prog, tstack) /\ i \in 1..Len(tstack)
        BY <1>0, <2>1
      <4> HIDE DEF i, s, S
      <4> QED BY <4>1, Operated
    <3> HIDE DEF r, x, i
    <3> QED BY <3>1 DEF MayGo
  <2>7. Disciplined(prog) => /\ x.type = "unlock" => r.mutex[x.obj] = "locked"
                             /\ x.type = "mutexInit" => r.mutex[x.obj] = "undefined"
    BY <1>0, <2>1, MutexBefore
  <2> HIDE DEF x, r, s, i
  <2>8. Agrees(prog, s, Apply(r, x))
    BY <2>3, <2>4
  <2>9. Agrees(prog, Unapply(s, x), r)
    BY <2>4, <2>5, <2>6, <2>7, <2>8, AgreesUndone
  <2>10. Along(tstack)[n - (j + 1)] = r
    BY <2>1 DEF r
  <2> QED BY <2>2, <2>9, <2>10
<1> HIDE DEF S
<1>6. \A j \in Nat : j \in S
  BY <1>4, <1>5, NatSetInduction
<1>7. Len(w) \in S /\ n - Len(w) = b - 1 /\ Len(w) \in Nat
  BY <1>0, <1>1, <1>6
<1>8. Agrees(prog, h[Len(w)], Along(tstack)[b - 1])
  BY <1>7 DEF S
<1> QED BY <1>2, <1>8 DEF w

LEMMA GreatestOf ==
  ASSUME NEW n \in Nat, NEW T \in SUBSET (0..n), T # {}, NEW m, m = Max(T)
  PROVE  m \in T /\ \A y \in T : y <= m
<1> DEFINE mirror == {n - x : x \in T}
<1>1. mirror \in SUBSET Nat /\ mirror # {}
  <2>1. \A x \in T : n - x \in Nat
    OBVIOUS
  <2> QED BY <2>1
<1>2. PICK z \in mirror : \A y \in mirror : z <= y
  BY <1>1, LeastOf
<1>3. PICK x \in T : z = n - x
  BY <1>2
<1>4. \A y \in T : x >= y
  <2> TAKE y \in T
  <2>1. z <= n - y
    BY <1>2
  <2> QED BY <1>3, <2>1
<1>5. \E y \in T : \A z1 \in T : y >= z1
  BY <1>4
<1>6. m \in T /\ \A y \in T : m >= y
  BY <1>5 DEF Max
<1> QED BY <1>6

\* popGreaterThan leaves exactly the entries up to state b.
LEMMA PoppedTo ==
  ASSUME IsStack(irrev), \A k \in 1..Len(irrev) : irrev[k] \in Nat, NEW b \in Nat,
         NEW left, left = IrreversibleUpTo(b),
         \A j, k \in 1..Len(irrev) : j < k => irrev[j] < irrev[k]
  PROVE  /\ IsStack(left) /\ Len(left) \in 0..Len(irrev)
         /\ \A k \in 1..Len(left) : left[k] = irrev[k] /\ irrev[k] <= b
         /\ \A k \in 1..Len(irrev) : irrev[k] <= b => k \in 1..Len(left)
<1> DEFINE T == {0} \cup {k \in DOMAIN irrev : irrev[k] <= b}
           m == Max(T)
<1>0. Len(irrev) \in Nat /\ DOMAIN irrev = 1..Len(irrev)
  BY Stack
<1>1. T \in SUBSET (0..Len(irrev)) /\ T # {}
  BY <1>0
<1>2. left = SubSeq(irrev, 1, m)
  BY DEF IrreversibleUpTo
<1> HIDE DEF m
<1>3. m \in T /\ \A y \in T : y <= m
  <2> HIDE DEF T
  <2> QED BY <1>0, <1>1, GreatestOf DEF m
<1>4. m \in 0..Len(irrev)
  BY <1>1, <1>3
<1>5. IsStack(left) /\ Len(left) = m /\ \A k \in 1..m : left[k] = irrev[k]
  BY <1>2, <1>4, Truncated
<1>6. ASSUME NEW k \in 1..m PROVE irrev[k] <= b
  <2>1. m # 0 /\ m \in 1..Len(irrev) /\ k \in 1..Len(irrev)
    BY <1>0, <1>4
  <2>2. irrev[m] <= b
    BY <1>3, <2>1
  <2>3. CASE k = m
    BY <2>2, <2>3
  <2>4. CASE k # m
    <3>1. k < m
      BY <1>4, <2>4
    <3>2. irrev[k] < irrev[m] /\ irrev[k] \in Nat /\ irrev[m] \in Nat
      BY <2>1, <3>1
    <3> QED BY <2>2, <3>2
  <2> QED BY <2>3, <2>4
<1>7. ASSUME NEW k \in 1..Len(irrev), irrev[k] <= b PROVE k \in 1..m
  <2>1. k \in T
    BY <1>0, <1>7
  <2> QED BY <1>3, <1>4, <1>0, <2>1
<1> HIDE DEF T
<1> QED BY <1>4, <1>5, <1>6, <1>7

\* Where a branch goes back to, and what it leaves of the stacks.
LEMMA BranchesTo ==
  ASSUME IInv, Branch
  PROVE  \E b \in 1..Len(tstack) : \E t \in sstack[b].backtrack :
             /\ leader' = t /\ tstack' = SubSeq(tstack, 1, b - 1) /\ next' = NextAt(b)
             /\ IsStack(sstack') /\ Len(sstack') = b
             /\ \A i \in 1..b : sstack'[i].enabled = sstack[i].enabled
             /\ irrev' = IrreversibleUpTo(b)
             /\ pc' = [u \in Threads |-> Cardinality(Of(u, Kept(b)))]
             /\ IF CanRunInReverseTo(b) THEN Revert(b) ELSE Replay(b)
<1> USE DEF IInv
<1>1. /\ Len(sstack) \in Nat /\ Len(tstack) \in Nat /\ Len(sstack) = Len(tstack) + 1
      /\ IsStack(sstack) /\ IsStack(tstack) /\ DOMAIN sstack = 1..Len(sstack)
  BY Stack DEF StacksMatch
<1>2. stage = "branch" /\ BranchPoints # {}
  BY DEF Branch
<1> DEFINE b == Max(BranchPoints)
<1>3. b \in 1..Len(sstack) /\ sstack[b].backtrack # {}
  <2>1. BranchPoints \in SUBSET (1..Len(sstack))
    BY <1>1 DEF BranchPoints
  <2>2. Max(BranchPoints) \in BranchPoints
    BY <1>1, <1>2, <2>1, MaxIsElement
  <2> QED BY <2>1, <2>2 DEF BranchPoints
<1>4. PICK t \in sstack[b].backtrack :
        /\ leader' = t /\ sstack' = [SubSeq(sstack, 1, b) EXCEPT ![b] = Searched(@, t)]
        /\ tstack' = SubSeq(tstack, 1, b - 1) /\ next' = NextAt(b)
        /\ irrev' = IrreversibleUpTo(b)
        /\ pc' = [u \in Threads |-> Cardinality(Of(u, Kept(b)))]
        /\ IF CanRunInReverseTo(b) THEN Revert(b) ELSE Replay(b)
  BY DEF Branch
<1> HIDE DEF b
<1>5. b \in 1..Len(tstack)
  <2>1. sstack[Len(sstack)].backtrack = {}
    BY <1>1, <1>2 DEF TopItem, ItemsSound, ItemSound, Between
  <2> QED BY <1>1, <1>3, <2>1
<1> DEFINE item == Searched(sstack[b], t)
           reopened == [SubSeq(sstack, 1, b) EXCEPT ![b] = item]
<1>6. SubSeq(sstack, 1, b)[b] = sstack[b]
  <2>1. b \in 0..Len(sstack) /\ b \in 1..b
    BY <1>1, <1>3
  <2> QED BY <1>1, <2>1, Truncated
<1>7. sstack' = reopened
  BY <1>4, <1>6
<1>8. item.enabled = sstack[b].enabled
  BY <1>3, SearchedItem DEF ItemsSound
<1> HIDE DEF item
<1>9. /\ IsStack(reopened) /\ Len(reopened) = b
      /\ \A i \in 1..b : reopened[i] = IF i = b THEN item ELSE sstack[i]
  BY <1>1, <1>3, Reopened
<1> HIDE DEF reopened
<1>10. /\ IsStack(sstack') /\ Len(sstack') = b
       /\ \A i \in 1..b : sstack'[i].enabled = sstack[i].enabled
  BY <1>7, <1>8, <1>9
<1>11. /\ leader' = t /\ tstack' = SubSeq(tstack, 1, b - 1) /\ next' = NextAt(b)
       /\ irrev' = IrreversibleUpTo(b)
       /\ pc' = [u \in Threads |-> Cardinality(Of(u, Kept(b)))]
       /\ IF CanRunInReverseTo(b) THEN Revert(b) ELSE Replay(b)
  BY <1>4
<1> QED BY <1>5, <1>10, <1>11

\* The thread a create in the trace made is known.
LEMMA CreatedKnown ==
  ASSUME IInv, TraceInv, NEW i \in 1..Len(tstack), tstack[i].type = "create"
  PROVE  tstack[i].obj \in DOMAIN next
<1> DEFINE x == tstack[i]
           s == Along(tstack)[i - 1]
           r == WholeAfter(s, x)
<1>1. /\ i - 1 \in Nat /\ Times(tstack, x.tid, i - 1) \in Nat /\ x.tid \in Threads
      /\ Operation(x) = Op(prog, x.tid, Times(tstack, x.tid, i - 1))
      /\ x.type = Operation(x).type /\ x.obj = Operation(x).obj /\ prog \in Programs
  BY Operated DEF TraceInv, Traced, IInv, ThreadsKnown
<1>2. x.obj \in Threads
  BY <1>1, NamedThread
<1>3. i - 1 \in 0..Len(tstack) /\ i \in 0..Len(tstack) /\ IsStack(tstack)
  BY Stack DEF IInv, StacksMatch
<1>4. Along(tstack)[i] = Apply(s, x) /\ AreObjects(s)
  BY <1>3, AlongStack, AlongObjects
<1>5. Apply(s, x) = r
  BY <1>4, ApplyFields
<1>6. r.thread = ThreadAfter(s.thread, x)
  BY WholeFields
<1> HIDE DEF r, s
<1>7. r.thread[x.obj] = "alive"
  BY <1>2, <1>6 DEF ThreadAfter, WritesThread
<1> QED BY <1>2, <1>3, <1>4, <1>5, <1>7 DEF TraceInv, ThreadsMet

LEMMA BranchTraced ==
  ASSUME IInv, TraceInv, Branch
  PROVE  TraceInv'
<1>1. PICK b \in 1..Len(tstack) : \E t \in sstack[b].backtrack :
             /\ leader' = t /\ tstack' = SubSeq(tstack, 1, b - 1) /\ next' = NextAt(b)
             /\ IsStack(sstack') /\ Len(sstack') = b
             /\ \A i \in 1..b : sstack'[i].enabled = sstack[i].enabled
             /\ irrev' = IrreversibleUpTo(b)
             /\ pc' = [u \in Threads |-> Cardinality(Of(u, Kept(b)))]
             /\ IF CanRunInReverseTo(b) THEN Revert(b) ELSE Replay(b)
  BY BranchesTo
<1>2. PICK t \in sstack[b].backtrack :
             /\ leader' = t /\ tstack' = SubSeq(tstack, 1, b - 1) /\ next' = NextAt(b)
             /\ IsStack(sstack') /\ Len(sstack') = b
             /\ \A i \in 1..b : sstack'[i].enabled = sstack[i].enabled
             /\ irrev' = IrreversibleUpTo(b)
             /\ pc' = [u \in Threads |-> Cardinality(Of(u, Kept(b)))]
             /\ IF CanRunInReverseTo(b) THEN Revert(b) ELSE Replay(b)
  BY <1>1
<1>3. stage = "branch" /\ stage' = "run" /\ prog' = prog
  BY DEF Branch
<1>4. /\ Len(tstack) \in Nat /\ IsStack(tstack) /\ b - 1 \in 0..Len(tstack) /\ b \in Nat
      /\ Len(sstack) = Len(tstack) + 1
  BY Stack DEF IInv, StacksMatch
<1>5. /\ History(prog, tstack') /\ Len(tstack') = b - 1 /\ Alike(tstack, tstack', b - 1)
  <2> DEFINE r == SubSeq(tstack, 1, b - 1)
  <2>1. History(prog, r) /\ Len(r) = b - 1 /\ Alike(tstack, r, b - 1)
    BY <1>4, HistoryCut DEF TraceInv, Traced
  <2>2. tstack' = r
    BY <1>2
  <2> HIDE DEF r
  <2> QED BY <2>1, <2>2
<1>6. /\ \A k \in 0..(b - 1) : Along(tstack')[k] = Along(tstack)[k]
      /\ \A k \in 0..(b - 1) : \A u : Times(tstack', u, k) = Times(tstack, u, k)
                                      /\ Deep(tstack', u, k) = Deep(tstack, u, k)
      /\ \A i \in 1..(b - 1) : tstack'[i] = tstack[i]
      /\ b - 1 \in 0..(b - 1)
  BY <1>4, <1>5 DEF Alike
<1>7. /\ b >= 2 /\ tstack[1].type = "start" /\ tstack[1].tid = Main
      /\ MayGo(prog, Along(tstack)[b - 1], Op(prog, t, Times(tstack, t, b - 1)))
      /\ t \in Threads /\ t \in DOMAIN next
  <2>1. b \in 1..Len(sstack)
    BY <1>4
  <2>2. t \in DOMAIN next
    BY <2>1 DEF IInv, ItemsSound, ItemSound
  <2> QED BY <2>2, FirstState
<1>8. Shadow' = Along(tstack)[b - 1]
  BY <1>5, <1>6 DEF Shadow
<1>9. Traced'
  <2>1. Agrees(prog, objs', Along(tstack)[b - 1])
    <3>1. CASE CanRunInReverseTo(b)
      BY <1>2, <3>1, RevertedObjects DEF Revert
    <3>2. CASE ~CanRunInReverseTo(b)
      <4>1. objs' = Along(tstack)[b - 1]
        BY <1>2, <1>7, <3>2, ReplayedObjects DEF Replay
      <4> QED BY <1>4, <4>1, AlongObjects, AgreesSelf
    <3> QED BY <3>1, <3>2
  <2> QED BY <1>3, <1>5, <1>8, <2>1 DEF Traced
<1>10. Counted'
  <2>1. pc' = [u \in Threads |-> Times(tstack, u, b - 1)]
    BY <1>2, KeptIs DEF Times
  <2>2. depth' = [u \in Threads |-> Cardinality(Deep(tstack, u, b - 1))]
    <3>1. CASE CanRunInReverseTo(b)
      <4>1. depth' = [u \in Threads |-> depth[u] - CountedIn(u, Dropped(b))]
        BY <1>2, <3>1 DEF Revert
      <4>2. ASSUME NEW u \in Threads
            PROVE  depth[u] - CountedIn(u, Dropped(b)) = Cardinality(Deep(tstack, u, b - 1))
        <5>1. depth[u] = Cardinality(Deep(tstack, u, Len(tstack)))
          BY DEF TraceInv, Counted
        <5>2. CountedIn(u, Dropped(b)) =
                Cardinality(Deep(tstack, u, Len(tstack))) - Cardinality(Deep(tstack, u, b - 1))
          BY DroppedIs
        <5>3. /\ Cardinality(Deep(tstack, u, Len(tstack))) \in Nat
              /\ Cardinality(Deep(tstack, u, b - 1)) \in Nat
          BY <1>4, Ranges
        <5> QED BY <5>1, <5>2, <5>3
      <4> QED BY <4>1, <4>2
    <3>2. CASE ~CanRunInReverseTo(b)
      BY <1>2, <3>2, KeptIs DEF Replay
    <3> QED BY <3>1, <3>2
  <2> QED BY <1>5, <1>6, <2>1, <2>2 DEF Counted
<1>11. DOMAIN next' = DOMAIN next /\ DOMAIN next \subseteq Threads
  BY <1>2, NextRestored DEF IInv, ThreadsKnown
<1>12. \A u \in DOMAIN next : next'[u] = Op(prog, u, Times(tstack, u, b - 1))
  BY <1>2, <1>3, NextThen
<1>13. NextTraced'
  BY <1>3, <1>5, <1>6, <1>10, <1>11, <1>12 DEF NextTraced, Counted
<1>14. EnabledThen'
  <2> SUFFICES ASSUME NEW i \in 1..b, NEW u \in sstack'[i].enabled
               PROVE  MayGo(prog, Along(tstack')[i - 1], Op(prog, u, Times(tstack', u, i - 1)))
    BY <1>2, <1>3 DEF EnabledThen
  <2>1. i \in 1..Len(sstack) /\ u \in sstack[i].enabled /\ i - 1 \in 0..(b - 1)
    BY <1>2, <1>4
  <2> QED BY <1>6, <2>1 DEF TraceInv, EnabledThen
<1>15. LeaderReady'
  BY <1>2, <1>3, <1>7, <1>8, <1>12 DEF LeaderReady
<1>16. Irreversibles'
  <2>1. /\ IsStack(irrev) /\ \A k \in 1..Len(irrev) : irrev[k] \in 1..(Len(tstack) + 1)
        /\ \A j, k \in 1..Len(irrev) : j < k => irrev[j] < irrev[k]
        /\ \A i \in 1..Len(tstack) : tstack[i].type \notin ReversibleOps =>
               \E k \in 1..Len(irrev) : irrev[k] = i + 1
        /\ Len(irrev) \in Nat
    BY Stack DEF TraceInv, Irreversibles
  <2>2. \A k \in 1..Len(irrev) : irrev[k] \in Nat
    BY <1>4, <2>1
  <2>3. /\ IsStack(irrev') /\ Len(irrev') \in 0..Len(irrev)
        /\ \A k \in 1..Len(irrev') : irrev'[k] = irrev[k] /\ irrev[k] <= b
        /\ \A k \in 1..Len(irrev) : irrev[k] <= b => k \in 1..Len(irrev')
    <3>1. /\ IsStack(irrev) /\ b \in Nat /\ irrev' = IrreversibleUpTo(b)
          /\ \A j, k \in 1..Len(irrev) : j < k => irrev[j] < irrev[k]
      BY <1>2, <1>4, <2>1
    <3> QED BY <2>2, <3>1, PoppedTo
  <2>4. \A k \in 1..Len(irrev') : k \in 1..Len(irrev)
    BY <2>1, <2>3
  <2>5. \A k \in 1..Len(irrev') : irrev'[k] \in 1..((b - 1) + 1)
    BY <1>4, <2>1, <2>3, <2>4
  <2>6. ASSUME NEW i \in 1..(b - 1), tstack'[i].type \notin ReversibleOps
        PROVE  \E k \in 1..Len(irrev') : irrev'[k] = i + 1
    <3>1. i \in 1..Len(tstack) /\ tstack[i].type \notin ReversibleOps /\ i + 1 <= b
      BY <1>4, <1>6, <2>6
    <3>2. PICK k \in 1..Len(irrev) : irrev[k] = i + 1
      BY <2>1, <3>1
    <3>3. k \in 1..Len(irrev') /\ irrev'[k] = i + 1
      BY <2>3, <3>1, <3>2
    <3> QED BY <3>3
  <2> QED BY <1>5, <2>1, <2>3, <2>4, <2>5, <2>6 DEF Irreversibles
<1>17. ThreadsMet'
  <2>1. ASSUME NEW k \in 0..(b - 1), NEW u \in Threads, Along(tstack')[k].thread[u] = "alive"
        PROVE  u \in DOMAIN next'
    <3>1. k \in 0..Len(tstack)
      BY <1>4
    <3> QED BY <1>6, <1>11, <2>1, <3>1 DEF TraceInv, ThreadsMet
  <2>2. ASSUME NEW u \in DOMAIN next, NextAt(b)[u].type = "create"
        PROVE  NextAt(b)[u].obj \in DOMAIN next
    <3>1. CASE Of(u, Dropped(b)) = {}
      BY <2>2, <3>1 DEF NextAt, TraceInv, ThreadsMet
    <3>2. CASE Of(u, Dropped(b)) # {}
      <4> DEFINE i == Min(Of(u, Dropped(b)))
      <4>1. NextAt(b)[u] = Operation(tstack[i])
        BY <3>2 DEF NextAt
      <4> HIDE DEF i
      <4>2. i \in b..Len(tstack)
        BY <3>2, FirstDropped DEF i
      <4>3. i \in 1..Len(tstack)
        BY <1>4, <4>2
      <4> QED BY <2>2, <4>1, <4>3, CreatedKnown DEF Operation
    <3> QED BY <3>1, <3>2
  <2> QED BY <1>2, <1>5, <1>11, <2>1, <2>2 DEF ThreadsMet
<1> QED BY <1>9, <1>10, <1>13, <1>14, <1>15, <1>16, <1>17 DEF TraceInv

LEMMA ChooseTraced ==
  ASSUME IInv, TraceInv, Choose
  PROVE  TraceInv'
<1>1. /\ stage = "choose" /\ stage' = "run" /\ leader' = Min(Awake) /\ Awake # {}
      /\ UNCHANGED schedVars
  BY DEF Choose
<1>2. Awake \in SUBSET Nat
  BY ThreadsAssumption DEF Awake, IInv, ThreadsKnown
<1>3. leader' \in Awake
  BY <1>1, <1>2, MinIsElement
<1> DEFINE t == leader'
<1>4. t \in DOMAIN next /\ TransitionEnabled(objs, next[t]) /\ t \in Threads /\ prog \in Programs
  BY <1>3 DEF Awake, MayRun, IInv, ThreadsKnown
<1>5. next[t] = Op(prog, t, pc[t]) /\ pc[t] \in Nat
  BY <1>1, <1>4 DEF TraceInv, NextTraced, IInv, ThreadsKnown
<1> HIDE DEF t
<1>6. next[t] \in Transition /\ (Disciplined(prog) => next[t].type # "barrierWait")
  BY <1>4, <1>5, OpTyped, DisciplinedOp
<1>7. Agrees(prog, objs, Shadow)
  BY DEF TraceInv, Traced
<1>8. MayGo(prog, Shadow, next[t])
  BY <1>4, <1>6, <1>7, EnabledMayGo
<1> QED BY <1>1, <1>8, TraceFrame DEF schedVars, t

\* Adding backtrack points leaves the enabled threads of every state alone.
LEMMA QueueTraced ==
  ASSUME IInv, TraceInv, NEW k \in 1..Len(sstack), NEW B,
         sstack' = [sstack EXCEPT ![k].backtrack = B],
         UNCHANGED <<prog, pc, objs, next, depth, tstack, irrev>>,
         stage' \in {"others", "choose"}, stage = "others"
  PROVE  TraceInv'
<1> DEFINE y == [sstack[k] EXCEPT !.backtrack = B]
<1>1. /\ IsStack(sstack) /\ Shaped(sstack[k])
  BY DEF IInv, StacksMatch, ItemsSound, ItemSound
<1>2. y.enabled = sstack[k].enabled
  BY <1>1, OneField
<1>3. Overwrites(sstack', sstack, k, y)
  BY DEF Overwrites
<1> HIDE DEF y
<1>4. /\ Len(sstack') = Len(sstack)
      /\ \A i \in 1..Len(sstack) : sstack'[i] = IF i = k THEN y ELSE sstack[i]
  BY <1>1, <1>3, Written
<1>5. \A i \in 1..Len(sstack) : sstack'[i].enabled = sstack[i].enabled
  BY <1>2, <1>4
<1> QED BY <1>4, <1>5, TraceFrame

LEMMA UpdateOtherTraced ==
  ASSUME IInv, TraceInv, NEW p \in Threads, UpdateOther(p)
  PROVE  TraceInv'
<1>1. stage = "others" /\ stage' = "others" /\ UNCHANGED <<prog, pc, objs, next, depth, tstack, irrev>>
  BY DEF UpdateOther
<1>2. CASE UNCHANGED sstack
  BY <1>1, <1>2, TraceFrame
<1>3. CASE ~UNCHANGED sstack
  <2>1. PICK B : sstack' = [sstack EXCEPT ![Len(tstack)].backtrack = B]
    BY <1>3 DEF UpdateOther
  <2>2. Len(tstack) \in 1..Len(sstack)
    <3>1. /\ Len(tstack) \in Nat /\ Len(sstack) = Len(tstack) + 1 /\ tstack # <<>>
      BY <1>1, Stack DEF IInv, StacksMatch, TopItem, Between
    <3>2. Len(tstack) # 0
      BY <3>1 DEF IInv, StacksMatch, IsStack
    <3> QED BY <3>1, <3>2
  <2> QED BY <1>1, <2>1, <2>2, QueueTraced
<1> QED BY <1>2, <1>3

LEMMA UpdateLastTraced ==
  ASSUME IInv, TraceInv, UpdateLast
  PROVE  TraceInv'
<1>1. stage = "others" /\ stage' = "choose" /\ UNCHANGED <<prog, pc, objs, next, depth, tstack, irrev>>
  BY DEF UpdateLast
<1>2. CASE UNCHANGED sstack
  BY <1>1, <1>2, TraceFrame
<1>3. CASE ~UNCHANGED sstack
  <2> DEFINE cs == Conflicts(Last(tstack).tid)
  <2>1. cs # {} /\ \E B : sstack' = [sstack EXCEPT ![Max(cs)].backtrack = B]
    BY <1>3 DEF UpdateLast
  <2>2. /\ Len(tstack) \in Nat /\ Len(sstack) = Len(tstack) + 1
        /\ cs \in SUBSET (1..(Len(tstack) - 1))
    BY Stack DEF IInv, StacksMatch, Conflicts
  <2>3. Max(cs) \in 1..Len(sstack)
    <3> HIDE DEF cs
    <3>1. cs \in SUBSET (1..Len(sstack))
      BY <2>2
    <3>2. Len(sstack) \in Nat
      BY <2>2
    <3> QED BY <2>1, <3>1, <3>2, MaxIsElement
  <2> HIDE DEF cs
  <2>4. PICK B : sstack' = [sstack EXCEPT ![Max(cs)].backtrack = B]
    BY <2>1
  <2> QED BY <1>1, <2>3, <2>4, QueueTraced
<1> QED BY <1>2, <1>3

LEMMA TraceNext == IInv /\ TraceInv /\ [Next]_vars => TraceInv'
<1> SUFFICES ASSUME IInv, TraceInv, [Next]_vars PROVE TraceInv'
  OBVIOUS
<1>1. CASE Run
  BY <1>1, RunTraced
<1>2. CASE \E p \in Threads : UpdateOther(p)
  BY <1>2, UpdateOtherTraced
<1>3. CASE UpdateLast
  BY <1>3, UpdateLastTraced
<1>4. CASE Choose
  BY <1>4, ChooseTraced
<1>5. CASE Branch
  BY <1>5, BranchTraced
<1>6. CASE LimitReached
  <2>1. stage = "run" /\ stage' = "limit" /\ UNCHANGED <<schedVars, leader>>
    BY <1>6 DEF LimitReached
  <2>2. MayGo(prog, Shadow, next[leader])
    BY <2>1 DEF TraceInv, LeaderReady
  <2> QED BY <2>1, <2>2, TraceFrame DEF schedVars
<1>7. CASE Crash
  <2>1. stage # "undefined" /\ stage' = "crashed" /\ UNCHANGED <<schedVars, leader>>
    BY <1>7 DEF Crash, IsFatal
  <2> QED BY <2>1, TraceFrame DEF schedVars
<1>8. CASE EndTrace
  <2>1. stage = "choose" /\ stage' \in {"done", "branch"} /\ UNCHANGED <<schedVars, leader>>
    BY <1>8 DEF EndTrace
  <2> QED BY <2>1, TraceFrame DEF schedVars
<1>9. CASE Finished
  <2>1. stage = "branch" /\ stage' = "done" /\ UNCHANGED <<schedVars, leader>>
    BY <1>9 DEF Finished
  <2> QED BY <2>1, TraceFrame DEF schedVars
<1>10. CASE UNCHANGED vars
  <2>1. UNCHANGED <<schedVars, stage, leader>>
    BY <1>10 DEF vars
  <2>2. stage' \in {"run", "limit"} => MayGo(prog, Shadow, next[leader])
    BY <2>1 DEF TraceInv, LeaderReady
  <2> QED BY <2>1, <2>2, TraceFrame DEF schedVars
<1> QED BY <1>1, <1>2, <1>3, <1>4, <1>5, <1>6, <1>7, <1>8, <1>9, <1>10 DEF Next

LEMMA TraceHolds == Spec => [](IInv /\ TraceInv)
<1>1. Init => IInv /\ TraceInv
  BY InitInv, TraceInit
<1>2. IInv /\ TraceInv /\ [Next]_vars => (IInv /\ TraceInv)'
  BY NextInv, TraceNext
<1> QED BY <1>1, <1>2, PTL DEF Spec

-----------------------------------------------------------------------------
(* What follows for the shadow objects and for the threads that are run.    *)

LEMMA ShadowWellKept ==
  ASSUME TraceInv
  PROVE  /\ Agrees(prog, objs, Shadow) /\ WellKept(Shadow)
<1>1. Len(tstack) \in Nat /\ Len(tstack) \in 0..Len(tstack)
  BY Stack DEF TraceInv, Traced, History
<1> QED BY <1>1, WellKeptAlong DEF TraceInv, Traced, Shadow

\* Whatever the program, in every state of the search the wakeup groups of a condition
\* variable hold threads still waiting on it, and a later group all that an earlier one
\* holds (MCConditionVariableWakeupPolicy.hpp).
THEOREM WakeGroupsStayNested == Spec => []WakeGroupsNested
<1>1. IInv /\ TraceInv => WakeGroupsNested
  <2> SUFFICES ASSUME TraceInv, NEW c \in Conds
               PROVE  /\ \A i \in DOMAIN objs.cond[c].groups :
                             objs.cond[c].groups[i] \subseteq objs.cond[c].waiters
                      /\ \A i, j \in DOMAIN objs.cond[c].groups :
                             i < j => objs.cond[c].groups[i] \subseteq objs.cond[c].groups[j]
    BY DEF WakeGroupsNested
  <2> DEFINE groups == objs.cond[c].groups
             waiters == objs.cond[c].waiters
  <2>1. AreNested(groups, waiters)
    BY ShadowWellKept DEF Agrees, WellKept, Nested
  <2>2. DOMAIN groups = 1..Len(groups)
    BY <2>1, Stack DEF AreNested
  <2> HIDE DEF groups, waiters
  <2>3. /\ \A i \in DOMAIN groups : groups[i] \subseteq waiters
        /\ \A i, j \in DOMAIN groups : i < j => groups[i] \subseteq groups[j]
    BY <2>1, <2>2 DEF AreNested
  <2> QED BY <2>3 DEF groups, waiters
<1> QED BY <1>1, TraceHolds, PTL

\* Whatever the program, a writer has a reader-writer lock of the scheduler alone, and
\* the writers of two kinds never have one at once (MCRWLock.cpp, MCRWWLock.cpp), also
\* in the states a branch leads back to and when threads release what they do not hold.
THEOREM WritersAlwaysExclude == Spec => []WritersExclude
<1>1. IInv /\ TraceInv => WritersExclude
  BY ShadowWellKept DEF WritersExclude, Agrees, WellKept, Exclusive, RWWExclusive
<1> QED BY <1>1, TraceHolds, PTL

\* The thread that runs next is enabled; one about to lock a mutex, to wake up from a
\* condition variable or to pass a barrier, if the program keeps the rules.
LeaderCanRun ==
    stage = "run" /\ (Asks(next[leader].type) => Disciplined(prog)) =>
        TransitionEnabled(objs, next[leader])

LEMMA LeaderEnabled ==
  ASSUME IInv, TraceInv, stage \in {"run", "limit"}
  PROVE  /\ next[leader] \in Transition /\ next[leader] = Op(prog, leader, pc[leader])
         /\ leader \in Threads /\ leader \in DOMAIN next /\ prog \in Programs /\ pc[leader] \in Nat
         /\ Disciplined(prog) => next[leader].type # "barrierWait"
         /\ MayGo(prog, objs, next[leader])
<1>1. leader \in Threads /\ leader \in DOMAIN next /\ prog \in Programs /\ pc[leader] \in Nat
  BY DEF IInv, ThreadsKnown
<1>2. next[leader] = Op(prog, leader, pc[leader])
  BY <1>1 DEF TraceInv, NextTraced
<1>3. next[leader] \in Transition /\ (Disciplined(prog) => next[leader].type # "barrierWait")
  BY <1>1, <1>2, OpTyped, DisciplinedOp
<1>4. MayGo(prog, Shadow, next[leader]) /\ Agrees(prog, objs, Shadow)
  BY DEF TraceInv, LeaderReady, Traced
<1>5. MayGo(prog, objs, next[leader])
  BY <1>3, <1>4, SameGuards
<1> QED BY <1>1, <1>2, <1>3, <1>5

\* The scheduler resumes a thread that would not block, when it goes on and when it goes
\* back to a state and runs a thread of its backtrack set (mcmini_private.cpp:487).
THEOREM LeaderIsEnabled == Spec => []LeaderCanRun
<1>1. IInv /\ TraceInv => LeaderCanRun
  BY LeaderEnabled DEF LeaderCanRun, MayGo, TransitionEnabled
<1> QED BY <1>1, TraceHolds, PTL

\* For programs that keep the rules of mutexes that is so of every transition.
THEOREM EnabledRunOnly == Spec => [](Disciplined(prog) => RunsOnlyEnabled)
<1>1. LeaderCanRun => (Disciplined(prog) => RunsOnlyEnabled)
  BY DEF LeaderCanRun, RunsOnlyEnabled
<1> QED BY <1>1, LeaderIsEnabled, PTL

-----------------------------------------------------------------------------
(* The trace the scheduler follows and the trace process that runs it.      *)

\* The schedule of a trace.
Tids(q) == [i \in 1..Len(q) |-> q[i].tid]

\* The program run by a schedule gets to the counters and the objects of its trace.
LEMMA AfterHistory ==
  ASSUME NEW p \in Programs, NEW q, History(p, q), NEW schedule, schedule = Tids(q)
  PROVE  /\ After(p, schedule).pc = [t \in Threads |-> Times(q, t, Len(q))]
         /\ Agrees(p, After(p, schedule).objs, Along(q)[Len(q)])
<1>0. Len(q) \in Nat /\ IsStack(q)
  BY Stack DEF History
<1>1. /\ IsStack(schedule) /\ Len(schedule) = Len(q)
      /\ \A i \in 1..Len(q) : schedule[i] = q[i].tid
  <2>1. schedule \in Seq({q[i].tid : i \in 1..Len(q)}) /\ Len(schedule) = Len(q)
    BY <1>0 DEF Tids
  <2> QED BY <2>1 DEF IsStack, Tids
<1>2. PICK h : Takes("step", p, StartState, schedule, h) /\ After(p, schedule) = h[Len(schedule)]
  BY <1>1, AfterOneByOne
<1>3. h[0] = StartState /\ \A i \in 1..Len(q) : h[i] = Step(p, h[i - 1], q[i].tid)
  BY <1>1, <1>2 DEF Takes, Turn
<1> DEFINE S == {k \in Nat : k <= Len(q) =>
                     /\ h[k].pc = [t \in Threads |-> Times(q, t, k)]
                     /\ Agrees(p, h[k].objs, Along(q)[k])}
<1>4. 0 \in S
  <2>1. StartState.pc = [t \in Threads |-> 0] /\ StartState.objs = Fresh /\ AreObjects(Fresh)
    BY FreshFields DEF Fresh
  <2>2. h[0].pc = [t \in Threads |-> Times(q, t, 0)]
    BY <1>3, <2>1, RanNone
  <2>3. Agrees(p, Fresh, Fresh)
    BY <2>1, AgreesSelf
  <2> QED BY <1>0, <1>3, <2>1, <2>2, <2>3, AlongStack
<1>5. ASSUME NEW k \in Nat, k \in S PROVE k + 1 \in S
  <2> SUFFICES ASSUME k + 1 <= Len(q)
               PROVE  /\ h[k + 1].pc = [t \in Threads |-> Times(q, t, k + 1)]
                      /\ Agrees(p, h[k + 1].objs, Along(q)[k + 1])
    OBVIOUS
  <2> DEFINE i == k + 1
             x == q[i]
             u == q[i].tid
             s == h[k]
             r == Along(q)[k]
             tr == Op(p, u, s.pc[u])
             post == Op(p, u, s.pc[u] + 1)
  <2>1. i \in 1..Len(q) /\ i - 1 = k /\ k <= Len(q)
    BY <1>0
  <2>2. s.pc = [t \in Threads |-> Times(q, t, k)] /\ Agrees(p, s.objs, r)
    BY <1>5, <2>1
  <2>3. h[i] = Step(p, s, u)
    BY <1>3, <2>1
  <2>4. Along(q)[i] = Apply(r, x)
    BY <1>0, <2>1, AlongStack
  <2>5. /\ u \in Threads /\ Times(q, u, k) \in Nat
        /\ Operation(x) = Op(p, u, Times(q, u, k))
        /\ x.tid = Operation(x).tid /\ x.type = Operation(x).type /\ x.obj = Operation(x).obj
    BY <2>1, Operated
  <2>6. s.pc[u] = Times(q, u, k) /\ s.pc[u] + 1 \in Nat
    <3> HIDE DEF s, u, r, x
    <3> QED BY ONLY <2>2, <2>5
  <2>7. x.tid = tr.tid /\ x.type = tr.type /\ x.obj = tr.obj
    BY <2>5, <2>6
  <2>8. /\ h[i].pc = [s.pc EXCEPT ![u] = s.pc[u] + 1]
        /\ h[i].objs = WhenRead(Apply(s.objs, tr), post)
    <3> DEFINE z == Step(p, s, u)
    <3>1. z.pc = [s.pc EXCEPT ![u] = s.pc[u] + 1] /\ z.objs = WhenRead(Apply(s.objs, tr), post)
      <4> HIDE DEF s, u
      <4> QED BY DEF Step
    <3> HIDE DEF z
    <3>2. h[i] = z
      BY <2>3 DEF z
    <3> QED BY <3>1, <3>2
  <2>9. h[i].pc = [t \in Threads |-> Times(q, t, k + 1)]
    <3>1. ASSUME NEW t \in Threads
          PROVE  Times(q, t, k + 1) = IF t = u THEN Times(q, t, k) + 1 ELSE Times(q, t, k)
      <4>1. Times(q, t, k) \in Nat
        BY Ranges
      <4>2. Times(q, t, k + 1) = Times(q, t, k) + (IF q[k + 1].tid = t THEN 1 ELSE 0)
        BY RanOnce
      <4> QED BY <4>1, <4>2
    <3> HIDE DEF i, u, s, tr, post
    <3>2. h[i].pc = [t \in Threads |-> IF t = u THEN Times(q, t, k) + 1 ELSE Times(q, t, k)]
      BY <2>2, <2>5, <2>6, <2>8
    <3> QED BY <3>1, <3>2
  <2>10. /\ Disciplined(p) => post.type # "barrierWait"
         /\ ~WaitsOnConds(p) => post.type # "condEnqueue"
    BY <2>5, <2>6, DisciplinedOp, NoCondEnqueue
  <2> HIDE DEF x, s, r, tr, post, u, i
  <2>11. Agrees(p, Apply(s.objs, tr), Apply(r, tr))
    BY <2>2, AgreesApplied
  <2>12. Apply(r, x) = Apply(r, tr)
    BY <2>2, <2>7, ApplyAlike DEF Agrees
  <2>13. Agrees(p, WhenRead(Apply(s.objs, tr), post), Apply(r, tr))
    BY <2>10, <2>11, AgreesRead
  <2> QED BY <2>4, <2>8, <2>9, <2>12, <2>13 DEF i
<1> HIDE DEF S
<1>6. \A k \in Nat : k \in S
  BY <1>4, <1>5, NatSetInduction
<1>7. Len(q) \in S
  BY <1>0, <1>6
<1> QED BY <1>0, <1>1, <1>2, <1>7 DEF S

\* Two that agree with a third.
AgreeAgain(p, s, r, z) == Agrees(p, s, r) /\ Agrees(p, z, r)

LEMMA AgreesBoth ==
  ASSUME NEW p, NEW s, NEW r, NEW z, AgreeAgain(p, s, r, z)
  PROVE  Agrees(p, s, z)
BY DEF AgreeAgain, Agrees

\* Programs whose objects the scheduler knows in every detail.
LEMMA AgreesExactly ==
  ASSUME NEW p, NEW s, NEW r, Agrees(p, s, r), Disciplined(p), ~WaitsOnConds(p)
  PROVE  s = r
<1>1. /\ s.thread = r.thread /\ s.mutex = r.mutex /\ s.count = r.count /\ s.queue = r.queue
      /\ s.cond = r.cond /\ s.barrier = r.barrier /\ s.rwlock = r.rwlock /\ s.rwwlock = r.rwwlock
  BY DEF Agrees
<1>2. /\ s = Whole(s.thread, s.mutex, s.count, s.queue, s.cond, s.barrier, s.rwlock, s.rwwlock)
      /\ r = Whole(r.thread, r.mutex, r.count, r.queue, r.cond, r.barrier, r.rwlock, r.rwwlock)
  BY DEF Agrees, AreObjects, HaveFields
<1> QED BY <1>1, <1>2

\* What the scheduler knows of the state the program is in.
Knows(now) ==
    /\ pc = now.pc /\ Agrees(prog, objs, now.objs)
    /\ \A t \in DOMAIN next : /\ next[t] = Op(prog, t, now.pc[t])
                              /\ depth[t] = CountedIn(t, DOMAIN tstack)
    /\ \A t \in Threads : now.objs.thread[t] = "alive" => t \in DOMAIN next

\* The scheduler knows the state that the trace process is in.
TraceFollowed == stage # "undefined" => Knows(After(prog, Schedule))

LEMMA SchedulerKnows ==
  ASSUME IInv, TraceInv, stage # "undefined", NEW now, now = After(prog, Schedule)
  PROVE  Knows(now)
<1> DEFINE n == Len(tstack)
<1>0. /\ n \in Nat /\ DOMAIN tstack = 1..n /\ prog \in Programs /\ History(prog, tstack)
      /\ Agrees(prog, objs, Shadow) /\ Shadow = Along(tstack)[n] /\ DOMAIN next \subseteq Threads
  BY Stack DEF IInv, StacksMatch, ThreadsKnown, TraceInv, Traced, Shadow
<1>1. Schedule = Tids(tstack)
  BY <1>0 DEF Schedule, Tids
<1> HIDE DEF n
<1>2. After(prog, Schedule).pc = [t \in Threads |-> Times(tstack, t, n)] /\
      Agrees(prog, After(prog, Schedule).objs, Along(tstack)[n])
  <2> DEFINE schedule == Schedule
  <2>1. schedule = Tids(tstack)
    BY <1>1
  <2> HIDE DEF schedule
  <2>2. /\ After(prog, schedule).pc = [t \in Threads |-> Times(tstack, t, Len(tstack))]
        /\ Agrees(prog, After(prog, schedule).objs, Along(tstack)[Len(tstack)])
    BY <1>0, <2>1, AfterHistory
  <2> QED BY <2>2 DEF schedule, n
<1>3. now.pc = [t \in Threads |-> Times(tstack, t, n)] /\ Agrees(prog, now.objs, Shadow)
  BY <1>0, <1>2
<1>4. pc = now.pc
  BY <1>3 DEF TraceInv, Counted, n
<1>5. Agrees(prog, objs, now.objs)
  BY <1>0, <1>3, AgreesBoth DEF AgreeAgain
<1>6. ASSUME NEW t \in DOMAIN next
      PROVE  next[t] = Op(prog, t, now.pc[t]) /\ depth[t] = CountedIn(t, DOMAIN tstack)
  <2>1. next[t] = Op(prog, t, pc[t])
    BY DEF TraceInv, NextTraced
  <2>2. depth[t] = Cardinality(Deep(tstack, t, n))
    BY <1>0 DEF TraceInv, Counted, n
  <2>3. Deep(tstack, t, n) = {i \in Of(t, DOMAIN tstack) : CountsAgainstDepth(tstack[i])}
    BY <1>0 DEF Deep, Ran, Of
  <2> QED BY <1>4, <2>1, <2>2, <2>3 DEF CountedIn
<1>7. ASSUME NEW t \in Threads, now.objs.thread[t] = "alive" PROVE t \in DOMAIN next
  <2>1. Along(tstack)[n].thread[t] = "alive"
    BY <1>0, <1>3, <1>7 DEF Agrees
  <2>2. n \in 0..Len(tstack)
    BY <1>0 DEF n
  <2> QED BY <2>1, <2>2 DEF TraceInv, ThreadsMet
<1> QED BY <1>4, <1>5, <1>6, <1>7 DEF Knows

\* Whatever the program, after any number of branches, replays and undone transitions,
\* the counters, next operations and depths the scheduler has for the threads are those
\* of the program run by the schedule on the transition stack; its objects are too, but
\* for what a replay or an undone unlock gets wrong (Agrees).
THEOREM TraceIsFollowed == Spec => []TraceFollowed
<1>1. IInv /\ TraceInv => TraceFollowed
  BY SchedulerKnows DEF TraceFollowed
<1> QED BY <1>1, TraceHolds, PTL

\* The scheduler's objects are exactly those of the trace process if the program keeps
\* the rules of mutexes, uses no barrier and waits on no condition variable.
THEOREM SchedulerIsExact ==
  Spec => [](Disciplined(prog) /\ ~WaitsOnConds(prog) => SchedulerTracksTrace)
<1>1. TraceFollowed => (Disciplined(prog) /\ ~WaitsOnConds(prog) => SchedulerTracksTrace)
  <2> SUFFICES ASSUME TraceFollowed, Disciplined(prog), ~WaitsOnConds(prog), stage # "undefined",
                      NEW now, now = After(prog, Schedule)
               PROVE  /\ objs = now.objs /\ pc = now.pc
                      /\ \A t \in DOMAIN next : /\ next[t] = Op(prog, t, now.pc[t])
                                                /\ depth[t] = CountedIn(t, DOMAIN tstack)
                      /\ \A t \in Threads : now.objs.thread[t] = "alive" => t \in DOMAIN next
    BY DEF SchedulerTracksTrace
  <2>1. Knows(now)
    BY DEF TraceFollowed
  <2>2. objs = now.objs
    BY <2>1, AgreesExactly DEF Knows
  <2> QED BY <2>1, <2>2 DEF Knows
<1> QED BY <1>1, TraceIsFollowed, PTL

-----------------------------------------------------------------------------
(* What the program can do in the state a trace leads to.                   *)

\* Enabled for the scheduler is enabled for the program.
LEMMA SameForProgram ==
  ASSUME IInv, TraceInv, stage # "undefined", Disciplined(prog), NEW t \in DOMAIN next
  PROVE  /\ t \in Threads /\ prog \in Programs
         /\ next[t] = Op(prog, t, After(prog, Schedule).pc[t])
         /\ TransitionEnabled(objs, next[t]) <=>
                TransitionEnabled(After(prog, Schedule).objs, next[t])
<1> DEFINE now == After(prog, Schedule)
<1>1. Knows(now)
  BY SchedulerKnows
<1> HIDE DEF now
<1>2. next[t] = Op(prog, t, now.pc[t]) /\ Agrees(prog, objs, now.objs)
  BY <1>1 DEF Knows
<1>3. t \in Threads /\ prog \in Programs /\ now.pc[t] \in Nat
  BY <1>1 DEF IInv, ThreadsKnown, Knows
<1>4. next[t] \in Transition /\ next[t].type # "barrierWait"
  BY <1>2, <1>3, OpTyped, DisciplinedOp
<1>5. MayGo(prog, objs, next[t]) <=> MayGo(prog, now.objs, next[t])
  BY <1>2, <1>4, SameGuards
<1>6. TransitionEnabled(objs, next[t]) <=> TransitionEnabled(now.objs, next[t])
  BY <1>5, EnabledExits DEF MayGo, TransitionEnabled
<1> QED BY <1>2, <1>3, <1>6 DEF now

\* The search stops at the limit only when the stack is full.
LimitReal == stage = "limit" => Len(tstack) >= MaxTransitions

\* The search of a program that keeps the rules stops at the limit on the length of a
\* trace only when the program could go on, and never writes past the stacks.
THEOREM StacksFillOnly == Spec => [](Disciplined(prog) => StacksFit)
<1>1. Init => LimitReal
  BY DEF Init, LimitReal
<1>2. LimitReal /\ [Next]_vars => LimitReal'
  BY DEF LimitReal, Next, Run, LimitReached, AtLimit, UpdateOther, UpdateLast, Crash, IsFatal, Choose,
         EndTrace, Branch, Finished, vars, schedVars
<1>3. IInv /\ TraceInv /\ LimitReal => (Disciplined(prog) => StacksFit)
  <2> SUFFICES ASSUME IInv, TraceInv, LimitReal, Disciplined(prog) PROVE StacksFit
    OBVIOUS
  <2>1. /\ Len(tstack) \in Nat /\ Len(sstack) = Len(tstack) + 1 /\ Len(tstack) <= MaxTransitions
        /\ MaxTransitions \in Nat
    BY Stack, MaxTransitionsAssumption DEF IInv, StacksMatch
  <2>2. ASSUME stage = "limit"
        PROVE  Len(tstack) = MaxTransitions /\ CanStep(prog, After(prog, Schedule)) # {}
    <3>1. Len(tstack) = MaxTransitions
      BY <2>1, <2>2 DEF LimitReal
    <3>2. leader \in DOMAIN next /\ MayGo(prog, objs, next[leader])
      BY <2>2, LeaderEnabled
    <3>3. TransitionEnabled(objs, next[leader])
      BY <3>2 DEF MayGo, TransitionEnabled
    <3>4. /\ leader \in Threads /\ next[leader] = Op(prog, leader, After(prog, Schedule).pc[leader])
          /\ TransitionEnabled(After(prog, Schedule).objs, next[leader])
      BY <2>2, <3>2, <3>3, SameForProgram
    <3>5. leader \in CanStep(prog, After(prog, Schedule))
      BY <3>4 DEF CanStep
    <3> QED BY <3>1, <3>5
  <2> QED BY <2>1, <2>2 DEF StacksFit
<1>4. Spec => []LimitReal
  BY <1>1, <1>2, PTL DEF Spec
<1> QED BY <1>3, <1>4, TraceHolds, PTL

-----------------------------------------------------------------------------
(* What the search reports.                                                 *)

\* The program can run this schedule.
Executes(p, schedule) ==
    \A i \in 1..Len(schedule) : schedule[i] \in CanStep(p, After(p, SubSeq(schedule, 1, i - 1)))

\* Two threads are about to make conflicting accesses to a global.
RacesIn(p, s) == \E t, u \in CanStep(p, s) :
                     t # u /\ RacingWith(Op(p, t, s.pc[t]), Op(p, u, s.pc[u]))

\* A printed trace is a run of the program that shows what its verdict says.
IsReal(p, report) ==
    LET s == After(p, report.trace)
    IN /\ Executes(p, report.trace)
       /\ report.verdict = "deadlock" => CanStep(p, s) = {} /\ Deadlocked(p, s)
       /\ report.verdict = "race" => RacesIn(p, s)

\* What McMini prints of a program that keeps the rules is real: every trace is a run of
\* the program, a deadlock leads to a deadlock, and a data race to two accesses, at least
\* one of them a write, that two threads can make at once.
ReportsReal == Disciplined(prog) => \A r \in reports : IsReal(prog, r)

\* A thread that has started and not finished is alive.
LEMMA StartedAlive ==
  ASSUME NEW p \in Programs, NEW q, History(p, q), NEW t \in Threads
  PROVE  \A k \in 0..Len(q) : Times(q, t, k) \in 1..(Len(p[t]) + 1) => Along(q)[k].thread[t] = "alive"
<1> DEFINE S == {k \in Nat : k <= Len(q) /\ Times(q, t, k) \in 1..(Len(p[t]) + 1) =>
                                 Along(q)[k].thread[t] = "alive"}
<1>0. Len(q) \in Nat /\ IsStack(q) /\ Len(p[t]) \in Nat
  BY Stack, ProgramsAssumption DEF History
<1>1. 0 \in S
  BY RanNone
<1>2. ASSUME NEW k \in Nat, k \in S PROVE k + 1 \in S
  <2> SUFFICES ASSUME k + 1 <= Len(q), Times(q, t, k + 1) \in 1..(Len(p[t]) + 1)
               PROVE  Along(q)[k + 1].thread[t] = "alive"
    OBVIOUS
  <2> DEFINE i == k + 1
             x == q[i]
             s == Along(q)[k]
             r == WholeAfter(s, x)
  <2>1. i \in 1..Len(q) /\ i - 1 = k /\ k <= Len(q) /\ k \in 0..Len(q)
    BY <1>0
  <2>2. /\ x.tid \in Threads /\ Times(q, x.tid, k) \in Nat
        /\ Operation(x) = Op(p, x.tid, Times(q, x.tid, k)) /\ x.type = Operation(x).type
    BY <2>1, Operated
  <2>3. Along(q)[i] = r
    <3>1. Along(q)[i] = Apply(s, x) /\ AreObjects(s)
      BY <1>0, <2>1, AlongStack, AlongObjects
    <3> QED BY <3>1, ApplyFields
  <2>4. r.thread = ThreadAfter(s.thread, x)
    BY WholeFields
  <2> HIDE DEF r, s, x
  <2>5. Times(q, t, k + 1) = Times(q, t, k) + (IF x.tid = t THEN 1 ELSE 0) /\ Times(q, t, k) \in Nat
    <3>1. k \in Nat
      OBVIOUS
    <3> QED BY ONLY <3>1, RanOnce, Ranges DEF x
  <2>6. CASE WritesThread(x, t)
    <3>1. x.type # "finish"
      <4> SUFFICES ASSUME x.type = "finish" PROVE FALSE
        OBVIOUS
      <4>1. x.tid = t
        BY <2>6 DEF WritesThread
      <4>2. Op(p, t, Times(q, t, k)).type = "finish"
        BY <2>2, <4>1
      <4>3. Times(q, t, k) > Len(p[t])
        <5> DEFINE n == Times(q, t, k)
        <5>1. n \in Nat /\ Op(p, t, n).type = "finish"
          BY <2>5, <4>2
        <5> HIDE DEF n
        <5>2. n # 0
          BY <5>1 DEF Op
        <5>3. n \notin 1..Len(p[t])
          <6> SUFFICES ASSUME n \in 1..Len(p[t]) PROVE FALSE
            OBVIOUS
          <6>1. p[t][n].type # "finish"
            BY ProgramsAssumption
          <6>2. ~(n > Len(p[t]))
            BY <1>0
          <6> QED BY <5>1, <5>2, <6>1, <6>2 DEF Op
        <5> QED BY <1>0, <5>1, <5>2, <5>3 DEF n
      <4> QED BY <1>0, <2>5, <4>1, <4>3
    <3> QED BY <2>3, <2>4, <2>6, <3>1 DEF ThreadAfter
  <2>7. CASE ~WritesThread(x, t)
    <3>1. Times(q, t, k) # 0
      <4> SUFFICES ASSUME Times(q, t, k) = 0 PROVE FALSE
        OBVIOUS
      <4>1. x.tid = t
        BY <2>5
      <4>2. x.type = "start"
        BY <2>2, <4>1 DEF Op
      <4> QED BY <2>7, <4>1, <4>2 DEF WritesThread
    <3>2. Times(q, t, k) \in 1..(Len(p[t]) + 1)
      BY <1>0, <2>5, <3>1
    <3>3. s.thread[t] = "alive"
      BY <1>2, <2>1, <3>2 DEF s
    <3> QED BY <2>3, <2>4, <2>7, <3>3 DEF ThreadAfter
  <2> QED BY <2>6, <2>7
<1> HIDE DEF S
<1>3. \A k \in Nat : k \in S
  BY <1>1, <1>2, NatSetInduction
<1> QED BY <1>0, <1>3 DEF S

\* The trace on the stack is a run of the program.
LEMMA ScheduleExecutes ==
  ASSUME IInv, TraceInv, Disciplined(prog)
  PROVE  Executes(prog, Schedule)
<1>0. /\ Len(tstack) \in Nat /\ DOMAIN tstack = 1..Len(tstack) /\ prog \in Programs
      /\ History(prog, tstack)
  BY Stack DEF IInv, StacksMatch, ThreadsKnown, TraceInv, Traced
<1>1. /\ Schedule \in Seq({tstack[i].tid : i \in 1..Len(tstack)}) /\ Len(Schedule) = Len(tstack)
      /\ \A i \in 1..Len(tstack) : Schedule[i] = tstack[i].tid
  BY <1>0 DEF Schedule
<1> SUFFICES ASSUME NEW i \in 1..Len(tstack)
             PROVE  tstack[i].tid \in CanStep(prog, After(prog, SubSeq(Schedule, 1, i - 1)))
  BY <1>1 DEF Executes
<1> DEFINE q == SubSeq(tstack, 1, i - 1)
           cut == SubSeq(Schedule, 1, i - 1)
           now == After(prog, cut)
           t == tstack[i].tid
           n == i - 1
           tr == Op(prog, t, Times(tstack, t, i - 1))
<1>2. i - 1 \in 0..Len(tstack)
  BY <1>0
<1>3. /\ History(prog, q) /\ Len(q) = i - 1 /\ Alike(tstack, q, i - 1)
  BY <1>0, <1>2, HistoryCut
<1>4. cut = Tids(q)
  <2>1. IsStack(Schedule) /\ i - 1 \in 0..Len(Schedule)
    BY <1>1, <1>2 DEF IsStack
  <2>2. IsStack(cut) /\ Len(cut) = i - 1 /\ \A j \in 1..(i - 1) : cut[j] = Schedule[j]
    BY <2>1, Truncated
  <2>3. DOMAIN cut = 1..(i - 1) /\ cut = [j \in 1..(i - 1) |-> cut[j]]
    <3>1. DOMAIN cut = 1..(i - 1)
      BY <2>2, Stack
    <3>2. cut = [j \in DOMAIN cut |-> cut[j]]
      BY <2>2 DEF IsStack
    <3> QED BY <3>1, <3>2
  <2>4. \A j \in 1..(i - 1) : j \in 1..Len(tstack) /\ q[j] = tstack[j]
    BY <1>0, <1>2, <1>3 DEF Alike
  <2> HIDE DEF cut, q
  <2>5. \A j \in 1..(i - 1) : cut[j] = q[j].tid
    BY <1>1, <2>2, <2>4
  <2> QED BY <1>3, <2>3, <2>5 DEF Tids
<1> HIDE DEF q, cut
<1>5. /\ now.pc = [u \in Threads |-> Times(q, u, Len(q))]
      /\ Agrees(prog, now.objs, Along(q)[Len(q)])
  BY <1>0, <1>3, <1>4, AfterHistory
<1> HIDE DEF now
<1>6. /\ i - 1 \in Nat /\ Times(tstack, t, i - 1) \in Nat /\ t \in Threads
      /\ Operation(tstack[i]) = tr /\ MayGo(prog, Along(tstack)[i - 1], Operation(tstack[i]))
  BY <1>0, Operated
<1>7. i - 1 \in 0..(i - 1)
  BY <1>6
<1>8. now.pc[t] = Times(tstack, t, i - 1) /\ Agrees(prog, now.objs, Along(tstack)[i - 1])
  BY <1>3, <1>5, <1>6, <1>7 DEF Alike
<1>9. tr \in Transition /\ tr.type # "barrierWait" /\ tr.tid = t
  BY <1>0, <1>6, OpTyped, OpTid, DisciplinedOp
<1>10. tr = Op(prog, t, now.pc[t])
  BY <1>8
<1> HIDE DEF tr, t
<1>11. MayGo(prog, now.objs, tr)
  BY <1>6, <1>8, <1>9, SameGuards
<1>12. TransitionEnabled(now.objs, tr)
  BY <1>11 DEF MayGo, TransitionEnabled
<1> QED BY <1>6, <1>10, <1>12 DEF CanStep, now, cut, t

LEMMA DeadlockReal ==
  ASSUME IInv, TraceInv, Disciplined(prog), stage = "choose", IsInDeadlock,
         NEW s, s = After(prog, Schedule)
  PROVE  CanStep(prog, s) = {} /\ Deadlocked(prog, s)
<1>1. Knows(s)
  BY SchedulerKnows
<1>2. ASSUME NEW t \in Threads, s.objs.thread[t] = "alive"
      PROVE  /\ ~EnsuresNoDeadlock(Op(prog, t, s.pc[t]))
             /\ ~TransitionEnabled(s.objs, Op(prog, t, s.pc[t]))
  <2>1. t \in DOMAIN next /\ next[t] = Op(prog, t, s.pc[t])
    BY <1>1, <1>2 DEF Knows
  <2>2. ~EnsuresNoDeadlock(next[t]) /\ ~TransitionEnabled(objs, next[t])
    BY <2>1 DEF IsInDeadlock
  <2>3. TransitionEnabled(objs, next[t]) <=> TransitionEnabled(s.objs, next[t])
    BY <2>1, SameForProgram
  <2> QED BY <2>1, <2>2, <2>3
<1>3. ASSUME NEW t \in Threads, TransitionEnabled(s.objs, Op(prog, t, s.pc[t])) PROVE FALSE
  <2>1. s.objs.thread[t] = "alive"
    BY <1>3, OpTid DEF TransitionEnabled, IsAlive
  <2> QED BY <1>2, <1>3, <2>1
<1> QED BY <1>2, <1>3 DEF CanStep, Deadlocked

\* A thread about to access a global is alive, so that nothing holds it up.
LEMMA AccessEnabled ==
  ASSUME IInv, TraceInv, stage # "undefined", NEW t \in DOMAIN next, next[t].type \in GlobalOps,
         NEW s, s = After(prog, Schedule)
  PROVE  t \in CanStep(prog, s) /\ next[t] = Op(prog, t, s.pc[t])
<1>1. Knows(s) /\ t \in Threads /\ prog \in Programs
  BY SchedulerKnows DEF IInv, ThreadsKnown
<1>2. next[t] = Op(prog, t, pc[t]) /\ pc[t] = s.pc[t] /\ pc[t] \in Nat
      /\ s.objs.thread = objs.thread
  BY <1>1 DEF Knows, IInv, ThreadsKnown, Agrees
<1>3. pc[t] \in 1..Len(prog[t])
  <2>1. Len(prog[t]) \in Nat
    BY <1>1, ProgramsAssumption
  <2> QED BY <1>2, <2>1 DEF Op, GlobalOps
<1>4. /\ Len(tstack) \in Nat /\ Len(tstack) \in 0..Len(tstack) /\ Len(prog[t]) \in Nat
      /\ History(prog, tstack) /\ pc[t] = Times(tstack, t, Len(tstack))
      /\ objs.thread = Along(tstack)[Len(tstack)].thread
  BY <1>1, Stack, ProgramsAssumption
     DEF IInv, StacksMatch, TraceInv, Traced, Counted, Agrees, Shadow
<1>5. pc[t] \in 1..(Len(prog[t]) + 1)
  BY <1>3, <1>4
<1>6. s.objs.thread[t] = "alive"
  <2>1. Times(tstack, t, Len(tstack)) \in 1..(Len(prog[t]) + 1)
    BY <1>4, <1>5
  <2>2. Along(tstack)[Len(tstack)].thread[t] = "alive"
    BY <1>1, <1>4, <2>1, StartedAlive
  <2> QED BY <1>2, <1>4, <2>2
<1>7. EnabledInState(s.objs, next[t])
  BY DEF EnabledInState, GlobalOps
<1>8. next[t].tid = t
  BY <1>2, OpTid
<1> QED BY <1>1, <1>2, <1>6, <1>7, <1>8 DEF CanStep, TransitionEnabled, IsAlive

LEMMA RaceReal ==
  ASSUME IInv, TraceInv, stage = "choose", DataRace, NEW s, s = After(prog, Schedule)
  PROVE  RacesIn(prog, s)
<1> DEFINE p == Last(tstack).tid
<1>1. PICK t \in DOMAIN next \ {p} : RacingWith(next[t], next[p])
  BY DEF DataRace
<1>2. /\ Len(tstack) \in Nat /\ IsStack(tstack) /\ tstack # <<>>
  BY Stack DEF IInv, StacksMatch, TopItem, Between
<1>3. Len(tstack) \in 1..Len(tstack) /\ p = tstack[Len(tstack)].tid
  BY <1>2 DEF Last, IsStack
<1>4. p \in DOMAIN next
  <2> DEFINE n == Len(tstack)
             x == tstack[n]
  <2>1. /\ x.tid \in Threads /\ x.tid = Operation(x).tid
        /\ MayGo(prog, Along(tstack)[n - 1], Operation(x))
    BY <1>3, Operated DEF TraceInv, Traced
  <2>2. Along(tstack)[n - 1].thread[x.tid] = "alive" /\ n - 1 \in 0..n
    BY <1>2, <1>3, <2>1 DEF MayGo, IsAlive
  <2> QED BY <1>3, <2>1, <2>2 DEF TraceInv, ThreadsMet
<1>5. next[t].type \in GlobalOps /\ next[p].type \in GlobalOps
  BY <1>1 DEF RacingWith, RacesWithWrite, RacesWithRead, GlobalOps
<1> HIDE DEF p
<1>6. /\ t \in CanStep(prog, s) /\ next[t] = Op(prog, t, s.pc[t])
      /\ p \in CanStep(prog, s) /\ next[p] = Op(prog, p, s.pc[p])
  BY <1>1, <1>4, <1>5, AccessEnabled
<1> QED BY <1>1, <1>6 DEF RacesIn

LEMMA ReportsStep ==
  ASSUME IInv, TraceInv, ReportsReal, [Next]_vars
  PROVE  ReportsReal'
<1> SUFFICES ASSUME Disciplined(prog)', NEW r \in reports'
             PROVE  IsReal(prog', r)
  BY DEF ReportsReal
<1>1. prog' = prog
  BY DEF Next, Run, LimitReached, UpdateOther, UpdateLast, Crash, Choose, EndTrace, Branch,
         Finished, vars, schedVars
<1>2. Disciplined(prog) /\ \A z \in reports : IsReal(prog, z)
  BY <1>1 DEF ReportsReal
<1>3. CASE r \in reports
  BY <1>1, <1>2, <1>3
<1>4. CASE r \notin reports
  <2>1. /\ stage = "choose"
        /\ \/ DataRace /\ r = Report("race")
           \/ r = Report(IF IsInDeadlock THEN "deadlock" ELSE "none")
    BY <1>4 DEF Next, Run, LimitReached, UpdateOther, UpdateLast, Crash, Choose, EndTrace, Branch,
         Finished, vars, schedVars, WithRace
  <2>2. r.verdict = "deadlock" => IsInDeadlock
    BY <2>1 DEF Report
  <2>3. r.trace = Schedule
    BY <2>1 DEF Report
  <2>4. r.verdict = "race" => DataRace
    BY <2>1 DEF Report
  <2> DEFINE s == After(prog, Schedule)
  <2>5. IsInDeadlock => CanStep(prog, s) = {} /\ Deadlocked(prog, s)
    BY <1>2, <2>1, DeadlockReal
  <2>6. DataRace => RacesIn(prog, s)
    BY <2>1, RaceReal
  <2>7. Executes(prog, Schedule)
    BY <1>2, ScheduleExecutes
  <2> QED BY <1>1, <2>2, <2>3, <2>4, <2>5, <2>6, <2>7 DEF IsReal
<1> QED BY <1>3, <1>4

\* McMini reports no deadlock and no data race of such a program that is not there, for
\* any number of threads, any limits and any choices made in the search.
THEOREM ReportsAreReal == Spec => []ReportsReal
<1>1. Init => ReportsReal
  BY DEF Init, ReportsReal
<1>2. IInv /\ TraceInv /\ ReportsReal /\ [Next]_vars => ReportsReal'
  BY ReportsStep
<1> QED BY <1>1, <1>2, TraceHolds, PTL DEF Spec

-----------------------------------------------------------------------------
(* Programs made of the library's wrappers: those of pthread_cond_wait and  *)
(* of the locks post two operations, one right after the other.             *)

Halves == {<<"condEnqueue", "condWait">>,
           <<"readerEnqueue", "readerLock">>, <<"writerEnqueue", "writerLock">>,
           <<"rwwReaderEnqueue", "rwwReaderLock">>,
           <<"writer1Enqueue", "writer1Lock">>, <<"writer2Enqueue", "writer2Lock">>}

InHalves(p, half) ==
    \A t \in Threads : \A n \in 0..Len(p[t]) :
        /\ Op(p, t, n).type = half[1] => /\ Op(p, t, n + 1).type = half[2]
                                         /\ Op(p, t, n + 1).obj = Op(p, t, n).obj
        /\ Op(p, t, n).type = half[2] => /\ n > 0 /\ Op(p, t, n - 1).type = half[1]
                                         /\ Op(p, t, n - 1).obj = Op(p, t, n).obj

InTwoHalves(p) == \A half \in Halves : InHalves(p, half)

LEMMA EitherHalf ==
  ASSUME NEW p \in Programs, NEW half, InHalves(p, half), NEW t \in Threads, NEW n \in Nat,
         half[1] # "finish", half[2] \notin {"start", "finish"}
  PROVE  /\ Op(p, t, n).type = half[1] => /\ Op(p, t, n + 1).type = half[2]
                                          /\ Op(p, t, n + 1).obj = Op(p, t, n).obj
         /\ Op(p, t, n + 1).type = half[2] => /\ Op(p, t, n).type = half[1]
                                              /\ Op(p, t, n).obj = Op(p, t, n + 1).obj
         /\ Op(p, t, 0).type # half[2]
<1>1. Op(p, t, n + 1).type = half[2] => /\ Op(p, t, n).type = half[1]
                                        /\ Op(p, t, n).obj = Op(p, t, n + 1).obj
  <2>1. (n + 1) - 1 = n /\ n + 1 \in Nat
    OBVIOUS
  <2>2. CASE n + 1 \in 0..Len(p[t])
    BY <2>1, <2>2 DEF InHalves
  <2>3. CASE n + 1 \notin 0..Len(p[t])
    BY <2>1, <2>3, PastTheEnd
  <2> QED BY <2>2, <2>3
<1>2. Op(p, t, 0).type # half[2]
  BY DEF Op
<1>3. Op(p, t, n).type = half[1] => /\ Op(p, t, n + 1).type = half[2]
                                    /\ Op(p, t, n + 1).obj = Op(p, t, n).obj
  <2>1. CASE n \in 0..Len(p[t])
    BY <2>1 DEF InHalves
  <2>2. CASE n \notin 0..Len(p[t])
    BY <2>2, PastTheEnd
  <2> QED BY <2>1, <2>2
<1> QED BY <1>1, <1>2, <1>3

LEMMA SecondHalf ==
  ASSUME NEW p \in Programs, InTwoHalves(p), NEW t \in Threads, NEW n \in Nat,
         NEW half \in Halves
  PROVE  /\ Op(p, t, n).type = half[1] => /\ Op(p, t, n + 1).type = half[2]
                                          /\ Op(p, t, n + 1).obj = Op(p, t, n).obj
         /\ Op(p, t, n + 1).type = half[2] => /\ Op(p, t, n).type = half[1]
                                              /\ Op(p, t, n).obj = Op(p, t, n + 1).obj
         /\ Op(p, t, 0).type # half[2]
<1>1. half[1] # "finish" /\ half[2] \notin {"start", "finish"}
  BY DEF Halves
<1> QED BY <1>1, EitherHalf DEF InTwoHalves

-----------------------------------------------------------------------------
(* What wakes a thread up from a condition variable.                        *)

Enters(q, i, t, c) == q[i].type = "condEnqueue" /\ q[i].obj = c /\ q[i].tid = t

Sends(q, i, c) == q[i].type \in {"signal", "broadcast"} /\ q[i].obj = c

\* A signal was sent after the last time t began to wait on c.
Signalled(q, t, c, k) ==
    \E m \in 1..k : /\ Sends(q, m, c)
                    /\ \E e \in 1..m : Enters(q, e, t, c)
                    /\ \A e \in (m + 1)..k : ~Enters(q, e, t, c)

\* The spurious wakeup is gone after the first wakeup, whoever waits has not gone on, and
\* whoever may be woken was sent a signal.
Caused(p, q, c, k) ==
    LET cond == Along(q)[k].cond[c]
    IN /\ cond.spurious \in {0, 1}
       /\ (\E i \in 1..k : q[i].type = "condWait" /\ q[i].obj = c) => cond.spurious = 0
       /\ \A t \in cond.waiters : /\ t \in Threads
                                  /\ Op(p, t, Times(q, t, k)).type = "condWait"
                                  /\ Op(p, t, Times(q, t, k)).obj = c
                                  /\ \E e \in 1..k : Enters(q, e, t, c)
       /\ \A i \in 1..Len(cond.groups) : \A t \in cond.groups[i] : Signalled(q, t, c, k)

\* What was sent remains so until the thread waits again.
LEMMA SignalledStays ==
  ASSUME NEW q, NEW t, NEW c, NEW k \in Nat, Signalled(q, t, c, k), ~Enters(q, k + 1, t, c)
  PROVE  Signalled(q, t, c, k + 1)
<1>1. PICK m \in 1..k : /\ Sends(q, m, c)
                        /\ \E e \in 1..m : Enters(q, e, t, c)
                        /\ \A e \in (m + 1)..k : ~Enters(q, e, t, c)
  BY DEF Signalled
<1>2. m \in 1..(k + 1) /\ \A e \in (m + 1)..(k + 1) : e \in (m + 1)..k \/ e = k + 1
  OBVIOUS
<1> QED BY <1>1, <1>2 DEF Signalled

LEMMA CausedStep ==
  ASSUME NEW p \in Programs, InTwoHalves(p), NEW q, History(p, q), NEW k \in Nat, k + 1 <= Len(q),
         NEW c \in Conds, Caused(p, q, c, k)
  PROVE  Caused(p, q, c, k + 1)
<1> DEFINE i == k + 1
           x == q[k + 1]
           u == q[k + 1].tid
           s == Along(q)[k]
           cond == Along(q)[k].cond[c]
           after == Along(q)[k + 1].cond[c]
<1>1. /\ Len(q) \in Nat /\ IsStack(q) /\ i \in 1..Len(q) /\ i - 1 = k /\ k \in 0..Len(q)
  BY Stack DEF History
<1>2. /\ u \in Threads /\ Times(q, u, k) \in Nat
      /\ Operation(x) = Op(p, u, Times(q, u, k))
      /\ x.type = Operation(x).type /\ x.obj = Operation(x).obj
  <2> HIDE DEF Operation
  <2>1. History(p, q) /\ i \in 1..Len(q) /\ i - 1 = k
    BY <1>1
  <2> QED BY ONLY <2>1, Operated
<1>3. after = IF x.obj = c THEN CondAfter(cond, x) ELSE cond
  <2> DEFINE r == WholeAfter(s, x)
  <2>1. Along(q)[i] = Apply(s, x) /\ AreObjects(s)
    BY <1>1, AlongStack, AlongObjects
  <2>2. Along(q)[i] = r
    BY <2>1, ApplyFields
  <2>3. r.cond = CondsAfter(s.cond, x)
    BY WholeFields
  <2> HIDE DEF r, s, x
  <2> QED BY <2>2, <2>3 DEF CondsAfter, s, x
<1>4. IsCond(cond) /\ AreNested(cond.groups, cond.waiters)
  <2>1. AreObjects(s) /\ WellKept(s)
    BY <1>1, AlongObjects, WellKeptAlong
  <2> QED BY <2>1 DEF AreObjects, WellKept, Nested
<1>5. /\ cond.spurious \in {0, 1}
      /\ (\E j \in 1..k : q[j].type = "condWait" /\ q[j].obj = c) => cond.spurious = 0
      /\ \A t \in cond.waiters : /\ t \in Threads
                                 /\ Op(p, t, Times(q, t, k)).type = "condWait"
                                 /\ Op(p, t, Times(q, t, k)).obj = c
                                 /\ \E e \in 1..k : Enters(q, e, t, c)
      /\ \A j \in 1..Len(cond.groups) : \A t \in cond.groups[j] : Signalled(q, t, c, k)
  BY DEF Caused
<1>6. /\ Times(q, u, i) = Times(q, u, k) + 1
      /\ \A t : t # u => Times(q, t, i) = Times(q, t, k)
  <2>1. \A t : Times(q, t, k) \in Nat
    BY Ranges
  <2>2. \A t : Times(q, t, i) = Times(q, t, k) + (IF u = t THEN 1 ELSE 0)
    BY RanOnce
  <2> QED BY <2>1, <2>2
<1>7. \A j \in 1..i : j \in 1..k \/ j = i
  BY <1>1
<1>8. \A j \in 1..k : j \in 1..i
  BY <1>1
<1>9. u \in cond.waiters => x.type = "condWait" /\ x.obj = c
  BY <1>2, <1>5
<1>10. \A j \in 1..Len(cond.groups) : cond.groups[j] \subseteq cond.waiters
  BY <1>4 DEF AreNested
<1> HIDE DEF cond, after, s, u, x, i
\* Who goes on waiting.
<1>11. ASSUME NEW t \in cond.waiters, t # u
       PROVE  /\ t \in Threads /\ Op(p, t, Times(q, t, i)).type = "condWait"
              /\ Op(p, t, Times(q, t, i)).obj = c /\ \E e \in 1..i : Enters(q, e, t, c)
  BY <1>5, <1>6, <1>8, <1>11
\* Who can still be woken.
<1>12. ASSUME NEW j \in 1..Len(cond.groups), NEW t \in cond.groups[j], t # u \/ x.type # "condEnqueue"
       PROVE  Signalled(q, t, c, i)
  <2>1. Signalled(q, t, c, k)
    BY <1>5
  <2>2. ~Enters(q, k + 1, t, c)
    BY <1>12 DEF Enters, u, x
  <2> QED BY <2>1, <2>2, SignalledStays DEF i
<1>13. (\E j \in 1..i : q[j].type = "condWait" /\ q[j].obj = c) =>
           cond.spurious = 0 \/ (x.type = "condWait" /\ x.obj = c)
  <2> SUFFICES ASSUME NEW j \in 1..i, q[j].type = "condWait" /\ q[j].obj = c
               PROVE  cond.spurious = 0 \/ (x.type = "condWait" /\ x.obj = c)
    OBVIOUS
  <2>1. CASE j \in 1..k
    <3>1. \E l \in 1..k : q[l].type = "condWait" /\ q[l].obj = c
      BY <2>1
    <3>2. (\E l \in 1..k : q[l].type = "condWait" /\ q[l].obj = c) => cond.spurious = 0
      BY <1>5
    <3> QED BY <3>1, <3>2
  <2>2. CASE j = i
    BY <2>2 DEF x, i
  <2> QED BY <1>7, <2>1, <2>2
<1>14. Caused(p, q, c, i) <=>
       /\ after.spurious \in {0, 1}
       /\ (\E j \in 1..i : q[j].type = "condWait" /\ q[j].obj = c) => after.spurious = 0
       /\ \A t \in after.waiters : /\ t \in Threads
                                   /\ Op(p, t, Times(q, t, i)).type = "condWait"
                                   /\ Op(p, t, Times(q, t, i)).obj = c
                                   /\ \E e \in 1..i : Enters(q, e, t, c)
       /\ \A j \in 1..Len(after.groups) : \A t \in after.groups[j] : Signalled(q, t, c, i)
  BY DEF Caused, after, i
<1>15. CASE x.obj # c \/ x.type \notin {"condEnqueue", "condWait", "signal", "broadcast"}
  <2>1. after = cond
    BY <1>3, <1>15 DEF CondAfter
  <2>2. u \notin cond.waiters
    BY <1>9, <1>15
  <2>3. \A j \in 1..Len(cond.groups) : \A t \in cond.groups[j] : t # u
    BY <1>10, <2>2
  <2> QED BY <1>5, <1>11, <1>12, <1>13, <1>14, <1>15, <2>1, <2>2, <2>3 DEF i
<1>16. CASE x.obj = c /\ x.type = "condEnqueue"
  <2>1. /\ after.waiters = cond.waiters \cup {u} /\ after.groups = cond.groups
        /\ after.spurious = cond.spurious
    BY <1>3, <1>4, <1>16 DEF CondAfter, IsCond, u, x
  <2>2. u \notin cond.waiters
    BY <1>9, <1>16
  <2>3. \A j \in 1..Len(cond.groups) : \A t \in cond.groups[j] : t # u
    BY <1>10, <2>2
  <2>4. /\ Op(p, u, Times(q, u, i)).type = "condWait" /\ Op(p, u, Times(q, u, i)).obj = c
        /\ u \in Threads
    <3>1. <<"condEnqueue", "condWait">> \in Halves
      BY DEF Halves
    <3>2. Op(p, u, Times(q, u, k)).type = "condEnqueue" /\ Op(p, u, Times(q, u, k)).obj = c
      BY <1>2, <1>16
    <3>3. /\ Op(p, u, Times(q, u, k)).type = "condEnqueue" =>
                /\ Op(p, u, Times(q, u, k) + 1).type = "condWait"
                /\ Op(p, u, Times(q, u, k) + 1).obj = Op(p, u, Times(q, u, k)).obj
      BY <1>2, <3>1, SecondHalf
    <3> QED BY <1>2, <1>6, <3>2, <3>3
  <2>5. i \in 1..i /\ Enters(q, i, u, c)
    BY <1>1, <1>16 DEF Enters, u, x, i
  <2>6. \A t \in after.waiters : /\ t \in Threads
                                 /\ Op(p, t, Times(q, t, i)).type = "condWait"
                                 /\ Op(p, t, Times(q, t, i)).obj = c
                                 /\ \E e \in 1..i : Enters(q, e, t, c)
    BY <1>11, <2>1, <2>2, <2>4, <2>5
  <2> QED BY <1>5, <1>12, <1>13, <1>14, <1>16, <2>1, <2>3, <2>6 DEF i
<1>17. CASE x.obj = c /\ x.type = "condWait"
  <2>1. /\ after.waiters = cond.waiters \ {u} /\ after.groups = WakeThread(cond.groups, u)
        /\ after.spurious = 0
    BY <1>3, <1>4, <1>5, <1>17 DEF CondAfter, RemoveWaiter, IsCond, u, x
  <2>2. \A j \in 1..Len(after.groups) : \E l \in 1..Len(cond.groups) :
            after.groups[j] = cond.groups[l] \ {u}
    <3> DEFINE g == cond.groups
               all == cond.waiters
               r == after.groups
    <3>1. AreNested(g, all) /\ r = WakeThread(g, u)
      BY <1>4, <2>1
    <3> HIDE DEF g, all, r
    <3>2. AreNested(r, all \ {u}) /\ \A j \in 1..Len(r) : \E l \in 1..Len(g) : r[j] = g[l] \ {u}
      BY <3>1, WokenNested
    <3> QED BY <3>2 DEF g, r
  <2>3. \A j \in 1..Len(after.groups) : \A t \in after.groups[j] : Signalled(q, t, c, i)
    BY <1>12, <2>2
  <2> QED BY <1>11, <1>14, <2>1, <2>3 DEF i
<1>18. CASE x.obj = c /\ x.type \in {"signal", "broadcast"}
  <2>1. after = IF cond.waiters = {} THEN cond
                ELSE [cond EXCEPT !.groups = Append(cond.groups, cond.waiters)]
    BY <1>3, <1>18 DEF CondAfter, PushWakeupGroup
  <2>2. /\ after.waiters = cond.waiters /\ after.spurious = cond.spurious
        /\ after.groups = IF cond.waiters = {} THEN cond.groups
                          ELSE Append(cond.groups, cond.waiters)
    BY <1>4, <2>1 DEF IsCond
  <2>3. u \notin cond.waiters
    BY <1>9, <1>18
  <2>4. ASSUME NEW t \in cond.waiters PROVE Signalled(q, t, c, i)
    <3>1. PICK e \in 1..k : Enters(q, e, t, c)
      BY <1>5
    <3>2. i \in 1..i /\ e \in 1..i /\ (i + 1)..i = {} /\ Sends(q, i, c)
      BY <1>1, <1>18, <3>1 DEF Sends, x, i
    <3> QED BY <3>1, <3>2 DEF Signalled
  <2>5. ASSUME NEW j \in 1..Len(after.groups), NEW t \in after.groups[j] PROVE Signalled(q, t, c, i)
    <3>1. CASE cond.waiters = {}
      BY <1>12, <1>18, <2>2, <2>5, <3>1
    <3>2. CASE cond.waiters # {}
      <4>1. IsStack(cond.groups)
        BY <1>4 DEF AreNested
      <4>2. /\ Len(after.groups) = Len(cond.groups) + 1 /\ Len(cond.groups) \in Nat
            /\ after.groups[Len(cond.groups) + 1] = cond.waiters
            /\ \A l \in 1..Len(cond.groups) : after.groups[l] = cond.groups[l]
        BY <2>2, <3>2, <4>1, Pushed, Stack
      <4>3. j \in 1..Len(cond.groups) \/ j = Len(cond.groups) + 1
        BY <4>2
      <4> QED BY <1>12, <1>18, <2>4, <2>5, <4>2, <4>3
    <3> QED BY <3>1, <3>2
  <2> QED BY <1>5, <1>11, <1>13, <1>14, <1>18, <2>2, <2>3, <2>5 DEF i
<1> QED BY <1>15, <1>16, <1>17, <1>18 DEF i

LEMMA CausedAlong ==
  ASSUME NEW p \in Programs, InTwoHalves(p), NEW q, History(p, q), NEW c \in Conds
  PROVE  \A k \in 0..Len(q) : Caused(p, q, c, k)
<1> DEFINE S == {k \in Nat : k <= Len(q) => Caused(p, q, c, k)}
<1>0. Len(q) \in Nat /\ IsStack(q)
  BY Stack DEF History
<1>1. 0 \in S
  <2> DEFINE cond == Along(q)[0].cond[c]
  <2>1. /\ cond.spurious = 1 /\ cond.waiters = {} /\ cond.groups = <<>>
    BY <1>0, AlongStack, FreshFields DEF InitialConds
  <2> HIDE DEF cond
  <2>2. Len(cond.groups) = 0 /\ 1..0 = {}
    BY <2>1
  <2> QED BY <2>1, <2>2 DEF Caused, cond
<1>2. ASSUME NEW k \in Nat, k \in S PROVE k + 1 \in S
  <2> SUFFICES ASSUME k + 1 <= Len(q) PROVE Caused(p, q, c, k + 1)
    OBVIOUS
  <2>1. Caused(p, q, c, k)
    BY <1>0, <1>2
  <2> QED BY <2>1, CausedStep
<1> HIDE DEF S
<1>3. \A k \in Nat : k \in S
  BY <1>1, <1>2, NatSetInduction
<1> QED BY <1>0, <1>3 DEF S

\* A thread that is not the first to wake up from c was sent a signal since it waits.
LEMMA WakesSignalled ==
  ASSUME NEW p \in Programs, InTwoHalves(p), NEW q, History(p, q), NEW c \in Conds,
         NEW i \in 1..Len(q), q[i].type = "condWait", q[i].obj = c,
         NEW j \in 1..(i - 1), q[j].type = "condWait", q[j].obj = c
  PROVE  Signalled(q, q[i].tid, c, i - 1)
<1> DEFINE k == i - 1
           cond == Along(q)[i - 1].cond[c]
           tr == Operation(q[i])
<1>1. k \in Nat /\ k \in 0..Len(q) /\ j \in 1..k
  BY Stack DEF History
<1>2. /\ tr.tid = q[i].tid /\ tr.type = q[i].type /\ tr.obj = q[i].obj
      /\ MayGo(p, Along(q)[i - 1], tr)
  BY Operated
<1>3. WaiterCanExit(cond, q[i].tid)
  <2> HIDE DEF tr
  <2> QED BY <1>2 DEF MayGo
<1>4. Caused(p, q, c, k) /\ cond.spurious = 0
  <2> HIDE DEF tr, k
  <2>1. Caused(p, q, c, k)
    BY <1>1, CausedAlong
  <2>2. \E l \in 1..k : q[l].type = "condWait" /\ q[l].obj = c
    BY <1>1
  <2> QED BY <2>1, <2>2 DEF Caused, k
<1>5. Nested(cond)
  BY <1>1, WellKeptAlong DEF WellKept
<1> HIDE DEF tr
<1>6. PICK l \in DOMAIN cond.groups : q[i].tid \in cond.groups[l]
  BY <1>3, <1>4 DEF WaiterCanExit, ThreadCanExit
<1>7. l \in 1..Len(cond.groups)
  BY <1>6, <1>5, Stack DEF Nested, AreNested
<1> QED BY <1>4, <1>6, <1>7 DEF Caused

\* Only the first thread that wakes up may do so without a signal.
LEMMA OthersCaused ==
  ASSUME IInv, TraceInv, InTwoHalves(prog), NEW c \in Conds, NEW i \in Uncaused(c),
         NEW j \in Uncaused(c)
  PROVE  ~(j < i)
<1> SUFFICES ASSUME j < i PROVE FALSE
  OBVIOUS
<1>1. /\ Len(tstack) \in Nat /\ DOMAIN tstack = 1..Len(tstack) /\ prog \in Programs
      /\ History(prog, tstack)
  BY Stack DEF IInv, StacksMatch, ThreadsKnown, TraceInv, Traced
<1> DEFINE t == tstack[i].tid
           entries == {e \in Of(t, 1..i) : IsOn(e, {"condEnqueue"}, c)}
           entry == Max(entries)
<1>2. /\ i \in 1..Len(tstack) /\ j \in 1..Len(tstack) /\ j \in 1..(i - 1)
      /\ tstack[i].type = "condWait" /\ tstack[i].obj = c
      /\ tstack[j].type = "condWait" /\ tstack[j].obj = c
      /\ \A k \in entry..i : ~IsOn(k, {"signal", "broadcast"}, c)
  BY <1>1 DEF Uncaused, IsOn
<1>3. PICK m \in 1..(i - 1) : /\ Sends(tstack, m, c)
                              /\ \E e \in 1..m : Enters(tstack, e, t, c)
                              /\ \A e \in (m + 1)..(i - 1) : ~Enters(tstack, e, t, c)
  BY <1>1, <1>2, WakesSignalled DEF Signalled
<1>4. \A e : e \in entries <=> e \in 1..i /\ Enters(tstack, e, t, c)
  <2>1. 1..i \subseteq DOMAIN tstack
    BY <1>1, <1>2
  <2> QED BY <2>1 DEF Of, IsOn, Enters
<1>5. entry \in entries
  <2>1. PICK e \in 1..m : Enters(tstack, e, t, c)
    BY <1>3
  <2>2. e \in entries /\ entries \subseteq 1..i /\ i \in Nat
    BY <1>1, <1>2, <1>3, <1>4, <2>1
  <2> HIDE DEF entries
  <2> QED BY <2>2, MaxIsElement
<1> HIDE DEF entry, entries
<1>6. entry \in 1..i /\ entry # i /\ Enters(tstack, entry, t, c)
  BY <1>2, <1>4, <1>5 DEF Enters
<1>7. entry <= m
  BY <1>2, <1>3, <1>6
<1>8. m \in entry..i
  BY <1>2, <1>3, <1>6, <1>7
<1> QED BY <1>2, <1>3, <1>8 DEF Sends, IsOn

\* Whatever the program, made of the wrappers, of all the wakeups from a condition variable
\* in the trace one at most, the spurious one, came without a signal or broadcast since the
\* thread waits (MCConditionVariable.cpp).
THEOREM WakeupsAreCaused == Spec => [](InTwoHalves(prog) => WakeupsCaused)
<1>1. IInv /\ TraceInv => (InTwoHalves(prog) => WakeupsCaused)
  <2> SUFFICES ASSUME IInv, TraceInv, InTwoHalves(prog), NEW c \in Conds
               PROVE  Cardinality(Uncaused(c)) <= 1
    BY DEF WakeupsCaused
  <2>1. CASE Uncaused(c) = {}
    BY <2>1, FS_EmptySet
  <2>2. CASE Uncaused(c) # {}
    <3>1. PICK i : i \in Uncaused(c)
      BY <2>2
    <3>2. Uncaused(c) \subseteq Nat
      BY Stack DEF Uncaused, IInv, StacksMatch
    <3>3. \A j \in Uncaused(c) : j = i
      BY <3>1, <3>2, OthersCaused
    <3>4. Uncaused(c) = {i}
      BY <3>1, <3>3
    <3>5. Cardinality({i}) = 1
      BY FS_Singleton
    <3> QED BY <3>4, <3>5
  <2> QED BY <2>1, <2>2
<1> QED BY <1>1, TraceHolds, PTL

-----------------------------------------------------------------------------
(* The order in which the locks are taken.                                  *)

\* The operations that enter the queue of a lock of either kind, and those that leave it.
Entries(kind) == IF kind = "rw" THEN {"readerEnqueue", "writerEnqueue"}
                 ELSE {"rwwReaderEnqueue", "writer1Enqueue", "writer2Enqueue"}

Lockings(kind) == IF kind = "rw" THEN {"readerLock", "writerLock"}
                  ELSE {"rwwReaderLock", "writer1Lock", "writer2Lock"}

LocksOf(kind) == IF kind = "rw" THEN RWLocks ELSE RWWLocks

Queued(kind, s, l) == IF kind = "rw" THEN s.rwlock[l].acquireQ ELSE s.rwwlock[l].acquireQ

Used(types, l) == [types |-> types, obj |-> l]

LEMMA UsersOneByOne ==
  ASSUME NEW types, NEW l, IsStack(tstack)
  PROVE  \E h : Takes("users", Used(types, l), <<>>, tstack, h) /\ Users(types, l) = h[Len(tstack)]
<1> DEFINE q == tstack
           p == Used(types, l)
           none == <<>>
           Listed(s, x) == IF x.type \in types /\ x.obj = l THEN Append(s, x.tid) ELSE s
           Defines(f) == f = [s \in SUBSET (1..Len(q)) |->
                                IF s = {} THEN none ELSE Listed(f[s \ {Max(s)}], q[Max(s)])]
           g == CHOOSE f : Defines(f)
<1>1. Users(types, l) =
        (CHOOSE f : f = [s \in SUBSET DOMAIN q |->
             IF s = {} THEN none ELSE Listed(f[s \ {Max(s)}], q[Max(s)])])[DOMAIN q]
  BY Zenon DEF Users, FoldLeft, MapThenFoldSet
<1>2. Len(q) \in Nat /\ DOMAIN q = 1..Len(q)
  BY Stack
<1>3. Users(types, l) = g[1..Len(q)]
  BY <1>1, <1>2, Zenon
<1>4. \A s, x : Turn("users", p, s, x) = Listed(s, x)
  BY DEF Turn, Used
<1> HIDE DEF none, Listed, p
<1>5. \A f : Defines(f) <=> LeftFold("users", p, f, none, q, Len(q))
  BY <1>4 DEF LeftFold
<1>6. \E f : LeftFold("users", p, f, none, q, Len(q))
  BY <1>2, LeftFoldExists
<1> HIDE DEF Defines
<1>7. Defines(g)
  BY <1>5, <1>6
<1> HIDE DEF g
<1>8. LeftFold("users", p, g, none, q, Len(q))
  BY <1>5, <1>7
<1> HIDE DEF q
<1>9. PICK h : Takes("users", p, none, q, h) /\ g[1..Len(q)] = h[Len(q)]
  <2>1. IsStack(q)
    BY DEF q
  <2> QED BY <2>1, <1>8, FoldTakes
<1> QED BY <1>3, <1>9 DEF none, p, q

\* An operation on a lock enters the queue at its end or leaves it at its head.
LEMMA QueueAfter ==
  ASSUME NEW s, AreObjects(s), NEW x, NEW kind \in {"rw", "rww"}, NEW l \in LocksOf(kind)
  PROVE  Queued(kind, Apply(s, x), l) =
             IF x.obj = l /\ x.type \in Entries(kind) THEN Append(Queued(kind, s, l), x.tid)
             ELSE IF x.obj = l /\ x.type \in Lockings(kind) THEN Tail(Queued(kind, s, l))
             ELSE Queued(kind, s, l)
<1> DEFINE r == WholeAfter(s, x)
<1>1. Apply(s, x) = r
  BY ApplyFields
<1>2. r.rwlock = RWAfter(s.rwlock, x) /\ r.rwwlock = RWWAfter(s.rwwlock, x)
  BY WholeFields
<1> HIDE DEF r
<1>3. CASE kind = "rw"
  <2>1. l \in RWLocks /\ IsRWLock(s.rwlock[l])
    BY <1>3 DEF LocksOf, AreObjects
  <2> DEFINE lock == s.rwlock[l]
             after == r.rwlock[l]
  <2>2. after = IF x.type \in RWOps /\ l = x.obj THEN RWLockAfter(lock, x) ELSE lock
    BY <1>2, <2>1 DEF RWAfter
  <2> HIDE DEF lock, after
  <2>3. IsRWLock(lock)
    BY <2>1 DEF lock
  <2>4. after.acquireQ = IF x.obj = l /\ x.type \in Entries(kind) THEN Append(lock.acquireQ, x.tid)
                         ELSE IF x.obj = l /\ x.type \in Lockings(kind) THEN Tail(lock.acquireQ)
                         ELSE lock.acquireQ
    BY <1>3, <2>2, <2>3 DEF RWLockAfter, EnterAsReader, EnterAsWriter, LockAsReader, LockAsWriter,
       Release, IsRWLock, Entries, Lockings, RWOps
  <2> QED BY <1>1, <1>3, <2>4 DEF Queued, lock, after
<1>4. CASE kind = "rww"
  <2>1. l \in RWWLocks /\ IsRWWLock(s.rwwlock[l])
    BY <1>4 DEF LocksOf, AreObjects
  <2> DEFINE lock == s.rwwlock[l]
             after == r.rwwlock[l]
  <2>2. after = IF x.type \in RWWOps /\ l = x.obj THEN RWWLockAfter(lock, x) ELSE lock
    BY <1>2, <2>1 DEF RWWAfter
  <2> HIDE DEF lock, after
  <2>3. IsRWWLock(lock)
    BY <2>1 DEF lock
  <2>4. after.acquireQ = IF x.obj = l /\ x.type \in Entries(kind) THEN Append(lock.acquireQ, x.tid)
                         ELSE IF x.obj = l /\ x.type \in Lockings(kind) THEN Tail(lock.acquireQ)
                         ELSE lock.acquireQ
    BY <1>4, <2>2, <2>3 DEF RWWLockAfter, RWWEnterAsReader, EnterAsWriter1, EnterAsWriter2,
       RWWLockAsReader, LockAsWriter1, LockAsWriter2, RWWRelease, IsRWWLock, Entries, Lockings, RWWOps
  <2> QED BY <1>1, <1>4, <2>4 DEF Queued, lock, after
<1> QED BY <1>3, <1>4

\* Who takes a lock is the head of its queue.
LEMMA LockedByHead ==
  ASSUME NEW p, NEW s, NEW tr, MayGo(p, s, tr), NEW kind \in {"rw", "rww"}, tr.type \in Lockings(kind)
  PROVE  Head(Queued(kind, s, tr.obj)) = tr.tid
<1>1. EnabledInState(s, tr)
  BY DEF MayGo, Asks, Lockings
<1> QED BY <1>1 DEF EnabledInState, Lockings, Queued, CanAcquireAsReader, CanAcquireAsWriter,
        RWWCanAcquireAsReader, CanAcquireAsWriter1, CanAcquireAsWriter2

\* An operation that takes a lock comes after the one that enters its queue.
LEMMA LocksInTwoHalves ==
  ASSUME NEW p \in Programs, InTwoHalves(p), NEW t \in Threads, NEW n \in Nat,
         NEW kind \in {"rw", "rww"}
  PROVE  /\ Op(p, t, 0).type \notin Lockings(kind)
         /\ Op(p, t, n + 1).type \in Lockings(kind) => /\ Op(p, t, n).type \in Entries(kind)
                                                       /\ Op(p, t, n).obj = Op(p, t, n + 1).obj
<1>1. ASSUME NEW type \in Lockings(kind) PROVE \E half \in Halves : type = half[2] /\ half[1] \in Entries(kind)
  BY DEF Halves, Lockings, Entries
<1>2. ASSUME NEW m \in {0, n + 1}, Op(p, t, m).type \in Lockings(kind)
      PROVE  m # 0 /\ Op(p, t, n).type \in Entries(kind) /\ Op(p, t, n).obj = Op(p, t, n + 1).obj
  <2>1. PICK half \in Halves : Op(p, t, m).type = half[2] /\ half[1] \in Entries(kind)
    BY <1>1, <1>2
  <2>2. /\ Op(p, t, n + 1).type = half[2] => /\ Op(p, t, n).type = half[1]
                                             /\ Op(p, t, n).obj = Op(p, t, n + 1).obj
        /\ Op(p, t, 0).type # half[2]
    BY SecondHalf
  <2> QED BY <2>1, <2>2
<1> QED BY <1>2

\* Whoever waits in the queue has asked for the lock after whoever got it, in that order.
Fair(p, q, kind, l, asked, got, k) ==
    LET queue == Queued(kind, Along(q)[k], l)
    IN /\ got \in Seq(Threads) /\ queue \in Seq(Threads)
       /\ asked = got \o queue
       /\ \A t \in Threads :
              /\ Op(p, t, Times(q, t, k)).type \in Lockings(kind)
              /\ Op(p, t, Times(q, t, k)).obj = l
              => \E i \in 1..Len(queue) : queue[i] = t

LEMMA AppendToConcat ==
  ASSUME NEW got \in Seq(Threads), NEW queue \in Seq(Threads), NEW t \in Threads
  PROVE  Append(got \o queue, t) = (got \o Append(queue, t))
<1>1. /\ got \o queue \in Seq(Threads) /\ <<t>> \in Seq(Threads)
      /\ Append(got \o queue, t) = (got \o queue) \o <<t>>
      /\ Append(queue, t) = queue \o <<t>>
  BY AppendIsConcat, ConcatProperties
<1>2. (got \o queue) \o <<t>> = got \o (queue \o <<t>>)
  BY <1>1, ConcatAssociative
<1> QED BY <1>1, <1>2

LEMMA Dequeued ==
  ASSUME NEW got \in Seq(Threads), NEW queue \in Seq(Threads), queue # <<>>
  PROVE  /\ got \o queue = Append(got, Head(queue)) \o Tail(queue)
         /\ Append(got, Head(queue)) \in Seq(Threads) /\ Tail(queue) \in Seq(Threads)
         /\ \A i \in 1..Len(queue) : i = 1 \/ (i - 1 \in 1..Len(Tail(queue)) /\ Tail(queue)[i - 1] = queue[i])
         /\ queue[1] = Head(queue)
<1>1. /\ Head(queue) \in Threads /\ Tail(queue) \in Seq(Threads)
      /\ Len(Tail(queue)) = Len(queue) - 1 /\ Len(queue) \in Nat /\ Head(queue) = queue[1]
      /\ \A i \in 1..Len(Tail(queue)) : Tail(queue)[i] = queue[i + 1]
  BY HeadTailProperties
<1>2. queue = <<Head(queue)>> \o Tail(queue)
  BY <1>1, ConcatProperties, SeqEqual
<1>3. Append(got, Head(queue)) = got \o <<Head(queue)>> /\ <<Head(queue)>> \in Seq(Threads)
  BY <1>1, AppendIsConcat
<1>4. got \o (<<Head(queue)>> \o Tail(queue)) = (got \o <<Head(queue)>>) \o Tail(queue)
  BY <1>1, <1>3, ConcatAssociative
<1>5. ASSUME NEW i \in 1..Len(queue), i # 1
      PROVE  i - 1 \in 1..Len(Tail(queue)) /\ Tail(queue)[i - 1] = queue[i]
  <2>1. i - 1 \in 1..Len(Tail(queue)) /\ (i - 1) + 1 = i
    BY <1>1, <1>5
  <2> QED BY <1>1, <2>1
<1>6. Append(got, Head(queue)) \in Seq(Threads)
  BY <1>1, AppendProperties
<1> QED BY <1>1, <1>2, <1>3, <1>4, <1>5, <1>6

LEMMA FairStep ==
  ASSUME NEW p \in Programs, InTwoHalves(p), NEW q, History(p, q), NEW k \in Nat, k + 1 <= Len(q),
         NEW kind \in {"rw", "rww"}, NEW l \in LocksOf(kind), NEW asked, NEW got,
         Fair(p, q, kind, l, asked, got, k)
  PROVE  Fair(p, q, kind, l,
              Turn("users", Used(Entries(kind), l), asked, q[k + 1]),
              Turn("users", Used(Lockings(kind), l), got, q[k + 1]), k + 1)
<1> DEFINE i == k + 1
           x == q[k + 1]
           u == q[k + 1].tid
           s == Along(q)[k]
           queue == Queued(kind, Along(q)[k], l)
           after == Queued(kind, Along(q)[k + 1], l)
           askedNow == Turn("users", Used(Entries(kind), l), asked, q[k + 1])
           gotNow == Turn("users", Used(Lockings(kind), l), got, q[k + 1])
           Now(t) == Op(p, t, Times(q, t, k))
           Then(t) == Op(p, t, Times(q, t, k + 1))
<1>1. /\ Len(q) \in Nat /\ IsStack(q) /\ i \in 1..Len(q) /\ i - 1 = k /\ k \in 0..Len(q)
  BY Stack DEF History
<1>2. /\ u \in Threads /\ Times(q, u, k) \in Nat
      /\ x.type = Now(u).type /\ x.obj = Now(u).obj
      /\ x.type = Operation(x).type /\ x.obj = Operation(x).obj /\ u = Operation(x).tid
      /\ MayGo(p, s, Operation(x))
  <2> HIDE DEF Operation
  <2>1. History(p, q) /\ i \in 1..Len(q) /\ i - 1 = k
    BY <1>1
  <2> QED BY ONLY <2>1, Operated
<1>3. after = IF x.obj = l /\ x.type \in Entries(kind) THEN Append(queue, u)
              ELSE IF x.obj = l /\ x.type \in Lockings(kind) THEN Tail(queue)
              ELSE queue
  <2>1. Along(q)[i] = Apply(s, x) /\ AreObjects(s)
    BY <1>1, AlongStack, AlongObjects
  <2> HIDE DEF s, x, u
  <2>2. Queued(kind, Apply(s, x), l) =
            IF x.obj = l /\ x.type \in Entries(kind) THEN Append(Queued(kind, s, l), x.tid)
            ELSE IF x.obj = l /\ x.type \in Lockings(kind) THEN Tail(Queued(kind, s, l))
            ELSE Queued(kind, s, l)
    BY <2>1, QueueAfter
  <2> QED BY <2>1, <2>2 DEF s, x, u
<1>4. /\ askedNow = IF x.type \in Entries(kind) /\ x.obj = l THEN Append(asked, u) ELSE asked
      /\ gotNow = IF x.type \in Lockings(kind) /\ x.obj = l THEN Append(got, u) ELSE got
  BY DEF Turn, Used
<1>5. /\ got \in Seq(Threads) /\ queue \in Seq(Threads) /\ asked = got \o queue
      /\ \A t \in Threads : Now(t).type \in Lockings(kind) /\ Now(t).obj = l =>
             \E j \in 1..Len(queue) : queue[j] = t
  BY DEF Fair
<1>6. \A t \in Threads : t # u => Then(t) = Now(t)
  <2>1. ASSUME NEW t \in Threads, t # u PROVE Times(q, t, k + 1) = Times(q, t, k)
    <3>1. Times(q, t, k) \in Nat
      BY Ranges
    <3>2. Times(q, t, k + 1) = Times(q, t, k) + (IF u = t THEN 1 ELSE 0)
      BY RanOnce
    <3> QED BY <2>1, <3>1, <3>2
  <2> QED BY <2>1
<1>7. Then(u).type \in Lockings(kind) /\ Then(u).obj = l => x.type \in Entries(kind) /\ x.obj = l
  <2>1. Times(q, u, k + 1) = Times(q, u, k) + 1
    <3>1. Times(q, u, k + 1) = Times(q, u, k) + (IF u = u THEN 1 ELSE 0)
      BY RanOnce
    <3> QED BY <3>1
  <2>2. /\ Op(p, u, Times(q, u, k) + 1).type \in Lockings(kind) =>
              /\ Op(p, u, Times(q, u, k)).type \in Entries(kind)
              /\ Op(p, u, Times(q, u, k)).obj = Op(p, u, Times(q, u, k) + 1).obj
    BY <1>2, LocksInTwoHalves
  <2> QED BY <1>2, <2>1, <2>2
<1>8. Fair(p, q, kind, l, askedNow, gotNow, i) <=>
       /\ gotNow \in Seq(Threads) /\ after \in Seq(Threads) /\ askedNow = gotNow \o after
       /\ \A t \in Threads : Then(t).type \in Lockings(kind) /\ Then(t).obj = l =>
             \E j \in 1..Len(after) : after[j] = t
  BY DEF Fair
<1> SUFFICES Fair(p, q, kind, l, askedNow, gotNow, i)
  OBVIOUS
<1> HIDE DEF queue, after, askedNow, gotNow, Then, Now, i
<1>9. CASE x.obj = l /\ x.type \in Entries(kind)
  <2>1. x.type \notin Lockings(kind)
    BY <1>9 DEF Entries, Lockings
  <2>2. after = Append(queue, u) /\ askedNow = Append(asked, u) /\ gotNow = got
    BY <1>3, <1>4, <1>9, <2>1
  <2>3. /\ Append(got \o queue, u) = got \o Append(queue, u) /\ Append(queue, u) \in Seq(Threads)
        /\ Append(queue, u)[Len(queue) + 1] = u /\ Len(Append(queue, u)) = Len(queue) + 1
        /\ \A j \in 1..Len(queue) : Append(queue, u)[j] = queue[j]
    <3> HIDE DEF u
    <3>1. u \in Threads /\ got \in Seq(Threads) /\ queue \in Seq(Threads)
      BY <1>2, <1>5
    <3>2. Append(got \o queue, u) = (got \o Append(queue, u))
      BY ONLY <3>1, AppendToConcat
    <3>3. /\ Append(queue, u) \in Seq(Threads)
          /\ Append(queue, u)[Len(queue) + 1] = u /\ Len(Append(queue, u)) = Len(queue) + 1
          /\ \A j \in 1..Len(queue) : Append(queue, u)[j] = queue[j]
      BY ONLY <3>1, AppendProperties
    <3> QED BY <3>2, <3>3
  <2>4. Len(queue) \in Nat
    BY <1>5, LenProperties
  <2>5. ASSUME NEW t \in Threads, Then(t).type \in Lockings(kind), Then(t).obj = l
        PROVE  \E j \in 1..Len(after) : after[j] = t
    <3>1. CASE t = u
      <4>1. Len(queue) + 1 \in 1..Len(after) /\ after[Len(queue) + 1] = u
        BY <2>2, <2>3, <2>4
      <4> QED BY <3>1, <4>1
    <3>2. CASE t # u
      <4>1. PICK j \in 1..Len(queue) : queue[j] = t
        BY <1>5, <1>6, <2>5, <3>2
      <4>2. j \in 1..(Len(queue) + 1)
        BY <2>4
      <4> QED BY <2>2, <2>3, <4>1, <4>2
    <3> QED BY <3>1, <3>2
  <2> QED BY <1>5, <1>8, <2>2, <2>3, <2>5
<1>10. CASE x.obj = l /\ x.type \in Lockings(kind)
  <2>1. x.type \notin Entries(kind)
    BY <1>10 DEF Entries, Lockings
  <2>2. after = Tail(queue) /\ askedNow = asked /\ gotNow = Append(got, u)
    BY <1>3, <1>4, <1>10, <2>1
  <2>3. PICK n \in 1..Len(queue) : queue[n] = u
    BY <1>2, <1>5, <1>10
  <2>4. queue # <<>>
    <3>1. Len(<<>>) = 0 /\ 1..0 = {}
      OBVIOUS
    <3> QED BY <2>3, <3>1
  <2>5. Head(queue) = u
    <3> HIDE DEF Operation
    <3>1. MayGo(p, s, Operation(x)) /\ Operation(x).type \in Lockings(kind)
      BY <1>2, <1>10
    <3>2. Head(Queued(kind, s, Operation(x).obj)) = Operation(x).tid
      BY ONLY kind \in {"rw", "rww"}, <3>1, LockedByHead
    <3> QED BY <1>2, <1>10, <3>2 DEF queue
  <2>6. /\ got \o queue = Append(got, u) \o Tail(queue)
        /\ Append(got, u) \in Seq(Threads) /\ Tail(queue) \in Seq(Threads)
        /\ \A j \in 1..Len(queue) : j = 1 \/ (j - 1 \in 1..Len(Tail(queue)) /\ Tail(queue)[j - 1] = queue[j])
        /\ queue[1] = u
    BY <1>5, <2>4, <2>5, Dequeued
  <2>7. ASSUME NEW t \in Threads, Then(t).type \in Lockings(kind), Then(t).obj = l
        PROVE  \E j \in 1..Len(after) : after[j] = t
    <3>1. t # u
      BY <1>7, <2>1, <2>7
    <3>2. PICK j \in 1..Len(queue) : queue[j] = t
      BY <1>5, <1>6, <2>7, <3>1
    <3>3. j - 1 \in 1..Len(Tail(queue)) /\ Tail(queue)[j - 1] = t
      BY <2>6, <3>1, <3>2
    <3> QED BY <2>2, <3>3
  <2> QED BY <1>5, <1>8, <2>2, <2>6, <2>7
<1>11. CASE ~(x.obj = l /\ x.type \in Entries(kind)) /\ ~(x.obj = l /\ x.type \in Lockings(kind))
  <2>1. after = queue /\ askedNow = asked /\ gotNow = got
    BY <1>3, <1>4, <1>11
  <2>2. ASSUME NEW t \in Threads, Then(t).type \in Lockings(kind), Then(t).obj = l
        PROVE  \E j \in 1..Len(queue) : queue[j] = t
    BY <1>5, <1>6, <1>7, <1>11, <2>2
  <2> QED BY <1>5, <1>8, <2>1, <2>2
<1> QED BY <1>9, <1>10, <1>11

LEMMA FairAlong ==
  ASSUME NEW p \in Programs, InTwoHalves(p), NEW q, History(p, q),
         NEW kind \in {"rw", "rww"}, NEW l \in LocksOf(kind),
         NEW asked, Takes("users", Used(Entries(kind), l), <<>>, q, asked),
         NEW got, Takes("users", Used(Lockings(kind), l), <<>>, q, got)
  PROVE  \A k \in 0..Len(q) : Fair(p, q, kind, l, asked[k], got[k], k)
<1> DEFINE S == {k \in Nat : k <= Len(q) => Fair(p, q, kind, l, asked[k], got[k], k)}
<1>0. Len(q) \in Nat /\ IsStack(q)
  BY Stack DEF History
<1>1. 0 \in S
  <2> DEFINE none == <<>>
  <2>1. asked[0] = none /\ got[0] = none
    BY DEF Takes
  <2>2. Queued(kind, Along(q)[0], l) = none
    <3>1. Along(q)[0].rwlock = InitialRWLocks /\ Along(q)[0].rwwlock = InitialRWWLocks
      BY <1>0, AlongStack, FreshFields
    <3> QED BY <3>1 DEF Queued, LocksOf, InitialRWLocks, InitialRWWLocks
  <2>3. none \in Seq(Threads) /\ none = none \o none
    OBVIOUS
  <2>4. ASSUME NEW t \in Threads PROVE Op(p, t, Times(q, t, 0)).type \notin Lockings(kind)
    <3>1. Times(q, t, 0) = 0 /\ 0 \in Nat
      BY RanNone
    <3>2. Op(p, t, 0).type \notin Lockings(kind)
      BY <3>1, LocksInTwoHalves
    <3> QED BY <3>1, <3>2
  <2> HIDE DEF none
  <2> QED BY <2>1, <2>2, <2>3, <2>4 DEF Fair
<1>2. ASSUME NEW k \in Nat, k \in S PROVE k + 1 \in S
  <2> SUFFICES ASSUME k + 1 <= Len(q) PROVE Fair(p, q, kind, l, asked[k + 1], got[k + 1], k + 1)
    OBVIOUS
  <2>1. Fair(p, q, kind, l, asked[k], got[k], k)
    BY <1>0, <1>2
  <2>2. k + 1 \in 1..Len(q) /\ (k + 1) - 1 = k
    BY <1>0
  <2>3. /\ asked[k + 1] = Turn("users", Used(Entries(kind), l), asked[k], q[k + 1])
        /\ got[k + 1] = Turn("users", Used(Lockings(kind), l), got[k], q[k + 1])
    BY <2>2 DEF Takes
  <2> QED BY <2>1, <2>3, FairStep
<1> HIDE DEF S
<1>3. \A k \in Nat : k \in S
  BY <1>1, <1>2, NatSetInduction
<1> QED BY <1>0, <1>3 DEF S

\* Who took a lock of either kind are the first of those who asked for it.
LEMMA FirstServed ==
  ASSUME IInv, TraceInv, InTwoHalves(prog), NEW kind \in {"rw", "rww"}, NEW l \in LocksOf(kind)
  PROVE  IsPrefix(Users(Lockings(kind), l), Users(Entries(kind), l))
<1>1. prog \in Programs /\ History(prog, tstack) /\ IsStack(tstack) /\ Len(tstack) \in Nat
  BY Stack DEF IInv, StacksMatch, ThreadsKnown, TraceInv, Traced
<1>2. PICK asked : /\ Takes("users", Used(Entries(kind), l), <<>>, tstack, asked)
                   /\ Users(Entries(kind), l) = asked[Len(tstack)]
  BY <1>1, UsersOneByOne
<1>3. PICK got : /\ Takes("users", Used(Lockings(kind), l), <<>>, tstack, got)
                 /\ Users(Lockings(kind), l) = got[Len(tstack)]
  BY <1>1, UsersOneByOne
<1>4. Fair(prog, tstack, kind, l, asked[Len(tstack)], got[Len(tstack)], Len(tstack))
  BY <1>1, <1>2, <1>3, FairAlong
<1> DEFINE r == got[Len(tstack)]
           queue == Queued(kind, Along(tstack)[Len(tstack)], l)
<1>5. r \in Seq(Threads) /\ queue \in Seq(Threads) /\ asked[Len(tstack)] = r \o queue
  BY <1>4 DEF Fair
<1> HIDE DEF r, queue
<1>6. IsPrefix(r, r \o queue)
  <2>1. Len(r) <= Len(r \o queue)
    BY <1>5, ConcatProperties, LenProperties
  <2>2. SubSeq(r \o queue, 1, Len(r)) = r /\ SubSeq(r, 1, Len(r)) = r
    BY <1>5, SubSeqOfConcat1, SubSeqFull, LenProperties
  <2> QED BY <2>1, <2>2 DEF IsPrefix
<1> QED BY <1>2, <1>3, <1>5, <1>6 DEF r

\* Whatever the program, made of the wrappers, the threads get a lock of either kind in the
\* order in which they asked for it: its queues and the scheduler keep each other in step
\* along every trace (MCRWLock.cpp, MCRWWLock.cpp).
THEOREM LocksAreFair == Spec => [](InTwoHalves(prog) => ServedInOrder)
<1>1. IInv /\ TraceInv => (InTwoHalves(prog) => ServedInOrder)
  <2> SUFFICES ASSUME IInv, TraceInv, InTwoHalves(prog) PROVE ServedInOrder
    OBVIOUS
  <2>1. ASSUME NEW l \in RWLocks
        PROVE  IsPrefix(Users({"readerLock", "writerLock"}, l),
                        Users({"readerEnqueue", "writerEnqueue"}, l))
    <3>1. l \in LocksOf("rw")
      BY DEF LocksOf
    <3>2. IsPrefix(Users(Lockings("rw"), l), Users(Entries("rw"), l))
      BY <3>1, FirstServed
    <3> QED BY <3>2 DEF Lockings, Entries
  <2>2. ASSUME NEW l \in RWWLocks
        PROVE  IsPrefix(Users({"rwwReaderLock", "writer1Lock", "writer2Lock"}, l),
                        Users({"rwwReaderEnqueue", "writer1Enqueue", "writer2Enqueue"}, l))
    <3>1. l \in LocksOf("rww")
      BY DEF LocksOf
    <3>2. IsPrefix(Users(Lockings("rww"), l), Users(Entries("rww"), l))
      BY <3>1, FirstServed
    <3> QED BY <3>2 DEF Lockings, Entries
  <2> QED BY <2>1, <2>2 DEF ServedInOrder
<1> QED BY <1>1, TraceHolds, PTL

-----------------------------------------------------------------------------
(* What happens before what in a trace, and the clocks that are to tell.    *)

\* hb[j] holds what happens before transition j of trace q, j itself included.
IsOrder(q, n, hb) == \A j \in 1..n : hb[j] = {j} \cup UNION {hb[k] : k \in Feeds(q, j)}

\* The relation of the model is the least one, transition by transition.
LEMMA HappensOneByOne ==
  ASSUME IsStack(tstack)
  PROVE  IsOrder(tstack, Len(tstack), HappensBefore)
<1> DEFINE q == tstack
           none == <<>>
           ids == [i \in DOMAIN q |-> i]
           Noted(s, x) == Append(s, {x} \cup UNION {s[j] : j \in
                             {k \in 1..(x - 1) : Dependent(q[k], q[x])}})
           Defines(f) == f = [s \in SUBSET (1..Len(ids)) |->
                                IF s = {} THEN none ELSE Noted(f[s \ {Max(s)}], ids[Max(s)])]
           g == CHOOSE f : Defines(f)
<1>1. HappensBefore =
        (CHOOSE f : f = [s \in SUBSET DOMAIN ids |->
             IF s = {} THEN none ELSE Noted(f[s \ {Max(s)}], ids[Max(s)])])[DOMAIN ids]
  BY Zenon DEF HappensBefore, FoldLeft, MapThenFoldSet
<1>2. /\ Len(q) \in Nat /\ DOMAIN q = 1..Len(q) /\ IsStack(ids) /\ Len(ids) = Len(q)
      /\ DOMAIN ids = 1..Len(ids) /\ \A i \in 1..Len(q) : ids[i] = i
  <2>1. Len(q) \in Nat /\ DOMAIN q = 1..Len(q)
    BY Stack
  <2>2. ids \in Seq(Nat) /\ Len(ids) = Len(q)
    BY <2>1
  <2> QED BY <2>1, <2>2 DEF IsStack
<1> HIDE DEF ids
<1>3. HappensBefore = g[1..Len(ids)]
  BY <1>1, <1>2, Zenon
<1>4. \A s, x : Turn("order", q, s, x) = Noted(s, x)
  BY DEF Turn, Feeds
<1> HIDE DEF none, Noted, q
<1>5. \A f : Defines(f) <=> LeftFold("order", q, f, none, ids, Len(ids))
  BY <1>4 DEF LeftFold
<1>6. \E f : LeftFold("order", q, f, none, ids, Len(ids))
  BY <1>2, LeftFoldExists
<1> HIDE DEF Defines
<1>7. Defines(g)
  BY <1>5, <1>6
<1> HIDE DEF g
<1>8. LeftFold("order", q, g, none, ids, Len(ids))
  BY <1>5, <1>7
<1>9. PICK h : Takes("order", q, none, ids, h) /\ g[1..Len(ids)] = h[Len(ids)]
  BY <1>2, <1>8, FoldTakes
<1> DEFINE S == {k \in Nat : k <= Len(q) => IsStack(h[k]) /\ Len(h[k]) = k /\ IsOrder(q, k, h[k])}
<1>10. 0 \in S
  <2>1. h[0] = <<>>
    BY <1>9 DEF Takes, none
  <2>2. IsStack(h[0]) /\ Len(h[0]) = 0
    BY <2>1 DEF IsStack
  <2> QED BY <2>2 DEF IsOrder
<1>11. ASSUME NEW k \in Nat, k \in S PROVE k + 1 \in S
  <2> SUFFICES ASSUME k + 1 <= Len(q)
               PROVE  IsStack(h[k + 1]) /\ Len(h[k + 1]) = k + 1 /\ IsOrder(q, k + 1, h[k + 1])
    OBVIOUS
  <2>1. k + 1 \in 1..Len(q) /\ (k + 1) - 1 = k /\ k <= Len(q)
    BY <1>2
  <2>2. IsStack(h[k]) /\ Len(h[k]) = k /\ IsOrder(q, k, h[k])
    BY <1>11, <2>1
  <2> DEFINE before == {k + 1} \cup UNION {h[k][j] : j \in Feeds(q, k + 1)}
  <2>3. h[k + 1] = Append(h[k], before)
    <3>1. h[k + 1] = Turn("order", q, h[k], k + 1)
      BY <1>2, <1>9, <2>1 DEF Takes
    <3> QED BY <3>1 DEF Turn
  <2> HIDE DEF before
  <2>4. /\ IsStack(h[k + 1]) /\ Len(h[k + 1]) = k + 1 /\ h[k + 1][k + 1] = before
        /\ \A j \in 1..k : h[k + 1][j] = h[k][j]
    BY <2>2, <2>3, Pushed
  <2>5. ASSUME NEW j \in 1..(k + 1)
        PROVE  h[k + 1][j] = {j} \cup UNION {h[k + 1][i] : i \in Feeds(q, j)}
    <3>1. \A i \in Feeds(q, j) : i \in 1..k
      BY DEF Feeds
    <3>2. {h[k + 1][i] : i \in Feeds(q, j)} = {h[k][i] : i \in Feeds(q, j)}
      BY <2>4, <3>1
    <3>3. CASE j \in 1..k
      BY <2>2, <2>4, <3>2, <3>3 DEF IsOrder
    <3>4. CASE j = k + 1
      BY <2>4, <3>2, <3>4 DEF before
    <3> QED BY <3>3, <3>4
  <2> QED BY <2>4, <2>5 DEF IsOrder
<1> HIDE DEF S
<1>12. \A k \in Nat : k \in S
  BY <1>10, <1>11, NatSetInduction
<1>13. IsOrder(q, Len(q), h[Len(q)])
  BY <1>2, <1>12 DEF S
<1> QED BY <1>2, <1>3, <1>9, <1>13 DEF q

\* What happens before a transition is not after it on the stack.
LEMMA OrderWithin ==
  ASSUME NEW q, NEW n \in Nat, NEW hb, IsOrder(q, n, hb)
  PROVE  \A j \in 1..n : j \in hb[j] /\ hb[j] \subseteq 1..j
<1> DEFINE S == {m \in Nat : m <= n => \A j \in 1..m : hb[j] \subseteq 1..j}
<1>1. 0 \in S
  OBVIOUS
<1>2. ASSUME NEW m \in Nat, m \in S PROVE m + 1 \in S
  <2> SUFFICES ASSUME m + 1 <= n, NEW j \in 1..(m + 1) PROVE hb[j] \subseteq 1..j
    OBVIOUS
  <2>1. \A k \in 1..m : hb[k] \subseteq 1..k
    BY <1>2
  <2>2. j \in 1..n /\ hb[j] = {j} \cup UNION {hb[k] : k \in Feeds(q, j)}
    BY DEF IsOrder
  <2>3. ASSUME NEW i \in hb[j] PROVE i \in 1..j
    <3>1. CASE i = j
      BY <3>1
    <3>2. CASE i # j
      <4>1. PICK k \in Feeds(q, j) : i \in hb[k]
        BY <2>2, <3>2
      <4>2. k \in 1..m /\ k < j
        BY <4>1 DEF Feeds
      <4>3. i \in 1..k
        BY <2>1, <4>1, <4>2
      <4> QED BY <4>2, <4>3
    <3> QED BY <3>1, <3>2
  <2> QED BY <2>3
<1> HIDE DEF S
<1>3. \A m \in Nat : m \in S
  BY <1>1, <1>2, NatSetInduction
<1>4. \A j \in 1..n : hb[j] \subseteq 1..j
  BY <1>3 DEF S
<1>5. \A j \in 1..n : j \in hb[j]
  BY DEF IsOrder
<1> QED BY <1>4, <1>5

\* What happens before a transition happens before all that one happens before.
LEMMA OrderTransitive ==
  ASSUME NEW q, NEW n \in Nat, NEW hb, IsOrder(q, n, hb)
  PROVE  \A j \in 1..n : \A k \in hb[j] : hb[k] \subseteq hb[j]
<1> DEFINE S == {m \in Nat : m <= n => \A j \in 1..m : \A k \in hb[j] : hb[k] \subseteq hb[j]}
<1>1. 0 \in S
  OBVIOUS
<1>2. ASSUME NEW m \in Nat, m \in S PROVE m + 1 \in S
  <2> SUFFICES ASSUME m + 1 <= n, NEW j \in 1..(m + 1), NEW k \in hb[j] PROVE hb[k] \subseteq hb[j]
    OBVIOUS
  <2>1. \A i \in 1..m : \A l \in hb[i] : hb[l] \subseteq hb[i]
    BY <1>2
  <2>2. j \in 1..n /\ hb[j] = {j} \cup UNION {hb[i] : i \in Feeds(q, j)}
    BY DEF IsOrder
  <2>3. CASE k = j
    BY <2>3
  <2>4. CASE k # j
    <3>1. PICK i \in Feeds(q, j) : k \in hb[i]
      BY <2>2, <2>4
    <3>2. i \in 1..m
      BY <3>1 DEF Feeds
    <3>3. hb[k] \subseteq hb[i]
      BY <2>1, <3>1, <3>2
    <3>4. hb[i] \subseteq hb[j]
      BY <2>2
    <3> QED BY <3>3, <3>4
  <2> QED BY <2>3, <2>4
<1> HIDE DEF S
<1>3. \A m \in Nat : m \in S
  BY <1>1, <1>2, NatSetInduction
<1> QED BY <1>3 DEF S

\* If every other transition depends on an earlier one, the first happens before all.
LEMMA OrderRooted ==
  ASSUME NEW q, NEW n \in Nat, NEW hb, IsOrder(q, n, hb),
         \A j \in 2..n : Feeds(q, j) # {}
  PROVE  \A j \in 1..n : 1 \in hb[j]
<1> DEFINE S == {m \in Nat : m <= n => \A j \in 1..m : 1 \in hb[j]}
<1>1. 0 \in S
  OBVIOUS
<1>2. ASSUME NEW m \in Nat, m \in S PROVE m + 1 \in S
  <2> SUFFICES ASSUME m + 1 <= n, NEW j \in 1..(m + 1) PROVE 1 \in hb[j]
    OBVIOUS
  <2>1. \A i \in 1..m : 1 \in hb[i]
    BY <1>2
  <2>2. j \in 1..n /\ hb[j] = {j} \cup UNION {hb[i] : i \in Feeds(q, j)}
    BY DEF IsOrder
  <2>3. CASE j = 1
    BY <2>2, <2>3
  <2>4. CASE j # 1
    <3>1. PICK i \in Feeds(q, j) : TRUE
      <4>1. j \in 2..n
        BY <2>2, <2>4
      <4> QED BY <4>1
    <3>2. i \in 1..m
      BY <3>1 DEF Feeds
    <3> QED BY <2>1, <2>2, <3>2
  <2> QED BY <2>3, <2>4
<1> HIDE DEF S
<1>3. \A m \in Nat : m \in S
  BY <1>1, <1>2, NatSetInduction
<1> QED BY <1>3 DEF S

\* C[j] is the clock of transition j: a transition of thread t sets the entry of t to
\* itself, and takes the others from the latest of those it depends on.
Latest(q, C, j, t) == Max({1} \cup {C[k][t] : k \in Feeds(q, j)})

ClocksFollow(q, n, C) ==
    \A j \in 1..n : \A t \in Threads :
        C[j][t] = IF t = q[j].tid THEN j ELSE Latest(q, C, j, t)

\* The latest of the clocks is one of them, or the 1 an absent entry reads as.
LEMMA LatestIs ==
  ASSUME NEW q, NEW C, NEW j \in Nat \ {0}, NEW t, \A k \in Feeds(q, j) : C[k][t] \in 1..k
  PROVE  /\ Latest(q, C, j, t) \in 1..j
         /\ Latest(q, C, j, t) = 1 \/ \E k \in Feeds(q, j) : C[k][t] = Latest(q, C, j, t)
         /\ \A k \in Feeds(q, j) : C[k][t] <= Latest(q, C, j, t)
<1> DEFINE T == {1} \cup {C[k][t] : k \in Feeds(q, j)}
           m == Max(T)
<1>1. \A k \in Feeds(q, j) : k \in 1..(j - 1)
  BY DEF Feeds
<1>2. ASSUME NEW x \in T PROVE x \in 1..j
  <2>1. CASE x = 1
    BY <2>1
  <2>2. CASE x # 1
    <3>1. PICK k \in Feeds(q, j) : x = C[k][t]
      BY <2>2
    <3>2. x \in 1..k /\ k \in 1..(j - 1)
      BY <1>1, <3>1
    <3> QED BY <3>2
  <2> QED BY <2>1, <2>2
<1>3. T \in SUBSET (0..j) /\ T # {}
  <2>1. \A x \in T : x \in 0..j
    BY <1>2
  <2> QED BY <2>1
<1>4. m \in T /\ \A y \in T : y <= m
  <2> HIDE DEF T
  <2> QED BY <1>3, GreatestOf
<1>5. Latest(q, C, j, t) = m
  BY DEF Latest
<1> HIDE DEF m
<1>6. m \in 1..j
  BY <1>2, <1>4
<1>7. m = 1 \/ \E k \in Feeds(q, j) : C[k][t] = m
  BY <1>4
<1>8. \A k \in Feeds(q, j) : C[k][t] <= m
  BY <1>4
<1> QED BY <1>5, <1>6, <1>7, <1>8

\* The clock of transition j knows of the latest transition of each thread that
\* happens before it, or of the first of all.
KnowsOf(q, hb, C, j, t) ==
    /\ C[j][t] \in 1..j
    /\ C[j][t] = 1 \/ (C[j][t] \in hb[j] /\ q[C[j][t]].tid = t)
    /\ \A i \in hb[j] : q[i].tid = t => i <= C[j][t]

LEMMA ClocksKnow ==
  ASSUME NEW q, NEW n \in Nat, NEW hb, IsOrder(q, n, hb), NEW C, ClocksFollow(q, n, C)
  PROVE  \A j \in 1..n : \A t \in Threads : KnowsOf(q, hb, C, j, t)
<1> DEFINE S == {m \in Nat : m <= n => \A j \in 1..m : \A t \in Threads : KnowsOf(q, hb, C, j, t)}
<1>1. 0 \in S
  OBVIOUS
<1>2. ASSUME NEW m \in Nat, m \in S PROVE m + 1 \in S
  <2> SUFFICES ASSUME m + 1 <= n, NEW j \in 1..(m + 1), NEW t \in Threads
               PROVE  KnowsOf(q, hb, C, j, t)
    OBVIOUS
  <2>1. \A i \in 1..m : KnowsOf(q, hb, C, i, t)
    BY <1>2
  <2>2. /\ j \in 1..n /\ j \in Nat \ {0} /\ hb[j] = {j} \cup UNION {hb[k] : k \in Feeds(q, j)}
        /\ \A k \in Feeds(q, j) : k \in 1..m /\ k < j
        /\ C[j][t] = IF t = q[j].tid THEN j ELSE Latest(q, C, j, t)
    BY DEF IsOrder, ClocksFollow, Feeds
  <2>3. \A i \in hb[j] : i \in 1..j
    BY <2>2, OrderWithin
  <2>4. CASE t = q[j].tid
    <3>1. C[j][t] = j /\ j \in hb[j]
      BY <2>2, <2>4
    <3> QED BY <2>3, <2>4, <3>1 DEF KnowsOf
  <2>5. CASE t # q[j].tid
    <3>1. \A k \in Feeds(q, j) : KnowsOf(q, hb, C, k, t)
      BY <2>1, <2>2
    <3>2. \A k \in Feeds(q, j) : C[k][t] \in 1..k
      BY <3>1 DEF KnowsOf
    <3> DEFINE l == Latest(q, C, j, t)
    <3>3. /\ l \in 1..j
          /\ l = 1 \/ \E k \in Feeds(q, j) : C[k][t] = l
          /\ \A k \in Feeds(q, j) : C[k][t] <= l
      BY <2>2, <3>2, LatestIs
    <3>4. C[j][t] = l
      BY <2>2, <2>5
    <3> HIDE DEF l
    <3>5. ASSUME l # 1 PROVE l \in hb[j] /\ q[l].tid = t
      <4>1. PICK k \in Feeds(q, j) : C[k][t] = l
        BY <3>3, <3>5
      <4>2. l \in hb[k] /\ q[l].tid = t
        BY <3>1, <3>5, <4>1 DEF KnowsOf
      <4> QED BY <2>2, <4>2
    <3>6. ASSUME NEW i \in hb[j], q[i].tid = t PROVE i <= l
      <4>1. i # j
        BY <2>5, <3>6
      <4>2. PICK k \in Feeds(q, j) : i \in hb[k]
        BY <2>2, <4>1
      <4>3. i <= C[k][t] /\ C[k][t] <= l
        BY <3>1, <3>3, <3>6, <4>2 DEF KnowsOf
      <4>4. i \in Nat /\ l \in Nat /\ C[k][t] \in Nat
        BY <2>3, <3>2, <3>3
      <4> QED BY <4>3, <4>4
    <3> QED BY <3>3, <3>4, <3>5, <3>6 DEF KnowsOf
  <2> QED BY <2>4, <2>5
<1> HIDE DEF S
<1>3. \A m \in Nat : m \in S
  BY <1>1, <1>2, NatSetInduction
<1> QED BY <1>3 DEF S

\* A trace in which every transition but the first depends on an earlier one.
Rooted(q, n) == \A j \in 2..n : Feeds(q, j) # {}

\* In such a trace the entry 1, that an absent one reads as, is no lie, and a clock
\* tells exactly what happens before its transition.
LEMMA ClocksDecide ==
  ASSUME NEW q, NEW n \in Nat, NEW hb, IsOrder(q, n, hb), NEW C, ClocksFollow(q, n, C),
         Rooted(q, n), \A i \in 1..n : q[i].tid \in Threads,
         NEW i \in 1..n, NEW j \in 1..n, i <= j
  PROVE  i \in hb[j] <=> i <= C[j][q[i].tid]
<1> DEFINE t == q[i].tid
           l == C[j][t]
<1>1. KnowsOf(q, hb, C, j, t)
  BY ClocksKnow
<1>2. l \in 1..j /\ l \in 1..n /\ (l = 1 \/ (l \in hb[j] /\ q[l].tid = t))
  BY <1>1 DEF KnowsOf
<1>3. 1 \in hb[j]
  BY OrderRooted DEF Rooted
<1>4. i \in hb[j] => i <= l
  BY <1>1 DEF KnowsOf
<1>5. ASSUME i <= l PROVE i \in hb[j]
  <2>1. CASE l = 1
    <3>1. i = 1
      BY <1>5, <2>1
    <3> QED BY <1>3, <3>1
  <2>2. CASE l # 1
    <3>1. l \in hb[j] /\ q[l].tid = t
      BY <1>2, <2>2
    <3>2. i \in hb[l]
      <4>1. CASE i = l
        BY <1>2, <4>1, OrderWithin
      <4>2. CASE i # l
        <5>1. i \in Feeds(q, l)
          <6>1. i \in 1..(l - 1)
            BY <1>2, <1>5, <4>2
          <6>2. Dependent(q[i], q[l])
            BY <3>1 DEF Dependent
          <6> QED BY <6>1, <6>2 DEF Feeds
        <5>2. hb[l] = {l} \cup UNION {hb[k] : k \in Feeds(q, l)}
          BY <1>2 DEF IsOrder
        <5>3. i \in hb[i]
          BY OrderWithin
        <5> QED BY <5>1, <5>2, <5>3
      <4> QED BY <4>1, <4>2
    <3>3. hb[l] \subseteq hb[j]
      BY <3>1, OrderTransitive
    <3> QED BY <3>2, <3>3
  <2> QED BY <2>1, <2>2
<1> QED BY <1>4, <1>5

-----------------------------------------------------------------------------
(* Every transition but the first depends on an earlier one.                *)

\* A thread that is alive is main, or was created before.
LEMMA AliveCreated ==
  ASSUME NEW p, NEW q, History(p, q), NEW t \in Threads, t # Main
  PROVE  \A k \in 0..Len(q) : Along(q)[k].thread[t] = "alive" =>
             \E i \in 1..k : q[i].type = "create" /\ q[i].obj = t
<1> DEFINE Created(k) == \E i \in 1..k : q[i].type = "create" /\ q[i].obj = t
           S == {k \in Nat : k <= Len(q) /\ Along(q)[k].thread[t] = "alive" => Created(k)}
<1>0. Len(q) \in Nat /\ IsStack(q)
  BY Stack DEF History
<1>1. 0 \in S
  BY <1>0, AlongStack, FreshFields
<1>2. ASSUME NEW k \in Nat, k \in S PROVE k + 1 \in S
  <2> SUFFICES ASSUME k + 1 <= Len(q), Along(q)[k + 1].thread[t] = "alive"
               PROVE  Created(k + 1)
    OBVIOUS
  <2> DEFINE i == k + 1
             x == q[i]
             s == Along(q)[k]
             r == WholeAfter(s, x)
  <2>1. i \in 1..Len(q) /\ i - 1 = k /\ k <= Len(q) /\ k \in 0..Len(q)
    BY <1>0
  <2>2. Along(q)[i] = r
    <3>1. Along(q)[i] = Apply(s, x) /\ AreObjects(s)
      BY <1>0, <2>1, AlongStack, AlongObjects
    <3> QED BY <3>1, ApplyFields
  <2>3. r.thread = ThreadAfter(s.thread, x)
    BY WholeFields
  <2>4. x.type = Operation(x).type /\ x.tid = Operation(x).tid /\ IsAlive(s, Operation(x).tid)
    BY <2>1, Operated DEF MayGo
  <2> HIDE DEF r, s, x
  <2>5. CASE s.thread[t] = "alive"
    <3>1. Created(k)
      BY <1>2, <2>1, <2>5 DEF s
    <3>2. \A j \in 1..k : j \in 1..(k + 1)
      OBVIOUS
    <3> QED BY <3>1, <3>2
  <2>6. CASE s.thread[t] # "alive"
    <3>1. ThreadAfter(s.thread, x)[t] = "alive"
      BY <2>2, <2>3
    <3>2. WritesThread(x, t)
      BY <2>6, <3>1 DEF ThreadAfter
    <3>3. x.tid # t
      BY <2>4, <2>6 DEF IsAlive
    <3>4. x.type = "create" /\ x.obj = t
      BY <3>2, <3>3 DEF WritesThread
    <3>5. i \in 1..(k + 1)
      OBVIOUS
    <3> QED BY <3>4, <3>5 DEF x
  <2> QED BY <2>5, <2>6
<1> HIDE DEF S
<1>3. \A k \in Nat : k \in S
  BY <1>1, <1>2, NatSetInduction
<1> QED BY <1>0, <1>3 DEF S

\* main has run first, and any other thread was created by an earlier transition, that
\* depends on all the thread does.
LEMMA HistoryRooted ==
  ASSUME NEW p, NEW q, History(p, q)
  PROVE  Rooted(q, Len(q))
<1>0. Len(q) \in Nat /\ IsStack(q)
  BY Stack DEF History
<1> SUFFICES ASSUME NEW j \in 2..Len(q) PROVE Feeds(q, j) # {}
  BY DEF Rooted
<1> DEFINE t == q[j].tid
<1>1. ASSUME NEW i \in 1..Len(q)
      PROVE  q[i].tid \in Threads /\ Along(q)[i - 1].thread[q[i].tid] = "alive"
  <2>1. /\ q[i].tid \in Threads /\ q[i].tid = Operation(q[i]).tid
        /\ MayGo(p, Along(q)[i - 1], Operation(q[i]))
    BY Operated
  <2>2. IsAlive(Along(q)[i - 1], Operation(q[i]).tid)
    BY <2>1 DEF MayGo
  <2> QED BY <2>1, <2>2 DEF IsAlive
<1>2. j \in 1..Len(q) /\ j - 1 \in 0..Len(q) /\ 1 \in 1..Len(q)
  BY <1>0
<1>3. CASE t = Main
  <2>1. q[1].tid = Main
    <3>1. Along(q)[0].thread[q[1].tid] = "alive" /\ q[1].tid \in Threads
      BY <1>1, <1>2
    <3> QED BY <1>0, <3>1, AlongStack, FreshFields
  <2>2. Dependent(q[1], q[j])
    BY <1>3, <2>1 DEF Dependent
  <2>3. 1 \in Feeds(q, j)
    BY <1>2, <2>2 DEF Feeds
  <2> QED BY <2>3
<1>4. CASE t # Main
  <2>1. t \in Threads /\ Along(q)[j - 1].thread[t] = "alive"
    BY <1>1, <1>2
  <2> HIDE DEF t
  <2>2. \E i \in 1..(j - 1) : q[i].type = "create" /\ q[i].obj = t
    BY <1>2, <1>4, <2>1, AliveCreated
  <2>3. PICK i \in 1..(j - 1) : q[i].type = "create" /\ q[i].obj = t
    BY <2>2
  <2>4. Dependent(q[i], q[j])
    BY <2>3 DEF Dependent, DependentWith, NamesThreadOf, t
  <2>5. i \in Feeds(q, j)
    BY <2>4 DEF Feeds
  <2> QED BY <2>5
<1> QED BY <1>3, <1>4

-----------------------------------------------------------------------------
(* Clock vectors.  The clocks on the stack are those of its transitions, in  *)
(* every search; those of the threads are the clocks of the last transition  *)
(* of each, as long as no branch undoes transitions.                         *)

\* The clocks of the transitions on the stack.
Clocks == [i \in 1..Len(tstack) |-> sstack[i + 1].clock]

ClocksKept == ClocksFollow(tstack, Len(tstack), Clocks)

\* A thread that has not run is about to start.
Newcomers == \A t \in DOMAIN next :
    (\A i \in 1..Len(tstack) : tstack[i].tid # t) => next[t].type = "start"

\* A thread that has run has the clock of its last transition.
Recent == \A i \in 1..Len(tstack) :
    (\A k \in (i + 1)..Len(tstack) : tstack[k].tid # tstack[i].tid) =>
        clock[tstack[i].tid] = sstack[i + 1].clock

\* What the search writes to a state of the stack leaves its clock alone.
LEMMA ClockOfItem ==
  ASSUME NEW item, Shaped(item), NEW t, NEW B
  PROVE  /\ Searched(item, t).clock = item.clock /\ LeftBy(item, t).clock = item.clock
         /\ [item EXCEPT !.backtrack = B].clock = item.clock
<1> DEFINE enabled == EnabledThreads(objs, next)
           one == Searched(item, t)
           two == [one EXCEPT !.enabled = one.enabled \cup enabled]
<1>1. LeftBy(item, t) = [two EXCEPT !.sleep = two.sleep \cup {t}]
  BY Zenon DEF LeftBy
<1>2. Shaped(one) /\ one.clock = item.clock
  BY SearchedFields DEF Shaped
<1> HIDE DEF one, enabled
<1>3. Shaped(two) /\ two.clock = one.clock
  BY <1>2, OneField DEF Shaped
<1> HIDE DEF two
<1>4. LeftBy(item, t).clock = two.clock
  BY <1>1, <1>3, OneField
<1>5. [item EXCEPT !.backtrack = B].clock = item.clock
  BY OneField
<1> QED BY <1>2, <1>3, <1>4, <1>5 DEF one

\* Traces that begin alike have the same clocks as long as they do.
LEMMA FollowAlike ==
  ASSUME NEW q, NEW r, NEW n \in Nat, NEW C, NEW D, ClocksFollow(q, n, C),
         \A i \in 1..n : r[i] = q[i] /\ D[i] = C[i]
  PROVE  ClocksFollow(r, n, D)
<1> SUFFICES ASSUME NEW j \in 1..n, NEW t \in Threads
             PROVE  D[j][t] = IF t = r[j].tid THEN j ELSE Latest(r, D, j, t)
  BY DEF ClocksFollow
<1>1. \A i \in 1..(j - 1) : i \in 1..n
  OBVIOUS
<1>2. Feeds(r, j) = Feeds(q, j)
  BY <1>1 DEF Feeds
<1>3. \A i \in Feeds(q, j) : i \in 1..n
  BY <1>1 DEF Feeds
<1>4. {D[k][t] : k \in Feeds(r, j)} = {C[k][t] : k \in Feeds(q, j)}
  BY <1>2, <1>3
<1>5. Latest(r, D, j, t) = Latest(q, C, j, t)
  BY <1>4 DEF Latest
<1> QED BY <1>5 DEF ClocksFollow

\* A step after which the stacks are the first m transitions and the states around them.
Keeps(m) ==
    /\ m \in 0..Len(tstack) /\ Len(tstack') = m
    /\ \A i \in 1..m : tstack'[i] = tstack[i]
    /\ \A i \in 1..(m + 1) : sstack'[i].clock = sstack[i].clock

LEMMA KeptClocks ==
  ASSUME IInv, ClocksKept, NEW m, Keeps(m)
  PROVE  ClocksKept'
<1>1. /\ m \in Nat /\ Len(tstack) \in Nat /\ m <= Len(tstack) /\ Len(tstack') = m
      /\ \A i \in 1..m : i \in 1..Len(tstack) /\ i + 1 \in 1..(m + 1)
  <2>1. Len(tstack) \in Nat
    BY Stack DEF IInv, StacksMatch
  <2> QED BY <2>1 DEF Keeps
<1>2. \A i \in 1..m : tstack'[i] = tstack[i] /\ Clocks'[i] = Clocks[i]
  BY <1>1 DEF Keeps, Clocks
<1>3. ClocksFollow(tstack, m, Clocks)
  BY <1>1 DEF ClocksKept, ClocksFollow
<1>4. ClocksFollow(tstack', m, Clocks')
  <2>1. PICK q : q = tstack
    OBVIOUS
  <2>2. PICK r : r = tstack'
    OBVIOUS
  <2>3. PICK C : C = Clocks
    OBVIOUS
  <2>4. PICK D : D = Clocks'
    OBVIOUS
  <2>5. ClocksFollow(q, m, C) /\ \A i \in 1..m : r[i] = q[i] /\ D[i] = C[i]
    BY <1>2, <1>3, <2>1, <2>2, <2>3, <2>4
  <2>6. ClocksFollow(r, m, D)
    BY ONLY <1>1, <2>5, FollowAlike
  <2> QED BY <2>2, <2>4, <2>6
<1> QED BY <1>1, <1>4 DEF ClocksKept

LEMMA KeepsAll ==
  ASSUME IInv, UNCHANGED <<tstack, sstack>>
  PROVE  Keeps(Len(tstack))
BY Stack DEF IInv, StacksMatch, Keeps

LEMMA QueueKeeps ==
  ASSUME IInv, NEW k \in 1..Len(sstack), NEW B, UNCHANGED tstack,
         sstack' = [sstack EXCEPT ![k].backtrack = B]
  PROVE  Keeps(Len(tstack))
<1> DEFINE y == [sstack[k] EXCEPT !.backtrack = B]
<1>1. /\ IsStack(sstack) /\ Shaped(sstack[k]) /\ Len(tstack) \in Nat
      /\ Len(sstack) = Len(tstack) + 1
  BY Stack DEF IInv, StacksMatch, ItemsSound, ItemSound
<1>2. y.clock = sstack[k].clock
  BY <1>1, ClockOfItem
<1>3. Overwrites(sstack', sstack, k, y)
  BY DEF Overwrites
<1> HIDE DEF y
<1>4. \A i \in 1..Len(sstack) : sstack'[i] = IF i = k THEN y ELSE sstack[i]
  BY <1>1, <1>3, Written
<1>5. \A i \in 1..Len(sstack) : sstack'[i].clock = sstack[i].clock
  BY <1>2, <1>4
<1> QED BY <1>1, <1>5 DEF Keeps

LEMMA UpdateKeeps ==
  ASSUME IInv, UpdateLast \/ \E p \in Threads : UpdateOther(p)
  PROVE  Keeps(Len(tstack))
<1>0. UNCHANGED tstack /\ stage = "others"
  BY DEF UpdateLast, UpdateOther
<1>1. /\ Len(tstack) \in Nat /\ Len(sstack) = Len(tstack) + 1 /\ Len(tstack) \in 1..Len(sstack)
  <2>1. /\ Len(tstack) \in Nat /\ Len(sstack) = Len(tstack) + 1 /\ tstack # <<>>
    BY <1>0, Stack DEF IInv, StacksMatch, TopItem, Between
  <2>2. Len(tstack) # 0
    BY <2>1 DEF IInv, StacksMatch, IsStack
  <2> QED BY <2>1, <2>2
<1>2. CASE UNCHANGED sstack
  BY <1>0, <1>2, KeepsAll
<1>3. CASE ~UNCHANGED sstack /\ \E p \in Threads : UpdateOther(p)
  <2>1. PICK B : sstack' = [sstack EXCEPT ![Len(tstack)].backtrack = B]
    BY <1>3 DEF UpdateOther
  <2> QED BY <1>0, <1>1, <2>1, QueueKeeps
<1>4. CASE ~UNCHANGED sstack /\ UpdateLast
  <2> DEFINE cs == Conflicts(Last(tstack).tid)
  <2>1. cs # {} /\ \E B : sstack' = [sstack EXCEPT ![Max(cs)].backtrack = B]
    BY <1>4 DEF UpdateLast
  <2>2. cs \in SUBSET (1..(Len(tstack) - 1))
    BY DEF Conflicts
  <2>3. Max(cs) \in 1..Len(sstack)
    <3> HIDE DEF cs
    <3>1. cs \in SUBSET (1..Len(sstack)) /\ Len(sstack) \in Nat
      BY <1>1, <2>2
    <3> QED BY <2>1, <3>1, MaxIsElement
  <2> HIDE DEF cs
  <2>4. PICK B : sstack' = [sstack EXCEPT ![Max(cs)].backtrack = B]
    BY <2>1
  <2> QED BY <1>0, <2>3, <2>4, QueueKeeps
<1> QED BY <1>2, <1>3, <1>4

\* A branch keeps the stacks up to the state it goes back to.
LEMMA BranchKeeps ==
  ASSUME IInv, Branch
  PROVE  \E b \in 1..Len(tstack) :
             /\ b = Max(BranchPoints) /\ Keeps(b - 1)
             /\ ~CanRunInReverseTo(b) => Replay(b)
<1> USE DEF IInv
<1>1. /\ Len(sstack) \in Nat /\ Len(tstack) \in Nat /\ Len(sstack) = Len(tstack) + 1
      /\ IsStack(sstack) /\ IsStack(tstack) /\ DOMAIN sstack = 1..Len(sstack)
  BY Stack DEF StacksMatch
<1>2. stage = "branch" /\ BranchPoints # {}
  BY DEF Branch
<1> DEFINE b == Max(BranchPoints)
<1>3. b \in 1..Len(sstack) /\ sstack[b].backtrack # {}
  <2>1. BranchPoints \in SUBSET (1..Len(sstack))
    BY <1>1 DEF BranchPoints
  <2>2. Max(BranchPoints) \in BranchPoints
    BY <1>1, <1>2, <2>1, MaxIsElement
  <2> QED BY <2>1, <2>2 DEF BranchPoints
<1>4. PICK t \in sstack[b].backtrack :
        /\ sstack' = [SubSeq(sstack, 1, b) EXCEPT ![b] = Searched(@, t)]
        /\ tstack' = SubSeq(tstack, 1, b - 1)
        /\ IF CanRunInReverseTo(b) THEN Revert(b) ELSE Replay(b)
  BY DEF Branch
<1>12. b = Max(BranchPoints)
  OBVIOUS
<1> HIDE DEF b
<1>5. b \in 1..Len(tstack)
  <2>1. sstack[Len(sstack)].backtrack = {}
    BY <1>1, <1>2 DEF TopItem, ItemsSound, ItemSound, Between
  <2> QED BY <1>1, <1>3, <2>1
<1> DEFINE item == Searched(sstack[b], t)
           reopened == [SubSeq(sstack, 1, b) EXCEPT ![b] = item]
<1>6. SubSeq(sstack, 1, b)[b] = sstack[b]
  <2>1. b \in 0..Len(sstack) /\ b \in 1..b
    BY <1>1, <1>3
  <2> QED BY <1>1, <2>1, Truncated
<1>7. sstack' = reopened
  BY <1>4, <1>6
<1>8. item.clock = sstack[b].clock
  BY <1>3, ClockOfItem DEF ItemsSound, ItemSound
<1> HIDE DEF item
<1>9. /\ IsStack(reopened) /\ Len(reopened) = b
      /\ \A i \in 1..b : reopened[i] = IF i = b THEN item ELSE sstack[i]
  BY <1>1, <1>3, Reopened
<1> HIDE DEF reopened
<1>10. \A i \in 1..b : sstack'[i].clock = sstack[i].clock
  BY <1>7, <1>8, <1>9
<1>11. b - 1 \in 0..Len(tstack) /\ Len(tstack') = b - 1 /\ \A i \in 1..(b - 1) : tstack'[i] = tstack[i]
  <2>1. b - 1 \in 0..Len(tstack)
    BY <1>1, <1>5
  <2> QED BY <1>4, <1>1, <2>1, Truncated
<1>13. Keeps(b - 1)
  <2>1. (b - 1) + 1 = b
    BY <1>5
  <2> QED BY <1>10, <1>11, <2>1 DEF Keeps
<1> QED BY <1>4, <1>5, <1>12, <1>13

\* A step that is not Run cuts the stacks, and only a branch changes more than that.
LEMMA OtherSteps ==
  ASSUME IInv, [Next]_vars, ~Run
  PROVE  \/ Branch
         \/ Keeps(Len(tstack)) /\ UNCHANGED <<tstack, clock, next>>
<1>1. CASE UpdateLast \/ \E p \in Threads : UpdateOther(p)
  <2>1. Keeps(Len(tstack))
    BY <1>1, UpdateKeeps
  <2>2. UNCHANGED <<tstack, clock, next>>
    BY <1>1 DEF UpdateLast, UpdateOther
  <2> QED BY <2>1, <2>2
<1>2. CASE LimitReached \/ Crash \/ Choose \/ EndTrace \/ Finished \/ UNCHANGED vars
  <2>1. UNCHANGED schedVars
    BY <1>2 DEF LimitReached, Crash, Choose, EndTrace, Finished, vars
  <2> QED BY <2>1, KeepsAll DEF schedVars
<1> QED BY <1>1, <1>2 DEF Next

\* Two transitions alike but for what their copies hold of a barrier are dependent on
\* the same ones.
LEMMA DependentAlike ==
  ASSUME NEW a, NEW x, NEW y, x.tid = y.tid, x.type = y.type, x.obj = y.obj,
         x.type \notin {"condEnqueue", "condWait"}
  PROVE  Dependent(a, x) <=> Dependent(a, y)
BY DEF Dependent, DependentWith, NamesThreadOf, CondDependentWith, MayRunBeside

LEMMA DependentOnCopy ==
  ASSUME NEW a, NEW os, NEW tr
  PROVE  Dependent(a, StaticCopy(os, tr)) <=> Dependent(a, Live(os, tr))
<1>1. CASE tr.type = "barrierWait"
  <2>1. /\ StaticCopy(os, tr).tid = Live(os, tr).tid /\ StaticCopy(os, tr).type = Live(os, tr).type
        /\ StaticCopy(os, tr).obj = Live(os, tr).obj
        /\ StaticCopy(os, tr).type \notin {"condEnqueue", "condWait"}
    BY <1>1 DEF StaticCopy, Live, SeenBarrier
  <2> QED BY <2>1, DependentAlike
<1>2. CASE tr.type # "barrierWait"
  BY <1>2 DEF StaticCopy
<1> QED BY <1>1, <1>2

\* What a run pushes on the stacks.
LEMMA RunItems ==
  ASSUME IInv, Run, NEW n, n = Len(tstack)
  PROVE  /\ n \in Nat /\ leader \in Threads /\ Len(sstack) = n + 1 /\ Len(sstack') = n + 2
         /\ \A i \in 1..n : sstack'[i] = sstack[i]
         /\ sstack'[n + 1] = LeftBy(sstack[n + 1], leader)
         /\ sstack'[n + 2] = NewItem([ClockOf(next[leader]) EXCEPT ![leader] = n + 1],
                                     StillAsleep(next[leader]))
<1> DEFINE left == [sstack EXCEPT ![n + 1] = LeftBy(sstack[n + 1], leader)]
           top == NewItem([ClockOf(next[leader]) EXCEPT ![leader] = n + 1],
                          StillAsleep(next[leader]))
<1>1. /\ n \in Nat /\ IsStack(sstack) /\ Len(sstack) = n + 1 /\ leader \in Threads
      /\ n + 1 \in 1..Len(sstack)
  BY Stack DEF IInv, StacksMatch, ThreadsKnown
<1>2. sstack' = Append(left, top)
  <2>1. sstack' = Append([sstack EXCEPT ![Len(sstack)] = LeftBy(@, leader)],
                NewItem([ClockOf(next[leader]) EXCEPT ![leader] = Len(tstack) + 1],
                        StillAsleep(next[leader])))
    BY DEF Run
  <2> QED BY <1>1, <2>1
<1> HIDE DEF top
<1>3. /\ IsStack(left) /\ Len(left) = n + 1
      /\ \A i \in 1..(n + 1) : left[i] = IF i = n + 1 THEN LeftBy(sstack[n + 1], leader) ELSE sstack[i]
  <2>1. PICK y : y = LeftBy(sstack[n + 1], leader)
    OBVIOUS
  <2>2. Overwrites(left, sstack, n + 1, y)
    BY <2>1 DEF Overwrites
  <2> HIDE DEF left
  <2>3. /\ IsStack(left) /\ Len(left) = Len(sstack)
        /\ \A i \in 1..Len(sstack) : left[i] = IF i = n + 1 THEN y ELSE sstack[i]
    BY <1>1, <2>2, Written
  <2> QED BY <1>1, <2>1, <2>3
<1> HIDE DEF left
<1>4. /\ Len(sstack') = n + 2 /\ sstack'[n + 2] = top
      /\ \A i \in 1..(n + 1) : sstack'[i] = left[i]
  <2>1. n + 1 + 1 = n + 2
    BY <1>1
  <2>2. /\ Append(left, top)[n + 1 + 1] = top /\ Len(Append(left, top)) = n + 1 + 1
        /\ \A i \in 1..(n + 1) : Append(left, top)[i] = left[i]
    BY <1>3, Pushed
  <2> QED BY <1>2, <2>1, <2>2
<1>5. \A i \in 1..n : i \in 1..(n + 1) /\ i # n + 1
  BY <1>1
<1> QED BY <1>1, <1>3, <1>4, <1>5 DEF top

LEMMA RunPushes ==
  ASSUME IInv, Run, NEW n, n = Len(tstack)
  PROVE  /\ n \in Nat /\ Len(tstack') = n + 1 /\ leader \in Threads
         /\ \A i \in 1..n : tstack'[i] = tstack[i]
         /\ tstack'[n + 1] = StaticCopy(objs, next[leader]) /\ tstack'[n + 1].tid = leader
         /\ \A i \in 1..(n + 1) : sstack'[i].clock = sstack[i].clock
         /\ sstack'[n + 2].clock = [ClockOf(next[leader]) EXCEPT ![leader] = n + 1]
         /\ clock' = [clock EXCEPT ![leader] = [ClockOf(next[leader]) EXCEPT ![leader] = n + 1]]
<1> DEFINE tr == next[leader]
           x == StaticCopy(objs, tr)
           cv == [ClockOf(tr) EXCEPT ![leader] = n + 1]
<1>1. /\ n \in Nat /\ IsStack(tstack) /\ leader \in Threads /\ tr.tid = leader
      /\ Shaped(sstack[n + 1])
  BY Stack DEF IInv, StacksMatch, ThreadsKnown, ItemsSound, ItemSound
<1>2. tstack' = Append(tstack, x) /\ clock' = [clock EXCEPT ![leader] = cv]
  BY DEF Run
<1>3. PICK w, asleep : w = cv /\ asleep = StillAsleep(tr)
  OBVIOUS
<1>4. /\ \A i \in 1..n : sstack'[i] = sstack[i]
      /\ sstack'[n + 1] = LeftBy(sstack[n + 1], leader) /\ sstack'[n + 2] = NewItem(w, asleep)
  BY <1>3, RunItems
<1>5. sstack'[n + 1].clock = sstack[n + 1].clock /\ sstack'[n + 2].clock = w
  BY <1>1, <1>4, ClockOfItem DEF NewItem
<1>6. \A i \in 1..(n + 1) : i \in 1..n \/ i = n + 1
  BY <1>1
<1>7. x.tid = leader
  BY <1>1, CopyTid
<1> HIDE DEF x, cv
<1>8. /\ Len(tstack') = n + 1 /\ tstack'[n + 1] = x /\ \A i \in 1..n : tstack'[i] = tstack[i]
  BY <1>1, <1>2, Pushed
<1> QED BY <1>1, <1>2, <1>3, <1>4, <1>5, <1>6, <1>7, <1>8 DEF cv, x

LEMMA RunClocks ==
  ASSUME IInv, ClocksKept, Run
  PROVE  ClocksKept'
<1>1. PICK n : n = Len(tstack)
  OBVIOUS
<1> DEFINE tr == next[leader]
           x == Live(objs, tr)
<1>2. /\ n \in Nat /\ Len(tstack') = n + 1 /\ leader \in Threads
      /\ \A i \in 1..n : tstack'[i] = tstack[i]
      /\ tstack'[n + 1] = StaticCopy(objs, tr) /\ tstack'[n + 1].tid = leader
      /\ \A i \in 1..(n + 1) : sstack'[i].clock = sstack[i].clock
      /\ sstack'[n + 2].clock = [ClockOf(tr) EXCEPT ![leader] = n + 1]
  BY <1>1, RunPushes
<1>3. DOMAIN tstack = 1..n
  BY <1>1, Stack DEF IInv, StacksMatch
<1>4. {i \in DOMAIN tstack : Dependent(tstack[i], x)} = Feeds(tstack', n + 1)
  <2>1. (n + 1) - 1 = n
    BY <1>2
  <2>2. \A i \in 1..n : Dependent(tstack'[i], tstack'[n + 1]) <=> Dependent(tstack[i], x)
    BY <1>2, DependentOnCopy
  <2> QED BY <1>3, <2>1, <2>2 DEF Feeds
<1> HIDE DEF x
<1>5. \A i \in 1..n : Clocks'[i] = Clocks[i] /\ Clocks'[i] = sstack[i + 1].clock
  <2>1. \A i \in 1..n : i \in 1..(n + 1) /\ i + 1 \in 1..(n + 1)
    BY <1>2
  <2> QED BY <1>1, <1>2, <2>1 DEF Clocks
<1>6. Clocks'[n + 1] = [ClockOf(tr) EXCEPT ![leader] = n + 1]
  <2>1. n + 1 \in 1..(n + 1) /\ n + 1 + 1 = n + 2
    BY <1>2
  <2> QED BY <1>2, <2>1 DEF Clocks
<1>7. \A t \in Threads : ClockOf(tr)[t] = Latest(tstack', Clocks', n + 1, t)
  <2> SUFFICES ASSUME NEW t \in Threads
               PROVE  ClockOf(tr)[t] = Latest(tstack', Clocks', n + 1, t)
    OBVIOUS
  <2> DEFINE before == {i \in DOMAIN tstack : Dependent(tstack[i], x)}
  <2>1. ClockOf(tr)[t] = Max({1} \cup {sstack[i + 1].clock[t] : i \in before})
    BY DEF ClockOf, x
  <2>2. \A i \in before : Clocks'[i][t] = sstack[i + 1].clock[t]
    BY <1>3, <1>5
  <2>3. before = Feeds(tstack', n + 1)
    BY <1>4
  <2> HIDE DEF before
  <2>4. {sstack[i + 1].clock[t] : i \in before} = {Clocks'[i][t] : i \in Feeds(tstack', n + 1)}
    BY <2>2, <2>3
  <2> QED BY <2>1, <2>4 DEF Latest
<1>8. \A t \in Threads :
          Clocks'[n + 1][t] = IF t = tstack'[n + 1].tid THEN n + 1
                              ELSE Latest(tstack', Clocks', n + 1, t)
  <2>1. DOMAIN ClockOf(tr) = Threads
    BY DEF ClockOf
  <2>2. \A t \in Threads : [ClockOf(tr) EXCEPT ![leader] = n + 1][t] =
                               IF t = leader THEN n + 1 ELSE ClockOf(tr)[t]
    BY <2>1
  <2> QED BY <1>2, <1>6, <1>7, <2>2
<1>9. ClocksFollow(tstack', n, Clocks')
  <2>1. PICK q : q = tstack
    OBVIOUS
  <2>2. PICK r : r = tstack'
    OBVIOUS
  <2>3. PICK C : C = Clocks
    OBVIOUS
  <2>4. PICK D : D = Clocks'
    OBVIOUS
  <2>5. ClocksFollow(q, n, C) /\ \A i \in 1..n : r[i] = q[i] /\ D[i] = C[i]
    BY <1>1, <1>2, <1>5, <2>1, <2>2, <2>3, <2>4 DEF ClocksKept
  <2>6. ClocksFollow(r, n, D)
    BY ONLY <1>2, <2>5, FollowAlike
  <2> QED BY <2>2, <2>4, <2>6
<1>10. \A j \in 1..(n + 1) : j \in 1..n \/ j = n + 1
  BY <1>2
<1>11. ClocksFollow(tstack', n + 1, Clocks')
  BY <1>8, <1>9, <1>10 DEF ClocksFollow
<1> QED BY <1>2, <1>11 DEF ClocksKept

LEMMA ClocksNext == IInv /\ ClocksKept /\ [Next]_vars => ClocksKept'
<1> SUFFICES ASSUME IInv, ClocksKept, [Next]_vars PROVE ClocksKept'
  OBVIOUS
<1>1. CASE Run
  BY <1>1, RunClocks
<1>2. CASE ~Run
  <2>1. CASE Branch
    <3>1. \E m : Keeps(m)
      BY <2>1, BranchKeeps
    <3> QED BY <3>1, KeptClocks
  <2>2. CASE ~Branch
    <3>1. Keeps(Len(tstack))
      BY <1>2, <2>2, OtherSteps
    <3> QED BY <3>1, KeptClocks
  <2> QED BY <2>1, <2>2
<1> QED BY <1>1, <1>2

LEMMA ClocksInit == Init => ClocksKept
<1> SUFFICES ASSUME Init PROVE ClocksKept
  OBVIOUS
<1>1. Len(tstack) = 0
  BY DEF Init
<1> QED BY <1>1 DEF ClocksKept, ClocksFollow

\* The first half of ClocksExact: between two transitions of the stack.
ClocksOrdered ==
    LET hb == HappensBefore
    IN \A i, j \in DOMAIN tstack : i < j =>
           (i \in hb[j] <=> i <= sstack[j + 1].clock[tstack[i].tid])

\* A branch that undoes the transitions it drops, instead of replaying the stack.
Undoes == Branch /\ CanRunInReverseTo(Max(BranchPoints))

\* The clock on the stack of transition j tells whether i happens before it.
LEMMA OrderDecided ==
  ASSUME IInv, TraceInv, ClocksKept, NEW hb, hb = HappensBefore,
         NEW i \in 1..Len(tstack), NEW j \in 1..Len(tstack), i <= j
  PROVE  i \in hb[j] <=> i <= sstack[j + 1].clock[tstack[i].tid]
<1>1. /\ Len(tstack) \in Nat /\ IsStack(tstack) /\ History(prog, tstack)
  BY Stack DEF IInv, StacksMatch, TraceInv, Traced
<1>2. IsOrder(tstack, Len(tstack), hb)
  BY <1>1, HappensOneByOne
<1>3. Rooted(tstack, Len(tstack))
  BY <1>1, HistoryRooted
<1>4. \A k \in 1..Len(tstack) : tstack[k].tid \in Threads
  BY <1>1, Operated
<1>5. PICK q : q = tstack
  OBVIOUS
<1>6. PICK n \in Nat : n = Len(tstack)
  BY <1>1
<1>7. PICK C : C = Clocks
  OBVIOUS
<1>8. /\ IsOrder(q, n, hb) /\ ClocksFollow(q, n, C) /\ Rooted(q, n)
      /\ \A k \in 1..n : q[k].tid \in Threads
      /\ i \in 1..n /\ j \in 1..n
  BY <1>2, <1>3, <1>4, <1>5, <1>6, <1>7 DEF ClocksKept
<1>9. i \in hb[j] <=> i <= C[j][q[i].tid]
  BY ONLY <1>8, i <= j, ClocksDecide
<1>10. C[j] = sstack[j + 1].clock
  BY <1>7 DEF Clocks
<1> QED BY <1>5, <1>9, <1>10

\* In every search of every program the clock of a state on the stack tells exactly
\* which transitions happen before the one that led to it (MCState.h:130).
THEOREM ClocksDecideOrder == Spec => []ClocksOrdered
<1>1. IInv /\ TraceInv /\ ClocksKept => ClocksOrdered
  <2> SUFFICES ASSUME IInv, TraceInv, ClocksKept PROVE ClocksOrdered
    OBVIOUS
  <2>1. DOMAIN tstack = 1..Len(tstack) /\ Len(tstack) \in Nat
    BY Stack DEF IInv, StacksMatch
  <2> SUFFICES ASSUME NEW i \in 1..Len(tstack), NEW j \in 1..Len(tstack), i < j
               PROVE  i \in HappensBefore[j] <=> i <= sstack[j + 1].clock[tstack[i].tid]
    BY <2>1 DEF ClocksOrdered
  <2>2. i <= j
    OBVIOUS
  <2> QED BY <2>2, OrderDecided
<1> QED BY <1>1, TraceHolds, ClocksInit, ClocksNext, PTL DEF Spec

-----------------------------------------------------------------------------
(* The clocks of the threads.                                               *)

\* The next operation of a thread that has done none is its first.
LEMMA NewcomersKnown ==
  ASSUME IInv, TraceInv, stage # "undefined"
  PROVE  Newcomers
<1> SUFFICES ASSUME NEW t \in DOMAIN next, \A i \in 1..Len(tstack) : tstack[i].tid # t
             PROVE  next[t].type = "start"
  BY DEF Newcomers
<1>1. t \in Threads
  BY DEF IInv, ThreadsKnown
<1>2. Ran(tstack, t, Len(tstack)) = {}
  BY DEF Ran
<1>3. pc[t] = 0
  BY <1>1, <1>2, FS_EmptySet DEF TraceInv, Counted, Times
<1>4. next[t] = Op(prog, t, 0)
  BY <1>3 DEF TraceInv, NextTraced
<1> QED BY <1>4 DEF Op

\* The operation that is undefined is of a thread that has run.
StillNewcomers == stage = "undefined" => Newcomers

LEMMA NewcomersNext == IInv /\ TraceInv /\ StillNewcomers /\ [Next]_vars => StillNewcomers'
<1> SUFFICES ASSUME IInv, TraceInv, StillNewcomers, [Next]_vars, stage' = "undefined"
             PROVE  Newcomers'
  BY DEF StillNewcomers
<1>1. CASE Run
  <2>1. stage = "run" /\ next' = next
    BY <1>1 DEF Run
  <2>2. Newcomers
    BY <2>1, NewcomersKnown
  <2>3. PICK n : n = Len(tstack)
    OBVIOUS
  <2>4. n \in Nat /\ Len(tstack') = n + 1 /\ \A i \in 1..n : tstack'[i] = tstack[i]
    BY <1>1, <2>3, RunPushes
  <2>5. \A i \in 1..n : i \in 1..(n + 1)
    BY <2>4
  <2> QED BY <2>1, <2>2, <2>3, <2>4, <2>5 DEF Newcomers
<1>2. CASE ~Run
  <2>1. UNCHANGED vars
    BY <1>2 DEF Next, LimitReached, UpdateOther, UpdateLast, Crash, Choose, EndTrace, Branch,
                Finished
  <2> QED BY <2>1 DEF StillNewcomers, Newcomers, vars, schedVars
<1> QED BY <1>1, <1>2

\* The threads' clocks have an entry for each thread.
ClocksRecent == DOMAIN clock = Threads /\ Recent

LEMMA RecentInit == Init => ClocksRecent
<1> SUFFICES ASSUME Init PROVE ClocksRecent
  OBVIOUS
<1>1. Len(tstack) = 0 /\ DOMAIN clock = Threads
  BY DEF Init
<1> QED BY <1>1 DEF ClocksRecent, Recent

LEMMA RunRecent ==
  ASSUME IInv, ClocksRecent, Run
  PROVE  ClocksRecent'
<1>1. PICK n : n = Len(tstack)
  OBVIOUS
<1>2. PICK cv : cv = [ClockOf(next[leader]) EXCEPT ![leader] = n + 1]
  OBVIOUS
<1>3. /\ n \in Nat /\ Len(tstack') = n + 1 /\ leader \in Threads
      /\ \A i \in 1..n : tstack'[i] = tstack[i]
      /\ tstack'[n + 1].tid = leader
      /\ \A i \in 1..(n + 1) : sstack'[i].clock = sstack[i].clock
      /\ sstack'[n + 2].clock = cv
      /\ clock' = [clock EXCEPT ![leader] = cv]
  BY <1>1, <1>2, RunPushes
<1>4. DOMAIN clock' = Threads /\ DOMAIN clock = Threads
  BY <1>3 DEF ClocksRecent
<1>5. Recent'
  <2> SUFFICES ASSUME NEW i \in 1..(n + 1),
                      \A k \in (i + 1)..(n + 1) : tstack'[k].tid # tstack'[i].tid
               PROVE  clock'[tstack'[i].tid] = sstack'[i + 1].clock
    BY <1>3 DEF Recent
  <2>1. CASE i = n + 1
    <3>1. i + 1 = n + 2
      BY <1>3, <2>1
    <3> QED BY <1>3, <1>4, <2>1, <3>1
  <2>2. CASE i # n + 1
    <3>1. i \in 1..n /\ n + 1 \in (i + 1)..(n + 1) /\ i + 1 \in 1..(n + 1)
      BY <1>3, <2>2
    <3>2. tstack'[i] = tstack[i] /\ tstack[i].tid # leader
      BY <1>3, <3>1
    <3>3. ASSUME NEW k \in (i + 1)..n PROVE tstack[k].tid # tstack[i].tid
      <4>1. k \in (i + 1)..(n + 1) /\ k \in 1..n
        BY <1>3
      <4> QED BY <1>3, <3>2, <4>1
    <3>4. clock[tstack[i].tid] = sstack[i + 1].clock
      BY <1>1, <3>1, <3>3 DEF ClocksRecent, Recent
    <3>5. clock'[tstack[i].tid] = clock[tstack[i].tid]
      BY <1>3, <1>4, <3>2
    <3> QED BY <1>3, <3>1, <3>2, <3>4, <3>5
  <2> QED BY <2>1, <2>2
<1> QED BY <1>4, <1>5 DEF ClocksRecent

\* A replay gives each thread the clock of its last transition again.
LEMMA ReplayRecent ==
  ASSUME IInv, TraceInv, ClocksRecent, NEW b \in 1..Len(tstack), Keeps(b - 1), Replay(b)
  PROVE  ClocksRecent'
<1>1. /\ Len(tstack) \in Nat /\ Len(tstack') = b - 1 /\ History(prog, tstack)
      /\ \A i \in 1..(b - 1) : tstack'[i] = tstack[i] /\ i \in 1..Len(tstack)
      /\ \A i \in 1..b : sstack'[i].clock = sstack[i].clock
  <2>1. Len(tstack) \in Nat /\ (b - 1) + 1 = b
    BY Stack DEF IInv, StacksMatch
  <2> QED BY <2>1 DEF Keeps, TraceInv, Traced
<1>2. clock' = [t \in Threads |-> IF Of(t, Kept(b)) = {} THEN clock[t]
                                  ELSE sstack[Max(Of(t, Kept(b))) + 1].clock]
  BY DEF Replay
<1>3. Recent'
  <2> SUFFICES ASSUME NEW i \in 1..(b - 1),
                      \A k \in (i + 1)..(b - 1) : tstack'[k].tid # tstack'[i].tid
               PROVE  clock'[tstack'[i].tid] = sstack'[i + 1].clock
    BY <1>1 DEF Recent
  <2> DEFINE t == tstack[i].tid
             O == Of(t, Kept(b))
  <2>1. t \in Threads /\ tstack'[i] = tstack[i]
    BY <1>1, Operated
  <2>2. O = {k \in 1..(b - 1) : tstack[k].tid = t}
    BY DEF Of, Kept
  <2>3. i \in O
    BY <2>2
  <2>4. ASSUME NEW k \in O PROVE k <= i
    <3>1. k \in 1..(b - 1) /\ tstack[k].tid = t
      BY <2>2
    <3>2. k \notin (i + 1)..(b - 1)
      <4>1. k \in (i + 1)..(b - 1) => tstack'[k].tid # t
        BY <2>1
      <4> QED BY <1>1, <3>1, <4>1
    <3> QED BY <3>1, <3>2
  <2>5. PICK m : m = Max(O)
    OBVIOUS
  <2>6. m \in O /\ \A k \in O : k <= m
    <3>1. O \in SUBSET (0..(b - 1)) /\ O # {} /\ b - 1 \in Nat
      BY <1>1, <2>2, <2>3
    <3> HIDE DEF O
    <3> QED BY <2>5, <3>1, GreatestOf
  <2>7. m = i
    <3>1. m \in 1..(b - 1) /\ m <= i /\ i <= m
      BY <2>2, <2>3, <2>4, <2>6
    <3> QED BY <3>1
  <2>8. clock'[t] = sstack[m + 1].clock
    BY <1>2, <2>1, <2>3, <2>5
  <2>9. i + 1 \in 1..b
    BY <1>1
  <2> QED BY <1>1, <2>1, <2>7, <2>8, <2>9
<1> QED BY <1>2, <1>3 DEF ClocksRecent

LEMMA RecentNext ==
  IInv /\ TraceInv /\ ClocksRecent /\ [Next]_vars /\ [~Undoes]_vars => ClocksRecent'
<1> SUFFICES ASSUME IInv, TraceInv, ClocksRecent, [Next]_vars, [~Undoes]_vars
             PROVE  ClocksRecent'
  OBVIOUS
<1>1. CASE Run
  BY <1>1, RunRecent
<1>2. CASE ~Run /\ ~Branch
  <2>1. Keeps(Len(tstack)) /\ UNCHANGED <<tstack, clock>>
    BY <1>2, OtherSteps
  <2>2. \A i \in 1..Len(tstack) : i + 1 \in 1..(Len(tstack) + 1)
    BY Stack DEF IInv, StacksMatch
  <2> QED BY <2>1, <2>2 DEF ClocksRecent, Recent, Keeps
<1>3. CASE Branch
  <2>1. PICK b \in 1..Len(tstack) : /\ b = Max(BranchPoints) /\ Keeps(b - 1)
                                    /\ ~CanRunInReverseTo(b) => Replay(b)
    BY <1>3, BranchKeeps
  <2>2. ~UNCHANGED vars
    <3>1. stage = "branch" /\ stage' = "run"
      BY <1>3 DEF Branch
    <3> QED BY <3>1 DEF vars
  <2>3. ~CanRunInReverseTo(b)
    BY <1>3, <2>1, <2>2 DEF Undoes
  <2> QED BY <2>1, <2>3, ReplayRecent
<1> QED BY <1>1, <1>2, <1>3

\* A thread that has not started depends only on what creates or joins it, and nothing
\* of that is enabled together with its start.
LEMMA StartsOrdered ==
  ASSUME NEW x, NEW y, y.type = "start", x.tid # y.tid, Dependent(x, y)
  PROVE  ~Coenabled(x, y)
<1>1. "start" \notin DependentOps(x.type)
  BY DEF DependentOps, MutexInitDependsOn, LockDependsOn, EnqueueDependsOn, WaitDependsOn,
         PostDependsOn, WriteDependsOn, ReadDependsOn, ReaderEnqueueDependsOn,
         ReaderLockDependsOn, RWWReaderLockDependsOn, MutexOps, GlobalOps, BarrierOps,
         RWOps, RWWOps
<1>2. DependentOps(y.type) = {}
  BY DEF DependentOps, BarrierOps, RWOps, RWWOps
<1>3. ~CondDependentWith(x, y) /\ ~CondDependentWith(y, x) /\ ~NamesThreadOf(y, x)
  BY DEF CondDependentWith, CondOps, MutexOps, NamesThreadOf
<1>4. NamesThreadOf(x, y)
  BY <1>1, <1>2, <1>3 DEF Dependent, DependentWith
<1> QED BY <1>4 DEF Coenabled, CoenabledWith

\* The clock of a thread tells what happens before its last transition, which is all
\* that happens before any of them.
LEMMA ClocksExactNow ==
  ASSUME IInv, TraceInv, ClocksKept, Newcomers, ClocksRecent, NEW hb, hb = HappensBefore,
         NEW i \in 1..Len(tstack), NEW t \in DOMAIN next,
         Dependent(tstack[i], NextLive(t)), Coenabled(tstack[i], NextLive(t))
  PROVE  HappensBeforeThread(i, t) <=> \E k \in Of(t, 1..Len(tstack)) : i \in hb[k]
<1> DEFINE n == Len(tstack)
           O == Of(t, 1..n)
<1>1. /\ n \in Nat /\ IsStack(tstack) /\ IsOrder(tstack, n, hb) /\ t \in Threads
  BY Stack, HappensOneByOne DEF IInv, StacksMatch, ThreadsKnown
<1>2. NextLive(t).tid = t /\ NextLive(t).type = next[t].type
  BY DEF NextLive, Live, SeenCond, SeenBarrier, IInv, ThreadsKnown
<1>3. tstack[i].tid # t
  BY <1>2 DEF Coenabled
<1>4. O = {k \in 1..n : tstack[k].tid = t}
  BY DEF Of
<1>5. O # {}
  <2> SUFFICES ASSUME O = {} PROVE FALSE
    OBVIOUS
  <2>1. next[t].type = "start"
    BY <1>4 DEF Newcomers
  <2> QED BY <1>2, <1>3, <2>1, StartsOrdered
<1>6. PICK m : m = Max(O)
  OBVIOUS
<1>7. m \in O /\ \A k \in O : k <= m
  <2>1. O \in SUBSET (0..n)
    BY <1>1, <1>4
  <2> HIDE DEF O, n
  <2> QED BY <1>1, <1>5, <1>6, <2>1, GreatestOf
<1>8. m \in 1..n /\ tstack[m].tid = t /\ i # m
  BY <1>3, <1>4, <1>7
<1>9. clock[t] = sstack[m + 1].clock
  <2>1. ASSUME NEW k \in (m + 1)..n PROVE tstack[k].tid # t
    <3>1. k \in 1..n /\ ~(k <= m)
      BY <1>1, <1>8
    <3> QED BY <1>4, <1>7, <3>1
  <2> QED BY <1>8, <2>1 DEF ClocksRecent, Recent
<1>10. HappensBeforeThread(i, t) <=> i <= sstack[m + 1].clock[tstack[i].tid]
  BY <1>9 DEF HappensBeforeThread
<1>11. CASE i < m
  <2>1. HappensBeforeThread(i, t) <=> i \in hb[m]
    <3>1. i <= m
      BY <1>8, <1>11
    <3> QED BY <1>8, <1>10, <3>1, OrderDecided
  <2>2. ASSUME NEW k \in O, i \in hb[k] PROVE i \in hb[m]
    <3>1. k \in 1..n /\ k <= m /\ tstack[k].tid = t
      BY <1>4, <1>7
    <3>2. CASE k = m
      BY <2>2, <3>2
    <3>3. CASE k # m
      <4>1. k \in 1..(m - 1)
        BY <1>8, <3>1, <3>3
      <4>2. Dependent(tstack[k], tstack[m])
        BY <1>8, <3>1 DEF Dependent
      <4>3. k \in Feeds(tstack, m)
        BY <4>1, <4>2 DEF Feeds
      <4>4. hb[m] = {m} \cup UNION {hb[j] : j \in Feeds(tstack, m)}
        BY <1>1, <1>8 DEF IsOrder
      <4> QED BY <2>2, <4>3, <4>4
    <3> QED BY <3>2, <3>3
  <2> QED BY <1>7, <2>1, <2>2
<1>12. CASE i > m
  <2>1. ~(i <= sstack[m + 1].clock[tstack[i].tid])
    <3>1. tstack[i].tid \in Threads
      BY Operated DEF TraceInv, Traced
    <3>2. KnowsOf(tstack, hb, Clocks, m, tstack[i].tid)
      <4>1. PICK q : q = tstack
        OBVIOUS
      <4>2. PICK C : C = Clocks
        OBVIOUS
      <4>3. PICK l \in Nat : l = n
        BY <1>1
      <4>4. IsOrder(q, l, hb) /\ ClocksFollow(q, l, C) /\ m \in 1..l
        BY <1>1, <1>8, <4>1, <4>2, <4>3 DEF ClocksKept
      <4>5. \A u \in Threads : KnowsOf(q, hb, C, m, u)
        BY ONLY <4>4, ClocksKnow
      <4> QED BY <3>1, <4>1, <4>2, <4>5
    <3>3. Clocks[m] = sstack[m + 1].clock
      BY <1>8 DEF Clocks
    <3>4. sstack[m + 1].clock[tstack[i].tid] \in 1..m
      BY <3>2, <3>3 DEF KnowsOf
    <3> QED BY <1>8, <1>12, <3>4
  <2>2. ASSUME NEW k \in O PROVE i \notin hb[k]
    <3>1. k \in 1..n /\ k <= m
      BY <1>4, <1>7
    <3>2. hb[k] \subseteq 1..k
      <4>1. PICK q : q = tstack
        OBVIOUS
      <4>2. PICK l \in Nat : l = n
        BY <1>1
      <4>3. IsOrder(q, l, hb) /\ k \in 1..l
        BY <1>1, <3>1, <4>1, <4>2
      <4> QED BY ONLY <4>3, OrderWithin
    <3>3. i \notin 1..k
      BY <1>8, <1>12, <3>1
    <3> QED BY <3>2, <3>3
  <2> QED BY <1>10, <2>1, <2>2
<1> QED BY <1>8, <1>11, <1>12

\* Clock vectors decide exactly what happens before what, between transitions of the
\* stack and for the threads that conflict with them, as long as no branch undoes the
\* transitions it drops: Revert leaves a thread the clock of a transition that is gone.
THEOREM ClocksAreExact == Spec /\ [][~Undoes]_vars => []ClocksExact
<1>1. IInv /\ TraceInv /\ ClocksKept /\ StillNewcomers /\ ClocksRecent => ClocksExact
  <2> SUFFICES ASSUME IInv, TraceInv, ClocksKept, StillNewcomers, ClocksRecent PROVE ClocksExact
    OBVIOUS
  <2>1. DOMAIN tstack = 1..Len(tstack) /\ Len(tstack) \in Nat
    BY Stack DEF IInv, StacksMatch
  <2>2. Newcomers
    BY NewcomersKnown DEF StillNewcomers
  <2>3. PICK hb : hb = HappensBefore
    OBVIOUS
  <2>4. ASSUME NEW i \in 1..Len(tstack), NEW j \in 1..Len(tstack), i < j
        PROVE  i \in hb[j] <=> i <= sstack[j + 1].clock[tstack[i].tid]
    <3>1. i <= j
      BY <2>4
    <3> QED BY <2>3, <3>1, OrderDecided
  <2>5. ASSUME NEW i \in 1..Len(tstack), NEW t \in DOMAIN next,
               Dependent(tstack[i], NextLive(t)), Coenabled(tstack[i], NextLive(t))
        PROVE  HappensBeforeThread(i, t) <=> \E k \in Of(t, 1..Len(tstack)) : i \in hb[k]
    BY <2>2, <2>3, <2>5, ClocksExactNow
  <2> QED BY <2>1, <2>3, <2>4, <2>5 DEF ClocksExact
<1>2. Init => StillNewcomers
  BY DEF Init, StillNewcomers
<1> QED BY <1>1, <1>2, TraceHolds, ClocksInit, ClocksNext, NewcomersNext, RecentInit,
           RecentNext, PTL DEF Spec

-----------------------------------------------------------------------------
(* The queue of a semaphore, from which a thread takes itself out.         *)

\* The places of a thread in a queue.
Places(queue, t) == {i \in 1..Len(queue) : queue[i] = t}

LEMMA WithoutFirst ==
  ASSUME NEW queue, NEW t
  PROVE  Without(queue, t) = IF Places(queue, t) = {} THEN queue
                             ELSE RemoveAt(queue, Min(Places(queue, t)))
<1>1. Places(queue, t) # {} <=> \E i \in 1..Len(queue) : queue[i] = t
  BY DEF Places
<1>2. Places(queue, t) # {} => SelectInSeq(queue, LAMBDA u : u = t) = Min(Places(queue, t))
  BY DEF SelectInSeq, Places
<1> QED BY <1>1, <1>2 DEF Without, RemoveFirst

\* What is left when the element at place k is taken out of a sequence.
LEMMA TakenOut ==
  ASSUME NEW queue \in Seq(Threads), NEW k \in 1..Len(queue)
  PROVE  /\ RemoveAt(queue, k) \in Seq(Threads) /\ Len(RemoveAt(queue, k)) = Len(queue) - 1
         /\ \A i \in 1..(Len(queue) - 1) :
                RemoveAt(queue, k)[i] = IF i < k THEN queue[i] ELSE queue[i + 1]
<1> DEFINE n == Len(queue)  a == SubSeq(queue, 1, k - 1)  b == SubSeq(queue, k + 1, n)
<1>0. n \in Nat /\ \A i \in 1..n : queue[i] \in Threads
  BY LenProperties, ElementOfSeq
<1>1. /\ a \in Seq(Threads) /\ Len(a) = k - 1
      /\ \A i \in 1..(k - 1) : a[i] = queue[i]
  <2>1. \A i \in 1..(k - 1) : queue[i] \in Threads
    BY <1>0
  <2>2. /\ SubSeq(queue, 1, k - 1) \in Seq(Threads)
        /\ Len(SubSeq(queue, 1, k - 1)) = IF 1 <= k - 1 THEN (k - 1) - 1 + 1 ELSE 0
        /\ \A i \in 1..((k - 1) - 1 + 1) : SubSeq(queue, 1, k - 1)[i] = queue[1 + i - 1]
    BY <1>0, <2>1, SubSeqProperties
  <2>3. \A i \in 1..(k - 1) : i \in 1..((k - 1) - 1 + 1) /\ 1 + i - 1 = i
    BY <1>0
  <2> QED BY <1>0, <2>2, <2>3
<1>2. /\ b \in Seq(Threads) /\ Len(b) = n - k
      /\ \A i \in 1..(n - k) : b[i] = queue[k + i]
  <2>1. \A i \in (k + 1)..n : queue[i] \in Threads
    BY <1>0
  <2>2. /\ SubSeq(queue, k + 1, n) \in Seq(Threads)
        /\ Len(SubSeq(queue, k + 1, n)) = IF k + 1 <= n THEN n - (k + 1) + 1 ELSE 0
        /\ \A i \in 1..(n - (k + 1) + 1) : SubSeq(queue, k + 1, n)[i] = queue[(k + 1) + i - 1]
    BY <1>0, <2>1, SubSeqProperties
  <2>3. \A i \in 1..(n - k) : i \in 1..(n - (k + 1) + 1) /\ (k + 1) + i - 1 = k + i
    BY <1>0
  <2> QED BY <1>0, <2>2, <2>3
<1>3. RemoveAt(queue, k) = a \o b
  BY DEF RemoveAt
<1> HIDE DEF n, a, b
<1>4. /\ a \o b \in Seq(Threads) /\ Len(a \o b) = Len(a) + Len(b)
      /\ \A i \in 1..(Len(a) + Len(b)) : (a \o b)[i] = IF i <= Len(a) THEN a[i] ELSE b[i - Len(a)]
  BY <1>1, <1>2, ConcatProperties
<1>5. Len(a) + Len(b) = n - 1
  BY <1>0, <1>1, <1>2 DEF n
<1>6. ASSUME NEW i \in 1..(n - 1)
      PROVE  (a \o b)[i] = IF i < k THEN queue[i] ELSE queue[i + 1]
  <2>1. CASE i < k
    <3>1. i \in 1..(k - 1) /\ i <= Len(a)
      BY <1>1, <2>1
    <3> QED BY <1>1, <1>4, <1>5, <2>1, <3>1
  <2>2. CASE ~(i < k)
    <3>1. ~(i <= Len(a)) /\ i - Len(a) \in 1..(n - k) /\ k + (i - Len(a)) = i + 1
      BY <1>0, <1>1, <2>2 DEF n
    <3> QED BY <1>2, <1>4, <1>5, <2>2, <3>1
  <2> QED BY <2>1, <2>2
<1> QED BY <1>3, <1>4, <1>5, <1>6 DEF n

\* A thread that leaves a queue leaves the others in it.
LEMMA WithoutKeeps ==
  ASSUME NEW queue \in Seq(Threads), NEW t
  PROVE  /\ Without(queue, t) \in Seq(Threads)
         /\ \A i \in 1..Len(queue) : queue[i] # t =>
                \E j \in 1..Len(Without(queue, t)) : Without(queue, t)[j] = queue[i]
<1>1. CASE Places(queue, t) = {}
  BY <1>1, WithoutFirst
<1>2. CASE Places(queue, t) # {}
  <2>1. PICK k : k = Min(Places(queue, t))
    OBVIOUS
  <2>2. k \in 1..Len(queue) /\ queue[k] = t
    <3>1. Places(queue, t) \in SUBSET Nat
      BY LenProperties DEF Places
    <3>2. k \in Places(queue, t)
      BY <1>2, <2>1, <3>1, MinIsElement
    <3> QED BY <3>2 DEF Places
  <2>3. Without(queue, t) = RemoveAt(queue, k)
    BY <1>2, <2>1, WithoutFirst
  <2>4. ASSUME NEW i \in 1..Len(queue), queue[i] # t
        PROVE  \E j \in 1..Len(RemoveAt(queue, k)) : RemoveAt(queue, k)[j] = queue[i]
    <3>0. Len(queue) \in Nat /\ i # k
      BY <2>2, <2>4, LenProperties
    <3>1. CASE i < k
      <4>1. i \in 1..(Len(queue) - 1)
        BY <2>2, <3>0, <3>1
      <4> QED BY <2>2, <3>1, <4>1, TakenOut
    <3>2. CASE k < i
      <4>1. i - 1 \in 1..(Len(queue) - 1) /\ ~(i - 1 < k) /\ (i - 1) + 1 = i
        BY <2>2, <3>0, <3>2
      <4> QED BY <2>2, <4>1, TakenOut
    <3> QED BY <2>2, <3>0, <3>1, <3>2
  <2> QED BY <2>2, <2>3, <2>4, TakenOut
<1> QED BY <1>1, <1>2

\* One thread may enter a queue before or after another leaves it.
LEMMA WithoutOther ==
  ASSUME NEW queue \in Seq(Threads), NEW t \in Threads, NEW u, t # u
  PROVE  Without(Append(queue, t), u) = Append(Without(queue, u), t)
<1> DEFINE n == Len(queue)  longer == Append(queue, t)
<1>0. n \in Nat
  BY LenProperties
<1>1. /\ longer \in Seq(Threads) /\ Len(longer) = n + 1 /\ longer[n + 1] = t
      /\ \A i \in 1..n : longer[i] = queue[i]
  BY AppendProperties
<1>2. Places(longer, u) = Places(queue, u)
  <2>1. \A i : i \in 1..(n + 1) <=> i \in 1..n \/ i = n + 1
    BY <1>0
  <2> HIDE DEF longer
  <2> QED BY <1>0, <1>1, <2>1 DEF Places
<1>3. CASE Places(queue, u) = {}
  BY <1>2, <1>3, WithoutFirst
<1>4. CASE Places(queue, u) # {}
  <2>1. PICK k : k = Min(Places(queue, u))
    OBVIOUS
  <2>2. k \in 1..n
    <3>1. Places(queue, u) \in SUBSET Nat
      BY <1>0 DEF Places
    <3> QED BY <1>4, <2>1, <3>1, MinIsElement DEF Places
  <2> DEFINE long == RemoveAt(longer, k)  short == RemoveAt(queue, k)
  <2>3. Without(longer, u) = long /\ Without(queue, u) = short
    BY <1>2, <1>4, <2>1, WithoutFirst
  <2>4. k \in 1..Len(longer) /\ Len(longer) - 1 = n
    BY <1>0, <1>1, <2>2
  <2> HIDE DEF longer
  <2>5. /\ long \in Seq(Threads) /\ Len(long) = n
        /\ \A i \in 1..n : long[i] = IF i < k THEN longer[i] ELSE longer[i + 1]
    BY <1>1, <2>4, TakenOut
  <2>6. /\ short \in Seq(Threads) /\ Len(short) = n - 1
        /\ \A i \in 1..(n - 1) : short[i] = IF i < k THEN queue[i] ELSE queue[i + 1]
    BY <2>2, TakenOut
  <2> HIDE DEF long, short
  <2>7. /\ Append(short, t) \in Seq(Threads) /\ Len(Append(short, t)) = (n - 1) + 1
        /\ Append(short, t)[(n - 1) + 1] = t
        /\ \A i \in 1..(n - 1) : Append(short, t)[i] = short[i]
    BY <2>6, AppendProperties
  <2>8. ASSUME NEW i \in 1..n PROVE long[i] = Append(short, t)[i]
    <3>1. CASE i = n
      <4>1. ~(i < k) /\ (n - 1) + 1 = n
        BY <1>0, <2>2, <3>1
      <4> QED BY <1>1, <2>5, <2>7, <3>1, <4>1
    <3>2. CASE i # n
      <4>1. i \in 1..(n - 1) /\ i + 1 \in 1..n
        BY <1>0, <3>2
      <4>2. longer[i] = queue[i] /\ longer[i + 1] = queue[i + 1]
        BY <1>1, <4>1
      <4> QED BY <2>5, <2>6, <2>7, <4>1, <4>2
    <3> QED BY <3>1, <3>2
  <2>9. long = Append(short, t)
    <3>1. Len(long) = Len(Append(short, t)) /\ Len(long) = n
      BY <1>0, <2>5, <2>7
    <3> QED BY <2>5, <2>7, <2>8, <3>1, SeqEqual
  <2> QED BY <2>3, <2>9 DEF longer
<1> QED BY <1>3, <1>4

-----------------------------------------------------------------------------
(* The declarations of independence.                                       *)
(*                                                                         *)
(* Left out are barriers, whose effect is not in the transition.  Of the   *)
(* others three pairs are declared independent and are not: a post enables *)
(* the wait on its semaphore, the first reader in line lets the next one   *)
(* in, and the wait on a condition variable takes a mutex and releases it. *)

\* A transition, as it is posted or as it sees the objects it is on.
Considered(tr) == Operation(tr) \in Transition \ BarrierTransition

\* A thread is created once: the one that a transition about to run creates
\* has not run yet.
CreatesEmbryo(shadow, tr) == tr.type = "create" => shadow.thread[tr.obj] = "embryo"

\* A thread that is about to take a semaphore has entered its queue.
InLine(shadow, tr) ==
    tr.type = "semWait" => Places(shadow.queue[tr.obj], tr.tid) # {}

ReadersOfOneLock(x, y) == /\ x.type \in {"readerLock", "rwwReaderLock"} /\ y.type = x.type
                          /\ x.obj = y.obj

Touches(x, m) == Acquires(x, m) \/ Releases(x, m) \/ Initialises(x, m)

MutexOfWait(x, y) == /\ \/ x.type \in {"condEnqueue", "condWait"}
                        \/ y.type \in {"condEnqueue", "condWait"}
                     /\ \E m \in Mutexes : Touches(x, m) /\ Touches(y, m)

Undeclared(x, y) == PostBeforeWait(x, y) \/ ReadersOfOneLock(x, y) \/ MutexOfWait(x, y)

Unrelated(x, y) == ~Dependent(x, y) /\ ~Undeclared(x, y)

-----------------------------------------------------------------------------
(* The families, and the dispatch, one type at a time.                     *)

AllOps == ThreadOps \cup MutexOps \cup SemOps \cup GlobalOps \cup CondOps \cup RWOps \cup RWWOps

LEMMA Families ==
  ASSUME NEW tr, Considered(tr)
  PROVE  /\ tr.tid \in Threads /\ tr.type \in AllOps
         /\ tr.type \in ThreadOps => tr.obj \in Threads
         /\ tr.type \in MutexOps => tr.obj \in Mutexes
         /\ tr.type \in SemOps => tr.obj \in Sems
         /\ tr.type \in CondOps => tr.obj \in Conds
         /\ tr.type \in RWOps => tr.obj \in RWLocks
         /\ tr.type \in RWWOps => tr.obj \in RWWLocks
<1> DEFINE op == Operation(tr)
<1>1. op.tid = tr.tid /\ op.type = tr.type /\ op.obj = tr.obj
  BY DEF Operation
<1>2. op \in Transition \ BarrierTransition
  BY DEF Considered
<1> HIDE DEF op
<1>3. \/ op.type \in ThreadOps /\ op.tid \in Threads /\ op.obj \in Threads
      \/ op.type \in MutexOps /\ op.tid \in Threads /\ op.obj \in Mutexes
      \/ op.type \in SemOps /\ op.tid \in Threads /\ op.obj \in Sems
      \/ op.type \in GlobalOps /\ op.tid \in Threads
      \/ op.type \in CondOps /\ op.tid \in Threads /\ op.obj \in Conds
      \/ op.type \in RWOps /\ op.tid \in Threads /\ op.obj \in RWLocks
      \/ op.type \in RWWOps /\ op.tid \in Threads /\ op.obj \in RWWLocks
  BY <1>2 DEF Transition, ThreadTransition, MutexTransition, SemTransition, GlobalTransition,
    CondTransition, RWTransition, RWWTransition
<1> QED BY <1>1, <1>3 DEF AllOps, ThreadOps, MutexOps, SemOps, GlobalOps, CondOps, RWOps, RWWOps

LEMMA EnabledByType ==
  ASSUME NEW shadow, NEW tr, Considered(tr)
  PROVE  /\ tr.type = "finish" => (EnabledInState(shadow, tr) <=> FinishEnabled(tr))
         /\ tr.type = "exit"   => ~EnabledInState(shadow, tr)
         /\ tr.type = "join"   => (EnabledInState(shadow, tr) <=> JoinEnabled(shadow, tr))
         /\ tr.type = "lock"   => (EnabledInState(shadow, tr) <=> LockEnabled(shadow, tr))
         /\ tr.type = "semWait"  => (EnabledInState(shadow, tr) <=> SemWaitEnabled(shadow, tr))
         /\ tr.type = "condWait" => (EnabledInState(shadow, tr) <=> CondWaitEnabled(shadow, tr))
         /\ tr.type = "readerLock" =>
                (EnabledInState(shadow, tr) <=> CanAcquireAsReader(shadow.rwlock[tr.obj], tr.tid))
         /\ tr.type = "writerLock" =>
                (EnabledInState(shadow, tr) <=> CanAcquireAsWriter(shadow.rwlock[tr.obj], tr.tid))
         /\ tr.type = "rwwReaderLock" =>
                (EnabledInState(shadow, tr) <=> RWWCanAcquireAsReader(shadow.rwwlock[tr.obj], tr.tid))
         /\ tr.type = "writer1Lock" =>
                (EnabledInState(shadow, tr) <=> CanAcquireAsWriter1(shadow.rwwlock[tr.obj], tr.tid))
         /\ tr.type = "writer2Lock" =>
                (EnabledInState(shadow, tr) <=> CanAcquireAsWriter2(shadow.rwwlock[tr.obj], tr.tid))
         /\ tr.type \notin {"finish", "exit", "join", "lock", "semWait", "condWait", "readerLock",
                            "writerLock", "rwwReaderLock", "writer1Lock", "writer2Lock"} =>
                EnabledInState(shadow, tr)
<1>1. tr.type # "barrierWait"
  BY Families DEF AllOps, ThreadOps, MutexOps, SemOps, GlobalOps, CondOps, RWOps, RWWOps
<1> QED BY <1>1 DEF EnabledInState, ExitEnabled

LEMMA DependenceByType ==
  ASSUME NEW type
  PROVE  /\ type = "mutexInit"  => DependentOps(type) = MutexInitDependsOn
         /\ type = "lock"       => DependentOps(type) = LockDependsOn
         /\ type = "semEnqueue" => DependentOps(type) = EnqueueDependsOn
         /\ type = "semWait"    => DependentOps(type) = WaitDependsOn
         /\ type \in RWOps \ {"readerLock"}     => DependentOps(type) = RWOps
         /\ type \in RWWOps \ {"rwwReaderLock"} => DependentOps(type) = RWWOps
BY DEF DependentOps, RWOps, RWWOps, BarrierOps, ReaderEnqueueDependsOn

-----------------------------------------------------------------------------
(* Two transitions that write the same cell, or of which one reads what    *)
(* the other writes, are declared dependent.                               *)

LEMMA IndependentOnMutexes ==
  ASSUME NEW x, NEW y, Unrelated(x, y), NEW m \in Mutexes, Touches(x, m), Touches(y, m)
  PROVE  x.type = "unlock" /\ y.type = "unlock"
<1>1. /\ x.type \in MutexOps /\ x.obj = m
      /\ y.type \in MutexOps /\ y.obj = m
  BY DEF Unrelated, Undeclared, MutexOfWait, Touches, Acquires, Releases, Initialises, MutexOps
<1> QED BY <1>1, DependenceByType
        DEF Unrelated, Dependent, DependentWith, MutexOps, MutexInitDependsOn, LockDependsOn

LEMMA IndependentOnSems ==
  ASSUME NEW x, NEW y, Unrelated(x, y), x.obj = y.obj
  PROVE  /\ ~(x.type = "semEnqueue" /\ y.type = "semEnqueue")
         /\ ~(x.type = "semWait" /\ y.type = "semWait")
         /\ ~(x.type = "semPost" /\ y.type = "semWait")
BY DependenceByType DEF Unrelated, Undeclared, PostBeforeWait, Dependent, DependentWith,
  EnqueueDependsOn, WaitDependsOn

LEMMA IndependentOnConds ==
  ASSUME NEW x, NEW y, Unrelated(x, y), x.type \in CondOps, y.type \in CondOps
  PROVE  x.obj # y.obj
BY DEF Unrelated, Dependent, DependentWith, CondDependentWith

LEMMA IndependentOnLocks ==
  ASSUME NEW x, NEW y, Unrelated(x, y)
  PROVE  /\ ~(x.type \in RWOps /\ y.type \in RWOps /\ x.obj = y.obj)
         /\ ~(x.type \in RWWOps /\ y.type \in RWWOps /\ x.obj = y.obj)
BY DependenceByType DEF Unrelated, Undeclared, Dependent, DependentWith, ReadersOfOneLock

LEMMA IndependentOnThreads ==
  ASSUME NEW x, NEW y, Unrelated(x, y)
  PROVE  /\ x.tid # y.tid /\ ~WritesThread(x, y.tid)
         /\ y.type = "join" /\ WritesThread(x, y.obj) => x.type = "create"
         /\ x.type = "finish" => ~WritesThread(y, x.tid)
BY DEF Unrelated, Dependent, DependentWith, NamesThreadOf, WritesThread

\* The semaphores hold numbers and queues.
SemsTyped(s) == \A m \in Sems : s.count[m] \in Nat /\ s.queue[m] \in Seq(Threads)

LEMMA SameOutcome ==
  ASSUME NEW s, AreObjects(s), SemsTyped(s), NEW x, NEW y, Considered(x), Considered(y),
         Unrelated(x, y), TransitionEnabled(s, x), TransitionEnabled(s, y)
  PROVE  Apply(Apply(s, x), y) = Apply(Apply(s, y), x)
<1>0. x.tid \in Threads /\ y.tid \in Threads /\ x.tid # y.tid
  BY Families, IndependentOnThreads
<1>1. ThreadAfter(ThreadAfter(s.thread, x), y) = ThreadAfter(ThreadAfter(s.thread, y), x)
  <2>1. ASSUME NEW t \in Threads, WritesThread(x, t), WritesThread(y, t)
        PROVE  x.type # "finish" /\ y.type # "finish"
    BY <2>1, IndependentOnThreads DEF WritesThread
  <2> QED BY <2>1 DEF ThreadAfter
<1>2. MutexesAfter(MutexesAfter(s.mutex, x), y) = MutexesAfter(MutexesAfter(s.mutex, y), x)
  <2>1. ASSUME NEW m \in Mutexes, Touches(x, m), Touches(y, m)
        PROVE  ~Acquires(x, m) /\ ~Acquires(y, m)
    BY <2>1, IndependentOnMutexes DEF Acquires
  <2> QED BY <2>1 DEF MutexesAfter, Touches
<1>3. CountsAfter(CountsAfter(s.count, x), y) = CountsAfter(CountsAfter(s.count, y), x)
  <2>1. ASSUME NEW m \in Sems, x.obj = m, y.obj = m
        PROVE  CountsAfter(CountsAfter(s.count, x), y)[m] = CountsAfter(CountsAfter(s.count, y), x)[m]
    <3>1. s.count[m] \in Nat
      BY DEF SemsTyped
    <3>2. x.type = "semWait" => s.count[m] > 0
      BY <2>1, EnabledByType DEF TransitionEnabled, SemWaitEnabled
    <3>3. /\ ~(x.type = "semWait" /\ y.type = "semWait")
          /\ ~(x.type = "semPost" /\ y.type = "semWait")
      BY <2>1, IndependentOnSems
    <3> QED BY <2>1, <3>1, <3>2, <3>3 DEF CountsAfter
  <2>2. ASSUME NEW m \in Sems, ~(x.obj = m /\ y.obj = m)
        PROVE  CountsAfter(CountsAfter(s.count, x), y)[m] = CountsAfter(CountsAfter(s.count, y), x)[m]
    BY <2>2 DEF CountsAfter
  <2>3. \A c, z : CountsAfter(c, z) = [m \in Sems |-> CountsAfter(c, z)[m]]
    BY DEF CountsAfter
  <2> QED BY <2>1, <2>2, <2>3
<1>4. QueuesAfter(QueuesAfter(s.queue, x), y) = QueuesAfter(QueuesAfter(s.queue, y), x)
  <2>1. ASSUME NEW m \in Sems, x.obj = m, y.obj = m
        PROVE  QueuesAfter(QueuesAfter(s.queue, x), y)[m] = QueuesAfter(QueuesAfter(s.queue, y), x)[m]
    <3>1. s.queue[m] \in Seq(Threads)
      BY DEF SemsTyped
    <3>2. /\ ~(x.type = "semEnqueue" /\ y.type = "semEnqueue")
          /\ ~(x.type = "semWait" /\ y.type = "semWait")
      BY <2>1, IndependentOnSems
    <3>3. /\ Without(Append(s.queue[m], x.tid), y.tid) = Append(Without(s.queue[m], y.tid), x.tid)
          /\ Without(Append(s.queue[m], y.tid), x.tid) = Append(Without(s.queue[m], x.tid), y.tid)
      BY <1>0, <3>1, WithoutOther
    <3> QED BY <2>1, <3>2, <3>3 DEF QueuesAfter
  <2>2. ASSUME NEW m \in Sems, ~(x.obj = m /\ y.obj = m)
        PROVE  QueuesAfter(QueuesAfter(s.queue, x), y)[m] = QueuesAfter(QueuesAfter(s.queue, y), x)[m]
    BY <2>2 DEF QueuesAfter
  <2>3. \A c, z : QueuesAfter(c, z) = [m \in Sems |-> QueuesAfter(c, z)[m]]
    BY DEF QueuesAfter
  <2> QED BY <2>1, <2>2, <2>3
<1>5. CondsAfter(CondsAfter(s.cond, x), y) = CondsAfter(CondsAfter(s.cond, y), x)
  <2>1. \A cond, z : z.type \notin CondOps => CondAfter(cond, z) = cond
    BY DEF CondAfter, CondOps
  <2>2. ~(x.type \in CondOps /\ y.type \in CondOps /\ x.obj = y.obj)
    BY IndependentOnConds
  <2> QED BY <2>1, <2>2 DEF CondsAfter
<1>6. RWAfter(RWAfter(s.rwlock, x), y) = RWAfter(RWAfter(s.rwlock, y), x)
  BY IndependentOnLocks DEF RWAfter
<1>7. RWWAfter(RWWAfter(s.rwwlock, x), y) = RWWAfter(RWWAfter(s.rwwlock, y), x)
  BY IndependentOnLocks DEF RWWAfter
<1>8. PICK a, b : a = Apply(s, x) /\ b = Apply(s, y)
  OBVIOUS
<1>9. a = WholeAfter(s, x) /\ b = WholeAfter(s, y) /\ AreObjects(a) /\ AreObjects(b)
  BY <1>8, ApplyFields, ApplyKeeps
<1>10. Apply(a, y) = WholeAfter(a, y) /\ Apply(b, x) = WholeAfter(b, x)
  BY <1>9, ApplyFields
<1>11. /\ a.thread = ThreadAfter(s.thread, x) /\ a.mutex = MutexesAfter(s.mutex, x)
       /\ a.count = CountsAfter(s.count, x) /\ a.queue = QueuesAfter(s.queue, x)
       /\ a.cond = CondsAfter(s.cond, x) /\ a.barrier = s.barrier
       /\ a.rwlock = RWAfter(s.rwlock, x) /\ a.rwwlock = RWWAfter(s.rwwlock, x)
  BY <1>9, WholeFields
<1>12. /\ b.thread = ThreadAfter(s.thread, y) /\ b.mutex = MutexesAfter(s.mutex, y)
       /\ b.count = CountsAfter(s.count, y) /\ b.queue = QueuesAfter(s.queue, y)
       /\ b.cond = CondsAfter(s.cond, y) /\ b.barrier = s.barrier
       /\ b.rwlock = RWAfter(s.rwlock, y) /\ b.rwwlock = RWWAfter(s.rwwlock, y)
  BY <1>9, WholeFields
<1>13. WholeAfter(a, y) = WholeAfter(b, x)
  BY <1>1, <1>2, <1>3, <1>4, <1>5, <1>6, <1>7, <1>11, <1>12, Zenon DEF WholeAfter
<1> QED BY <1>8, <1>10, <1>13

LEMMA EnablednessKept ==
  ASSUME NEW s, AreObjects(s), SemsTyped(s), NEW x, NEW y, Considered(x), Considered(y),
         Unrelated(x, y), TransitionEnabled(s, x), CreatesEmbryo(s, x), InLine(s, y)
  PROVE  TransitionEnabled(s, y) <=> TransitionEnabled(Apply(s, x), y)
<1>0. PICK r : r = Apply(s, x)
  OBVIOUS
<1>1. r = WholeAfter(s, x)
  BY <1>0, ApplyFields
<1>2. /\ r.thread = ThreadAfter(s.thread, x) /\ r.mutex = MutexesAfter(s.mutex, x)
      /\ r.count = CountsAfter(s.count, x) /\ r.queue = QueuesAfter(s.queue, x)
      /\ r.cond = CondsAfter(s.cond, x)
      /\ r.rwlock = RWAfter(s.rwlock, x) /\ r.rwwlock = RWWAfter(s.rwwlock, x)
  BY <1>1, WholeFields
<1>3. IsAlive(s, y.tid) <=> IsAlive(r, y.tid)
  BY <1>2, Families, IndependentOnThreads DEF IsAlive, ThreadAfter
<1>4. ASSUME y.type = "join"
      PROVE  JoinEnabled(s, y) <=> JoinEnabled(r, y)
  <2>1. y.obj \in Threads
    BY <1>4, Families DEF ThreadOps
  <2>2. r.thread[y.obj] = IF WritesThread(x, y.obj)
                          THEN IF x.type = "finish" THEN "dead" ELSE "alive"
                          ELSE s.thread[y.obj]
    BY <1>2, <2>1 DEF ThreadAfter
  <2>3. WritesThread(x, y.obj) => s.thread[y.obj] = "embryo" /\ x.type = "create"
    BY <1>4, IndependentOnThreads DEF WritesThread, CreatesEmbryo
  <2> QED BY <2>2, <2>3 DEF JoinEnabled, IsDead
<1>5. ASSUME NEW m \in Mutexes, Acquires(y, m)
      PROVE  IsUnlocked(s, m) <=> IsUnlocked(r, m)
  <2>1. ~Touches(x, m)
    <3>1. Touches(y, m) /\ y.type # "unlock"
      BY <1>5 DEF Touches, Acquires
    <3> QED BY <3>1, IndependentOnMutexes
  <2> QED BY <1>2, <2>1 DEF MutexesAfter, Touches, IsUnlocked
<1>6. ASSUME y.type = "lock"
      PROVE  LockEnabled(s, y) <=> LockEnabled(r, y)
  <2>1. y.obj \in Mutexes /\ Acquires(y, y.obj)
    BY <1>6, Families DEF MutexOps, Acquires
  <2> QED BY <1>5, <2>1 DEF LockEnabled
<1>7. ASSUME y.type = "semWait"
      PROVE  SemWaitEnabled(s, y) <=> SemWaitEnabled(r, y)
  <2>1. PICK m \in Sems : m = y.obj
    BY <1>7, Families DEF SemOps
  <2>2. s.count[m] \in Nat /\ s.queue[m] \in Seq(Threads)
    BY DEF SemsTyped
  <2>3. CASE x.obj # m \/ x.type # "semEnqueue"
    <3>1. x.obj = m => x.type # "semWait" /\ x.type # "semPost"
      BY <1>7, <2>1, IndependentOnSems
    <3>2. r.count[m] = s.count[m] /\ r.queue[m] = s.queue[m]
      BY <1>2, <2>3, <3>1 DEF CountsAfter, QueuesAfter
    <3> QED BY <2>1, <3>2 DEF SemWaitEnabled
  <2>4. CASE x.obj = m /\ x.type = "semEnqueue"
    <3>1. r.count[m] = s.count[m] /\ r.queue[m] = Append(s.queue[m], x.tid)
      BY <1>2, <2>4 DEF CountsAfter, QueuesAfter
    <3>2. s.queue[m] # <<>>
      BY <1>7, <2>1 DEF InLine, Places
    <3>3. Head(Append(s.queue[m], x.tid)) = Head(s.queue[m]) /\ Append(s.queue[m], x.tid) # <<>>
      BY <2>2, <3>2, HeadTailAppend, Families, AppendProperties
    <3> QED BY <2>1, <3>1, <3>2, <3>3 DEF SemWaitEnabled, FirstInQueue
  <2> QED BY <2>3, <2>4
<1>8. ASSUME y.type = "condWait"
      PROVE  CondWaitEnabled(s, y) <=> CondWaitEnabled(r, y)
  <2>1. PICK c \in Conds : c = y.obj
    BY <1>8, Families DEF CondOps
  <2>2. x.type \in CondOps => x.obj # c
    BY <1>8, <2>1, IndependentOnConds DEF CondOps
  <2>3. r.cond[c] = s.cond[c]
    BY <1>2, <2>2 DEF CondsAfter, CondAfter, CondOps
  <2>4. CondMutex[c] \in Mutexes /\ Acquires(y, CondMutex[c])
    BY <1>8, <2>1, CondMutexAssumption DEF Acquires
  <2> QED BY <1>5, <2>1, <2>3, <2>4 DEF CondWaitEnabled
<1>9. y.type \in RWOps => r.rwlock[y.obj] = s.rwlock[y.obj]
  BY <1>2, Families, IndependentOnLocks DEF RWAfter
<1>10. y.type \in RWWOps => r.rwwlock[y.obj] = s.rwwlock[y.obj]
  BY <1>2, Families, IndependentOnLocks DEF RWWAfter
<1>11. EnabledInState(s, y) <=> EnabledInState(r, y)
  <2>1. CASE y.type \in {"finish", "exit", "join", "lock", "semWait", "condWait"}
    BY <2>1, <1>4, <1>6, <1>7, <1>8, EnabledByType
  <2>2. CASE y.type \in {"readerLock", "writerLock"}
    <3>1. r.rwlock[y.obj] = s.rwlock[y.obj]
      BY <1>9, <2>2 DEF RWOps
    <3> QED BY <2>2, <3>1, EnabledByType
  <2>3. CASE y.type \in {"rwwReaderLock", "writer1Lock", "writer2Lock"}
    <3>1. r.rwwlock[y.obj] = s.rwwlock[y.obj]
      BY <1>10, <2>3 DEF RWWOps
    <3> QED BY <2>3, <3>1, EnabledByType
  <2>4. CASE y.type \notin {"finish", "exit", "join", "lock", "semWait", "condWait", "readerLock",
                            "writerLock", "rwwReaderLock", "writer1Lock", "writer2Lock"}
    BY <2>4, EnabledByType
  <2> QED BY <2>1, <2>2, <2>3, <2>4
<1> QED BY <1>0, <1>3, <1>11 DEF TransitionEnabled

LEMMA UnrelatedCommute ==
  ASSUME NEW s, AreObjects(s), SemsTyped(s), NEW x, NEW y, Considered(x), Considered(y),
         Unrelated(x, y), TransitionEnabled(s, x), CreatesEmbryo(s, x), InLine(s, y)
  PROVE  Commute(s, x, y)
BY SameOutcome, EnablednessKept DEF Commute

LEMMA ObjectsTyped ==
  ASSUME NEW shadow \in Objects
  PROVE  AreObjects(shadow) /\ SemsTyped(shadow)
<1>1. HaveFields(shadow)
  BY DEF Objects, HaveFields, Whole, ThreadStates, MutexStates, Counts, Queues, CondStates,
    RWStates, RWWStates
<1>2. \A c \in Conds : IsCond(shadow.cond[c])
  BY DEF Objects, CondStates, IsCond
<1>3. \A l \in RWLocks : IsRWLock(shadow.rwlock[l])
  BY DEF Objects, RWStates, IsRWLock
<1>4. \A l \in RWWLocks : IsRWWLock(shadow.rwwlock[l])
  BY DEF Objects, RWWStates, IsRWWLock
<1>5. SemsTyped(shadow)
  BY DEF Objects, SemsTyped, Counts, Queues
<1> QED BY <1>1, <1>2, <1>3, <1>4, <1>5 DEF AreObjects

-----------------------------------------------------------------------------
(* In every state of the shadow objects, if dependentWith declares two     *)
(* transitions independent (MCTransition.h:345), whether of the same       *)
(* family or of different ones, running the first neither enables nor      *)
(* disables the second, and their order does not matter; but for three     *)
(* pairs: a post before a wait, two readers of one lock, and a wait on a   *)
(* condition variable with anything on its mutex.                          *)
THEOREM IndependentCommute ==
  ASSUME NEW shadow \in Objects, NEW x, NEW y, Considered(x), Considered(y),
         ~Dependent(x, y), ~Undeclared(x, y),
         TransitionEnabled(shadow, x), CreatesEmbryo(shadow, x), InLine(shadow, y)
  PROVE  Commute(shadow, x, y)
BY ObjectsTyped, UnrelatedCommute DEF Unrelated

-----------------------------------------------------------------------------
(* Every state a program can be in.  ReachableStates looks as many steps   *)
(* ahead as the sum of what the threads can do, which is a number by       *)
(* induction on the size of the sets of threads.                           *)

AnyOf(s) == CHOOSE x \in s : TRUE

FewThreads(n) == {s \in SUBSET Threads : Cardinality(s) <= n}

Adds(g, p, S) ==
    g = [s \in S |-> IF s = {} THEN 0 ELSE (Len(p[AnyOf(s)]) + 2) + g[s \ {AnyOf(s)}]]

LEMMA OneFewer ==
  ASSUME NEW n \in Nat, NEW s \in FewThreads(n + 1), s # {}
  PROVE  AnyOf(s) \in Threads /\ s \ {AnyOf(s)} \in FewThreads(n)
<1>1. AnyOf(s) \in s
  BY DEF AnyOf
<1>2. s \in SUBSET Threads /\ Cardinality(s) <= n + 1
  BY DEF FewThreads
<1>3. IsFiniteSet(s)
  BY <1>2, ThreadsFinite, FS_Subset
<1>4. Cardinality(s) \in Nat /\ Cardinality(s \ {AnyOf(s)}) = Cardinality(s) - 1
  BY <1>1, <1>3, FS_CardinalityType, FS_RemoveElement
<1>5. Cardinality(s \ {AnyOf(s)}) <= n
  BY <1>2, <1>4
<1> QED BY <1>1, <1>2, <1>5 DEF FewThreads

LEMMA OnlyEmpty ==
  ASSUME NEW s \in FewThreads(0)
  PROVE  s = {}
<1>1. s \in SUBSET Threads /\ Cardinality(s) <= 0
  BY DEF FewThreads
<1>2. IsFiniteSet(s)
  BY <1>1, ThreadsFinite, FS_Subset
<1>3. Cardinality(s) \in Nat
  BY <1>2, FS_CardinalityType
<1>4. Cardinality(s) = 0
  BY <1>1, <1>3
<1> QED BY <1>2, <1>4, FS_EmptySet

LEMMA FewIsMore ==
  ASSUME NEW n \in Nat, NEW s \in FewThreads(n)
  PROVE  s \in FewThreads(n + 1)
<1>1. s \in SUBSET Threads /\ Cardinality(s) <= n
  BY DEF FewThreads
<1>2. Cardinality(s) \in Nat
  BY <1>1, ThreadsFinite, FS_Subset, FS_CardinalityType
<1>3. Cardinality(s) <= n + 1
  BY <1>1, <1>2
<1> QED BY <1>1, <1>3 DEF FewThreads

LEMMA AddsExists ==
  ASSUME NEW p
  PROVE  \A n \in Nat : \E g : Adds(g, p, FewThreads(n))
<1> DEFINE S == {n \in Nat : \E g : Adds(g, p, FewThreads(n))}
<1>1. 0 \in S
  <2> DEFINE g == [s \in FewThreads(0) |-> 0]
  <2>1. Adds(g, p, FewThreads(0))
    BY OnlyEmpty DEF Adds
  <2> QED BY <2>1
<1>2. ASSUME NEW n \in Nat, n \in S PROVE n + 1 \in S
  <2>1. PICK g : Adds(g, p, FewThreads(n))
    BY <1>2
  <2> DEFINE h == [s \in FewThreads(n + 1) |->
                     IF s = {} THEN 0 ELSE (Len(p[AnyOf(s)]) + 2) + g[s \ {AnyOf(s)}]]
  <2>2. ASSUME NEW s \in FewThreads(n) PROVE h[s] = g[s]
    <3>1. s \in FewThreads(n + 1)
      BY FewIsMore
    <3>2. h[s] = IF s = {} THEN 0 ELSE (Len(p[AnyOf(s)]) + 2) + g[s \ {AnyOf(s)}]
      BY <3>1
    <3>3. g[s] = IF s = {} THEN 0 ELSE (Len(p[AnyOf(s)]) + 2) + g[s \ {AnyOf(s)}]
      BY <2>1, Zenon DEF Adds
    <3> QED BY <3>2, <3>3
  <2>3. ASSUME NEW s \in FewThreads(n + 1), s # {}
        PROVE  h[s] = (Len(p[AnyOf(s)]) + 2) + h[s \ {AnyOf(s)}]
    <3>1. h[s \ {AnyOf(s)}] = g[s \ {AnyOf(s)}]
      BY <2>2, <2>3, OneFewer
    <3> HIDE DEF AnyOf
    <3>2. h[s] = (Len(p[AnyOf(s)]) + 2) + g[s \ {AnyOf(s)}]
      BY <2>3
    <3> QED BY <3>1, <3>2
  <2>4. \A s \in FewThreads(n + 1) : s = {} => h[s] = 0
    OBVIOUS
  <2>5. h = [s \in FewThreads(n + 1) |-> h[s]]
    OBVIOUS
  <2> HIDE DEF h
  <2>6. Adds(h, p, FewThreads(n + 1))
    BY <2>3, <2>4, <2>5 DEF Adds
  <2> QED BY <2>6
<1> HIDE DEF S
<1>3. \A n \in Nat : n \in S
  BY <1>1, <1>2, NatSetInduction
<1> QED BY <1>3 DEF S

LEMMA AddsNumbers ==
  ASSUME NEW p \in Programs, NEW S, NEW g, Adds(g, p, S), SUBSET Threads \subseteq S
  PROVE  \A n \in Nat : \A s \in FewThreads(n) : g[s] \in Nat
<1> DEFINE N == {n \in Nat : \A s \in FewThreads(n) : g[s] \in Nat}
<1>0. \A n : FewThreads(n) \subseteq S
  BY DEF FewThreads
<1>1. 0 \in N
  BY <1>0, OnlyEmpty DEF Adds
<1>2. ASSUME NEW n \in Nat, n \in N PROVE n + 1 \in N
  <2> SUFFICES ASSUME NEW s \in FewThreads(n + 1) PROVE g[s] \in Nat
    OBVIOUS
  <2>1. CASE s = {}
    BY <1>0, <2>1 DEF Adds
  <2>2. CASE s # {}
    <3>1. AnyOf(s) \in Threads /\ g[s \ {AnyOf(s)}] \in Nat
      BY <1>2, <2>2, OneFewer
    <3>2. Len(p[AnyOf(s)]) \in Nat
      BY <3>1, ProgramsAssumption
    <3>3. g[s] = (Len(p[AnyOf(s)]) + 2) + g[s \ {AnyOf(s)}]
      BY <1>0, <2>2, Zenon DEF Adds
    <3> QED BY <3>1, <3>2, <3>3
  <2> QED BY <2>1, <2>2
<1> HIDE DEF N
<1>3. \A n \in Nat : n \in N
  BY <1>1, <1>2, NatSetInduction
<1> QED BY <1>3 DEF N

LEMMA LongestIsNumber ==
  ASSUME NEW p \in Programs, NEW n, n = MapThenSumSet(LAMBDA t : Len(p[t]) + 2, Threads)
  PROVE  n \in Nat
<1> DEFINE Sums(g) == g = [s \in SUBSET Threads |->
               IF s = {} THEN 0 ELSE (Len(p[CHOOSE x \in s : TRUE]) + 2)
                                     + g[s \ {CHOOSE x \in s : TRUE}]]
           sum == CHOOSE g : Sums(g)
<1>1. n = (CHOOSE g : g = [s \in SUBSET Threads |->
               IF s = {} THEN 0 ELSE (Len(p[CHOOSE x \in s : TRUE]) + 2)
                                     + g[s \ {CHOOSE x \in s : TRUE}]])[Threads]
  BY Zenon DEF MapThenSumSet, MapThenFoldSet
<1>2. n = sum[Threads]
  BY <1>1, Zenon
<1>3. \A g : Sums(g) <=> Adds(g, p, SUBSET Threads)
  BY Zenon DEF Adds, AnyOf
<1>4. PICK size \in Nat : size = Cardinality(Threads)
  BY ThreadsFinite, FS_CardinalityType
<1>5. FewThreads(size) = SUBSET Threads
  <2>1. ASSUME NEW s \in SUBSET Threads PROVE Cardinality(s) <= size
    BY <1>4, ThreadsFinite, FS_Subset
  <2> QED BY <2>1 DEF FewThreads
<1>6. \E g : Sums(g)
  <2>1. \E g : Adds(g, p, FewThreads(size))
    BY <1>4, AddsExists
  <2> HIDE DEF Sums
  <2> QED BY <1>3, <1>5, <2>1
<1> HIDE DEF Sums
<1>7. Sums(sum)
  BY <1>6
<1> HIDE DEF sum
<1>8. Adds(sum, p, SUBSET Threads)
  BY <1>3, <1>7
<1>9. \A s \in FewThreads(size) : sum[s] \in Nat
  BY <1>4, <1>8, AddsNumbers
<1> QED BY <1>2, <1>5, <1>9

\* One step further, as many times as that.
LEMMA ReachedOneByOne ==
  ASSUME NEW p \in Programs
  PROVE  \E n \in Nat : \E h : /\ h[0] = {StartState} /\ ReachableStates[p] = h[n]
                               /\ \A i \in 1..n : h[i] = Extended(p, h[i - 1])
<1>1. PICK n : /\ n = MapThenSumSet(LAMBDA t : Len(p[t]) + 2, Threads)
               /\ ReachableStates[p] =
                      FoldLeft(LAMBDA S, i : Extended(p, S), {StartState}, [i \in 1..n |-> i])
  BY Zenon DEF ReachableStates
<1>2. n \in Nat
  BY <1>1, LongestIsNumber
<1> DEFINE q == [i \in 1..n |-> i]
           Defines(f) == f = [s \in SUBSET (1..n) |->
                                IF s = {} THEN {StartState} ELSE Extended(p, f[s \ {Max(s)}])]
           g == CHOOSE f : Defines(f)
<1>3. /\ q \in Seq(1..n) /\ Len(q) = n /\ DOMAIN q = 1..n
      /\ IsStack(q)
  <2>1. q \in Seq(1..n) /\ Len(q) = n /\ DOMAIN q = 1..n
    BY <1>2
  <2> HIDE DEF q
  <2> QED BY <2>1 DEF IsStack
<1>4. FoldLeft(LAMBDA S, i : Extended(p, S), {StartState}, q) =
        (CHOOSE f : f = [s \in SUBSET DOMAIN q |->
             IF s = {} THEN {StartState} ELSE Extended(p, f[s \ {Max(s)}])])[DOMAIN q]
  BY Zenon DEF FoldLeft, MapThenFoldSet
<1>5. ReachableStates[p] = g[1..n]
  <2> HIDE DEF q
  <2>1. ReachableStates[p] = (CHOOSE f : f = [s \in SUBSET DOMAIN q |->
             IF s = {} THEN {StartState} ELSE Extended(p, f[s \ {Max(s)}])])[DOMAIN q]
    BY <1>1, <1>4, Zenon DEF q
  <2> QED BY <1>3, <2>1, Zenon
<1> HIDE DEF q
<1>6. \A f : Defines(f) <=> LeftFold("grow", p, f, {StartState}, q, n)
  <2>1. \A s, x : Turn("grow", p, s, x) = Extended(p, s)
    BY DEF Turn
  <2> QED BY <2>1 DEF LeftFold
<1>7. \E f : LeftFold("grow", p, f, {StartState}, q, n)
  BY <1>2, LeftFoldExists
<1> HIDE DEF Defines
<1>8. Defines(g)
  BY <1>6, <1>7
<1> HIDE DEF g
<1>9. LeftFold("grow", p, g, {StartState}, q, Len(q))
  BY <1>3, <1>6, <1>8
<1>10. PICK h : Takes("grow", p, {StartState}, q, h) /\ g[1..Len(q)] = h[Len(q)]
  BY <1>3, <1>9, FoldTakes
<1>11. \A i \in 1..n : h[i] = Extended(p, h[i - 1])
  BY <1>3, <1>10 DEF Takes, Turn
<1>12. h[0] = {StartState} /\ g[1..n] = h[n]
  BY <1>3, <1>10 DEF Takes
<1> QED BY <1>2, <1>5, <1>11, <1>12

-----------------------------------------------------------------------------
(* Programs that wait on semaphores by the library's wrapper, which posts  *)
(* the entry into the queue and the wait, and create a thread once.        *)

CreatesOnce(p) ==
    \A t, u \in Threads : \A n \in 0..Len(p[t]), k \in 0..Len(p[u]) :
        LET x == Op(p, t, n)
            y == Op(p, u, k)
        IN x.type = "create" => /\ x.obj # Main
                                /\ y.type = "create" /\ y.obj = x.obj => u = t /\ k = n

QueuesToWait(p) == InHalves(p, <<"semEnqueue", "semWait">>)

LEMMA CreatesOnceOp ==
  ASSUME NEW p \in Programs, CreatesOnce(p), NEW t \in Threads, NEW n \in Nat,
         Op(p, t, n).type = "create"
  PROVE  /\ Op(p, t, n).obj # Main
         /\ \A u \in Threads, k \in Nat :
                Op(p, u, k).type = "create" /\ Op(p, u, k).obj = Op(p, t, n).obj =>
                    u = t /\ k = n
<1>1. \A u \in Threads, k \in Nat : Op(p, u, k).type = "create" => k \in 0..Len(p[u])
  BY PastTheEnd
<1>2. n \in 0..Len(p[t])
  BY <1>1
<1>3. ASSUME NEW u \in Threads, NEW k \in Nat, Op(p, u, k).type = "create",
             Op(p, u, k).obj = Op(p, t, n).obj
      PROVE  u = t /\ k = n
  <2>1. k \in 0..Len(p[u])
    BY <1>1, <1>3
  <2> QED BY <1>2, <1>3, <2>1 DEF CreatesOnce
<1>4. Op(p, t, n).obj # Main
  BY <1>2 DEF CreatesOnce
<1> QED BY <1>3, <1>4

\* A thread that has begun is main, or one that a thread has created.
CreatedBefore(p, s, v) ==
    \E t \in Threads : \E n \in 0..(s.pc[t] - 1) : Op(p, t, n).type = "create" /\ Op(p, t, n).obj = v

Born(p, s) == \A v \in Threads : s.objs.thread[v] # "embryo" => v = Main \/ CreatedBefore(p, s, v)

Lined(p, s) == \A t \in Threads : InLine(s.objs, Op(p, t, s.pc[t]))

WellFormed(s) == /\ s.pc = [t \in Threads |-> s.pc[t]] /\ \A t \in Threads : s.pc[t] \in Nat
                 /\ AreObjects(s.objs) /\ SemsTyped(s.objs)

Reached(p, s) == WellFormed(s) /\ Born(p, s) /\ Lined(p, s)

LEMMA StartReached ==
  ASSUME NEW p
  PROVE  Reached(p, StartState)
<1>1. PICK s : s = StartState /\ s.objs = Fresh
  BY DEF Fresh
<1>2. /\ AreObjects(Fresh) /\ s.pc = [t \in Threads |-> 0]
      /\ Fresh.thread = [t \in Threads |-> IF t = Main THEN "alive" ELSE "embryo"]
  BY <1>1, FreshFields
<1>3. Fresh.count = SemCount /\ Fresh.queue = [m \in Sems |-> <<>>]
  <2>1. InitialObjects = [Fresh EXCEPT !.thread = InitialObjects.thread]
    BY FreshFields
  <2>2. InitialObjects = Whole(InitialObjects.thread, Fresh.mutex, Fresh.count, Fresh.queue,
            Fresh.cond, Fresh.barrier, Fresh.rwlock, Fresh.rwwlock)
    BY <1>2, <2>1, FieldWritten DEF AreObjects
  <2>3. InitialObjects.count = Fresh.count /\ InitialObjects.queue = Fresh.queue
    BY <2>2, WholeRecord
  <2>4. InitialObjects.count = SemCount /\ InitialObjects.queue = [m \in Sems |-> <<>>]
    BY DEF InitialObjects
  <2> QED BY <2>3, <2>4
<1>4. SemsTyped(Fresh)
  BY <1>3, SemCountAssumption DEF SemsTyped
<1>5. WellFormed(s)
  BY <1>1, <1>2, <1>4 DEF WellFormed
<1>6. Born(p, s)
  BY <1>1, <1>2 DEF Born
<1>7. Lined(p, s)
  <2>1. \A t \in Threads : Op(p, t, s.pc[t]).type = "start"
    BY <1>2 DEF Op
  <2> QED BY <2>1 DEF Lined, InLine
<1> QED BY <1>1, <1>5, <1>6, <1>7 DEF Reached

\* A step of thread t, that does x, one field at a time.
Stepped(s, t, x, r) ==
    /\ r.pc = [u \in Threads |-> IF u = t THEN s.pc[t] + 1 ELSE s.pc[u]]
    /\ AreObjects(r.objs)
    /\ r.objs.thread = ThreadAfter(s.objs.thread, x)
    /\ r.objs.count = CountsAfter(s.objs.count, x)
    /\ r.objs.queue = QueuesAfter(s.objs.queue, x)

LEMMA StepFields ==
  ASSUME NEW p, NEW s, WellFormed(s), NEW t \in Threads, NEW r, r = Step(p, s, t),
         NEW x, x = Op(p, t, s.pc[t])
  PROVE  Stepped(s, t, x, r)
<1>1. PICK a : a = Apply(s.objs, x)
  OBVIOUS
<1>2. AreObjects(a) /\ a = WholeAfter(s.objs, x)
  BY <1>1, ApplyKeeps, ApplyFields DEF WellFormed
<1>3. /\ a.thread = ThreadAfter(s.objs.thread, x) /\ a.count = CountsAfter(s.objs.count, x)
      /\ a.queue = QueuesAfter(s.objs.queue, x)
  BY <1>2, WholeFields
<1>4. /\ r.pc = [s.pc EXCEPT ![t] = @ + 1]
      /\ r.objs = WhenRead(a, Op(p, t, s.pc[t] + 1))
  BY <1>1 DEF Step
<1>5. AfterReading(a, Op(p, t, s.pc[t] + 1), r.objs)
  BY <1>2, <1>4, ReadFields
<1>6. r.pc = [u \in Threads |-> IF u = t THEN s.pc[t] + 1 ELSE s.pc[u]]
  BY <1>4 DEF WellFormed
<1> QED BY <1>3, <1>5, <1>6 DEF AfterReading, Stepped

LEMMA StepReached ==
  ASSUME NEW p \in Programs, QueuesToWait(p), NEW s, Reached(p, s), NEW t \in CanStep(p, s)
  PROVE  Reached(p, Step(p, s, t))
<1>1. PICK r, x : r = Step(p, s, t) /\ x = Op(p, t, s.pc[t])
  OBVIOUS
<1>2. /\ t \in Threads /\ WellFormed(s) /\ s.pc[t] \in Nat /\ x.tid = t /\ IsAlive(s.objs, t)
      /\ x \in Transition
  BY <1>1, OpTid, OpTyped DEF CanStep, Reached, WellFormed, TransitionEnabled
<1>3. /\ r.pc = [u \in Threads |-> IF u = t THEN s.pc[t] + 1 ELSE s.pc[u]]
      /\ AreObjects(r.objs)
      /\ r.objs.thread = ThreadAfter(s.objs.thread, x)
      /\ r.objs.count = CountsAfter(s.objs.count, x)
      /\ r.objs.queue = QueuesAfter(s.objs.queue, x)
  <2>1. Stepped(s, t, x, r)
    BY <1>1, <1>2, StepFields
  <2> QED BY <2>1 DEF Stepped
<1>4. SemsTyped(r.objs)
  <2> SUFFICES ASSUME NEW m \in Sems
               PROVE  r.objs.count[m] \in Nat /\ r.objs.queue[m] \in Seq(Threads)
    BY DEF SemsTyped
  <2>1. s.objs.count[m] \in Nat /\ s.objs.queue[m] \in Seq(Threads)
    BY <1>2 DEF WellFormed, SemsTyped
  <2>2. r.objs.count[m] \in Nat
    BY <1>3, <2>1 DEF CountsAfter
  <2>3. r.objs.queue[m] \in Seq(Threads)
    BY <1>2, <1>3, <2>1, AppendProperties, WithoutKeeps DEF QueuesAfter
  <2> QED BY <2>2, <2>3
<1>5. WellFormed(r)
  <2>1. \A u \in Threads : s.pc[u] \in Nat
    BY <1>2 DEF WellFormed
  <2>2. r.pc = [u \in Threads |-> r.pc[u]] /\ \A u \in Threads : r.pc[u] \in Nat
    BY <1>3, <2>1
  <2> QED BY <1>3, <1>4, <2>2 DEF WellFormed
<1>6. Born(p, r)
  <2> SUFFICES ASSUME NEW v \in Threads, r.objs.thread[v] # "embryo", v # Main
               PROVE  CreatedBefore(p, r, v)
    BY DEF Born
  <2>1. CASE s.objs.thread[v] # "embryo"
    <3>1. PICK u \in Threads : \E n \in 0..(s.pc[u] - 1) :
              Op(p, u, n).type = "create" /\ Op(p, u, n).obj = v
      BY <2>1 DEF Reached, Born, CreatedBefore
    <3>2. 0..(s.pc[u] - 1) \subseteq 0..(r.pc[u] - 1)
      BY <1>2, <1>3, <3>1 DEF WellFormed
    <3> QED BY <3>1, <3>2 DEF CreatedBefore
  <2>2. CASE s.objs.thread[v] = "embryo"
    <3>1. WritesThread(x, v)
      BY <1>3, <2>2 DEF ThreadAfter
    <3>2. v # t
      BY <1>2, <2>2 DEF IsAlive
    <3>3. x.type = "create" /\ x.obj = v
      BY <1>2, <3>1, <3>2 DEF WritesThread
    <3>4. s.pc[t] \in 0..(r.pc[t] - 1)
      BY <1>2, <1>3
    <3> QED BY <1>1, <1>2, <3>3, <3>4 DEF CreatedBefore
  <2> QED BY <2>1, <2>2
<1>7. Lined(p, r)
  <2> SUFFICES ASSUME NEW u \in Threads, Op(p, u, r.pc[u]).type = "semWait"
               PROVE  Places(r.objs.queue[Op(p, u, r.pc[u]).obj], u) # {}
    BY OpTid DEF Lined, InLine
  <2>1. PICK y : y = Op(p, u, r.pc[u])
    OBVIOUS
  <2>2. y.obj \in Sems
    <3>1. r.pc[u] \in Nat
      BY <1>5 DEF WellFormed
    <3> QED BY <2>1, <3>1, OpTyped, TypedTransition DEF SemOps
  <2>3. PICK m \in Sems, queue \in Seq(Threads) : m = y.obj /\ queue = s.objs.queue[m]
    BY <1>2, <2>2 DEF WellFormed, SemsTyped
  <2>4. Len(queue) \in Nat
    BY LenProperties
  <2>5. CASE u = t
    <3>1. x.type = "semEnqueue" /\ x.obj = m
      <4>1. y = Op(p, t, s.pc[t] + 1) /\ y.type = "semWait"
        BY <1>3, <2>1, <2>5
      <4>2. Op(p, t, s.pc[t] + 1).type = "semWait" =>
                /\ Op(p, t, s.pc[t]).type = "semEnqueue"
                /\ Op(p, t, s.pc[t]).obj = Op(p, t, s.pc[t] + 1).obj
        BY <1>2, EitherHalf DEF QueuesToWait
      <4> QED BY <1>1, <2>3, <4>1, <4>2
    <3>2. r.objs.queue[m] = Append(queue, t)
      BY <1>2, <1>3, <2>3, <3>1 DEF QueuesAfter
    <3>3. Len(Append(queue, t)) = Len(queue) + 1 /\ Append(queue, t)[Len(queue) + 1] = t
      BY <1>2, AppendProperties
    <3>4. Len(queue) + 1 \in 1..(Len(queue) + 1)
      BY <2>4
    <3> QED BY <2>1, <2>3, <2>5, <3>2, <3>3, <3>4 DEF Places
  <2>6. CASE u # t
    <3>1. y = Op(p, u, s.pc[u]) /\ y.tid = u /\ y.type = "semWait"
      BY <1>3, <2>1, <2>6, OpTid
    <3>2. PICK i \in 1..Len(queue) : queue[i] = u
      BY <2>3, <3>1 DEF Reached, Lined, InLine, Places
    <3>3. \E j \in 1..Len(r.objs.queue[m]) : r.objs.queue[m][j] = u
      <4>1. CASE x.obj # m \/ x.type \notin {"semEnqueue", "semWait"}
        <5>1. r.objs.queue[m] = queue
          BY <1>3, <2>3, <4>1 DEF QueuesAfter
        <5> QED BY <3>2, <5>1
      <4>2. CASE x.obj = m /\ x.type = "semEnqueue"
        <5>1. r.objs.queue[m] = Append(queue, t)
          BY <1>2, <1>3, <2>3, <4>2 DEF QueuesAfter
        <5>2. Len(Append(queue, t)) = Len(queue) + 1 /\ Append(queue, t)[i] = queue[i]
          BY <1>2, AppendProperties
        <5>3. i \in 1..(Len(queue) + 1)
          BY <2>4
        <5> QED BY <3>2, <5>1, <5>2, <5>3
      <4>3. CASE x.obj = m /\ x.type = "semWait"
        <5>1. r.objs.queue[m] = Without(queue, t)
          BY <1>2, <1>3, <2>3, <4>3 DEF QueuesAfter
        <5> QED BY <2>6, <3>2, <5>1, WithoutKeeps
      <4> QED BY <4>1, <4>2, <4>3
    <3> QED BY <2>1, <2>3, <3>3 DEF Places
  <2> QED BY <2>5, <2>6
<1> QED BY <1>1, <1>5, <1>6, <1>7 DEF Reached

LEMMA AllReached ==
  ASSUME NEW p \in Programs, QueuesToWait(p), NEW s \in ReachableStates[p]
  PROVE  Reached(p, s)
<1>0. PICK n \in Nat : \E h : /\ h[0] = {StartState} /\ ReachableStates[p] = h[n]
                              /\ \A i \in 1..n : h[i] = Extended(p, h[i - 1])
  BY ReachedOneByOne
<1>1. PICK h : /\ h[0] = {StartState} /\ ReachableStates[p] = h[n]
               /\ \A i \in 1..n : h[i] = Extended(p, h[i - 1])
  BY <1>0
<1> DEFINE S == {k \in Nat : k <= n => \A z \in h[k] : Reached(p, z)}
<1>2. 0 \in S
  BY <1>1, StartReached
<1>3. ASSUME NEW k \in Nat, k \in S PROVE k + 1 \in S
  <2> SUFFICES ASSUME k + 1 <= n, NEW z \in h[k + 1] PROVE Reached(p, z)
    OBVIOUS
  <2>1. k <= n /\ k + 1 \in 1..n /\ (k + 1) - 1 = k
    OBVIOUS
  <2>2. z \in Extended(p, h[k])
    BY <1>1, <2>1
  <2>3. CASE z \in h[k]
    BY <1>3, <2>1, <2>3
  <2>4. CASE z \notin h[k]
    <3>1. PICK now \in h[k] : \E t \in CanStep(p, now) : z = Step(p, now, t)
      BY <2>2, <2>4 DEF Extended
    <3>2. Reached(p, now)
      BY <1>3, <2>1
    <3> QED BY <3>1, <3>2, StepReached
  <2> QED BY <2>3, <2>4
<1> HIDE DEF S
<1>4. \A k \in Nat : k \in S
  BY <1>2, <1>3, NatSetInduction
<1> QED BY <1>1, <1>4 DEF S

-----------------------------------------------------------------------------
(* Programs of which the declarations speak, and their reachable states.   *)

\* No two threads do what is declared independent and is not; barriers are left out.
DeclaresAll(p) ==
    \A t, u \in Threads : \A n \in 0..Len(p[t]), k \in 0..Len(p[u]) :
        LET x == Op(p, t, n)
            y == Op(p, u, k)
        IN /\ x.type \notin BarrierOps
           /\ t # u => ~ReadersOfOneLock(x, y) /\ ~MutexOfWait(x, y)

LEMMA DeclaredOp ==
  ASSUME NEW p \in Programs, DeclaresAll(p), NEW t \in Threads, NEW u \in Threads,
         NEW n \in Nat, NEW k \in Nat, t # u
  PROVE  LET x == Op(p, t, n)
             y == Op(p, u, k)
         IN x.type \notin BarrierOps /\ ~ReadersOfOneLock(x, y) /\ ~MutexOfWait(x, y)
<1> DEFINE x == Op(p, t, n)
           y == Op(p, u, k)
<1>1. CASE n \in 0..Len(p[t]) /\ k \in 0..Len(p[u])
  BY <1>1 DEF DeclaresAll
<1>2. ASSUME ~(n \in 0..Len(p[t]) /\ k \in 0..Len(p[u]))
      PROVE  x.type = "finish" \/ y.type = "finish"
  BY <1>2, PastTheEnd
<1>3. x.type \notin BarrierOps
  <2>1. CASE n \in 0..Len(p[t])
    <3>1. 0 \in 0..Len(p[u])
      BY ProgramsAssumption
    <3> QED BY <2>1, <3>1 DEF DeclaresAll
  <2>2. CASE n \notin 0..Len(p[t])
    BY <2>2, PastTheEnd DEF BarrierOps
  <2> QED BY <2>1, <2>2
<1>4. ASSUME x.type = "finish" \/ y.type = "finish"
      PROVE  ~ReadersOfOneLock(x, y) /\ ~MutexOfWait(x, y)
  BY <1>4 DEF ReadersOfOneLock, MutexOfWait, Touches, Acquires, Releases, Initialises
<1> HIDE DEF x, y
<1>5. ~ReadersOfOneLock(x, y) /\ ~MutexOfWait(x, y)
  <2>1. CASE n \in 0..Len(p[t]) /\ k \in 0..Len(p[u])
    BY <1>1, <2>1 DEF x, y
  <2>2. CASE ~(n \in 0..Len(p[t]) /\ k \in 0..Len(p[u]))
    BY <1>2, <1>4, <2>2
  <2> QED BY <2>1, <2>2
<1> QED BY <1>3, <1>5 DEF x, y

LEMMA LiveNames ==
  ASSUME NEW os, NEW tr \in Transition
  PROVE  /\ Live(os, tr).tid = tr.tid /\ Live(os, tr).type = tr.type
         /\ Live(os, tr).obj = tr.obj
BY DEF Live, SeenCond, SeenBarrier

\* What a program has to be for its declarations of independence to hold.
WellDeclared(p) == CreatesOnce(p) /\ QueuesToWait(p) /\ DeclaresAll(p)

LEMMA ReachedCommute ==
  ASSUME NEW p \in Programs, WellDeclared(p), NEW s, Reached(p, s), NEW t \in CanStep(p, s),
         NEW u \in Threads, t # u, NEW x, NEW y, x = Live(s.objs, Op(p, t, s.pc[t])),
         y = Live(s.objs, Op(p, u, s.pc[u])), ~Dependent(x, y), ~PostBeforeWait(x, y)
  PROVE  Commute(s.objs, x, y)
<1>1. PICK a, b : a = Op(p, t, s.pc[t]) /\ b = Op(p, u, s.pc[u])
  OBVIOUS
<1>2. /\ s.pc[t] \in Nat /\ s.pc[u] \in Nat /\ t \in Threads /\ AreObjects(s.objs)
      /\ SemsTyped(s.objs) /\ TransitionEnabled(s.objs, a)
  BY <1>1 DEF Reached, WellFormed, CanStep
<1>3. a \in Transition /\ b \in Transition /\ a.tid = t /\ b.tid = u
  BY <1>1, <1>2, OpTid, OpTyped
<1>4. /\ x.tid = a.tid /\ x.type = a.type /\ x.obj = a.obj
      /\ y.tid = b.tid /\ y.type = b.type /\ y.obj = b.obj
  BY <1>1, <1>3, LiveNames
<1>5. /\ a.type \notin BarrierOps /\ b.type \notin BarrierOps
      /\ ~ReadersOfOneLock(a, b) /\ ~MutexOfWait(a, b)
  BY <1>1, <1>2, DeclaredOp DEF WellDeclared
<1>6. Considered(x) /\ Considered(y)
  <2>1. ASSUME NEW z \in Transition, z.type \notin BarrierOps
        PROVE  z \notin BarrierTransition
    BY <2>1 DEF BarrierTransition
  <2>2. Operation(x) = Operation(a) /\ Operation(y) = Operation(b)
    BY <1>4 DEF Operation
  <2>3. Operation(a) = a /\ Operation(b) = b
    BY <1>1 DEF Op, Operation
  <2> QED BY <1>3, <1>5, <2>1, <2>2, <2>3 DEF Considered
<1>7. ~ReadersOfOneLock(x, y) /\ ~MutexOfWait(x, y)
  BY <1>4, <1>5 DEF ReadersOfOneLock, MutexOfWait, Touches, Acquires, Releases, Initialises
<1>8. TransitionEnabled(s.objs, x)
  <2>1. EnabledInState(s.objs, x) <=> EnabledInState(s.objs, a)
    <3>1. Considered(a)
      <4>1. Operation(x) = Operation(a) /\ Operation(a) = a
        BY <1>1, <1>4 DEF Op, Operation
      <4> QED BY <1>6, <4>1 DEF Considered
    <3> QED BY <1>4, <1>6, <3>1, EnabledByType DEF FinishEnabled, JoinEnabled, LockEnabled,
              SemWaitEnabled, CondWaitEnabled
  <2> QED BY <1>2, <1>4, <2>1 DEF TransitionEnabled
<1>9. CreatesEmbryo(s.objs, x)
  <2> SUFFICES ASSUME x.type = "create", s.objs.thread[x.obj] # "embryo" PROVE FALSE
    BY DEF CreatesEmbryo
  <2>1. a.type = "create" /\ a.obj \in Threads /\ a.obj # Main
    BY <1>1, <1>2, <1>4, NamedThread, CreatesOnceOp DEF WellDeclared
  <2>2. PICK v \in Threads : \E n \in 0..(s.pc[v] - 1) :
            Op(p, v, n).type = "create" /\ Op(p, v, n).obj = a.obj
    BY <1>4, <2>1 DEF Reached, Born, CreatedBefore
  <2>3. PICK n \in Nat : /\ n < s.pc[v]
                         /\ Op(p, v, n).type = "create" /\ Op(p, v, n).obj = a.obj
    <3>1. s.pc[v] \in Nat
      BY DEF Reached, WellFormed
    <3> QED BY <2>2, <3>1
  <2>4. v = t /\ n = s.pc[t]
    BY <1>1, <1>2, <2>1, <2>3, CreatesOnceOp DEF WellDeclared
  <2> QED BY <1>2, <2>3, <2>4
<1>10. InLine(s.objs, y)
  BY <1>1, <1>4 DEF Reached, Lined, InLine
<1>11. Unrelated(x, y)
  BY <1>7 DEF Unrelated, Undeclared
<1> QED BY <1>2, <1>6, <1>8, <1>9, <1>10, <1>11, UnrelatedCommute

\* What dependentWith declares independent is, in every state a program can be in
\* (MCTransition.h:345): in a program that creates each thread once and waits on
\* semaphores by the wrapper, a step of one thread neither enables nor disables an
\* independent one of another, and their order does not matter.
THEOREM IndependenceIsSound == Spec => [](WellDeclared(prog) => IndependenceSound)
<1>1. IInv => (WellDeclared(prog) => IndependenceSound)
  <2> SUFFICES ASSUME IInv, WellDeclared(prog), NEW s \in ReachableStates[prog],
                      NEW t \in CanStep(prog, s), NEW u \in Threads, t # u,
                      NEW x, NEW y, x = Live(s.objs, Op(prog, t, s.pc[t])),
                      y = Live(s.objs, Op(prog, u, s.pc[u])),
                      ~Dependent(x, y), ~PostBeforeWait(x, y)
               PROVE  Commute(s.objs, x, y)
    BY DEF IndependenceSound
  <2>1. prog \in Programs
    BY DEF IInv, ThreadsKnown
  <2>2. Reached(prog, s)
    BY <2>1, AllReached DEF WellDeclared
  <2> QED BY <2>1, <2>2, ReachedCommute
<1> QED BY <1>1, InvHolds, PTL
-----------------------------------------------------------------------------
(* The types of the objects.  Most of them are kept by any transition.      *)
(* The queues of a lock are typed because a thread that leaves one entered  *)
(* it, in programs where the two halves of taking a lock follow each other: *)
(* each queue holds as many threads as are between the halves.              *)

CondTyped(cond) ==
    /\ cond = [mutex |-> cond.mutex, waiters |-> cond.waiters, groups |-> cond.groups,
               spurious |-> cond.spurious]
    /\ cond.mutex \subseteq Mutexes /\ cond.waiters \subseteq Threads /\ cond.spurious \in Nat

\* The objects but for their locks and for the wake groups.
Loose(s) ==
    /\ AreObjects(s)
    /\ s.thread \in ThreadStates /\ s.mutex \in MutexStates /\ SemsTyped(s)
    /\ s.barrier \in BarrierStates
    /\ \A c \in Conds : CondTyped(s.cond[c])

LEMMA CondTypedStep ==
  ASSUME NEW cond, CondTyped(cond), NEW x, x.tid \in Threads, x.obj \in Conds
  PROVE  CondTyped(CondAfter(cond, x))
<1>0. CondMutex[x.obj] \in Mutexes
  BY CondMutexAssumption
<1>1. CASE x.type = "condEnqueue"
  <2>1. CondAfter(cond, x) = [mutex |-> {CondMutex[x.obj]}, waiters |-> cond.waiters \cup {x.tid},
                              groups |-> cond.groups, spurious |-> cond.spurious]
    BY <1>1 DEF CondAfter, CondTyped
  <2> QED BY <1>0, <2>1 DEF CondTyped
<1>2. CASE x.type = "condWait"
  <2>1. CondAfter(cond, x) =
            [mutex |-> cond.mutex, waiters |-> cond.waiters \ {x.tid},
             groups |-> WakeThread(cond.groups, x.tid),
             spurious |-> IF cond.spurious > 0 THEN cond.spurious - 1 ELSE cond.spurious]
    BY <1>2 DEF CondAfter, CondTyped, RemoveWaiter
  <2> QED BY <2>1 DEF CondTyped
<1>3. CASE x.type \in {"signal", "broadcast"}
  <2>1. CondAfter(cond, x) = PushWakeupGroup(cond)
    BY <1>3 DEF CondAfter
  <2>2. CASE cond.waiters = {}
    BY <2>1, <2>2 DEF PushWakeupGroup
  <2>3. CASE cond.waiters # {}
    <3>1. CondAfter(cond, x) = [mutex |-> cond.mutex, waiters |-> cond.waiters,
              groups |-> Append(cond.groups, cond.waiters), spurious |-> cond.spurious]
      BY <2>1, <2>3 DEF PushWakeupGroup, CondTyped
    <3> QED BY <3>1 DEF CondTyped
  <2> QED BY <2>2, <2>3
<1>4. CASE x.type \notin {"condEnqueue", "condWait", "signal", "broadcast"}
  BY <1>4 DEF CondAfter
<1> QED BY <1>1, <1>2, <1>3, <1>4

LEMMA LooseApply ==
  ASSUME NEW s, Loose(s), NEW x, x.tid \in Threads
  PROVE  Loose(Apply(s, x))
<1>1. PICK r : r = WholeAfter(s, x)
  OBVIOUS
<1>2. Apply(s, x) = r /\ AreObjects(r)
  BY <1>1, ApplyFields, ApplyKeeps DEF Loose
<1>3. /\ r.thread = ThreadAfter(s.thread, x) /\ r.mutex = MutexesAfter(s.mutex, x)
      /\ r.count = CountsAfter(s.count, x) /\ r.queue = QueuesAfter(s.queue, x)
      /\ r.cond = CondsAfter(s.cond, x) /\ r.barrier = s.barrier
  BY <1>1, WholeFields
<1>4. r.thread \in ThreadStates
  BY <1>3 DEF Loose, ThreadStates, ThreadAfter
<1>5. r.mutex \in MutexStates
  BY <1>3 DEF Loose, MutexStates, MutexesAfter
<1>6. SemsTyped(r)
  <2> SUFFICES ASSUME NEW m \in Sems PROVE r.count[m] \in Nat /\ r.queue[m] \in Seq(Threads)
    BY DEF SemsTyped
  <2>1. s.count[m] \in Nat /\ s.queue[m] \in Seq(Threads)
    BY DEF Loose, SemsTyped
  <2>2. r.count[m] \in Nat
    BY <1>3, <2>1 DEF CountsAfter
  <2>3. Append(s.queue[m], x.tid) \in Seq(Threads) /\ Without(s.queue[m], x.tid) \in Seq(Threads)
    BY <2>1, AppendProperties, WithoutKeeps
  <2>4. r.queue[m] \in Seq(Threads)
    BY <1>3, <2>1, <2>3 DEF QueuesAfter
  <2> QED BY <2>2, <2>4
<1>7. \A c \in Conds : CondTyped(r.cond[c])
  BY <1>3, CondTypedStep DEF Loose, CondsAfter
<1>8. r.barrier \in BarrierStates
  BY <1>3 DEF Loose
<1> QED BY <1>2, <1>4, <1>5, <1>6, <1>7, <1>8 DEF Loose

LEMMA BarrierRead ==
  ASSUME NEW s, s.barrier \in BarrierStates, NEW x, x.tid \in Threads,
         NEW r, r = WaitOnBarrier(s, x), AreObjects(s)
  PROVE  r.barrier \in BarrierStates
<1>1. CASE x.obj \in Barriers
  <2> DEFINE old == s.barrier[x.obj]
             joined == Join(old, x.tid)
  <2>1. /\ old = [odd |-> old.odd, even |-> old.even, isEven |-> old.isEven]
        /\ old.odd \subseteq Threads /\ old.even \subseteq Threads /\ old.isEven \in BOOLEAN
    BY <1>1 DEF BarrierStates
  <2> HIDE DEF old
  <2>2. joined \in [odd : SUBSET Threads, even : SUBSET Threads, isEven : BOOLEAN]
    <3>1. CASE old.isEven
      <4>1. joined = [odd |-> old.odd, even |-> old.even \cup {x.tid}, isEven |-> old.isEven]
        BY <2>1, <3>1 DEF Join
      <4> QED BY <2>1, <4>1
    <3>2. CASE ~old.isEven
      <4>1. joined = [odd |-> old.odd \cup {x.tid}, even |-> old.even, isEven |-> old.isEven]
        BY <2>1, <3>2 DEF Join
      <4> QED BY <2>1, <4>1
    <3> QED BY <3>1, <3>2
  <2> HIDE DEF joined
  <2>3. [joined EXCEPT !.isEven = ~joined.isEven] \in
            [odd : SUBSET Threads, even : SUBSET Threads, isEven : BOOLEAN]
    BY <2>2
  <2>4. \/ r = s
        \/ \E v \in [odd : SUBSET Threads, even : SUBSET Threads, isEven : BOOLEAN] :
               r = [s EXCEPT !.barrier[x.obj] = v]
    BY <2>2, <2>3 DEF WaitOnBarrier, joined, old
  <2>5. CASE r = s
    BY <2>5
  <2>6. ASSUME NEW v \in [odd : SUBSET Threads, even : SUBSET Threads, isEven : BOOLEAN],
               r = [s EXCEPT !.barrier[x.obj] = v]
        PROVE  r.barrier \in BarrierStates
    <3>1. PICK w : w = [s.barrier EXCEPT ![x.obj] = v]
      OBVIOUS
    <3>2. r = [s EXCEPT !.barrier = w] /\ w \in BarrierStates
      BY <2>6, <3>1 DEF BarrierStates
    <3>3. r = Whole(s.thread, s.mutex, s.count, s.queue, s.cond, w, s.rwlock, s.rwwlock)
      BY <3>2, FieldWritten DEF AreObjects
    <3> QED BY <3>2, <3>3, WholeRecord
  <2> QED BY <2>4, <2>5, <2>6
<1>2. CASE x.obj \notin Barriers
  <2>1. r = s \/ \E v : r = [s EXCEPT !.barrier[x.obj] = v]
    BY DEF WaitOnBarrier
  <2>2. ASSUME NEW v, r = [s EXCEPT !.barrier[x.obj] = v] PROVE r.barrier = s.barrier
    <3>1. PICK w : w = [s.barrier EXCEPT ![x.obj] = v]
      OBVIOUS
    <3>2. r = [s EXCEPT !.barrier = w] /\ w = s.barrier
      BY <1>2, <2>2, <3>1 DEF BarrierStates
    <3>3. r = Whole(s.thread, s.mutex, s.count, s.queue, s.cond, w, s.rwlock, s.rwwlock)
      BY <3>2, FieldWritten DEF AreObjects
    <3> QED BY <3>2, <3>3, WholeRecord
  <2> QED BY <2>1, <2>2
<1> QED BY <1>1, <1>2

LEMMA LooseRead ==
  ASSUME NEW s, Loose(s), NEW x \in Transition
  PROVE  Loose(WhenRead(s, x))
<1>1. PICK r : r = WhenRead(s, x)
  OBVIOUS
<1>2. AfterReading(s, x, r) /\ x.tid \in Threads
  BY <1>1, ReadFields, TypedTransition DEF Loose
<1>3. /\ AreObjects(r) /\ r.thread = s.thread /\ r.mutex = s.mutex
      /\ r.count = s.count /\ r.queue = s.queue
  BY <1>2 DEF AfterReading
<1>4. r.barrier \in BarrierStates
  <2>1. CASE x.type = "barrierWait"
    <3>1. r = WaitOnBarrier(s, x)
      BY <1>1, <2>1 DEF WhenRead
    <3> QED BY <1>2, <3>1, BarrierRead DEF Loose
  <2>2. CASE x.type # "barrierWait"
    BY <1>2, <2>2 DEF AfterReading, Loose
  <2> QED BY <2>1, <2>2
<1>5. ASSUME NEW c \in Conds PROVE CondTyped(r.cond[c])
  <2>1. CASE x.type = "condEnqueue"
    <3>1. x.obj \in Conds
      BY <2>1, TypedTransition DEF CondOps
    <3>2. PICK v : v = [s.cond EXCEPT ![x.obj] = [s.cond[x.obj] EXCEPT !.mutex = {CondMutex[x.obj]}]]
      OBVIOUS
    <3>3. r = [s EXCEPT !.cond = v]
      BY <1>1, <2>1, <3>2 DEF WhenRead, ReadCondEnqueue
    <3>4. r = Whole(s.thread, s.mutex, s.count, s.queue, v, s.barrier, s.rwlock, s.rwwlock)
      BY <3>3, FieldWritten DEF AreObjects, Loose
    <3>5. r.cond = v
      BY <3>4, WholeRecord
    <3>6. CondTyped(s.cond[c]) /\ CondMutex[x.obj] \in Mutexes /\ s.cond = [d \in Conds |-> s.cond[d]]
      BY <3>1, CondMutexAssumption DEF Loose, AreObjects, HaveFields
    <3>7. PICK old : old = s.cond[c]
      OBVIOUS
    <3>8. [old EXCEPT !.mutex = {CondMutex[x.obj]}] =
            [mutex |-> {CondMutex[x.obj]}, waiters |-> old.waiters, groups |-> old.groups,
             spurious |-> old.spurious]
      BY <3>6, <3>7 DEF CondTyped
    <3>9. CondTyped([old EXCEPT !.mutex = {CondMutex[x.obj]}])
      BY <3>6, <3>7, <3>8 DEF CondTyped
    <3>10. v[c] = IF c = x.obj THEN [old EXCEPT !.mutex = {CondMutex[x.obj]}] ELSE s.cond[c]
      BY <3>2, <3>6, <3>7
    <3> QED BY <3>5, <3>6, <3>9, <3>10
  <2>2. CASE x.type # "condEnqueue"
    BY <1>2, <2>2 DEF AfterReading, Loose
  <2> QED BY <2>1, <2>2
<1>6. SemsTyped(r)
  BY <1>3 DEF Loose, SemsTyped
<1> QED BY <1>1, <1>3, <1>4, <1>5, <1>6 DEF Loose

LEMMA LooseUndo ==
  ASSUME NEW s, Loose(s), NEW x
  PROVE  Loose(Unapply(s, x))
<1>1. PICK r : r = Unapply(s, x)
  OBVIOUS
<1>2. AfterUndoing(s, x, r)
  BY <1>1, UnapplyFields DEF Loose
<1>3. r.thread \in ThreadStates /\ r.mutex \in MutexStates
  BY <1>2 DEF AfterUndoing, Loose, ThreadStates, MutexStates
<1> QED BY <1>1, <1>2, <1>3 DEF AfterUndoing, Loose, SemsTyped

LEMMA LooseFresh == Loose(Fresh) /\ Loose(InitialObjects)
<1> DEFINE i == InitialObjects
<1>1. /\ AreObjects(i) /\ AreObjects(Fresh) /\ i = [Fresh EXCEPT !.thread = i.thread]
  BY FreshFields
<1>2. /\ i.mutex = [m \in Mutexes |-> "undefined"] /\ i.count = SemCount
      /\ i.queue = [s \in Sems |-> <<>>] /\ i.cond = InitialConds
      /\ i.barrier = [b \in Barriers |-> FreshBarrier] /\ i.thread = [t \in Threads |-> "embryo"]
  BY DEF InitialObjects
<1>3. /\ Fresh.thread \in ThreadStates /\ i.thread \in ThreadStates
  BY <1>2, FreshFields DEF ThreadStates
<1>4. /\ Fresh.mutex = i.mutex /\ Fresh.count = i.count /\ Fresh.queue = i.queue
      /\ Fresh.cond = i.cond /\ Fresh.barrier = i.barrier
  <2> HIDE DEF i
  <2>1. [Fresh EXCEPT !.thread = i.thread] = Whole(i.thread, Fresh.mutex, Fresh.count, Fresh.queue,
            Fresh.cond, Fresh.barrier, Fresh.rwlock, Fresh.rwwlock)
    BY <1>1, FieldWritten DEF AreObjects
  <2> QED BY <1>1, <2>1, WholeRecord
<1> HIDE DEF i
<1>5. i.mutex \in MutexStates /\ i.barrier \in BarrierStates
  BY <1>2 DEF MutexStates, BarrierStates, FreshBarrier
<1>6. SemsTyped(i) /\ SemsTyped(Fresh)
  <2>1. <<>> \in Seq(Threads)
    OBVIOUS
  <2>2. PICK none : none = <<>>
    OBVIOUS
  <2> QED BY <1>2, <1>4, <2>1, <2>2, SemCountAssumption DEF SemsTyped
<1>7. \A c \in Conds : CondTyped(i.cond[c])
  BY <1>2 DEF InitialConds, CondTyped
<1> QED BY <1>1, <1>3, <1>4, <1>5, <1>6, <1>7 DEF Loose, i

\* The threads between the halves of an operation on l, and a queue that holds as many.
Amid(p, q, lane, l, k) ==
    {t \in Threads : /\ \E half \in lane : Op(p, t, Times(q, t, k)).type = half[2]
                     /\ Op(p, t, Times(q, t, k)).obj = l}

Fits(queue, S) ==
    queue \in Seq(Threads) /\ IsFiniteSet(S) /\ Len(queue) = Cardinality(S)

LEMMA OneMoreFits ==
  ASSUME NEW queue, NEW S, Fits(queue, S), NEW t \in Threads, t \notin S
  PROVE  Fits(Append(queue, t), S \cup {t})
<1>1. Append(queue, t) \in Seq(Threads) /\ Len(Append(queue, t)) = Len(queue) + 1
  BY AppendProperties DEF Fits
<1>2. IsFiniteSet(S \cup {t}) /\ Cardinality(S \cup {t}) = Cardinality(S) + 1
  BY FS_AddElement DEF Fits
<1> QED BY <1>1, <1>2 DEF Fits

LEMMA OneLessFits ==
  ASSUME NEW queue, NEW S, Fits(queue, S), NEW t \in S
  PROVE  Fits(Tail(queue), S \ {t})
<1>1. IsFiniteSet(S \ {t}) /\ Cardinality(S \ {t}) = Cardinality(S) - 1
  BY FS_RemoveElement DEF Fits
<1>2. Cardinality(S) \in Nat /\ Cardinality(S) # 0
  BY FS_CardinalityType, FS_EmptySet DEF Fits
<1>3. queue # <<>> /\ queue \in Seq(Threads)
  BY <1>2 DEF Fits
<1>4. Tail(queue) \in Seq(Threads) /\ Len(Tail(queue)) = Len(queue) - 1
  BY <1>3, HeadTailProperties
<1> QED BY <1>1, <1>4 DEF Fits

\* What x makes of a queue that the first halves of the lane enter and the second leave.
QueuedBy(lane, l, x, queue) ==
    IF x.obj = l /\ \E half \in lane : x.type = half[1] THEN Append(queue, x.tid)
    ELSE IF x.obj = l /\ \E half \in lane : x.type = half[2] THEN Tail(queue) ELSE queue

LEMMA FitsStep ==
  ASSUME NEW p \in Programs, InTwoHalves(p), NEW q, History(p, q), NEW k \in Nat, k + 1 <= Len(q),
         NEW lane \in SUBSET Halves, NEW l, NEW queue, Fits(queue, Amid(p, q, lane, l, k))
  PROVE  Fits(QueuedBy(lane, l, q[k + 1], queue), Amid(p, q, lane, l, k + 1))
<1>1. PICK x : x = q[k + 1]
  OBVIOUS
<1> DEFINE u == x.tid
           n == Times(q, u, k)
           now == Amid(p, q, lane, l, k)
           then == Amid(p, q, lane, l, k + 1)
<1>2. /\ u \in Threads /\ n \in Nat /\ x.type = Op(p, u, n).type /\ x.obj = Op(p, u, n).obj
  <2>1. k + 1 \in 1..Len(q) /\ (k + 1) - 1 = k
    BY Stack DEF History
  <2>2. /\ Times(q, q[k + 1].tid, (k + 1) - 1) \in Nat /\ q[k + 1].tid \in Threads
        /\ Operation(q[k + 1]) = Op(p, q[k + 1].tid, Times(q, q[k + 1].tid, (k + 1) - 1))
        /\ q[k + 1].type = Operation(q[k + 1]).type /\ q[k + 1].obj = Operation(q[k + 1]).obj
    BY <2>1, Operated
  <2> QED BY <1>1, <2>1, <2>2
<1>3. Times(q, u, k + 1) = n + 1
  <2>1. Times(q, u, k + 1) = Times(q, u, k) + (IF q[k + 1].tid = u THEN 1 ELSE 0)
    BY RanOnce
  <2> QED BY <1>1, <2>1
<1>4. \A t \in Threads : t # u => Times(q, t, k + 1) = Times(q, t, k)
  <2> SUFFICES ASSUME NEW t \in Threads, t # u PROVE Times(q, t, k + 1) = Times(q, t, k)
    OBVIOUS
  <2>1. Times(q, t, k) \in Nat
    BY Ranges
  <2>2. Times(q, t, k + 1) = Times(q, t, k) + (IF q[k + 1].tid = t THEN 1 ELSE 0)
    BY RanOnce
  <2> QED BY <1>1, <2>1, <2>2
<1> HIDE DEF u, n
<1>5. \A t \in Threads : t # u => (t \in then <=> t \in now)
  BY <1>4 DEF Amid
<1>6. u \in now <=> x.obj = l /\ \E half \in lane : x.type = half[2]
  BY <1>2 DEF Amid, n
<1>7. u \in then <=> x.obj = l /\ \E half \in lane : x.type = half[1]
  <2>1. u \in then <=> /\ \E half \in lane : Op(p, u, n + 1).type = half[2]
                       /\ Op(p, u, n + 1).obj = l
    BY <1>2, <1>3 DEF Amid
  <2>2. \A half \in lane :
            /\ Op(p, u, n).type = half[1] => /\ Op(p, u, n + 1).type = half[2]
                                             /\ Op(p, u, n + 1).obj = Op(p, u, n).obj
            /\ Op(p, u, n + 1).type = half[2] => /\ Op(p, u, n).type = half[1]
                                                 /\ Op(p, u, n).obj = Op(p, u, n + 1).obj
    BY <1>2, SecondHalf
  <2> QED BY <1>2, <2>1, <2>2
<1>8. \A half, other \in Halves : half[1] # other[2]
  BY DEF Halves
<1>9. now \subseteq Threads /\ then \subseteq Threads
  BY DEF Amid
<1> HIDE DEF now, then
<1>10. Fits(queue, now)
  BY DEF now
<1>11. CASE x.obj = l /\ \E half \in lane : x.type = half[1]
  <2>1. u \notin now /\ then = now \cup {u}
    BY <1>2, <1>5, <1>6, <1>7, <1>8, <1>9, <1>11
  <2>2. QueuedBy(lane, l, x, queue) = Append(queue, u)
    BY <1>11 DEF QueuedBy, u
  <2> QED BY <1>1, <1>2, <1>10, <2>1, <2>2, OneMoreFits DEF then
<1>12. CASE x.obj = l /\ \E half \in lane : x.type = half[2]
  <2>1. ~\E half \in lane : x.type = half[1]
    BY <1>8, <1>12
  <2>2. u \in now /\ then = now \ {u}
    BY <1>5, <1>6, <1>7, <1>9, <1>12, <2>1
  <2>3. QueuedBy(lane, l, x, queue) = Tail(queue)
    BY <1>12, <2>1 DEF QueuedBy
  <2> QED BY <1>1, <1>10, <2>2, <2>3, OneLessFits DEF then
<1>13. CASE ~(x.obj = l /\ \E half \in lane : x.type = half[1] \/ x.type = half[2])
  <2>1. then = now
    BY <1>5, <1>6, <1>7, <1>9, <1>13
  <2>2. QueuedBy(lane, l, x, queue) = queue
    BY <1>13 DEF QueuedBy
  <2> QED BY <1>1, <1>10, <2>1, <2>2 DEF then
<1> QED BY <1>11, <1>12, <1>13

LEMMA FitsAtFirst ==
  ASSUME NEW p \in Programs, InTwoHalves(p), NEW q, NEW lane \in SUBSET Halves, NEW l
  PROVE  Fits(<<>>, Amid(p, q, lane, l, 0))
<1>1. ASSUME NEW t \in Threads, NEW half \in lane PROVE Op(p, t, Times(q, t, 0)).type # half[2]
  <2>1. Times(q, t, 0) = 0 /\ 0 \in Nat
    BY RanNone
  <2>2. Op(p, t, 0).type # half[2]
    BY <2>1, SecondHalf
  <2> QED BY <2>1, <2>2
<1>2. Amid(p, q, lane, l, 0) = {}
  BY <1>1 DEF Amid
<1>3. <<>> \in Seq(Threads) /\ Len(<<>>) = 0
  OBVIOUS
<1> QED BY <1>2, <1>3, FS_EmptySet DEF Fits

Shared == {<<"readerEnqueue", "readerLock">>}
Sole == {<<"writerEnqueue", "writerLock">>}
RWWShared == {<<"rwwReaderEnqueue", "rwwReaderLock">>}
Sole1 == {<<"writer1Enqueue", "writer1Lock">>}
Sole2 == {<<"writer2Enqueue", "writer2Lock">>}

RWShaped(lock) ==
    lock = [writer |-> lock.writer, readers |-> lock.readers, readerQ |-> lock.readerQ,
            writerQ |-> lock.writerQ, acquireQ |-> lock.acquireQ]

RWWShaped(lock) ==
    lock = [writer1 |-> lock.writer1, writer2 |-> lock.writer2, readers |-> lock.readers,
            readerQ |-> lock.readerQ, writer1Q |-> lock.writer1Q, writer2Q |-> lock.writer2Q,
            acquireQ |-> lock.acquireQ]

RWHeld(lock) == /\ RWShaped(lock) /\ lock.writer \subseteq Threads
                /\ lock.readers \in [Threads -> Nat]

RWWHeld(lock) == /\ RWWShaped(lock) /\ lock.writer1 \subseteq Threads
                 /\ lock.writer2 \subseteq Threads /\ lock.readers \in [Threads -> Nat]

\* What a transition on lock l makes of it.
RWFollows(lock, x, l, after) ==
    /\ RWHeld(after)
    /\ after.readerQ = QueuedBy(Shared, l, x, lock.readerQ)
    /\ after.writerQ = QueuedBy(Sole, l, x, lock.writerQ)
    /\ after.acquireQ = QueuedBy(Shared \cup Sole, l, x, lock.acquireQ)

RWWFollows(lock, x, l, after) ==
    /\ RWWHeld(after)
    /\ after.readerQ = QueuedBy(RWWShared, l, x, lock.readerQ)
    /\ after.writer1Q = QueuedBy(Sole1, l, x, lock.writer1Q)
    /\ after.writer2Q = QueuedBy(Sole2, l, x, lock.writer2Q)
    /\ after.acquireQ = QueuedBy(RWWShared \cup Sole1 \cup Sole2, l, x, lock.acquireQ)

\* Who releases it holds it.
RWOwned(lock, x) == x.type = "rwUnlock" => HoldsRW(lock, x.tid)

RWWOwned(lock, x) == x.type = "rwwUnlock" => HoldsRWW(lock, x.tid)

LEMMA RWStep ==
  ASSUME NEW lock, RWHeld(lock), NEW x, x.tid \in Threads,
         RWOwned(lock, x), NEW after, after = RWLockAfter(lock, x), NEW l, x.obj = l
  PROVE  RWFollows(lock, x, l, after)
<1>1. PICK a, b, c : /\ a = QueuedBy(Shared, l, x, lock.readerQ)
                     /\ b = QueuedBy(Sole, l, x, lock.writerQ)
                     /\ c = QueuedBy(Shared \cup Sole, l, x, lock.acquireQ)
  OBVIOUS
<1> DEFINE Lock(writer, readers) == [writer |-> writer, readers |-> readers, readerQ |-> a,
                                     writerQ |-> b, acquireQ |-> c]
<1>2. /\ a = IF x.type = "readerEnqueue" THEN Append(lock.readerQ, x.tid)
             ELSE IF x.type = "readerLock" THEN Tail(lock.readerQ) ELSE lock.readerQ
      /\ b = IF x.type = "writerEnqueue" THEN Append(lock.writerQ, x.tid)
             ELSE IF x.type = "writerLock" THEN Tail(lock.writerQ) ELSE lock.writerQ
      /\ c = IF x.type \in {"readerEnqueue", "writerEnqueue"} THEN Append(lock.acquireQ, x.tid)
             ELSE IF x.type \in {"readerLock", "writerLock"} THEN Tail(lock.acquireQ)
             ELSE lock.acquireQ
  BY <1>1 DEF QueuedBy, Shared, Sole
<1>3. ASSUME NEW writer, NEW readers, after = Lock(writer, readers),
             writer \subseteq Threads, readers \in [Threads -> Nat]
      PROVE  RWFollows(lock, x, l, after)
  BY <1>1, <1>3 DEF RWFollows, RWHeld, RWShaped
<1>4. /\ RWShaped(lock) /\ lock.writer \subseteq Threads /\ lock.readers \in [Threads -> Nat]
      /\ \A m \in Nat : [lock.readers EXCEPT ![x.tid] = m] \in [Threads -> Nat]
  BY DEF RWHeld
<1> USE DEF RWLockAfter, RWShaped
<1>5. CASE x.type \in {"readerEnqueue", "writerEnqueue"}
  <2>1. after = Lock(lock.writer, lock.readers)
    BY <1>2, <1>4, <1>5 DEF EnterAsReader, EnterAsWriter
  <2> QED BY <1>3, <1>4, <2>1
<1>6. CASE x.type = "readerLock"
  <2>1. PICK m, readers : /\ m = lock.readers[x.tid] + 1
                          /\ readers = [lock.readers EXCEPT ![x.tid] = m]
    OBVIOUS
  <2>2. after = Lock(lock.writer, readers)
    BY <1>2, <1>4, <1>6, <2>1 DEF LockAsReader
  <2> QED BY <1>3, <1>4, <2>1, <2>2
<1>7. CASE x.type = "writerLock"
  <2>1. after = Lock({x.tid}, lock.readers)
    BY <1>2, <1>4, <1>7 DEF LockAsWriter
  <2> QED BY <1>3, <1>4, <2>1
<1>8. CASE x.type = "rwUnlock" /\ IsWriterLocked(lock)
  <2>1. after = Lock({}, lock.readers)
    BY <1>2, <1>4, <1>8 DEF Release
  <2> QED BY <1>3, <1>4, <2>1
<1>9. CASE x.type = "rwUnlock" /\ ~IsWriterLocked(lock)
  <2>1. PICK m, readers : /\ m = lock.readers[x.tid] - 1
                          /\ readers = [lock.readers EXCEPT ![x.tid] = m]
    OBVIOUS
  <2>2. m \in Nat
    BY <1>4, <1>9, <2>1 DEF RWOwned, HoldsRW
  <2>3. after = Lock(lock.writer, readers)
    BY <1>2, <1>4, <1>9, <2>1 DEF Release
  <2> QED BY <1>3, <1>4, <2>1, <2>2, <2>3
<1>10. CASE x.type \notin {"readerEnqueue", "readerLock", "writerEnqueue", "writerLock", "rwUnlock"}
  <2>1. after = Lock(lock.writer, lock.readers)
    BY <1>2, <1>4, <1>10
  <2> QED BY <1>3, <1>4, <2>1
<1> QED BY <1>5, <1>6, <1>7, <1>8, <1>9, <1>10

LEMMA RWWStep ==
  ASSUME NEW lock, RWWHeld(lock), NEW x, x.tid \in Threads,
         RWWOwned(lock, x), NEW after, after = RWWLockAfter(lock, x), NEW l, x.obj = l
  PROVE  RWWFollows(lock, x, l, after)
<1>1. PICK a, b, c, d : /\ a = QueuedBy(RWWShared, l, x, lock.readerQ)
                        /\ b = QueuedBy(Sole1, l, x, lock.writer1Q)
                        /\ c = QueuedBy(Sole2, l, x, lock.writer2Q)
                        /\ d = QueuedBy(RWWShared \cup Sole1 \cup Sole2, l, x, lock.acquireQ)
  OBVIOUS
<1> DEFINE Lock(writer1, writer2, readers) ==
               [writer1 |-> writer1, writer2 |-> writer2, readers |-> readers, readerQ |-> a,
                writer1Q |-> b, writer2Q |-> c, acquireQ |-> d]
<1>2. /\ a = IF x.type = "rwwReaderEnqueue" THEN Append(lock.readerQ, x.tid)
             ELSE IF x.type = "rwwReaderLock" THEN Tail(lock.readerQ) ELSE lock.readerQ
      /\ b = IF x.type = "writer1Enqueue" THEN Append(lock.writer1Q, x.tid)
             ELSE IF x.type = "writer1Lock" THEN Tail(lock.writer1Q) ELSE lock.writer1Q
      /\ c = IF x.type = "writer2Enqueue" THEN Append(lock.writer2Q, x.tid)
             ELSE IF x.type = "writer2Lock" THEN Tail(lock.writer2Q) ELSE lock.writer2Q
      /\ d = IF x.type \in {"rwwReaderEnqueue", "writer1Enqueue", "writer2Enqueue"}
             THEN Append(lock.acquireQ, x.tid)
             ELSE IF x.type \in {"rwwReaderLock", "writer1Lock", "writer2Lock"}
                  THEN Tail(lock.acquireQ) ELSE lock.acquireQ
  BY <1>1 DEF QueuedBy, RWWShared, Sole1, Sole2
<1>3. ASSUME NEW writer1, NEW writer2, NEW readers, after = Lock(writer1, writer2, readers),
             writer1 \subseteq Threads, writer2 \subseteq Threads, readers \in [Threads -> Nat]
      PROVE  RWWFollows(lock, x, l, after)
  BY <1>1, <1>3 DEF RWWFollows, RWWHeld, RWWShaped
<1>4. /\ RWWShaped(lock) /\ lock.writer1 \subseteq Threads /\ lock.writer2 \subseteq Threads
      /\ lock.readers \in [Threads -> Nat]
      /\ \A m \in Nat : [lock.readers EXCEPT ![x.tid] = m] \in [Threads -> Nat]
  BY DEF RWWHeld
<1> USE DEF RWWLockAfter, RWWShaped
<1>5. CASE x.type \in {"rwwReaderEnqueue", "writer1Enqueue", "writer2Enqueue"}
  <2>1. after = Lock(lock.writer1, lock.writer2, lock.readers)
    BY <1>2, <1>4, <1>5 DEF RWWEnterAsReader, EnterAsWriter1, EnterAsWriter2
  <2> QED BY <1>3, <1>4, <2>1
<1>6. CASE x.type = "rwwReaderLock"
  <2>1. PICK m, readers : /\ m = lock.readers[x.tid] + 1
                          /\ readers = [lock.readers EXCEPT ![x.tid] = m]
    OBVIOUS
  <2>2. after = Lock(lock.writer1, lock.writer2, readers)
    BY <1>2, <1>4, <1>6, <2>1 DEF RWWLockAsReader
  <2> QED BY <1>3, <1>4, <2>1, <2>2
<1>7. CASE x.type = "writer1Lock"
  <2>1. after = Lock({x.tid}, lock.writer2, lock.readers)
    BY <1>2, <1>4, <1>7 DEF LockAsWriter1
  <2> QED BY <1>3, <1>4, <2>1
<1>8. CASE x.type = "writer2Lock"
  <2>1. after = Lock(lock.writer1, {x.tid}, lock.readers)
    BY <1>2, <1>4, <1>8 DEF LockAsWriter2
  <2> QED BY <1>3, <1>4, <2>1
<1>9. CASE x.type = "rwwUnlock" /\ lock.writer1 # {}
  <2>1. after = Lock({}, lock.writer2, lock.readers)
    BY <1>2, <1>4, <1>9 DEF RWWRelease
  <2> QED BY <1>3, <1>4, <2>1
<1>10. CASE x.type = "rwwUnlock" /\ lock.writer1 = {} /\ lock.writer2 # {}
  <2>1. after = Lock(lock.writer1, {}, lock.readers)
    BY <1>2, <1>4, <1>10 DEF RWWRelease
  <2> QED BY <1>3, <1>4, <2>1
<1>11. CASE x.type = "rwwUnlock" /\ lock.writer1 = {} /\ lock.writer2 = {}
  <2>1. PICK m, readers : /\ m = lock.readers[x.tid] - 1
                          /\ readers = [lock.readers EXCEPT ![x.tid] = m]
    OBVIOUS
  <2>2. m \in Nat
    BY <1>4, <1>11, <2>1 DEF RWWOwned, HoldsRWW
  <2>3. after = Lock(lock.writer1, lock.writer2, readers)
    BY <1>2, <1>4, <1>11, <2>1 DEF RWWRelease
  <2> QED BY <1>3, <1>4, <2>1, <2>2, <2>3
<1>12. CASE x.type \notin {"rwwReaderEnqueue", "writer1Enqueue", "writer2Enqueue", "rwwReaderLock",
                           "writer1Lock", "writer2Lock", "rwwUnlock"}
  <2>1. after = Lock(lock.writer1, lock.writer2, lock.readers)
    BY <1>2, <1>4, <1>12
  <2> QED BY <1>3, <1>4, <2>1
<1> QED BY <1>5, <1>6, <1>7, <1>8, <1>9, <1>10, <1>11, <1>12

\* Whoever released a lock in trace q held it: else McMini would have aborted.
Unaborted(q) ==
    \A i \in 1..Len(q) :
        /\ q[i].type = "rwUnlock" => HoldsRW(Along(q)[i - 1].rwlock[q[i].obj], q[i].tid)
        /\ q[i].type = "rwwUnlock" => HoldsRWW(Along(q)[i - 1].rwwlock[q[i].obj], q[i].tid)

RWTyped(p, q, l, lock, k) ==
    /\ RWHeld(lock)
    /\ Fits(lock.readerQ, Amid(p, q, Shared, l, k))
    /\ Fits(lock.writerQ, Amid(p, q, Sole, l, k))
    /\ Fits(lock.acquireQ, Amid(p, q, Shared \cup Sole, l, k))

RWWTyped(p, q, l, lock, k) ==
    /\ RWWHeld(lock)
    /\ Fits(lock.readerQ, Amid(p, q, RWWShared, l, k))
    /\ Fits(lock.writer1Q, Amid(p, q, Sole1, l, k))
    /\ Fits(lock.writer2Q, Amid(p, q, Sole2, l, k))
    /\ Fits(lock.acquireQ, Amid(p, q, RWWShared \cup Sole1 \cup Sole2, l, k))

LEMMA LanesAreHalves ==
  /\ Shared \in SUBSET Halves /\ Sole \in SUBSET Halves /\ Shared \cup Sole \in SUBSET Halves
  /\ RWWShared \in SUBSET Halves /\ Sole1 \in SUBSET Halves /\ Sole2 \in SUBSET Halves
  /\ RWWShared \cup Sole1 \cup Sole2 \in SUBSET Halves
BY DEF Shared, Sole, RWWShared, Sole1, Sole2, Halves

LEMMA RWTypedStep ==
  ASSUME NEW p \in Programs, InTwoHalves(p), NEW q, History(p, q), Unaborted(q),
         NEW k \in Nat, k + 1 <= Len(q), NEW l \in RWLocks,
         RWTyped(p, q, l, Along(q)[k].rwlock[l], k)
  PROVE  RWTyped(p, q, l, Along(q)[k + 1].rwlock[l], k + 1)
<1>1. PICK x, lock, after : /\ x = q[k + 1] /\ lock = Along(q)[k].rwlock[l]
                            /\ after = Along(q)[k + 1].rwlock[l]
  OBVIOUS
<1>2. k + 1 \in 1..Len(q) /\ (k + 1) - 1 = k /\ IsStack(q) /\ k \in 0..Len(q)
  BY Stack DEF History
<1>3. x.tid \in Threads /\ (x.type = "rwUnlock" /\ x.obj = l => HoldsRW(lock, x.tid))
  BY <1>1, <1>2, Operated DEF Unaborted
<1>4. after = IF x.type \in RWOps /\ l = x.obj THEN RWLockAfter(lock, x) ELSE lock
  <2>1. Along(q)[k + 1] = Apply(Along(q)[k], x) /\ AreObjects(Along(q)[k])
    BY <1>1, <1>2, AlongStack, AlongObjects
  <2>2. Apply(Along(q)[k], x) = WholeAfter(Along(q)[k], x)
    BY <2>1, ApplyFields
  <2>3. Along(q)[k + 1].rwlock = RWAfter(Along(q)[k].rwlock, x)
    BY <2>1, <2>2, WholeFields
  <2> QED BY <1>1, <2>3 DEF RWAfter
<1>5. RWHeld(lock)
  BY <1>1 DEF RWTyped
<1>6. RWFollows(lock, x, l, after)
  <2>1. CASE x.type \in RWOps /\ l = x.obj
    <3>1. after = RWLockAfter(lock, x) /\ x.obj = l /\ RWOwned(lock, x)
      BY <1>3, <1>4, <2>1 DEF RWOwned
    <3>2. x.tid \in Threads
      BY <1>3
    <3> QED BY <1>5, <3>1, <3>2, RWStep
  <2>2. CASE ~(x.type \in RWOps /\ l = x.obj)
    <3>1. \A half \in Shared \cup Sole : half[1] \in RWOps /\ half[2] \in RWOps
      BY DEF Shared, Sole, RWOps
    <3>2. \A queue : \A lane \in SUBSET (Shared \cup Sole) : QueuedBy(lane, l, x, queue) = queue
      BY <2>2, <3>1 DEF QueuedBy
    <3>3. /\ QueuedBy(Shared, l, x, lock.readerQ) = lock.readerQ
          /\ QueuedBy(Sole, l, x, lock.writerQ) = lock.writerQ
          /\ QueuedBy(Shared \cup Sole, l, x, lock.acquireQ) = lock.acquireQ
      BY <3>2
    <3>4. after = lock
      BY <1>4, <2>2
    <3> QED BY <1>5, <3>3, <3>4 DEF RWFollows
  <2> QED BY <2>1, <2>2
<1>7. /\ Fits(QueuedBy(Shared, l, x, lock.readerQ), Amid(p, q, Shared, l, k + 1))
      /\ Fits(QueuedBy(Sole, l, x, lock.writerQ), Amid(p, q, Sole, l, k + 1))
      /\ Fits(QueuedBy(Shared \cup Sole, l, x, lock.acquireQ), Amid(p, q, Shared \cup Sole, l, k + 1))
  BY <1>1, LanesAreHalves, FitsStep DEF RWTyped
<1> QED BY <1>1, <1>6, <1>7 DEF RWTyped, RWFollows

LEMMA RWWTypedStep ==
  ASSUME NEW p \in Programs, InTwoHalves(p), NEW q, History(p, q), Unaborted(q),
         NEW k \in Nat, k + 1 <= Len(q), NEW l \in RWWLocks,
         RWWTyped(p, q, l, Along(q)[k].rwwlock[l], k)
  PROVE  RWWTyped(p, q, l, Along(q)[k + 1].rwwlock[l], k + 1)
<1>1. PICK x, lock, after : /\ x = q[k + 1] /\ lock = Along(q)[k].rwwlock[l]
                            /\ after = Along(q)[k + 1].rwwlock[l]
  OBVIOUS
<1>2. k + 1 \in 1..Len(q) /\ (k + 1) - 1 = k /\ IsStack(q) /\ k \in 0..Len(q)
  BY Stack DEF History
<1>3. x.tid \in Threads /\ (x.type = "rwwUnlock" /\ x.obj = l => HoldsRWW(lock, x.tid))
  BY <1>1, <1>2, Operated DEF Unaborted
<1>4. after = IF x.type \in RWWOps /\ l = x.obj THEN RWWLockAfter(lock, x) ELSE lock
  <2>1. Along(q)[k + 1] = Apply(Along(q)[k], x) /\ AreObjects(Along(q)[k])
    BY <1>1, <1>2, AlongStack, AlongObjects
  <2>2. Apply(Along(q)[k], x) = WholeAfter(Along(q)[k], x)
    BY <2>1, ApplyFields
  <2>3. Along(q)[k + 1].rwwlock = RWWAfter(Along(q)[k].rwwlock, x)
    BY <2>1, <2>2, WholeFields
  <2> QED BY <1>1, <2>3 DEF RWWAfter
<1>5. RWWHeld(lock)
  BY <1>1 DEF RWWTyped
<1>6. RWWFollows(lock, x, l, after)
  <2>1. CASE x.type \in RWWOps /\ l = x.obj
    <3>1. after = RWWLockAfter(lock, x) /\ x.obj = l /\ RWWOwned(lock, x)
      BY <1>3, <1>4, <2>1 DEF RWWOwned
    <3>2. x.tid \in Threads
      BY <1>3
    <3> QED BY <1>5, <3>1, <3>2, RWWStep
  <2>2. CASE ~(x.type \in RWWOps /\ l = x.obj)
    <3>1. \A half \in RWWShared \cup Sole1 \cup Sole2 : half[1] \in RWWOps /\ half[2] \in RWWOps
      BY DEF RWWShared, Sole1, Sole2, RWWOps
    <3>2. \A queue : \A lane \in SUBSET (RWWShared \cup Sole1 \cup Sole2) :
              QueuedBy(lane, l, x, queue) = queue
      BY <2>2, <3>1 DEF QueuedBy
    <3>3. /\ QueuedBy(RWWShared, l, x, lock.readerQ) = lock.readerQ
          /\ QueuedBy(Sole1, l, x, lock.writer1Q) = lock.writer1Q
          /\ QueuedBy(Sole2, l, x, lock.writer2Q) = lock.writer2Q
          /\ QueuedBy(RWWShared \cup Sole1 \cup Sole2, l, x, lock.acquireQ) = lock.acquireQ
      BY <3>2
    <3>4. after = lock
      BY <1>4, <2>2
    <3> QED BY <1>5, <3>3, <3>4 DEF RWWFollows
  <2> QED BY <2>1, <2>2
<1>7. /\ Fits(QueuedBy(RWWShared, l, x, lock.readerQ), Amid(p, q, RWWShared, l, k + 1))
      /\ Fits(QueuedBy(Sole1, l, x, lock.writer1Q), Amid(p, q, Sole1, l, k + 1))
      /\ Fits(QueuedBy(Sole2, l, x, lock.writer2Q), Amid(p, q, Sole2, l, k + 1))
      /\ Fits(QueuedBy(RWWShared \cup Sole1 \cup Sole2, l, x, lock.acquireQ),
              Amid(p, q, RWWShared \cup Sole1 \cup Sole2, l, k + 1))
  BY <1>1, LanesAreHalves, FitsStep DEF RWWTyped
<1> QED BY <1>1, <1>6, <1>7 DEF RWWTyped, RWWFollows

\* The locks and the queues of a trace that was run without an abort have their types.
LocksTyped(s) ==
    /\ \A l \in RWLocks : /\ RWHeld(s.rwlock[l]) /\ s.rwlock[l].readerQ \in Seq(Threads)
                          /\ s.rwlock[l].writerQ \in Seq(Threads)
                          /\ s.rwlock[l].acquireQ \in Seq(Threads)
    /\ \A l \in RWWLocks : /\ RWWHeld(s.rwwlock[l]) /\ s.rwwlock[l].readerQ \in Seq(Threads)
                           /\ s.rwwlock[l].writer1Q \in Seq(Threads)
                           /\ s.rwwlock[l].writer2Q \in Seq(Threads)
                           /\ s.rwwlock[l].acquireQ \in Seq(Threads)

LEMMA LocksTypedAlong ==
  ASSUME NEW p \in Programs, InTwoHalves(p), NEW q, History(p, q), Unaborted(q)
  PROVE  \A k \in 0..Len(q) : LocksTyped(Along(q)[k])
<1> DEFINE All(k) == /\ \A l \in RWLocks : RWTyped(p, q, l, Along(q)[k].rwlock[l], k)
                     /\ \A l \in RWWLocks : RWWTyped(p, q, l, Along(q)[k].rwwlock[l], k)
           S == {k \in Nat : k <= Len(q) => All(k)}
<1>0. Len(q) \in Nat /\ IsStack(q)
  BY Stack DEF History
<1>1. 0 \in S
  <2> DEFINE none == <<>>
             zeros == [t \in Threads |-> 0]
  <2>1. PICK s : s = Along(q)[0]
    OBVIOUS
  <2>2. s.rwlock = InitialRWLocks /\ s.rwwlock = InitialRWWLocks
    BY <1>0, <2>1, AlongStack, FreshFields
  <2>3. \A l : \A lane \in SUBSET Halves : Fits(none, Amid(p, q, lane, l, 0))
    BY FitsAtFirst
  <2>4. zeros \in [Threads -> Nat]
    OBVIOUS
  <2> HIDE DEF none, zeros
  <2>5. ASSUME NEW l \in RWLocks PROVE RWTyped(p, q, l, s.rwlock[l], 0)
    <3>1. s.rwlock[l] = [writer |-> {}, readers |-> zeros, readerQ |-> none, writerQ |-> none,
                         acquireQ |-> none]
      BY <2>2 DEF InitialRWLocks, none, zeros
    <3>2. /\ RWHeld(s.rwlock[l]) /\ s.rwlock[l].readerQ = none /\ s.rwlock[l].writerQ = none
          /\ s.rwlock[l].acquireQ = none
      BY <2>4, <3>1 DEF RWHeld, RWShaped
    <3> QED BY <2>3, <3>2, LanesAreHalves DEF RWTyped
  <2>6. ASSUME NEW l \in RWWLocks PROVE RWWTyped(p, q, l, s.rwwlock[l], 0)
    <3>1. s.rwwlock[l] = [writer1 |-> {}, writer2 |-> {}, readers |-> zeros, readerQ |-> none,
                          writer1Q |-> none, writer2Q |-> none, acquireQ |-> none]
      BY <2>2 DEF InitialRWWLocks, none, zeros
    <3>2. /\ RWWHeld(s.rwwlock[l]) /\ s.rwwlock[l].readerQ = none /\ s.rwwlock[l].writer1Q = none
          /\ s.rwwlock[l].writer2Q = none /\ s.rwwlock[l].acquireQ = none
      BY <2>4, <3>1 DEF RWWHeld, RWWShaped
    <3> QED BY <2>3, <3>2, LanesAreHalves DEF RWWTyped
  <2> QED BY <2>1, <2>5, <2>6
<1>2. ASSUME NEW k \in Nat, k \in S PROVE k + 1 \in S
  <2> SUFFICES ASSUME k + 1 <= Len(q) PROVE All(k + 1)
    OBVIOUS
  <2>1. All(k)
    BY <1>0, <1>2
  <2>2. \A l \in RWLocks : RWTyped(p, q, l, Along(q)[k + 1].rwlock[l], k + 1)
    BY <2>1, RWTypedStep
  <2>3. \A l \in RWWLocks : RWWTyped(p, q, l, Along(q)[k + 1].rwwlock[l], k + 1)
    BY <2>1, RWWTypedStep
  <2> QED BY <2>2, <2>3
<1> HIDE DEF S
<1>3. \A k \in Nat : k \in S
  BY <1>1, <1>2, NatSetInduction
<1>4. \A k \in 0..Len(q) : All(k)
  BY <1>0, <1>3 DEF S
<1> QED BY <1>4 DEF LocksTyped, RWTyped, RWWTyped, Fits

LEMMA LooseAlong ==
  ASSUME NEW p \in Programs, NEW q, History(p, q)
  PROVE  \A k \in 0..Len(q) : Loose(Along(q)[k])
<1> DEFINE S == {k \in Nat : k <= Len(q) => Loose(Along(q)[k])}
<1>0. Len(q) \in Nat /\ IsStack(q)
  BY Stack DEF History
<1>1. 0 \in S
  BY <1>0, AlongStack, LooseFresh
<1>2. ASSUME NEW k \in Nat, k \in S PROVE k + 1 \in S
  <2> SUFFICES ASSUME k + 1 <= Len(q) PROVE Loose(Along(q)[k + 1])
    OBVIOUS
  <2>1. k + 1 \in 1..Len(q) /\ (k + 1) - 1 = k /\ Loose(Along(q)[k])
    BY <1>0, <1>2
  <2>2. q[k + 1].tid \in Threads
    BY <2>1, Operated
  <2>3. Along(q)[k + 1] = Apply(Along(q)[k], q[k + 1])
    BY <1>0, <2>1, AlongStack
  <2> QED BY <2>1, <2>2, <2>3, LooseApply
<1> HIDE DEF S
<1>3. \A k \in Nat : k \in S
  BY <1>1, <1>2, NatSetInduction
<1> QED BY <1>0, <1>3 DEF S

LEMMA CutUnaborted ==
  ASSUME NEW q, IsStack(q), Unaborted(q), NEW r, IsStack(r), Len(r) <= Len(q),
         \A i \in 1..Len(r) : r[i] = q[i]
  PROVE  Unaborted(r)
<1>1. Len(r) \in Nat /\ Len(q) \in Nat
  BY Stack
<1>2. \A k \in 0..Len(r) : Along(q)[k] = Along(r)[k]
  <2>1. \A i \in 1..Len(r) : q[i] = r[i]
    OBVIOUS
  <2> QED BY <1>1, <2>1, AlongAlike
<1>3. \A i \in 1..Len(r) : i - 1 \in 0..Len(r) /\ i \in 1..Len(q)
  BY <1>1
<1> QED BY <1>2, <1>3 DEF Unaborted

LEMMA PushUnaborted ==
  ASSUME NEW q, IsStack(q), Unaborted(q), NEW x, NEW r, Extends(r, q, x),
         NEW s, s = Along(q)[Len(q)],
         x.type = "rwUnlock" => HoldsRW(s.rwlock[x.obj], x.tid),
         x.type = "rwwUnlock" => HoldsRWW(s.rwwlock[x.obj], x.tid)
  PROVE  Unaborted(r)
<1>0. PICK n : n = Len(q)
  OBVIOUS
<1>1. n \in Nat /\ IsStack(r) /\ Len(r) = n + 1 /\ r[n + 1] = x /\ \A i \in 1..n : r[i] = q[i]
  BY <1>0, Stack, Pushed DEF Extends
<1>2. \A k \in 0..n : Along(q)[k] = Along(r)[k]
  <2>1. n <= Len(r) /\ n <= Len(q)
    BY <1>0, <1>1
  <2>2. \A i \in 1..n : q[i] = r[i]
    BY <1>1
  <2> QED BY <1>0, <1>1, <2>1, <2>2, AlongAlike
<1>3. \A i \in 1..Len(r) : i - 1 \in 0..n /\ (i \in 1..n \/ (i = n + 1 /\ i - 1 = n))
  <2>1. Len(r) = n + 1 /\ n \in Nat
    BY <1>1
  <2>2. \A i \in 1..(n + 1) : i - 1 \in 0..n /\ (i \in 1..n \/ (i = n + 1 /\ i - 1 = n))
    BY ONLY <2>1
  <2> QED BY <2>1, <2>2
<1> QED BY <1>0, <1>1, <1>2, <1>3 DEF Unaborted

LEMMA UnabortedNext ==
  ASSUME IInv, TraceInv, Unaborted(tstack), [Next]_vars
  PROVE  Unaborted(tstack')
<1>1. CASE Run
  <2> DEFINE tr == next[leader]
             x == StaticCopy(objs, tr)
  <2>1. tstack' = Append(tstack, x) /\ ~Aborts(objs, tr)
    BY <1>1 DEF Run, RunIsFatal
  <2>2. IsStack(tstack) /\ objs.rwlock = Shadow.rwlock /\ objs.rwwlock = Shadow.rwwlock
    BY DEF IInv, StacksMatch, TraceInv, Traced, Agrees
  <2>3. x.tid = tr.tid /\ x.type = tr.type /\ x.obj = tr.obj
    BY CopyOperation
  <2> HIDE DEF x, tr
  <2>4. /\ x.type = "rwUnlock" => HoldsRW(Shadow.rwlock[x.obj], x.tid)
        /\ x.type = "rwwUnlock" => HoldsRWW(Shadow.rwwlock[x.obj], x.tid)
    BY <2>1, <2>2, <2>3 DEF Aborts, AbortsInRWUnlock, AbortsInRWWUnlock
  <2>5. Extends(tstack', tstack, x) /\ Shadow = Along(tstack)[Len(tstack)]
    BY <2>1 DEF Extends, Shadow
  <2> QED BY <2>2, <2>4, <2>5, PushUnaborted
<1>2. CASE ~Run
  <2>1. PICK m : Keeps(m)
    <3>1. CASE Branch
      BY <3>1, BranchKeeps
    <3>2. CASE ~Branch
      BY <1>2, <3>2, OtherSteps
    <3> QED BY <3>1, <3>2
  <2>2. IsStack(tstack) /\ IsStack(tstack')
    BY NextInv DEF IInv, StacksMatch
  <2>3. Len(tstack) \in Nat
    BY <2>2, Stack
  <2> QED BY <2>1, <2>2, <2>3, CutUnaborted DEF Keeps
<1> QED BY <1>1, <1>2

LEMMA LooseReverted ==
  ASSUME NEW s, Loose(s), NEW w, IsStack(w)
  PROVE  Loose(FoldLeft(Unapply, s, w))
<1>1. PICK h : Takes("undo", prog, s, w, h) /\ FoldLeft(Unapply, s, w) = h[Len(w)]
  BY UndoneOneByOne
<1>2. h[0] = s /\ \A j \in 1..Len(w) : h[j] = Unapply(h[j - 1], w[j])
  BY <1>1 DEF Takes, Turn
<1> DEFINE S == {j \in Nat : j <= Len(w) => Loose(h[j])}
<1>3. Len(w) \in Nat
  BY Stack
<1>4. 0 \in S
  BY <1>2
<1>5. ASSUME NEW j \in Nat, j \in S PROVE j + 1 \in S
  <2> SUFFICES ASSUME j + 1 <= Len(w) PROVE Loose(h[j + 1])
    OBVIOUS
  <2>1. j + 1 \in 1..Len(w) /\ (j + 1) - 1 = j /\ Loose(h[j])
    BY <1>3, <1>5
  <2>2. h[j + 1] = Unapply(h[j], w[j + 1])
    BY <1>2, <2>1
  <2> QED BY <2>1, <2>2, LooseUndo
<1> HIDE DEF S
<1>6. \A j \in Nat : j \in S
  BY <1>4, <1>5, NatSetInduction
<1> QED BY <1>1, <1>3, <1>6 DEF S

LEMMA LooseNext ==
  ASSUME IInv, TraceInv, Loose(objs), [Next]_vars
  PROVE  Loose(objs')
<1>1. CASE Run
  <2> DEFINE tr == next[leader]
  <2>1. PICK post : /\ objs' = WhenRead(Apply(objs, tr), post)
                    /\ post = Posted(leader, pc[leader] + 1)
    BY <1>1 DEF Run
  <2>2. post \in Transition /\ tr.tid \in Threads
    BY <2>1, PostedOp DEF IInv, ThreadsKnown
  <2> HIDE DEF tr
  <2> QED BY <2>1, <2>2, LooseApply, LooseRead
<1>2. CASE Branch
  <2>1. PICK b \in 1..Len(tstack) : \E t \in sstack[b].backtrack :
            IF CanRunInReverseTo(b) THEN Revert(b) ELSE Replay(b)
    BY <1>2, BranchesTo
  <2>2. CASE CanRunInReverseTo(b)
    <3>1. PICK w : w = Reverse(SubSeq(tstack, b, Len(tstack)))
      OBVIOUS
    <3>2. objs' = FoldLeft(Unapply, objs, w)
      BY <2>1, <2>2, <3>1 DEF Revert
    <3>3. IsStack(w)
      BY <3>1, Backwards DEF IInv, StacksMatch
    <3> QED BY <3>2, <3>3, LooseReverted
  <2>3. CASE ~CanRunInReverseTo(b)
    <3>1. objs' = FoldLeft(Apply, InitialObjects, SubSeq(tstack, 1, b - 1))
      BY <2>1, <2>3 DEF Replay
    <3>2. objs' = Along(tstack)[b - 1]
      BY <2>1, <3>1, FirstState, ReplayedObjects
    <3>3. b - 1 \in 0..Len(tstack) /\ History(prog, tstack) /\ prog \in Programs
      BY Stack DEF IInv, StacksMatch, ThreadsKnown, TraceInv, Traced
    <3> QED BY <3>2, <3>3, LooseAlong
  <2> QED BY <2>2, <2>3
<1>3. CASE ~Run /\ ~Branch
  <2>1. UNCHANGED objs
    BY <1>3 DEF Next, vars, schedVars, LimitReached, UpdateOther, UpdateLast, Crash, Choose,
      EndTrace, Finished
  <2> QED BY <2>1
<1> QED BY <1>1, <1>2, <1>3

\* The objects of the scheduler have their types.
LEMMA ObjectsAreTyped ==
  ASSUME IInv, TraceInv, Unaborted(tstack), Loose(objs), InTwoHalves(prog)
  PROVE  objs \in Objects
<1>1. /\ History(prog, tstack) /\ prog \in Programs /\ Len(tstack) \in 0..Len(tstack)
      /\ Agrees(prog, objs, Shadow) /\ AreObjects(objs)
  BY Stack DEF IInv, ThreadsKnown, TraceInv, Traced, History, Loose
<1>2. LocksTyped(Shadow) /\ WellKept(Shadow)
  BY <1>1, LocksTypedAlong, WellKeptAlong DEF Shadow
<1>3. objs.rwlock \in RWStates
  <2> SUFFICES ASSUME NEW l \in RWLocks
               PROVE  objs.rwlock[l] \in [writer : SUBSET Threads, readers : [Threads -> Nat],
                                          readerQ : Seq(Threads), writerQ : Seq(Threads),
                                          acquireQ : Seq(Threads)]
    BY <1>1 DEF RWStates, AreObjects, HaveFields
  <2>1. PICK lock : lock = objs.rwlock[l] /\ lock = Shadow.rwlock[l]
    BY <1>1 DEF Agrees
  <2>2. /\ RWHeld(lock) /\ lock.readerQ \in Seq(Threads) /\ lock.writerQ \in Seq(Threads)
        /\ lock.acquireQ \in Seq(Threads)
    BY <1>2, <2>1 DEF LocksTyped
  <2> QED BY <2>1, <2>2 DEF RWHeld, RWShaped
<1>4. objs.rwwlock \in RWWStates
  <2> SUFFICES ASSUME NEW l \in RWWLocks
               PROVE  objs.rwwlock[l] \in
                        [writer1 : SUBSET Threads, writer2 : SUBSET Threads,
                         readers : [Threads -> Nat], readerQ : Seq(Threads),
                         writer1Q : Seq(Threads), writer2Q : Seq(Threads),
                         acquireQ : Seq(Threads)]
    BY <1>1 DEF RWWStates, AreObjects, HaveFields
  <2>1. PICK lock : lock = objs.rwwlock[l] /\ lock = Shadow.rwwlock[l]
    BY <1>1 DEF Agrees
  <2>2. /\ RWWHeld(lock) /\ lock.readerQ \in Seq(Threads) /\ lock.writer1Q \in Seq(Threads)
        /\ lock.writer2Q \in Seq(Threads) /\ lock.acquireQ \in Seq(Threads)
    BY <1>2, <2>1 DEF LocksTyped
  <2>3. PICK w1, w2, r, a, b, c, d :
            /\ w1 = lock.writer1 /\ w2 = lock.writer2 /\ r = lock.readers /\ a = lock.readerQ
            /\ b = lock.writer1Q /\ c = lock.writer2Q /\ d = lock.acquireQ
    OBVIOUS
  <2>4. /\ w1 \in SUBSET Threads /\ w2 \in SUBSET Threads /\ r \in [Threads -> Nat]
        /\ a \in Seq(Threads) /\ b \in Seq(Threads) /\ c \in Seq(Threads) /\ d \in Seq(Threads)
    BY <2>2, <2>3 DEF RWWHeld
  <2>5. lock = [writer1 |-> w1, writer2 |-> w2, readers |-> r, readerQ |-> a, writer1Q |-> b,
                writer2Q |-> c, acquireQ |-> d]
    BY <2>2, <2>3 DEF RWWHeld, RWWShaped
  <2> QED BY <2>1, <2>4, <2>5
<1>5. objs.cond \in CondStates
  <2> SUFFICES ASSUME NEW c \in Conds
               PROVE  objs.cond[c] \in [mutex : SUBSET Mutexes, waiters : SUBSET Threads,
                                        groups : Seq(SUBSET Threads), spurious : Nat]
    BY <1>1 DEF CondStates, AreObjects, HaveFields
  <2>1. PICK cond : cond = objs.cond[c]
    OBVIOUS
  <2>2. CondTyped(cond)
    BY <2>1 DEF Loose
  <2>3. AreNested(cond.groups, cond.waiters)
    BY <1>1, <1>2, <2>1 DEF Agrees, WellKept, Nested
  <2>4. cond.groups \in Seq(SUBSET Threads)
    <3>1. \A i \in 1..Len(cond.groups) : cond.groups[i] \in SUBSET Threads
      BY <2>2, <2>3 DEF AreNested, CondTyped
    <3>2. PICK S : cond.groups \in Seq(S)
      BY <2>3 DEF AreNested, IsStack
    <3> QED BY <3>1, <3>2
  <2> QED BY <2>1, <2>2, <2>4 DEF CondTyped
<1>6. objs.count \in Counts /\ objs.queue \in Queues
  BY <1>1 DEF Loose, SemsTyped, Counts, Queues, AreObjects, HaveFields
<1>7. objs.thread \in ThreadStates /\ objs.mutex \in MutexStates /\ objs.barrier \in BarrierStates
  BY DEF Loose
<1>8. objs = [thread |-> objs.thread, mutex |-> objs.mutex, count |-> objs.count,
              queue |-> objs.queue, cond |-> objs.cond, barrier |-> objs.barrier,
              rwlock |-> objs.rwlock, rwwlock |-> objs.rwwlock]
  BY <1>1 DEF AreObjects, HaveFields, Whole
<1> QED BY <1>3, <1>4, <1>5, <1>6, <1>7, <1>8 DEF Objects

-----------------------------------------------------------------------------
(* The types of what the scheduler keeps about states and threads.          *)

\* What another step makes of a state it leaves on the stack.
Revised(item) == {item} \cup {Searched(item, t) : t \in Threads}

Revises(new, old) == \/ new \in Revised(old)
                     \/ \E B : new = [old EXCEPT !.backtrack = B]

LEMMA QueueItems ==
  ASSUME IInv, NEW k \in 1..Len(sstack), NEW B, sstack' = [sstack EXCEPT ![k].backtrack = B]
  PROVE  /\ Len(sstack') <= Len(sstack)
         /\ \A i \in 1..Len(sstack') : Revises(sstack'[i], sstack[i])
<1> DEFINE y == [sstack[k] EXCEPT !.backtrack = B]
<1>1. IsStack(sstack)
  BY DEF IInv, StacksMatch
<1>2. Overwrites(sstack', sstack, k, y)
  BY DEF Overwrites
<1>3. Revises(y, sstack[k])
  BY DEF Revises
<1> HIDE DEF y
<1>4. /\ Len(sstack') = Len(sstack)
      /\ \A i \in 1..Len(sstack) : sstack'[i] = IF i = k THEN y ELSE sstack[i]
  BY <1>1, <1>2, Written
<1>5. \A item : Revises(item, item)
  BY DEF Revises, Revised
<1>6. Len(sstack) \in Nat
  BY <1>1 DEF IsStack
<1> QED BY <1>3, <1>4, <1>5, <1>6

LEMMA OtherItems ==
  ASSUME IInv, [Next]_vars, ~Run
  PROVE  /\ Len(sstack') <= Len(sstack)
         /\ \A i \in 1..Len(sstack') : Revises(sstack'[i], sstack[i])
<1>0. /\ Len(sstack) \in Nat /\ Len(tstack) \in Nat /\ Len(sstack) = Len(tstack) + 1
      /\ IsStack(sstack) /\ IsStack(tstack) /\ DOMAIN sstack = 1..Len(sstack)
  BY Stack DEF IInv, StacksMatch
<1>1. \A item : Revises(item, item)
  BY DEF Revises, Revised
<1>2. CASE UNCHANGED sstack
  BY <1>0, <1>1, <1>2
<1>3. CASE ~UNCHANGED sstack /\ \E p \in Threads : UpdateOther(p)
  <2>1. PICK B : sstack' = [sstack EXCEPT ![Len(tstack)].backtrack = B]
    BY <1>3 DEF UpdateOther
  <2>2. stage = "others"
    BY <1>3 DEF UpdateOther
  <2>3. Len(tstack) # 0
    BY <2>2 DEF IInv, StacksMatch, TopItem, Between, IsStack
  <2>4. Len(tstack) \in 1..Len(sstack)
    BY <1>0, <2>3
  <2> QED BY <2>1, <2>4, QueueItems
<1>4. CASE ~UNCHANGED sstack /\ UpdateLast
  <2> DEFINE cs == Conflicts(Last(tstack).tid)
  <2>1. cs # {} /\ \E B : sstack' = [sstack EXCEPT ![Max(cs)].backtrack = B]
    BY <1>4 DEF UpdateLast
  <2>2. cs \in SUBSET (1..(Len(tstack) - 1))
    BY DEF Conflicts
  <2>3. Max(cs) \in 1..Len(sstack)
    <3> HIDE DEF cs
    <3>1. cs \in SUBSET (1..Len(sstack)) /\ Len(sstack) \in Nat
      BY <1>0, <2>2
    <3> QED BY <2>1, <3>1, MaxIsElement
  <2> HIDE DEF cs
  <2>4. PICK k, B : k = Max(cs) /\ sstack' = [sstack EXCEPT ![k].backtrack = B]
    BY <2>1
  <2> QED BY <2>3, <2>4, QueueItems
<1>5. CASE Branch
  <2>1. PICK b \in 1..Len(sstack) : b = Max(BranchPoints) /\ sstack[b].backtrack # {}
    <3>1. BranchPoints \in SUBSET (1..Len(sstack)) /\ BranchPoints # {}
      BY <1>0, <1>5 DEF BranchPoints, Branch
    <3>2. Max(BranchPoints) \in BranchPoints
      BY <1>0, <3>1, MaxIsElement
    <3> QED BY <3>1, <3>2 DEF BranchPoints
  <2>2. PICK t \in sstack[b].backtrack :
            sstack' = [SubSeq(sstack, 1, b) EXCEPT ![b] = Searched(@, t)]
    BY <1>5, <2>1 DEF Branch
  <2>3. t \in Threads
    BY <2>1, <2>2 DEF IInv, ItemsSound, ItemSound, ThreadsKnown
  <2> DEFINE item == Searched(sstack[b], t)
             reopened == [SubSeq(sstack, 1, b) EXCEPT ![b] = item]
  <2>4. SubSeq(sstack, 1, b)[b] = sstack[b]
    <3>1. b \in 0..Len(sstack) /\ b \in 1..b
      BY <1>0, <2>1
    <3> QED BY <1>0, <3>1, Truncated
  <2>5. sstack' = reopened /\ Revises(item, sstack[b])
    BY <2>2, <2>3, <2>4 DEF Revises, Revised
  <2> HIDE DEF item
  <2>6. /\ Len(reopened) = b
        /\ \A i \in 1..b : reopened[i] = IF i = b THEN item ELSE sstack[i]
    <3>1. PICK z : z = [SubSeq(sstack, 1, b) EXCEPT ![b] = item]
      OBVIOUS
    <3>2. Len(z) = b /\ \A i \in 1..b : z[i] = IF i = b THEN item ELSE sstack[i]
      BY ONLY <1>0, <2>1, <3>1, Reopened
    <3> QED BY <3>1, <3>2
  <2> HIDE DEF reopened
  <2>7. b <= Len(sstack)
    BY <1>0, <2>1
  <2>8. \A i \in 1..b : Revises(reopened[i], sstack[i])
    BY <1>1, <2>5, <2>6
  <2> QED BY <2>5, <2>6, <2>7, <2>8
<1> QED BY <1>2, <1>3, <1>4, <1>5 DEF Next, vars, schedVars, LimitReached, Crash, Choose,
      EndTrace, Finished

\* The parts of a state that ItemSound says nothing of: no clock in the state after i
\* transitions is later than they are.
ItemTyped(item, i) == /\ item.clock \in [Threads -> 1..i]
                      /\ item.done \subseteq Threads /\ item.sleep \subseteq Threads

ItemsTyped == \A i \in 1..Len(sstack) : ItemTyped(sstack[i], i)

LEMMA RevisedTyped ==
  ASSUME NEW new, NEW old, Shaped(old), Revises(new, old), NEW i, ItemTyped(old, i)
  PROVE  ItemTyped(new, i)
<1>1. CASE new = old
  BY <1>1
<1>2. ASSUME NEW t \in Threads, new = Searched(old, t) PROVE ItemTyped(new, i)
  BY <1>2, SearchedFields DEF ItemTyped
<1>3. ASSUME NEW B, new = [old EXCEPT !.backtrack = B] PROVE ItemTyped(new, i)
  <2>1. new = [clock |-> old.clock, backtrack |-> B, done |-> old.done, sleep |-> old.sleep,
               enabled |-> old.enabled]
    BY <1>3, OneField
  <2> QED BY <2>1 DEF ItemTyped
<1> QED BY <1>1, <1>2, <1>3 DEF Revises, Revised

\* The clock of a transition is not later than the transition.
LEMMA ClockOfTyped ==
  ASSUME IInv, ItemsTyped, NEW tr, NEW n, n = Len(tstack)
  PROVE  ClockOf(tr) \in [Threads -> 1..(n + 1)]
<1>1. n \in Nat /\ DOMAIN tstack = 1..n /\ Len(sstack) = n + 1
  BY Stack DEF IInv, StacksMatch
<1> SUFFICES ASSUME NEW t \in Threads PROVE ClockOf(tr)[t] \in 1..(n + 1)
  BY DEF ClockOf
<1> DEFINE before == {i \in DOMAIN tstack : Dependent(tstack[i], Live(objs, tr))}
           T == {1} \cup {sstack[i + 1].clock[t] : i \in before}
<1>2. ClockOf(tr)[t] = Max(T)
  BY DEF ClockOf
<1>3. \A i \in 1..n : sstack[i + 1].clock[t] \in 1..(n + 1)
  <2> SUFFICES ASSUME NEW i \in 1..n PROVE sstack[i + 1].clock[t] \in 1..(n + 1)
    OBVIOUS
  <2>1. i + 1 \in 1..Len(sstack) /\ i + 1 <= n + 1
    BY <1>1
  <2>2. sstack[i + 1].clock[t] \in 1..(i + 1)
    BY <2>1 DEF ItemsTyped, ItemTyped
  <2> QED BY <1>1, <2>1, <2>2
<1>4. before \subseteq 1..n
  BY <1>1
<1> HIDE DEF before
<1>5. T \in SUBSET (1..(n + 1)) /\ T # {} /\ n + 1 \in Nat
  BY <1>1, <1>3, <1>4
<1> HIDE DEF T
<1> QED BY <1>2, <1>5, MaxIsElement

LEMMA ItemsTypedNext ==
  ASSUME IInv, ItemsTyped, [Next]_vars
  PROVE  ItemsTyped'
<1>1. CASE Run
  <2>1. PICK n : n = Len(tstack)
    OBVIOUS
  <2>2. PICK cv, asleep : /\ cv = [ClockOf(next[leader]) EXCEPT ![leader] = n + 1]
                          /\ asleep = StillAsleep(next[leader])
    OBVIOUS
  <2>3. /\ n \in Nat /\ leader \in Threads /\ Len(sstack) = n + 1 /\ Len(sstack') = n + 2
        /\ \A i \in 1..n : sstack'[i] = sstack[i]
        /\ sstack'[n + 1] = LeftBy(sstack[n + 1], leader) /\ sstack'[n + 2] = NewItem(cv, asleep)
    BY <1>1, <2>1, <2>2, RunItems
  <2>4. n + 1 \in 1..Len(sstack) /\ \A i \in 1..n : i \in 1..Len(sstack)
    BY <2>3
  <2>5. ItemTyped(sstack'[n + 1], n + 1)
    <3>1. ItemTyped(sstack[n + 1], n + 1) /\ ItemSound(sstack[n + 1], DOMAIN next)
      BY <2>4 DEF ItemsTyped, IInv, ItemsSound
    <3>2. PICK old : old = sstack[n + 1]
      OBVIOUS
    <3>3. /\ LeftBy(old, leader).done = old.done \cup {leader}
          /\ LeftBy(old, leader).sleep = old.sleep \cup {leader}
          /\ LeftBy(old, leader).clock = old.clock
      BY <3>1, <3>2, LeftItem, ClockOfItem DEF ItemSound
    <3> QED BY <2>3, <3>1, <3>2, <3>3 DEF ItemTyped
  <2>6. ItemTyped(sstack'[n + 2], n + 2)
    <3>1. ClockOf(next[leader]) \in [Threads -> 1..(n + 1)]
      BY <2>1, ClockOfTyped
    <3>2. cv \in [Threads -> 1..(n + 2)]
      <4>1. \A k \in 1..(n + 1) : k \in 1..(n + 2)
        BY <2>3
      <4>2. n + 1 \in 1..(n + 2)
        BY <2>3
      <4> QED BY <2>2, <2>3, <3>1, <4>1, <4>2
    <3>3. asleep \subseteq Threads
      <4>1. Last(sstack) = sstack[n + 1]
        BY <2>3 DEF Last
      <4> QED BY <2>2, <2>4, <4>1 DEF StillAsleep, ItemsTyped, ItemTyped
    <3>4. /\ sstack'[n + 2].clock = cv /\ sstack'[n + 2].done = {}
          /\ sstack'[n + 2].sleep = asleep
      BY <2>3 DEF NewItem
    <3> QED BY <3>2, <3>3, <3>4 DEF ItemTyped
  <2>7. \A i \in 1..(n + 2) : i \in 1..n \/ i = n + 1 \/ i = n + 2
    BY <2>3
  <2> QED BY <2>3, <2>4, <2>5, <2>6, <2>7 DEF ItemsTyped
<1>2. CASE ~Run
  <2> SUFFICES ASSUME NEW i \in 1..Len(sstack') PROVE ItemTyped(sstack'[i], i)
    BY DEF ItemsTyped
  <2>1. Len(sstack') <= Len(sstack) /\ Revises(sstack'[i], sstack[i])
    BY <1>2, OtherItems
  <2>2. Len(sstack') \in Nat /\ Len(sstack) \in Nat
    BY NextInv, Stack DEF IInv, StacksMatch
  <2>3. i \in 1..Len(sstack)
    BY <2>1, <2>2
  <2>4. Shaped(sstack[i]) /\ ItemTyped(sstack[i], i)
    BY <2>3 DEF ItemsTyped, IInv, ItemsSound, ItemSound
  <2> QED BY <2>1, <2>4, RevisedTyped
<1> QED BY <1>1, <1>2

\* The clocks of the threads are clocks of states of the stack.
ThreadClocks == clock \in [Threads -> [Threads -> Nat]]

LEMMA ThreadClocksNext ==
  ASSUME IInv, ItemsTyped, ThreadClocks, [Next]_vars
  PROVE  ThreadClocks'
<1> USE DEF ThreadClocks
<1>0. /\ Len(tstack) \in Nat /\ Len(sstack) = Len(tstack) + 1
  BY Stack DEF IInv, StacksMatch
<1>1. ASSUME NEW i \in 1..Len(tstack) PROVE sstack[i + 1].clock \in [Threads -> Nat]
  <2>1. i + 1 \in 1..Len(sstack) /\ \A k \in 1..(i + 1) : k \in Nat
    BY <1>0
  <2>2. sstack[i + 1].clock \in [Threads -> 1..(i + 1)]
    BY <2>1 DEF ItemsTyped, ItemTyped
  <2> QED BY <2>1, <2>2
<1>2. CASE Run
  <2>1. PICK n : n = Len(tstack)
    OBVIOUS
  <2>2. PICK cv : cv = [ClockOf(next[leader]) EXCEPT ![leader] = n + 1]
    OBVIOUS
  <2>3. leader \in Threads /\ clock' = [clock EXCEPT ![leader] = cv]
    BY <1>2, <2>1, <2>2, RunPushes
  <2>4. ClockOf(next[leader]) \in [Threads -> 1..(n + 1)] /\ n + 1 \in Nat
    BY <1>0, <2>1, ClockOfTyped
  <2>5. \A k \in 1..(n + 1) : k \in Nat
    BY <2>4
  <2>6. cv \in [Threads -> Nat]
    BY <2>2, <2>3, <2>4, <2>5
  <2> QED BY <2>3, <2>6
<1>3. CASE Branch
  <2>1. PICK b \in 1..Len(tstack) : IF CanRunInReverseTo(b) THEN Revert(b) ELSE Replay(b)
    BY <1>3, BranchesTo
  <2>2. CASE CanRunInReverseTo(b)
    <3>1. clock' = [t \in Threads |->
                        IF Of(t, Dropped(b)) = {} THEN clock[t]
                        ELSE sstack[Min(Of(t, Dropped(b))) + 1].clock]
      BY <2>1, <2>2 DEF Revert
    <3>2. ASSUME NEW t \in Threads, Of(t, Dropped(b)) # {}
          PROVE  Min(Of(t, Dropped(b))) \in 1..Len(tstack)
      <4>1. Min(Of(t, Dropped(b))) \in b..Len(tstack)
        BY <3>2, FirstDropped
      <4> QED BY <1>0, <4>1
    <3> QED BY <1>1, <3>1, <3>2
  <2>3. CASE ~CanRunInReverseTo(b)
    <3>1. clock' = [t \in Threads |->
                        IF Of(t, Kept(b)) = {} THEN clock[t]
                        ELSE sstack[Max(Of(t, Kept(b))) + 1].clock]
      BY <2>1, <2>3 DEF Replay
    <3>2. ASSUME NEW t \in Threads, Of(t, Kept(b)) # {}
          PROVE  Max(Of(t, Kept(b))) \in 1..Len(tstack)
      <4>1. PICK T : T = Of(t, Kept(b))
        OBVIOUS
      <4>2. T \in SUBSET (1..Len(tstack)) /\ T # {}
        BY <1>0, <3>2, <4>1 DEF Of, Kept
      <4> QED BY <1>0, <4>1, <4>2, MaxIsElement
    <3> QED BY <1>1, <3>1, <3>2
  <2> QED BY <2>2, <2>3
<1>4. CASE ~Run /\ ~Branch
  BY <1>4, OtherSteps
<1> QED BY <1>2, <1>3, <1>4

\* Where the scheduler is, and what the threads are to do next.
Staged == stage \in Stages /\ pending \subseteq Threads

NextTyped == \A t \in DOMAIN next : next[t] \in Transition

TypeInv == /\ Unaborted(tstack) /\ Loose(objs)
           /\ ItemsTyped /\ ThreadClocks /\ Staged /\ NextTyped

LEMMA TypeInit == Init => TypeInv
<1> SUFFICES ASSUME Init PROVE TypeInv
  OBVIOUS
<1>1. Unaborted(tstack)
  <2>1. Len(tstack) = 0
    BY DEF Init
  <2> QED BY <2>1 DEF Unaborted
<1>2. Loose(objs)
  <2>1. objs = Fresh
    BY DEF Init, Fresh, StartState
  <2> QED BY <2>1, LooseFresh
<1>3. NoClock \in [Threads -> 1..1] /\ NoClock \in [Threads -> Nat]
  BY DEF NoClock
<1>4. ItemsTyped
  <2> DEFINE item == NewItem(NoClock, {})
  <2>1. ItemTyped(item, 1)
    BY <1>3 DEF NewItem, ItemTyped
  <2>2. sstack = <<item>>
    BY DEF Init
  <2> HIDE DEF item
  <2>3. \A i \in 1..Len(sstack) : i = 1 /\ sstack[i] = item
    BY <2>2
  <2> QED BY <2>1, <2>3 DEF ItemsTyped
<1>5. ThreadClocks
  BY <1>3 DEF Init, ThreadClocks
<1>6. Staged
  BY DEF Init, Staged, Stages
<1>7. NextTyped
  <2>1. prog \in Programs /\ Main \in Threads
    BY ThreadsAssumption DEF Init
  <2>2. Op(prog, Main, 0) \in Transition
    BY <2>1, OpTyped
  <2> QED BY <2>2 DEF Init, NextTyped, Posted
<1> QED BY <1>1, <1>2, <1>4, <1>5, <1>6, <1>7 DEF TypeInv

LEMMA StagedNext ==
  ASSUME IInv, Staged, [Next]_vars
  PROVE  Staged'
<1>1. CASE Run
  <2>1. DOMAIN next' \subseteq Threads
    BY NextInv DEF IInv, ThreadsKnown
  <2>2. \/ stage' = "undefined" /\ pending' = pending
        \/ stage' = "others" /\ pending' = DOMAIN next' \ {leader}
    BY <1>1 DEF Run
  <2> QED BY <2>1, <2>2 DEF Staged, Stages, Ends
<1>2. CASE \E p \in Threads : UpdateOther(p)
  BY <1>2 DEF UpdateOther, Staged
<1>3. CASE UpdateLast \/ LimitReached \/ Crash \/ Choose \/ EndTrace \/ Branch \/ Finished
  <2>1. pending' = pending /\ stage' \in Stages
    BY <1>3 DEF UpdateLast, LimitReached, Crash, Choose, EndTrace, Branch, Finished, Stages, Ends
  <2> QED BY <2>1 DEF Staged
<1>4. CASE UNCHANGED vars
  BY <1>4 DEF vars, Staged
<1> QED BY <1>1, <1>2, <1>3, <1>4 DEF Next

LEMMA NextTypedNext ==
  ASSUME IInv, TraceInv, NextTyped, [Next]_vars
  PROVE  NextTyped'
<1>1. CASE stage' # "undefined"
  <2>1. /\ prog' \in Programs /\ pc' \in [Threads -> Nat] /\ DOMAIN next' \subseteq Threads
        /\ \A t \in DOMAIN next' : next'[t] = Op(prog', t, pc'[t])
    BY <1>1, NextInv, TraceNext DEF IInv, ThreadsKnown, TraceInv, NextTraced
  <2>2. ASSUME NEW t \in DOMAIN next' PROVE next'[t] \in Transition
    <3>1. t \in Threads /\ pc'[t] \in Nat
      BY <2>1, <2>2
    <3> QED BY <2>1, <2>2, <3>1, OpTyped
  <2> QED BY <2>2 DEF NextTyped
<1>2. CASE stage' = "undefined"
  <2>1. next' = next
    <3>1. CASE Run
      BY <1>2, <3>1 DEF Run
    <3>2. CASE ~Run
      <4>1. ~Branch
        BY <1>2 DEF Branch
      <4> QED BY <3>2, <4>1, OtherSteps
    <3> QED BY <3>1, <3>2
  <2> QED BY <2>1 DEF NextTyped
<1> QED BY <1>1, <1>2

LEMMA TypeNext ==
  ASSUME IInv, TraceInv, TypeInv, [Next]_vars
  PROVE  TypeInv'
<1> USE DEF TypeInv
<1>1. Unaborted(tstack')
  BY UnabortedNext
<1>2. Loose(objs')
  BY LooseNext
<1>3. ItemsTyped' /\ ThreadClocks'
  BY ItemsTypedNext, ThreadClocksNext
<1>4. Staged' /\ NextTyped'
  BY StagedNext, NextTypedNext
<1>5. Unaborted(tstack)' /\ Loose(objs)'
  BY <1>1, <1>2 DEF Unaborted, Loose
<1> QED BY <1>3, <1>4, <1>5

LEMMA TypesFollow ==
  ASSUME IInv, TraceInv, TypeInv, InTwoHalves(prog)
  PROVE  TypeOK
<1>1. /\ prog \in Programs /\ pc \in [Threads -> Nat] /\ DOMAIN next \subseteq Threads
      /\ leader \in Threads /\ \A t \in DOMAIN next : next[t] \in Transition /\ next[t].tid = t
  BY DEF IInv, ThreadsKnown, TypeInv, NextTyped
<1>2. objs \in Objects
  BY ObjectsAreTyped DEF TypeInv
<1>3. /\ Len(tstack) \in Nat /\ DOMAIN tstack = 1..Len(tstack) /\ Len(sstack) = Len(tstack) + 1
      /\ IsStack(sstack) /\ DOMAIN sstack = 1..Len(sstack)
  BY Stack DEF IInv, StacksMatch
<1>4. depth \in [Threads -> Nat]
  BY <1>3, Ranges DEF TraceInv, Counted
<1>5. \A i \in DOMAIN tstack : Operation(tstack[i]) \in Transition
  <2> SUFFICES ASSUME NEW i \in 1..Len(tstack) PROVE Operation(tstack[i]) \in Transition
    BY <1>3
  <2>1. i - 1 \in Nat
    BY <1>3
  <2>2. /\ tstack[i].tid \in Threads
        /\ Operation(tstack[i]) = Op(prog, tstack[i].tid, Times(tstack, tstack[i].tid, i - 1))
    BY DEF TraceInv, Traced, History
  <2>3. Times(tstack, tstack[i].tid, i - 1) \in Nat
    BY <2>1, Ranges
  <2> QED BY <1>1, <2>2, <2>3, OpTyped
<1>6. sstack \in Seq(ItemType)
  <2>1. ASSUME NEW i \in 1..Len(sstack) PROVE sstack[i] \in ItemType
    <3>1. ItemTyped(sstack[i], i) /\ ItemSound(sstack[i], DOMAIN next)
      BY DEF TypeInv, ItemsTyped, IInv, ItemsSound
    <3>2. PICK item : item = sstack[i]
      OBVIOUS
    <3>3. \A k \in 1..i : k \in Nat
      BY <1>3
    <3>4. /\ item.clock \in [Threads -> Nat] /\ item.done \in SUBSET Threads
          /\ item.sleep \in SUBSET Threads
      BY <3>1, <3>2, <3>3 DEF ItemTyped
    <3>5. item.backtrack \in SUBSET Threads /\ item.enabled \in SUBSET Threads /\ Shaped(item)
      BY <1>1, <3>1, <3>2 DEF ItemSound
    <3>6. item \in ItemType
      BY <3>4, <3>5 DEF Shaped, ItemType
    <3> QED BY <3>2, <3>6
  <2> QED BY <1>3, <2>1 DEF IsStack
<1>7. \A i \in DOMAIN irrev : irrev[i] \in DOMAIN sstack /\ (i > 1 => irrev[i - 1] < irrev[i])
  <2>1. /\ Len(irrev) \in Nat /\ DOMAIN irrev = 1..Len(irrev)
        /\ \A k \in 1..Len(irrev) : irrev[k] \in 1..(Len(tstack) + 1)
        /\ \A j, k \in 1..Len(irrev) : j < k => irrev[j] < irrev[k]
    BY Stack DEF TraceInv, Irreversibles
  <2>2. \A i \in 1..Len(irrev) : i > 1 => i - 1 \in 1..Len(irrev) /\ i - 1 < i
    BY <2>1
  <2> QED BY <1>3, <2>1, <2>2
<1>8. stage \in Stages /\ pending \subseteq Threads
  BY DEF TypeInv, Staged
<1>9. clock \in [Threads -> [Threads -> Nat]]
  BY DEF TypeInv, ThreadClocks
<1> QED BY <1>1, <1>2, <1>3, <1>4, <1>5, <1>6, <1>7, <1>8, <1>9 DEF TypeOK

\* Type correctness of the search, in programs where the two halves of taking a lock and
\* of waiting on a condition variable follow each other, as the library's wrappers make
\* them: what is pushed on the stacks, undone from them and replayed, every clock and
\* every queue of a lock stays of its type, and the irreversible states stay in order.
THEOREM TypesAreKept == Spec => [](InTwoHalves(prog) => TypeOK)
<1>1. Init => IInv /\ TraceInv /\ TypeInv
  BY InitInv, TraceInit, TypeInit
<1>2. IInv /\ TraceInv /\ TypeInv /\ [Next]_vars => (IInv /\ TraceInv /\ TypeInv)'
  BY NextInv, TraceNext, TypeNext
<1>3. IInv /\ TraceInv /\ TypeInv => (InTwoHalves(prog) => TypeOK)
  BY TypesFollow
<1> QED BY <1>1, <1>2, <1>3, PTL DEF Spec
=============================================================================
