----------------------------- MODULE McBarriers -----------------------------
(* The shadow barriers of McMini (MCBarrier.cpp) and the transitions on     *)
(* them (transitions/barrier).  A thread joins the barrier when its wait is *)
(* read from the mailbox; running the wait changes nothing.                 *)
EXTENDS McThreads, FiniteSets

CONSTANTS Barriers,
          BarrierCount      \* the count each barrier is initialised with

ASSUME BarrierCountAssumption == BarrierCount \in [Barriers -> Nat \ {0}]

BarrierOps == {"barrierInit", "barrierWait"}

BarrierTransition == [tid : Threads, type : BarrierOps, obj : Barriers]

BarrierStates ==
    [Barriers -> [odd : SUBSET Threads, even : SUBSET Threads, isEven : BOOLEAN]]

\* Also what a copy of a barrier holds: the copy constructor (MCBarrier.h:40)
\* copies neither the waiting sets nor the parity.
FreshBarrier == [odd |-> {}, even |-> {}, isEven |-> FALSE]

WaitingSet(barrier) == IF barrier.isEven THEN barrier.even ELSE barrier.odd

IsWaitingOn(barrier, t) == t \in barrier.even \cup barrier.odd

Join(barrier, t) == IF barrier.isEven THEN [barrier EXCEPT !.even = @ \cup {t}]
                    ELSE [barrier EXCEPT !.odd = @ \cup {t}]

WaitOnBarrier(objs, tr) ==
    LET barrier == objs.barrier[tr.obj]
        joined  == Join(barrier, tr.tid)
        full    == Cardinality(WaitingSet(joined)) = BarrierCount[tr.obj]
    IN IF IsWaitingOn(barrier, tr.tid) THEN objs
       ELSE [objs EXCEPT !.barrier[tr.obj] =
                 IF full THEN [joined EXCEPT !.isEven = ~@] ELSE joined]

\* A thread of the other parity waited in a round that is over.
WouldBlock(barrier, count, t) ==
    /\ IsWaitingOn(barrier, t) => (t \in barrier.even) = barrier.isEven
    /\ Cardinality(WaitingSet(barrier)) < count

BarrierWaitEnabled(objs, tr) ==
    ~WouldBlock(objs.barrier[tr.obj], BarrierCount[tr.obj], tr.tid)

\* A pending wait sees the live barrier, one on the stack its copy.
SeenBarrier(barrier, tr) ==
    [tid |-> tr.tid, type |-> tr.type, obj |-> tr.obj,
     blocks |-> WouldBlock(barrier, BarrierCount[tr.obj], tr.tid)]

BarrierNotCoenabledWith(a, b) == a.type = "barrierWait" /\ a.blocks
=============================================================================
