------------------------------ MODULE McDporMC ------------------------------
(* Small programs for McMini to check: main initialises the objects,       *)
(* creates the workers and joins them, as the programs of                  *)
(* mcmini-alpha/test do.  A worker is given by its visible operations.     *)
EXTENDS McDpor

CONSTANTS m1, m2, m3, g1, s1, c1, b1, l1, w1

op(type, obj) == [type |-> type, obj |-> obj]
MutexInit(m) == <<op("mutexInit", m)>>
Lock(m) == <<op("lock", m)>>
Unlock(m) == <<op("unlock", m)>>
Wait == <<op("semEnqueue", s1), op("semWait", s1)>>
Post == <<op("semPost", s1)>>
Write == <<op("write", g1)>>
Read == <<op("read", g1)>>
Guarded(m, body) == Lock(m) \o body \o Unlock(m)
CondWaitOn(c) == <<op("condEnqueue", c), op("condWait", c)>>
Signal(c) == <<op("signal", c)>>
Broadcast(c) == <<op("broadcast", c)>>
BarrierWait(b) == <<op("barrierWait", b)>>
Reader(l) == <<op("readerEnqueue", l), op("readerLock", l)>>
Writer(l) == <<op("writerEnqueue", l), op("writerLock", l)>>
RWRelease(l) == <<op("rwUnlock", l)>>
Reading(l, body) == Reader(l) \o body \o RWRelease(l)
Writing(l, body) == Writer(l) \o body \o RWRelease(l)
RWWSection(l, enq, lk, body) == <<op(enq, l), op(lk, l)>> \o body \o <<op("rwwUnlock", l)>>
Reading0(l, body) == RWWSection(l, "rwwReaderEnqueue", "rwwReaderLock", body)
Writing1(l, body) == RWWSection(l, "writer1Enqueue", "writer1Lock", body)
Writing2(l, body) == RWWSection(l, "writer2Enqueue", "writer2Lock", body)
Both(m, n) == Guarded(m, Guarded(n, <<>>))
Once(m) == Guarded(m, <<>>)

Used(bodies, S) == {x \in S : \E w \in DOMAIN bodies : \E i \in DOMAIN bodies[w] : bodies[w][i].obj = x}
Inits(type, S) == {op(type, x) : x \in S}
MainBody(bodies) == SetToSeq(Inits("mutexInit", Used(bodies, Mutexes))
                             \cup Inits("semInit", Used(bodies, Sems))
                             \cup Inits("condInit", Used(bodies, Conds))
                             \cup Inits("barrierInit", Used(bodies, Barriers))
                             \cup Inits("rwInit", Used(bodies, RWLocks))
                             \cup Inits("rwwInit", Used(bodies, RWWLocks)))
                    \o [i \in DOMAIN bodies |-> op("create", i)]
                    \o [i \in DOMAIN bodies |-> op("join", i)]
Program(bodies) == [t \in Threads |-> IF t = Main THEN MainBody(bodies)
                                      ELSE IF t \in DOMAIN bodies THEN bodies[t] ELSE <<>>]
AllOf(n, bodies) == {Program(bs) : bs \in [1..n -> bodies]}

TwoWorkers == {0, 1, 2}
ThreeWorkers == {0, 1, 2, 3}
NoObjects == [x \in {} |-> 0]
Zero == [x \in Sems |-> 0]

MutexPrograms == AllOf(2, {<<>>, Once(m1), Both(m1, m2), Both(m2, m1), Once(m1) \o Once(m2),
                        Guarded(m2, Write), Write, Read \o Once(m1)})

\* Three philosophers, the same with an order on the forks, and contention.
LockPrograms == {Program(bs) : bs \in {
    <<Both(m1, m2), Both(m2, m3), Both(m3, m1)>>, <<Both(m1, m2), Both(m2, m3), Both(m1, m3)>>,
    <<Both(m1, m2), Both(m2, m1), Once(m1)>>, <<Once(m1), Once(m2) \o Once(m1), Both(m2, m1)>>,
    <<Once(m3), Both(m3, m2), Once(m2)>>}}

SemPrograms == {Program(bs) : bs \in {
    <<Wait, Wait, Post>>, <<Post, Wait \o Post, Wait>>, <<Guarded(m1, Wait), Once(m1), Post>>,
    <<Guarded(m1, Wait), Guarded(m1, Post), Once(m1)>>, <<Wait \o Once(m1), Once(m1) \o Post, Once(m1)>>,
    <<Wait \o Once(m1), Wait \o Once(m1), Post \o Post>>, <<Wait, Wait, Wait>>}}

\* Checked with --first-deadlock: deadlocks to stop at, mutexes unlocked by a thread
\* that does not hold them, and a trace as long as the transition stack.
Often(m) == Once(m) \o Once(m) \o Once(m) \o Once(m)
StoppingPrograms ==
    AllOf(2, {Both(m2, m3), Both(m3, m2), Lock(m2), Unlock(m2), Once(m3) \o Once(m2)})
    \cup {Program(<<Often(m2) \o Often(m3), Once(m2)>>)}

\* Mutexes that main leaves to the workers to initialise: what follows the first
\* operation on the mutex can be undone.
WithoutInit(p) == [p EXCEPT ![Main] = SelectSeq(@, LAMBDA x : x.type # "mutexInit")]
LateInit(n) == {WithoutInit(p) :
    p \in AllOf(n, {MutexInit(m1), MutexInit(m1) \o MutexInit(m2), MutexInit(m2) \o MutexInit(m1)})}
LateInitPrograms == LateInit(3)

\* Waiters, and signals sent inside and outside the mutex.
OneMutex == [c \in Conds |-> m1]
W == Guarded(m1, CondWaitOn(c1))
S == Guarded(m1, Signal(c1))
S0 == Signal(c1)
CondPrograms == {Program(bs) : bs \in {
    <<W, W, S>>, <<W, Once(m1), S>>, <<W, S0, Once(m1)>>, <<W, W, Broadcast(c1)>>,
    <<W \o W, S \o S, <<>> >>, <<W \o W, S0 \o Broadcast(c1), <<>> >>, <<W \o W, W \o W, <<>> >>}}

\* Two waiters and a signal sent outside the mutex.
SignalOutside == {Program(<<W, W, S0>>)}

\* A barrier for two waited on by two threads, by one, and twice.
Waits2 == [b \in Barriers |-> 2]
Waits3 == [b \in Barriers |-> 3]
B == BarrierWait(b1)
BarrierPrograms == {Program(bs) : bs \in {<<B, B, <<>> >>, <<B, <<>>, <<>> >>, <<B \o B, B \o B, <<>> >>}}

\* Three waiters, two of them after they had the mutex.
BarrierAfterMutex == {Program(<<B, Once(m1) \o B, Once(m1) \o B>>)}

\* Readers and writers, a lock that is never released, and one released by a
\* thread that does not hold it.
RWPrograms == {Program(bs) : bs \in {
    <<Reader(l1), Writing(l1, <<>>), Reader(l1)>>, <<Writer(l1), RWRelease(l1), Reader(l1)>>,
    <<Writing(l1, <<>>), Reading(l1, <<>>) \o Writer(l1), <<>> >>}}
Holding(enq, lk) == <<op(enq, w1), op(lk, w1)>>
RWWPrograms == {Program(bs) : bs \in {
    <<Holding("rwwReaderEnqueue", "rwwReaderLock"), Writing1(w1, <<>>), Holding("writer2Enqueue", "writer2Lock")>>,
    <<Holding("writer1Enqueue", "writer1Lock"), <<op("rwwUnlock", w1)>>, Reading0(w1, <<>>)>>,
    <<Writing2(w1, <<>>), Reading0(w1, <<>>) \o Writing1(w1, <<>>), <<>> >>}}

Pairs(bodies) == {Program(<<a, b, <<>> >>) : a, b \in bodies}
RWPairs == Pairs({Reading(l1, <<>>), Writing(l1, <<>>), Reading(l1, Once(m1)), Writer(l1) \o Once(m1)})

SyncPrograms ==
    RWPairs \cup CondPrograms \cup SignalOutside \cup BarrierPrograms \cup RWPrograms \cup RWWPrograms

SearchPrograms == MutexPrograms \cup LateInit(2) \cup LockPrograms \cup SemPrograms
                  \cup StoppingPrograms
=============================================================================
