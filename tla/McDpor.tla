------------------------------- MODULE McDpor -------------------------------
(***************************************************************************)
(* The search of McMini: MCState.cpp and mc_do_model_checking with its     *)
(* helpers in mcmini_private.cpp.  A scheduler process explores the        *)
(* interleavings of a program by dynamic partial-order reduction with      *)
(* clock vectors and sleep sets.  It runs one thread of a trace process    *)
(* at a time, learns from it the operation that thread does next, and      *)
(* keeps a stack of the transitions run and of the states between them.    *)
(*                                                                         *)
(* Indices start at 1 here and at 0 in the code: tstack[i] is transition   *)
(* i - 1, sstack[i] the state it leaves and sstack[i + 1] the one it       *)
(* produces.  The order the code takes elements of an unordered_set in is  *)
(* any order.                                                              *)
(***************************************************************************)
EXTENDS McTransitions, FiniteSetsExt, SequencesExt

CONSTANTS Programs,        \* the programs to check: Threads -> Seq of operations
          MaxThreadDepth,  \* maxThreadExecutionDepth
          StopAtFirst,     \* the programs checked with --first-deadlock (stopAtFirstDeadlock)
          MaxTransitions   \* MAX_TOTAL_TRANSITIONS_IN_PROGRAM

\* The routine of a thread is a sequence of visible operations, that starts and
\* finishes no thread: McMini adds those transitions itself.
ASSUME ProgramsAssumption ==
    \A p \in Programs, t \in Threads :
        /\ Len(p[t]) \in Nat
        /\ \A n \in 1..Len(p[t]) :
               /\ [tid |-> t, type |-> p[t][n].type, obj |-> p[t][n].obj] \in Transition
               /\ p[t][n].type \notin {"start", "finish"}

\* There are MAX_TOTAL_THREADS_IN_PROGRAM threads at most.
ASSUME ThreadsFinite == IsFiniteSet(Threads)

ASSUME MaxTransitionsAssumption == MaxTransitions \in Nat

VARIABLES prog,      \* the program, which never changes
          pc,        \* the trace process: how many operations each thread did
          objs,      \* objectStorage: the shadow objects
          next,      \* nextTransitions, of the threads known so far
          clock,     \* threadData[t].clockVector
          depth,     \* threadData[t].executionDepth
          tstack,    \* transitionStack
          sstack,    \* stateStack
          irrev,     \* irreversibleStatesStack
          stage,     \* where the scheduler is in its loops
          leader,    \* the thread of t_next, run by the next iteration
          pending,   \* threads whose backtrack points are still to be added
          reports    \* the traces McMini printed, with its verdict

schedVars == <<prog, pc, objs, next, clock, depth, tstack, sstack, irrev>>
vars == <<schedVars, stage, leader, pending, reports>>

NoThread == "none"
Ends == {"done", "limit", "undefined", "crashed"}
Stages == {"run", "others", "choose", "branch"} \cup Ends

(***************************************************************************)
(* The n-th visible operation of a thread, from 0: it starts, does what    *)
(* its routine says and finishes (the atexit handler, for main).           *)
(***************************************************************************)
Op(p, t, n) ==
    IF n = 0 THEN [tid |-> t, type |-> "start", obj |-> t]
    ELSE IF n > Len(p[t]) THEN [tid |-> t, type |-> "finish", obj |-> t]
    ELSE [tid |-> t, type |-> p[t][n].type, obj |-> p[t][n].obj]

Posted(t, n) == Op(prog, t, n)      \* what the trace process posts

\* value_or(0): an absent entry of a clock vector reads as the first transition.
NoClock == [t \in Threads |-> 1]

NewItem(cv, sleep) ==
    [clock |-> cv, backtrack |-> {}, done |-> {}, sleep |-> sleep, enabled |-> {}]

Init ==
    /\ prog \in Programs
    /\ pc = [t \in Threads |-> 0]
    /\ objs = [InitialObjects EXCEPT !.thread[Main] = "alive"]
    /\ next = [t \in {Main} |-> Posted(Main, 0)]
    /\ clock = [t \in Threads |-> NoClock]
    /\ depth = [t \in Threads |-> 0]
    /\ tstack = <<>>
    /\ sstack = <<NewItem(NoClock, {})>>
    /\ irrev = <<>>
    /\ stage = "run" /\ leader = Main /\ pending = {} /\ reports = {}

\* getCurrentlyEnabledThreads: the limit on the depth of a thread is ignored.
EnabledThreads(os, nx) == {t \in DOMAIN nx : TransitionEnabled(os, nx[t])}

\* transitionIsEnabled
MayRun(t) == depth[t] < MaxThreadDepth /\ TransitionEnabled(objs, next[t])

(***************************************************************************)
(* growStateStackRunningTransition: the clock of a transition is the       *)
(* maximum of those it depends on; the threads asleep stay asleep unless   *)
(* the transition depends on what they would do; the thread that ran is    *)
(* searched, and asleep, in the state it left.                             *)
(***************************************************************************)
ClockOfDeclared(tr) ==         \* mutant: asks only one of the two transitions
    LET before == {i \in DOMAIN tstack : DependentWith(tstack[i], Live(objs, tr))}
    IN [t \in Threads |-> Max({1} \cup {sstack[i + 1].clock[t] : i \in before})]

ClockOf(tr) ==
    LET before == {i \in DOMAIN tstack : Dependent(tstack[i], Live(objs, tr))}
    IN [t \in Threads |-> Max({1} \cup {sstack[i + 1].clock[t] : i \in before})]

NoneStillAsleep(tr) == {}                   \* mutant: sleep sets are not passed on

NextLive(t) == Live(objs, next[t])

StillAsleep(tr) == {t \in Last(sstack).sleep : ~Dependent(NextLive(t), Live(objs, tr))}

SearchedButQueued(item, t) == [item EXCEPT !.done = @ \cup {t}]     \* mutant

SearchedNotDone(item, t) == [item EXCEPT !.backtrack = @ \ {t}]     \* mutant

\* markBacktrackThreadSearched
Searched(item, t) == [item EXCEPT !.done = @ \cup {t}, !.backtrack = @ \ {t}]

LeftBy(item, t) ==
    [Searched(item, t) EXCEPT !.enabled = @ \cup EnabledThreads(objs, next),
                              !.sleep = @ \cup {t}]

\* Reading the mailbox: the thread a create or a join names becomes known.
WithNext(tr) ==
    LET named == IF tr.type \in {"create", "join"} THEN {tr.obj} ELSE {}
    IN [t \in DOMAIN next \cup named |->
            IF t = tr.tid THEN tr ELSE IF t \in DOMAIN next THEN next[t] ELSE Posted(t, 0)]

(***************************************************************************)
(* One iteration of mc_search_dpor_branch_with_initial_thread up to the    *)
(* backtrack sets: the thread runs to its next visible operation in the    *)
(* trace process and the scheduler simulates the one it has just done.     *)
(***************************************************************************)
PastLimit == Len(tstack) > MaxTransitions      \* mutant: one too late

AtLimit == Len(tstack) >= MaxTransitions

\* Comparing these two dereferences a null pointer, whichever asks the other.
Fatal(a, b) == DereferencesNull(a, b) \/ DereferencesNull(b, a)

RunIsFatal(t) == \/ Aborts(objs, next[t])
                 \/ \E i \in DOMAIN tstack : Fatal(tstack[i], NextLive(t))
                 \/ \E u \in Last(sstack).sleep : Fatal(NextLive(u), NextLive(t))

Run ==
    /\ stage = "run" /\ ~AtLimit /\ ~RunIsFatal(leader)
    /\ LET tr == next[leader]
           post == Posted(leader, pc[leader] + 1)
           cv == [ClockOf(tr) EXCEPT ![leader] = Len(tstack) + 1]
       IN /\ pc' = [pc EXCEPT ![leader] = @ + 1]
          /\ tstack' = Append(tstack, StaticCopy(objs, tr))
          /\ sstack' = Append([sstack EXCEPT ![Len(sstack)] = LeftBy(@, leader)],
                              NewItem(cv, StillAsleep(tr)))
          /\ clock' = [clock EXCEPT ![leader] = cv]
          /\ irrev' = IF tr.type \in ReversibleOps THEN irrev
                      ELSE Append(irrev, Len(sstack) + 1)
          /\ objs' = WhenRead(Apply(objs, tr), post)
          /\ depth' = [depth EXCEPT ![leader] =
                           IF CountsAgainstDepth(tr) THEN @ + 1 ELSE @]
          /\ IF Undefined(objs', post)
             THEN /\ stage' = "undefined"
                  /\ UNCHANGED <<next, pending>>
             ELSE /\ next' = WithNext(post)
                  /\ stage' = "others"
                  /\ pending' = DOMAIN next' \ {leader}
    /\ UNCHANGED <<prog, leader, reports>>

LimitReached ==
    /\ stage = "run" /\ AtLimit
    /\ stage' = "limit"
    /\ UNCHANGED <<schedVars, leader, pending, reports>>

(***************************************************************************)
(* dynamicallyUpdateBacktrackSetsHelper: transition i and the next one of  *)
(* thread p conflict and nothing orders them, so p is to be tried before   *)
(* it, or else a thread that leads to p doing so, or else every thread.    *)
(***************************************************************************)
HappensBeforeThread(i, p) == i <= clock[p][tstack[i].tid]

Conflict(i, p) == /\ Dependent(tstack[i], NextLive(p))
                  /\ Coenabled(tstack[i], NextLive(p))
                  /\ ~HappensBeforeThread(i, p)

RacesAfter(i, q, p) ==
    \E j \in (i + 1)..Len(tstack) : tstack[j].tid = q /\ HappensBeforeThread(j, p)

CandidatesBlocked(i, p) ==     \* mutant: p is tried whether it is enabled or not
    {q \in (sstack[i].enabled \cup {p}) \ sstack[i].sleep : q = p \/ RacesAfter(i, q, p)}

Candidates(i, p) ==
    {q \in sstack[i].enabled \ sstack[i].sleep : q = p \/ RacesAfter(i, q, p)}

Unsearched(item, S) == S \ item.done     \* addBacktrackingThreadIfUnsearched

BacktrackSetsOnlyE(i, p) ==    \* mutant: nothing is added when E is empty
    LET item == sstack[i]
    IN {item.backtrack} \cup
       {item.backtrack \cup Unsearched(item, {q}) : q \in Candidates(i, p)}

\* The backtrack sets of state i the helper may leave for thread p.
BacktrackSets(i, p) ==
    LET item == sstack[i]
    IN IF Candidates(i, p) = {}
       THEN {item.backtrack \cup Unsearched(item, item.enabled \ item.sleep)}
       ELSE IF Candidates(i, p) \cap item.backtrack # {} THEN {item.backtrack}
       ELSE {item.backtrack \cup Unsearched(item, {q}) : q \in Candidates(i, p)}

OtherIsFatal(p) == Fatal(Last(tstack), NextLive(p))

UpdateOther(p) ==
    /\ stage = "others" /\ p \in pending /\ ~OtherIsFatal(p)
    /\ LET top == Len(tstack)
       IN IF Conflict(top, p)
          THEN \E B \in BacktrackSets(top, p) :
                   sstack' = [sstack EXCEPT ![top].backtrack = B]
          ELSE UNCHANGED sstack
    /\ pending' = pending \ {p}
    /\ UNCHANGED <<prog, pc, objs, next, clock, depth, tstack, irrev,
                   stage, leader, reports>>

\* The thread that ran has a new next transition: look for the latest conflict.
Conflicts(p) == {i \in 1..(Len(tstack) - 1) : Conflict(i, p)}

LastIsFatal(p) == \E i \in Max({1} \cup Conflicts(p))..(Len(tstack) - 1) :
                     Fatal(tstack[i], NextLive(p))

UpdateLast ==
    /\ stage = "others" /\ pending = {} /\ ~LastIsFatal(Last(tstack).tid)
    /\ LET p == Last(tstack).tid
           conflicts == Conflicts(p)
       IN IF conflicts # {}
          THEN \E B \in BacktrackSets(Max(conflicts), p) :
                   sstack' = [sstack EXCEPT ![Max(conflicts)].backtrack = B]
          ELSE UNCHANGED sstack
    /\ stage' = "choose"
    /\ UNCHANGED <<prog, pc, objs, next, clock, depth, tstack, irrev,
                   leader, pending, reports>>

\* The scheduler process dies: of a null pointer while it compares transitions, or
\* of a failed assertion while it runs one.
IsFatal == CASE stage = "run" -> ~AtLimit /\ RunIsFatal(leader)
             [] stage = "others" -> IF pending = {} THEN LastIsFatal(Last(tstack).tid)
                                    ELSE \E p \in pending : OtherIsFatal(p)
             [] OTHER -> FALSE

Crash ==
    /\ IsFatal
    /\ stage' = "crashed"
    /\ UNCHANGED <<schedVars, leader, pending, reports>>

(***************************************************************************)
(* The end of an iteration: data races of the new transition are reported  *)
(* and getFirstEnabledTransition picks the next thread, or there is none   *)
(* and the trace ends with a verdict.                                      *)
(***************************************************************************)
DataRaceLater == LET p == Last(tstack).tid     \* mutant: younger threads only
                 IN \E t \in DOMAIN next : t > p /\ RacingWith(next[t], next[p])

DataRace == LET p == Last(tstack).tid
            IN \E t \in DOMAIN next \ {p} : RacingWith(next[t], next[p])

\* A printed trace, as the order its threads ran in.
Schedule == [i \in DOMAIN tstack |-> tstack[i].tid]

Report(verdict) == [trace |-> Schedule, verdict |-> verdict]

WithRace == IF DataRace THEN reports \cup {Report("race")} ELSE reports

Awake == {t \in DOMAIN next : MayRun(t) /\ t \notin Last(sstack).sleep}

Choose ==
    /\ stage = "choose" /\ Awake # {}
    /\ leader' = Min(Awake)
    /\ reports' = WithRace
    /\ stage' = "run"
    /\ UNCHANGED <<schedVars, pending>>

TotalDepth == MapThenSumSet(LAMBDA t : depth[t], DOMAIN next)

IsStuck == \A t \in DOMAIN next : ~TransitionEnabled(objs, next[t])      \* mutant

IsInDeadlock == /\ TotalDepth <= MaxThreadDepth
                /\ \A t \in DOMAIN next : /\ ~EnsuresNoDeadlock(next[t])
                                         /\ ~TransitionEnabled(objs, next[t])

EndTrace ==
    /\ stage = "choose" /\ Awake = {}
    /\ reports' = WithRace \cup {Report(IF IsInDeadlock THEN "deadlock" ELSE "none")}
    /\ stage' = IF IsInDeadlock /\ prog \in StopAtFirst THEN "done" ELSE "branch"
    /\ UNCHANGED <<schedVars, leader, pending>>

(***************************************************************************)
(* mc_do_model_checking: take a thread of the deepest backtrack set,       *)
(* reflect the state that set belongs to, and fork a trace process rerun   *)
(* to it.  The objects of that state come from undoing the transitions     *)
(* after it, if all of them can be, or else from replaying the stack.      *)
(***************************************************************************)
BranchPoints == {b \in DOMAIN sstack : sstack[b].backtrack # {}}

CanRunInReverseTo(b) == irrev = <<>> \/ b >= Last(irrev)

Of(t, indices) == {i \in indices : tstack[i].tid = t}

CountedIn(t, indices) == Cardinality({i \in Of(t, indices) : CountsAgainstDepth(tstack[i])})

Kept(b) == 1..(b - 1)
Dropped(b) == b..Len(tstack)

Replay(b) ==
    /\ objs' = FoldLeft(Apply, InitialObjects, SubSeq(tstack, 1, b - 1))
    /\ depth' = [t \in Threads |-> CountedIn(t, Kept(b))]
    /\ clock' = [t \in Threads |->
                    IF Of(t, Kept(b)) = {} THEN clock[t]
                    ELSE sstack[Max(Of(t, Kept(b))) + 1].clock]

Revert(b) ==
    /\ objs' = FoldLeft(Unapply, objs, Reverse(SubSeq(tstack, b, Len(tstack))))
    /\ depth' = [t \in Threads |-> depth[t] - CountedIn(t, Dropped(b))]
    /\ clock' = [t \in Threads |->
                    IF Of(t, Dropped(b)) = {} THEN clock[t]
                    ELSE sstack[Min(Of(t, Dropped(b))) + 1].clock]

\* The transitions the threads were about to run in state b.
NextAt(b) ==
    [t \in DOMAIN next |-> IF Of(t, Dropped(b)) = {} THEN next[t]
                           ELSE Operation(tstack[Min(Of(t, Dropped(b)))])]

AllIrreversible(b) == irrev    \* mutant: popGreaterThan is forgotten

\* popGreaterThan: from the top, down to the first that is not greater.
IrreversibleUpTo(b) == SubSeq(irrev, 1, Max({0} \cup {k \in DOMAIN irrev : irrev[k] <= b}))

Branch ==
    /\ stage = "branch" /\ BranchPoints # {}
    /\ LET b == Max(BranchPoints)
       IN \E t \in sstack[b].backtrack :
            /\ leader' = t
            /\ sstack' = [SubSeq(sstack, 1, b) EXCEPT ![b] = Searched(@, t)]
            /\ tstack' = SubSeq(tstack, 1, b - 1)
            /\ irrev' = IrreversibleUpTo(b)
            /\ next' = NextAt(b)
            /\ pc' = [u \in Threads |-> Cardinality(Of(u, Kept(b)))]
            /\ IF CanRunInReverseTo(b) THEN Revert(b) ELSE Replay(b)
    /\ stage' = "run"
    /\ UNCHANGED <<prog, pending, reports>>

Finished ==
    /\ stage = "branch" /\ BranchPoints = {}
    /\ stage' = "done"
    /\ UNCHANGED <<schedVars, leader, pending, reports>>

Next == \/ Run \/ LimitReached
        \/ \E p \in Threads : UpdateOther(p)
        \/ UpdateLast \/ Crash \/ Choose \/ EndTrace \/ Branch \/ Finished

Spec == Init /\ [][Next]_vars /\ WF_vars(Next)

-----------------------------------------------------------------------------
(***************************************************************************)
(* The program itself: every interleaving of its threads, which the search *)
(* is compared with.  A state of it is how far each thread is and what the *)
(* operations made of the objects.                                         *)
(***************************************************************************)
StartState == [pc |-> [t \in Threads |-> 0],
               objs |-> [InitialObjects EXCEPT !.thread[Main] = "alive"]]

CanStep(p, s) == {t \in Threads : TransitionEnabled(s.objs, Op(p, t, s.pc[t]))}

Step(p, s, t) == [pc |-> [s.pc EXCEPT ![t] = @ + 1],
                  objs |-> WhenRead(Apply(s.objs, Op(p, t, s.pc[t])), Op(p, t, s.pc[t] + 1))]

Extended(p, S) == S \cup UNION {{Step(p, s, t) : t \in CanStep(p, s)} : s \in S}

ReachableStates == [p \in Programs |->
    LET longest == MapThenSumSet(LAMBDA t : Len(p[t]) + 2, Threads)
    IN FoldLeft(LAMBDA S, n : Extended(p, S), {StartState}, [n \in 1..longest |-> n])]

Outcomes == [p \in Programs |-> {s \in ReachableStates[p] : CanStep(p, s) = {}}]

Deadlocked(p, s) == \A t \in Threads :
    s.objs.thread[t] = "alive" => ~EnsuresNoDeadlock(Op(p, t, s.pc[t]))

\* The state a trace leads to.
After(p, schedule) == FoldLeft(LAMBDA s, t : Step(p, s, t), StartState, schedule)

\* A trace after which the program cannot go on, where not only the search stops.
Complete(p, schedule) == CanStep(p, After(p, schedule)) = {}

\* The transitions of a trace, as they are when they run.
TransitionsOf(p, schedule) ==
    FoldLeft(LAMBDA run, t : [state |-> Step(p, run.state, t),
                              trace |-> Append(run.trace,
                                               Live(run.state.objs, Op(p, t, run.state.pc[t])))],
             [state |-> StartState, trace |-> <<>>], schedule).trace

-----------------------------------------------------------------------------
ItemType == [clock : [Threads -> Nat], backtrack : SUBSET Threads,
             done : SUBSET Threads, sleep : SUBSET Threads,
             enabled : SUBSET Threads]

\* The variables hold what their C++ types and MCSortedStack say.
TypeOK ==
    /\ prog \in Programs /\ pc \in [Threads -> Nat] /\ objs \in Objects
    /\ DOMAIN next \subseteq Threads
    /\ \A t \in DOMAIN next : next[t] \in Transition /\ next[t].tid = t
    /\ clock \in [Threads -> [Threads -> Nat]] /\ depth \in [Threads -> Nat]
    /\ \A i \in DOMAIN tstack : Operation(tstack[i]) \in Transition
    /\ sstack \in Seq(ItemType)
    /\ Len(sstack) = Len(tstack) + 1
    /\ \A i \in DOMAIN irrev : /\ irrev[i] \in DOMAIN sstack
                               /\ i > 1 => irrev[i - 1] < irrev[i]
    /\ stage \in Stages /\ leader \in Threads /\ pending \subseteq Threads

\* What the scheduler believes about the objects, about the threads' next
\* operations and about their depths is what the trace process got to by
\* running the transition stack, whatever was undone, replayed or forked.
SchedulerTracksTrace ==
    stage \notin {"others", "undefined", "crashed"} =>
        LET now == After(prog, Schedule)
        IN /\ objs = now.objs /\ pc = now.pc
           /\ \A t \in DOMAIN next : /\ next[t] = Op(prog, t, now.pc[t])
                                     /\ depth[t] = CountedIn(t, DOMAIN tstack)
           /\ \A t \in Threads : now.objs.thread[t] = "alive" => t \in DOMAIN next

\* The scheduler never resumes a thread that would block in the trace process
\* (the TODO at mcmini_private.cpp:487).
RunsOnlyEnabled ==
    stage = "run" => TransitionEnabled(objs, next[leader])

\* Clock vectors decide exactly the transitive closure of dependence (MCState.h:130
\* and 148), between two transitions of the stack and between one of them and a
\* thread whose next transition conflicts with it.
HappensBefore ==
    FoldLeft(LAMBDA before, i :
        Append(before, {i} \cup UNION {before[j] : j \in
            {k \in 1..(i - 1) : Dependent(tstack[k], tstack[i])}}),
        <<>>, [i \in DOMAIN tstack |-> i])

ClocksExact ==
    LET hb == HappensBefore
    IN /\ \A i, j \in DOMAIN tstack : i < j =>
              (i \in hb[j] <=> i <= sstack[j + 1].clock[tstack[i].tid])
       /\ \A i \in DOMAIN tstack, t \in DOMAIN next :
              Dependent(tstack[i], NextLive(t)) /\ Coenabled(tstack[i], NextLive(t)) =>
                  (HappensBeforeThread(i, t) <=>
                   \E k \in Of(t, DOMAIN tstack) : i \in hb[k])

\* A thread to backtrack on is enabled there, has not been searched there and is
\* not one that sleep sets prove redundant; what was searched stays asleep.
BacktrackSetsSound ==
    \A i \in DOMAIN sstack :
        /\ sstack[i].backtrack \subseteq sstack[i].enabled
        /\ sstack[i].backtrack \cap (sstack[i].done \cup sstack[i].sleep) = {}
        /\ i <= Len(tstack) => /\ tstack[i].tid \in sstack[i].done
                               /\ sstack[i].done \subseteq sstack[i].sleep

\* When the search is over, its traces have led to every state the program can
\* end in, and to no other.
EveryOutcomeExplored ==
    stage = "done" /\ prog \notin StopAtFirst =>
        Outcomes[prog] =
            {After(prog, r.trace) : r \in {q \in reports : /\ q.verdict # "race"
                                                           /\ Complete(prog, q.trace)}}

\* When the search is over, every trace reported as a deadlock ends in a deadlock of
\* the program, and a program that can deadlock is not declared free of deadlocks.
DeadlocksExact ==
    stage \in Ends =>
    LET found == {r \in reports : r.verdict = "deadlock"}
    IN /\ \A r \in found : LET s == After(prog, r.trace)
                           IN s \in Outcomes[prog] /\ Deadlocked(prog, s)
       /\ stage = "done" /\ found = {} =>
              \A s \in Outcomes[prog] : ~Deadlocked(prog, s)

\* A data race is reported exactly when two threads can be about to make
\* conflicting accesses to a global at once.
RacesExact ==
    stage = "done" /\ prog \notin StopAtFirst =>
        ((\E r \in reports : r.verdict = "race") <=>
         \E s \in ReachableStates[prog] : \E t, u \in CanStep(prog, s) :
             /\ t # u
             /\ RacingWith(Op(prog, t, s.pc[t]), Op(prog, u, s.pc[u])))

\* The k-th transition of a trace, as the n-th operation of its thread.
Event(trace, k) ==
    <<trace[k].tid, Cardinality({i \in 1..k : trace[i].tid = trace[k].tid})>>

Orders(schedule) ==
    LET trace == TransitionsOf(prog, schedule)
    IN {<<Event(trace, x[1]), Event(trace, x[2])>> :
        x \in {y \in (DOMAIN trace) \X (DOMAIN trace) :
                   y[1] < y[2] /\ Dependent(trace[y[1]], trace[y[2]])}}

\* Sleep sets keep the reduction: no complete trace differs from an earlier one
\* only in the order of independent transitions.
NoTraceTwice ==
    [][EndTrace /\ Complete(prog, Schedule) =>
          \A r \in reports : r.verdict # "race" => Orders(r.trace) # Orders(Schedule)]_vars

\* Every search comes to an end.
Terminates == <>(stage \in Ends)

\* Independence as MCTransition::dependentWith defines it: a step of one thread
\* neither enables nor disables an independent one of another, and two enabled
\* independent ones commute.  The declarations are what the reduction rests on.  One is
\* wrong: a post enables the wait it is said to be independent of (MCSemPost.cpp:72);
\* that no outcome is lost is left to EveryOutcomeExplored.
PostBeforeWait(x, y) == x.type = "semPost" /\ y.type = "semWait" /\ x.obj = y.obj

IndependenceSound ==
    tstack = <<>> =>
      \A s \in ReachableStates[prog] : \A t \in CanStep(prog, s), u \in Threads :
        LET x == Live(s.objs, Op(prog, t, s.pc[t]))
            y == Live(s.objs, Op(prog, u, s.pc[u]))
        IN t # u /\ ~Dependent(x, y) /\ ~PostBeforeWait(x, y) => Commute(s.objs, x, y)

\* The stacks are arrays of MAX_TOTAL_TRANSITIONS_IN_PROGRAM and one more
\* elements; the search stops before it writes past them, and only there.
StacksFit == /\ Len(tstack) <= MaxTransitions /\ Len(sstack) <= MaxTransitions + 1
             /\ stage = "limit" => /\ Len(tstack) = MaxTransitions
                                   /\ CanStep(prog, After(prog, Schedule)) # {}

\* MCConditionVariableWakeupPolicy.hpp: a thread that wakes up leaves every group,
\* so what a group holds are threads still waiting, and a later message reaches all
\* that an earlier one may still wake.
WakeGroupsNested ==
    \A c \in Conds : LET cond == objs.cond[c]
                     IN /\ \A i \in DOMAIN cond.groups : cond.groups[i] \subseteq cond.waiters
                        /\ \A i, j \in DOMAIN cond.groups :
                               i < j => cond.groups[i] \subseteq cond.groups[j]

\* A thread wakes up from pthread_cond_wait because of a signal or broadcast sent
\* while it waited, but for the one spurious wakeup of each condition variable.
IsOn(i, types, x) == tstack[i].type \in types /\ tstack[i].obj = x

Uncaused(c) ==
    {i \in DOMAIN tstack :
        /\ IsOn(i, {"condWait"}, c)
        /\ LET entry == Max({e \in Of(tstack[i].tid, 1..i) : IsOn(e, {"condEnqueue"}, c)})
           IN \A k \in entry..i : ~IsOn(k, {"signal", "broadcast"}, c)}

WakeupsCaused == \A c \in Conds : Cardinality(Uncaused(c)) <= 1

\* The threads that did such operations on x, in their order.
Users(types, x) ==
    FoldLeft(LAMBDA users, tr : IF tr.type \in types /\ tr.obj = x THEN Append(users, tr.tid)
                                ELSE users, <<>>, tstack)

\* The locks are fair: threads get one in the order they asked for it, readers,
\* writers and writers of the second kind alike (MCRWLock.h:35).
ServedInOrder ==
    /\ \A l \in RWLocks : IsPrefix(Users({"readerLock", "writerLock"}, l),
                                   Users({"readerEnqueue", "writerEnqueue"}, l))
    /\ \A l \in RWWLocks :
           IsPrefix(Users({"rwwReaderLock", "writer1Lock", "writer2Lock"}, l),
                    Users({"rwwReaderEnqueue", "writer1Enqueue", "writer2Enqueue"}, l))

\* A writer of either kind has the lock alone; readers share it.
WritersExclude ==
    /\ \A l \in RWLocks : LET lock == objs.rwlock[l]
                          IN IsWriterLocked(lock) => ~IsReaderLocked(lock)
    /\ \A l \in RWWLocks : LET lock == objs.rwwlock[l]
                           IN /\ HasWriter(lock) => ~HasReader(lock)
                              /\ lock.writer1 = {} \/ lock.writer2 = {}
=============================================================================
