----------------------------- MODULE McHandshake -----------------------------
(***************************************************************************)
(* How McMini's scheduler process drives the trace process that runs the   *)
(* program under test (mcmini_private.cpp, mc_shared_cv.c, signals.cpp and *)
(* the wrappers).  Each thread of the trace has two semaphores in shared   *)
(* memory: the scheduler posts one to let it go on and waits for the other.*)
(* One mailbox in shared memory takes the operation a thread stopped at.   *)
(*                                                                         *)
(* What McDpor takes as one step, "run a thread and learn its next visible *)
(* operation", is here every step of the two processes it is made of, with *)
(* traces that die and are forked again.  Which thread runs and where a    *)
(* trace ends is left open: any choice the search of McDpor could make.    *)
(* Thread ids count from 1 here and from 0 in the code.                    *)
(***************************************************************************)
EXTENDS Naturals, Sequences, FiniteSets

CONSTANTS Routines,   \* the thread routines of the program, each run by one thread at most
          Main,       \* main()
          Nobody,     \* an operation that is not about a thread
          Programs,   \* the programs to choose from: a sequence of operations for each routine
          StopAtFirst, \* those checked with --first-deadlock (stopAtFirstDeadlock)
          MaxTraces   \* no branch is taken after so many traces

ASSUME RoutinesAssumption == IsFiniteSet(Routines) /\ Main \in Routines /\ Nobody \notin Routines
ASSUME MaxTracesAssumption == MaxTraces \in Nat \ {0}

\* A thread starts and finishes of itself, and the operations on threads name one.
ASSUME ProgramsAssumption ==
  \A p \in Programs, r \in Routines :
    /\ p[r] \in Seq([type : STRING, to : Routines \cup {Nobody}])
    /\ \A n \in 1..Len(p[r]) :
         /\ p[r][n].type \notin {"start", "finish"}
         /\ p[r][n].to # Nobody <=> p[r][n].type \in {"create", "createWithAttr", "join"}

VARIABLES
  prog,
  \* the trace process
  process,    \* "none", "running" or "zombie" (dead, not waited for)
  at,         \* where each thread is
  done,       \* how many visible operations each thread has done
  self,       \* tid_self of each thread, 0 before it is set
  nextId,     \* the last id given in the trace's copy of programState
  handle,     \* the pthread_t of each thread, 0 when it has none
  binary,     \* mc_pthread_create_binary_sem
  \* shared memory
  wake,       \* pthread_sem of each thread id
  back,       \* dpor_scheduler_sem of each thread id
  mailbox,
  \* the scheduler process
  stage,
  current,    \* the thread that was resumed
  stack,      \* the transitions of this trace
  rerun,      \* how many of them the trace process has done
  next,       \* the next transition of each thread id
  known,      \* the pthread_t of each thread id
  traces,     \* how many traces were forked
  signals     \* what is pending for the scheduler: SIGCHLD of a trace that died, SIGUSR1

traceVars == <<process, at, done, self, nextId, handle, binary>>
sharedVars == <<wake, back, mailbox>>
schedVars == <<stage, current, stack, rerun, next, known, traces>>
vars == <<prog, traceVars, sharedVars, schedVars, signals>>

Tids == 1..Cardinality(Routines)
Places == {"unborn", "newborn", "asleep", "going", "joining", "aborting", "creating", "posting",
           "waking", "leaving", "parting", "gone"}
Stages == {"ready", "search", "waiting", "reading", "ending", "between", "fork", "undefined",
           "stopping", "exiting", "blocked", "exited"}

\* What a thread does: it starts, goes through its body and finishes.
Operation(type, to) == [type |-> type, to |-> to]
Start == Operation("start", Nobody)
Finish == Operation("finish", Nobody)
Visible(r) == <<Start>> \o prog[r] \o <<Finish>>
Pending(r) == Visible(r)[done[r] + 1]
Creates(op) == op.type \in {"create", "createWithAttr"}

\* What the scheduler knows of it.
Transition(t, type, obj) == [tid |-> t, type |-> type, obj |-> obj]

Init ==
  /\ prog \in Programs
  /\ process = "none" /\ stage = "fork" /\ traces = 0 /\ signals = {}
  /\ at = [r \in Routines |-> "unborn"] /\ done = [r \in Routines |-> 0]
  /\ self = [r \in Routines |-> 0] /\ handle = [r \in Routines |-> 0]
  /\ nextId = 1 /\ binary = 0
  /\ wake = [t \in Tids |-> 0] /\ back = [t \in Tids |-> 0]
  /\ mailbox = [tid |-> 0, type |-> "none", handle |-> 0]
  /\ current = 0 /\ stack = <<>> /\ rerun = 0
  /\ known = <<1>> /\ next = <<Transition(1, "start", 0)>>

-----------------------------------------------------------------------------
(* The trace process.                                                      *)

Moves(r, from, to) ==
  /\ process = "running"
  /\ at[r] = from /\ at' = [at EXCEPT ![r] = to]

\* mc_thread_routine_wrapper: the new thread takes the next id of the trace's own
\* programState, lets its creator go on, and waits for its start.
Register(r) ==
  /\ Moves(r, "newborn", "asleep")
  /\ nextId' = nextId + 1
  /\ self' = [self EXCEPT ![r] = nextId + 1]
  /\ binary' = binary + 1
  /\ UNCHANGED <<prog, process, done, handle, sharedVars, schedVars, signals>>

\* Where the operation takes a thread that is let go on.
After(op) == CASE op.type = "finish" -> "leaving"
               [] op.type = "join"   -> "joining"
               [] op.type = "abort"  -> "aborting"
               [] OTHER              -> "going"

\* Mutant: the child of a fork keeps the ids of the scheduler.
GoWithoutReset(r) ==
  /\ Moves(r, "asleep", After(Pending(r)))
  /\ self[r] \in Tids /\ wake[self[r]] > 0
  /\ wake' = [wake EXCEPT ![self[r]] = @ - 1]
  /\ done' = [done EXCEPT ![r] = @ + 1]
  /\ UNCHANGED <<prog, process, self, nextId, handle, binary, back, mailbox, schedVars, signals>>

\* The scheduler lets a thread do the operation it stopped at.  The main thread of a trace
\* that is rerun first resets the programState it inherited, which holds the ids of the
\* trace before.  (trace_sleep_list has room for the ids in Tids.)
Go(r) ==
  /\ Moves(r, "asleep", After(Pending(r)))
  /\ self[r] \in Tids /\ wake[self[r]] > 0
  /\ wake' = [wake EXCEPT ![self[r]] = @ - 1]
  /\ done' = [done EXCEPT ![r] = @ + 1]
  /\ nextId' = IF r = Main /\ Pending(r) = Start THEN 1 ELSE nextId
  /\ UNCHANGED <<prog, process, self, handle, binary, back, mailbox, schedVars, signals>>

\* pthread_join returns when its thread is gone, and its pthread_t may be used again.
Joined(r) ==
  /\ Moves(r, "joining", "going")
  /\ LET child == Visible(r)[done[r]].to
     IN  at[child] = "gone" /\ handle' = [handle EXCEPT ![child] = 0]
  /\ UNCHANGED <<prog, process, done, self, nextId, binary, sharedVars, schedVars, signals>>

\* The system gives threads the same pthread_t in every trace, the first that is free.
FreeHandle == CHOOSE h \in Tids : /\ \A q \in Routines : handle[q] # h
                                  /\ \A g \in 1..(h - 1) : \E q \in Routines : handle[q] = g

\* A thread about to create another: pthread_create is called first.  With attributes
\* mc_trace_panic sends SIGUSR1, and its waitpid returns at once, so that the thread
\* goes on.
CreateThread(r) ==
  /\ process = "running" /\ at[r] = "going" /\ Creates(Pending(r))
  /\ LET child == Pending(r).to
     IN  /\ at[child] = "unborn"
         /\ at' = [at EXCEPT ![r] = "creating", ![child] = "newborn"]
         /\ handle' = [handle EXCEPT ![child] = FreeHandle]
  /\ signals' = IF Pending(r).type = "createWithAttr" THEN signals \cup {"SIGUSR1"} ELSE signals
  /\ UNCHANGED <<prog, process, done, self, nextId, binary, sharedVars, schedVars>>

\* Mutant: the creator does not wait for the new thread to register.
ChildRegisteredUnasked(r) ==
  /\ Moves(r, "creating", "posting")
  /\ UNCHANGED <<prog, process, done, self, nextId, handle, binary, sharedVars, schedVars, signals>>

ChildRegistered(r) ==
  /\ Moves(r, "creating", "posting")
  /\ binary > 0 /\ binary' = binary - 1
  /\ UNCHANGED <<prog, process, done, self, nextId, handle, sharedVars, schedVars, signals>>

\* Any other visible operation is not done before the scheduler says so.
Arrive(r) ==
  /\ Moves(r, "going", "posting")
  /\ ~Creates(Pending(r)) /\ Pending(r).type # "crash"
  /\ UNCHANGED <<prog, process, done, self, nextId, handle, binary, sharedVars, schedVars, signals>>

\* The trace process dies: abort() run for good, or a fault between two operations.
Die(r) ==
  /\ process = "running"
  /\ at[r] = "aborting" \/ (at[r] = "going" /\ Pending(r).type = "crash")
  /\ process' = "zombie" /\ signals' = signals \cup {"SIGCHLD"}
  /\ UNCHANGED <<prog, at, done, self, nextId, handle, binary, sharedVars, schedVars>>

Letter(r, op) == [tid |-> self[r], type |-> op.type,
                  handle |-> IF op.to = Nobody THEN 0 ELSE handle[op.to]]

\* thread_post_visible_operation_hit.
Post(r) ==
  /\ Moves(r, "posting", "waking")
  /\ mailbox' = Letter(r, Pending(r))
  /\ UNCHANGED <<prog, process, done, self, nextId, handle, binary, wake, back, schedVars, signals>>

\* thread_await_scheduler: wake the scheduler, and wait.
Await(r) ==
  /\ Moves(r, "waking", "asleep")
  /\ back' = [back EXCEPT ![self[r]] = @ + 1]
  /\ UNCHANGED <<prog, process, done, self, nextId, handle, binary, wake, mailbox, schedVars, signals>>

\* A thread allowed to finish posts that a second time, wakes the scheduler and returns.
PostFinish(r) ==
  /\ Moves(r, "leaving", "parting")
  /\ mailbox' = Letter(r, Finish)
  /\ UNCHANGED <<prog, process, done, self, nextId, handle, binary, wake, back, schedVars, signals>>

Leave(r) ==
  /\ Moves(r, "parting", "gone")
  /\ back' = [back EXCEPT ![self[r]] = @ + 1]
  /\ UNCHANGED <<prog, process, done, self, nextId, handle, binary, wake, mailbox, schedVars, signals>>

ThreadStep(r) ==
  \/ Register(r) \/ Go(r) \/ Joined(r) \/ CreateThread(r) \/ ChildRegistered(r) \/ Arrive(r)
  \/ Die(r) \/ Post(r) \/ Await(r) \/ PostFinish(r) \/ Leave(r)

-----------------------------------------------------------------------------
(* The scheduler process.                                                  *)

\* The threads that are alive after the transitions s: created, and not finished since.
Alive(s) ==
  {t \in 1..Len(known) :
     \E i \in 0..Len(s) :
        /\ IF i = 0 THEN t = 1 ELSE s[i].type \in {"create", "createWithAttr"} /\ s[i].obj = t
        /\ \A j \in (i + 1)..Len(s) : ~(s[j].type = "finish" /\ s[j].tid = t)}

\* enabledInState, as far as threads are concerned.
Enabled(t) ==
  /\ t \in Alive(stack)
  /\ next[t].type # "exit"
  /\ next[t].type = "join" => next[t].obj \notin Alive(stack)
  /\ next[t].type = "finish" => t # 1

\* mc_fork_new_trace_at_current_state: the semaphores are reset, then a child is forked that
\* has the scheduler's programState and stops before main.
Fork ==
  /\ stage = "fork" /\ process = "none"
  /\ process' = "running"
  /\ at' = [r \in Routines |-> IF r = Main THEN "asleep" ELSE "unborn"]
  /\ done' = [r \in Routines |-> 0]
  /\ self' = [r \in Routines |-> IF r = Main THEN 1 ELSE 0]
  /\ handle' = [r \in Routines |-> IF r = Main THEN 1 ELSE 0]
  /\ nextId' = Len(known) /\ binary' = 0
  /\ wake' = [t \in Tids |-> 0] /\ back' = [t \in Tids |-> 0]
  /\ stage' = "ready" /\ rerun' = 0 /\ traces' = traces + 1
  /\ UNCHANGED <<prog, mailbox, current, stack, next, known, signals>>

\* mc_run_thread_to_next_visible_operation, first half.  A new trace is first brought
\* to where the search is.
Resume(t) ==
  /\ stage \in {"ready", "search"}
  /\ IF rerun < Len(stack) THEN t = stack[rerun + 1].tid ELSE Enabled(t)
  /\ wake' = [wake EXCEPT ![t] = @ + 1]
  /\ current' = t /\ stage' = "waiting"
  /\ UNCHANGED <<prog, traceVars, back, mailbox, stack, rerun, next, known, traces, signals>>

\* Its second half: the thread has stopped again.
WaitOver ==
  /\ stage = "waiting" /\ back[current] > 0
  /\ back' = [back EXCEPT ![current] = @ - 1]
  /\ IF rerun < Len(stack) THEN rerun' = rerun + 1 /\ stage' = "ready"
                           ELSE stage' = "reading" /\ UNCHANGED rerun
  /\ UNCHANGED <<prog, traceVars, wake, mailbox, current, stack, next, known, traces, signals>>

\* simulateRunningTransition: the transition goes on the stack and the mailbox says what the
\* thread does next.  A pthread_t not seen before is a thread with the next id.
IdOf(h) == IF \E t \in 1..Len(known) : known[t] = h
           THEN CHOOSE t \in 1..Len(known) : /\ known[t] = h
                                            /\ \A u \in 1..(t - 1) : known[u] # h
           ELSE Len(known) + 1

Read ==
  /\ stage = "reading"
  /\ LET id == IF mailbox.handle = 0 THEN 0 ELSE IdOf(mailbox.handle)
         new == id = Len(known) + 1
         read == [next EXCEPT ![current] = Transition(mailbox.tid, mailbox.type, id)]
     IN  /\ next' = IF new THEN Append(read, Transition(id, "start", 0)) ELSE read
         /\ known' = IF new THEN Append(known, mailbox.handle) ELSE known
  /\ stack' = Append(stack, next[current])
  /\ rerun' = rerun + 1
  /\ stage' = IF mailbox.type = "undefined" THEN "undefined" ELSE "search"
  /\ UNCHANGED <<prog, traceVars, sharedVars, current, traces, signals>>

\* mc_terminate_trace: the scheduler sends SIGUSR1, whose handler exits, and waits.
EndTrace ==
  /\ stage = "search" /\ stage' = "ending"
  /\ UNCHANGED <<prog, traceVars, sharedVars, current, stack, rerun, next, known, traces, signals>>

\* isInDeadlock, as far as threads are concerned: an operation on anything else may be blocked.
MayBeInDeadlock ==
  \A t \in DOMAIN next :
    /\ next[t].type \notin {"exit", "abort"} /\ (next[t].type = "finish" => t # 1)
    /\ Enabled(t) => next[t].type \notin {"start", "finish", "create", "createWithAttr", "join"}

\* With --first-deadlock the scheduler is gone, by _Exit, before it ends the trace.
ExitAtDeadlock ==
  /\ stage = "search" /\ prog \in StopAtFirst /\ MayBeInDeadlock
  /\ stage' = "exited"
  /\ UNCHANGED <<prog, traceVars, sharedVars, current, stack, rerun, next, known, traces, signals>>

Killed ==
  /\ process = "running" /\ stage \in {"ending", "undefined", "stopping"}
  /\ process' = "zombie"
  /\ UNCHANGED <<prog, at, done, self, nextId, handle, binary, sharedVars, schedVars, signals>>

\* waitpid returns.  The scheduler goes on to the next branch, exits, or, after undefined
\* behaviour, calls exit().
AfterTrace == [ending |-> "between", stopping |-> "exited", undefined |-> "exiting"]

Reap ==
  /\ stage \in DOMAIN AfterTrace /\ process # "running"
  /\ process = "zombie" \/ stage = "stopping"
  /\ signals = {} \/ stage = "stopping"
  /\ process' = "none" /\ stage' = AfterTrace[stage]
  /\ UNCHANGED <<prog, at, done, self, nextId, handle, binary, sharedVars, current, stack, rerun,
                 next, known, traces, signals>>

\* exit() is the wrapper: it posts to the mailbox, wakes the scheduler, which is this process,
\* and waits as the main thread of a trace does.  No process is left that could end the wait.
InterceptedExit ==
  /\ stage = "exiting"
  /\ mailbox' = [tid |-> 1, type |-> "exit", handle |-> 0]
  /\ back' = [back EXCEPT ![1] = @ + 1]
  /\ stage' = IF wake[1] > 0 THEN "exited" ELSE "blocked"
  /\ UNCHANGED <<prog, traceVars, wake, current, stack, rerun, next, known, traces, signals>>

\* Some branch is taken: the first transition dropped of each thread is its next one again.
Branch ==
  /\ stage = "between" /\ traces < MaxTraces
  /\ \E k \in 0..(Len(stack) - 1) :
       /\ stack' = SubSeq(stack, 1, k)
       /\ next' = [t \in DOMAIN next |->
                     LET dropped == {i \in (k + 1)..Len(stack) : stack[i].tid = t}
                     IN  IF dropped = {} THEN next[t]
                         ELSE stack[CHOOSE i \in dropped : \A j \in dropped : i <= j]]
  /\ stage' = "fork"
  /\ UNCHANGED <<prog, traceVars, sharedVars, current, rerun, known, traces, signals>>

\* No branch is left: mc_stop_model_checking.
Finished ==
  /\ stage = "between" /\ stage' = "stopping"
  /\ UNCHANGED <<prog, traceVars, sharedVars, current, stack, rerun, next, known, traces, signals>>

\* Mutant: no handler for SIGCHLD.
SignalledByPanic ==
  /\ "SIGUSR1" \in signals /\ stage \notin {"stopping", "exited"}
  /\ signals' = {} /\ stage' = "stopping"
  /\ UNCHANGED <<prog, traceVars, sharedVars, current, stack, rerun, next, known, traces>>

\* Mutant: mc_exit in place of mc_stop_model_checking.
SignalledExits ==
  /\ signals # {} /\ stage \notin {"stopping", "exited"}
  /\ signals' = {} /\ stage' = "exited"
  /\ UNCHANGED <<prog, traceVars, sharedVars, current, stack, rerun, next, known, traces>>

\* A trace that dies early, or panics, interrupts the scheduler wherever it is.
Signalled ==
  /\ signals # {} /\ stage \notin {"stopping", "exited"}
  /\ signals' = {} /\ stage' = "stopping"
  /\ UNCHANGED <<prog, traceVars, sharedVars, current, stack, rerun, next, known, traces>>

SchedulerStep ==
  \/ Fork \/ (\E t \in Tids : Resume(t)) \/ WaitOver \/ Read \/ EndTrace \/ ExitAtDeadlock
  \/ Reap \/ InterceptedExit \/ Branch \/ Finished

Next == (\E r \in Routines : ThreadStep(r)) \/ SchedulerStep \/ Killed \/ Signalled

Spec == Init /\ [][Next]_vars

\* The system runs both processes and delivers signals; a thread's own code between two
\* operations comes to an end.
FairSpec ==
  /\ Spec
  /\ \A r \in Routines : WF_vars(ThreadStep(r))
  /\ WF_vars(SchedulerStep) /\ WF_vars(Killed) /\ WF_vars(Signalled)
-----------------------------------------------------------------------------
(* Properties                                                              *)

\* Every variable has its type, and no semaphore holds more than one permit: neither side
\* wakes the other twice.
TypeOK ==
  /\ process \in {"none", "running", "zombie"} /\ stage \in Stages
  /\ at \in [Routines -> Places] /\ \A r \in Routines : done[r] \in 0..Len(Visible(r))
  /\ self \in [Routines -> 0..Cardinality(Routines)] /\ handle \in [Routines -> {0} \cup Tids]
  /\ nextId \in Tids /\ binary \in {0, 1}
  /\ wake \in [Tids -> {0, 1}] /\ back \in [Tids -> {0, 1}]
  /\ current \in {0} \cup Tids /\ rerun \in Nat /\ traces \in 0..MaxTraces
  /\ known \in Seq(Tids) /\ DOMAIN next = DOMAIN known
  /\ signals \subseteq {"SIGCHLD", "SIGUSR1"}

\* The threads that run program code or the code of a wrapper.
Moving == {r \in Routines : at[r] \notin {"unborn", "newborn", "asleep", "gone"}}

\* At most one thread of the trace moves, and only while the scheduler waits for that very
\* one: so the mailbox that all threads share has one writer at a time and does not change
\* while it is read.  A new thread moves only while its creator waits for it.
OneAtATime ==
  process = "running" =>
    /\ \A r \in Moving : \/ stage \in {"stopping", "exited"}
                         \/ stage = "waiting" /\ current = self[r]
    /\ \A r, q \in Moving : r = q
    /\ \A r \in Routines : at[r] = "newborn" => \E q \in Moving : at[q] = "creating"

\* What McDpor builds on: whenever the scheduler may choose a thread, every thread it takes
\* for alive is a thread of the trace with the same id, did as many operations as the
\* transition stack says, sleeps, and its next operation is the one the scheduler believes,
\* about the same thread.  It has to survive thread creation, reruns and branches.
SchedulerKnowsTrace ==
  stage \in {"ready", "search"} /\ rerun = Len(stack) /\ signals = {} =>
    \A t \in Alive(stack) : \E r \in Routines :
      /\ self[r] = t /\ at[r] = "asleep"
      /\ done[r] = Cardinality({i \in DOMAIN stack : stack[i].tid = t})
      /\ next[t].type = Pending(r).type
      /\ Pending(r).to # Nobody => next[t].obj = self[Pending(r).to]

\* A pthread_t stands for one thread as long as a trace runs: none is created after another was
\* joined, and a join is of a thread that was created and was not joined.
OneNameEach ==
    process = "running" =>
      \A r \in Routines : at[r] = "going" =>
        /\ Creates(Pending(r)) => \A q \in Routines : at[q] = "gone" => handle[q] # 0
        /\ Pending(r).type = "join" => handle[Pending(r).to] # 0

\* No thread of the trace process can ever move again: each is gone or sleeps, and no permit is
\* there to wake it.
SleepsForEver ==
  /\ \A r \in Routines : at[r] \in {"unborn", "asleep", "gone"}
  /\ \A t \in Tids : wake[t] = 0

\* When McMini exits, whatever interrupted it, the trace process is dead and waited for.  Only
\* --first-deadlock leaves the trace of the deadlock, an orphan that runs no step any more.
NothingLeftBehind ==
  stage = "exited" =>
    \/ process = "none"
    \/ prog \in StopAtFirst /\ (process = "running" => SleepsForEver)

\* Whatever a trace does (it crashes, aborts, panics, calls exit or blocks for ever), McMini
\* comes to an end: it never waits for a thread that cannot answer.
WellDefined == \A r \in Routines : \A i \in DOMAIN prog[r] : prog[r][i].type # "undefined"
McMiniEnds == WellDefined => <>(stage = "exited")
==============================================================================
