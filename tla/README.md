# Verification of the CS5600 course systems

The repository holds the assignments of a computer systems course. The parts of
it that are concurrent, or that live on after a failure, are what this project is about:

* **hw7/mcmini-alpha**: McMini, a stateless model checker for pthread programs
  (about 7,800 lines of C++ and 5,200 of headers). It explores the interleavings
  of a program by dynamic partial-order reduction (DPOR) and reports deadlocks
  and data races. A model checker that misses an interleaving fails silently,
  which is why most of the work here is on it;
* **hw6**: a counting semaphore built from a mutex and a condition variable, an
  earlier one that spins, and the producer-consumer programs that use them;
* **hw2** (and hw1): a checkpoint of a running process, taken in a signal
  handler, and the program that restarts it;
* **hw3**: a small shell with pipes, background jobs and ^C;
* **hw7/reader-writer.c**: readers and writers around one condition variable.

Paths below are relative to `src/`; `mcmini/` stands for `hw7/mcmini-alpha/`.

## 1. Inventory

| component | state | operations | status |
|---|---|---|---|
| counting semaphore, `hw6/semaphore.c` | `count`, `waiting`, a mutex, a condition variable | `sem_init`, `sem_wait`, `sem_post` | modelled, refined, proved |
| producer-consumer, `hw6/producer-consumer.c` | ring buffer, two indexes, two semaphores, a mutex | `producer`, `consumer`, `push_buf`, `take_from_buf` | modelled, proved |
| spinning semaphore, `hw6/semaphore-temp.c`, and the programs over it, `producer-consumer-temp*.c`, `hw7/producer-consumer` | `count`, a mutex | the same with `block()` | modelled, refined, proved |
| McMini search engine, `mcmini/src/MCState.cpp`, `mcmini_private.cpp`, `MCStateStackItem.cpp`, `MCClockVector.cpp`, `MCThreadData.cpp` | stacks of transitions and states, backtrack, done and sleep sets, clock vectors, shadow objects, next transitions | the search loop, DPOR updates, going back in reverse or by replay, verdicts | modelled but for GDB sessions; bookkeeping, clock vectors, the scheduler's picture of the trace and the truth of its reports proved |
| McMini transitions on threads, mutexes, semaphores, globals | a shadow object each | read, apply, unapply, enabled, dependent, coenabled, racing | modelled but for abort |
| McMini condition variables, `transitions/cond`, `misc/cond` | waiters, wake groups, spurious wakeups, the mutex | init, enqueue, wait, signal, broadcast | modelled but for two policies that nothing creates |
| McMini barriers, reader-writer locks of two kinds | waiting sets and parity; acquire queue, readers, writer | init, enqueue, lock, unlock, wait | modelled but for what no wrapper posts |
| handshake of scheduler and trace process, `mc_shared_cv.c`, `MCTransitionsShared.cpp`, `signals.cpp`, the wrappers | two semaphores per thread, the mailbox in shared memory, trace process ids, a binary semaphore for thread creation | await and wake, post a visible operation, fork and end a trace, signals | modelled, two invariants proved |
| launcher, configuration, export, tests of McMini | environment variables | parse options, preload the library | not modelled |
| checkpoint and restart, `hw2` (`hw1` saves in the same way) | memory, file `myckpt`, `is_restart` | signal handler, save, restore | modelled, proved |
| shell, `hw3/myshell.c` | `childpid`, flags of a command line, processes | fork, exec, wait, SIGINT | modelled but for parsing and data; proved |
| `hw7/reader-writer.c` | four counters, a mutex, a condition variable | `reader`, `writer` | modelled, proved |
| other hw7 programs, hw4, hw5 | | | not modelled (section 7) |

**How they interact.** The producers and consumers of hw6 share the buffer
under a mutex and wait for each other through two semaphores only. In McMini a *scheduler*
process forks a *trace* process that runs the program under test. Wrappers around
the pthread functions make every thread stop before a visible operation, write
it to a mailbox in shared memory and wait until the scheduler lets it go on. The
scheduler mirrors the objects of the program in *shadow objects*, keeps the
*transition stack* (what was run) and the *state stack* (what is still to be
tried from each state), and after each transition adds to the backtrack sets the
threads whose order against it may matter. When no thread can or need run, the
trace ends; the scheduler picks the deepest state with a thread to backtrack on,
brings its shadow objects back to that state, and forks a new trace process
rerun to it. A checkpointed program and `restart` meet in the file only, the
shell and its children in signals and `waitpid`.

**What is hard.** In hw6: threads that barge in between a post and the wakeup it
causes, spurious wakeups, several sleepers and one signal, indexes and
semaphores that must agree, permits withheld by waiters that spin. In McMini: the interplay of DPOR, clock vectors and
sleep sets, where one wrong entry silently drops an interleaving; the two ways
back (in reverse, or reset and replay) that must lead to the same state; the
declarations `dependentWith` and `coenabledWith` of every class, on which all
else rests; limits on stacks and depths; and the handshake with a process that
may die. In hw2: a flag that is part of the memory it describes, and a file written in place. In the shell:
a handler that writes the variable by which parent and child are told apart.
`PROJECT.json` lists the hazards with their lines.

**What makes each component correct.** Semaphores: they are counting semaphores (a
wait returns only for a permit, each permit once), no signal is lost, nobody
sleeps beside a free permit for ever. Producer-consumer: no item is overwritten, lost,
repeated or reordered, and each is taken. Search engine: it ends; it finds every state
the program can end in and each trace once; the deadlocks and races it reports are
the program's; what it believes about the trace process is so. Transitions:
independent operations commute and do not disable one another; undoing is the
inverse of doing. Condition variables, barriers, locks: every outcome of the
program is one of the shadow object's and the other way round. Handshake: one thread runs at a time, the mailbox is read
before it is written again, and a trace that dies does not hang the scheduler.
Checkpoint: a whole image restarts the program exactly, and what runs of a broken one has no holes.
(It is not so that the file always holds a whole image: it is truncated and
written in place.) Shell: a prompt means that the last command is done, and ^C ends the command and not the shell.

## 2. Modules

| module | models | role |
|---|---|---|
| `CountingSemaphore` | what a semaphore promises | abstract specification: a value and the waits not yet granted |
| `Semaphore` (+`MC`, `Proofs`) | `hw6/semaphore.c`, one action per step between two mutex operations | detailed specification; `Implements` is the refinement mapping |
| `SpinningSemaphore` | `hw6/semaphore-temp.c` | implements the same abstract specification |
| `ProducerConsumer` (+`MC`, `Proofs`) | `hw6/producer-consumer.c` on the abstract semaphores | |
| `SpinningBuffer` (+`MC`, `Proofs`) | the producer-consumer programs over the spinning semaphore | composes two instances of `SpinningSemaphore` |
| `McThreads`, `McMutexes`, `McSemaphores`, `McGlobals`, `McConds`, `McBarriers`, `McRWLocks`, `McRWWLocks` | one family of transition classes each, with its shadow object | state functions, no variables |
| `McTransitions` | `MCTransition.h`/`.cpp`: the virtual functions as dispatch over the families | |
| `McDpor` (+`MC`, `Proofs`) | the scheduler: `MCState.cpp` and the loops of `mcmini_private.cpp` | composes the families with the search; its proofs have the theorems about the declarations too |
| `McHandshake` (+`MC`, `Proofs`) | scheduler and trace process, thread by thread | what `McDpor` takes as one step |
| `Checkpoint` (+`MC`, `Proofs`) | `hw2/libckpt.c`, `helper.c`, `restart.c` | |
| `Shell` (+`MC`, `Proofs`) | `hw3/myshell.c`, its children, the kernel's part | |
| `ReaderWriter` (+`MC`, `Proofs`) | `hw7/reader-writer.c`, in three policies | |

### Semaphore

A thread is somewhere in `sem_wait` or `sem_post` (`pc`); `mutex` says who holds
the mutex and `condition` who sleeps on the condition variable, `count`
and `waiting` the fields of `struct sem_t`. `WaitDecrement` is the decrement and
the first test, `WaitSleep` is `pthread_cond_wait` (releases the mutex and
sleeps in one step), `WaitRelock` the wakeup that takes the mutex again and
re-tests. Signals and spurious wakeups move sleepers to the relocking ones; a thread that never slept may take
the mutex before them. In the abstract specification a wait is granted when the
value is positive; the mapping computes the value from `count` and
`waiting`, since `count` goes negative while threads sleep.

### SpinningSemaphore and SpinningBuffer

In `SpinningSemaphore` a waiter that found the count negative looks again and
again (`BlockLock`, `BlockTest`, `BlockAgain`) and passes without changing it.
The abstract value is the count plus the waiters, since each subtracted a permit it
has not got. It implements the abstract semaphore, but it does not
serve like one: with two waiters one post leaves the count at -1 and neither passes. The comment
at the end of `hw6/partial-solution.c` tells of it; what it means for a program is
asked in `SpinningBuffer`.

`SpinningBuffer` asks what that does to the programs: `at` says where a thread is
in its loop, and each call of `sem_wait` or `sem_post` is the steps of an
instance of `SpinningSemaphore` (`Slots` for `sem_producer`, `Items` for
`sem_consumer`) until the thread is idle there again. The items themselves are
`ProducerConsumer`'s subject; here they are a number. Each semaphore may withhold a permit for all of its
waiters but one, so everybody may spin unless there are more slots than that:
`EnoughSlots`. `producer-consumer-temp` (1 and 1 threads, 5 slots) and
`hw7/producer-consumer` (2 and 2, 4 slots) have enough; `producer-consumer-temp2`
(3 and 3, 2 slots) has not, and can hang, as the comment in
`partial-solution.c:67-81` leads one to expect.

### ProducerConsumer

Each thread waits for its semaphore, locks the mutex, moves an item, unlocks
and posts the other semaphore. The semaphores are the abstract ones that
`Semaphore` is proved to implement. Items carry the number of
their push, so that a lost, repeated or reordered item is visible; `MaxItems`
stops the producers in TLC's instance.

### McMini: transitions and search

A transition is a record `[tid, type, obj]`, an object its shadow state. The families hold,
per class, exactly the virtual functions the class overrides; `McTransitions`
is the dispatch (`EnabledInState`, `Apply`, `Unapply`, `DependentWith`,
`CoenabledWith`, `RacingWith`, ...), with the defaults of `MCTransition`.
Waits on condition variables and takings of reader-writer locks are two transitions each, as in the code:
one enters the waiters or the queue, one wakes up or takes the lock. A
thread joins a barrier when its wait is *read* from the mailbox, as in
`MCReadBarrierWait`.

`McDpor` has one action per stretch of the scheduler's loops that touches the state in
one piece:

| action | code |
|---|---|
| `Run` | one turn of `mc_search_dpor_branch_with_initial_thread`: resume the thread, `simulateRunningTransition` with all it does to stacks, clock, sleep set and depth, read the mailbox |
| `UpdateOther(p)`, `UpdateLast` | the two halves of `dynamicallyUpdateBacktrackSets`; one step per thread, in any order, as the code iterates over an unordered set |
| `Choose`, `EndTrace`, `LimitReached` | the end of a turn: data races, the next thread, or a verdict |
| `Branch`, `Finished` | `mc_do_model_checking`: the deepest backtrack point, `reflectStateAtTransitionIndex` by `Revert` or `Replay`, the new trace |

The trace process is one variable, `pc`, the number of visible operations each
thread did; `Posted` is what it puts into the mailbox. Where the code takes any element of an
`unordered_set` the model takes every one. The second half of the module defines the program on
its own, every interleaving of it without any reduction (`ReachableStates`,
`Outcomes`): the search is compared with that, not with itself. The
programs are sequences of visible operations without branches. The program
is chosen in `Init`, so that one run covers a family of programs.

### McHandshake

What `McDpor` takes as one step, "run a thread and learn its next visible
operation", is here every step of two processes. `at` is where each thread of
the trace is: unborn, newborn (between `pthread_create` and its registration),
posting, waking the scheduler, asleep on its own semaphore, going, in one of the wrappers, gone. `stage` is
where the scheduler is: searching, waiting for a thread, reading its mailbox, ending a trace, between traces,
forking, on its way out, blocked for ever or exited. `wake` and `back` are the two
semaphores of each thread id in shared memory, `mailbox` the one record that all
threads write, `binary` the semaphore by which a creator waits for the new
thread. `stack`, `rerun`, `next` and `known` are what the scheduler believes: the transitions of this
trace, how many of them it has done again, the next one of each thread, and which thread an id stands for.
`Register`, `CreateThread`, `ChildRegistered`, `Joined`, `Post`, `Await`, `PostFinish`,
`Leave` and `Die` are the wrappers; `Fork` (to the beginning, with a rerun of the
transition stack), `Resume`, `WaitOver`, `Read`, `EndTrace`, `Reap` and
`Branch` are `mcmini_private.cpp`; `Killed` and `Signalled` the signal handlers of
`signals.cpp`. `Branch` and `Resume` take any thread that is enabled, and
`EndTrace` may end any trace: every choice the search could make, and more. `ExitAtDeadlock` is the exit of
`--first-deadlock`, from the middle of the search, wherever the trace may be in deadlock; `StopAtFirst` are the programs that have the option.

Left out: SIGINT, the GDB reruns, and a program that dies by
`_exit`. The wrappers of mutexes, semaphores and the rest follow one pattern (`Post`, then
`Await`), and stand for one another.

### Checkpoint

`memory` gives each segment of `/proc/self/maps` one number: for the data segment of
`libckpt.so` it is `is_restart`, for those the program writes (`Written`) how far it has come, and 0 for the vdso, which nobody writes.
The image is a sequence of pieces (a header and its body: the registers, then
each segment), each whole, without its body, or cut; `Open` truncates the file, `WritePiece` appends to it with the numbers
memory holds *then*, and `WriteFails` breaks it off where a full disk would. `ReturnFromGetcontext` is the
code after `getcontext`, which runs once when the image is taken and once when `setcontext` goes
there. `Kill` is possible everywhere, in the handler and in the middle of a restart too; `Restart`
begins with whatever file there is, and `SetContext` goes on with whatever it read, as `restart.c` tests nothing. A segment that is missing, or
mapped without its body and so all zero, is not in `mapped`, and `Fault` is the touch that ends the process: at once if it is one of `Needed`,
the segments that the return from `getcontext` and from the handler touches (library code and data, the stack), otherwise when the program comes to it.
One process lives at a time.

### Shell

`at` is where `main` is, `childpid` the global, `process` the processes by
number with their stage (a copy of the shell that has not called `exec`, a stage
of `exec_pipe`, running, zombie), their parent and the children a pipe waits for. The kernel's
part is external: `Ends` (zombies, orphans, init), `Asked` (which children a
`waitpid` is about), the numbers, which are used again. ^C makes
SIGINT pending for everybody; the shell's handler runs between any two of its steps, a copy of the
shell runs the handler too and survives, a program dies. Forks fail at any time.

### ReaderWriter

All shared variables are read and written with `mut` held, so a step is
the code from a lock to its unlock or to `pthread_cond_wait`. The policy, a macro in the file, is chosen in `Init`.

## 3. Runs

| run | instance | what it shows |
|---|---|---|
| `semaphore` | 4 threads, 1 permit, values up to 2, no symmetry (liveness) | implements `CountingSemaphore`; no lost wakeup; everybody is served once calls stop |
| `producer_consumer` | 3 producers, 3 consumers, 3 slots, 5 items | no overwrite, first in first out, every item taken |
| `spinning_buffer` | 2 producers, 2 consumers, 3 slots; 43,292 states | the spinning semaphore implements `CountingSemaphore`; no permit lost or made between the two; never all spin; items are moved for ever |
| `mcmini_search` | 111 programs of up to three workers on mutexes, a global and a semaphore, philosophers among them; 26 of them with `--first-deadlock`, which also unlock what they do not hold; 24,529 states | termination, all outcomes, exact deadlocks and races, exact clocks, sound sets, no trace twice, the stacks fit and stop where they are full, the scheduler's view is the trace process's |
| `mcmini_sync` | 33 programs of two workers on a condition variable, a barrier and both reader-writer locks; 105,249 states | all outcomes; wake groups nest and wakeups have causes; locks are served in order and exclude |
| `mcmini_handshake` | 8 programs of up to 4 threads that create, join, exit, abort, crash, panic or stop at the first deadlock; 2 traces; 824,437 states | one thread moves at a time, the scheduler's picture is right at every choice, McMini ends and leaves no process, but for `--first-deadlock`, whose trace never moves again |
| `checkpoint` | 4 segments, the vdso last, counts up to 2; 2,097 states | a whole image restarts exactly, what runs of a broken one has no holes, restart returns |
| `reader_writer` | 3 readers, 3 writers, 3 policies; 26,010 states | writers alone, hangs only mixed, and never without preference |
| `shell` | 3 process numbers; 200,458 states | a prompt means done; the shell waits for children it has; ^C ends its wait |
| `mcmini_stale` | 3 workers that initialise the mutexes | **violated**: undoing transitions leaves a thread with the clock of an undone one |
| `mcmini_barrier` | 3 threads at a barrier | **violated**: a replay forgets a thread waiting at a barrier, and reports a deadlock that does not exist |
| `shell_replaced` | as `shell` | **violated**: ^C between `fork` and the test of `childpid` makes the shell run the command in its own place |

**Bounds.** Four semaphore threads are enough for two sleepers, a poster and a
newcomer at once; the proofs drop the bound. Three slots and five
items make the buffer fill and both indexes wrap. Three slots are the fewest for which two and two threads over
the spinning semaphore go on; with two TLC finds them all spinning. For McMini two
workers with main are the least where races exist, three the least where a
happens-before relation goes through a third thread (`RacesAfter` with q # p) and
where the set E of a backtrack update can be empty. `MaxTransitions` is 28
in `mcmini_search`, which one program meets, under `--first-deadlock`, and no other, and 100 elsewhere, which none meets
(the longest trace has under 40): a search is finite because the programs are. In the handshake two traces are the least
in which something of one trace can reach the next (ids, semaphores left posted,
handles), and four threads let one create while another joins. For the
checkpoint `MaxWork` bounds how far the program comes, so that memory differs between the signal, the saving of each
segment and the restart; the numbers of kills and restarts are not bounded. The
vdso lies after the stack, as in a process: a file cut before it is the broken image that runs. Three
process numbers let the shell run a pipe, or a command beside a background job or its
zombie, and run out; numbers are used again. `ReaderWriter` has the numbers of the file.

**Fairness.** In `Semaphore`, weak fairness of each thread's steps
inside a call, and none of calls or of spurious wakeups: a runnable thread is
run, but nobody has to call. `EventuallyServed` therefore speaks of executions
whose calls come to an end. `SpinningBuffer` has weak fairness of each thread's steps, whose loops never end, and adds strong fairness
of the steps that take a mutex: spinning threads make it free and taken without end, and a thread
that asks again and again gets it, as waiters sleep a second between two looks.
`ProducerConsumer` assumes the steps of each producer and each consumer weakly
fair. `McDpor` assumes
`WF_vars(Next)`: the scheduler is one sequential process. `McHandshake` has
weak fairness for each thread's steps, the scheduler's, and the delivery of the
signals it is waiting for. `Checkpoint`: the process goes on with what it is doing
(`WF_vars(Step)`); kills, signals and restarts are nobody's duty. `Shell`: the kernel
runs processes and delivers signals; the user need not type and a program need not
end. `ReaderWriter`: each thread that can run runs; no spurious wakeup has to come.

**Deadlock checking** is off where a system may really stop: producers at
`MaxItems`, a scheduler process that exits when the search is over, a process killed with nobody to
restart it, a shell that quits, readers and writers that are done.

## 4. Proofs

| theorem | statement |
|---|---|
| `SemaphoreProofs!TypeCorrect`, `LostWakeupFreedom` | the type invariant and `NoLostWakeup`, for any finite set of threads and any initial count |
| `SemaphoreProofs!Refinement` | `Spec => Implements`: `hw6/semaphore.c` is a counting semaphore |
| `ProducerConsumerProofs!TypeCorrect`, `NothingOverwritten`, `FirstInFirstOut` | the buffer is used as a queue, for any finite numbers of threads and any size |
| `SpinningBufferProofs!SlotsRefine`, `ItemsRefine` | the same of `hw6/semaphore-temp.c`, in any program, for the two initial counts the programs give it |
| `SpinningBufferProofs!SlotsImplementation`, `ItemsImplementation` | so both semaphores of the producer-consumer programs implement `CountingSemaphore` while they are used together |
| `SpinningBufferProofs!PermitsAreCounted`, `NeverAllStuck` | no permit is lost or made between two spinning semaphores; with enough slots the threads never all spin with nothing to take |
| `McDporProofs!IndependentCommute` | transitions that McMini declares independent commute and do not enable or disable one another, in every state of the shadow objects, for all families but barriers and but for three pairs |
| `McDporProofs!IndependenceIsSound` | so what is declared independent is, in every reachable state of a program in which those pairs do not occur |
| `McDporProofs!BacktrackSetsAreSound`, `StacksNeverOverflow` | threads to backtrack on are enabled, not searched and not asleep; the stacks stay in their arrays, for any programs and limit |
| `McDporProofs!TraceIsFollowed`, `SchedulerIsExact` | the scheduler's depths, next operations and objects are those of the transitions on the stack, whatever was undone or replayed: for every program but for what an undo or a replay may forget, exactly for programs that give it no occasion |
| `McDporProofs!LeaderIsEnabled`, `EnabledRunOnly` | the scheduler resumes only threads that would not block |
| `McDporProofs!StacksFillOnly` | the search stops at the limit only when the stack is full and the program could go on |
| `McDporProofs!ReportsAreReal` | what McMini prints is so: the trace is an execution of the program, and it ends in the deadlock, or at the two accesses, that the report names |
| `McDporProofs!WakeGroupsStayNested`, `WritersAlwaysExclude` | wake groups hold waiters and later ones hold the earlier; writers have a lock alone: in every state of every search |
| `McDporProofs!WakeupsAreCaused`, `LocksAreFair` | in every trace one wakeup at most, the spurious one, came without a signal since the thread waits; threads get a lock in the order they asked for it: for all programs made of the library's wrappers |
| `McDporProofs!ClocksDecideOrder`, `ClocksAreExact` | the clocks on the stack decide exactly what happens before what, in every search of every program; those of the threads too, as long as no branch undoes the transitions it drops |
| `McDporProofs!TypesAreKept` | type correctness of the search, in all programs made of the library's wrappers |
| `McHandshakeProofs!OneThreadMoves`, `NoTraceLeft` | one thread of the trace moves at a time, and only while the scheduler waits for it; when it exits McMini leaves no trace process, but for the one `--first-deadlock` stops at, which sleeps for ever |
| `McHandshakeProofs!SchedulerKnows` | whenever the scheduler may choose, every thread it takes for alive sleeps, did as many operations as its stack says, and stopped at the one it believes, about the same thread: for any program and any numbers of threads and traces, while no `pthread_t` is used again |
| `CheckpointProofs!Types`, `WholeImageRestarts`, `BrokenImageHasNoHoles` | for any list of segments, any of them needed on the way back, and any kills and restarts |
| `ShellProofs!WaitsForAChild`, `PromptComesLast` | the shell waits only for a child it has; while ^C was never typed a prompt means that the last command in the foreground is done, for any process numbers |
| `ReaderWriterProofs!CountersAreExact`, `WritersExclude`, `OnlyAPreferenceHangs` | the counters are exact, and somebody sleeps only while a thread will signal or a preference keeps both kinds waiting; a writer is alone; only a preference hangs, with both kinds asleep: for any numbers of readers and writers |

**Counting semaphore.** `NoLostWakeup` is not inductive: whether a
sleeper may be left depends on how many wakeups were sent and not yet used. The
strengthening `IInv` adds that the thread inside the mutex is the only one at a
locked place, that `waiting` is the number of threads in the loop of `sem_wait`
(`WaitersCounted`), and that `count + waiting`, the permits not taken, is never
negative (`NeverOverdrawn`). Each action moves one thread between two of these
counts. The refinement maps the abstract value to `count + waiting` and needs
`IInv` only: `CallWait` maps to `Request`, `WaitDecrement` (when a permit is free) and
`WaitLeave` to `Grant`, `PostIncrement` to `Release`, and every other step to a stutter.

**Spinning semaphore.** The refinement needs types only, not even the mutex: the value
is the count plus the waiters, and a waiter that passes leaves the waiters and is granted.
It is proved in `SpinningBufferProofs` of the two instances that `SpinningBuffer` composes (`SlotsRefine`, `ItemsRefine`), whose
calls come from anywhere; `SlotsImplementation` follows because every step of the program is a step of an instance or leaves it alone.
For the two together the invariant adds where a thread may be in
each semaphore (`Placed`). Each step is one of five moves of a thread between the
waiters and the holders of a permit, and `MovesBalance` shows once that all five keep
the sum of both values and the permits held. When all spin nobody holds one, so the two negative counts would have
to make up for `BufferSize`, which `EnoughSlots` excludes.

**Producer-consumer.** The strengthening `IInv` says that the two
semaphores and the threads between their wait and their post add up to
`BufferSize` (`PermitsCounted`), that the slots between the indexes hold, in order, the
items pushed and not taken (`WindowCorrect`), and that only the holder of the
mutex is inside. From it an unused slot is free when a producer writes it, and
the item a consumer reads is the oldest.

**Declarations of McMini.** The reduction is sound only if
transitions that `dependentWith` does not name really commute, in every state
and not only in the ones some program was seen in. The lemmas `IndependentOnMutexes` and those like it for the other families
show that two transitions which
write the same cell of the shadow objects, or of which one tests what the other writes, are
declared dependent or write the same value; `SameOutcome` and `EnablednessKept` put the families together.
`IndependentCommute` follows for any number of objects, in every state of them, also of transitions of two families.
Each of its hypotheses is needed. The thread that a creation is about has
not run yet, since a second creation would bring back a thread another one may join; a thread about to take a semaphore has entered its queue;
and `Undeclared` names three pairs that are declared independent although they are not (see "seen on the way"): a post and the wait it enables, two readers of one lock, each of
which changes the queue the other waits in, and a wait on a condition variable with an operation on its mutex. Barriers
are left out, since the effect of a wait is in the reading of it.

`IndependenceIsSound` carries this to programs. `ReachableStates` of the model looks as many steps ahead as the threads have operations, so the proof shows
first that this sum is a number (by induction on the size of a set of threads, hence `ThreadsFinite`) and then goes on step by step: in every reachable state the
objects are typed, a thread created by an operation not yet done has not run (`Born`), and whoever is about to wait on a semaphore is in its queue (`Lined`).
A program is `WellDeclared` when it creates each thread once, waits on semaphores by the wrapper, uses no barrier, and no two of its threads
read one lock or use the mutex of a condition variable one of them waits on. All 111 programs of `mcmini_search` are, and 17 of the 33 of `mcmini_sync`;
the others have barriers, waits with mutexes or two readers, for which `EveryOutcomeExplored` is what TLC checks.

**Search, the sets.** The invariant `IInv` of `McDporProofs` says that the stacks match
(`StacksMatch`: one state more than transitions), that every thread in a
set is one (`ThreadsKnown`), that each state's sets are sound (`ItemsSound`), that what was searched is asleep
(`SearchedAsleep`) and what the top state looks like at each stage (`TopItem`). It is about every program and
every limit.

**Search, the trace.** That the scheduler resumes only enabled threads, or reports
only what is there, is not inductive: a branch takes a thread from the backtrack set of a state left long ago,
and goes back to that state by undoing transitions one after another or by running the rest again on fresh objects. So `TraceInv`
speaks of all the states on the stack at once, in terms of `Along(q)[k]`, the objects after k transitions of a sequence:

| part | says |
|---|---|
| `Traced` | the transition stack is a history of the program: each thread's operations in their order, each when it could run, by a thread alive; the scheduler's objects agree with the end of it |
| `Counted` | `pc` and `depth` are what the stack has of each thread |
| `NextTraced` | the next transition of each thread is the program's at its place |
| `EnabledThen` | what a state's item calls enabled could run in that state of the history |
| `LeaderReady` | the thread that goes on next can |
| `Irreversibles` | `irrev` lists, in order, every state after a transition that cannot be undone; so above the last of them a branch may undo |
| `ThreadsMet` | every thread alive anywhere in the history is known, and so is what a thread is about to create |

A run of a transition makes the history longer by one (`RunTraced`); a branch keeps a prefix of it, and what has to be shown is that `Revert` undoes exactly the
rest and `Replay` repeats exactly the prefix (`BranchTraced`). Both, and `After`, which the properties
are stated with, are folds over sequences. The proofs take them one element at a time and go on by induction on the length of the trace: the set of lengths for
which a fact holds contains 0 and the successor of each of its elements, which the library's theorems on wellfounded sets turn into all numbers
(induction over an operator is out of the provers' reach, over a set it is not).

Undoing and replaying are *not* exact for every program; the theorems say how far they are. `Agrees` demands of two states of the objects that
threads, semaphores and reader-writer locks are the same, and of condition variables everything but the mutex. Mutexes and barriers must be the same
when the program is `Disciplined`: each thread releases only mutexes that it took and has not released since, no two operations initialise the same mutex, and
nobody uses a barrier. Otherwise the undo of an unlock locks a mutex that was free, the undo of a second initialisation leaves it undefined, and a replay
forgets who waits at a barrier (section 5). The mutex of a condition variable must be the same when nobody waits on one (`WaitsOnConds`), since a replay
resets it and it is set again only when an operation is read. `LeaderIsEnabled` asks for `Disciplined` only where the
thread's guard looks at such an object: a lock, a wakeup, a barrier. The hypotheses are what the code needs, and they are met: `Disciplined` holds of 30 of the 33 programs of
`mcmini_sync` (22 of them have no wait on a condition variable) and of 93 of the 111 of `mcmini_search`. The others have barriers, initialise one mutex in
several threads, or unlock what they do not hold; for those TLC checks the same properties.

`ReportsAreReal` is half of `DeadlocksExact` and `RacesExact`: nothing false is reported. It speaks of executions of any length; that nothing is *missed* is a
statement about whole searches and is model-checked. The wake groups and the locks need only that `Shadow`, the end of the
history, is `WellKept`, an invariant of the operations themselves (`WellKeptAlong`).

What was asked for and what was granted are more than the state of an object tells: `WakeupsCaused` and `ServedInOrder` relate
transitions of a trace to earlier ones. Along a history, whoever may be woken was sent a signal since it waits and
after one wakeup the spurious one is gone (`Caused`); the threads that asked for a lock are those that got it followed by its queue (`Fair`).
Both hold of `InTwoHalves` programs, where the two operations of a `pthread_cond_wait`, or of taking a lock, follow each other:
the wrappers post them so, and all programs of `mcmini_sync` and `mcmini_search` are. Without that a thread could take a lock whose queue it
never entered, where `MCRWLock.cpp` reads the front of a queue that may be empty.

Types need the same hypothesis, for the same queues: a thread that gets a lock takes the front off two of them, and a sequence stays one only
if somebody is in it. `Fits` says that a queue of a lock is as long as there are threads between the two halves
of an operation that enters it (`Amid`), which `LocksTypedAlong` shows for every length of the history; that a lock's
number of readers stays one needs that nobody releases a lock it does not hold, which would end the scheduler (`Unaborted`). The
other objects keep their types in any step (`Loose`), forwards and backwards. A branch never invents a clock: every state keeps the one it was made with, which knows
nothing later than itself (`ItemTyped`), and the threads take theirs from states (`ThreadClocks`).

Clock vectors keep an equation (`ClocksKept`): the entry of a clock for the thread of its own transition is that transition, for another
thread the latest one in the clocks of the transitions it depends on (`Feeds`). It implies, by induction along the stack and because dependence of
transitions of one thread orders them, that an entry is the last transition of that thread which happens before (`KnowsOf`, `ClocksDecide`). An entry
that was never set reads as the first transition of all; that is no lie, because every transition
after it happens after it: `main` runs first, and any other thread was created earlier (`Rooted`). This much holds of every search. For `HappensBeforeThread` the clock of a thread must be
that of its last transition on the stack (`ClocksRecent`), or the thread has not begun and only what creates or joins it conflicts with
it (`Newcomers`). `Run` and `Replay` keep that; `Revert` alone loses it, which is finding 1, so `ClocksAreExact` assumes
that no branch undoes (`Undoes`). Undoing needs a dropped tail of reversible transitions only: no search of 109 of the 111 programs of `mcmini_search`
ever does it, and TLC checks `ClocksExact` without the hypothesis on all of them.

**Handshake.** A token argument. While the scheduler waits, the thread it resumed has the one token: it moves,
or one of its two semaphores has a permit not yet taken (`OneToken`). At most one thread is between `pthread_create` and its
registration, and its creator waits for it (`OneNewborn`). When the scheduler does not wait, nobody
moves and no permit is left (`Quiet`). Every action passes the token on. `NoTraceThen` says at which stages of the scheduler no
trace process exists, `LeftThen` that one is there after the exit under `--first-deadlock` only; `Quiet` then says that it sleeps for ever.

That the scheduler knows the trace is not inductive: a branch cuts the stack short, and a new process must come, by the threads named on the
stack, to where the old one was, though it counts ids and fills `pthread_t`s afresh. So `KInv` says that there is a *history* `h`
of the stack: for each of its lengths, the ids of the routines, the number of operations each did and the number of ids given.

| part | says |
|---|---|
| `Chronicle` | each state of the history is the one before it with one routine gone on (`Onward`); each transition on the stack is what that routine had announced before (`Announced`); who is named is born, and has one creator |
| `CreatedFirst` | a thread that runs was created before on the stack, and not once more later; so whoever `Alive` names is a thread of the trace |
| `KnowsNext` | the ids the scheduler knows are 1, 2, 3..., those of the history among them; `next` is what each thread announces at its end, a start for one that is not born there |
| `KeepsPace` | where the live trace is in the history: at rest in the state `h[rerun]` (`Rests`), with one routine on its way from it to the next one, at one of five places (`OnTheWay`), or stopped there with its letter in the mailbox (`Stopped`) |

After a branch `KnowsNext` must hold again although `next` was set from transitions taken off the stack: the first dropped
transition of each thread is what it announced where the stack now ends (`BranchKnows`). A thread's id is its place in the order of
creation, and `IdOf` finds it by its `pthread_t`; both sides agree only while a `pthread_t` stands for one thread. The hypothesis `OneNameEach` says
so: nobody is created after another was joined, nobody is joined twice. Without it the property is false
of the code (section 5). The programs of `mcmini_handshake` satisfy it in every reachable state; before the proof TLC checked `KInv` too, with its history written out as a function of the stack, on
these programs, one of them shortened.

**Checkpoint.** `FileHolds` says what each piece of the file holds, in terms of the memory at
the moment it was opened: `is_restart` is 1 in every image, though it was 0 when the handler
began. `Saving` and `Restoring` say what is already in the file or in memory
when so many pieces were written or read, `Restored` that a restarted process has in every mapped segment what the signal found
there. Only the last piece of a file can be broken, so what is mapped has no holes (`MappedIsPrefix`) and is everything if the file is whole (`WholeIsMapped`).

**Shell.** `WaitHasChild` and `PromptMeansDone` need to know whose child each process is. `Lineage` says that only a pipe forks, that its children are
programs, and that nobody is an orphan before ^C; `Family`, that a process has the children it forked and has not waited for and no
others, so that a number used again begins without; `Quiet`, that no signal is pending before ^C. `ChildKnown` says at each place of the
shell's loop which child may be alive in the foreground, and that `childpid` names it or the handler has run since the fork.
A process that ends gives its children to init and changes what its parent waits for (`Ends`): one lemma, `Keeps`, says that nothing a child does takes one away from the shell.

**Readers and writers.** `Counted` says that each of the four counters is the number of threads at the places it counts, where a woken thread
counts as waiting until it has looked again; `Alone`, that a writer is active alone; `Watched`, that while somebody sleeps a thread is at its task, and will signal, or a
woken one has not yet looked, or else the policy has a preference and threads of both kinds sleep. `HangsOnlyMixed` is the last case.

Assumptions are the named ones of the modules: finite sets of threads that do not contain
`NoThread` (`ThreadsAssumption`, `BufferAssumption`, `RoutinesAssumption`), of McMini at most `MAX_TOTAL_THREADS_IN_PROGRAM`, so finitely many (`ThreadsFinite`), a
positive buffer (`SizeAssumption`, `BufferAssumption`), counts that are natural numbers
(`CountAssumption`, `SemCountAssumption`, `BarrierCountAssumption`), programs
of the operations of the families, that create and join threads and do not write the start and the finish of a thread themselves
(`ProgramsAssumption`), limits that are
numbers (`MaxTransitionsAssumption`, `MaxTracesAssumption`), a mutex for each condition
variable (`CondMutexAssumption`), segments that differ, one of which is the
library's and needed on the way back (`CheckpointAssumption`), finite sets of readers, writers and processes (`ReaderWriterAssumption`, `ShellAssumption`). The type invariants of `Semaphore`, `ProducerConsumer` and `Checkpoint` are proved and in no run;
that of `McDpor` is also checked in `mcmini_search`.

**Only model-checked**: liveness under fairness (`EventuallyServed`,
`EveryItemTaken`, `GoesOn`, `Terminates`, `McMiniEnds`, `RestartReturns`, `DefaultFinishes`,
`InterruptGetsPrompt`), which is out of the prover's reach; `EveryOutcomeExplored` and the other half of `DeadlocksExact` and `RacesExact`, statements about
whole searches, whose proof would be that of DPOR itself; the threads' clocks of `ClocksExact` in searches that undo, where it is false of some programs (finding 1).

## 5. Findings

1. *Stale clock* (`mcmini_stale`). `virtuallyRevertTransitionAtIndex` restores
   the clock vector of the transition it has just undone. `ClocksAreExact` shows that nothing else makes a clock wrong. The effect needs a tail of
   reversible transitions (`mutexInit`, `unlock`, `finish`, `join`) longer than one, which most programs do
   not have.
2. *Barrier after a replay* (`mcmini_barrier`). A thread joins a barrier when its wait is read,
   and running the wait changes nothing; a replay resets the barrier and reads nothing, so a wait that is
   pending is lost, and a deadlock is reported where every execution goes on.
3. *^C replaces the shell* (`shell_replaced`).
   The global `childpid` is at once what the handler clears and what tells parent from child:
   cleared between the fork and the test at line 85 it sends the shell into the child's branch.

Three more that the models have in them, without a run:

* *exit in the scheduler*. `mc_report_undefined_behavior` calls `exit` (`mcmini_private.cpp:597`),
  which the same library intercepts: the scheduler posts an exit and waits for a permit that only it could give
  (`InterceptedExit`, stage "blocked" of `McHandshake`), where `mcmini_private.h:436` says that McMini will abort. `McMiniEnds` leaves such programs out.
* *Second checkpoint*. Nothing sets `is_restart` back to 0 in the process that saves (`libckpt.c:128`). At the
  next signal it takes itself for restarted, after it has truncated the file: the handler returns and leaves an empty file.
* *^C is missed, or kills everything*. When `childpid` is not yet assigned (`myshell.c:81`) the handler kills nobody; after a failed fork
  it is -1, and the handler kills every process of the user (`myshell.c:35`).

Seen on the way and not given a run of their own:

* McMini's search: a branch runs its first thread past the limit on one thread's depth
  (`mcmini_private.cpp:506` against `MCStateConfiguration.h:22`); undoing a second initialisation of a mutex leaves it
  undefined (`MCMutexInit.cpp:60` against `MCTransition.h:279`); `MCStateStackItem.h:40` says a thread is in
  exactly one of the backtrack, done and sleep sets, while every searched thread
  is in done and sleep both (harmless); `isInDeadlock` compares the depth of all threads with the limit on one (`MCState.cpp:256`).
* Independence: a post is declared independent of the wait it enables (`MCSemPost.cpp:72` against
  `MCTransition.h:351`); no outcome is lost by it in any program tried, as the FIFO queue fixes the order of waits
  (`IndependenceSound` leaves the pair out). The same for two readers of a lock, and for an unlock and a condition variable's wait.
* Condition variables: a replay resets the object, so a pending entry of `pthread_cond_wait` has
  no mutex any more and `dependentWith` dereferences null (`MCCondEnqueue.cpp:57`); `MCWakeGroup.hpp` speaks of one thread per
  signal, while the single-group policy leaves every waiter of the group able to wake.
* Barriers: three threads at a barrier of two lose outcomes; `leave` is called by no transition; `MCBarrierEnqueue` is posted by no wrapper.
* Locks: `MCRWWLockWriter2Lock.cpp:80-86` tests the second kind of writer twice.
* Handshake: a `pthread_t` that the system uses again makes the ids of scheduler and trace disagree (`MCThread.cpp:24`);
  after `mc_trace_panic` its `waitpid` returns at once with an error, and the thread goes on (`mcmini_private.h:394`); with
  `--first-deadlock` the trace is left as an orphan that sleeps for ever (`mcmini_private.cpp:544`, `ExitAtDeadlock`).
* Checkpoint: `read_helper` loops for ever at the end of a file that was cut inside a header or a body; a file that ends cleanly after the
  stack is run without the vdso (`restart.c:29`, `RunsWithoutHoles`); a restarted process has no
  handler for SIGUSR2, as `000-README.txt:553-565` of hw2 says.
* Shell: ^C while `exec_pipe` is forking kills that process, and a command it has forked that
  has not called `exec` survives and runs on beside the prompt (`PromptMeansDone` says so only while ^C was never typed);
  background jobs are never waited for and stay zombies.
* `producer-consumer-temp2` can hang (see `SpinningBuffer`); `hw7/producer-consumer/000-README` describes a variant of
  `block()` that McMini finds an assertion violated in, but the `partial-solution.c` beside it still has the plain one, with which
  the buffer's assertions hold.
* `reader-writer.c` hangs under a preference, as `hw7/hw7` says; without one it never does (`DefaultFinishes`).

## 6. What the models leave out

The checkpoint's parsing of `/proc/self/maps` is the list of segments; a missing file is an empty one. `McHandshake`
ends traces whenever it likes. `McDpor`'s programs have no branches, and no thread of a run has a wait on a condition variable pending over a replay. The shell's
redirection is a plain command, its parser chooses a job, and what flows through pipes (and so a writer that dies of a closed pipe) is
the program's affair. `SpinningBuffer` counts items. Integers are unbounded: no counter here can come near the width of its type but
`count` of a semaphore posted without end, which `MaxCount` bounds.

## 7. Not modelled

* Launcher and configuration (`launch.c`, `main.cpp`): start-up only, the options are constants of `McDpor` and `McHandshake`. Export and
  test programs: entry points and inputs. GDB sessions (`mcmini_gdb`): reruns of traces the search made.
* `MCAbortTransition` in the search: no program of `McDpor` aborts (the trace that dies of it is in `McHandshake`). The two condition
  variable policies (glibc's groups, ordered wakeups) and the preferences of the locks: no constructor call creates them.
* The report of a lock or unlock of a mutex that no initialisation was posted for (`MCMutexLock.cpp:16`, `MCMutexUnlock.cpp:13`): it depends on
  which objects were registered, which no shadow state shows; the models speak of programs that initialise a mutex before they use it.
* `hw7/two-threads-and-mutex.c`: two mutexes in opposite orders, a program like many of `mcmini_search`.
  `hw7/parent-child-tasks.c`: an exercise of twenty lines whose intended bugs `hw7/hw7` explains.
* `hw1`: saves as hw2 does and has no restart. `readckpt` only prints.
* `hw4`: text. `hw5`: sequential assembly without state.

## 8. Further work

A refinement of `McDpor`'s trace process by `McHandshake`; programs whose threads wait on a condition variable
over a replay; a `pthread_t` used again.
