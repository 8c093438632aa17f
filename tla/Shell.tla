--------------------------------- MODULE Shell ---------------------------------
(***************************************************************************)
(* hw3/myshell.c: the loop that forks, runs and waits, the processes it    *)
(* makes, and ^C.  The terminal sends SIGINT to every process of its group *)
(* (nobody calls setpgid), and each gets it between any two of its steps.  *)
(* The shell's steps are those of an -O0 build, as in the Makefile: each   *)
(* reads childpid anew, and the handler may have changed it.               *)
(*                                                                         *)
(* Redirection runs one program like a plain command, in a file it opened, *)
(* and is not told apart; what flows through a pipe is left out.           *)
(***************************************************************************)
EXTENDS Integers, FiniteSets

CONSTANTS Pids,    \* the numbers there are for processes; when all are taken, fork fails
          Sh,      \* the shell
          Nobody   \* init, the parent of every orphan

ASSUME ShellAssumption ==
  /\ IsFiniteSet(Pids)
  /\ Sh # Nobody /\ {Sh, Nobody, 0, -1} \cap Pids = {}

VARIABLES
  at,          \* where the shell is in main
  childpid,
  returned,    \* what fork returned, or the process waitpid is waiting for
  job,         \* the command read: "program", "pipe" or "background"
  process,     \* the processes, by number
  pending,     \* who has a SIGINT not yet delivered
  interrupted  \* ^C was typed since the shell began

shell == <<at, childpid, returned, job>>
vars == <<shell, process, pending, interrupted>>

Jobs == {"program", "pipe", "background"}
Free == [stage |-> "free", parent |-> Nobody, job |-> "program", child1 |-> 0, child2 |-> 0]
\* A copy of the shell that has not called exec.
Copy(parent, j) == [Free EXCEPT !.stage = "copy", !.parent = parent, !.job = j]

Init ==
  /\ at = "loop" /\ childpid = 0 /\ returned = 0 /\ job = "program"
  /\ process = [p \in Pids |-> Free]
  /\ pending = {} /\ interrupted = FALSE

Live == {p \in Pids : process[p].stage \notin {"free", "zombie"}}
Unused == {p \in Pids : process[p].stage = "free"}
Children(q) == {p \in Pids : process[p].stage # "free" /\ process[p].parent = q}
Zombies(q) == {p \in Children(q) : process[p].stage = "zombie"}
Up == at \notin {"quit", "replaced"}

-----------------------------------------------------------------------------
(* The kernel                                                              *)

\* The processes of D end: a parent keeps them as zombies until it waits for them,
\* and init takes their children and waits for those at once.
Ends(D) ==
  [p \in Pids |->
     LET dead == p \in D \/ process[p].stage = "zombie"
         parent == IF process[p].parent \in D THEN Nobody ELSE process[p].parent
     IN IF process[p].stage = "free" \/ (dead /\ parent = Nobody) THEN Free
        ELSE IF dead THEN [Free EXCEPT !.stage = "zombie", !.parent = parent,
                                       !.job = process[p].job]
        ELSE [process[p] EXCEPT !.parent = parent]]

Die(D) == process' = Ends(D) /\ pending' = pending \ D

\* The children that q's waitpid(pid) is about (any, for 0 and -1): it takes a zombie of
\* them away, fails when there is none of them, and blocks otherwise.
Asked(q, pid) == IF pid \in {0, -1} THEN Children(q) ELSE Children(q) \cap {pid}

-----------------------------------------------------------------------------
(* The shell                                                               *)

ShellGoes(from, to) == at = from /\ at' = to

\* What was returned before is not read again.
StartLoop ==
  /\ ShellGoes("loop", "read")
  /\ childpid' = 0 /\ returned' = 0 /\ job' = "program"
  /\ UNCHANGED <<process, pending, interrupted>>

\* fgets and parse_command.
ReadCommand ==
  /\ ShellGoes("read", "fork")
  /\ job' \in Jobs
  /\ UNCHANGED <<childpid, returned, process, pending, interrupted>>

\* "quit" or the end of the input.
Quit ==
  /\ ShellGoes("read", "quit")
  /\ process' = Ends({Sh})
  /\ UNCHANGED <<childpid, returned, job, pending, interrupted>>

\* A fork that finds a signal pending is begun again after the handler.
Fork ==
  /\ ShellGoes("fork", "assign") /\ Sh \notin pending
  /\ \/ \E p \in Unused : process' = [process EXCEPT ![p] = Copy(Sh, job)] /\ returned' = p
     \/ returned' = -1 /\ UNCHANGED process
  /\ UNCHANGED <<childpid, job, pending, interrupted>>

Assign ==
  /\ ShellGoes("assign", "test_failed")
  /\ childpid' = returned
  /\ UNCHANGED <<returned, job, process, pending, interrupted>>

\* Mutant: a fork that failed is not noticed.
TestFailedNever ==
  /\ ShellGoes("test_failed", "test_child")
  /\ UNCHANGED <<childpid, returned, job, process, pending, interrupted>>

TestFailed ==
  /\ ShellGoes("test_failed", IF childpid = -1 THEN "loop" ELSE "test_child")
  /\ UNCHANGED <<childpid, returned, job, process, pending, interrupted>>

\* childpid == 0 means "in the child"; the handler makes it 0 in the shell as well, which
\* then runs the command in its own place and is gone.
TestChild ==
  /\ ShellGoes("test_child", IF childpid = 0 THEN "replaced" ELSE
                             IF job = "background" THEN "loop" ELSE "call_wait")
  /\ UNCHANGED <<childpid, returned, job, process, pending, interrupted>>

CallWait ==
  /\ ShellGoes("call_wait", "waiting")
  /\ returned' = childpid
  /\ UNCHANGED <<childpid, job, process, pending, interrupted>>

\* A signal does not end waitpid: signal() restarts it, with the argument it was given.
Waited ==
  /\ ShellGoes("waiting", "loop")
  /\ \/ \E z \in Asked(Sh, returned) \cap Zombies(Sh) : process' = [process EXCEPT ![z] = Free]
     \/ Asked(Sh, returned) = {} /\ UNCHANGED process
  /\ UNCHANGED <<childpid, returned, job, pending, interrupted>>

ShellStep == StartLoop \/ Fork \/ Assign \/ TestFailed \/ TestChild \/ CallWait \/ Waited

-----------------------------------------------------------------------------
(* The processes                                                           *)

Becomes(p, from, to) ==
  /\ process[p].stage = from
  /\ process' = [process EXCEPT ![p].stage = to]
  /\ UNCHANGED pending

\* exec, or its failure and the return from main.
Exec(p) ==
  /\ process[p].stage = "copy" /\ process[p].job # "pipe"
  /\ Becomes(p, "copy", "running") \/ Die({p})

StartPipe(p) == process[p].job = "pipe" /\ Becomes(p, "copy", "fork1")

Fork1(p) ==
  /\ process[p].stage = "fork1" /\ p \notin pending
  /\ \/ \E q \in Unused :
          process' = [process EXCEPT ![q] = Copy(p, "program"),
                                     ![p].child1 = q, ![p].stage = "fork2"]
     \* Without a first child the second fork is not called, and child2 is not initialised:
     \* taken for 0, this process is the second command, else it has no child to wait for.
     \/ process' = [process EXCEPT ![p].stage = "copy", ![p].job = "program"]
     \/ process' = [process EXCEPT ![p].child1 = -1, ![p].child2 = -1, ![p].stage = "wait1"]
  /\ UNCHANGED pending

Fork2(p) ==
  /\ process[p].stage = "fork2" /\ p \notin pending
  /\ \/ \E q \in Unused :
          process' = [process EXCEPT ![q] = Copy(p, "program"),
                                     ![p].child2 = q, ![p].stage = "wait1"]
     \/ process' = [process EXCEPT ![p].child2 = -1, ![p].stage = "wait1"]
  /\ UNCHANGED pending

Wait(p, from, pid, to) ==
  /\ process[p].stage = from
  /\ \/ \E z \in Asked(p, pid) \cap Zombies(p) :
          process' = [process EXCEPT ![z] = Free, ![p].stage = to]
     \/ Asked(p, pid) = {} /\ process' = [process EXCEPT ![p].stage = to]
  /\ UNCHANGED pending

\* Mutant: the first command is not waited for.
WaitFirstNever(p) == Becomes(p, "wait1", "wait2")

WaitFirst(p) == Wait(p, "wait1", process[p].child1, "wait2")

WaitSecond(p) == Wait(p, "wait2", process[p].child2, "wait3")

\* The second waitpid for child2, and the return from main.
WaitAgain(p) == process[p].stage = "wait3" /\ Asked(p, process[p].child2) = {} /\ Die({p})

\* What a program does is its own affair; it may run for ever.
Finish(p) == process[p].stage = "running" /\ Die({p})

ProcessStep(p) ==
  /\ Exec(p) \/ StartPipe(p) \/ Fork1(p) \/ Fork2(p) \/ WaitFirst(p) \/ WaitSecond(p) \/ WaitAgain(p)
  /\ UNCHANGED <<shell, interrupted>>

-----------------------------------------------------------------------------
(* ^C                                                                      *)

Interrupt ==
  /\ Up
  /\ pending' = pending \cup Live \cup {Sh}
  /\ interrupted' = TRUE
  /\ UNCHANGED <<shell, process>>

\* Mutant: the child gets a SIGINT, which a copy of the shell survives.
HandleWithSigint ==
  /\ Sh \in pending /\ Up
  /\ childpid' = 0
  /\ pending' = (pending \ {Sh}) \cup (Live \cap {childpid})
  /\ UNCHANGED <<at, returned, job, process, interrupted>>

\* signal_handler in the shell.  kill(-1) is every process of the user but the caller.
Handle ==
  /\ Sh \in pending /\ Up
  /\ childpid' = 0
  /\ LET killed == IF childpid = -1 THEN Live ELSE Live \cap {childpid}
     IN process' = Ends(killed) /\ pending' = pending \ (killed \cup {Sh})
  /\ UNCHANGED <<at, returned, job, interrupted>>

\* The handler in a copy of the shell finds childpid 0 and prints; a program dies.
Deliver(p) ==
  /\ p \in pending
  /\ IF process[p].stage = "running" THEN Die({p}) ELSE pending' = pending \ {p} /\ UNCHANGED process
  /\ UNCHANGED <<shell, interrupted>>

-----------------------------------------------------------------------------

Next ==
  \/ ShellStep \/ ReadCommand \/ Quit \/ Interrupt \/ Handle
  \/ \E p \in Pids : ProcessStep(p) \/ Deliver(p)
  \/ \E p \in Pids : Finish(p) /\ UNCHANGED <<shell, interrupted>>

Spec == Init /\ [][Next]_vars

\* The kernel runs every process and delivers every signal; the user need not type, and a
\* program need not end.
FairSpec ==
  /\ Spec /\ WF_vars(ShellStep) /\ WF_vars(Handle)
  /\ \A p \in Pids : WF_vars(ProcessStep(p)) /\ WF_vars(Deliver(p))

-----------------------------------------------------------------------------
(* Properties                                                              *)

Foreground == {p \in Children(Sh) : process[p].job # "background"}
Programs == {p \in Live : process[p].job # "background"}

\* When the shell asks for the next command, the last one has ended and is no zombie;
\* while ^C was never typed that holds for both programs of a pipe too.
PromptMeansDone ==
  at = "read" => /\ Foreground \cap Live = {}
                 /\ ~interrupted => Foreground = {} /\ Programs = {}

\* The shell waits for a child it has, though the handler may have taken its number away.
WaitHasChild == at = "waiting" => (returned = 0 \/ returned \in Children(Sh)) /\ Children(Sh) # {}

\* ^C gets a shell that waits back to its prompt, whatever stage its child has reached.
InterruptGetsPrompt == (at = "waiting" /\ Sh \in pending) ~> (at # "waiting")

\* src/hw3/000-README:83: ^C is "to kill the command, but not the shell process".
ShellStays == at # "replaced"
=============================================================================
