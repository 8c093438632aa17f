------------------------------ MODULE ShellProofs ------------------------------
(***************************************************************************)
(* Proofs about hw3/myshell.c for any number of processes and any moments  *)
(* of ^C: the shell waits only while it has a child, and asks for the next *)
(* command only when the last one is over.                                 *)
(***************************************************************************)
EXTENDS Shell, TLAPS

PipeStages == {"fork1", "fork2", "wait1", "wait2", "wait3"}
Stages == {"free", "copy", "running", "zombie"} \cup PipeStages

Typed ==
  /\ process \in [Pids -> [stage : Stages, parent : Pids \cup {Sh, Nobody}, job : Jobs,
                           child1 : Pids \cup {0, -1}, child2 : Pids \cup {0, -1}]]
  /\ interrupted \in BOOLEAN

\* Only a pipe forks, and it is no child of a pipe; nobody is an orphan before ^C.
Lineage ==
  \A p \in Pids :
    /\ process[p].stage = "free" => process[p].parent = Nobody
    /\ process[p].parent \in Pids => process[p].job = "program"
    /\ process[p].stage \in PipeStages => process[p].job = "pipe"
    /\ ~interrupted /\ Up /\ process[p].stage # "free" => process[p].parent # Nobody

\* A process has the children that it forked and did not wait for, and no others: who ends
\* leaves its children to init, so a number that is used again begins without.
Family ==
  \A p, q \in Pids :
    process[q].parent = p =>
      \/ process[p].stage = "fork2" /\ q = process[p].child1
      \/ process[p].stage = "wait1" /\ q \in {process[p].child1, process[p].child2}
      \/ process[p].stage \in {"wait2", "wait3"} /\ q = process[p].child2

Quiet == ~interrupted => pending = {}

Processes == Typed /\ Lineage /\ Family /\ Quiet

\* The only child that the shell may have in the foreground is c: others are zombies that
\* a wait interrupted by ^C left, and without ^C there are none.
OnlyForeground(c) ==
  /\ Foreground \cap Live \subseteq {c}
  /\ ~interrupted => Foreground \subseteq {c}

NoneInForeground == OnlyForeground(0)

\* The handler has run since the fork, and killed the child if there was one.
Struck == childpid = 0 /\ interrupted /\ returned \notin Foreground \cap Live

\* What the shell knows of its child, at each place of the loop.
ChildKnown ==
  /\ at \in {"loop", "read", "fork"} => NoneInForeground
  /\ at \in {"read", "fork", "assign"} => childpid = 0
  /\ job \in Jobs
  /\ at \in {"assign", "test_failed", "test_child", "call_wait"} =>
       /\ OnlyForeground(returned)
       /\ returned = -1 \/ /\ returned \in Children(Sh)
                           /\ process[returned].job = "background" <=> job = "background"
  /\ at \in {"test_failed", "test_child", "call_wait"} => childpid = returned \/ Struck
  /\ at = "test_child" => childpid # -1
  /\ at = "call_wait" => returned \in Children(Sh) /\ job # "background"
  /\ at = "waiting" =>
       /\ OnlyForeground(returned)
       /\ returned \in Children(Sh) \/ (returned = 0 /\ interrupted /\ Children(Sh) # {})

\* The inductive invariant.
IInv == Processes /\ ChildKnown

-----------------------------------------------------------------------------
(* What the shell's children may do.                                       *)

\* No child of the shell is taken away, made, sent to the background or brought to life.
Keeps ==
  \A p \in Pids :
    /\ p \in Children(Sh)' <=> p \in Children(Sh)
    /\ p \in Children(Sh) => /\ process'[p].job = "background" <=> process[p].job = "background"
                             /\ process[p].stage = "zombie" => process'[p].stage = "zombie"

LEMMA KeepsForeground ==
  ASSUME Keeps
  PROVE  /\ Children(Sh)' = Children(Sh) /\ Foreground' = Foreground
         /\ (Foreground \cap Live)' \subseteq Foreground \cap Live
<1>1. Children(Sh)' = Children(Sh)
  BY DEF Keeps, Children
<1>2. Foreground' = Foreground
  BY <1>1 DEF Keeps, Foreground, Children
<1>3. \A p \in Foreground : p \in Live' => p \in Live
  BY DEF Keeps, Foreground, Children, Live
<1> QED BY <1>1, <1>2, <1>3

\* Then the shell knows what it knew.
LEMMA KeepsKnown ==
  ASSUME ChildKnown, Keeps, UNCHANGED shell, interrupted => interrupted'
  PROVE  ChildKnown'
<1>1. /\ Children(Sh)' = Children(Sh) /\ Foreground' = Foreground
      /\ (Foreground \cap Live)' \subseteq Foreground \cap Live
  BY KeepsForeground
<1>2. ASSUME NEW c, OnlyForeground(c) PROVE OnlyForeground(c)'
  BY <1>1, <1>2 DEF OnlyForeground
<1>3. OnlyForeground(returned) => OnlyForeground(returned)'
  BY <1>1 DEF OnlyForeground, shell
<1>4. NoneInForeground => NoneInForeground'
  BY <1>1 DEF OnlyForeground, NoneInForeground
<1>5. Struck => Struck'
  BY <1>1 DEF Struck, shell
<1>6. returned \in Children(Sh) =>
        (process'[returned].job = "background" <=> process[returned].job = "background")
  BY DEF Keeps, Children
<1> QED BY <1>1, <1>3, <1>4, <1>5, <1>6 DEF ChildKnown, shell

-----------------------------------------------------------------------------
(* Processes that end.                                                     *)

Process == [stage : Stages, parent : Pids \cup {Sh, Nobody}, job : Jobs,
            child1 : Pids \cup {0, -1}, child2 : Pids \cup {0, -1}]

\* A number is free again, or a zombie waits for its parent, or the process goes on, with
\* init for a parent if its own is gone.
LEMMA EndsEach ==
  ASSUME Typed, NEW D, NEW p \in Pids
  PROVE  LET now == Ends(D)[p]
             was == process[p]
             dead == p \in D \/ was.stage = "zombie"
         IN /\ now \in Process
            /\ \/ /\ now.stage = "free" /\ now.parent = Nobody
                  /\ was.stage = "free" \/ (dead /\ was.parent \in D \cup {Nobody})
               \/ /\ now.stage = "zombie" /\ now.parent = was.parent /\ now.job = was.job
                  /\ was.stage # "free" /\ dead /\ was.parent \notin D \cup {Nobody}
               \/ /\ was.stage # "free" /\ ~dead /\ now.stage = was.stage /\ now.job = was.job
                  /\ now.child1 = was.child1 /\ now.child2 = was.child2
                  /\ now.parent = IF was.parent \in D THEN Nobody ELSE was.parent
<1> DEFINE now == Ends(D)[p]
           was == process[p]
           dead == p \in D \/ was.stage = "zombie"
           parent == IF was.parent \in D THEN Nobody ELSE was.parent
<1>0. was \in Process
  BY DEF Typed, Process
<1>1. Free \in Process /\ Free.stage = "free" /\ Free.parent = Nobody
  BY DEF Free, Process, Stages, Jobs
<1>2. now = IF was.stage = "free" \/ (dead /\ parent = Nobody) THEN Free
            ELSE IF dead THEN [Free EXCEPT !.stage = "zombie", !.parent = parent, !.job = was.job]
            ELSE [was EXCEPT !.parent = parent]
  BY DEF Ends
<1> HIDE DEF now, was
<1>3. CASE was.stage = "free" \/ (dead /\ parent = Nobody)
  <2>1. now = Free
    BY <1>2, <1>3
  <2> QED BY <1>1, <1>3, <2>1 DEF now, was
<1>4. CASE was.stage # "free" /\ dead /\ parent # Nobody
  <2>1. now = [Free EXCEPT !.stage = "zombie", !.parent = was.parent, !.job = was.job]
    BY <1>2, <1>4
  <2>2. now \in Process /\ now.stage = "zombie" /\ now.parent = was.parent /\ now.job = was.job
    BY <1>0, <2>1 DEF Process, Free, Stages
  <2> QED BY <1>4, <2>2 DEF was, now
<1>5. CASE was.stage # "free" /\ ~dead
  <2>1. now = [was EXCEPT !.parent = parent]
    BY <1>2, <1>5
  <2>2. /\ now \in Process /\ now.stage = was.stage /\ now.job = was.job
        /\ now.child1 = was.child1 /\ now.child2 = was.child2 /\ now.parent = parent
    BY <1>0, <2>1 DEF Process
  <2> QED BY <1>5, <2>2 DEF was, now
<1> QED BY <1>3, <1>4, <1>5

LEMMA EndsKeeps ==
  ASSUME Processes, NEW D \in SUBSET (Pids \cup {Sh}), process' = Ends(D),
         interrupted' = interrupted, ~interrupted => pending' = {},
         ~interrupted /\ Up' => /\ Sh \notin D /\ Up
                                /\ \A q \in Pids : process[q].parent \notin D
  PROVE  Processes' /\ (Sh \notin D => Keeps)
<1> USE DEF Processes
<1>0. Sh \notin Pids /\ Nobody \notin Pids /\ Sh # Nobody /\ Nobody \notin D
  BY ShellAssumption
<1>1. ASSUME NEW p \in Pids
      PROVE  /\ process'[p] \in Process
             /\ \/ /\ process'[p].stage = "free" /\ process'[p].parent = Nobody
                   /\ \/ process[p].stage = "free"
                      \/ /\ p \in D \/ process[p].stage = "zombie"
                         /\ process[p].parent \in D \cup {Nobody}
                \/ /\ process'[p].stage = "zombie" /\ process'[p].parent = process[p].parent
                   /\ process'[p].job = process[p].job
                   /\ process[p].stage # "free" /\ process[p].parent \notin D \cup {Nobody}
                   /\ p \in D \/ process[p].stage = "zombie"
                \/ /\ process[p].stage \notin {"free", "zombie"} /\ p \notin D
                   /\ process'[p].stage = process[p].stage
                   /\ process'[p].job = process[p].job /\ process'[p].child1 = process[p].child1
                   /\ process'[p].child2 = process[p].child2
                   /\ process'[p].parent = IF process[p].parent \in D THEN Nobody
                                                                     ELSE process[p].parent
  BY EndsEach
<1>2. Typed'
  <2>1. process' \in [Pids -> Process]
    BY <1>1 DEF Ends
  <2> QED BY <2>1 DEF Typed, Process
<1>3. Lineage'
  <2> SUFFICES ASSUME NEW p \in Pids
               PROVE  /\ process'[p].stage = "free" => process'[p].parent = Nobody
                      /\ process'[p].parent \in Pids => process'[p].job = "program"
                      /\ process'[p].stage \in PipeStages => process'[p].job = "pipe"
                      /\ ~interrupted' /\ Up' /\ process'[p].stage # "free" =>
                           process'[p].parent # Nobody
    BY DEF Lineage
  <2>1. /\ process[p].stage = "free" => process[p].parent = Nobody
        /\ process[p].parent \in Pids => process[p].job = "program"
        /\ process[p].stage \in PipeStages => process[p].job = "pipe"
        /\ ~interrupted /\ Up /\ process[p].stage # "free" => process[p].parent # Nobody
    BY DEF Lineage
  <2>2. ~interrupted /\ Up' => Up /\ process[p].parent \notin D
    OBVIOUS
  <2> QED BY <1>0, <1>1, <2>1, <2>2 DEF PipeStages
<1>4. Family'
  <2> SUFFICES ASSUME NEW p \in Pids, NEW q \in Pids, process'[q].parent = p
               PROVE  \/ process'[p].stage = "fork2" /\ q = process'[p].child1
                      \/ /\ process'[p].stage = "wait1"
                         /\ q \in {process'[p].child1, process'[p].child2}
                      \/ process'[p].stage \in {"wait2", "wait3"} /\ q = process'[p].child2
    BY DEF Family
  <2>1. process[q].parent = p /\ p \notin D
    BY <1>0, <1>1
  <2>2. \/ process[p].stage = "fork2" /\ q = process[p].child1
        \/ process[p].stage = "wait1" /\ q \in {process[p].child1, process[p].child2}
        \/ process[p].stage \in {"wait2", "wait3"} /\ q = process[p].child2
    BY <2>1 DEF Family
  <2>3. process[p].parent \notin Pids
    BY <2>2 DEF Lineage, PipeStages
  <2>4. /\ process'[p].stage = process[p].stage /\ process'[p].child1 = process[p].child1
        /\ process'[p].child2 = process[p].child2
    BY <1>1, <2>1, <2>2
  <2> QED BY <2>2, <2>4
<1>5. Quiet'
  BY DEF Quiet
<1>6. ASSUME Sh \notin D PROVE Keeps
  <2> SUFFICES ASSUME NEW p \in Pids
               PROVE  /\ p \in Children(Sh)' <=> p \in Children(Sh)
                      /\ p \in Children(Sh) =>
                           /\ process'[p].job = "background" <=> process[p].job = "background"
                           /\ process[p].stage = "zombie" => process'[p].stage = "zombie"
    BY DEF Keeps
  <2> QED BY <1>0, <1>1, <1>6 DEF Children
<1> QED BY <1>2, <1>3, <1>4, <1>5, <1>6

\* Whoever has no child ends without an orphan.
LEMMA DieStep ==
  ASSUME Processes, NEW p \in Pids, Die({p}), UNCHANGED <<shell, interrupted>>,
         \/ interrupted
         \/ \A q \in Pids : process[q].parent # p
  PROVE  Processes' /\ Keeps
<1>1. Sh # p /\ {p} \in SUBSET (Pids \cup {Sh})
  BY ShellAssumption
<1>2. process' = Ends({p}) /\ (~interrupted => pending' = {})
  BY DEF Die, Processes, Quiet
<1>3. ~interrupted /\ Up' => Sh \notin {p} /\ Up /\ \A q \in Pids : process[q].parent \notin {p}
  BY <1>1 DEF Up, shell
<1> QED BY <1>1, <1>2, <1>3, EndsKeeps

\* A process that has not forked has no children.
LEMMA NoChildren ==
  ASSUME Processes, NEW p \in Pids,
         process[p].stage \in {"free", "copy", "running", "zombie", "fork1"}
  PROVE  \A q \in Pids : process[q].parent # p
BY DEF Processes, Family

-----------------------------------------------------------------------------
(* The steps of a process.                                                 *)

\* One process changes, and is still the child of its parent; it has no children before.
LEMMA AloneMoves ==
  ASSUME Processes, NEW p \in Pids, UNCHANGED <<shell, interrupted>>, ~interrupted => pending' = {},
         process[p].stage \in {"copy", "running", "fork1"},
         process' \in [Pids -> Process],
         \A q \in Pids \ {p} : process'[q] = process[q],
         process'[p].parent = process[p].parent,
         process'[p].stage \notin {"free", "zombie"},
         process'[p].job = process[p].job \/ (process[p].job = "pipe" /\ process'[p].job = "program"),
         process'[p].stage \in PipeStages => process'[p].job = "pipe"
  PROVE  Processes' /\ Keeps
<1> USE DEF Processes
<1>0. Sh \notin Pids /\ Nobody \notin Pids /\ Sh # Nobody
  BY ShellAssumption
<1>1. Typed'
  BY DEF Typed, Process
<1>2. Lineage'
  <2> SUFFICES ASSUME NEW r \in Pids
               PROVE  /\ process'[r].stage = "free" => process'[r].parent = Nobody
                      /\ process'[r].parent \in Pids => process'[r].job = "program"
                      /\ process'[r].stage \in PipeStages => process'[r].job = "pipe"
                      /\ ~interrupted' /\ Up' /\ process'[r].stage # "free" =>
                           process'[r].parent # Nobody
    BY DEF Lineage
  <2>1. /\ process[r].stage = "free" => process[r].parent = Nobody
        /\ process[r].parent \in Pids => process[r].job = "program"
        /\ process[r].stage \in PipeStages => process[r].job = "pipe"
        /\ ~interrupted /\ Up /\ process[r].stage # "free" => process[r].parent # Nobody
    BY DEF Lineage
  <2>2. Up' = Up
    BY DEF Up, shell
  <2>3. CASE r = p
    BY <2>1, <2>2, <2>3
  <2>4. CASE r # p
    BY <2>1, <2>2, <2>4
  <2> QED BY <2>3, <2>4
<1>3. Family'
  <2>1. \A q \in Pids : process[q].parent # p /\ process'[q].parent = process[q].parent
    BY NoChildren
  <2> QED BY <2>1 DEF Family
<1>4. Quiet'
  BY DEF Quiet
<1>5. Keeps
  BY DEF Keeps, Children
<1> QED BY <1>1, <1>2, <1>3, <1>4, <1>5

LEMMA ExecStep ==
  ASSUME Processes, NEW p \in Pids, UNCHANGED <<shell, interrupted>>, Exec(p)
  PROVE  Processes' /\ Keeps
<1>1. CASE Becomes(p, "copy", "running")
  <2>1. /\ process' = [process EXCEPT ![p].stage = "running"] /\ pending' = pending
        /\ process[p].stage = "copy" /\ process[p].job # "pipe"
    BY <1>1 DEF Becomes, Exec
  <2>2. process \in [Pids -> Process]
    BY DEF Processes, Typed, Process
  <2>3. /\ process' \in [Pids -> Process] /\ process'[p].stage = "running"
        /\ process'[p].parent = process[p].parent /\ process'[p].job = process[p].job
        /\ \A q \in Pids \ {p} : process'[q] = process[q]
    BY <2>1, <2>2 DEF Process, Stages
  <2> QED BY <2>1, <2>3, AloneMoves DEF PipeStages, Processes, Quiet
<1>2. CASE Die({p})
  BY <1>2, DieStep, NoChildren DEF Exec
<1> QED BY <1>1, <1>2 DEF Exec

LEMMA FinishStep ==
  ASSUME Processes, NEW p \in Pids, UNCHANGED <<shell, interrupted>>, Finish(p)
  PROVE  Processes' /\ Keeps
BY DieStep, NoChildren DEF Finish

LEMMA StartPipeStep ==
  ASSUME Processes, NEW p \in Pids, UNCHANGED <<shell, interrupted>>, StartPipe(p)
  PROVE  Processes' /\ Keeps
<1>1. /\ process' = [process EXCEPT ![p].stage = "fork1"] /\ pending' = pending
      /\ process[p].stage = "copy" /\ process[p].job = "pipe"
  BY DEF Becomes, StartPipe
<1>2. process \in [Pids -> Process]
  BY DEF Processes, Typed, Process
<1>3. /\ process' \in [Pids -> Process] /\ process'[p].stage = "fork1"
      /\ process'[p].parent = process[p].parent /\ process'[p].job = process[p].job
      /\ \A q \in Pids \ {p} : process'[q] = process[q]
  BY <1>1, <1>2 DEF Process, Stages, PipeStages
<1> QED BY <1>1, <1>3, AloneMoves DEF Processes, Quiet

\* A process forks: q was free, and is its child now.
LEMMA Forks ==
  ASSUME Processes, NEW p \in Pids, NEW q \in Pids, UNCHANGED <<shell, interrupted, pending>>,
         process[p].stage \in {"fork1", "fork2"}, process[q].stage = "free",
         process' \in [Pids -> Process],
         \A r \in Pids \ {p, q} : process'[r] = process[r],
         process'[q].stage = "copy" /\ process'[q].parent = p /\ process'[q].job = "program",
         process'[p].parent = process[p].parent /\ process'[p].job = process[p].job,
         \/ /\ process[p].stage = "fork1" /\ process'[p].stage = "fork2"
            /\ process'[p].child1 = q
         \/ /\ process[p].stage = "fork2" /\ process'[p].stage = "wait1"
            /\ process'[p].child1 = process[p].child1 /\ process'[p].child2 = q
  PROVE  Processes' /\ Keeps
<1> USE DEF Processes
<1>0. /\ Sh \notin Pids /\ Nobody \notin Pids /\ Sh # Nobody /\ p # q
      /\ process[q].parent = Nobody
  BY ShellAssumption DEF Lineage
<1>1. Typed'
  BY DEF Typed, Process
<1>2. Lineage'
  <2> SUFFICES ASSUME NEW r \in Pids
               PROVE  /\ process'[r].stage = "free" => process'[r].parent = Nobody
                      /\ process'[r].parent \in Pids => process'[r].job = "program"
                      /\ process'[r].stage \in PipeStages => process'[r].job = "pipe"
                      /\ ~interrupted' /\ Up' /\ process'[r].stage # "free" =>
                           process'[r].parent # Nobody
    BY DEF Lineage
  <2>1. /\ process[r].stage = "free" => process[r].parent = Nobody
        /\ process[r].parent \in Pids => process[r].job = "program"
        /\ process[r].stage \in PipeStages => process[r].job = "pipe"
        /\ ~interrupted /\ Up /\ process[r].stage # "free" => process[r].parent # Nobody
    BY DEF Lineage
  <2>2. Up' = Up
    BY DEF Up, shell
  <2>3. CASE r = p
    BY <2>1, <2>2, <2>3 DEF PipeStages
  <2>4. CASE r = q
    BY <1>0, <2>4 DEF PipeStages
  <2>5. CASE r \notin {p, q}
    BY <2>1, <2>2, <2>5
  <2> QED BY <2>3, <2>4, <2>5
<1>3. Family'
  <2> SUFFICES ASSUME NEW r \in Pids, NEW c \in Pids, process'[c].parent = r
               PROVE  \/ process'[r].stage = "fork2" /\ c = process'[r].child1
                      \/ /\ process'[r].stage = "wait1"
                         /\ c \in {process'[r].child1, process'[r].child2}
                      \/ process'[r].stage \in {"wait2", "wait3"} /\ c = process'[r].child2
    BY DEF Family
  <2>1. CASE c = q
    BY <1>0, <2>1
  <2>2. CASE c # q
    <3>1. process[c].parent = r
      BY <2>2
    <3>2. \/ process[r].stage = "fork2" /\ c = process[r].child1
          \/ process[r].stage = "wait1" /\ c \in {process[r].child1, process[r].child2}
          \/ process[r].stage \in {"wait2", "wait3"} /\ c = process[r].child2
      BY <3>1 DEF Family
    <3>3. r # q
      BY <3>2
    <3> QED BY <3>2, <3>3
  <2> QED BY <2>1, <2>2
<1>4. Quiet'
  BY DEF Quiet
<1>5. Keeps
  BY <1>0 DEF Keeps, Children
<1> QED BY <1>1, <1>2, <1>3, <1>4, <1>5

LEMMA Fork1Step ==
  ASSUME Processes, NEW p \in Pids, UNCHANGED <<shell, interrupted>>, Fork1(p)
  PROVE  Processes' /\ Keeps
<1>1. process[p].stage = "fork1" /\ pending' = pending /\ process[p].job = "pipe"
  BY DEF Fork1, Processes, Lineage, PipeStages
<1>2. process \in [Pids -> Process] /\ (~interrupted => pending' = {})
  BY <1>1 DEF Processes, Typed, Process, Quiet
<1>3. ASSUME NEW q \in Unused,
             process' = [process EXCEPT ![q] = Copy(p, "program"),
                                        ![p].child1 = q, ![p].stage = "fork2"]
      PROVE  Processes' /\ Keeps
  <2>1. q \in Pids /\ process[q].stage = "free" /\ q # p
    BY <1>1 DEF Unused
  <2>2. /\ Copy(p, "program") \in Process /\ Copy(p, "program").stage = "copy"
        /\ Copy(p, "program").parent = p /\ Copy(p, "program").job = "program"
    BY DEF Copy, Free, Process, Stages, Jobs
  <2>3. /\ process' \in [Pids -> Process] /\ process'[q] = Copy(p, "program")
        /\ \A r \in Pids \ {p, q} : process'[r] = process[r]
        /\ process'[p].parent = process[p].parent /\ process'[p].job = process[p].job
        /\ process'[p].stage = "fork2" /\ process'[p].child1 = q
    <3> DEFINE new == [process[p] EXCEPT !.child1 = q, !.stage = "fork2"]
    <3>1. /\ process'[q] = Copy(p, "program") /\ process'[p] = new
          /\ \A r \in Pids \ {p, q} : process'[r] = process[r]
          /\ process' = [r \in Pids |-> process'[r]] /\ process[p] \in Process
      BY <1>2, <1>3, <2>1
    <3>2. /\ new \in Process /\ new.parent = process[p].parent /\ new.job = process[p].job
          /\ new.stage = "fork2" /\ new.child1 = q
      BY <2>1, <3>1 DEF Process, Stages, PipeStages
    <3> HIDE DEF new
    <3>3. \A r \in Pids : process'[r] \in Process
      BY <1>2, <2>2, <3>1, <3>2
    <3> QED BY <3>1, <3>2, <3>3
  <2> QED BY <1>1, <2>1, <2>2, <2>3, Forks
<1>4. CASE process' = [process EXCEPT ![p].stage = "copy", ![p].job = "program"]
  <2>1. /\ process' \in [Pids -> Process] /\ process'[p].stage = "copy"
        /\ process'[p].parent = process[p].parent /\ process'[p].job = "program"
        /\ \A q \in Pids \ {p} : process'[q] = process[q]
    <3> DEFINE new == [process[p] EXCEPT !.stage = "copy", !.job = "program"]
    <3>1. /\ process'[p] = new /\ \A q \in Pids \ {p} : process'[q] = process[q]
          /\ process' = [q \in Pids |-> process'[q]] /\ process[p] \in Process
      BY <1>2, <1>4
    <3>2. /\ new \in Process /\ new.parent = process[p].parent /\ new.job = "program"
          /\ new.stage = "copy"
      BY <3>1 DEF Process, Stages, Jobs
    <3> HIDE DEF new
    <3>3. \A q \in Pids : process'[q] \in Process
      BY <1>2, <3>1, <3>2
    <3> QED BY <3>1, <3>2, <3>3
  <2> QED BY <1>1, <1>2, <2>1, AloneMoves DEF PipeStages
<1>5. CASE process' = [process EXCEPT ![p].child1 = -1, ![p].child2 = -1, ![p].stage = "wait1"]
  <2>1. /\ process' \in [Pids -> Process] /\ process'[p].stage = "wait1"
        /\ process'[p].parent = process[p].parent /\ process'[p].job = process[p].job
        /\ \A q \in Pids \ {p} : process'[q] = process[q]
    <3> DEFINE new == [process[p] EXCEPT !.child1 = -1, !.child2 = -1, !.stage = "wait1"]
    <3>1. /\ process'[p] = new /\ \A q \in Pids \ {p} : process'[q] = process[q]
          /\ process' = [q \in Pids |-> process'[q]] /\ process[p] \in Process
      BY <1>2, <1>5
    <3>2. /\ new \in Process /\ new.parent = process[p].parent /\ new.job = process[p].job
          /\ new.stage = "wait1"
      BY <3>1 DEF Process, Stages, PipeStages
    <3> HIDE DEF new
    <3>3. \A q \in Pids : process'[q] \in Process
      BY <1>2, <3>1, <3>2
    <3> QED BY <3>1, <3>2, <3>3
  <2> QED BY <1>1, <1>2, <2>1, AloneMoves
<1> QED BY <1>3, <1>4, <1>5 DEF Fork1

\* A pipe goes on to its next stage; it may have waited for one of its children first.
LEMMA PipeMoves ==
  ASSUME Processes, NEW p \in Pids, UNCHANGED <<shell, interrupted, pending>>,
         process[p].stage \in PipeStages, process'[p].stage \in PipeStages,
         process' \in [Pids -> Process],
         process'[p].parent = process[p].parent /\ process'[p].job = process[p].job,
         \A r \in Pids \ {p} :
           \/ process'[r] = process[r]
           \/ process'[r] = Free /\ process[r].parent = p,
         \A c \in Pids :
           process'[c].parent = p =>
             \/ process'[p].stage = "wait1" /\ c \in {process'[p].child1, process'[p].child2}
             \/ process'[p].stage \in {"wait2", "wait3"} /\ c = process'[p].child2
  PROVE  Processes' /\ Keeps
<1> USE DEF Processes
<1>0. /\ Sh \notin Pids /\ Nobody \notin Pids /\ Sh # Nobody
      /\ Free.stage = "free" /\ Free.parent = Nobody
  BY ShellAssumption DEF Free
<1>1. Typed'
  BY DEF Typed, Process
<1>2. Lineage'
  <2> SUFFICES ASSUME NEW r \in Pids
               PROVE  /\ process'[r].stage = "free" => process'[r].parent = Nobody
                      /\ process'[r].parent \in Pids => process'[r].job = "program"
                      /\ process'[r].stage \in PipeStages => process'[r].job = "pipe"
                      /\ ~interrupted' /\ Up' /\ process'[r].stage # "free" =>
                           process'[r].parent # Nobody
    BY DEF Lineage
  <2>1. /\ process[r].stage = "free" => process[r].parent = Nobody
        /\ process[r].parent \in Pids => process[r].job = "program"
        /\ process[r].stage \in PipeStages => process[r].job = "pipe"
        /\ ~interrupted /\ Up /\ process[r].stage # "free" => process[r].parent # Nobody
    BY DEF Lineage
  <2>2. Up' = Up
    BY DEF Up, shell
  <2>3. CASE r = p
    BY <2>1, <2>2, <2>3 DEF PipeStages
  <2>4. CASE r # p /\ process'[r] = process[r]
    BY <2>1, <2>2, <2>4
  <2>5. CASE r # p /\ process'[r] = Free
    BY <1>0, <2>5 DEF PipeStages
  <2> QED BY <2>3, <2>4, <2>5
<1>3. Family'
  <2> SUFFICES ASSUME NEW r \in Pids, NEW c \in Pids, process'[c].parent = r
               PROVE  \/ process'[r].stage = "fork2" /\ c = process'[r].child1
                      \/ /\ process'[r].stage = "wait1"
                         /\ c \in {process'[r].child1, process'[r].child2}
                      \/ process'[r].stage \in {"wait2", "wait3"} /\ c = process'[r].child2
    BY DEF Family
  <2>1. CASE r = p
    BY <2>1
  <2>2. CASE r # p
    <3>1. process[c].parent = r
      BY <1>0
    <3>2. \/ process[r].stage = "fork2" /\ c = process[r].child1
          \/ process[r].stage = "wait1" /\ c \in {process[r].child1, process[r].child2}
          \/ process[r].stage \in {"wait2", "wait3"} /\ c = process[r].child2
      BY <3>1 DEF Family
    <3>3. process[r].parent # p
      BY <3>2 DEF Lineage, PipeStages
    <3> QED BY <2>2, <3>2, <3>3
  <2> QED BY <2>1, <2>2
<1>4. Quiet'
  BY DEF Quiet
<1>5. Keeps
  BY <1>0 DEF Keeps, Children, PipeStages
<1> QED BY <1>1, <1>2, <1>3, <1>4, <1>5

LEMMA Fork2Step ==
  ASSUME Processes, NEW p \in Pids, UNCHANGED <<shell, interrupted>>, Fork2(p)
  PROVE  Processes' /\ Keeps
<1>1. process[p].stage = "fork2" /\ pending' = pending /\ process[p].job = "pipe"
  BY DEF Fork2, Processes, Lineage, PipeStages
<1>2. process \in [Pids -> Process]
  BY DEF Processes, Typed, Process
<1>3. ASSUME NEW q \in Unused,
             process' = [process EXCEPT ![q] = Copy(p, "program"),
                                        ![p].child2 = q, ![p].stage = "wait1"]
      PROVE  Processes' /\ Keeps
  <2>1. q \in Pids /\ process[q].stage = "free" /\ q # p
    BY <1>1 DEF Unused
  <2>2. /\ Copy(p, "program") \in Process /\ Copy(p, "program").stage = "copy"
        /\ Copy(p, "program").parent = p /\ Copy(p, "program").job = "program"
    BY DEF Copy, Free, Process, Stages, Jobs
  <2>3. /\ process' \in [Pids -> Process] /\ process'[q] = Copy(p, "program")
        /\ \A r \in Pids \ {p, q} : process'[r] = process[r]
        /\ process'[p].parent = process[p].parent /\ process'[p].job = process[p].job
        /\ process'[p].stage = "wait1" /\ process'[p].child1 = process[p].child1
        /\ process'[p].child2 = q
    <3> DEFINE new == [process[p] EXCEPT !.child2 = q, !.stage = "wait1"]
    <3>1. /\ process'[q] = Copy(p, "program") /\ process'[p] = new
          /\ \A r \in Pids \ {p, q} : process'[r] = process[r]
          /\ process' = [r \in Pids |-> process'[r]] /\ process[p] \in Process
      BY <1>2, <1>3, <2>1
    <3>2. /\ new \in Process /\ new.parent = process[p].parent /\ new.job = process[p].job
          /\ new.stage = "wait1" /\ new.child2 = q /\ new.child1 = process[p].child1
      BY <2>1, <3>1 DEF Process, Stages, PipeStages
    <3> HIDE DEF new
    <3>3. \A r \in Pids : process'[r] \in Process
      BY <1>2, <2>2, <3>1, <3>2
    <3> QED BY <3>1, <3>2, <3>3
  <2> QED BY <1>1, <2>1, <2>2, <2>3, Forks
<1>4. CASE process' = [process EXCEPT ![p].child2 = -1, ![p].stage = "wait1"]
  <2>1. /\ process' \in [Pids -> Process] /\ process'[p].stage = "wait1"
        /\ process'[p].parent = process[p].parent /\ process'[p].job = process[p].job
        /\ process'[p].child1 = process[p].child1
        /\ \A q \in Pids \ {p} : process'[q] = process[q]
    <3> DEFINE new == [process[p] EXCEPT !.child2 = -1, !.stage = "wait1"]
    <3>1. /\ process'[p] = new /\ \A q \in Pids \ {p} : process'[q] = process[q]
          /\ process' = [q \in Pids |-> process'[q]] /\ process[p] \in Process
      BY <1>2, <1>4
    <3>2. /\ new \in Process /\ new.parent = process[p].parent /\ new.job = process[p].job
          /\ new.stage = "wait1" /\ new.child1 = process[p].child1
      BY <3>1 DEF Process, Stages, PipeStages
    <3> HIDE DEF new
    <3>3. \A q \in Pids : process'[q] \in Process
      BY <1>2, <3>1, <3>2
    <3> QED BY <3>1, <3>2, <3>3
  <2>2. \A c \in Pids : process'[c].parent = p => c = process'[p].child1
    BY <1>1, <2>1 DEF Processes, Family
  <2> QED BY <1>1, <2>1, <2>2, PipeMoves DEF PipeStages
<1> QED BY <1>3, <1>4 DEF Fork2

\* After a wait for pid, there is no child pid left.
LEMMA WaitMoves ==
  ASSUME Processes, NEW p \in Pids, NEW from \in PipeStages, NEW to \in PipeStages, NEW pid,
         Wait(p, from, pid, to)
  PROVE  /\ process[p].stage = from /\ pending' = pending
         /\ process' \in [Pids -> Process]
         /\ process'[p].stage = to /\ process'[p].parent = process[p].parent
         /\ process'[p].job = process[p].job
         /\ process'[p].child1 = process[p].child1 /\ process'[p].child2 = process[p].child2
         /\ \A r \in Pids \ {p} : \/ process'[r] = process[r]
                                  \/ process'[r] = Free /\ process[r].parent = p
         /\ \A r \in Pids : process'[r].parent = p => process[r].parent = p /\ r # pid
<1>0. p # Nobody /\ from \notin {"free", "zombie"} /\ {0, -1} \cap Pids = {}
  BY ShellAssumption DEF PipeStages
<1>1. process \in [Pids -> Process] /\ Free \in Process
  BY DEF Processes, Typed, Process, Free, Stages, Jobs
<1>2. process[p].stage = from /\ pending' = pending
  BY DEF Wait
<1>p. process[p].parent # p
  BY <1>0, <1>2 DEF Processes, Lineage, PipeStages
<1>3. ASSUME NEW z \in Asked(p, pid) \cap Zombies(p),
             process' = [process EXCEPT ![z] = Free, ![p].stage = to]
      PROVE  /\ process' \in [Pids -> Process]
             /\ process'[p].stage = to /\ process'[p].parent = process[p].parent
             /\ process'[p].job = process[p].job
             /\ process'[p].child1 = process[p].child1 /\ process'[p].child2 = process[p].child2
             /\ \A r \in Pids \ {p} : \/ process'[r] = process[r]
                                      \/ process'[r] = Free /\ process[r].parent = p
             /\ \A r \in Pids : process'[r].parent = p => process[r].parent = p /\ r # pid
  <2>1. z \in Pids /\ process[z].parent = p /\ z # p /\ (pid \in {0, -1} \/ z = pid)
    BY <1>0, <1>2 DEF Asked, Zombies, Children
  <2>2. /\ process' \in [Pids -> Process] /\ process'[z] = Free
        /\ process'[p].stage = to /\ process'[p].parent = process[p].parent
        /\ process'[p].job = process[p].job
        /\ process'[p].child1 = process[p].child1 /\ process'[p].child2 = process[p].child2
        /\ \A r \in Pids \ {p, z} : process'[r] = process[r]
    BY <1>1, <1>3, <2>1 DEF Process, Stages
  <2>3. Free.parent # p
    BY <1>0 DEF Free
  <2> QED BY <1>0, <1>p, <2>1, <2>2, <2>3
<1>4. ASSUME Asked(p, pid) = {}, process' = [process EXCEPT ![p].stage = to]
      PROVE  /\ process' \in [Pids -> Process]
             /\ process'[p].stage = to /\ process'[p].parent = process[p].parent
             /\ process'[p].job = process[p].job
             /\ process'[p].child1 = process[p].child1 /\ process'[p].child2 = process[p].child2
             /\ \A r \in Pids \ {p} : process'[r] = process[r]
             /\ \A r \in Pids : process'[r].parent = p => process[r].parent = p /\ r # pid
  <2>1. /\ process' \in [Pids -> Process]
        /\ process'[p].stage = to /\ process'[p].parent = process[p].parent
        /\ process'[p].job = process[p].job
        /\ process'[p].child1 = process[p].child1 /\ process'[p].child2 = process[p].child2
        /\ \A r \in Pids \ {p} : process'[r] = process[r]
    BY <1>1, <1>4 DEF Process, Stages
  <2>2. ASSUME NEW r \in Pids, process[r].parent = p PROVE r # pid
    <3>1. process[r].stage # "free"
      BY <1>0, <2>2 DEF Processes, Lineage
    <3> QED BY <1>0, <1>4, <2>2, <3>1 DEF Asked, Children
  <2> QED BY <2>1, <2>2
<1> QED BY <1>2, <1>3, <1>4 DEF Wait

LEMMA WaitFirstStep ==
  ASSUME Processes, NEW p \in Pids, UNCHANGED <<shell, interrupted>>, WaitFirst(p)
  PROVE  Processes' /\ Keeps
<1> DEFINE pid == process[p].child1
<1>1. Wait(p, "wait1", pid, "wait2")
  BY DEF WaitFirst
<1> HIDE DEF pid
<1>2. /\ process[p].stage = "wait1" /\ pending' = pending
      /\ process' \in [Pids -> Process]
      /\ process'[p].stage = "wait2" /\ process'[p].parent = process[p].parent
      /\ process'[p].job = process[p].job
      /\ process'[p].child1 = process[p].child1 /\ process'[p].child2 = process[p].child2
      /\ \A r \in Pids \ {p} : \/ process'[r] = process[r]
                               \/ process'[r] = Free /\ process[r].parent = p
      /\ \A r \in Pids : process'[r].parent = p => process[r].parent = p /\ r # pid
  BY <1>1, WaitMoves DEF PipeStages
<1>3. \A c \in Pids : process'[c].parent = p => c = process'[p].child2
  BY <1>2 DEF Processes, Family, pid
<1> QED BY <1>2, <1>3, PipeMoves DEF PipeStages

LEMMA WaitSecondStep ==
  ASSUME Processes, NEW p \in Pids, UNCHANGED <<shell, interrupted>>, WaitSecond(p)
  PROVE  Processes' /\ Keeps
<1> DEFINE pid == process[p].child2
<1>1. Wait(p, "wait2", pid, "wait3")
  BY DEF WaitSecond
<1> HIDE DEF pid
<1>2. /\ process[p].stage = "wait2" /\ pending' = pending
      /\ process' \in [Pids -> Process]
      /\ process'[p].stage = "wait3" /\ process'[p].parent = process[p].parent
      /\ process'[p].job = process[p].job
      /\ process'[p].child1 = process[p].child1 /\ process'[p].child2 = process[p].child2
      /\ \A r \in Pids \ {p} : \/ process'[r] = process[r]
                               \/ process'[r] = Free /\ process[r].parent = p
      /\ \A r \in Pids : process'[r].parent = p => process[r].parent = p /\ r # pid
  BY <1>1, WaitMoves DEF PipeStages
<1>3. \A c \in Pids : process'[c].parent = p => c = process'[p].child2
  BY <1>2 DEF Processes, Family
<1> QED BY <1>2, <1>3, PipeMoves DEF PipeStages

LEMMA WaitAgainStep ==
  ASSUME Processes, NEW p \in Pids, UNCHANGED <<shell, interrupted>>, WaitAgain(p)
  PROVE  Processes' /\ Keeps
<1>1. process[p].stage = "wait3" /\ Asked(p, process[p].child2) = {} /\ Die({p})
  BY DEF WaitAgain
<1>2. ASSUME NEW q \in Pids, process[q].parent = p PROVE FALSE
  <2>1. q = process[p].child2
    BY <1>1, <1>2 DEF Processes, Family
  <2>2. process[q].stage # "free"
    BY <1>2, ShellAssumption DEF Processes, Lineage
  <2> QED BY <1>1, <1>2, <2>1, <2>2 DEF Asked, Children
<1> QED BY <1>1, <1>2, DieStep

LEMMA ProcessSteps ==
  ASSUME Processes, NEW p \in Pids, ProcessStep(p)
  PROVE  Processes' /\ Keeps
BY ExecStep, StartPipeStep, Fork1Step, Fork2Step, WaitFirstStep, WaitSecondStep, WaitAgainStep
DEF ProcessStep

-----------------------------------------------------------------------------
(* ^C.                                                                     *)

LEMMA InterruptStep ==
  ASSUME Processes, Interrupt
  PROVE  Processes' /\ Keeps /\ UNCHANGED shell /\ interrupted'
<1>1. UNCHANGED <<shell, process>> /\ interrupted' = TRUE
  BY DEF Interrupt
<1>2. Up' = Up
  BY <1>1 DEF Up, shell
<1>3. Typed' /\ Lineage' /\ Family' /\ Quiet'
  BY <1>1, <1>2 DEF Processes, Typed, Lineage, Family, Quiet
<1>4. Keeps
  BY <1>1 DEF Keeps, Children
<1> QED BY <1>1, <1>3, <1>4 DEF Processes

LEMMA DeliverStep ==
  ASSUME Processes, NEW p \in Pids, Deliver(p)
  PROVE  Processes' /\ Keeps
<1>1. UNCHANGED <<shell, interrupted>> /\ p \in pending /\ interrupted
  BY DEF Deliver, Processes, Quiet
<1>2. CASE process[p].stage = "running"
  BY <1>1, <1>2, DieStep DEF Deliver
<1>3. CASE process[p].stage # "running"
  <2>1. process' = process
    BY <1>3 DEF Deliver
  <2>2. Up' = Up
    BY <1>1 DEF Up, shell
  <2> QED BY <1>1, <2>1, <2>2 DEF Processes, Typed, Lineage, Family, Quiet, Keeps, Children
<1> QED BY <1>2, <1>3

\* The handler of the shell kills at least the child it knows of.
LEMMA HandleStep ==
  ASSUME Processes, ChildKnown, Handle
  PROVE  Processes' /\ ChildKnown'
<1> DEFINE killed == IF childpid = -1 THEN Live ELSE Live \cap {childpid}
<1>1. /\ process' = Ends(killed) /\ pending' = pending \ (killed \cup {Sh}) /\ childpid' = 0
      /\ UNCHANGED <<at, returned, job, interrupted>> /\ interrupted
  BY DEF Handle, Processes, Quiet
<1>2. killed \in SUBSET (Pids \cup {Sh}) /\ Sh \notin killed
  BY ShellAssumption DEF Live
<1> HIDE DEF killed
<1>3. Processes' /\ Keeps
  BY <1>1, <1>2, EndsKeeps
<1>4. /\ Children(Sh)' = Children(Sh) /\ Foreground' = Foreground
      /\ (Foreground \cap Live)' \subseteq Foreground \cap Live
  BY <1>3, KeepsForeground
<1>5. OnlyForeground(returned) => OnlyForeground(returned)'
  BY <1>1, <1>4 DEF OnlyForeground
<1>6. NoneInForeground => NoneInForeground'
  BY <1>1, <1>4 DEF OnlyForeground, NoneInForeground
<1>7. returned \in Children(Sh) =>
        (process'[returned].job = "background" <=> process[returned].job = "background")
  BY <1>3 DEF Keeps, Children
<1>8. childpid = returned \/ Struck => Struck'
  <2>1. CASE Struck
    BY <1>1, <1>4, <2>1 DEF Struck
  <2>2. ASSUME childpid = returned, returned \in (Foreground \cap Live)' PROVE FALSE
    <3>1. returned \in Foreground \cap Live
      BY <1>4, <2>2
    <3>2. returned \in killed /\ returned \in Pids
      BY <2>2, <3>1 DEF killed, Live
    <3>3. process'[returned].stage \in {"free", "zombie"}
      <4>1. Typed
        BY DEF Processes
      <4>2. process'[returned] = Ends(killed)[returned]
        BY <1>1
      <4> QED BY <3>2, <4>1, <4>2, EndsEach
    <3> QED BY <2>2, <3>3 DEF Live
  <2> QED BY <1>1, <2>1, <2>2 DEF Struck
<1>9. at = "test_child" => childpid' # -1
  BY <1>1
<1> QED BY <1>1, <1>3, <1>4, <1>5, <1>6, <1>7, <1>8, <1>9 DEF ChildKnown

-----------------------------------------------------------------------------
(* The shell.                                                              *)

\* Most of its steps touch no process.
LEMMA ProcessesStay ==
  ASSUME Processes, UNCHANGED <<process, pending, interrupted>>, Up' => Up
  PROVE  Processes'
BY DEF Processes, Typed, Lineage, Family, Quiet

LEMMA ForegroundStays ==
  ASSUME UNCHANGED <<process, interrupted>>
  PROVE  /\ Children(Sh)' = Children(Sh) /\ Foreground' = Foreground /\ Live' = Live
         /\ \A c : OnlyForeground(c) => /\ Foreground' \cap Live' \subseteq {c}
                                        /\ ~interrupted' => Foreground' \subseteq {c}
BY DEF Children, Foreground, Live, OnlyForeground

LEMMA QuietSteps ==
  ASSUME IInv, StartLoop \/ ReadCommand \/ Assign \/ TestFailed \/ TestChild \/ CallWait
  PROVE  IInv'
<1>0. /\ UNCHANGED <<process, pending, interrupted>> /\ Up
  BY DEF StartLoop, ReadCommand, Assign, TestFailed, TestChild, CallWait, ShellGoes, Up
<1>1. Processes'
  BY <1>0, ProcessesStay DEF IInv
<1>2. Children(Sh)' = Children(Sh) /\ Foreground' = Foreground /\ Live' = Live
  BY <1>0, ForegroundStays
<1>3. {0, -1} \cap Pids = {} /\ Foreground \in SUBSET Children(Sh) /\ Children(Sh) \in SUBSET Pids
  BY ShellAssumption DEF Foreground, Children
<1>j. job' \in Jobs
  BY DEF IInv, ChildKnown, StartLoop, ReadCommand, Assign, TestFailed, TestChild, CallWait, Jobs
<1>4. CASE StartLoop
  BY <1>0, <1>1, <1>2, <1>4, <1>j DEF IInv, ChildKnown, StartLoop, ShellGoes, OnlyForeground, NoneInForeground
<1>5. CASE ReadCommand
  BY <1>0, <1>1, <1>2, <1>5, <1>j DEF IInv, ChildKnown, ReadCommand, ShellGoes, OnlyForeground, NoneInForeground
<1>6. CASE Assign
  BY <1>0, <1>1, <1>2, <1>6, <1>j DEF IInv, ChildKnown, Assign, ShellGoes, OnlyForeground, Struck
<1>7. CASE TestFailed
  <2>1. CASE childpid = -1
    <3>1. returned = -1 /\ at' = "loop" /\ OnlyForeground(returned)
      BY <1>7, <2>1 DEF IInv, ChildKnown, TestFailed, ShellGoes, Struck
    <3>2. NoneInForeground'
      BY <1>0, <1>2, <1>3, <3>1 DEF OnlyForeground, NoneInForeground
    <3> QED BY <1>1, <1>j, <3>1, <3>2 DEF IInv, ChildKnown
  <2>2. CASE childpid # -1
    BY <1>0, <1>1, <1>2, <1>7, <1>j, <2>2
    DEF IInv, ChildKnown, TestFailed, ShellGoes, OnlyForeground, Struck
  <2> QED BY <2>1, <2>2
<1>8. CASE TestChild
  <2>1. CASE childpid = 0
    BY <1>1, <1>8, <1>j, <2>1 DEF IInv, ChildKnown, TestChild, ShellGoes
  <2>2. CASE childpid # 0
    <3>1. /\ childpid = returned /\ returned \in Children(Sh) /\ OnlyForeground(returned)
          /\ process[returned].job = "background" <=> job = "background"
          /\ UNCHANGED <<childpid, returned, job>>
      BY <1>8, <2>2 DEF IInv, ChildKnown, TestChild, ShellGoes, Struck
    <3>2. CASE job = "background"
      <4>1. returned \notin Foreground /\ at' = "loop"
        BY <1>8, <2>2, <3>1, <3>2 DEF Foreground, TestChild, ShellGoes
      <4>2. NoneInForeground'
        BY <1>0, <1>2, <3>1, <4>1 DEF OnlyForeground, NoneInForeground
      <4> QED BY <1>1, <1>j, <4>1, <4>2 DEF IInv, ChildKnown
    <3>3. CASE job # "background"
      <4>1. at' = "call_wait" /\ OnlyForeground(returned)'
        BY <1>0, <1>2, <1>8, <2>2, <3>1, <3>3 DEF TestChild, ShellGoes, OnlyForeground
      <4> QED BY <1>0, <1>1, <1>2, <1>j, <3>1, <3>3, <4>1 DEF IInv, ChildKnown
    <3> QED BY <3>2, <3>3
  <2> QED BY <2>1, <2>2
<1>9. CASE CallWait
  <2>1. /\ at' = "waiting" /\ returned' = childpid /\ OnlyForeground(returned)
        /\ returned \in Children(Sh) /\ (childpid = returned \/ Struck)
    BY <1>9 DEF IInv, ChildKnown, CallWait, ShellGoes
  <2>2. OnlyForeground(returned)'
    <3>1. CASE childpid = returned
      BY <1>0, <1>2, <2>1, <3>1 DEF OnlyForeground
    <3>2. CASE Struck
      BY <1>0, <1>2, <2>1, <3>2 DEF Struck, OnlyForeground
    <3> QED BY <2>1, <3>1, <3>2
  <2>3. \/ returned' \in Children(Sh)'
        \/ returned' = 0 /\ interrupted' /\ Children(Sh)' # {}
    BY <1>0, <1>2, <2>1 DEF Struck
  <2> QED BY <1>1, <1>j, <2>1, <2>2, <2>3 DEF IInv, ChildKnown
<1> QED BY <1>1, <1>4, <1>5, <1>6, <1>7, <1>8, <1>9 DEF IInv

LEMMA QuitStep ==
  ASSUME IInv, Quit
  PROVE  IInv'
<1>1. /\ process' = Ends({Sh}) /\ UNCHANGED <<pending, interrupted>>
      /\ {Sh} \in SUBSET (Pids \cup {Sh}) /\ ~Up' /\ at' = "quit" /\ job' \in Jobs
  BY DEF Quit, ShellGoes, Up, IInv, ChildKnown
<1>2. Processes'
  BY <1>1, EndsKeeps DEF IInv, Processes, Quiet
<1> QED BY <1>1, <1>2 DEF IInv, ChildKnown

LEMMA ForkStep ==
  ASSUME IInv, Fork
  PROVE  IInv'
<1>0. /\ at = "fork" /\ at' = "assign" /\ UNCHANGED <<childpid, job, pending, interrupted>>
      /\ childpid = 0 /\ NoneInForeground
  BY DEF Fork, ShellGoes, IInv, ChildKnown
<1>1. /\ Sh \notin Pids /\ Nobody \notin Pids /\ Sh # Nobody /\ {0, -1} \cap Pids = {}
      /\ Foreground \in SUBSET Pids
  BY ShellAssumption DEF Foreground, Children
<1>2. CASE returned' = -1 /\ UNCHANGED process
  <2>1. Processes'
    BY <1>0, <1>2, ProcessesStay DEF IInv, Up
  <2>2. OnlyForeground(returned)'
    BY <1>0, <1>1, <1>2, ForegroundStays DEF OnlyForeground, NoneInForeground
  <2> QED BY <1>0, <1>2, <2>1, <2>2 DEF IInv, ChildKnown
<1>3. ASSUME NEW p \in Unused, process' = [process EXCEPT ![p] = Copy(Sh, job)], returned' = p
      PROVE  IInv'
  <2>0. p \in Pids /\ process[p].stage = "free" /\ process[p].parent = Nobody /\ Processes
    BY <1>3 DEF Unused, IInv, Processes, Lineage
  <2>j. job \in Jobs
    BY <1>0 DEF IInv, ChildKnown
  <2>1. /\ Copy(Sh, job) \in Process /\ Copy(Sh, job).stage = "copy"
        /\ Copy(Sh, job).parent = Sh /\ Copy(Sh, job).job = job
    BY <2>j DEF Copy, Free, Process, Stages
  <2>2. /\ process' \in [Pids -> Process] /\ process'[p].stage = "copy"
        /\ process'[p].parent = Sh /\ process'[p].job = job
        /\ \A q \in Pids \ {p} : process'[q] = process[q]
    BY <1>3, <2>0, <2>1 DEF Processes, Typed, Process
  <2>3. Typed'
    BY <1>0, <2>2, <2>0 DEF Processes, Typed, Process
  <2>4. Lineage'
    BY <1>0, <1>1, <2>0, <2>2 DEF Processes, Lineage, PipeStages, Up
  <2>5. Family'
    BY <1>1, <2>0, <2>2 DEF Processes, Family
  <2>6. Processes'
    BY <1>0, <2>0, <2>3, <2>4, <2>5 DEF Processes, Quiet
  <2>7. /\ p \in Children(Sh)' /\ Foreground' \subseteq Foreground \cup {p}
        /\ (Foreground \cap Live)' \subseteq (Foreground \cap Live) \cup {p}
    BY <2>0, <2>2 DEF Children, Foreground, Live
  <2>8. OnlyForeground(returned)'
    BY <1>0, <1>1, <1>3, <2>7 DEF OnlyForeground, NoneInForeground
  <2> QED BY <1>0, <1>3, <2>2, <2>6, <2>7, <2>8 DEF IInv, ChildKnown
<1> QED BY <1>2, <1>3 DEF Fork

LEMMA WaitedStep ==
  ASSUME IInv, Waited
  PROVE  IInv'
<1>0. /\ at = "waiting" /\ at' = "loop" /\ UNCHANGED <<childpid, returned, job, pending, interrupted>>
      /\ OnlyForeground(returned)
      /\ returned \in Children(Sh) \/ (returned = 0 /\ interrupted /\ Children(Sh) # {})
      /\ Processes
  BY DEF Waited, ShellGoes, IInv, ChildKnown
<1>1. /\ Sh \notin Pids /\ Nobody \notin Pids /\ Sh # Nobody /\ {0, -1} \cap Pids = {}
      /\ Children(Sh) \in SUBSET Pids /\ Foreground \in SUBSET Pids
  BY ShellAssumption DEF Children, Foreground
<1>2. Asked(Sh, returned) # {}
  BY <1>0, <1>1 DEF Asked
<1>3. PICK z \in Asked(Sh, returned) \cap Zombies(Sh) : process' = [process EXCEPT ![z] = Free]
  BY <1>2 DEF Waited
<1>4. z \in Pids /\ process[z].parent = Sh /\ process[z].stage = "zombie" /\ (returned = 0 \/ z = returned)
  BY <1>0, <1>1 DEF Asked, Zombies, Children
<1>5. /\ process' \in [Pids -> Process] /\ process'[z] = Free
      /\ \A q \in Pids \ {z} : process'[q] = process[q]
  BY <1>0, <1>3, <1>4 DEF Processes, Typed, Process, Free, Stages, Jobs
<1>6. Free.stage = "free" /\ Free.parent = Nobody
  BY DEF Free
<1>7. Processes'
  <2>1. Typed'
    BY <1>0, <1>5 DEF Processes, Typed, Process
  <2>2. Lineage'
    BY <1>0, <1>1, <1>5, <1>6 DEF Processes, Lineage, PipeStages, Up
  <2>3. Family'
    BY <1>0, <1>1, <1>4, <1>5, <1>6 DEF Processes, Family
  <2> QED BY <1>0, <2>1, <2>2, <2>3 DEF Processes, Quiet
<1>8. /\ Foreground' = Foreground \ {z}
      /\ (Foreground \cap Live)' \subseteq (Foreground \cap Live) \ {z}
  BY <1>1, <1>4, <1>5, <1>6 DEF Foreground, Children, Live
<1>9. NoneInForeground'
  <2>1. CASE z = returned
    BY <1>0, <1>8, <2>1 DEF OnlyForeground, NoneInForeground
  <2>2. CASE z # returned
    <3>1. returned = 0 /\ interrupted
      BY <1>0, <1>1, <1>4, <2>2
    <3> QED BY <1>0, <1>8, <3>1 DEF OnlyForeground, NoneInForeground
  <2> QED BY <2>1, <2>2
<1> QED BY <1>0, <1>7, <1>9 DEF IInv, ChildKnown

-----------------------------------------------------------------------------
(* The theorems.                                                           *)

LEMMA InitInv == Init => IInv
<1> SUFFICES ASSUME Init PROVE IInv OBVIOUS
<1>1. /\ Free \in Process /\ Free.stage = "free" /\ Free.parent = Nobody
      /\ {Sh, Nobody, 0, -1} \cap Pids = {} /\ Sh # Nobody
  BY ShellAssumption DEF Free, Process, Stages, Jobs
<1>2. \A p \in Pids : process[p] = Free
  BY DEF Init
<1>3. Typed
  BY <1>1 DEF Init, Typed, Process
<1>4. Lineage /\ Family /\ Quiet
  BY <1>1, <1>2 DEF Init, Lineage, Family, Quiet, PipeStages
<1>5. Foreground = {}
  BY <1>1, <1>2 DEF Foreground, Children
<1>6. ChildKnown
  BY <1>5 DEF Init, ChildKnown, NoneInForeground, OnlyForeground, Jobs
<1> QED BY <1>3, <1>4, <1>6 DEF IInv, Processes

LEMMA NextInv == IInv /\ [Next]_vars => IInv'
<1> SUFFICES ASSUME IInv, [Next]_vars PROVE IInv' OBVIOUS
<1>1. CASE ShellStep \/ ReadCommand
  BY <1>1, QuietSteps, ForkStep, WaitedStep DEF ShellStep
<1>2. CASE Quit
  BY <1>2, QuitStep
<1>3. CASE Interrupt
  BY <1>3, InterruptStep, KeepsKnown DEF IInv
<1>4. CASE Handle
  BY <1>4, HandleStep DEF IInv
<1>5. ASSUME NEW p \in Pids, ProcessStep(p) PROVE IInv'
  BY <1>5, ProcessSteps, KeepsKnown DEF IInv, ProcessStep
<1>6. ASSUME NEW p \in Pids, Deliver(p) PROVE IInv'
  BY <1>6, DeliverStep, KeepsKnown DEF IInv, Deliver
<1>7. ASSUME NEW p \in Pids, Finish(p), UNCHANGED <<shell, interrupted>> PROVE IInv'
  BY <1>7, FinishStep, KeepsKnown DEF IInv
<1>8. CASE UNCHANGED vars
  <2>1. UNCHANGED <<shell, process, pending, interrupted>>
    BY <1>8 DEF vars
  <2>2. Processes'
    BY <2>1, ProcessesStay DEF IInv, Up, shell
  <2>3. Keeps
    BY <2>1 DEF Keeps, Children
  <2> QED BY <2>1, <2>2, <2>3, KeepsKnown DEF IInv
<1> QED BY <1>1, <1>2, <1>3, <1>4, <1>5, <1>6, <1>7, <1>8 DEF Next

LEMMA InvHolds == Spec => []IInv
BY InitInv, NextInv, PTL DEF Spec

\* The shell never waits for a process it does not have, nor when it has no child at all:
\* whatever the handler did to childpid between fork and waitpid (myshell.c:36 and 103),
\* the child it killed is still there to be waited for.
THEOREM WaitsForAChild == Spec => []WaitHasChild
<1>1. IInv => WaitHasChild
  BY DEF IInv, ChildKnown, WaitHasChild
<1> QED BY InvHolds, <1>1, PTL

\* When the shell asks for the next command the one before has ended; and while ^C was
\* never typed nothing of it is left, neither a zombie nor a half of a pipe that its parent
\* did not wait for (myshell.c:64, 103 and 256).
THEOREM PromptComesLast == Spec => []PromptMeansDone
<1>1. IInv => PromptMeansDone
  <2> SUFFICES ASSUME IInv, at = "read"
               PROVE  /\ Foreground \cap Live = {}
                      /\ ~interrupted => Foreground = {} /\ Programs = {}
    BY DEF PromptMeansDone
  <2>1. {Sh, Nobody, 0, -1} \cap Pids = {} /\ Foreground \in SUBSET Pids
    BY ShellAssumption DEF Foreground, Children
  <2>2. Foreground \cap Live = {} /\ (~interrupted => Foreground = {})
    BY <2>1 DEF IInv, ChildKnown, NoneInForeground, OnlyForeground
  <2>3. ASSUME ~interrupted, NEW q \in Programs PROVE FALSE
    <3>1. q \in Pids /\ process[q].stage \notin {"free", "zombie"} /\ process[q].job # "background"
      BY DEF Programs, Live
    <3>2. process[q].parent \in Pids \cup {Sh}
      BY <2>3, <3>1 DEF IInv, Processes, Typed, Lineage, Up
    <3>3. CASE process[q].parent = Sh
      BY <2>2, <2>3, <3>1, <3>3 DEF Foreground, Children
    <3>4. CASE process[q].parent \in Pids
      <4> DEFINE p == process[q].parent
      <4>1. process[p].stage \in {"fork2", "wait1", "wait2", "wait3"}
        BY <3>1, <3>4 DEF IInv, Processes, Family
      <4>2. process[p].job = "pipe" /\ process[p].parent = Sh
        BY <2>3, <3>4, <4>1 DEF IInv, Processes, Typed, Lineage, Up, PipeStages
      <4> QED BY <2>2, <2>3, <3>4, <4>1, <4>2 DEF Foreground, Children
    <3> QED BY <3>2, <3>3, <3>4
  <2> QED BY <2>2, <2>3
<1> QED BY InvHolds, <1>1, PTL
===============================================================================
