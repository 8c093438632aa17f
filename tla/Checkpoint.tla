------------------------------ MODULE Checkpoint ------------------------------
(***************************************************************************)
(* hw2: a program run under ckpt, with libckpt.so preloaded, saves itself  *)
(* to the file myckpt when SIGUSR2 arrives; when it is gone, restart reads *)
(* the file and becomes the saved program.  The process may be killed at   *)
(* any moment, while it saves and while it is restored included.           *)
(*                                                                         *)
(* What a segment of memory holds is one number: is_restart for "lib" (the *)
(* data segment of libckpt.so, itself saved in the image), for a segment   *)
(* that the program writes (its data, its stack) how far it has come, and  *)
(* 0 for one that nobody writes (the vdso).                                *)
(* A piece of the file is what two calls of write_helper write, a header   *)
(* and its body: the registers first, then each segment.  One process at a *)
(* time: restart is not run while the program is still there.              *)
(***************************************************************************)
EXTENDS Naturals, Sequences

CONSTANTS Maps,      \* the segments in the order of /proc/self/maps
          Needed,    \* those that the way back into the program touches: its code, its stack
          Written,   \* those that the program writes
          MaxWork    \* bound: what the program counts up to in a segment

ASSUME CheckpointAssumption ==
  /\ Maps \in Seq(STRING)
  /\ \A i, j \in DOMAIN Maps : Maps[i] = Maps[j] => i = j
  /\ Needed \subseteq {Maps[i] : i \in DOMAIN Maps} /\ "lib" \in Needed
  /\ "lib" \notin Written
  /\ MaxWork \in Nat

VARIABLES
  file,       \* myckpt: its pieces in order (empty too when it does not exist)
  memory,     \* the number each segment of the process holds
  mapped,     \* the segments that hold what belongs there (in restart: those read so far)
  read,       \* the pieces restart has read
  pc,         \* where the process is
  restarted,  \* the process is restart, and not the program as ckpt launched it
  at          \* history: the program's memory when the file was last opened

vars == <<file, memory, mapped, read, pc, restarted, at>>

Segments == {Maps[i] : i \in DOMAIN Maps}
Program  == Segments \ {"lib"}
Pieces   == Len(Maps) + 1

\* Piece 1 holds the registers.
SegmentOf(i) == Maps[i - 1]

\* A piece is whole, or lacks its body, or ends inside its header or body.
PieceOfFile == [held : Nat, state : {"whole", "bodyless", "cut"}]

Whole(f) == Len(f) = Pieces /\ \A i \in DOMAIN f : f[i].state = "whole"

Gone == {"killed", "failed"}

Init ==
  /\ file = <<>>
  /\ memory = [s \in Segments |-> 0]
  /\ mapped = Segments
  /\ read = 0
  /\ pc = "user"
  /\ restarted = FALSE
  /\ at = [s \in Program |-> 0]

-----------------------------------------------------------------------------
(* The program and its signal handler                                      *)

Work ==
  /\ pc = "user"
  /\ \E s \in Program \cap Written \cap mapped :
       /\ memory[s] < MaxWork
       /\ memory' = [memory EXCEPT ![s] = @ + 1]
  /\ UNCHANGED <<file, mapped, read, pc, restarted, at>>

\* The constructor has set the handler for the program; in restart no one
\* has, and a SIGUSR2 kills.  While the handler runs the signal is masked.
Signal ==
  /\ pc = "user"
  /\ pc' = IF restarted THEN "killed" ELSE "open"
  /\ UNCHANGED <<file, memory, mapped, read, restarted, at>>

\* checkpoint: O_TRUNC empties the file.
Open ==
  /\ pc = "open"
  /\ file' = <<>>
  /\ at' = [s \in Program |-> memory[s]]
  /\ pc' = "context"
  /\ UNCHANGED <<memory, mapped, read, restarted>>

\* Mutant: is_restart is set when the segments are written.
ReturnFromGetcontextSetsLate ==
  /\ pc = "context" /\ Needed \subseteq mapped
  /\ IF memory["lib"] = 1
       THEN memory' = [memory EXCEPT !["lib"] = 0] /\ pc' = "close"
       ELSE UNCHANGED memory /\ pc' = "save"
  /\ UNCHANGED <<file, mapped, read, restarted, at>>

\* save_memory from the return of getcontext on, the first one and the one
\* setcontext makes happen again in restart, where it needs its code and stack.
ReturnFromGetcontext ==
  /\ pc = "context" /\ Needed \subseteq mapped
  /\ IF memory["lib"] = 1
       THEN memory' = [memory EXCEPT !["lib"] = 0] /\ pc' = "close"
       ELSE memory' = [memory EXCEPT !["lib"] = 1] /\ pc' = "save"
  /\ UNCHANGED <<file, mapped, read, restarted, at>>

\* The next piece of the image.
Piece(state) ==
  [held |-> IF Len(file) = 0 THEN 0 ELSE memory[SegmentOf(Len(file) + 1)], state |-> state]

\* Only the process that opened the file can write to it: the descriptor a
\* restarted process finds on its stack is not open there.
WritePiece ==
  /\ pc = "save" /\ ~restarted /\ Len(file) < Pieces
  /\ file' = Append(file, Piece("whole"))
  /\ UNCHANGED <<memory, mapped, read, pc, restarted, at>>

SaveReturns ==
  /\ pc = "save" /\ Len(file) = Pieces
  /\ pc' = "close"
  /\ UNCHANGED <<file, memory, mapped, read, restarted, at>>

\* A piece is broken off before its body, or inside of its header or body.
BreaksOff ==
  \/ file' = file
  \/ /\ pc = "save" /\ ~restarted /\ Len(file) < Pieces
     /\ \E state \in {"bodyless", "cut"} : file' = Append(file, Piece(state))

\* write fails (no space is left, the descriptor is not open): write_helper
\* ends the process.
WriteFails ==
  /\ pc = "save" /\ Len(file) < Pieces
  /\ BreaksOff
  /\ pc' = "failed"
  /\ UNCHANGED <<memory, mapped, read, restarted, at>>

\* close, then out of the handler to where the signal came.
HandlerReturns ==
  /\ pc = "close"
  /\ pc' = "user"
  /\ UNCHANGED <<file, memory, mapped, read, restarted, at>>

-----------------------------------------------------------------------------
(* restart                                                                 *)

Kill ==
  /\ pc \notin Gone
  /\ BreaksOff
  /\ pc' = "killed"
  /\ UNCHANGED <<memory, mapped, read, restarted, at>>

Restart ==
  /\ pc \in Gone
  /\ pc' = "restore"
  /\ restarted' = TRUE
  /\ read' = 0
  /\ mapped' = {}
  /\ memory' = [s \in Segments |-> 0]
  /\ UNCHANGED <<file, at>>

\* Mutant: read_helper without its loop: a piece that is cut passes for the
\* whole, and what it lacks stays zero.
ReadPieceShort ==
  /\ pc = "restore" /\ read < Len(file)
  /\ read' = read + 1
  /\ IF read > 0 /\ file[read + 1].state # "bodyless"
       THEN /\ memory' = IF file[read + 1].state = "cut" THEN memory
                         ELSE [memory EXCEPT ![SegmentOf(read + 1)] = file[read + 1].held]
            /\ mapped' = mapped \union {SegmentOf(read + 1)}
       ELSE UNCHANGED <<memory, mapped>>
  /\ UNCHANGED <<file, pc, restarted, at>>

\* read_helper for a header and for its body.  A body that is not there
\* leaves the segment zero; a piece that is cut is waited for for ever.
ReadPiece ==
  /\ pc = "restore" /\ read < Len(file)
  /\ IF file[read + 1].state = "cut"
       THEN pc' = "spinning" /\ UNCHANGED <<memory, mapped, read>>
       ELSE /\ read' = read + 1
            /\ IF read > 0 /\ file[read + 1].state = "whole"
                 THEN /\ memory' = [memory EXCEPT ![SegmentOf(read + 1)] = file[read + 1].held]
                      /\ mapped' = mapped \union {SegmentOf(read + 1)}
                 ELSE UNCHANGED <<memory, mapped>>
            /\ UNCHANGED pc
  /\ UNCHANGED <<file, restarted, at>>

\* Mutant: read_helper without its test of 0: at the end of the file it waits.
SetContextAtEof ==
  /\ pc = "restore" /\ read = Len(file)
  /\ pc' = "spinning"
  /\ UNCHANGED <<file, memory, mapped, read, restarted, at>>

\* The end of the file, then setcontext whatever was read.  Where no
\* registers were, the context is zero and setcontext itself faults.
SetContext ==
  /\ pc = "restore" /\ read = Len(file)
  /\ pc' = IF read > 0 /\ file[1].state = "whole" THEN "context" ELSE "failed"
  /\ UNCHANGED <<file, memory, mapped, read, restarted, at>>

\* The process touches a segment that is missing, or that is all zero: on
\* the way back into the program at once, later if the program comes to it.
Fault ==
  /\ \/ pc = "context" /\ ~(Needed \subseteq mapped)
     \/ pc = "user" /\ mapped # Segments
  /\ pc' = "failed"
  /\ UNCHANGED <<file, memory, mapped, read, restarted, at>>

\* What the process does by itself.
Step ==
  \/ Open \/ ReturnFromGetcontext \/ WritePiece \/ SaveReturns \/ HandlerReturns
  \/ ReadPiece \/ SetContext

Next == Step \/ Work \/ Signal \/ WriteFails \/ Fault \/ Kill \/ Restart

Spec == Init /\ [][Next]_vars /\ WF_vars(Step)

-----------------------------------------------------------------------------
(* Properties                                                              *)

\* Types; a file never has more pieces than an image, and restart does not
\* read past its end.
TypeOK ==
  /\ file \in Seq(PieceOfFile) /\ Len(file) <= Pieces
  /\ memory \in [Segments -> Nat]
  /\ memory["lib"] \in {0, 1} /\ \A s \in Program : memory[s] <= MaxWork
  /\ mapped \subseteq Segments
  /\ read \in 0..Pieces
  /\ pc \in {"user", "open", "context", "save", "close", "restore", "spinning"} \union Gone
  /\ restarted \in BOOLEAN
  /\ at \in [Program -> 0..MaxWork]

(* A whole image is one the program can be restarted from, each time the   *)
(* same way: whatever was killed and restarted since it was written, the   *)
(* process never fails, hangs or starts to save, and what it returns to    *)
(* the program with is the memory of the moment of the signal.             *)
RestartIsExact ==
  restarted /\ Whole(file) =>
    /\ pc \notin {"open", "save", "spinning", "failed"}
    /\ pc \in {"context", "close"} => \A s \in Program : memory[s] = at[s]
    /\ pc = "user" => \A s \in Program : memory[s] >= at[s]

(* restart.c takes whatever it reads for an image and tests nothing, so a  *)
(* file that a kill or a full disk broke off may be run.  Still the        *)
(* program goes on without holes: up to the last segment that the way back *)
(* needs (the stack, in a process), every segment is there, as it was at   *)
(* the signal; only what follows in the file (the vdso) may be missing.    *)
(* And no process that restart made writes to the file.                    *)
RunsWithoutHoles ==
  restarted =>
    /\ pc \notin {"open", "save"}
    /\ pc \in {"close", "user"} =>
         \A i, j \in DOMAIN Maps : i <= j /\ Maps[j] \in Needed =>
           /\ Maps[i] \in mapped
           /\ Maps[i] # "lib" => IF pc = "close" THEN memory[Maps[i]] = at[Maps[i]]
                                                ELSE memory[Maps[i]] >= at[Maps[i]]

(* Restarted from a whole image, and not killed, the program is back.      *)
RestartReturns == (pc = "restore" /\ Whole(file)) ~> (pc \in {"user", "killed"})

=============================================================================
