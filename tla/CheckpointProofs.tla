--------------------------- MODULE CheckpointProofs ---------------------------
(***************************************************************************)
(* Proofs about Checkpoint, for every list of segments and every amount of *)
(* work: a whole image restarts the program exactly, and what runs of a    *)
(* broken one has no holes.                                                *)
(***************************************************************************)
EXTENDS Checkpoint, TLAPS

-----------------------------------------------------------------------------
(* The inductive invariant                                                 *)

\* The memory of the program is the memory at the signal.
AsSignalled == \A s \in Program : memory[s] = at[s]

\* Only the last piece can be broken off, and what the pieces hold is the
\* memory at the signal, with is_restart set.
FileHolds ==
  /\ \A i \in 1..(Len(file) - 1) : file[i].state = "whole"
  /\ \A i \in 2..Len(file) :
       IF SegmentOf(i) = "lib" THEN file[i].held = 1 ELSE file[i].held = at[SegmentOf(i)]

\* The handler in the program: nothing moves until it returns.
Saving ==
  ~restarted =>
    /\ mapped = Segments /\ pc \notin {"restore", "spinning"}
    /\ pc \in {"context", "save", "close"} => AsSignalled
    /\ pc = "context" => file = <<>>
    /\ pc = "save" => memory["lib"] = 1 /\ \A i \in 1..Len(file) : file[i].state = "whole"

\* What is mapped is what was read, and restart reads the file to its end.
Restoring ==
  restarted /\ pc \in {"restore", "context", "close", "user"} =>
    /\ read <= Len(file) /\ (pc # "restore" => read = Len(file))
    /\ \A i \in 2..read : file[i].state = "whole" => SegmentOf(i) \in mapped
    /\ \A s \in mapped : \E i \in 2..read : SegmentOf(i) = s /\ file[i].state = "whole"

\* What is mapped is as it was at the signal, until the program goes on.
Restored ==
  restarted =>
    /\ pc \notin {"open", "save"}
    /\ pc \in {"restore", "context"} => ("lib" \in mapped => memory["lib"] = 1)
    /\ pc \in {"restore", "context", "close"} => \A s \in Program \cap mapped : memory[s] = at[s]
    /\ pc = "user" => \A s \in Program \cap mapped : memory[s] >= at[s]
    /\ pc \in {"close", "user"} => Needed \subseteq mapped
    /\ pc \in {"spinning", "failed"} => ~Whole(file)

IInv == TypeOK /\ FileHolds /\ Saving /\ Restoring /\ Restored

-----------------------------------------------------------------------------
(* The pieces of an image                                                  *)

\* The library's segment is one of those saved.
LEMMA LibIsSaved ==
  /\ "lib" \in Segments
  /\ Len(Maps) \in Nat \ {0} /\ Pieces \in Nat /\ Pieces >= 2
  /\ \A s \in Program : s \in Segments /\ s # "lib"
  BY CheckpointAssumption DEF Segments, Program, Pieces

\* The pieces after the first are the segments.
LEMMA PiecesAreSegments ==
  /\ \A i \in 2..Pieces : SegmentOf(i) \in Segments
  /\ \A s \in Segments : \E i \in 2..Pieces : SegmentOf(i) = s
<1>1. ASSUME NEW i \in 2..Pieces
      PROVE  SegmentOf(i) \in Segments
  <2>1. i - 1 \in DOMAIN Maps /\ SegmentOf(i) = Maps[i - 1]
    BY CheckpointAssumption DEF Pieces, SegmentOf
  <2> QED BY <2>1 DEF Segments
<1>2. ASSUME NEW s \in Segments
      PROVE  \E i \in 2..Pieces : SegmentOf(i) = s
  <2>1. PICK i \in 1..Len(Maps) : Maps[i] = s
    BY CheckpointAssumption DEF Segments
  <2>2. i + 1 \in 2..Pieces /\ SegmentOf(i + 1) = s
    BY <2>1, CheckpointAssumption DEF Pieces, SegmentOf
  <2> QED BY <2>2
<1> QED BY <1>1, <1>2

\* A whole file that was read to its end is all mapped.
LEMMA WholeIsMapped ==
  ASSUME TypeOK, Restoring, restarted, read = Len(file), Whole(file),
         pc \in {"restore", "context", "close", "user"}
  PROVE  mapped = Segments
<1>1. file \in Seq(PieceOfFile) /\ Len(file) <= Pieces /\ mapped \subseteq Segments
  BY DEF TypeOK
<1>2. \A i \in 2..Pieces : SegmentOf(i) \in mapped
  BY <1>1 DEF Restoring, Whole
<1> QED BY <1>1, <1>2, PiecesAreSegments

\* What is mapped has no holes: with a segment, all before it.
LEMMA MappedIsPrefix ==
  ASSUME TypeOK, FileHolds, Restoring, restarted, pc \in {"restore", "context", "close", "user"},
         NEW i \in DOMAIN Maps, NEW j \in DOMAIN Maps, i <= j, Maps[j] \in mapped
  PROVE  Maps[i] \in mapped
<1>1. file \in Seq(PieceOfFile) /\ read \in Nat /\ read <= Len(file)
  BY DEF TypeOK, Restoring
<1>2. PICK k \in 2..read : Maps[k - 1] = Maps[j] /\ file[k].state = "whole"
  BY DEF Restoring, SegmentOf
<1>3. k - 1 = j
  BY <1>1, <1>2, CheckpointAssumption DEF TypeOK, Pieces
<1>4. i + 1 \in 2..read /\ file[i + 1].state = "whole"
  BY <1>1, <1>2, <1>3, CheckpointAssumption DEF FileHolds
<1> QED BY <1>4, CheckpointAssumption DEF Restoring, SegmentOf

-----------------------------------------------------------------------------
(* The invariant holds at first, and every action keeps it                 *)

LEMMA InitEstablishes == Init => IInv
<1> SUFFICES ASSUME Init PROVE IInv
  OBVIOUS
<1>1. file \in Seq(PieceOfFile) /\ Len(file) = 0
  BY DEF Init
<1>2. memory \in [Segments -> Nat] /\ \A s \in Segments : memory[s] = 0
  BY DEF Init
<1>3. at \in [Program -> 0..MaxWork]
  BY CheckpointAssumption DEF Init
<1>4. memory["lib"] = 0 /\ \A s \in Program : memory[s] <= MaxWork
  BY <1>2, LibIsSaved, CheckpointAssumption
<1>5. mapped \subseteq Segments /\ pc = "user" /\ read = 0
  BY DEF Init
<1>6. restarted \in BOOLEAN
  BY Zenon DEF Init
<1>7. TypeOK
  <2>1. file \in Seq(PieceOfFile) /\ Len(file) <= Pieces
    BY <1>1, LibIsSaved
  <2> QED BY <2>1, <1>2, <1>3, <1>4, <1>5, <1>6, LibIsSaved DEF TypeOK
<1> QED
  BY <1>7, LibIsSaved DEF Init, IInv, FileHolds, Saving, Restoring, Restored, AsSignalled

USE DEF IInv

LEMMA WorkKeeps == ASSUME IInv, Work PROVE IInv'
<1> PICK s \in Program : memory[s] < MaxWork /\ memory' = [memory EXCEPT ![s] = @ + 1]
  BY DEF Work
<1>1. /\ memory["lib"]' = memory["lib"]
      /\ \A p \in Program : memory[p]' \in Nat /\ memory[p]' >= memory[p] /\ memory[p]' <= MaxWork
      /\ memory' \in [Segments -> Nat]
  BY LibIsSaved, CheckpointAssumption DEF TypeOK
<1>2. TypeOK'
  BY <1>1 DEF Work, TypeOK
<1>3. FileHolds' /\ Saving' /\ Restoring'
  BY DEF Work, FileHolds, Saving, Restoring, SegmentOf
<1>4. Restored'
  BY <1>1 DEF Work, Restored, Whole, TypeOK, Program
<1> QED BY <1>2, <1>3, <1>4

LEMMA SignalKeeps == ASSUME IInv, Signal PROVE IInv'
<1>1. TypeOK'
  BY DEF Signal, TypeOK, Gone
<1>2. FileHolds' /\ Saving' /\ Restoring' /\ Restored'
  BY DEF Signal, FileHolds, Saving, Restoring, Restored, AsSignalled, Whole
<1> QED BY <1>1, <1>2

LEMMA OpenKeeps == ASSUME IInv, Open PROVE IInv'
<1>1. TypeOK'
  BY LibIsSaved DEF Open, TypeOK
<1>2. ~restarted /\ AsSignalled'
  BY DEF Open, Restored, AsSignalled
<1>3. FileHolds' /\ Saving' /\ Restoring' /\ Restored'
  BY <1>2 DEF Open, FileHolds, Saving, Restoring, Restored
<1> QED BY <1>1, <1>3

LEMMA ReturnFromGetcontextKeeps == ASSUME IInv, ReturnFromGetcontext PROVE IInv'
<1>1. /\ memory["lib"]' = 1 - memory["lib"]
      /\ pc' = IF memory["lib"] = 1 THEN "close" ELSE "save"
      /\ \A s \in Program : memory[s]' = memory[s]
      /\ memory' \in [Segments -> Nat]
  BY LibIsSaved DEF ReturnFromGetcontext, TypeOK
<1>2. TypeOK'
  BY <1>1, LibIsSaved DEF ReturnFromGetcontext, TypeOK
<1>3. restarted => pc' = "close"
  BY <1>1, CheckpointAssumption DEF ReturnFromGetcontext, Restored
<1>4. FileHolds' /\ Saving'
  BY <1>1, LibIsSaved DEF ReturnFromGetcontext, FileHolds, Saving, AsSignalled, SegmentOf
<1>5. Restoring'
  BY <1>3 DEF ReturnFromGetcontext, Restoring, SegmentOf
<1>6. Restored'
  BY <1>1, <1>3 DEF ReturnFromGetcontext, Restored, Whole
<1> QED BY <1>2, <1>4, <1>5, <1>6

\* One more piece, whole or not, of a file that is whole so far.
LEMMA PieceKeeps ==
  ASSUME IInv, NEW state \in {"whole", "bodyless", "cut"},
         pc = "save", ~restarted, Len(file) < Pieces,
         file' = Append(file, Piece(state)), UNCHANGED <<memory, mapped, read, at>>
  PROVE  /\ FileHolds'
         /\ file' \in Seq(PieceOfFile)
         /\ Len(file)' <= Pieces
         /\ state = "whole" => \A i \in 1..Len(file)' : file[i].state' = "whole"
<1> DEFINE new == Piece(state)
<1>1. file \in Seq(PieceOfFile)
  BY DEF TypeOK
<1>2. new.state = state /\ new \in PieceOfFile
  BY <1>1, LibIsSaved, PiecesAreSegments DEF Piece, TypeOK, PieceOfFile
<1>3. /\ Len(file)' = Len(file) + 1
      /\ file'[Len(file) + 1] = new
      /\ \A i \in 1..Len(file) : file'[i] = file[i] /\ file[i].state = "whole"
  BY <1>1, <1>2 DEF Saving
<1>4. Len(file) + 1 >= 2 =>
        IF SegmentOf(Len(file) + 1) = "lib" THEN new.held = 1
                                            ELSE new.held = at[SegmentOf(Len(file) + 1)]
  <2> SUFFICES ASSUME Len(file) # 0
               PROVE  IF SegmentOf(Len(file) + 1) = "lib"
                        THEN new.held = 1 ELSE new.held = at[SegmentOf(Len(file) + 1)]
    BY <1>1
  <2>1. new.held = memory[SegmentOf(Len(file) + 1)] /\ SegmentOf(Len(file) + 1) \in Segments
    BY <1>1, LibIsSaved, PiecesAreSegments DEF Piece
  <2> QED BY <2>1 DEF Saving, AsSignalled, Program
<1>5. FileHolds'
  <2>1. \A i \in 2..Len(file) :
          IF SegmentOf(i) = "lib" THEN file'[i].held = 1 ELSE file'[i].held = at[SegmentOf(i)]
    BY <1>1, <1>3 DEF FileHolds
  <2> QED BY <1>1, <1>3, <1>4, <2>1 DEF FileHolds, SegmentOf
<1>6. file' \in Seq(PieceOfFile)
  BY <1>1, <1>2
<1>7. state = "whole" => \A i \in 1..Len(file)' : file[i].state' = "whole"
  BY <1>1, <1>2, <1>3
<1> QED BY <1>1, <1>3, <1>5, <1>6, <1>7, LibIsSaved

LEMMA WritePieceKeeps == ASSUME IInv, WritePiece PROVE IInv'
<1>1. /\ FileHolds'
      /\ file' \in Seq(PieceOfFile) /\ Len(file)' <= Pieces
      /\ \A i \in 1..Len(file)' : file[i].state' = "whole"
  BY PieceKeeps DEF WritePiece
<1>2. TypeOK'
  BY <1>1 DEF WritePiece, TypeOK
<1>3. Saving' /\ Restoring' /\ Restored'
  BY <1>1 DEF WritePiece, Saving, Restoring, Restored, AsSignalled
<1> QED BY <1>1, <1>2, <1>3

LEMMA SaveReturnsKeeps == ASSUME IInv, SaveReturns PROVE IInv'
<1>1. TypeOK'
  BY DEF SaveReturns, TypeOK
<1>2. FileHolds' /\ Saving' /\ Restoring' /\ Restored'
  BY DEF SaveReturns, FileHolds, Saving, Restoring, Restored, AsSignalled, SegmentOf
<1> QED BY <1>1, <1>2

\* What a process that ends leaves of the file.
LEMMA BreaksOffKeeps ==
  ASSUME IInv, BreaksOff, UNCHANGED <<memory, mapped, read, restarted, at>>
  PROVE  /\ FileHolds'
         /\ file' \in Seq(PieceOfFile)
         /\ Len(file)' <= Pieces
         /\ restarted => file' = file
<1>1. CASE file' = file
  BY <1>1 DEF FileHolds, TypeOK, SegmentOf
<1>2. CASE file' # file
  <2>1. PICK state \in {"bodyless", "cut"} :
          pc = "save" /\ ~restarted /\ Len(file) < Pieces /\ file' = Append(file, Piece(state))
    BY <1>2 DEF BreaksOff
  <2> QED BY <2>1, PieceKeeps
<1> QED BY <1>1, <1>2

LEMMA WriteFailsKeeps == ASSUME IInv, WriteFails PROVE IInv'
<1>1. /\ FileHolds' /\ (restarted => file' = file)
      /\ file' \in Seq(PieceOfFile) /\ Len(file)' <= Pieces
  BY BreaksOffKeeps DEF WriteFails
<1>2. TypeOK'
  BY <1>1 DEF WriteFails, TypeOK, Gone
<1>3. Saving' /\ Restoring' /\ Restored'
  BY <1>1 DEF WriteFails, Saving, Restoring, Restored
<1> QED BY <1>1, <1>2, <1>3

LEMMA KillKeeps == ASSUME IInv, Kill PROVE IInv'
<1>1. /\ FileHolds' /\ (restarted => file' = file)
      /\ file' \in Seq(PieceOfFile) /\ Len(file)' <= Pieces
  BY BreaksOffKeeps DEF Kill
<1>2. TypeOK'
  BY <1>1 DEF Kill, TypeOK, Gone
<1>3. Saving' /\ Restoring' /\ Restored'
  BY <1>1 DEF Kill, Saving, Restoring, Restored
<1> QED BY <1>1, <1>2, <1>3

LEMMA HandlerReturnsKeeps == ASSUME IInv, HandlerReturns PROVE IInv'
<1>1. TypeOK'
  BY DEF HandlerReturns, TypeOK
<1>2. FileHolds' /\ Saving' /\ Restoring'
  BY DEF HandlerReturns, FileHolds, Saving, Restoring, SegmentOf
<1>3. Restored'
  BY DEF HandlerReturns, Restored, Whole, AsSignalled, TypeOK, Program
<1> QED BY <1>1, <1>2, <1>3

LEMMA RestartKeeps == ASSUME IInv, Restart PROVE IInv'
<1>1. TypeOK'
  BY LibIsSaved, CheckpointAssumption DEF Restart, TypeOK
<1>2. FileHolds' /\ Saving' /\ Restored'
  BY DEF Restart, FileHolds, Saving, Restored, SegmentOf
<1>3. Restoring'
  BY DEF Restart, Restoring, TypeOK
<1> QED BY <1>1, <1>2, <1>3

LEMMA ReadPieceKeeps == ASSUME IInv, ReadPiece PROVE IInv'
<1>1. /\ file \in Seq(PieceOfFile) /\ Len(file) <= Pieces
      /\ read \in Nat /\ read < Len(file) /\ pc = "restore" /\ restarted
  BY DEF ReadPiece, TypeOK, Saving
<1>2. CASE file[read + 1].state = "cut"
  <2>1. ~Whole(file)
    BY <1>1, <1>2 DEF Whole
  <2>2. TypeOK'
    BY <1>2 DEF ReadPiece, TypeOK
  <2>3. FileHolds' /\ Saving' /\ Restoring' /\ Restored'
    BY <1>1, <1>2, <2>1 DEF ReadPiece, FileHolds, Saving, Restoring, Restored, Whole, SegmentOf
  <2> QED BY <2>2, <2>3
<1>3. CASE file[read + 1].state # "cut" /\ ~(read > 0 /\ file[read + 1].state = "whole")
  <2>1. TypeOK'
    BY <1>1, <1>3, LibIsSaved DEF ReadPiece, TypeOK
  <2>2. FileHolds' /\ Saving' /\ Restored'
    BY <1>1, <1>3 DEF ReadPiece, FileHolds, Saving, Restored, SegmentOf
  <2>3. Restoring'
    BY <1>1, <1>3 DEF ReadPiece, Restoring, SegmentOf
  <2> QED BY <2>1, <2>2, <2>3
<1>4. CASE read > 0 /\ file[read + 1].state = "whole"
  <2> DEFINE s == SegmentOf(read + 1)
  <2>1. s \in Segments /\ read + 1 \in 2..Pieces
    BY <1>1, <1>4, LibIsSaved, PiecesAreSegments
  <2>2. /\ memory' = [memory EXCEPT ![s] = file[read + 1].held]
        /\ mapped' = mapped \union {s} /\ read' = read + 1 /\ pc' = pc
        /\ UNCHANGED <<file, restarted, at>>
    BY <1>1, <1>4 DEF ReadPiece
  <2>3. /\ file[read + 1].held \in Nat
        /\ IF s = "lib" THEN file[read + 1].held = 1 ELSE file[read + 1].held = at[s]
    <3>1. read + 1 \in 2..Len(file)
      BY <1>1, <1>4
    <3>2. file[read + 1] \in PieceOfFile
      BY <1>1, <3>1
    <3>3. file[read + 1].held \in Nat
      BY <3>2 DEF PieceOfFile
    <3> QED BY <3>1, <3>3 DEF FileHolds
  <2>4. TypeOK'
    <3>1. memory' \in [Segments -> Nat] /\ mapped' \subseteq Segments
      BY <2>1, <2>2, <2>3 DEF TypeOK
    <3>2. memory["lib"]' \in {0, 1} /\ \A p \in Program : memory[p]' <= MaxWork
      BY <2>1, <2>2, <2>3, LibIsSaved, CheckpointAssumption DEF TypeOK, Program
    <3> QED BY <1>1, <2>1, <2>2, <3>1, <3>2 DEF TypeOK
  <2>5. FileHolds' /\ Saving'
    BY <1>1, <2>2 DEF FileHolds, Saving, SegmentOf
  <2>6. Restoring'
    <3>1. \A i \in 2..read' : file[i].state = "whole" => SegmentOf(i) \in mapped'
      BY <1>1, <2>2 DEF Restoring
    <3>2. ASSUME NEW p \in mapped'
          PROVE  \E i \in 2..read' : SegmentOf(i) = p /\ file[i].state = "whole"
      <4>1. CASE p = s
        BY <1>1, <1>4, <2>1, <2>2, <4>1 DEF TypeOK
      <4>2. CASE p # s
        <5>1. p \in mapped
          BY <2>2, <4>2
        <5> QED BY <1>1, <2>2, <5>1 DEF Restoring
      <4> QED BY <4>1, <4>2
    <3> QED BY <1>1, <2>2, <3>1, <3>2 DEF Restoring, SegmentOf
  <2>7. Restored'
    <3>1. "lib" \in mapped' => memory["lib"]' = 1
      BY <1>1, <2>1, <2>2, <2>3, LibIsSaved DEF Restored, TypeOK
    <3>2. \A p \in Program \cap mapped' : memory'[p] = at[p]
      BY <1>1, <2>1, <2>2, <2>3, LibIsSaved DEF Restored, TypeOK
    <3> QED BY <1>1, <2>2, <3>1, <3>2 DEF Restored
  <2> QED BY <2>4, <2>5, <2>6, <2>7
<1> QED BY <1>2, <1>3, <1>4

LEMMA SetContextKeeps == ASSUME IInv, SetContext PROVE IInv'
<1>1. restarted
  BY DEF SetContext, Saving
<1>2. file \in Seq(PieceOfFile)
  BY DEF TypeOK
<1>3. pc' = "failed" => ~Whole(file)
  BY <1>2, LibIsSaved DEF SetContext, Whole
<1>4. TypeOK'
  BY DEF SetContext, TypeOK, Gone
<1>5. FileHolds' /\ Saving' /\ Restoring'
  BY <1>1 DEF SetContext, FileHolds, Saving, Restoring, SegmentOf
<1>6. Restored'
  BY <1>1, <1>3 DEF SetContext, Restored, Whole
<1> QED BY <1>4, <1>5, <1>6

LEMMA FaultKeeps == ASSUME IInv, Fault PROVE IInv'
<1>1. restarted
  BY LibIsSaved, CheckpointAssumption DEF Fault, Saving, Segments
<1>2. mapped # Segments
  BY CheckpointAssumption DEF Fault, Segments
<1>3. ~Whole(file)
  BY <1>1, <1>2, WholeIsMapped DEF Fault, Restoring
<1>4. TypeOK'
  BY DEF Fault, TypeOK, Gone
<1>5. FileHolds' /\ Saving' /\ Restoring' /\ Restored'
  BY <1>1, <1>3 DEF Fault, FileHolds, Saving, Restoring, Restored, Whole, SegmentOf
<1> QED BY <1>4, <1>5

LEMMA StutterKeeps == ASSUME IInv, UNCHANGED vars PROVE IInv'
  BY DEF vars, TypeOK, FileHolds, Saving, Restoring, Restored, AsSignalled, Whole, SegmentOf

\* The invariant is one of the specification.
THEOREM InvariantHolds == Spec => []IInv
<1>1. IInv /\ [Next]_vars => IInv'
  BY WorkKeeps, SignalKeeps, OpenKeeps, ReturnFromGetcontextKeeps, WritePieceKeeps, SaveReturnsKeeps,
     WriteFailsKeeps, KillKeeps, HandlerReturnsKeeps, RestartKeeps, ReadPieceKeeps, SetContextKeeps, FaultKeeps,
     StutterKeeps
  DEF Next, Step
<1> QED BY <1>1, InitEstablishes, PTL DEF Spec

-----------------------------------------------------------------------------
(* What follows                                                            *)

\* TypeOK of Checkpoint: the types of its variables.
THEOREM Types == Spec => []TypeOK
<1>1. IInv => TypeOK
  OBVIOUS
<1> QED BY <1>1, InvariantHolds, PTL

\* RestartIsExact: whatever is killed, and however often restart runs, a
\* whole image gives back the program of the moment of the signal.
THEOREM WholeImageRestarts == Spec => []RestartIsExact
<1>1. ASSUME IInv, restarted, Whole(file)
      PROVE  /\ pc \notin {"open", "save", "spinning", "failed"}
             /\ pc \in {"context", "close"} => \A s \in Program : memory[s] = at[s]
             /\ pc = "user" => \A s \in Program : memory[s] >= at[s]
  <2>1. pc \in {"context", "close", "user"} => mapped = Segments
    BY <1>1, WholeIsMapped DEF Restoring
  <2> QED BY <1>1, <2>1 DEF Restored, Program
<1>2. IInv => RestartIsExact
  BY <1>1 DEF RestartIsExact
<1> QED BY <1>2, InvariantHolds, PTL

\* RunsWithoutHoles: of a broken image the program runs only with every
\* segment up to the last one it needs, and restart never saves.
THEOREM BrokenImageHasNoHoles == Spec => []RunsWithoutHoles
<1>1. ASSUME IInv, restarted, pc \in {"close", "user"},
             NEW i \in DOMAIN Maps, NEW j \in DOMAIN Maps, i <= j, Maps[j] \in Needed
      PROVE  /\ Maps[i] \in mapped
             /\ Maps[i] # "lib" => IF pc = "close" THEN memory[Maps[i]] = at[Maps[i]]
                                                  ELSE memory[Maps[i]] >= at[Maps[i]]
  <2>1. Maps[j] \in mapped
    BY <1>1 DEF Restored
  <2>2. Maps[i] \in mapped
    BY <1>1, <2>1, MappedIsPrefix
  <2>3. Maps[i] # "lib" => Maps[i] \in Program \cap mapped
    BY <1>1, <2>2 DEF Segments, Program
  <2> QED BY <1>1, <2>2, <2>3 DEF Restored
<1>2. IInv => RunsWithoutHoles
  BY <1>1 DEF RunsWithoutHoles, Restored
<1> QED BY <1>2, InvariantHolds, PTL
=============================================================================
