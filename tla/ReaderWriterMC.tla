---------------------------- MODULE ReaderWriterMC ----------------------------
(* An instance of ReaderWriter for TLC: the numbers of the file.           *)
EXTENDS ReaderWriter

CONSTANTS r1, r2, r3, w1, w2, w3
=============================================================================
