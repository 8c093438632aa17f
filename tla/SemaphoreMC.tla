----------------------------- MODULE SemaphoreMC -----------------------------
(* Instances of Semaphore (hw6/semaphore.c) for TLC.                       *)
EXTENDS Semaphore

==============================================================================
