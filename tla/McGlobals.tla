----------------------------- MODULE McGlobals -----------------------------
(* Accesses of global variables that a program declares to McMini          *)
(* (mcmini-alpha/src/transitions/misc).  They have no shadow state: only   *)
(* the races between them matter.                                          *)
EXTENDS McThreads

CONSTANT Globals

GlobalOps == {"read", "write"}

GlobalTransition == [tid : Threads, type : GlobalOps, obj : Globals]

WriteDependsOn == GlobalOps
ReadDependsOn  == {"write"}

RacesWithWrite(a, b) == a.type = "write" /\ b.type \in GlobalOps /\ a.obj = b.obj
RacesWithRead(a, b)  == a.type = "read" /\ b.type = "write" /\ a.obj = b.obj
=============================================================================
