--------------------------- MODULE SpinningBufferMC ---------------------------
(* An instance of SpinningBuffer for TLC.                                  *)
EXTENDS SpinningBuffer

CONSTANTS p1, p2, c1, c2
===============================================================================
