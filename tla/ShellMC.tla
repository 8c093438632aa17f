------------------------------- MODULE ShellMC -------------------------------
(* An instance of Shell for TLC.                                           *)
EXTENDS Shell

CONSTANTS p1, p2, p3
=============================================================================
