----------------------------- MODULE CheckpointMC -----------------------------
EXTENDS Checkpoint

\* The program's data, the library's, the stack and the vdso, at rising addresses.
MCMaps == <<"data", "lib", "stack", "vdso">>
MCNeeded == {"lib", "stack"}
MCWritten == {"data", "stack"}
=============================================================================
