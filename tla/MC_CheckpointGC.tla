--------------------------- MODULE MC_CheckpointGC ---------------------------
(* The GC task with one or two allocations and a few log lines.            *)
EXTENDS CheckpointGC_proofs

MCMaxGCLogs == 4
=============================================================================
