----------------------------- MODULE MC_Command -----------------------------
(* Model-checking instance of Command: two readiness checks, two kills,   *)
(* two log lines, up to two addresses per running container.               *)
EXTENDS Command

MCMaxKills == 2
MCMaxLogs == 2
MCMaxAddrs == 2
=============================================================================
