--------------------------- MODULE MC_Command_inv ---------------------------
(* Model-checking instance of the proof modules: the inductive invariants *)
(* IInv (of NoStaleRoute) and RefInv (of the readiness refinement) are     *)
(* checked before they are proved.  Two readiness checks and two log       *)
(* lines, so that the checks can be passed by different lines and a line   *)
(* can pass nothing after the ready event; one kill; up to two addresses,  *)
(* so that several Registers race one Unregister batch.                    *)
EXTENDS CommandReadiness_proofs

MCMaxKills == 1
MCMaxLogs == 2
MCMaxAddrs == 2
=============================================================================
