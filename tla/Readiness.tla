----------------------------- MODULE Readiness -----------------------------
(***************************************************************************)
(* What the readiness evaluator of a command promises, independent of how  *)
(* command.go implements it (command.go:248-254, 345-353): the log lines   *)
(* of the container are observed one at a time; every readiness check is   *)
(* passed by some line eventually or not at all; the service is announced  *)
(* ready once, at the first line by which every check has been passed.     *)
(***************************************************************************)
EXTENDS Naturals

CONSTANT Checks           \* the names of the configured readiness checks

VARIABLES
    passed,               \* the checks some observed line has passed
    announced,            \* the service has been announced ready
    told                  \* ServiceReady announcements made so far

vars == <<passed, announced, told>>

Init == passed = {} /\ announced = FALSE /\ told = 0

\* One log line, passing the checks in line, is observed.  The announcement
\* is made at this line iff it completes the set of passed checks.
Observe(line) ==
    /\ passed' = passed \cup line
    /\ announced' = (announced \/ Checks \subseteq passed')
    /\ told' = IF announced' /\ ~announced THEN told + 1 ELSE told

Next == \E line \in SUBSET Checks : Observe(line)

Spec == Init /\ [][Next]_vars
=============================================================================
