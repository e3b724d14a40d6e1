--------------------------- MODULE CommandStatus ---------------------------
(***************************************************************************)
(* The status a task controller shows its observers, as the lifecycle     *)
(* invariant of the specification describes it: the state only moves     *)
(* forward through Pending, Assigned, Pulling, Starting, Running and      *)
(* Terminated (a later state may be reached directly, Terminated from any *)
(* state by abort or kill), and the exit status is recorded once, on     *)
(* entering Terminated, and is final.                                     *)
(***************************************************************************)
EXTENDS Naturals

CONSTANT ExitValues          \* the exit statuses a task can end with

VARIABLES
    status,                  \* the state a status snapshot reports
    exit                     \* the exit status, "None" before the end

vars == <<status, exit>>

Statuses == {"Pending", "Assigned", "Pulling", "Starting", "Running", "Terminated"}

\* The position of a state in the lifecycle.
Rank(s) ==
    CASE s = "Pending"  -> 1 [] s = "Assigned" -> 2 [] s = "Pulling" -> 3
      [] s = "Starting" -> 4 [] s = "Running"  -> 5 [] s = "Terminated" -> 6

Init == status = "Pending" /\ exit = "None"

\* The workload moves forward to a later state short of Terminated.
Advance(s) ==
    /\ s # "Terminated"
    /\ Rank(s) > Rank(status)
    /\ status' = s
    /\ UNCHANGED exit

\* The task ends, from whatever state it was in, with exit status e.
Finish(e) ==
    /\ status # "Terminated"
    /\ status' = "Terminated"
    /\ exit' = e

Next == (\E s \in Statuses : Advance(s)) \/ (\E e \in ExitValues : Finish(e))

Spec == Init /\ [][Next]_vars
=============================================================================
