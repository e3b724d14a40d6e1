------------------------------- MODULE GCJob -------------------------------
(***************************************************************************)
(* What the GC task controller promises (spec section 4.2): it waits for  *)
(* its allocation, runs its one-shot job with a task session open, ignores *)
(* the scheduler while the job runs, and stops only once the job has       *)
(* finished, closing the session; a failure before the job starts stops   *)
(* it at once.                                                             *)
(***************************************************************************)

VARIABLES
    stage,    \* "Waiting" for the allocation, "Running" the job, "Stopped"
    session,  \* the task session is open
    jobDone   \* the job has run to completion

vars == <<stage, session, jobDone>>

Init == stage = "Waiting" /\ session = FALSE /\ jobDone = FALSE

\* The allocation arrives: the session is opened and the job launched.
Start ==
    /\ stage = "Waiting"
    /\ stage' = "Running" /\ session' = TRUE
    /\ UNCHANGED jobDone

\* The job runs to completion.
Finish ==
    /\ stage = "Running" /\ ~jobDone
    /\ jobDone' = TRUE
    /\ UNCHANGED <<stage, session>>

\* A failure before the job starts stops the controller.
Abort ==
    /\ stage = "Waiting"
    /\ stage' = "Stopped" /\ session' = FALSE
    /\ UNCHANGED jobDone

\* After the job finished, the controller stops and closes the session.
Stop ==
    /\ stage = "Running" /\ jobDone
    /\ stage' = "Stopped" /\ session' = FALSE
    /\ UNCHANGED jobDone

Next == Start \/ Finish \/ Abort \/ Stop

Spec == Init /\ [][Next]_vars

=============================================================================
