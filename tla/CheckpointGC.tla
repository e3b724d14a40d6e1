----------------------------- MODULE CheckpointGC -----------------------------
(***************************************************************************)
(* The checkpoint garbage-collection task actor (checkpointGCTask,          *)
(* src/unnamed/part_000): it requests resources from the RM, opens a task  *)
(* session, starts one GC container per allocation it receives, ignores    *)
(* the RM's ReleaseResources, and stops itself on the first Terminated      *)
(* report of a container; PostStop deletes the task session.               *)
(*                                                                         *)
(* As in the Command module, every handler is one atomic step of the      *)
(* actor, messages of one sender arrive in order, and a stopped actor      *)
(* receives nothing more.  A handler that returns an error stops the       *)
(* actor, and PostStop runs in the same step.                              *)
(***************************************************************************)
EXTENDS Naturals, Sequences

CONSTANTS
    MaxAllocs,      \* most allocations the RM grants in one ResourcesAllocated
    MaxGCLogs,      \* bound on the log lines the GC containers emit
    RMSendsRelease, \* whether the RM may send ReleaseResources
    DBMayFail,      \* whether StartTaskSession / ExperimentCheckpointsToGCRaw fail
    DeleteMayFail   \* whether DeleteTaskSessionByTaskID fails

ASSUME GCAssumption ==
    /\ MaxAllocs \in Nat \ {0} /\ MaxGCLogs \in Nat
    /\ RMSendsRelease \in BOOLEAN /\ DBMayFail \in BOOLEAN
    /\ DeleteMayFail \in BOOLEAN

Allocs == 1..MaxAllocs

VARIABLES
    phase,    \* actor lifecycle: "Created", "Alive", "Stopped"
    task,     \* t.task != nil
    logs,     \* len(t.logs)
    session,  \* a task session row exists for the GC task
    rm,       \* the RM: "Idle", "Requested", "Granted"
    rmAsked,  \* the RM has sent ReleaseResources
    fromRM,   \* RM -> task channel of ResourcesAllocated / ReleaseResources
    ctrs,     \* ctrs[a]: the container of allocation a
    fromCtr   \* runtime -> task channel of TaskContainerStateChanged

vars == <<phase, task, logs, session, rm, rmAsked, fromRM, ctrs, fromCtr>>

\* A message of the RM: ResourcesAllocated with n allocations, or a release.
RMMsg == [kind : {"Allocated"}, n : Allocs] \cup [kind : {"Release"}]
\* A container report: the allocation, whether it is Terminated, whether
\* ContainerStopped carries a failure.
CtrMsg == [alloc : Allocs, terminated : BOOLEAN, failed : BOOLEAN]
CtrStates == {"None", "Starting", "Running", "Terminated"}

Started == {a \in Allocs : ctrs[a] # "None"}

Init ==
    /\ phase = "Created"
    /\ task = FALSE
    /\ logs = 0
    /\ session = FALSE
    /\ rm = "Idle" /\ rmAsked = FALSE /\ fromRM = <<>>
    /\ ctrs = [a \in Allocs |-> "None"]
    /\ fromCtr = <<>>

-----------------------------------------------------------------------------
\* Mutant: PostStop forgets the session.
DeleteSessionNever(had) == session' = had

\* PostStop of a task whose session row is `had`: when t.task is set,
\* DeleteTaskSessionByTaskID(t.task.ID); an error is only logged.
DeleteSession(had) ==
    IF ~task THEN session' = had
    ELSE IF DeleteMayFail THEN session' \in {FALSE, had}
    ELSE session' = FALSE

\* PreStart: build the request and Tell it to the RM (no error path).
PreStart ==
    /\ phase = "Created"
    /\ phase' = "Alive"
    /\ task' = TRUE
    /\ rm' = "Requested"
    /\ UNCHANGED <<logs, session, rmAsked, fromRM, ctrs, fromCtr>>

\* Mutant: the loop over msg.Allocations is off by one.
StartAllOffByOne(n) ==
    ctrs' = [a \in 0..n |-> IF a \in DOMAIN ctrs THEN "Starting" ELSE "None"]

\* Start the containers of allocations 1..n.
StartAll(n) == ctrs' = [a \in Allocs |-> IF a <= n THEN "Starting" ELSE ctrs[a]]

\* ResourcesAllocated: StartTaskSession (keyed by msg.ID, which is the
\* request's ID), ExperimentCheckpointsToGCRaw, then one a.Start per
\* allocation.  Either call failing returns an error: the actor stops and
\* PostStop deletes the session keyed by t.task.ID.
ReceiveAllocated ==
    /\ phase = "Alive"
    /\ fromRM # <<>> /\ Head(fromRM).kind = "Allocated"
    /\ fromRM' = Tail(fromRM)
    /\ \/ /\ session' = TRUE
          /\ StartAll(Head(fromRM).n)
          /\ UNCHANGED phase
       \/ /\ DBMayFail
          /\ phase' = "Stopped"
          /\ \E opened \in BOOLEAN :     \* did StartTaskSession succeed?
               DeleteSession(opened)
          /\ UNCHANGED ctrs
    /\ UNCHANGED <<task, logs, rm, rmAsked, fromCtr>>

\* ReleaseResources: ignored, the task waits for the GC job to finish.
ReceiveRelease ==
    /\ phase = "Alive"
    /\ fromRM # <<>> /\ Head(fromRM).kind = "Release"
    /\ fromRM' = Tail(fromRM)
    /\ UNCHANGED <<phase, task, logs, session, rm, rmAsked, ctrs, fromCtr>>

\* Mutant: the task stops only when the GC job failed.
StopsOnReportOnlyFailed(m) == m.terminated /\ m.failed

\* Mutant: the Terminated check is dropped; any report stops the task.
StopsOnReportAny(m) == m \in CtrMsg

\* Whether a TaskContainerStateChanged report stops the task.
StopsOnReport(m) == m.terminated

\* TaskContainerStateChanged: return unless Terminated; log the outcome
\* (and the buffered logs on failure), then ctx.Self().Stop(): PostStop
\* deletes the session.
ReceiveContainerState ==
    /\ phase = "Alive"
    /\ fromCtr # <<>>
    /\ fromCtr' = Tail(fromCtr)
    /\ IF StopsOnReport(Head(fromCtr))
       THEN phase' = "Stopped" /\ DeleteSession(session)
       ELSE UNCHANGED <<phase, session>>
    /\ UNCHANGED <<task, logs, rm, rmAsked, fromRM, ctrs>>

\* ContainerLog: append to t.logs (no bound in the code).
ReceiveLog ==
    /\ phase = "Alive"
    /\ Started # {}
    /\ logs < MaxGCLogs
    /\ logs' = logs + 1
    /\ UNCHANGED <<phase, task, session, rm, rmAsked, fromRM, ctrs, fromCtr>>

-----------------------------------------------------------------------------
(* The RM and the container runtime.                                       *)

\* The RM grants the request once, with one or more allocations.
RMAllocate ==
    /\ rm = "Requested"
    /\ rm' = "Granted"
    /\ \E n \in Allocs : fromRM' = Append(fromRM, [kind |-> "Allocated", n |-> n])
    /\ UNCHANGED <<phase, task, logs, session, rmAsked, ctrs, fromCtr>>

\* The RM asks the task to release its resources (once).
RMAskRelease ==
    /\ RMSendsRelease /\ rm = "Granted" /\ ~rmAsked
    /\ rmAsked' = TRUE
    /\ fromRM' = Append(fromRM, [kind |-> "Release"])
    /\ UNCHANGED <<phase, task, logs, session, rm, ctrs, fromCtr>>

\* A started GC container reports that it runs.
CtrRun(a) ==
    /\ ctrs[a] = "Starting"
    /\ ctrs' = [ctrs EXCEPT ![a] = "Running"]
    /\ fromCtr' = Append(fromCtr, [alloc |-> a, terminated |-> FALSE,
                                   failed |-> FALSE])
    /\ UNCHANGED <<phase, task, logs, session, rm, rmAsked, fromRM>>

\* A GC container exits, with or without a failure.
CtrExit(a) ==
    /\ ctrs[a] \in {"Starting", "Running"}
    /\ ctrs' = [ctrs EXCEPT ![a] = "Terminated"]
    /\ \E failed \in BOOLEAN :
         fromCtr' = Append(fromCtr, [alloc |-> a, terminated |-> TRUE,
                                     failed |-> failed])
    /\ UNCHANGED <<phase, task, logs, session, rm, rmAsked, fromRM>>

-----------------------------------------------------------------------------
Task ==
    \/ PreStart \/ ReceiveAllocated \/ ReceiveRelease
    \/ ReceiveContainerState \/ ReceiveLog

Environment ==
    \/ RMAllocate \/ RMAskRelease
    \/ \E a \in Allocs : CtrRun(a) \/ CtrExit(a)

Next == Task \/ Environment

(* The actor drains its mailbox; a GC job runs to completion, so every    *)
(* started container eventually exits.  The RM's grant is not assumed.    *)
Fairness ==
    /\ WF_vars(PreStart) /\ WF_vars(ReceiveAllocated)
    /\ WF_vars(ReceiveRelease) /\ WF_vars(ReceiveContainerState)
    /\ \A a \in Allocs : WF_vars(CtrExit(a))

Spec == Init /\ [][Next]_vars /\ Fairness

-----------------------------------------------------------------------------
(* Properties.                                                             *)

TypeOK ==
    /\ phase \in {"Created", "Alive", "Stopped"}
    /\ task \in BOOLEAN
    /\ logs \in 0..MaxGCLogs
    /\ session \in BOOLEAN
    /\ rm \in {"Idle", "Requested", "Granted"}
    /\ rmAsked \in BOOLEAN
    /\ fromRM \in Seq(RMMsg)
    /\ ctrs \in [Allocs -> CtrStates]
    /\ fromCtr \in Seq(CtrMsg)

(* The task session (part_000:46, 100-105) exists exactly while the task  *)
(* is alive and has started its GC containers: it is opened only with the *)
(* allocation, and every way the actor stops (a DB error in the            *)
(* allocation handler, the container's Terminated report) deletes it.     *)
SessionLifecycle == session <=> (phase = "Alive" /\ Started # {})

(* The task waits for the GC job to finish (part_000:79): when it stops,  *)
(* no GC container it started is still running.                           *)
StopsAfterJob == phase = "Stopped" => \A a \in Started : ctrs[a] = "Terminated"

\* The task seen through what the GC controller promises: it waits for its
\* allocation until a container is started, then runs the job, which is
\* done when every started container has terminated.
JobStage ==
    IF phase = "Stopped" THEN "Stopped"
    ELSE IF Started # {} THEN "Running" ELSE "Waiting"

JobDone == Started # {} /\ \A a \in Started : ctrs[a] = "Terminated"

JobView == INSTANCE GCJob WITH stage <- JobStage, jobDone <- JobDone

(* The GC task (part_000:35-105) implements the abstract GC controller:    *)
(* the allocation handler opens the session and starts the job, or stops  *)
(* the task on a DB error before any container is started; the task       *)
(* ignores ReleaseResources and stops on a Terminated report only after   *)
(* the job is done, and PostStop closes the session.                      *)
GCRefined == JobView!Spec

(* Once it has started its GC containers the task eventually stops          *)
(* (part_000:81-95), whatever the RM sends (ReleaseResources is ignored).  *)
StartedLeadsToStop == (Started # {}) ~> (phase = "Stopped")

=============================================================================
