------------------------------- MODULE Command -------------------------------
(***************************************************************************)
(* The command actor of master/internal/command/command.go: the task       *)
(* controller of one command, notebook, shell or tensorboard, together     *)
(* with the collaborators it talks to by asynchronous messages:            *)
(*                                                                         *)
(*   - the resource manager (RM), which grants the allocation and is told  *)
(*     when the resources are released;                                    *)
(*   - the container runtime, which reports container state changes and    *)
(*     log lines and obeys allocation.Kill;                                *)
(*   - the proxy actor, which registers and unregisters routes;            *)
(*   - the session table of the database (synchronous calls);              *)
(*   - the one-shot terminateForGC timer.                                  *)
(*                                                                         *)
(* The actor processes one message at a time: every handler is one atomic  *)
(* action.  A message between two actors travels on a FIFO channel (one    *)
(* per sender/receiver pair); messages of different senders interleave     *)
(* freely.  When a handler returns an error, or calls ctx.Self().Stop(),   *)
(* the actor framework stops the actor, delivers PostStop, and drops every *)
(* later message; the PostStop handler is folded into the same step.  The  *)
(* child event-stream actor is stopped before PostStop, so events told in  *)
(* PostStop are lost.                                                      *)
(***************************************************************************)
EXTENDS Naturals, Sequences, FiniteSets

CONSTANTS
    Checks,         \* names of the readiness checks of the command
    MaxKills,       \* bound on the Kill*Request messages a user sends
    MaxLogs,        \* bound on the log lines the container emits
    MaxAddrs,       \* bound on the addresses a running container reports
    RMSendsRelease, \* whether the RM may ask the command to release resources
    DBMayFail,      \* whether StartTaskSession / DeleteTaskSession may fail
    NotebookAddrFails \* the command is a notebook whose toNotebook fails

ASSUME BoundsAssumption ==
    /\ MaxKills \in Nat /\ MaxLogs \in Nat /\ MaxAddrs \in Nat
    /\ RMSendsRelease \in BOOLEAN /\ DBMayFail \in BOOLEAN
    /\ NotebookAddrFails \in BOOLEAN
    /\ IsFiniteSet(Checks)

VARIABLES
    \* ---- fields of the command struct (command.go:68-96) ----
    phase,                 \* actor lifecycle: "Created", "Alive", "Stopped"
    allocation,            \* c.allocation != nil
    container,             \* c.container: last reported state, or "None"
    exitStatus,            \* c.exitStatus: "None" or the exit status
    proxyNames,            \* len(c.proxyNames)
    readinessChecks,       \* keys of c.readinessChecks still unpassed
    readinessMessageSent,  \* c.readinessMessageSent
    events,                \* history told to the event stream
    \* ---- resource manager ----
    rm,          \* "Idle", "Requested", "Granted", "Released"
    fromRM,      \* RM -> command channel: "Allocated" / "Release"
    toRM,        \* ResourcesReleased messages the RM has not processed yet
    releases,    \* ResourcesReleased messages sent so far
    rmAsked,     \* the RM has sent ReleaseResources
    \* ---- container runtime ----
    ctr,         \* runtime state of the container ("None" before Start)
    fromCtr,     \* runtime -> command channel of TaskContainerStateChanged
    ctrKill,     \* an allocation.Kill is pending at the runtime
    logs,        \* log lines delivered so far
    \* ---- proxy, session store, timer, users ----
    proxyInbox,  \* command -> proxy channel: "Register" / "Unregister"
    route,       \* the proxy routes the task's service ID
    session,     \* a task session row exists for the task
    gcPending,   \* actors.NotifyAfter(terminateForGC) has been called
    kills        \* Kill*Request messages processed so far

cmdVars == <<phase, allocation, container, exitStatus, proxyNames,
             readinessChecks, readinessMessageSent, events>>
rmVars  == <<rm, fromRM, toRM, releases, rmAsked>>
ctrVars == <<ctr, fromCtr, ctrKill, logs>>
envVars == <<proxyInbox, route, session, gcPending, kills>>
vars == <<cmdVars, rmVars, ctrVars, envVars>>

-----------------------------------------------------------------------------
(* Container states of pkg/container, in the order the runtime goes       *)
(* through them; "Launching" is the runtime's state between Start and the  *)
(* first report.                                                           *)
CtrStates == {"Assigned", "Pulling", "Starting", "Running", "Terminated"}
CtrOrder == <<"Launching", "Assigned", "Pulling", "Starting", "Running">>
ActiveCtr == {"Launching", "Assigned", "Pulling", "Starting", "Running"}

CtrMsg == [state : CtrStates, addrs : 0..MaxAddrs, failed : BOOLEAN]

ExitStatuses == {"Success", "Failure", "Aborted"}

EventKinds == {"Scheduled", "Assigned", "ContainerStarted", "ServiceReady",
               "Log", "Exited"}
\* An event; a Log event carries the set of readiness checks its line passes.
Ev(k, line) == [kind |-> k, line |-> line]
Event == [kind : EventKinds, line : SUBSET Checks]

\* n copies of a proxy message
Repeat(m, n) == [i \in 1..n |-> m]

-----------------------------------------------------------------------------
Init ==
    /\ phase = "Created"
    /\ allocation = FALSE
    /\ container = "None"
    /\ exitStatus = "None"
    /\ proxyNames = 0
    /\ readinessChecks = Checks
    /\ readinessMessageSent = FALSE
    /\ events = <<>>
    /\ rm = "Idle" /\ fromRM = <<>> /\ toRM = 0 /\ releases = 0
    /\ rmAsked = FALSE
    /\ ctr = "None" /\ fromCtr = <<>> /\ ctrKill = FALSE /\ logs = 0
    /\ proxyInbox = <<>> /\ route = FALSE /\ session = FALSE
    /\ gcPending = FALSE /\ kills = 0

-----------------------------------------------------------------------------
(* Helpers of the command (command.go:308-353).                            *)

\* DeleteTaskSessionByTaskID; an error is logged and the row stays.
DeleteTaskSession ==
    IF DBMayFail THEN session' \in {FALSE, session} ELSE session' = FALSE

\* c.exit(ctx, status): record the status, tell the event stream (lost when
\* the actor is already stopping), tell the RM ResourcesReleased, arm the
\* terminateForGC timer and delete the task session (c.task is never nil).
Exit(status, live) ==
    /\ exitStatus' = status
    /\ events' = IF live THEN Append(events, Ev("Exited", {})) ELSE events
    /\ toRM' = toRM + 1
    /\ releases' = releases + 1
    /\ gcPending' = TRUE
    /\ DeleteTaskSession

\* Mutant: terminate() without the allocation.Kill of an allocated command.
TerminateWithoutKill(live) ==
    IF ~allocation
    THEN /\ Exit("Aborted", live)
         /\ UNCHANGED ctrKill
    ELSE UNCHANGED <<ctrKill, exitStatus, events, toRM, releases, gcPending,
                     session>>

\* c.terminate(ctx): abort when nothing is allocated, otherwise ask the
\* allocation to kill its container and wait for the Terminated report.
Terminate(live) ==
    IF ~allocation
    THEN /\ Exit("Aborted", live)
         /\ UNCHANGED ctrKill
    ELSE /\ ctrKill' = TRUE
         /\ UNCHANGED <<exitStatus, events, toRM, releases, gcPending, session>>

\* Mutant: names built with make([]string, len(addresses)) and appended to.
RegisterAddressesMakeLen(n) ==
    /\ proxyInbox' = proxyInbox \o Repeat("Register", n)
    /\ proxyNames' = n + n

\* Mutant: c.proxyNames reset before the Unregister loop.
UnregisterNamesAfterReset ==
    /\ proxyInbox' = proxyInbox
    /\ proxyNames' = 0

\* Mutant: readinessChecksPass reports success as soon as one check passes.
\* Mutant: readinessChecksPass evaluates every configured check on each line
\* and forgets the ones passed by earlier lines.
ReadinessLeftNoDelete(line) == Checks \ line

ReadinessLeftAnyPass(line) ==
    IF readinessChecks \cap line # {} THEN {} ELSE readinessChecks \ line

\* Running: one proxy.Register per address (keyed on the task ID), and
\* c.proxyNames gets one name per address.
RegisterAddresses(n) ==
    /\ proxyInbox' = proxyInbox \o Repeat("Register", n)
    /\ proxyNames' = n

\* Terminated: one proxy.Unregister per recorded name; c.proxyNames emptied.
UnregisterNames ==
    /\ proxyInbox' = proxyInbox \o Repeat("Unregister", proxyNames)
    /\ proxyNames' = 0

\* c.readinessChecksPass: the checks left after removing those the line
\* passes; the command is ready when none is left.
ReadinessLeft(line) == readinessChecks \ line

-----------------------------------------------------------------------------
(* Handlers of command.Receive.                                            *)

\* actor.PreStart: Ask the RM to allocate; on error the actor stops and
\* PostStop runs terminate().
PreStart ==
    /\ phase = "Created"
    /\ \/ /\ rm' = "Requested"
          /\ phase' = "Alive"
          /\ events' = <<Ev("Scheduled", {})>>
          /\ UNCHANGED <<exitStatus, toRM, releases, gcPending, session, ctrKill>>
       \/ /\ phase' = "Stopped"
          /\ Terminate(FALSE)
          /\ UNCHANGED rm
    /\ UNCHANGED <<allocation, container, proxyNames, readinessChecks,
                   readinessMessageSent, fromRM, rmAsked, ctr, fromCtr, logs,
                   proxyInbox, route, kills>>

\* Mutant: c.allocation is set before StartTaskSession is called, so
\* PostStop's terminate() kills the allocation instead of aborting.
SessionStartFailsAfterAllocation ==
    /\ DBMayFail
    /\ phase' = "Stopped"
    /\ allocation' = TRUE
    /\ ctrKill' = TRUE
    /\ UNCHANGED <<ctr, exitStatus, events, toRM, releases, gcPending, session>>

\* StartTaskSession fails: the handler returns the error before c.allocation
\* is set, the actor stops and PostStop runs terminate().
SessionStartFails ==
    /\ DBMayFail
    /\ phase' = "Stopped"
    /\ Terminate(FALSE)
    /\ UNCHANGED <<allocation, ctr>>

\* sproto.ResourcesAllocated (receiveSchedulerMsg).  The RM answers the
\* request this command made, so msg.ID = c.task.ID, and c.task is never
\* reset to nil: the stale-allocation guard never fires.  Start a session,
\* record the allocation and start the container; when StartTaskSession
\* fails the handler returns an error and the actor stops.
ReceiveAllocated ==
    /\ phase = "Alive"
    /\ fromRM # <<>> /\ Head(fromRM) = "Allocated"
    /\ fromRM' = Tail(fromRM)
    /\ \/ /\ session' = TRUE
          /\ allocation' = TRUE
          /\ ctr' = "Launching"
          /\ events' = Append(events, Ev("Assigned", {}))
          /\ UNCHANGED <<phase, exitStatus, toRM, releases, gcPending, ctrKill>>
       \/ SessionStartFails
    /\ UNCHANGED <<container, proxyNames, readinessChecks, readinessMessageSent,
                   rm, rmAsked, fromCtr, logs, proxyInbox, route, kills>>

\* sproto.ReleaseResources has no case in Receive: it reaches the default
\* case, ErrUnexpectedMessage stops the actor, and PostStop terminates.
ReceiveRelease ==
    /\ phase = "Alive"
    /\ fromRM # <<>> /\ Head(fromRM) = "Release"
    /\ fromRM' = Tail(fromRM)
    /\ phase' = "Stopped"
    /\ Terminate(FALSE)
    /\ UNCHANGED <<allocation, container, proxyNames, readinessChecks,
                   readinessMessageSent, rm, rmAsked, ctr, fromCtr, logs,
                   proxyInbox, route, kills>>

\* Kill{Notebook,Command,Shell,Tensorboard}Request: terminate().  A
\* KillNotebookRequest first renders the notebook; when toNotebook fails
\* (generateServiceAddress) the error is only logged and nothing is killed.
Kill ==
    /\ phase = "Alive"
    /\ kills < MaxKills
    /\ kills' = kills + 1
    /\ \/ ~NotebookAddrFails /\ Terminate(TRUE)
       \/ /\ NotebookAddrFails
          /\ UNCHANGED <<exitStatus, events, toRM, releases, gcPending, session,
                         ctrKill>>
    /\ UNCHANGED <<phase, allocation, container, proxyNames, readinessChecks,
                   readinessMessageSent, rm, fromRM, rmAsked, ctr, fromCtr,
                   logs, proxyInbox, route>>


\* sproto.TaskContainerStateChanged: record the state; on Running register
\* one proxy route per address and announce the start; on Terminated
\* unregister every route and exit with the container's status.
ReceiveContainerState ==
    /\ phase = "Alive"
    /\ fromCtr # <<>>
    /\ fromCtr' = Tail(fromCtr)
    /\ container' = Head(fromCtr).state
    /\ \/ /\ Head(fromCtr).state = "Running"
          /\ RegisterAddresses(Head(fromCtr).addrs)
          /\ events' = Append(events, Ev("ContainerStarted", {}))
          /\ UNCHANGED <<exitStatus, toRM, releases, gcPending, session>>
       \/ /\ Head(fromCtr).state = "Terminated"
          /\ UnregisterNames
          /\ Exit(IF Head(fromCtr).failed THEN "Failure" ELSE "Success", TRUE)
       \/ /\ Head(fromCtr).state \notin {"Running", "Terminated"}
          /\ UNCHANGED <<proxyInbox, proxyNames, events, exitStatus, toRM,
                         releases, gcPending, session>>
    /\ UNCHANGED <<phase, allocation, readinessChecks, readinessMessageSent,
                   rm, fromRM, rmAsked, ctr, ctrKill, logs, route, kills>>

\* sproto.ContainerLog: a line that passes the checks in `line`.  Until the
\* ready event is sent, evaluate the remaining checks (removing the passed
\* ones) and send ServiceReady once none is left; always log the line.  A
\* line the container wrote may still be in flight after it terminated.
ReceiveLog ==
    /\ phase = "Alive"
    /\ ctr # "None"
    /\ logs < MaxLogs
    /\ logs' = logs + 1
    /\ \E line \in SUBSET Checks :
         IF ~readinessMessageSent /\ ReadinessLeft(line) = {}
         THEN /\ readinessChecks' = {}
              /\ readinessMessageSent' = TRUE
              /\ events' = events \o <<Ev("ServiceReady", {}), Ev("Log", line)>>
         ELSE /\ readinessChecks' = IF readinessMessageSent THEN readinessChecks
                                                           ELSE ReadinessLeft(line)
              /\ events' = Append(events, Ev("Log", line))
              /\ UNCHANGED readinessMessageSent
    /\ UNCHANGED <<phase, allocation, container, exitStatus, proxyNames,
                   rmVars, ctr, fromCtr, ctrKill, proxyInbox, route, session,
                   gcPending, kills>>

\* terminateForGC: ctx.Self().Stop(); PostStop runs terminate().
TerminateForGC ==
    /\ phase = "Alive"
    /\ gcPending
    /\ phase' = "Stopped"
    /\ Terminate(FALSE)
    /\ UNCHANGED <<allocation, container, proxyNames, readinessChecks,
                   readinessMessageSent, rm, fromRM, rmAsked, ctr, fromCtr,
                   logs, proxyInbox, route, kills>>

-----------------------------------------------------------------------------
(* The resource manager.                                                   *)

\* The RM grants the outstanding request (at most once).
RMAllocate ==
    /\ rm = "Requested"
    /\ rm' = "Granted"
    /\ fromRM' = Append(fromRM, "Allocated")
    /\ UNCHANGED <<cmdVars, toRM, releases, rmAsked, ctrVars, envVars>>

\* The RM processes ResourcesReleased: the task's resources are reclaimed
\* and a request not yet granted is dropped.
RMProcessRelease ==
    /\ toRM > 0
    /\ toRM' = toRM - 1
    /\ rm' = "Released"
    /\ UNCHANGED <<cmdVars, fromRM, releases, rmAsked, ctrVars, envVars>>

\* The RM asks the task holding resources to release them.
RMAskRelease ==
    /\ RMSendsRelease
    /\ rm = "Granted" /\ ~rmAsked
    /\ rmAsked' = TRUE
    /\ fromRM' = Append(fromRM, "Release")
    /\ UNCHANGED <<cmdVars, rm, toRM, releases, ctrVars, envVars>>

-----------------------------------------------------------------------------
(* The container runtime.                                                  *)

\* The container moves to its next state; a running container reports
\* its addresses.
CtrAdvance ==
    /\ \E i \in 1..4 : ctr = CtrOrder[i] /\ ctr' = CtrOrder[i + 1]
    /\ \E n \in 0..MaxAddrs :
         fromCtr' = Append(fromCtr, [state |-> ctr', addrs |-> n,
                                     failed |-> FALSE])
    /\ UNCHANGED <<cmdVars, rmVars, ctrKill, logs, envVars>>

\* The container exits by itself: successfully only once it runs.
CtrExit ==
    /\ ctr \in ActiveCtr
    /\ ctr' = "Terminated"
    /\ \E failed \in IF ctr = "Running" THEN BOOLEAN ELSE {TRUE} :
         fromCtr' = Append(fromCtr, [state |-> "Terminated", addrs |-> 0,
                                     failed |-> failed])
    /\ UNCHANGED <<cmdVars, rmVars, ctrKill, logs, envVars>>

\* The runtime carries out allocation.Kill; a container that is already
\* gone ignores it.
CtrKilled ==
    /\ ctrKill
    /\ ctrKill' = FALSE
    /\ IF ctr \in ActiveCtr
       THEN /\ ctr' = "Terminated"
            /\ fromCtr' = Append(fromCtr, [state |-> "Terminated", addrs |-> 0,
                                           failed |-> TRUE])
       ELSE UNCHANGED <<ctr, fromCtr>>
    /\ UNCHANGED <<cmdVars, rmVars, logs, envVars>>

-----------------------------------------------------------------------------
(* The proxy actor processes Register / Unregister in order; every route  *)
(* of the command is keyed on its task ID.                                 *)
ProxyReceive ==
    /\ proxyInbox # <<>>
    /\ route' = (Head(proxyInbox) = "Register")
    /\ proxyInbox' = Tail(proxyInbox)
    /\ UNCHANGED <<cmdVars, rmVars, ctrVars, session, gcPending, kills>>

-----------------------------------------------------------------------------
Command ==
    \/ PreStart \/ ReceiveAllocated \/ ReceiveRelease \/ Kill
    \/ ReceiveContainerState \/ ReceiveLog \/ TerminateForGC

Environment ==
    \/ RMAllocate \/ RMProcessRelease \/ RMAskRelease
    \/ CtrAdvance \/ CtrExit \/ CtrKilled \/ ProxyReceive

Next == Command \/ Environment

(* The actor drains its mailbox, the RM processes its messages, the agent *)
(* carries out kills, the proxy processes its messages and the 24h timer  *)
(* fires: all weakly fair.  Users, the RM's grants and the container's    *)
(* own progress are not.                                                   *)
Fairness ==
    /\ WF_vars(PreStart)
    /\ WF_vars(ReceiveAllocated) /\ WF_vars(ReceiveRelease)
    /\ WF_vars(ReceiveContainerState) /\ WF_vars(TerminateForGC)
    /\ WF_vars(RMProcessRelease) /\ WF_vars(CtrKilled) /\ WF_vars(ProxyReceive)

Spec == Init /\ [][Next]_vars /\ Fairness

-----------------------------------------------------------------------------
\* Mutant: State() without its c.exitStatus case: an aborted command is
\* reported Pending.
StateIgnoringExit == IF container # "None" THEN container ELSE "Pending"

(* Command.State (command.go:357-377): the container's state when one was *)
(* reported, else Terminated once exited, else Pending.                    *)
State == IF container # "None" THEN container
         ELSE IF exitStatus # "None" THEN "Terminated" ELSE "Pending"

-----------------------------------------------------------------------------
(* Properties.                                                             *)

TypeOK ==
    /\ phase \in {"Created", "Alive", "Stopped"}
    /\ allocation \in BOOLEAN
    /\ container \in CtrStates \cup {"None"}
    /\ exitStatus \in ExitStatuses \cup {"None"}
    /\ proxyNames \in 0..MaxAddrs
    /\ readinessChecks \subseteq Checks
    /\ readinessMessageSent \in BOOLEAN
    /\ events \in Seq(Event)
    /\ rm \in {"Idle", "Requested", "Granted", "Released"}
    /\ fromRM \in Seq({"Allocated", "Release"})
    /\ toRM \in Nat /\ releases \in Nat
    /\ rmAsked \in BOOLEAN
    /\ ctr \in ActiveCtr \cup {"None", "Terminated"}
    /\ fromCtr \in Seq(CtrMsg)
    /\ ctrKill \in BOOLEAN
    /\ logs \in 0..MaxLogs
    /\ proxyInbox \in Seq({"Register", "Unregister"})
    /\ route \in BOOLEAN /\ session \in BOOLEAN /\ gcPending \in BOOLEAN
    /\ kills \in 0..MaxKills

\* The readiness checks passed by the log lines in events[1..i].
LinesPassedUpTo(i) ==
    UNION {events[j].line : j \in {j \in 1..i : events[j].kind = "Log"}}
ReadyAt == {i \in 1..Len(events) : events[i].kind = "ServiceReady"}

(* Readiness (command.go:248-254, 345-353) is exact whatever the order of  *)
(* the log lines: the ServiceReady event is published at most once, it is  *)
(* published together with the first log line by which every readiness   *)
(* check has been passed by some line, and never before.                  *)
ReadinessExact ==
    /\ Cardinality(ReadyAt) <= 1
    /\ \A i \in ReadyAt :
         /\ i < Len(events) /\ events[i + 1].kind = "Log"
         /\ Checks \subseteq LinesPassedUpTo(i + 1)
    /\ \A i \in 1..Len(events) :
         (events[i].kind = "Log" /\ Checks \subseteq LinesPassedUpTo(i))
            => \E r \in ReadyAt : r < i

\* The status surface seen through the lifecycle of the specification:
\* State() is the state a snapshot reports, c.exitStatus its exit status.
StatusView == INSTANCE CommandStatus WITH
    status <- State,
    exit <- exitStatus,
    ExitValues <- ExitStatuses

(* The status a snapshot reports (command.State, command.go:355-377, and  *)
(* the exit status of toCommand and the other renderings) follows the    *)
(* specification's lifecycle: it only moves forward, reaches Terminated  *)
(* exactly when exit() records the exit status, and that status is final, *)
(* whatever the order in which grants, kills and container reports reach  *)
(* the actor.                                                            *)
StatusRefined == StatusView!Spec

\* The readiness evaluator seen through the abstract Readiness module: the
\* checks passed so far are those of the Log events published, and the
\* announcements are the ServiceReady events.
ReadyView == INSTANCE Readiness WITH
    passed <- LinesPassedUpTo(Len(events)),
    announced <- readinessMessageSent,
    told <- Cardinality(ReadyAt)

(* The ContainerLog handler and readinessChecksPass (command.go:248-254,  *)
(* 345-353) implement the Readiness specification: every handled log     *)
(* line is one Observe step of it, deleting passed checks from the map    *)
(* and testing the flag before the emptiness of the map announce the      *)
(* service exactly at the line that completes the passed checks, and no   *)
(* other handler touches the checks, the flag or the announcements.       *)
ReadinessRefined == ReadyView!Spec

(* No stale proxy route (command.go:211-238): once the command has seen    *)
(* its container terminate and the proxy has drained its mailbox, the     *)
(* proxy no longer routes the task, although Register is an Ask and        *)
(* Unregister a Tell issued from two different handlers.                   *)
NoStaleRoute ==
    (container = "Terminated" /\ proxyInbox = <<>>) => ~route

(* Every way the command actor stops has told the RM ResourcesReleased    *)
(* (command.go:332): a failed Ask in PreStart, a failed StartTaskSession    *)
(* after the grant (command.go:277-280, where terminate() must see no      *)
(* allocation and abort) and the terminateForGC timer, which is armed only *)
(* by exit().  No stopped command keeps its claim on the RM.               *)
StoppedReleased == phase = "Stopped" => releases > 0

(* Kill of an allocated command forwards a kill to the allocation and     *)
(* waits for the container's Terminated report (command.go:316-321): every *)
(* processed kill is eventually followed by an exit status.               *)
KillLeadsToExit == (kills > 0) ~> (exitStatus # "None")

(* The spec (section 8): two kills produce exactly one Exited event and   *)
(* one ResourcesReleased message to the RM.                               *)
ExitedOnce ==
    /\ Cardinality({i \in 1..Len(events) : events[i].kind = "Exited"}) <= 1
    /\ releases <= 1

(* The spec (section 4.1): the allocation check exists so that no         *)
(* container is started for a command that has already exited.            *)
NoZombieStart ==
    [][(ctr = "None" /\ ctr' # "None") => exitStatus = "None"]_vars

(* The spec (section 4.1): the proxy routes are unregistered before the   *)
(* resources are released, so that no proxy routes traffic to a container *)
(* the RM has been told it may reclaim.  The code Tells proxy.Unregister   *)
(* (command.go:236) before ResourcesReleased (command.go:332), but to two  *)
(* different actors.                                                       *)
RouteGoneBeforeReclaim == rm = "Released" => ~route

(* terminate() (command.go:312-314) expects the RM's ReleaseResources: a   *)
(* release request is eventually answered by ResourcesReleased.            *)
ReleaseRequestHonoured == rmAsked ~> (releases > 0)

=============================================================================
