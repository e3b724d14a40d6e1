--------------------------- MODULE Command_proofs ---------------------------
(***************************************************************************)
(* Proofs about the command actor model, for every value of the constants *)
(* that satisfies BoundsAssumption.                                        *)
(***************************************************************************)
EXTENDS Command, TLAPS

USE BoundsAssumption DEF cmdVars, rmVars, ctrVars, envVars


(* The variables exit() and terminate() assign stay in their types.       *)
TerminateVarsOK ==
    /\ exitStatus' \in ExitStatuses \cup {"None"}
    /\ events' \in Seq(Event)
    /\ toRM' \in Nat /\ releases' \in Nat
    /\ gcPending' \in BOOLEAN /\ session' \in BOOLEAN
    /\ ctrKill' \in BOOLEAN

LEMMA TerminateType ==
    ASSUME TypeOK, NEW live \in BOOLEAN, Terminate(live)
    PROVE  TerminateVarsOK
<1>1. CASE ~allocation
  <2>1. Exit("Aborted", live) /\ ctrKill' = ctrKill
    BY <1>1 DEF Terminate
  <2>2. session' \in BOOLEAN
    BY <2>1 DEF Exit, DeleteTaskSession, TypeOK
  <2>3. events' \in Seq(Event)
    <3>1. CASE live
      BY <2>1, <3>1 DEF Exit, TypeOK, Ev, Event, EventKinds
    <3>2. CASE ~live
      BY <2>1, <3>2 DEF Exit, TypeOK
    <3>. QED
      BY <3>1, <3>2
  <2>. QED
    BY <2>1, <2>2, <2>3 DEF Exit, TypeOK, ExitStatuses, TerminateVarsOK
<1>2. CASE allocation
  BY <1>2 DEF Terminate, TypeOK, TerminateVarsOK
<1>. QED
  BY <1>1, <1>2

(* Each action keeps TypeOK; one lemma per action.  Each case first       *)
(* extracts the assignments of its branch, then checks their types.       *)
LEMMA PreStartType == TypeOK /\ PreStart => TypeOK'
<1> SUFFICES ASSUME TypeOK, PreStart PROVE TypeOK'
  OBVIOUS
<1>1. CASE phase' = "Alive"
  <2>1. /\ rm' = "Requested" /\ events' = <<Ev("Scheduled", {})>>
        /\ UNCHANGED <<exitStatus, toRM, releases, gcPending, session, ctrKill>>
    BY <1>1 DEF PreStart
  <2>. QED
    BY <1>1, <2>1 DEF PreStart, TypeOK, Ev, Event, EventKinds
<1>2. CASE phase' = "Stopped"
  <2>1. Terminate(FALSE) /\ UNCHANGED rm
    BY <1>2 DEF PreStart
  <2>2. TerminateVarsOK
    BY <2>1, TerminateType
  <2>. QED
    BY <1>2, <2>1, <2>2 DEF PreStart, TypeOK, TerminateVarsOK
<1>. QED
  BY <1>1, <1>2 DEF PreStart

LEMMA ReceiveAllocatedType == TypeOK /\ ReceiveAllocated => TypeOK'
<1> SUFFICES ASSUME TypeOK, ReceiveAllocated PROVE TypeOK'
  OBVIOUS
<1>1. CASE phase' = "Alive"
  <2>1. /\ session' = TRUE /\ allocation' = TRUE /\ ctr' = "Launching"
        /\ events' = Append(events, Ev("Assigned", {}))
        /\ UNCHANGED <<exitStatus, toRM, releases, gcPending, ctrKill>>
    BY <1>1 DEF ReceiveAllocated, SessionStartFails
  <2>. QED
    BY <1>1, <2>1 DEF ReceiveAllocated, TypeOK, Ev, Event, EventKinds, ActiveCtr
<1>2. CASE phase' = "Stopped"
  <2>1. Terminate(FALSE) /\ UNCHANGED <<allocation, ctr>>
    BY <1>2 DEF ReceiveAllocated, SessionStartFails
  <2>2. TerminateVarsOK
    BY <2>1, TerminateType
  <2>. QED
    BY <1>2, <2>1, <2>2 DEF ReceiveAllocated, TypeOK, TerminateVarsOK
<1>. QED
  BY <1>1, <1>2 DEF ReceiveAllocated, SessionStartFails

LEMMA ReceiveReleaseType == TypeOK /\ ReceiveRelease => TypeOK'
<1> SUFFICES ASSUME TypeOK, ReceiveRelease PROVE TypeOK'
  OBVIOUS
<1>1. Terminate(FALSE)
  BY DEF ReceiveRelease
<1>2. TerminateVarsOK
  BY <1>1, TerminateType
<1>. QED
  BY <1>1, <1>2 DEF ReceiveRelease, TypeOK, TerminateVarsOK

LEMMA KillType == TypeOK /\ Kill => TypeOK'
<1> SUFFICES ASSUME TypeOK, Kill PROVE TypeOK'
  OBVIOUS
<1>1. kills' \in 0..MaxKills
  BY DEF Kill, TypeOK
<1>2. CASE ~NotebookAddrFails
  <2>1. Terminate(TRUE)
    BY <1>2 DEF Kill
  <2>2. TerminateVarsOK
    BY <2>1, TerminateType
  <2>. QED
    BY <1>1, <2>1, <2>2 DEF Kill, TypeOK, TerminateVarsOK
<1>3. CASE NotebookAddrFails
  BY <1>1, <1>3 DEF Kill, TypeOK
<1>. QED
  BY <1>2, <1>3

LEMMA ReceiveContainerStateType == TypeOK /\ ReceiveContainerState => TypeOK'
<1> SUFFICES ASSUME TypeOK, ReceiveContainerState PROVE TypeOK'
  OBVIOUS
<1> DEFINE m == Head(fromCtr)
<1>1. m \in CtrMsg /\ fromCtr' \in Seq(CtrMsg)
  BY DEF ReceiveContainerState, TypeOK
<1>2. container' \in CtrStates \cup {"None"}
  BY <1>1 DEF ReceiveContainerState, CtrMsg
<1>3. CASE m.state = "Running"
  <2>1. /\ proxyInbox' = proxyInbox \o Repeat("Register", m.addrs)
        /\ proxyNames' = m.addrs
        /\ events' = Append(events, Ev("ContainerStarted", {}))
        /\ UNCHANGED <<exitStatus, toRM, releases, gcPending, session>>
    BY <1>3 DEF ReceiveContainerState, RegisterAddresses
  <2>2. Repeat("Register", m.addrs) \in Seq({"Register", "Unregister"})
    BY <1>1 DEF CtrMsg, Repeat
  <2>. QED
    BY <1>1, <1>2, <2>1, <2>2
       DEF ReceiveContainerState, TypeOK, CtrMsg, Ev, Event, EventKinds
<1>4. CASE m.state = "Terminated"
  <2>1. /\ proxyInbox' = proxyInbox \o Repeat("Unregister", proxyNames)
        /\ proxyNames' = 0
        /\ Exit(IF m.failed THEN "Failure" ELSE "Success", TRUE)
    BY <1>4 DEF ReceiveContainerState, UnregisterNames
  <2>2. Repeat("Unregister", proxyNames) \in Seq({"Register", "Unregister"})
    BY DEF TypeOK, Repeat
  <2>3. events' \in Seq(Event)
    BY <2>1 DEF Exit, TypeOK, Ev, Event, EventKinds
  <2>4. session' \in BOOLEAN
    BY <2>1 DEF Exit, DeleteTaskSession, TypeOK
  <2>. QED
    BY <1>1, <1>2, <2>1, <2>2, <2>3, <2>4
       DEF ReceiveContainerState, Exit, TypeOK, ExitStatuses
<1>5. CASE m.state \notin {"Running", "Terminated"}
  <2>1. UNCHANGED <<proxyInbox, proxyNames, events, exitStatus, toRM,
                   releases, gcPending, session>>
    BY <1>5 DEF ReceiveContainerState
  <2>. QED
    BY <1>1, <1>2, <2>1 DEF ReceiveContainerState, TypeOK
<1>. QED
  BY <1>3, <1>4, <1>5

LEMMA ReceiveLogType == TypeOK /\ ReceiveLog => TypeOK'
<1> SUFFICES ASSUME TypeOK, ReceiveLog PROVE TypeOK'
  OBVIOUS
<1>1. PICK line \in SUBSET Checks :
        IF ~readinessMessageSent /\ ReadinessLeft(line) = {}
        THEN /\ readinessChecks' = {}
             /\ readinessMessageSent' = TRUE
             /\ events' = events \o <<Ev("ServiceReady", {}), Ev("Log", line)>>
        ELSE /\ readinessChecks' = IF readinessMessageSent THEN readinessChecks
                                                          ELSE ReadinessLeft(line)
             /\ events' = Append(events, Ev("Log", line))
             /\ UNCHANGED readinessMessageSent
  BY DEF ReceiveLog
<1> DEFINE ready == ~readinessMessageSent /\ ReadinessLeft(line) = {}
<1>2. CASE ready
  <2>1. /\ readinessChecks' = {} /\ readinessMessageSent' = TRUE
        /\ events' = events \o <<Ev("ServiceReady", {}), Ev("Log", line)>>
    BY <1>1, <1>2, Zenon
  <2>2. events' \in Seq(Event)
    BY <2>1 DEF TypeOK, Ev, Event, EventKinds
  <2>. QED
    BY <2>1, <2>2 DEF ReceiveLog, TypeOK
<1>3. CASE ~ready
  <2>1. /\ readinessChecks' = IF readinessMessageSent THEN readinessChecks
                                                      ELSE ReadinessLeft(line)
        /\ events' = Append(events, Ev("Log", line))
        /\ readinessMessageSent' = readinessMessageSent
    BY <1>1, <1>3, Zenon
  <2>2. readinessChecks' \subseteq Checks
    BY <2>1 DEF ReadinessLeft, TypeOK
  <2>3. events' \in Seq(Event)
    BY <2>1 DEF TypeOK, Ev, Event, EventKinds
  <2>. QED
    BY <2>1, <2>2, <2>3 DEF ReceiveLog, TypeOK
<1>. QED
  BY <1>2, <1>3

LEMMA TerminateForGCType == TypeOK /\ TerminateForGC => TypeOK'
<1> SUFFICES ASSUME TypeOK, TerminateForGC PROVE TypeOK'
  OBVIOUS
<1>1. Terminate(FALSE)
  BY Zenon DEF TerminateForGC
<1>2. TerminateVarsOK
  BY <1>1, TerminateType, Zenon
<1>. QED
  BY <1>1, <1>2 DEF TerminateForGC, TypeOK, TerminateVarsOK

(* The RM's, the runtime's and the proxy's steps keep TypeOK.              *)
LEMMA RMType == TypeOK /\ (RMAllocate \/ RMProcessRelease \/ RMAskRelease)
                  => TypeOK'
<1> SUFFICES ASSUME TypeOK, RMAllocate \/ RMProcessRelease \/ RMAskRelease
             PROVE TypeOK'
  OBVIOUS
<1>1. CASE RMAllocate
  <2>1. /\ rm' = "Granted" /\ fromRM' = Append(fromRM, "Allocated")
        /\ UNCHANGED <<cmdVars, toRM, releases, rmAsked, ctrVars, envVars>>
    BY <1>1 DEF RMAllocate
  <2>. QED
    BY <2>1 DEF TypeOK
<1>2. CASE RMProcessRelease
  <2>1. /\ toRM > 0 /\ toRM' = toRM - 1 /\ rm' = "Released"
        /\ UNCHANGED <<cmdVars, fromRM, releases, rmAsked, ctrVars, envVars>>
    BY <1>2 DEF RMProcessRelease
  <2>. QED
    BY <2>1 DEF TypeOK
<1>3. CASE RMAskRelease
  <2>1. /\ rmAsked' = TRUE /\ fromRM' = Append(fromRM, "Release")
        /\ UNCHANGED <<cmdVars, rm, toRM, releases, ctrVars, envVars>>
    BY <1>3, Zenon DEF RMAskRelease
  <2>. QED
    BY <2>1 DEF TypeOK
<1>. QED
  BY <1>1, <1>2, <1>3

LEMMA CtrType == TypeOK /\ (CtrAdvance \/ CtrExit \/ CtrKilled) => TypeOK'
<1> SUFFICES ASSUME TypeOK, CtrAdvance \/ CtrExit \/ CtrKilled PROVE TypeOK'
  OBVIOUS
<1>1. CASE CtrAdvance
  <2>1. PICK i \in 1..4 : ctr = CtrOrder[i] /\ ctr' = CtrOrder[i + 1]
    BY <1>1 DEF CtrAdvance
  <2>2. ctr' \in ActiveCtr /\ ctr' \in CtrStates \cup {"Launching"}
    BY <2>1 DEF CtrOrder, ActiveCtr, CtrStates
  <2>3. PICK n \in 0..MaxAddrs :
          fromCtr' = Append(fromCtr, [state |-> ctr', addrs |-> n, failed |-> FALSE])
    BY <1>1, Zenon DEF CtrAdvance
  <2>4. ctr' # "Launching"
    BY <2>1 DEF CtrOrder
  <2>5. fromCtr' \in Seq(CtrMsg)
    BY <2>2, <2>3, <2>4 DEF TypeOK, CtrMsg, CtrStates
  <2>6. UNCHANGED <<cmdVars, rmVars, ctrKill, logs, envVars>>
    BY <1>1 DEF CtrAdvance
  <2>. QED
    BY <2>2, <2>5, <2>6 DEF TypeOK
<1>2. CASE CtrExit
  <2>1. PICK failed \in BOOLEAN :
          fromCtr' = Append(fromCtr, [state |-> "Terminated", addrs |-> 0,
                                      failed |-> failed])
    BY <1>2, Zenon DEF CtrExit
  <2>2. /\ ctr' = "Terminated"
        /\ UNCHANGED <<cmdVars, rmVars, ctrKill, logs, envVars>>
    BY <1>2 DEF CtrExit
  <2>. QED
    BY <2>1, <2>2 DEF TypeOK, CtrMsg, CtrStates
<1>3. CASE CtrKilled
  <2>1. /\ ctrKill' \in BOOLEAN
        /\ UNCHANGED <<cmdVars, rmVars, logs, envVars>>
    BY <1>3, Zenon DEF CtrKilled
  <2>2. CASE ctr \in ActiveCtr
    <3>1. /\ ctr' = "Terminated"
          /\ fromCtr' = Append(fromCtr, [state |-> "Terminated", addrs |-> 0,
                                         failed |-> TRUE])
      BY <1>3, <2>2, Zenon DEF CtrKilled
    <3>. QED
      BY <2>1, <3>1 DEF TypeOK, CtrMsg, CtrStates
  <2>3. CASE ctr \notin ActiveCtr
    <3>1. UNCHANGED <<ctr, fromCtr>>
      BY <1>3, <2>3, Zenon DEF CtrKilled
    <3>. QED
      BY <2>1, <3>1 DEF TypeOK
  <2>. QED
    BY <2>2, <2>3
<1>. QED
  BY <1>1, <1>2, <1>3

LEMMA ProxyType == TypeOK /\ ProxyReceive => TypeOK'
<1> SUFFICES ASSUME TypeOK, ProxyReceive PROVE TypeOK'
  OBVIOUS
<1>1. /\ route' \in BOOLEAN /\ proxyInbox' = Tail(proxyInbox)
      /\ proxyInbox # <<>>
      /\ UNCHANGED <<cmdVars, rmVars, ctrVars, session, gcPending, kills>>
  BY Zenon DEF ProxyReceive
<1>. QED
  BY <1>1 DEF TypeOK

-----------------------------------------------------------------------------
(* The initial state and every step of the command, of the RM, of the     *)
(* runtime and of the proxy keep every variable in its type.               *)
LEMMA TypeInit == Init => TypeOK
<1> SUFFICES ASSUME Init PROVE TypeOK
  OBVIOUS
<1>1. readinessChecks \subseteq Checks /\ events \in Seq(Event)
  BY DEF Init
<1>2. proxyNames \in 0..MaxAddrs /\ logs \in 0..MaxLogs /\ kills \in 0..MaxKills
  BY BoundsAssumption DEF Init
<1>3. /\ allocation \in BOOLEAN /\ readinessMessageSent \in BOOLEAN
      /\ rmAsked \in BOOLEAN /\ ctrKill \in BOOLEAN /\ route \in BOOLEAN
      /\ session \in BOOLEAN /\ gcPending \in BOOLEAN
  BY Zenon DEF Init
<1>4. /\ phase = "Created" /\ container = "None" /\ exitStatus = "None"
      /\ rm = "Idle" /\ fromRM = <<>> /\ toRM = 0 /\ releases = 0
      /\ ctr = "None" /\ fromCtr = <<>> /\ proxyInbox = <<>>
  BY Zenon DEF Init
<1>. QED
  BY <1>1, <1>2, <1>3, <1>4 DEF TypeOK

LEMMA TypeNext == TypeOK /\ [Next]_vars => TypeOK'
<1> SUFFICES ASSUME TypeOK, [Next]_vars PROVE TypeOK'
  OBVIOUS
<1>1. CASE Command
  BY <1>1, PreStartType, ReceiveAllocatedType, ReceiveReleaseType, KillType,
     ReceiveContainerStateType, ReceiveLogType, TerminateForGCType
     DEF Command
<1>2. CASE Environment
  BY <1>2, RMType, CtrType, ProxyType DEF Environment
<1>3. CASE UNCHANGED vars
  BY <1>3 DEF vars, TypeOK
<1>. QED
  BY <1>1, <1>2, <1>3 DEF Next

(* Every reachable state of the command, the RM, the runtime and the proxy *)
(* has every variable in its type.                                          *)
THEOREM TypeCorrect == Spec => []TypeOK
BY TypeInit, TypeNext, PTL DEF Spec

-----------------------------------------------------------------------------
(* No stale route.  NoStaleRoute is not inductive: it rests on the order  *)
(* of the proxy's mailbox, on the runtime sending Running once and         *)
(* Terminated last, and on the RM granting once a command that has not     *)
(* started a container.  RouteInv states these facts.                     *)

\* The proxy routes the task, or a Register for it is still in its mailbox.
RouteOrPending ==
    route \/ \E i \in 1..Len(proxyInbox) : proxyInbox[i] = "Register"

\* Runtime states before the container reports Running.
PreRunning == {"None", "Launching", "Assigned", "Pulling", "Starting"}

\* A report of state st is in the runtime's channel.
InFlight(st) == \E i \in 1..Len(fromCtr) : fromCtr[i].state = st

\* A route or a pending Register is covered by a recorded name, or by an
\* Unregister queued behind it.
RouteCovered ==
    RouteOrPending =>
        \/ proxyNames > 0
        \/ proxyInbox # <<>> /\ proxyInbox[Len(proxyInbox)] = "Unregister"

\* Nothing is registered before the container reports Running.
NothingBeforeRunning ==
    ctr \in PreRunning => ~RouteOrPending /\ proxyNames = 0 /\ ~InFlight("Running")

\* The Running report is sent once, and nothing is registered before it is
\* processed.
OneRunningReport ==
    \A i \in 1..Len(fromCtr) : fromCtr[i].state = "Running" =>
        /\ ~RouteOrPending /\ proxyNames = 0
        /\ \A j \in 1..Len(fromCtr) : fromCtr[j].state = "Running" => j = i

\* The Terminated report is the runtime's last message.
TerminatedLast ==
    \A i \in 1..Len(fromCtr) : fromCtr[i].state = "Terminated" =>
        i = Len(fromCtr) /\ ctr = "Terminated"

\* Once the command has seen Terminated, the runtime is silent and no name
\* is recorded.
ExitedQuiet ==
    container = "Terminated" => fromCtr = <<>> /\ ctr = "Terminated" /\ proxyNames = 0

\* Before PreStart nothing has reached the RM.
CreatedQuiet ==
    phase = "Created" => rm = "Idle" /\ fromRM = <<>> /\ ctr = "None" /\ toRM = 0

\* The RM grants once, and only to a command that started no container.
GrantOnce ==
    rm \in {"Idle", "Requested"} =>
        ctr = "None" /\ \A i \in 1..Len(fromRM) : fromRM[i] # "Allocated"

OneGrant ==
    \A i \in 1..Len(fromRM) : fromRM[i] = "Allocated" =>
        /\ ctr = "None"
        /\ \A j \in 1..Len(fromRM) : fromRM[j] = "Allocated" => j = i

RouteInv ==
    /\ RouteCovered /\ NothingBeforeRunning /\ OneRunningReport
    /\ TerminatedLast /\ ExitedQuiet /\ CreatedQuiet /\ GrantOnce /\ OneGrant

IInv == TypeOK /\ RouteInv

ProxyMsgs == {"Register", "Unregister"}

\* What appending n copies of x to the proxy's mailbox s yields.
ConcatFacts(s, x, n) ==
    /\ s \o Repeat(x, n) \in Seq(ProxyMsgs)
    /\ Len(s \o Repeat(x, n)) = Len(s) + n
    /\ \A i \in 1..Len(s) : (s \o Repeat(x, n))[i] = s[i]
    /\ \A i \in Len(s) + 1 .. Len(s) + n : (s \o Repeat(x, n))[i] = x

(* Appending n copies of a message keeps the mailbox's prefix.            *)
LEMMA ConcatRepeat ==
    \A s \in Seq(ProxyMsgs), x \in ProxyMsgs, n \in Nat : ConcatFacts(s, x, n)
<1> SUFFICES ASSUME NEW s \in Seq(ProxyMsgs), NEW x \in ProxyMsgs, NEW n \in Nat
             PROVE  ConcatFacts(s, x, n)
  OBVIOUS
<1>1. Repeat(x, n) \in Seq(ProxyMsgs) /\ Len(Repeat(x, n)) = n
  BY DEF Repeat
<1>. QED
  BY <1>1 DEF Repeat, ConcatFacts

(* Removing the head shifts the indices by one.                           *)
LEMMA TailIndex ==
    ASSUME NEW S, NEW s \in Seq(S), s # <<>>
    PROVE  /\ Tail(s) \in Seq(S) /\ Len(Tail(s)) = Len(s) - 1
           /\ \A i \in 1..Len(Tail(s)) : Tail(s)[i] = s[i + 1]
OBVIOUS

-----------------------------------------------------------------------------
(* RouteInv holds initially and is kept by every step.                    *)

LEMMA RouteInit == Init => RouteInv
<1> SUFFICES ASSUME Init PROVE RouteInv
  OBVIOUS
<1>1. /\ phase = "Created" /\ container = "None" /\ proxyNames = 0
      /\ rm = "Idle" /\ fromRM = <<>> /\ toRM = 0
      /\ ctr = "None" /\ fromCtr = <<>> /\ proxyInbox = <<>>
  BY Zenon DEF Init
<1>2. ~route
  BY Zenon DEF Init
<1>. QED
  BY <1>1, <1>2 DEF RouteInv, RouteOrPending, InFlight, PreRunning, RouteCovered,
     NothingBeforeRunning, OneRunningReport, TerminatedLast, ExitedQuiet,
     CreatedQuiet, GrantOnce, OneGrant

(* A step that touches none of the state RouteInv reads, and leaves the    *)
(* Created phase, or the RM's count of releases, alone.                    *)
LEMMA RouteFrozen ==
    ASSUME RouteInv,
           UNCHANGED <<proxyInbox, route, proxyNames, fromCtr, ctr, container,
                       rm, fromRM>>,
           phase' # "Created" \/ UNCHANGED <<phase, toRM>>
    PROVE  RouteInv'
<1>1. RouteOrPending' = RouteOrPending /\ InFlight("Running")' = InFlight("Running")
  BY DEF RouteOrPending, InFlight
<1>2. CreatedQuiet'
  BY DEF RouteInv, CreatedQuiet
<1>. QED
  BY <1>1, <1>2 DEF RouteInv, RouteCovered, NothingBeforeRunning,
     OneRunningReport, TerminatedLast, ExitedQuiet, GrantOnce, OneGrant

(* The grant-related conjuncts, when fromRM loses its head and ctr is     *)
(* unchanged, or ctr leaves None with the only grant.                      *)
LEMMA RouteTailRM ==
    ASSUME TypeOK, RouteInv, fromRM # <<>>, fromRM' = Tail(fromRM),
           UNCHANGED <<rm, ctr>>, phase' # "Created"
    PROVE  CreatedQuiet' /\ GrantOnce' /\ OneGrant'
<1>1. /\ Len(fromRM') = Len(fromRM) - 1
      /\ \A i \in 1..Len(fromRM') : fromRM'[i] = fromRM[i + 1]
  BY TailIndex DEF TypeOK
<1>. QED
  BY <1>1 DEF RouteInv, CreatedQuiet, GrantOnce, OneGrant

LEMMA PreStartRoute == TypeOK /\ RouteInv /\ PreStart => RouteInv'
<1> SUFFICES ASSUME TypeOK, RouteInv, PreStart PROVE RouteInv'
  OBVIOUS
<1>1. /\ phase = "Created"
      /\ UNCHANGED <<proxyInbox, route, proxyNames, fromCtr, ctr, container, fromRM>>
  BY Zenon DEF PreStart
<1>2. CASE rm' = "Requested" /\ phase' = "Alive"
  <2>1. rm = "Idle" /\ fromRM = <<>> /\ ctr = "None"
    BY <1>1 DEF RouteInv, CreatedQuiet
  <2>2. CreatedQuiet' /\ GrantOnce' /\ OneGrant'
    BY <1>1, <1>2, <2>1 DEF CreatedQuiet, GrantOnce, OneGrant
  <2>3. RouteOrPending' = RouteOrPending /\ InFlight("Running")' = InFlight("Running")
    BY <1>1 DEF RouteOrPending, InFlight
  <2>. QED
    BY <1>1, <2>2, <2>3 DEF RouteInv, RouteCovered, NothingBeforeRunning,
       OneRunningReport, TerminatedLast, ExitedQuiet
<1>3. CASE phase' = "Stopped" /\ UNCHANGED rm
  BY <1>1, <1>3, RouteFrozen
<1>. QED
  BY <1>2, <1>3 DEF PreStart

LEMMA ReceiveAllocatedRoute == TypeOK /\ RouteInv /\ ReceiveAllocated => RouteInv'
<1> SUFFICES ASSUME TypeOK, RouteInv, ReceiveAllocated PROVE RouteInv'
  OBVIOUS
<1>1. /\ phase = "Alive" /\ fromRM # <<>> /\ fromRM[1] = "Allocated"
      /\ fromRM' = Tail(fromRM)
      /\ UNCHANGED <<proxyInbox, route, proxyNames, fromCtr, container, rm>>
  BY DEF ReceiveAllocated
<1>2. /\ ctr = "None" /\ rm \notin {"Idle", "Requested"}
      /\ \A j \in 1..Len(fromRM) : fromRM[j] = "Allocated" => j = 1
  BY <1>1 DEF RouteInv, OneGrant, GrantOnce, TypeOK
<1>3. /\ ~RouteOrPending /\ proxyNames = 0 /\ ~InFlight("Running")
      /\ ~InFlight("Terminated") /\ container # "Terminated"
  BY <1>2 DEF RouteInv, NothingBeforeRunning, PreRunning, TerminatedLast,
     InFlight, ExitedQuiet
<1>4. /\ Len(fromRM') = Len(fromRM) - 1
      /\ \A i \in 1..Len(fromRM') : fromRM'[i] # "Allocated"
  BY <1>1, <1>2, TailIndex DEF TypeOK
<1>5. ctr' \in {"None", "Launching"} /\ phase' # "Created"
  BY <1>1, <1>2 DEF ReceiveAllocated, SessionStartFails
<1>6. /\ RouteOrPending' = RouteOrPending
      /\ InFlight("Running")' = InFlight("Running")
      /\ InFlight("Terminated")' = InFlight("Terminated")
  BY <1>1 DEF RouteOrPending, InFlight
<1>. QED
  BY <1>1, <1>2, <1>3, <1>4, <1>5, <1>6
     DEF RouteInv, RouteCovered, NothingBeforeRunning, PreRunning,
     OneRunningReport, TerminatedLast, ExitedQuiet, CreatedQuiet, GrantOnce,
     OneGrant, InFlight

LEMMA ReceiveReleaseRoute == TypeOK /\ RouteInv /\ ReceiveRelease => RouteInv'
<1> SUFFICES ASSUME TypeOK, RouteInv, ReceiveRelease PROVE RouteInv'
  OBVIOUS
<1>1. /\ fromRM # <<>> /\ fromRM' = Tail(fromRM) /\ phase' = "Stopped"
      /\ UNCHANGED <<proxyInbox, route, proxyNames, fromCtr, ctr, container, rm>>
  BY DEF ReceiveRelease
<1>2. CreatedQuiet' /\ GrantOnce' /\ OneGrant'
  BY <1>1, RouteTailRM
<1>3. RouteOrPending' = RouteOrPending /\ InFlight("Running")' = InFlight("Running")
  BY <1>1 DEF RouteOrPending, InFlight
<1>. QED
  BY <1>1, <1>2, <1>3 DEF RouteInv, RouteCovered, NothingBeforeRunning,
     OneRunningReport, TerminatedLast, ExitedQuiet

LEMMA QuietCommandRoute ==
    TypeOK /\ RouteInv /\ (Kill \/ ReceiveLog \/ TerminateForGC) => RouteInv'
<1> SUFFICES ASSUME TypeOK, RouteInv, Kill \/ ReceiveLog \/ TerminateForGC
             PROVE  RouteInv'
  OBVIOUS
<1>1. CASE Kill
  BY <1>1, RouteFrozen DEF Kill
<1>2. CASE ReceiveLog
  BY <1>2, RouteFrozen DEF ReceiveLog
<1>3. CASE TerminateForGC
  BY <1>3, RouteFrozen DEF TerminateForGC
<1>. QED
  BY <1>1, <1>2, <1>3

(* The container-state handler, by the state the report carries.          *)
LEMMA ContainerStateRoute == TypeOK /\ RouteInv /\ ReceiveContainerState => RouteInv'
<1> SUFFICES ASSUME TypeOK, RouteInv, ReceiveContainerState PROVE RouteInv'
  OBVIOUS
<1> DEFINE m == Head(fromCtr)
<1>1. /\ phase = "Alive" /\ fromCtr # <<>> /\ fromCtr' = Tail(fromCtr)
      /\ container' = m.state
      /\ UNCHANGED <<phase, rm, fromRM, ctr, route>>
  BY DEF ReceiveContainerState
<1>2. /\ m = fromCtr[1] /\ m \in CtrMsg /\ Len(fromCtr) >= 1
      /\ fromCtr' \in Seq(CtrMsg) /\ Len(fromCtr') = Len(fromCtr) - 1
      /\ \A i \in 1..Len(fromCtr') : fromCtr'[i] = fromCtr[i + 1]
  BY <1>1, TailIndex DEF TypeOK
<1>3. CreatedQuiet' /\ GrantOnce' /\ OneGrant'
  BY <1>1 DEF RouteInv, CreatedQuiet, GrantOnce, OneGrant
<1>4. TerminatedLast'
  <2> SUFFICES ASSUME NEW i \in 1..Len(fromCtr'), fromCtr'[i].state = "Terminated"
               PROVE  i = Len(fromCtr') /\ ctr' = "Terminated"
    BY DEF TerminatedLast
  <2>1. i + 1 \in 1..Len(fromCtr) /\ fromCtr[i + 1].state = "Terminated"
    BY <1>2
  <2>2. i + 1 = Len(fromCtr) /\ ctr = "Terminated"
    BY <2>1 DEF RouteInv, TerminatedLast
  <2>3. ctr' = ctr
    BY <1>1
  <2>4. i = Len(fromCtr')
    BY <1>2, <2>2
  <2>. QED
    BY <2>2, <2>3, <2>4
<1>5. CASE m.state = "Running"
  <2>1. RegisterAddresses(m.addrs)
    BY <1>5 DEF ReceiveContainerState
  <2>2. /\ ~RouteOrPending /\ proxyNames = 0
        /\ \A j \in 1..Len(fromCtr) : fromCtr[j].state = "Running" => j = 1
    BY <1>2, <1>5 DEF RouteInv, OneRunningReport
  <2>3. ctr \notin PreRunning
    BY <1>2, <1>5 DEF RouteInv, NothingBeforeRunning, InFlight
  <2>4. /\ m.addrs \in Nat /\ proxyNames' = m.addrs
        /\ proxyInbox' = proxyInbox \o Repeat("Register", m.addrs)
    BY <1>2, <2>1 DEF RegisterAddresses, CtrMsg
  <2>5. RouteOrPending' => m.addrs > 0
    <3>1. ConcatFacts(proxyInbox, "Register", m.addrs)
      BY <2>4, ConcatRepeat DEF TypeOK, ProxyMsgs
    <3>2. /\ Len(proxyInbox') = Len(proxyInbox) + m.addrs
          /\ \A i \in 1..Len(proxyInbox) : proxyInbox'[i] = proxyInbox[i]
      BY <2>4, <3>1 DEF ConcatFacts
    <3>3. CASE m.addrs = 0
      <4>1. proxyInbox' = proxyInbox
        BY <3>2, <3>3, <2>4 DEF TypeOK
      <4>. QED
        BY <1>1, <2>2, <4>1 DEF RouteOrPending
    <3>. QED
      BY <2>4, <3>3
  <2>6. RouteCovered'
    BY <2>4, <2>5 DEF RouteCovered
  <2>7. ~InFlight("Running")'
    BY <1>2, <2>2 DEF InFlight
  <2>8. NothingBeforeRunning' /\ OneRunningReport' /\ ExitedQuiet'
    BY <1>1, <1>5, <2>3, <2>7 DEF NothingBeforeRunning, OneRunningReport,
       InFlight, ExitedQuiet
  <2>. QED
    BY <1>3, <1>4, <2>6, <2>8 DEF RouteInv
<1>6. CASE m.state = "Terminated"
  <2>1. UnregisterNames
    BY <1>6 DEF ReceiveContainerState
  <2>2. Len(fromCtr) = 1 /\ ctr = "Terminated" /\ fromCtr' = <<>>
    BY <1>2, <1>6 DEF RouteInv, TerminatedLast
  <2>3. /\ Len(proxyInbox') = Len(proxyInbox) + proxyNames
        /\ \A i \in 1..Len(proxyInbox) : proxyInbox'[i] = proxyInbox[i]
        /\ \A i \in Len(proxyInbox) + 1 .. Len(proxyInbox) + proxyNames :
              proxyInbox'[i] = "Unregister"
        /\ proxyNames' = 0 /\ proxyInbox' \in Seq(ProxyMsgs)
    <3>1. ConcatFacts(proxyInbox, "Unregister", proxyNames)
      BY ConcatRepeat DEF TypeOK, ProxyMsgs
    <3>. QED
      BY <2>1, <3>1 DEF UnregisterNames, ConcatFacts
  <2>4. RouteOrPending' => RouteOrPending
    BY <1>1, <2>3 DEF RouteOrPending
  <2>5. RouteCovered'
    <3>1. CASE proxyNames > 0
      <4>1. Len(proxyInbox') \in Len(proxyInbox) + 1 .. Len(proxyInbox) + proxyNames
        BY <2>3, <3>1 DEF TypeOK
      <4>2. proxyInbox' # <<>> /\ proxyInbox'[Len(proxyInbox')] = "Unregister"
        BY <2>3, <4>1
      <4>. QED
        BY <4>2 DEF RouteCovered
    <3>2. CASE proxyNames = 0
      <4>1. proxyInbox' = proxyInbox
        BY <2>3, <3>2 DEF TypeOK
      <4>. QED
        BY <2>3, <2>4, <3>2, <4>1 DEF RouteInv, RouteCovered
    <3>. QED
      BY <3>1, <3>2 DEF TypeOK
  <2>6. ctr' = "Terminated" /\ fromCtr' = <<>> /\ proxyNames' = 0
    BY <1>1, <2>2, <2>3
  <2>7. NothingBeforeRunning' /\ OneRunningReport' /\ ExitedQuiet'
    BY <2>6 DEF NothingBeforeRunning, PreRunning, OneRunningReport, ExitedQuiet
  <2>. QED
    BY <1>3, <1>4, <2>5, <2>7 DEF RouteInv
<1>7. CASE m.state \notin {"Running", "Terminated"}
  <2>1. UNCHANGED <<proxyInbox, proxyNames>>
    BY <1>7 DEF ReceiveContainerState
  <2>2. RouteOrPending' = RouteOrPending
    BY <1>1, <2>1 DEF RouteOrPending
  <2>3. InFlight("Running")' => InFlight("Running")
    BY <1>2 DEF InFlight
  <2>4. RouteCovered' /\ NothingBeforeRunning' /\ ExitedQuiet'
    BY <1>1, <1>7, <2>1, <2>2, <2>3 DEF RouteInv, RouteCovered,
       NothingBeforeRunning, ExitedQuiet
  <2>5. OneRunningReport'
    <3> SUFFICES ASSUME NEW i \in 1..Len(fromCtr'), fromCtr'[i].state = "Running"
                 PROVE  /\ ~RouteOrPending' /\ proxyNames' = 0
                        /\ \A j \in 1..Len(fromCtr') :
                              fromCtr'[j].state = "Running" => j = i
      BY DEF OneRunningReport
    <3>1. i + 1 \in 1..Len(fromCtr) /\ fromCtr[i + 1].state = "Running"
      BY <1>2
    <3>2. /\ ~RouteOrPending /\ proxyNames = 0
          /\ \A j \in 1..Len(fromCtr) : fromCtr[j].state = "Running" => j = i + 1
      BY <3>1 DEF RouteInv, OneRunningReport
    <3>. QED
      BY <1>2, <2>1, <2>2, <3>2
  <2>. QED
    BY <1>3, <1>4, <2>4, <2>5 DEF RouteInv
<1>. QED
  BY <1>5, <1>6, <1>7

(* The RM's steps touch only rm and fromRM among the state RouteInv reads. *)
LEMMA RMRoute ==
    TypeOK /\ RouteInv /\ (RMAllocate \/ RMProcessRelease \/ RMAskRelease) => RouteInv'
<1> SUFFICES ASSUME TypeOK, RouteInv, RMAllocate \/ RMProcessRelease \/ RMAskRelease
             PROVE  RouteInv'
  OBVIOUS
<1>1. /\ UNCHANGED <<proxyInbox, route, proxyNames, fromCtr, ctr, container, phase>>
      /\ phase # "Created"
  <2>1. UNCHANGED <<proxyInbox, route, proxyNames, fromCtr, ctr, container, phase>>
    BY DEF RMAllocate, RMProcessRelease, RMAskRelease
  <2>2. rm # "Idle" \/ toRM # 0
    BY DEF RMAllocate, RMProcessRelease, RMAskRelease
  <2>. QED
    BY <2>1, <2>2 DEF RouteInv, CreatedQuiet
<1>2. /\ RouteOrPending' = RouteOrPending
      /\ InFlight("Running")' = InFlight("Running")
  BY <1>1 DEF RouteOrPending, InFlight
<1>3. /\ RouteCovered' /\ NothingBeforeRunning' /\ OneRunningReport'
      /\ TerminatedLast' /\ ExitedQuiet' /\ CreatedQuiet'
  BY <1>1, <1>2 DEF RouteInv, RouteCovered, NothingBeforeRunning,
     OneRunningReport, TerminatedLast, ExitedQuiet, CreatedQuiet
<1>4. CASE RMAllocate
  <2>1. /\ rm = "Requested" /\ rm' = "Granted"
        /\ fromRM' = Append(fromRM, "Allocated")
    BY <1>4 DEF RMAllocate
  <2>2. ctr = "None" /\ \A i \in 1..Len(fromRM) : fromRM[i] # "Allocated"
    BY <2>1 DEF RouteInv, GrantOnce
  <2>3. GrantOnce' /\ OneGrant'
    BY <1>1, <2>1, <2>2 DEF GrantOnce, OneGrant, TypeOK
  <2>. QED
    BY <1>3, <2>3 DEF RouteInv
<1>5. CASE RMProcessRelease
  <2>1. rm' = "Released" /\ UNCHANGED fromRM
    BY <1>5 DEF RMProcessRelease
  <2>. QED
    BY <1>1, <1>3, <2>1 DEF RouteInv, GrantOnce, OneGrant
<1>6. CASE RMAskRelease
  <2>1. /\ rm = "Granted" /\ UNCHANGED rm
        /\ fromRM' = Append(fromRM, "Release")
    BY <1>6 DEF RMAskRelease
  <2>2. OneGrant'
    BY <1>1, <2>1 DEF RouteInv, OneGrant, TypeOK
  <2>. QED
    BY <1>3, <2>1, <2>2 DEF RouteInv, GrantOnce
<1>. QED
  BY <1>4, <1>5, <1>6

(* The runtime moves an active container to msg.state and reports it.     *)
LEMMA CtrReportRoute ==
    ASSUME TypeOK, RouteInv, NEW msg \in CtrMsg,
           ctr \in ActiveCtr, ctr' = msg.state,
           fromCtr' = Append(fromCtr, msg),
           msg.state # "Terminated" => ctr \in PreRunning,
           UNCHANGED <<proxyInbox, route, proxyNames, container, rm, fromRM, phase>>
    PROVE  RouteInv'
<1>1. /\ phase # "Created" /\ rm \notin {"Idle", "Requested"}
      /\ \A i \in 1..Len(fromRM) : fromRM[i] # "Allocated"
      /\ ~InFlight("Terminated") /\ container # "Terminated"
  BY DEF RouteInv, CreatedQuiet, GrantOnce, OneGrant, TerminatedLast, InFlight,
     ExitedQuiet, ActiveCtr
<1>2. /\ Len(fromCtr') = Len(fromCtr) + 1
      /\ \A i \in 1..Len(fromCtr) : fromCtr'[i] = fromCtr[i]
      /\ fromCtr'[Len(fromCtr')] = msg
  BY DEF TypeOK
<1>3. RouteOrPending' = RouteOrPending
  BY DEF RouteOrPending
<1>4. CreatedQuiet' /\ GrantOnce' /\ OneGrant' /\ ExitedQuiet' /\ RouteCovered'
  BY <1>1, <1>3 DEF CtrMsg, CtrStates, CreatedQuiet, GrantOnce, OneGrant,
     ExitedQuiet, RouteInv, RouteCovered
<1>5. TerminatedLast'
  BY <1>1, <1>2 DEF TerminatedLast, InFlight
<1>6. NothingBeforeRunning'
  <2> SUFFICES ASSUME ctr' \in PreRunning
               PROVE  ~RouteOrPending' /\ proxyNames' = 0 /\ ~InFlight("Running")'
    BY DEF NothingBeforeRunning
  <2>1. ctr \in PreRunning /\ msg.state # "Running"
    BY DEF PreRunning
  <2>. QED
    BY <1>2, <1>3, <2>1 DEF RouteInv, NothingBeforeRunning, InFlight
<1>7. OneRunningReport'
  <2>1. CASE msg.state = "Running"
    <3>1. ~RouteOrPending /\ proxyNames = 0 /\ ~InFlight("Running")
      BY <2>1 DEF RouteInv, NothingBeforeRunning
    <3>. QED
      BY <1>2, <1>3, <2>1, <3>1 DEF OneRunningReport, InFlight
  <2>2. CASE msg.state # "Running"
    BY <1>2, <1>3, <2>2 DEF RouteInv, OneRunningReport
  <2>. QED
    BY <2>1, <2>2
<1>. QED
  BY <1>4, <1>5, <1>6, <1>7 DEF RouteInv

LEMMA CtrRoute == TypeOK /\ RouteInv /\ (CtrAdvance \/ CtrExit \/ CtrKilled) => RouteInv'
<1> SUFFICES ASSUME TypeOK, RouteInv, CtrAdvance \/ CtrExit \/ CtrKilled
             PROVE  RouteInv'
  OBVIOUS
<1>1. CASE CtrAdvance
  <2>1. PICK i \in 1..4 : ctr = CtrOrder[i] /\ ctr' = CtrOrder[i + 1]
    BY <1>1 DEF CtrAdvance
  <2>2. PICK n \in 0..MaxAddrs :
          fromCtr' = Append(fromCtr, [state |-> ctr', addrs |-> n, failed |-> FALSE])
    BY <1>1 DEF CtrAdvance
  <2>3. ctr \in ActiveCtr /\ ctr \in PreRunning /\ ctr' \in CtrStates
    BY <2>1 DEF CtrOrder, ActiveCtr, PreRunning, CtrStates
  <2>4. [state |-> ctr', addrs |-> n, failed |-> FALSE] \in CtrMsg
    BY <2>3 DEF CtrMsg
  <2>5. UNCHANGED <<proxyInbox, route, proxyNames, container, rm, fromRM, phase>>
    BY <1>1 DEF CtrAdvance
  <2>. QED
    BY <2>2, <2>3, <2>4, <2>5, CtrReportRoute
<1>2. CASE CtrExit
  <2>1. PICK failed \in BOOLEAN :
          fromCtr' = Append(fromCtr, [state |-> "Terminated", addrs |-> 0,
                                      failed |-> failed])
    BY <1>2 DEF CtrExit
  <2>2. /\ ctr \in ActiveCtr /\ ctr' = "Terminated"
        /\ [state |-> "Terminated", addrs |-> 0, failed |-> failed] \in CtrMsg
        /\ UNCHANGED <<proxyInbox, route, proxyNames, container, rm, fromRM, phase>>
    BY <1>2 DEF CtrExit, CtrMsg, CtrStates
  <2>. QED
    BY <2>1, <2>2, CtrReportRoute
<1>3. CASE CtrKilled
  <2>1. UNCHANGED <<proxyInbox, route, proxyNames, container, rm, fromRM, phase>>
    BY <1>3 DEF CtrKilled
  <2>2. CASE ctr \in ActiveCtr
    <3>1. /\ ctr' = "Terminated"
          /\ fromCtr' = Append(fromCtr, [state |-> "Terminated", addrs |-> 0,
                                         failed |-> TRUE])
          /\ [state |-> "Terminated", addrs |-> 0, failed |-> TRUE] \in CtrMsg
      BY <1>3, <2>2 DEF CtrKilled, CtrMsg, CtrStates
    <3>. QED
      BY <2>1, <2>2, <3>1, CtrReportRoute
  <2>3. CASE ctr \notin ActiveCtr
    <3>1. UNCHANGED <<ctr, fromCtr, toRM>>
      BY <1>3, <2>3 DEF CtrKilled
    <3>. QED
      BY <2>1, <3>1, RouteFrozen
  <2>. QED
    BY <2>2, <2>3
<1>. QED
  BY <1>1, <1>2, <1>3

(* The proxy processes the head of its mailbox.                          *)
LEMMA ProxyRoute == TypeOK /\ RouteInv /\ ProxyReceive => RouteInv'
<1> SUFFICES ASSUME TypeOK, RouteInv, ProxyReceive PROVE RouteInv'
  OBVIOUS
<1>1. /\ proxyInbox # <<>> /\ proxyInbox' = Tail(proxyInbox)
      /\ route' = (proxyInbox[1] = "Register")
      /\ UNCHANGED <<proxyNames, fromCtr, ctr, container, rm, fromRM, phase, toRM>>
  BY DEF ProxyReceive
<1>2. /\ proxyInbox' \in Seq(ProxyMsgs) /\ Len(proxyInbox) >= 1
      /\ Len(proxyInbox') = Len(proxyInbox) - 1
      /\ \A i \in 1..Len(proxyInbox') : proxyInbox'[i] = proxyInbox[i + 1]
  BY <1>1, TailIndex DEF TypeOK, ProxyMsgs
<1>0. route' => proxyInbox[1] = "Register"
  BY <1>1, Zenon
<1>3. RouteOrPending' => RouteOrPending
  BY <1>0, <1>2 DEF RouteOrPending
<1>4. RouteCovered'
  <2> SUFFICES ASSUME RouteOrPending', proxyNames = 0
               PROVE  proxyInbox' # <<>> /\ proxyInbox'[Len(proxyInbox')] = "Unregister"
    BY <1>1 DEF RouteCovered, TypeOK
  <2>1. proxyInbox[Len(proxyInbox)] = "Unregister"
    BY <1>3 DEF RouteInv, RouteCovered
  <2>2. Len(proxyInbox) # 1
    BY <1>0, <1>2, <2>1 DEF RouteOrPending
  <2>. QED
    BY <1>2, <2>1, <2>2
<1>5. /\ NothingBeforeRunning' /\ OneRunningReport' /\ TerminatedLast'
      /\ ExitedQuiet' /\ CreatedQuiet' /\ GrantOnce' /\ OneGrant'
  BY <1>1, <1>3 DEF RouteInv, NothingBeforeRunning, OneRunningReport, InFlight,
     TerminatedLast, ExitedQuiet, CreatedQuiet, GrantOnce, OneGrant
<1>. QED
  BY <1>4, <1>5 DEF RouteInv

LEMMA RouteNext == TypeOK /\ RouteInv /\ [Next]_vars => RouteInv'
<1> SUFFICES ASSUME TypeOK, RouteInv, [Next]_vars PROVE RouteInv'
  OBVIOUS
<1>1. CASE Command
  BY <1>1, PreStartRoute, ReceiveAllocatedRoute, ReceiveReleaseRoute,
     QuietCommandRoute, ContainerStateRoute DEF Command
<1>2. CASE Environment
  BY <1>2, RMRoute, CtrRoute, ProxyRoute DEF Environment
<1>3. CASE UNCHANGED vars
  BY <1>3, RouteFrozen DEF vars
<1>. QED
  BY <1>1, <1>2, <1>3 DEF Next

\* The channel facts behind the route argument hold in every reachable
\* state: the proxy's mailbox (command.go:211-238) ends every Register with
\* a covering Unregister or name, the RM grants once and only to a command
\* with no container (command.go:265-306), and the runtime's Terminated
\* report is its last message.
THEOREM IInvHolds == Spec => []IInv
<1>1. Init => IInv
  BY TypeInit, RouteInit DEF IInv
<1>2. IInv /\ [Next]_vars => IInv'
  BY TypeNext, RouteNext DEF IInv
<1>. QED
  BY <1>1, <1>2, PTL DEF Spec

-----------------------------------------------------------------------------
(* No stale route (command.go:211-238), for every set of readiness checks *)
(* and every bound: once the command has processed its container's        *)
(* Terminated report and the proxy has drained its mailbox, the proxy no  *)
(* longer routes the task.  The Register Asks of the Running handler and  *)
(* the Unregister Tells of the Terminated handler travel on one FIFO      *)
(* channel, and the runtime reports Running once and Terminated last, so  *)
(* every route is followed in the proxy's mailbox by an Unregister.       *)
THEOREM NoStaleRouteHolds == Spec => []NoStaleRoute
<1>1. Init => IInv
  BY TypeInit, RouteInit DEF IInv
<1>2. IInv /\ [Next]_vars => IInv'
  BY TypeNext, RouteNext DEF IInv
<1>3. IInv => NoStaleRoute
  <2> SUFFICES ASSUME IInv, container = "Terminated", proxyInbox = <<>>
               PROVE  ~route
    BY DEF NoStaleRoute
  <2>1. proxyNames = 0
    BY DEF IInv, RouteInv, ExitedQuiet
  <2>. QED
    BY <2>1 DEF IInv, RouteInv, RouteCovered, RouteOrPending
<1>. QED
  BY <1>1, <1>2, <1>3, PTL DEF Spec

-----------------------------------------------------------------------------
(* Every stopped command has told the RM.  When the RM does not send       *)
(* ReleaseResources, StoppedReleased follows from: the timer is armed only *)
(* by exit(), and a handler that stops the actor does so with no           *)
(* allocation recorded, so PostStop's terminate() aborts and exits.        *)

\* c.allocation is set only together with the container's Start.
AllocStarted == allocation => ctr # "None"

\* No ReleaseResources is in the command's mailbox.
NoReleaseAsked == \A i \in 1..Len(fromRM) : fromRM[i] # "Release"

\* The terminateForGC timer is armed only after ResourcesReleased.
GCArmedReleased == gcPending => releases > 0

StopFacts == AllocStarted /\ NoReleaseAsked /\ GCArmedReleased /\ StoppedReleased

StopInv == IInv /\ StopFacts

\* What terminate() does to the RM's count of releases and to the timer.
TerminateReleasesOK ==
    /\ releases' \in Nat /\ releases' >= releases
    /\ gcPending' => gcPending \/ releases' > 0
    /\ ~allocation => releases' > 0 /\ gcPending'

LEMMA TerminateReleases ==
    ASSUME TypeOK, NEW live \in BOOLEAN, Terminate(live)
    PROVE  TerminateReleasesOK
<1>1. CASE ~allocation
  <2>1. releases' = releases + 1 /\ gcPending' = TRUE
    BY <1>1 DEF Terminate, Exit
  <2>. QED
    BY <2>1 DEF TypeOK, TerminateReleasesOK
<1>2. CASE allocation
  <2>1. releases' = releases /\ gcPending' = gcPending
    BY <1>2 DEF Terminate
  <2>. QED
    BY <1>2, <2>1 DEF TypeOK, TerminateReleasesOK
<1>. QED
  BY <1>1, <1>2

(* A Terminate keeps the GC timer armed only after a release.            *)
LEMMA TerminateGCArmed ==
    ASSUME TypeOK, GCArmedReleased, TerminateReleasesOK
    PROVE  GCArmedReleased'
<1>1. releases \in Nat
  BY DEF TypeOK
<1>2. CASE gcPending
  BY <1>1, <1>2 DEF GCArmedReleased, TerminateReleasesOK
<1>3. CASE ~gcPending
  BY <1>3 DEF GCArmedReleased, TerminateReleasesOK
<1>. QED
  BY <1>2, <1>3

(* Every step keeps StopFacts when the RM sends no ReleaseResources.      *)
LEMMA StopStep ==
    ASSUME ~RMSendsRelease, IInv, StopFacts, [Next]_vars
    PROVE  StopFacts'
<1> USE DEF IInv
<1> DEFINE Keep == UNCHANGED <<phase, allocation, ctr, fromRM, gcPending, releases>>
<1>0. Keep => StopFacts'
  BY DEF StopFacts, AllocStarted, NoReleaseAsked, GCArmedReleased, StoppedReleased
<1>1. CASE PreStart
  <2>1. ~allocation /\ fromRM = <<>> /\ UNCHANGED <<allocation, ctr, fromRM>>
    BY <1>1 DEF PreStart, RouteInv, CreatedQuiet, StopFacts, AllocStarted
  <2>2. CASE /\ rm' = "Requested" /\ phase' = "Alive"
             /\ UNCHANGED <<releases, gcPending>>
    BY <2>1, <2>2 DEF StopFacts, AllocStarted, NoReleaseAsked,
       GCArmedReleased, StoppedReleased
  <2>3. CASE phase' = "Stopped" /\ Terminate(FALSE)
    <3>1. TerminateReleasesOK
      BY <2>3, TerminateReleases
    <3>. QED
      BY <2>1, <2>3, <3>1 DEF TerminateReleasesOK, StopFacts, AllocStarted,
         NoReleaseAsked, GCArmedReleased, StoppedReleased
  <2>. QED
    BY <1>1, <2>2, <2>3 DEF PreStart
<1>2. CASE ReceiveAllocated
  <2>1. /\ fromRM # <<>> /\ fromRM[1] = "Allocated" /\ fromRM' = Tail(fromRM)
        /\ phase = "Alive"
    BY <1>2 DEF ReceiveAllocated
  <2>2. ~allocation
    BY <2>1 DEF RouteInv, OneGrant, StopFacts, AllocStarted, TypeOK
  <2>3. NoReleaseAsked'
    <3>1. \A i \in 1..Len(fromRM') : fromRM'[i] = fromRM[i + 1]
          /\ Len(fromRM') = Len(fromRM) - 1
      BY <2>1, TailIndex DEF TypeOK
    <3>. QED
      BY <3>1 DEF StopFacts, NoReleaseAsked
  <2>4. CASE /\ session' = TRUE /\ allocation' = TRUE /\ ctr' = "Launching"
             /\ UNCHANGED <<phase, releases, gcPending>>
    BY <2>1, <2>3, <2>4 DEF StopFacts, AllocStarted, GCArmedReleased,
       StoppedReleased
  <2>5. CASE SessionStartFails
    <3>1. Terminate(FALSE) /\ phase' = "Stopped" /\ UNCHANGED allocation
      BY <2>5 DEF SessionStartFails
    <3>2. TerminateReleasesOK
      BY <3>1, TerminateReleases
    <3>. QED
      BY <2>2, <2>3, <3>1, <3>2 DEF TerminateReleasesOK, StopFacts,
         AllocStarted, GCArmedReleased, StoppedReleased
  <2>. QED
    BY <1>2, <2>4, <2>5 DEF ReceiveAllocated
<1>3. CASE ReceiveRelease
  <2>1. fromRM # <<>> /\ fromRM[1] = "Release"
    BY <1>3 DEF ReceiveRelease
  <2>. QED
    BY <2>1 DEF StopFacts, NoReleaseAsked, TypeOK
<1>4. CASE Kill
  <2>1. /\ phase = "Alive" /\ UNCHANGED <<phase, allocation, ctr, fromRM>>
    BY <1>4 DEF Kill
  <2>2. CASE ~NotebookAddrFails
    <3>1. Terminate(TRUE)
      BY <1>4, <2>2 DEF Kill
    <3>2. TerminateReleasesOK
      BY <3>1, TerminateReleases
    <3>3. GCArmedReleased'
      BY <3>2, TerminateGCArmed DEF StopFacts
    <3>. QED
      BY <2>1, <3>3 DEF StopFacts, AllocStarted, NoReleaseAsked,
         StoppedReleased
  <2>3. CASE NotebookAddrFails
    BY <1>0, <1>4, <2>1, <2>3 DEF Kill
  <2>. QED
    BY <2>2, <2>3
<1>5. CASE ReceiveContainerState
  <2>1. /\ phase = "Alive" /\ UNCHANGED <<phase, allocation, ctr, fromRM>>
    BY <1>5 DEF ReceiveContainerState
  <2>2. \/ UNCHANGED <<releases, gcPending>>
        \/ releases' = releases + 1 /\ gcPending' = TRUE
    BY <1>5 DEF ReceiveContainerState, Exit
  <2>. QED
    BY <2>1, <2>2 DEF StopFacts, AllocStarted, NoReleaseAsked, GCArmedReleased,
       StoppedReleased, TypeOK
<1>6. CASE ReceiveLog
  BY <1>0, <1>6 DEF ReceiveLog, rmVars
<1>7. CASE TerminateForGC
  <2>1. /\ gcPending /\ phase' = "Stopped" /\ Terminate(FALSE)
        /\ UNCHANGED <<allocation, ctr, fromRM>>
    BY <1>7 DEF TerminateForGC
  <2>2. TerminateReleasesOK
    BY <2>1, TerminateReleases
  <2>3. GCArmedReleased'
    BY <2>2, TerminateGCArmed DEF StopFacts
  <2>4. releases' > 0
    BY <2>1, <2>2 DEF TerminateReleasesOK, StopFacts, GCArmedReleased, TypeOK
  <2>. QED
    BY <2>1, <2>3, <2>4 DEF StopFacts, AllocStarted, NoReleaseAsked,
       StoppedReleased
<1>8. CASE RMAllocate
  <2>1. fromRM' = Append(fromRM, "Allocated") /\ UNCHANGED <<phase, allocation,
        ctr, gcPending, releases>>
    BY <1>8 DEF RMAllocate
  <2>. QED
    BY <2>1 DEF StopFacts, AllocStarted, NoReleaseAsked, GCArmedReleased,
       StoppedReleased, TypeOK
<1>9. CASE RMProcessRelease
  BY <1>0, <1>9 DEF RMProcessRelease
<1>10. CASE RMAskRelease
  BY <1>10 DEF RMAskRelease
<1>11. CASE CtrAdvance \/ CtrExit \/ CtrKilled
  <2>1. UNCHANGED <<phase, allocation, fromRM, gcPending, releases>>
    BY <1>11 DEF CtrAdvance, CtrExit, CtrKilled
  <2>2. ctr # "None" => ctr' # "None"
    <3>1. CASE CtrAdvance
      BY <3>1 DEF CtrAdvance, CtrOrder
    <3>2. CASE CtrExit
      BY <3>2 DEF CtrExit
    <3>3. CASE CtrKilled
      BY <3>3 DEF CtrKilled
    <3>. QED
      BY <1>11, <3>1, <3>2, <3>3
  <2>. QED
    BY <2>1, <2>2 DEF StopFacts, AllocStarted, NoReleaseAsked, GCArmedReleased,
       StoppedReleased
<1>12. CASE ProxyReceive
  BY <1>0, <1>12 DEF ProxyReceive
<1>13. CASE UNCHANGED vars
  BY <1>0, <1>13 DEF vars
<1>. QED
  BY <1>1, <1>2, <1>3, <1>4, <1>5, <1>6, <1>7, <1>8, <1>9, <1>10, <1>11, <1>12,
     <1>13 DEF Next, Command, Environment

(* When the RM sends no ReleaseResources, every way the command actor     *)
(* stops (a failed Ask in PreStart, a failed StartTaskSession after the   *)
(* grant, the terminateForGC timer) has told the RM ResourcesReleased      *)
(* (command.go:277-280, 311-332), for every value of the other constants.  *)
THEOREM StoppedReleasedHolds == ~RMSendsRelease => (Spec => []StoppedReleased)
<1> SUFFICES ASSUME ~RMSendsRelease PROVE Spec => []StoppedReleased
  OBVIOUS
<1>1. Init => StopInv
  <2> SUFFICES ASSUME Init PROVE StopInv
    OBVIOUS
  <2>1. IInv
    BY TypeInit, RouteInit DEF IInv
  <2>2. ~allocation /\ ~gcPending /\ phase = "Created" /\ fromRM = <<>>
    BY Zenon DEF Init
  <2>. QED
    BY <2>1, <2>2 DEF StopInv, StopFacts, AllocStarted, NoReleaseAsked,
       GCArmedReleased, StoppedReleased
<1>2. StopInv /\ [Next]_vars => StopInv'
  <2> SUFFICES ASSUME StopInv, [Next]_vars PROVE StopInv'
    OBVIOUS
  <2>1. IInv'
    BY TypeNext, RouteNext DEF StopInv, IInv
  <2>2. StopFacts'
    BY StopStep DEF StopInv
  <2>. QED
    BY <2>1, <2>2 DEF StopInv
<1>3. StopInv => StoppedReleased
  BY DEF StopInv, StopFacts
<1>. QED
  BY <1>1, <1>2, <1>3, PTL DEF Spec

=============================================================================
