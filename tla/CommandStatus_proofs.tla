----------------------- MODULE CommandStatus_proofs -----------------------
(***************************************************************************)
(* Proof that, when no user kill is processed, the status the command      *)
(* actor shows (command.State and c.exitStatus) follows the lifecycle of   *)
(* the specification, Command!StatusRefined, for every other value of the  *)
(* constants.                                                              *)
(***************************************************************************)
EXTENDS Command_proofs

\* The position of a reported container state, and of the runtime's own
\* state, in the order the runtime goes through them.
CRank(c) ==
    CASE c = "None" -> 0 [] c = "Launching" -> 1 [] c = "Assigned" -> 2
      [] c = "Pulling" -> 3 [] c = "Starting" -> 4 [] c = "Running" -> 5
      [] c = "Terminated" -> 6

\* An allocation is recorded exactly when the runtime was started.
AllocIffCtr == allocation <=> ctr # "None"

\* The reports still in flight rise strictly, lie above the state the
\* actor last processed and no higher than the runtime's own state.
ReportsRise ==
    /\ CRank(container) <= CRank(ctr)
    /\ \A i \in 1..Len(fromCtr) :
         /\ CRank(container) < CRank(fromCtr[i].state)
         /\ CRank(fromCtr[i].state) <= CRank(ctr)
         /\ \A j \in 1..Len(fromCtr) :
              i < j => CRank(fromCtr[i].state) < CRank(fromCtr[j].state)

\* An exit status is recorded with the Terminated report, or by an abort
\* that stops the actor before any container state was reported.
ExitRecorded ==
    /\ exitStatus # "None" =>
          \/ container = "Terminated"
          \/ container = "None" /\ phase = "Stopped"
    /\ container = "Terminated" => exitStatus # "None"
    /\ gcPending => exitStatus # "None"
    /\ phase = "Created" => exitStatus = "None" /\ container = "None"

SInv == AllocIffCtr /\ ReportsRise /\ ExitRecorded

StatusInv == IInv /\ SInv

USE BoundsAssumption DEF cmdVars, rmVars, ctrVars, envVars

CtrValues == CtrStates \cup ActiveCtr \cup {"None"}

\* The ranks of the runtime's states: None is the lowest, Terminated the
\* highest.
LEMMA CRankFacts ==
    \A c \in CtrValues :
        /\ CRank(c) \in 0..6
        /\ CRank(c) = 0 <=> c = "None"
        /\ CRank(c) = 6 <=> c = "Terminated"
        /\ c \in CtrStates => CRank(c) >= 2
BY DEF CtrValues, CRank, CtrStates, ActiveCtr

CtrTypedOK ==
    /\ container \in CtrValues /\ ctr \in CtrValues
    /\ \A i \in 1..Len(fromCtr) : fromCtr[i].state \in CtrValues

\* The container state, the runtime's state and every report have a rank.
LEMMA CtrTyped ==
    ASSUME TypeOK
    PROVE  CtrTypedOK
<1>1. fromCtr \in Seq(CtrMsg)
  BY DEF TypeOK
<1>2. \A i \in 1..Len(fromCtr) : fromCtr[i] \in CtrMsg
  BY <1>1
<1>3. \A i \in 1..Len(fromCtr) : fromCtr[i].state \in CtrStates
  BY <1>2 DEF CtrMsg
<1>. QED
  BY <1>3 DEF TypeOK, CtrValues, CtrStates, ActiveCtr, CtrTypedOK

\* What StatusInv says about the state the actor is in.
LEMMA Derived ==
    ASSUME TypeOK, IInv, SInv
    PROVE  /\ ctr = "None" => container = "None" /\ fromCtr = <<>>
           /\ phase = "Alive" /\ exitStatus # "None" =>
                 container = "Terminated" /\ allocation /\ fromCtr = <<>>
           /\ phase = "Alive" /\ ~allocation =>
                 exitStatus = "None" /\ container = "None" /\ ctr = "None"
           /\ State = IF exitStatus # "None" THEN "Terminated"
                      ELSE IF container = "None" THEN "Pending" ELSE container
<1>1. CtrTypedOK
  BY CtrTyped
<1>0. container \in CtrValues /\ ctr \in CtrValues
      /\ \A i \in 1..Len(fromCtr) : fromCtr[i].state \in CtrValues
  BY <1>1 DEF CtrTypedOK
<1>2. ctr = "None" => container = "None" /\ fromCtr = <<>>
  <2> SUFFICES ASSUME ctr = "None" PROVE container = "None" /\ fromCtr = <<>>
    OBVIOUS
  <2>1. CRank(ctr) = 0
    BY <1>0, CRankFacts
  <2>2. container = "None"
    BY <1>0, <2>1, CRankFacts DEF SInv, ReportsRise
  <2>3. Len(fromCtr) = 0
    <3> SUFFICES ASSUME Len(fromCtr) # 0 PROVE FALSE
      OBVIOUS
    <3>1. 1 \in 1..Len(fromCtr)
      BY DEF TypeOK
    <3>2. CRank(fromCtr[1].state) \in 0..6
      BY <1>0, <3>1, CRankFacts
    <3>. QED
      BY <2>1, <2>2, <3>1, <3>2, CRankFacts DEF SInv, ReportsRise
  <2>. QED
    BY <2>2, <2>3 DEF TypeOK
<1>3. container = "Terminated" => fromCtr = <<>> /\ ctr = "Terminated"
  <2> SUFFICES ASSUME container = "Terminated"
               PROVE  fromCtr = <<>> /\ ctr = "Terminated"
    OBVIOUS
  <2>1. CRank(container) = 6 /\ CRank(ctr) = 6
    BY <1>0, CRankFacts DEF SInv, ReportsRise
  <2>2. ctr = "Terminated"
    BY <1>0, <2>1, CRankFacts
  <2>3. Len(fromCtr) = 0
    <3> SUFFICES ASSUME Len(fromCtr) # 0 PROVE FALSE
      OBVIOUS
    <3>1. 1 \in 1..Len(fromCtr)
      BY DEF TypeOK
    <3>2. CRank(fromCtr[1].state) \in 0..6
      BY <1>0, <3>1, CRankFacts
    <3>. QED
      BY <2>1, <3>1, <3>2 DEF SInv, ReportsRise
  <2>. QED
    BY <2>2, <2>3 DEF TypeOK
<1>4. phase = "Alive" /\ exitStatus # "None" =>
         container = "Terminated" /\ allocation /\ fromCtr = <<>>
  BY <1>3 DEF SInv, ExitRecorded, AllocIffCtr
<1>5. phase = "Alive" /\ ~allocation =>
         exitStatus = "None" /\ container = "None" /\ ctr = "None"
  BY <1>2, <1>4 DEF SInv, AllocIffCtr
<1>6. State = IF exitStatus # "None" THEN "Terminated"
              ELSE IF container = "None" THEN "Pending" ELSE container
  BY DEF State, SInv, ExitRecorded
<1>. QED
  BY <1>2, <1>4, <1>5, <1>6

\* The initial state satisfies StatusInv.
LEMMA StatusInit == Init => SInv
BY DEF Init, SInv, AllocIffCtr, ReportsRise, ExitRecorded, CRank

-----------------------------------------------------------------------------
(* The three kinds of step of the status: none, an abort, a report.       *)

\* A step that changes neither the container state nor the exit status is
\* a stutter of the status.
LEMMA StatusStutter ==
    ASSUME UNCHANGED <<container, exitStatus>>
    PROVE  UNCHANGED StatusView!vars
BY DEF StatusView!vars, State

\* An abort before any container state was reported is Finish("Aborted").
LEMMA StatusAbort ==
    ASSUME exitStatus = "None", container = "None",
           exitStatus' = "Aborted", container' = "None"
    PROVE  StatusView!Next
<1>1. State = "Pending" /\ State' = "Terminated"
  BY DEF State
<1>2. StatusView!Finish("Aborted")
  BY <1>1 DEF StatusView!Finish
<1>. QED
  BY <1>2 DEF StatusView!Next, ExitStatuses

\* Processing a report of a later container state moves the status forward,
\* and a Terminated report ends it with the exit status recorded.
LEMMA StatusReport ==
    ASSUME TypeOK, IInv, SInv, NEW s \in CtrStates,
           exitStatus = "None", CRank(container) < CRank(s), container' = s,
           s = "Terminated" => exitStatus' \in ExitStatuses,
           s # "Terminated" => exitStatus' = exitStatus
    PROVE  StatusView!Next
<1>1. State = IF container = "None" THEN "Pending" ELSE container
  BY Derived
<1>2. State' = s
  BY DEF State, CtrStates
<1>3. container \in CtrValues
  BY DEF TypeOK, CtrValues
<1>4. State # "Terminated"
  BY <1>1, <1>3, CRankFacts DEF CtrValues, CtrStates
<1>5. CASE s = "Terminated"
  <2>1. StatusView!Finish(exitStatus')
    BY <1>2, <1>4, <1>5 DEF StatusView!Finish
  <2>. QED
    BY <1>5, <2>1 DEF StatusView!Next
<1>6. CASE s # "Terminated"
  <2>0. \A c \in CtrStates : StatusView!Rank(c) = CRank(c)
    BY DEF CtrStates, CRank, StatusView!Rank
  <2>1. StatusView!Rank(s) > StatusView!Rank(State)
    <3>1. CASE container = "None"
      <4>1. StatusView!Rank(State) = 1
        BY <1>1, <3>1 DEF StatusView!Rank
      <4>. QED
        BY <2>0, <4>1, CRankFacts DEF CtrValues
    <3>2. CASE container # "None"
      <4>1. container \in CtrStates
        BY <1>3, <1>4, <1>1, <3>2 DEF CtrValues, CtrStates, ActiveCtr, TypeOK
      <4>. QED
        BY <1>1, <2>0, <3>2, <4>1
    <3>. QED
      BY <3>1, <3>2
  <2>2. s \in StatusView!Statuses
    BY DEF CtrStates, StatusView!Statuses
  <2>3. StatusView!Advance(s)
    BY <1>2, <1>6, <2>1 DEF StatusView!Advance
  <2>. QED
    BY <2>2, <2>3 DEF StatusView!Next
<1>. QED
  BY <1>5, <1>6

-----------------------------------------------------------------------------
(* Steps of the collaborators.                                            *)

StatusOK == SInv' /\ [StatusView!Next]_StatusView!vars

\* A step that touches nothing StatusInv reads keeps it and the status.
LEMMA FrozenStatus ==
    ASSUME SInv,
           UNCHANGED <<container, exitStatus, phase, allocation, gcPending, ctr,
                       fromCtr>>
    PROVE  StatusOK
<1>1. SInv'
  BY DEF SInv, AllocIffCtr, ReportsRise, ExitRecorded
<1>. QED
  BY <1>1, StatusStutter DEF StatusOK

\* The runtime moves to a later state and reports it: the new report is
\* the highest in flight, so the reports still rise.
LEMMA CtrAppend ==
    ASSUME TypeOK, SInv, NEW m \in CtrMsg,
           UNCHANGED <<container, exitStatus, phase, allocation, gcPending>>,
           ctr # "None", ctr' \in CtrValues, m.state = ctr',
           CRank(ctr) < CRank(ctr'),
           fromCtr' = Append(fromCtr, m)
    PROVE  StatusOK
<1> DEFINE n == Len(fromCtr)
<1>1. /\ container \in CtrValues /\ ctr \in CtrValues
      /\ \A i \in 1..n : fromCtr[i].state \in CtrValues
  BY CtrTyped DEF CtrTypedOK
<1>2. /\ Len(fromCtr') = n + 1
      /\ \A i \in 1..n : fromCtr'[i] = fromCtr[i]
      /\ fromCtr'[n + 1] = m
  BY DEF TypeOK
<1>3. /\ CRank(container) \in Nat /\ CRank(ctr) \in Nat /\ CRank(ctr') \in Nat
      /\ \A i \in 1..n : CRank(fromCtr[i].state) \in Nat
  BY <1>1, CRankFacts
<1>4. ctr' # "None"
  BY <1>1, <1>3, CRankFacts
<1>5. ReportsRise'
  <2>1. CRank(container') <= CRank(ctr')
    BY <1>3 DEF SInv, ReportsRise
  <2>2. \A i \in 1..n + 1 :
           /\ CRank(container) < CRank(fromCtr'[i].state)
           /\ CRank(fromCtr'[i].state) <= CRank(ctr')
    BY <1>2, <1>3 DEF SInv, ReportsRise
  <2>3. \A i, j \in 1..n + 1 :
           i < j => CRank(fromCtr'[i].state) < CRank(fromCtr'[j].state)
    BY <1>2, <1>3 DEF SInv, ReportsRise
  <2>. QED
    BY <1>2, <2>1, <2>2, <2>3 DEF ReportsRise
<1>6. SInv'
  BY <1>4, <1>5 DEF SInv, AllocIffCtr, ExitRecorded
<1>. QED
  BY <1>6, StatusStutter DEF StatusOK

\* Every step of the RM, the runtime and the proxy keeps StatusInv and
\* leaves the status alone.
LEMMA EnvStatus ==
    ASSUME TypeOK, SInv, Environment
    PROVE  StatusOK
<1>1. CASE RMAllocate \/ RMProcessRelease \/ RMAskRelease \/ ProxyReceive
  BY <1>1, FrozenStatus
     DEF RMAllocate, RMProcessRelease, RMAskRelease, ProxyReceive
<1>2. CASE CtrAdvance
  <2>1. PICK i \in 1..4 : ctr = CtrOrder[i] /\ ctr' = CtrOrder[i + 1]
    BY <1>2 DEF CtrAdvance
  <2>2. PICK a \in 0..MaxAddrs :
          fromCtr' = Append(fromCtr, [state |-> ctr', addrs |-> a, failed |-> FALSE])
    BY <1>2 DEF CtrAdvance
  <2>3. [state |-> ctr', addrs |-> a, failed |-> FALSE] \in CtrMsg
    BY <2>1 DEF CtrMsg, CtrOrder, CtrStates
  <2>4. ctr # "None" /\ ctr' \in CtrValues /\ CRank(ctr) < CRank(ctr')
    BY <2>1 DEF CtrOrder, CtrValues, CtrStates, ActiveCtr, CRank
  <2>. QED
    BY <1>2, <2>2, <2>3, <2>4, CtrAppend DEF CtrAdvance
<1>3. CASE CtrExit
  <2>1. PICK f \in BOOLEAN :
          fromCtr' = Append(fromCtr, [state |-> "Terminated", addrs |-> 0,
                                      failed |-> f])
    BY <1>3 DEF CtrExit
  <2>2. [state |-> "Terminated", addrs |-> 0, failed |-> f] \in CtrMsg
    BY DEF CtrMsg, CtrStates
  <2>3. ctr # "None" /\ ctr' = "Terminated" /\ CRank(ctr) < CRank(ctr')
    BY <1>3 DEF CtrExit, ActiveCtr, CRank
  <2>. QED
    BY <1>3, <2>1, <2>2, <2>3, CtrAppend DEF CtrExit, CtrValues, CtrStates
<1>4. CASE CtrKilled
  <2>1. CASE ctr \in ActiveCtr
    <3>1. fromCtr' = Append(fromCtr, [state |-> "Terminated", addrs |-> 0,
                                      failed |-> TRUE])
      BY <1>4, <2>1 DEF CtrKilled
    <3>2. [state |-> "Terminated", addrs |-> 0, failed |-> TRUE] \in CtrMsg
      BY DEF CtrMsg, CtrStates
    <3>3. ctr # "None" /\ ctr' = "Terminated" /\ CRank(ctr) < CRank(ctr')
      BY <1>4, <2>1 DEF CtrKilled, ActiveCtr, CRank
    <3>. QED
      BY <1>4, <3>1, <3>2, <3>3, CtrAppend DEF CtrKilled, CtrValues, CtrStates
  <2>2. CASE ctr \notin ActiveCtr
    BY <1>4, <2>2, FrozenStatus DEF CtrKilled
  <2>. QED
    BY <2>1, <2>2
<1>. QED
  BY <1>1, <1>2, <1>3, <1>4 DEF Environment
-----------------------------------------------------------------------------
(* Steps of the command actor.                                            *)

\* terminate() in PostStop with nothing allocated and nothing reported:
\* exit(Aborted) ends the status.
LEMMA AbortStop ==
    ASSUME SInv, ~allocation, container = "None", exitStatus = "None",
           phase' = "Stopped", Terminate(FALSE),
           UNCHANGED <<container, allocation, ctr, fromCtr>>
    PROVE  StatusOK
<1>1. exitStatus' = "Aborted" /\ gcPending' = TRUE
  BY DEF Terminate, Exit
<1>2. SInv'
  BY <1>1 DEF SInv, AllocIffCtr, ReportsRise, ExitRecorded
<1>3. StatusView!Next
  BY <1>1, StatusAbort
<1>. QED
  BY <1>2, <1>3 DEF StatusOK

\* terminate() in PostStop with an allocation only asks for the kill: the
\* status waits for the Terminated report.
LEMMA KillingStop ==
    ASSUME SInv, allocation, phase = "Alive",
           phase' = "Stopped", Terminate(FALSE),
           UNCHANGED <<container, allocation, ctr, fromCtr>>
    PROVE  StatusOK
<1>1. UNCHANGED <<exitStatus, gcPending>>
  BY DEF Terminate
<1>2. SInv'
  BY <1>1 DEF SInv, AllocIffCtr, ReportsRise, ExitRecorded
<1>. QED
  BY <1>1, <1>2, StatusStutter DEF StatusOK

\* PreStart: the request leaves the status Pending; a failed Ask aborts.
LEMMA PreStartStatus ==
    ASSUME TypeOK, IInv, SInv, PreStart
    PROVE  StatusOK
<1>1. /\ ctr = "None" /\ ~allocation /\ container = "None"
      /\ exitStatus = "None" /\ ~gcPending
  BY DEF PreStart, IInv, RouteInv, CreatedQuiet, SInv, AllocIffCtr,
         ExitRecorded
<1>2. CASE /\ rm' = "Requested"
           /\ phase' = "Alive"
           /\ events' = <<Ev("Scheduled", {})>>
           /\ UNCHANGED <<exitStatus, toRM, releases, gcPending, session, ctrKill>>
  <2>1. SInv'
    BY <1>1, <1>2 DEF PreStart, SInv, AllocIffCtr, ReportsRise, ExitRecorded
  <2>. QED
    BY <1>2, <2>1, StatusStutter DEF PreStart, StatusOK
<1>3. CASE phase' = "Stopped" /\ Terminate(FALSE) /\ UNCHANGED rm
  BY <1>1, <1>3, AbortStop DEF PreStart
<1>. QED
  BY <1>2, <1>3 DEF PreStart

\* The grant: the only grant finds no container, so Launching records the
\* allocation and the status stays Pending; a failed session start aborts.
LEMMA AllocatedStatus ==
    ASSUME TypeOK, IInv, SInv, ReceiveAllocated
    PROVE  StatusOK
<1>1. ctr = "None"
  <2>1. 1 \in 1..Len(fromRM) /\ fromRM[1] = "Allocated"
    BY DEF ReceiveAllocated, TypeOK
  <2>. QED
    BY <2>1 DEF IInv, RouteInv, OneGrant
<1>2. /\ container = "None" /\ fromCtr = <<>> /\ ~allocation
      /\ exitStatus = "None"
  BY <1>1, Derived DEF ReceiveAllocated, SInv, AllocIffCtr
<1>3. CASE /\ session' = TRUE
           /\ allocation' = TRUE
           /\ ctr' = "Launching"
           /\ events' = Append(events, Ev("Assigned", {}))
           /\ UNCHANGED <<phase, exitStatus, toRM, releases, gcPending, ctrKill>>
  <2>1. ReportsRise'
    BY <1>2, <1>3 DEF ReceiveAllocated, ReportsRise, CRank
  <2>2. SInv'
    BY <1>3, <2>1 DEF ReceiveAllocated, SInv, AllocIffCtr, ExitRecorded
  <2>. QED
    BY <1>3, <2>2, StatusStutter DEF ReceiveAllocated, StatusOK
<1>4. CASE SessionStartFails
  BY <1>2, <1>4, AbortStop DEF ReceiveAllocated, SessionStartFails
<1>. QED
  BY <1>3, <1>4 DEF ReceiveAllocated

\* The unhandled ReleaseResources stops the actor: an abort without an
\* allocation, a kill with one.
LEMMA ReleaseStatus ==
    ASSUME TypeOK, IInv, SInv, ReceiveRelease
    PROVE  StatusOK
<1>1. CASE allocation
  BY <1>1, KillingStop DEF ReceiveRelease
<1>2. CASE ~allocation
  <2>1. container = "None" /\ exitStatus = "None"
    BY <1>2, Derived DEF ReceiveRelease
  <2>. QED
    BY <1>2, <2>1, AbortStop DEF ReceiveRelease
<1>. QED
  BY <1>1, <1>2

\* With MaxKills = 0 no kill request is processed.
LEMMA NoKill ==
    ASSUME MaxKills = 0, TypeOK, Kill
    PROVE  FALSE
BY DEF Kill, TypeOK

\* A log line changes nothing the status reads.
LEMMA LogStatus ==
    ASSUME SInv, ReceiveLog
    PROVE  StatusOK
BY FrozenStatus DEF ReceiveLog

\* terminateForGC runs only after exit: the container reported Terminated,
\* so terminate() only asks for a kill.
LEMMA GCStatus ==
    ASSUME TypeOK, IInv, SInv, TerminateForGC
    PROVE  StatusOK
<1>1. exitStatus # "None"
  BY DEF TerminateForGC, SInv, ExitRecorded
<1>2. allocation
  BY <1>1, Derived DEF TerminateForGC
<1>. QED
  BY <1>2, KillingStop DEF TerminateForGC
\* A container state report: the next report in flight lies above the state
\* processed so far, so the status advances to it (or finishes with the
\* exit status on Terminated), and the rest still rise above it.
LEMMA ContainerStatus ==
    ASSUME TypeOK, IInv, SInv, ReceiveContainerState
    PROVE  StatusOK
<1> DEFINE n == Len(fromCtr)
           s == fromCtr[1].state
<1>0. fromCtr \in Seq(CtrMsg) /\ fromCtr # <<>>
  BY DEF ReceiveContainerState, TypeOK
<1>1. /\ n >= 1 /\ fromCtr \in Seq(CtrMsg)
      /\ Head(fromCtr) = fromCtr[1] /\ container' = s /\ s \in CtrStates
  <2>1. n >= 1 /\ Head(fromCtr) = fromCtr[1]
    BY <1>0
  <2>2. fromCtr[1] \in CtrMsg
    BY <1>0, <2>1
  <2>3. s \in CtrStates
    BY <2>2 DEF CtrMsg
  <2>. QED
    BY <1>0, <2>1, <2>3 DEF ReceiveContainerState
<1>2. /\ CRank(container) \in Nat /\ CRank(ctr) \in Nat
      /\ \A i \in 1..n : CRank(fromCtr[i].state) \in Nat
  BY CtrTyped, CRankFacts DEF CtrTypedOK
<1>3. exitStatus = "None" /\ ~gcPending
  BY <1>1, Derived DEF ReceiveContainerState, SInv, ExitRecorded
<1>4. CRank(container) < CRank(s) /\ CRank(s) <= CRank(ctr)
  BY <1>1 DEF SInv, ReportsRise
<1>5. /\ s = "Terminated" => exitStatus' \in {"Success", "Failure"} /\ gcPending'
      /\ s # "Terminated" => UNCHANGED <<exitStatus, gcPending>>
  BY <1>1 DEF ReceiveContainerState, Exit
<1>6. ReportsRise'
  <2>1. /\ fromCtr' \in Seq(CtrMsg) /\ Len(fromCtr') = n - 1
        /\ \A i \in 1..n - 1 : fromCtr'[i] = fromCtr[i + 1]
    BY <1>1, TailIndex DEF ReceiveContainerState
  <2>2. \A i \in 2..n : CRank(s) < CRank(fromCtr[i].state)
    BY <1>1, <1>2 DEF SInv, ReportsRise
  <2>3. CRank(container') <= CRank(ctr')
    BY <1>1, <1>4 DEF ReceiveContainerState
  <2>4. \A i \in 1..Len(fromCtr') :
           /\ CRank(container') < CRank(fromCtr'[i].state)
           /\ CRank(fromCtr'[i].state) <= CRank(ctr')
           /\ \A j \in 1..Len(fromCtr') :
                i < j => CRank(fromCtr'[i].state) < CRank(fromCtr'[j].state)
    BY <1>1, <1>2, <2>1, <2>2 DEF ReceiveContainerState, SInv, ReportsRise
  <2>. QED
    BY <2>3, <2>4 DEF ReportsRise
<1>7. ExitRecorded'
  BY <1>1, <1>3, <1>5 DEF ReceiveContainerState, ExitRecorded
<1>8. SInv'
  BY <1>6, <1>7 DEF ReceiveContainerState, SInv, AllocIffCtr
<1>9. StatusView!Next
  BY <1>1, <1>3, <1>4, <1>5, StatusReport DEF ExitStatuses
<1>. QED
  BY <1>8, <1>9 DEF StatusOK
-----------------------------------------------------------------------------
(* The theorem.                                                            *)

\* Every step of the system keeps StatusInv and is a step of the lifecycle,
\* or leaves the status alone, when no kill request is processed.
LEMMA StatusStep ==
    ASSUME MaxKills = 0, IInv, SInv, [Next]_vars
    PROVE  IInv' /\ StatusOK
<1>1. IInv'
  BY TypeNext, RouteNext DEF IInv
<1>2. TypeOK
  BY DEF IInv
<1>3. CASE PreStart
  BY <1>1, <1>2, <1>3, PreStartStatus
<1>4. CASE ReceiveAllocated
  BY <1>1, <1>2, <1>4, AllocatedStatus
<1>5. CASE ReceiveRelease
  BY <1>1, <1>2, <1>5, ReleaseStatus
<1>6. CASE Kill
  BY <1>1, <1>2, <1>6, NoKill
<1>7. CASE ReceiveContainerState
  BY <1>1, <1>2, <1>7, ContainerStatus
<1>8. CASE ReceiveLog
  BY <1>1, <1>8, LogStatus
<1>9. CASE TerminateForGC
  BY <1>1, <1>2, <1>9, GCStatus
<1>10. CASE Environment
  BY <1>1, <1>2, <1>10, EnvStatus
<1>11. CASE UNCHANGED vars
  BY <1>1, <1>11, FrozenStatus DEF vars
<1>. QED
  BY <1>1, <1>3, <1>4, <1>5, <1>6, <1>7, <1>8, <1>9, <1>10, <1>11
     DEF Next, Command

\* With no Kill*Request processed, command.State (command.go:357-377) and
\* the c.exitStatus that exit sets (:328) follow the lifecycle of
\* CommandStatus: Pending, then strictly later container states, then
\* Terminated with an exit status, never changing after.  The regression
\* found by MC_Command_status.cfg needs a kill racing the grant.
THEOREM StatusRefinedHolds == MaxKills = 0 => (Spec => StatusRefined)
<1> SUFFICES ASSUME MaxKills = 0 PROVE Spec => StatusRefined
  OBVIOUS
<1>1. Init => IInv /\ SInv /\ StatusView!Init
  <2> SUFFICES ASSUME Init PROVE IInv /\ SInv /\ StatusView!Init
    OBVIOUS
  <2>1. IInv /\ SInv
    BY TypeInit, RouteInit, StatusInit DEF IInv
  <2>2. State = "Pending" /\ exitStatus = "None"
    BY DEF Init, State
  <2>. QED
    BY <2>1, <2>2 DEF StatusView!Init
<1>2. IInv /\ SInv /\ [Next]_vars =>
         (IInv /\ SInv)' /\ [StatusView!Next]_StatusView!vars
  BY StatusStep DEF StatusOK
<1>. QED
  BY <1>1, <1>2, PTL DEF Spec, StatusRefined, StatusView!Spec
=============================================================================
