------------------------- MODULE CheckpointGC_proofs -------------------------
(***************************************************************************)
(* Proofs about the checkpoint-GC task model: type correctness, and that   *)
(* the task session exists exactly while the task is alive with its GC     *)
(* containers started, when DeleteTaskSessionByTaskID does not fail.       *)
(***************************************************************************)
EXTENDS CheckpointGC, TLAPS

USE GCAssumption

(* The inductive invariant: the types, the session lifecycle itself, and  *)
(* two facts about the actor's lifecycle it rests on: nothing is started  *)
(* before PreStart, and t.task is set from PreStart on.                    *)
IInv ==
    /\ TypeOK
    /\ SessionLifecycle
    /\ phase = "Created" => Started = {}
    /\ phase # "Created" => task

(* Starting the containers of an allocation of n >= 1 entries makes the   *)
(* set of started containers non-empty.                                    *)
LEMMA StartAllStarts ==
    ASSUME NEW n \in Allocs, ctrs \in [Allocs -> CtrStates], StartAll(n)
    PROVE  /\ ctrs' \in [Allocs -> CtrStates]
           /\ {a \in Allocs : ctrs'[a] # "None"} # {}
<1>1. 1 \in Allocs /\ ctrs'[1] = "Starting"
  BY DEF StartAll, Allocs
<1>. QED
  BY <1>1 DEF StartAll, CtrStates

(* The runtime's steps change one container from a started state to      *)
(* another: the set of started containers stays the same.                 *)
LEMMA CtrStepKeepsStarted ==
    ASSUME TypeOK, NEW a \in Allocs, CtrRun(a) \/ CtrExit(a)
    PROVE  /\ ctrs' \in [Allocs -> CtrStates]
           /\ fromCtr' \in Seq(CtrMsg)
           /\ Started' = Started
           /\ UNCHANGED <<phase, task, logs, session, rm, rmAsked, fromRM>>
<1>1. CASE CtrRun(a)
  BY <1>1 DEF CtrRun, TypeOK, CtrStates, CtrMsg, Started
<1>2. CASE CtrExit(a)
  <2>1. PICK failed \in BOOLEAN :
          fromCtr' = Append(fromCtr, [alloc |-> a, terminated |-> TRUE,
                                      failed |-> failed])
    BY <1>2, Zenon DEF CtrExit
  <2>. QED
    BY <1>2, <2>1 DEF CtrExit, TypeOK, CtrStates, CtrMsg, Started
<1>. QED
  BY <1>1, <1>2

-----------------------------------------------------------------------------
LEMMA InitIInv == Init => IInv
<1> SUFFICES ASSUME Init PROVE IInv
  OBVIOUS
<1>1. session = FALSE /\ task = FALSE /\ rmAsked = FALSE
  BY Zenon DEF Init
<1>2. /\ phase = "Created" /\ logs = 0 /\ rm = "Idle"
      /\ fromRM = <<>> /\ fromCtr = <<>>
      /\ ctrs = [a \in Allocs |-> "None"]
  BY Zenon DEF Init
<1>3. Started = {}
  BY <1>2 DEF Started
<1>4. ctrs \in [Allocs -> CtrStates]
  BY <1>2 DEF CtrStates
<1>5. TypeOK
  <2>1. session \in BOOLEAN /\ task \in BOOLEAN /\ rmAsked \in BOOLEAN
    BY <1>1, Zenon
  <2>2. logs \in 0..MaxGCLogs /\ fromRM \in Seq(RMMsg) /\ fromCtr \in Seq(CtrMsg)
    BY <1>2
  <2>. QED
    BY <2>1, <2>2, <1>2, <1>4 DEF TypeOK
<1>6. SessionLifecycle
  BY <1>1, <1>3 DEF SessionLifecycle
<1>. QED
  BY <1>2, <1>3, <1>5, <1>6 DEF IInv

LEMMA NextIInv == ~DeleteMayFail /\ IInv /\ [Next]_vars => IInv'
<1> SUFFICES ASSUME ~DeleteMayFail, IInv, [Next]_vars PROVE IInv'
  OBVIOUS
<1>. USE DEF IInv
<1>1. CASE PreStart
  <2>1. /\ phase' = "Alive" /\ task' = TRUE /\ rm' = "Requested"
        /\ UNCHANGED <<logs, session, rmAsked, fromRM, ctrs, fromCtr>>
    BY <1>1, Zenon DEF PreStart
  <2>2. Started = {} /\ ~session
    BY <1>1 DEF PreStart, SessionLifecycle
  <2>. QED
    BY <2>1, <2>2 DEF TypeOK, SessionLifecycle, Started
<1>2. CASE ReceiveAllocated
  <2>1. /\ phase = "Alive" /\ task
        /\ fromRM # <<>> /\ Head(fromRM).kind = "Allocated"
        /\ fromRM' = Tail(fromRM)
        /\ UNCHANGED <<task, logs, rm, rmAsked, fromCtr>>
    BY <1>2 DEF ReceiveAllocated
  <2>2. Head(fromRM) \in RMMsg /\ fromRM' \in Seq(RMMsg)
    BY <2>1 DEF TypeOK
  <2>3. Head(fromRM).n \in Allocs
    BY <2>1, <2>2 DEF RMMsg
  <2>4. CASE session' = TRUE /\ StartAll(Head(fromRM).n) /\ UNCHANGED phase
    <3>1. ctrs' \in [Allocs -> CtrStates] /\ Started' # {}
      BY <2>3, <2>4, StartAllStarts DEF TypeOK, Started
    <3>. QED
      BY <2>1, <2>2, <2>4, <3>1 DEF TypeOK, SessionLifecycle
  <2>5. CASE /\ DBMayFail /\ phase' = "Stopped"
             /\ \E opened \in BOOLEAN : DeleteSession(opened)
             /\ UNCHANGED ctrs
    <3>0. PICK opened \in BOOLEAN : DeleteSession(opened)
      BY <2>5
    <3>1. session' = FALSE
      BY <2>1, <3>0, Zenon DEF DeleteSession
    <3>2. Started' = Started /\ phase' \in {"Created", "Alive", "Stopped"}
      BY <2>5 DEF Started
    <3>3. TypeOK'
      <4>1. session' \in BOOLEAN
        BY <3>1, Zenon
      <4>. QED
        BY <2>1, <2>2, <4>1, <3>2, <2>5 DEF TypeOK
    <3>4. SessionLifecycle'
      BY <2>5, <3>1, Zenon DEF SessionLifecycle
    <3>. QED
      BY <2>1, <2>5, <3>3, <3>4 DEF IInv
  <2>. QED
    BY <1>2, <2>4, <2>5, Zenon DEF ReceiveAllocated
<1>3. CASE ReceiveRelease
  <2>1. /\ fromRM' = Tail(fromRM) /\ fromRM # <<>>
        /\ UNCHANGED <<phase, task, logs, session, rm, rmAsked, ctrs, fromCtr>>
    BY <1>3, Zenon DEF ReceiveRelease
  <2>. QED
    BY <2>1 DEF TypeOK, SessionLifecycle, Started
<1>4. CASE ReceiveContainerState
  <2>1. /\ phase = "Alive" /\ task /\ fromCtr # <<>>
        /\ fromCtr' = Tail(fromCtr)
        /\ UNCHANGED <<task, logs, rm, rmAsked, fromRM, ctrs>>
    BY <1>4 DEF ReceiveContainerState
  <2>2. fromCtr' \in Seq(CtrMsg)
    BY <2>1 DEF TypeOK
  <2>3. CASE StopsOnReport(Head(fromCtr))
    <3>1. phase' = "Stopped" /\ DeleteSession(session)
      BY <1>4, <2>3 DEF ReceiveContainerState
    <3>2. session' = FALSE
      BY <2>1, <3>1, Zenon DEF DeleteSession
    <3>3. TypeOK'
      <4>1. session' \in BOOLEAN
        BY <3>2, Zenon
      <4>. QED
        BY <2>1, <2>2, <3>1, <4>1 DEF TypeOK
    <3>4. SessionLifecycle'
      BY <3>1, <3>2, Zenon DEF SessionLifecycle
    <3>. QED
      BY <2>1, <3>1, <3>3, <3>4 DEF IInv
  <2>4. CASE ~StopsOnReport(Head(fromCtr))
    <3>1. UNCHANGED <<phase, session>>
      BY <1>4, <2>4 DEF ReceiveContainerState
    <3>. QED
      BY <2>1, <2>2, <3>1 DEF TypeOK, SessionLifecycle, Started
  <2>. QED
    BY <2>3, <2>4
<1>5. CASE ReceiveLog
  <2>1. /\ logs < MaxGCLogs /\ logs' = logs + 1
        /\ UNCHANGED <<phase, task, session, rm, rmAsked, fromRM, ctrs, fromCtr>>
    BY <1>5, Zenon DEF ReceiveLog
  <2>. QED
    BY <2>1 DEF TypeOK, SessionLifecycle, Started
<1>6. CASE RMAllocate
  <2>1. PICK n \in Allocs : fromRM' = Append(fromRM, [kind |-> "Allocated", n |-> n])
    BY <1>6, Zenon DEF RMAllocate
  <2>2. /\ rm' = "Granted"
        /\ UNCHANGED <<phase, task, logs, session, rmAsked, ctrs, fromCtr>>
    BY <1>6, Zenon DEF RMAllocate
  <2>. QED
    BY <2>1, <2>2 DEF TypeOK, RMMsg, SessionLifecycle, Started
<1>7. CASE RMAskRelease
  <2>1. /\ rmAsked' = TRUE /\ fromRM' = Append(fromRM, [kind |-> "Release"])
        /\ UNCHANGED <<phase, task, logs, session, rm, ctrs, fromCtr>>
    BY <1>7, Zenon DEF RMAskRelease
  <2>. QED
    BY <2>1 DEF TypeOK, RMMsg, SessionLifecycle, Started
<1>8. CASE \E a \in Allocs : CtrRun(a) \/ CtrExit(a)
  <2>1. PICK a \in Allocs : CtrRun(a) \/ CtrExit(a)
    BY <1>8
  <2>2. /\ ctrs' \in [Allocs -> CtrStates] /\ fromCtr' \in Seq(CtrMsg)
        /\ Started' = Started
        /\ UNCHANGED <<phase, task, logs, session, rm, rmAsked, fromRM>>
    BY <2>1, CtrStepKeepsStarted
  <2>. QED
    BY <2>2 DEF TypeOK, SessionLifecycle
<1>9. CASE UNCHANGED vars
  BY <1>9 DEF vars, TypeOK, SessionLifecycle, Started
<1>. QED
  BY <1>1, <1>2, <1>3, <1>4, <1>5, <1>6, <1>7, <1>8, <1>9
     DEF Next, Task, Environment

-----------------------------------------------------------------------------
(* When DeleteTaskSessionByTaskID does not fail, the GC task's session    *)
(* (StartTaskSession in the ResourcesAllocated handler, part_000:46, and  *)
(* DeleteTaskSessionByTaskID in PostStop, part_000:100-105) exists exactly *)
(* while the task is alive with its GC containers started.                 *)
THEOREM SessionLifecycleHolds == ~DeleteMayFail => (Spec => []SessionLifecycle)
<1> SUFFICES ASSUME ~DeleteMayFail PROVE Spec => []SessionLifecycle
  OBVIOUS
<1>1. Init => IInv
  BY InitIInv
<1>2. IInv /\ [Next]_vars => IInv'
  BY NextIInv
<1>3. IInv => SessionLifecycle
  BY DEF IInv
<1>. QED
  BY <1>1, <1>2, <1>3, PTL DEF Spec

-----------------------------------------------------------------------------
(* Type correctness, whatever the DB does.                                 *)

\* PostStop's session deletion leaves a Boolean session.
LEMMA DeleteSessionType ==
    ASSUME NEW had \in BOOLEAN, DeleteSession(had)
    PROVE  session' \in BOOLEAN
BY Zenon DEF DeleteSession

LEMMA TypeNext == TypeOK /\ [Next]_vars => TypeOK'
<1> SUFFICES ASSUME TypeOK, [Next]_vars PROVE TypeOK'
  OBVIOUS
<1>1. CASE PreStart
  BY <1>1 DEF PreStart, TypeOK
<1>2. CASE ReceiveAllocated
  <2>1. /\ fromRM # <<>> /\ Head(fromRM).kind = "Allocated"
        /\ fromRM' = Tail(fromRM)
        /\ UNCHANGED <<task, logs, rm, rmAsked, fromCtr>>
    BY <1>2 DEF ReceiveAllocated
  <2>2. Head(fromRM).n \in Allocs /\ fromRM' \in Seq(RMMsg)
    BY <2>1 DEF TypeOK, RMMsg
  <2>3. CASE session' = TRUE /\ StartAll(Head(fromRM).n) /\ UNCHANGED phase
    BY <2>1, <2>2, <2>3, StartAllStarts DEF TypeOK
  <2>4. CASE /\ DBMayFail /\ phase' = "Stopped"
             /\ \E opened \in BOOLEAN : DeleteSession(opened)
             /\ UNCHANGED ctrs
    <3>1. session' \in BOOLEAN
      BY <2>4, DeleteSessionType
    <3>. QED
      BY <2>1, <2>2, <2>4, <3>1 DEF TypeOK
  <2>. QED
    BY <1>2, <2>3, <2>4, Zenon DEF ReceiveAllocated
<1>3. CASE ReceiveRelease
  BY <1>3 DEF ReceiveRelease, TypeOK
<1>4. CASE ReceiveContainerState
  <2>1. /\ fromCtr # <<>> /\ fromCtr' = Tail(fromCtr)
        /\ UNCHANGED <<task, logs, rm, rmAsked, fromRM, ctrs>>
    BY <1>4 DEF ReceiveContainerState
  <2>2. /\ phase' \in {"Created", "Alive", "Stopped"}
        /\ session' \in BOOLEAN
    BY <1>4, DeleteSessionType DEF ReceiveContainerState, TypeOK
  <2>. QED
    BY <2>1, <2>2 DEF TypeOK
<1>5. CASE ReceiveLog
  BY <1>5 DEF ReceiveLog, TypeOK
<1>6. CASE RMAllocate
  BY <1>6 DEF RMAllocate, TypeOK, RMMsg
<1>7. CASE RMAskRelease
  BY <1>7 DEF RMAskRelease, TypeOK, RMMsg
<1>8. CASE \E a \in Allocs : CtrRun(a) \/ CtrExit(a)
  BY <1>8, CtrStepKeepsStarted DEF TypeOK
<1>9. CASE UNCHANGED vars
  BY <1>9 DEF vars, TypeOK
<1>. QED
  BY <1>1, <1>2, <1>3, <1>4, <1>5, <1>6, <1>7, <1>8, <1>9
     DEF Next, Task, Environment

\* Every variable of the GC task model keeps its type, whether or not the
\* DB calls of the allocation handler and of PostStop fail.
THEOREM TypeCorrect == Spec => []TypeOK
<1>1. Init => TypeOK
  BY InitIInv DEF IInv
<1>. QED
  BY <1>1, TypeNext, PTL DEF Spec

-----------------------------------------------------------------------------
(* StopsAfterJob.                                                          *)

\* ResourcesAllocated messages waiting in the task's mailbox.
GrantPending == \E i \in 1..Len(fromRM) : fromRM[i].kind = "Allocated"

\* The RM grants once, before it the task has started nothing, and a
\* pending grant finds nothing started; a Terminated report in flight is
\* about a container that has terminated.
JobFacts ==
    /\ phase = "Created" => rm = "Idle"
    /\ rm \in {"Idle", "Requested"} => Started = {} /\ ~GrantPending
    /\ \A i, j \in 1..Len(fromRM) :
         fromRM[i].kind = "Allocated" /\ fromRM[j].kind = "Allocated" => i = j
    /\ GrantPending => Started = {}
    /\ \A i \in 1..Len(fromCtr) :
         fromCtr[i].terminated => ctrs[fromCtr[i].alloc] = "Terminated"

(* The inductive invariant of StopsAfterJob: the RM grants the GC task's  *)
(* single request once (part_000:58-77), and the task stops on a          *)
(* Terminated report (part_000:79-95) only after that container exited.   *)
JobInv == TypeOK /\ JobFacts /\ StopsAfterJob
\* Removing the head of a channel shifts the other messages down by one.
LEMMA TailShift ==
    ASSUME NEW S, NEW q \in Seq(S), q # <<>>
    PROVE  /\ Tail(q) \in Seq(S) /\ Len(Tail(q)) = Len(q) - 1
           /\ \A i \in 1..Len(Tail(q)) : Tail(q)[i] = q[i + 1]
OBVIOUS

\* Every report in flight names an allocation.
LEMMA CtrAllocs ==
    ASSUME TypeOK
    PROVE  \A i \in 1..Len(fromCtr) : fromCtr[i].alloc \in Allocs
<1>1. \A i \in 1..Len(fromCtr) : fromCtr[i] \in CtrMsg
  BY DEF TypeOK
<1>. QED
  BY <1>1 DEF CtrMsg

\* The task's handlers of RM messages keep JobInv.
LEMMA JobRM ==
    ASSUME JobInv, TypeOK', ReceiveAllocated \/ ReceiveRelease
    PROVE  JobInv'
<1>1. /\ phase = "Alive" /\ fromRM # <<>> /\ fromRM' = Tail(fromRM)
      /\ UNCHANGED <<task, logs, rm, rmAsked, fromCtr>>
  BY DEF ReceiveAllocated, ReceiveRelease
<1>2. /\ Len(fromRM') = Len(fromRM) - 1
      /\ \A i \in 1..Len(fromRM') : fromRM'[i] = fromRM[i + 1]
      /\ 1 \in 1..Len(fromRM) /\ Head(fromRM) = fromRM[1]
  BY <1>1, TailShift DEF JobInv, TypeOK
<1>3. GrantPending' => GrantPending
  BY <1>2 DEF GrantPending
<1>4. \A i, j \in 1..Len(fromRM') :
         fromRM'[i].kind = "Allocated" /\ fromRM'[j].kind = "Allocated" => i = j
  BY <1>2 DEF JobInv, JobFacts
<1>5. CASE ReceiveAllocated
  <2>1. GrantPending /\ ~GrantPending'
    BY <1>2, <1>5 DEF ReceiveAllocated, GrantPending, JobInv, JobFacts
  <2>2. Started = {} /\ rm = "Granted"
    BY <2>1 DEF JobInv, JobFacts, TypeOK
  <2>3. \A i \in 1..Len(fromCtr) : ~fromCtr[i].terminated
    <3>1. \A a \in Allocs : ctrs[a] = "None"
      BY <2>2 DEF Started
    <3>2. \A i \in 1..Len(fromCtr) : fromCtr[i].alloc \in Allocs
      BY CtrAllocs DEF JobInv
    <3>. QED
      BY <3>1, <3>2 DEF JobInv, JobFacts
  <2>4. CASE session' = TRUE /\ StartAll(Head(fromRM).n) /\ UNCHANGED phase
    <3>1. StopsAfterJob'
      BY <1>1, <2>4 DEF StopsAfterJob
    <3>. QED
      BY <1>1, <1>4, <2>1, <2>2, <2>3, <3>1, <2>4 DEF JobInv, JobFacts
  <2>5. CASE phase' = "Stopped" /\ UNCHANGED ctrs
    <3>1. Started' = {}
      BY <2>2, <2>5 DEF Started
    <3>. QED
      BY <1>1, <1>4, <2>1, <2>2, <3>1, <2>5 DEF JobInv, JobFacts, StopsAfterJob
  <2>. QED
    BY <1>5, <2>4, <2>5 DEF ReceiveAllocated
<1>6. CASE ReceiveRelease
  <2>1. UNCHANGED <<phase, session, ctrs>>
    BY <1>6 DEF ReceiveRelease
  <2>. QED
    BY <1>1, <1>3, <1>4, <2>1 DEF JobInv, JobFacts, StopsAfterJob, Started
<1>. QED
  BY <1>5, <1>6

\* A container state report keeps JobInv: a Terminated report concerns a
\* terminated container, the only one of the single allocation.
LEMMA JobReport ==
    ASSUME MaxAllocs = 1, JobInv, TypeOK', ReceiveContainerState
    PROVE  JobInv'
<1>1. /\ fromCtr # <<>> /\ fromCtr' = Tail(fromCtr)
      /\ UNCHANGED <<task, logs, rm, rmAsked, fromRM, ctrs>>
  BY DEF ReceiveContainerState
<1>2. /\ Len(fromCtr') = Len(fromCtr) - 1
      /\ \A i \in 1..Len(fromCtr') : fromCtr'[i] = fromCtr[i + 1]
      /\ 1 \in 1..Len(fromCtr) /\ Head(fromCtr) = fromCtr[1]
  BY <1>1, TailShift DEF JobInv, TypeOK
<1>3. JobFacts'
  BY <1>1, <1>2 DEF JobInv, JobFacts, GrantPending, Started, ReceiveContainerState
<1>4. CASE StopsOnReport(Head(fromCtr))
  <2>1. ctrs[fromCtr[1].alloc] = "Terminated"
    BY <1>2, <1>4 DEF StopsOnReport, JobInv, JobFacts
  <2>2. fromCtr[1].alloc = 1 /\ Started \subseteq {1}
    BY <1>2, CtrAllocs DEF JobInv, Allocs, Started
  <2>. QED
    BY <1>1, <1>3, <2>1, <2>2 DEF JobInv, StopsAfterJob, Started
<1>5. CASE ~StopsOnReport(Head(fromCtr))
  BY <1>1, <1>3, <1>5 DEF ReceiveContainerState, JobInv, StopsAfterJob, Started
<1>. QED
  BY <1>4, <1>5

\* The RM's grant and release request keep JobInv.
LEMMA JobRMSend ==
    ASSUME JobInv, TypeOK', RMAllocate \/ RMAskRelease
    PROVE  JobInv'
<1>1. /\ UNCHANGED <<phase, task, logs, session, ctrs, fromCtr>>
      /\ \E m \in RMMsg : fromRM' = Append(fromRM, m)
  BY DEF RMAllocate, RMAskRelease, RMMsg
<1>2. PICK m \in RMMsg : fromRM' = Append(fromRM, m)
  BY <1>1
<1>3. /\ Len(fromRM') = Len(fromRM) + 1
      /\ \A i \in 1..Len(fromRM) : fromRM'[i] = fromRM[i]
      /\ fromRM'[Len(fromRM) + 1] = m
  BY <1>2 DEF JobInv, TypeOK
<1>4. CASE RMAllocate
  <2>1. rm = "Requested" /\ rm' = "Granted"
    BY <1>4 DEF RMAllocate
  <2>2. Started = {} /\ ~GrantPending
    BY <2>1 DEF JobInv, JobFacts
  <2>3. \A i \in 1..Len(fromRM') : fromRM'[i].kind = "Allocated" =>
          i = Len(fromRM) + 1
    BY <1>3, <2>2 DEF GrantPending
  <2>. QED
    BY <1>1, <2>1, <2>2, <2>3 DEF JobInv, JobFacts, StopsAfterJob, Started
<1>5. CASE RMAskRelease
  <2>1. rm = "Granted" /\ UNCHANGED rm /\ m = [kind |-> "Release"]
    <3>1. fromRM' = Append(fromRM, [kind |-> "Release"]) /\ rm = "Granted"
          /\ UNCHANGED rm
      BY <1>5 DEF RMAskRelease
    <3>. QED
      BY <1>3, <3>1 DEF JobInv, TypeOK
  <2>2. GrantPending' = GrantPending
    BY <1>3, <2>1 DEF GrantPending
  <2>3. \A i \in 1..Len(fromRM') : fromRM'[i].kind = "Allocated" =>
          i \in 1..Len(fromRM) /\ fromRM[i].kind = "Allocated"
    BY <1>3, <2>1
  <2>. QED
    BY <1>1, <2>1, <2>2, <2>3 DEF JobInv, JobFacts, StopsAfterJob, Started
<1>. QED
  BY <1>4, <1>5

\* A GC container runs or exits: it was started, so the grant was
\* processed and the task is not stopped; a Terminated report is about
\* the container that has just terminated.
LEMMA JobCtr ==
    ASSUME JobInv, TypeOK', NEW a \in Allocs, CtrRun(a) \/ CtrExit(a)
    PROVE  JobInv'
<1>1. /\ ctrs[a] \in {"Starting", "Running"}
      /\ UNCHANGED <<phase, task, logs, session, rm, rmAsked, fromRM>>
  BY DEF CtrRun, CtrExit
<1>2. Started' = Started /\ a \in Started
  BY <1>1, CtrStepKeepsStarted DEF JobInv, Started
<1>3. rm = "Granted" /\ ~GrantPending /\ phase # "Stopped"
      /\ phase # "Created"
  BY <1>1, <1>2 DEF JobInv, JobFacts, StopsAfterJob, TypeOK
<1>4. PICK m \in CtrMsg :
        /\ fromCtr' = Append(fromCtr, m) /\ m.alloc = a
        /\ m.terminated => ctrs'[a] = "Terminated"
  <2>1. CASE CtrRun(a)
    <3>1. [alloc |-> a, terminated |-> FALSE, failed |-> FALSE] \in CtrMsg
      BY DEF CtrMsg
    <3>. QED
      BY <2>1, <3>1 DEF CtrRun
  <2>2. CASE CtrExit(a)
    <3>1. PICK f \in BOOLEAN :
            fromCtr' = Append(fromCtr, [alloc |-> a, terminated |-> TRUE,
                                        failed |-> f])
      BY <2>2 DEF CtrExit
    <3>2. [alloc |-> a, terminated |-> TRUE, failed |-> f] \in CtrMsg
      BY DEF CtrMsg
    <3>3. ctrs'[a] = "Terminated"
      BY <2>2 DEF CtrExit, JobInv, TypeOK
    <3>. QED
      BY <3>1, <3>2, <3>3
  <2>. QED
    BY <2>1, <2>2
<1>5. \A b \in Allocs : b # a => ctrs'[b] = ctrs[b]
  BY DEF CtrRun, CtrExit, JobInv, TypeOK
<1>6. \A i \in 1..Len(fromCtr') :
         fromCtr'[i].terminated => ctrs'[fromCtr'[i].alloc] = "Terminated"
  <2>1. /\ Len(fromCtr') = Len(fromCtr) + 1
        /\ \A i \in 1..Len(fromCtr) : fromCtr'[i] = fromCtr[i]
        /\ fromCtr'[Len(fromCtr) + 1] = m
    BY <1>4 DEF JobInv, TypeOK
  <2>2. \A i \in 1..Len(fromCtr) :
           fromCtr[i].terminated => fromCtr[i].alloc # a
    BY <1>1 DEF JobInv, JobFacts
  <2>3. \A i \in 1..Len(fromCtr) : fromCtr[i].alloc \in Allocs
    BY CtrAllocs DEF JobInv
  <2>. QED
    BY <1>4, <1>5, <2>1, <2>2, <2>3 DEF JobInv, JobFacts
<1>. QED
  BY <1>1, <1>2, <1>3, <1>6 DEF JobInv, JobFacts, StopsAfterJob, GrantPending

\* JobInv holds initially and, with one allocation, is kept by every step.
LEMMA JobInit == Init => JobInv
<1> SUFFICES ASSUME Init PROVE JobInv
  OBVIOUS
<1>1. TypeOK /\ Started = {} /\ phase = "Created"
  BY InitIInv DEF IInv, Init
<1>2. rm = "Idle" /\ fromRM = <<>> /\ fromCtr = <<>>
  BY DEF Init
<1>. QED
  BY <1>1, <1>2 DEF JobInv, JobFacts, GrantPending, StopsAfterJob

LEMMA JobNext == MaxAllocs = 1 /\ JobInv /\ [Next]_vars => JobInv'
<1> SUFFICES ASSUME MaxAllocs = 1, JobInv, [Next]_vars PROVE JobInv'
  OBVIOUS
<1>0. TypeOK'
  BY TypeNext DEF JobInv
<1>1. CASE PreStart
  <2>1. rm = "Idle" /\ Started = {} /\ ~GrantPending
    BY <1>1 DEF PreStart, JobInv, JobFacts
  <2>. QED
    BY <1>0, <1>1, <2>1 DEF PreStart, JobInv, JobFacts, GrantPending,
       Started, StopsAfterJob
<1>2. CASE ReceiveAllocated \/ ReceiveRelease
  BY <1>0, <1>2, JobRM
<1>3. CASE ReceiveContainerState
  BY <1>0, <1>3, JobReport
<1>4. CASE ReceiveLog
  BY <1>0, <1>4 DEF ReceiveLog, JobInv, JobFacts, GrantPending, Started,
     StopsAfterJob
<1>5. CASE RMAllocate \/ RMAskRelease
  BY <1>0, <1>5, JobRMSend
<1>6. CASE \E a \in Allocs : CtrRun(a) \/ CtrExit(a)
  BY <1>0, <1>6, JobCtr
<1>7. CASE UNCHANGED vars
  BY <1>0, <1>7 DEF vars, JobInv, JobFacts, GrantPending, Started,
     StopsAfterJob
<1>. QED
  BY <1>1, <1>2, <1>3, <1>4, <1>5, <1>6, <1>7 DEF Next, Task, Environment

\* With the single allocation the GC task's request gets, the task stops
\* (part_000:79-95) only after its GC container has terminated, whatever
\* the RM sends and whether or not the DB calls fail.  With two
\* allocations the first Terminated report stops it while the other runs
\* (gc_multi_alloc).
THEOREM StopsAfterJobHolds == MaxAllocs = 1 => (Spec => []StopsAfterJob)
<1> SUFFICES ASSUME MaxAllocs = 1 PROVE Spec => []StopsAfterJob
  OBVIOUS
<1>1. Init => JobInv
  BY JobInit
<1>2. JobInv /\ [Next]_vars => JobInv'
  BY JobNext
<1>3. JobInv => StopsAfterJob
  BY DEF JobInv
<1>. QED
  BY <1>1, <1>2, <1>3, PTL DEF Spec
\* The inductive invariant of StopsAfterJob holds in every reachable state
\* with one allocation: the RM's single grant of the GC task's request
\* (part_000:58-77) finds nothing started, and a Terminated report
\* (part_000:79-95) is about a container that has terminated.
THEOREM JobInvHolds == MaxAllocs = 1 => (Spec => []JobInv)
<1> SUFFICES ASSUME MaxAllocs = 1 PROVE Spec => []JobInv
  OBVIOUS
<1>. QED
  BY JobInit, JobNext, PTL DEF Spec

-----------------------------------------------------------------------------
(* The GC task implements the abstract GC controller GCJob.                *)

\* With one allocation, the started containers are at most the first.
LEMMA OneAlloc ==
    ASSUME MaxAllocs = 1
    PROVE  /\ Allocs = {1}
           /\ Started \subseteq {1} /\ Started' \subseteq {1}
           /\ JobDone <=> (1 \in Started /\ ctrs[1] = "Terminated")
           /\ JobDone' <=> (1 \in Started' /\ ctrs'[1] = "Terminated")
BY DEF Allocs, Started, JobDone

\* A step that changes neither the phase, the session nor any container is
\* a stutter of GCJob.
LEMMA FrozenJob ==
    ASSUME UNCHANGED <<phase, session, ctrs>>
    PROVE  UNCHANGED JobView!vars
BY DEF JobView!vars, JobStage, JobDone, Started

\* Every step of the GC task model is a step of GCJob or a stutter.
LEMMA JobViewStep ==
    ASSUME MaxAllocs = 1, IInv, JobInv, IInv', JobInv', [Next]_vars
    PROVE  [JobView!Next]_JobView!vars
<1>0. /\ Allocs = {1} /\ Started \subseteq {1} /\ Started' \subseteq {1}
      /\ JobDone <=> (1 \in Started /\ ctrs[1] = "Terminated")
      /\ JobDone' <=> (1 \in Started' /\ ctrs'[1] = "Terminated")
  BY OneAlloc
<1>1. CASE PreStart
  <2>1. Started = {} /\ Started' = {} /\ phase' = "Alive"
        /\ UNCHANGED <<session, ctrs>>
    BY <1>1 DEF PreStart, IInv, Started
  <2>. QED
    BY <1>1, <2>1 DEF PreStart, JobView!vars, JobStage, JobDone
<1>2. CASE ReceiveAllocated
  <2>1. /\ phase = "Alive" /\ fromRM # <<>> /\ Head(fromRM).kind = "Allocated"
    BY <1>2 DEF ReceiveAllocated
  <2>2. Started = {}
    <3>1. 1 \in 1..Len(fromRM) /\ fromRM[1] = Head(fromRM)
      BY <2>1 DEF JobInv, TypeOK
    <3>. QED
      BY <2>1, <3>1 DEF JobInv, JobFacts, GrantPending
  <2>3. JobStage = "Waiting" /\ ~JobDone
    BY <2>1, <2>2 DEF JobStage, JobDone
  <2>4. CASE session' = TRUE /\ StartAll(Head(fromRM).n) /\ UNCHANGED phase
    <3>1. Head(fromRM).n \in Allocs /\ Head(fromRM).n >= 1
      BY <2>1 DEF JobInv, TypeOK, RMMsg, Allocs
    <3>2. ctrs'[1] = "Starting"
      BY <1>0, <2>4, <3>1 DEF StartAll
    <3>3. 1 \in Started'
      BY <1>0, <3>2 DEF Started
    <3>4. JobStage' = "Running" /\ ~JobDone'
      BY <1>0, <2>1, <2>4, <3>2, <3>3 DEF JobStage
    <3>5. JobDone' = JobDone
      BY <2>3, <3>4, Zenon DEF JobDone
    <3>6. JobView!Start
      BY <2>3, <2>4, <3>4, <3>5 DEF JobView!Start
    <3>. QED
      BY <3>6 DEF JobView!Next
  <2>5. CASE phase' = "Stopped" /\ UNCHANGED ctrs
    <3>1. Started' = {} /\ session' = FALSE
      BY <2>2, <2>5 DEF Started, IInv, SessionLifecycle
    <3>2. JobStage' = "Stopped" /\ ~JobDone'
      BY <2>5, <3>1 DEF JobStage, JobDone
    <3>3. JobDone' = JobDone
      BY <2>3, <3>2, Zenon DEF JobDone
    <3>4. JobView!Abort
      BY <2>3, <3>1, <3>2, <3>3 DEF JobView!Abort
    <3>. QED
      BY <3>4 DEF JobView!Next
  <2>. QED
    BY <1>2, <2>4, <2>5 DEF ReceiveAllocated
<1>3. CASE ReceiveContainerState
  <2>1. /\ phase = "Alive" /\ fromCtr # <<>> /\ UNCHANGED ctrs
    BY <1>3 DEF ReceiveContainerState
  <2>2. CASE StopsOnReport(Head(fromCtr))
    <3>1. 1 \in 1..Len(fromCtr) /\ Head(fromCtr) = fromCtr[1]
      BY <2>1 DEF JobInv, TypeOK
    <3>2. fromCtr[1].alloc \in Allocs
      BY <3>1, CtrAllocs DEF JobInv
    <3>3. ctrs[1] = "Terminated"
      BY <1>0, <2>2, <3>1, <3>2 DEF StopsOnReport, JobInv, JobFacts
    <3>4. 1 \in Started /\ JobDone /\ JobStage = "Running"
      BY <1>0, <2>1, <3>3 DEF Started, JobStage
    <3>5. phase' = "Stopped" /\ session' = FALSE
      BY <1>3, <2>2 DEF ReceiveContainerState, IInv, SessionLifecycle
    <3>6. JobDone' /\ JobStage' = "Stopped"
      BY <2>1, <3>4, <3>5 DEF JobDone, JobStage, Started
    <3>7. JobView!Stop
      BY <3>4, <3>5, <3>6 DEF JobView!Stop
    <3>. QED
      BY <3>7 DEF JobView!Next
  <2>3. CASE ~StopsOnReport(Head(fromCtr))
    BY <1>3, <2>3, FrozenJob DEF ReceiveContainerState
  <2>. QED
    BY <2>2, <2>3
<1>4. CASE ReceiveRelease \/ ReceiveLog \/ RMAllocate \/ RMAskRelease
           \/ UNCHANGED vars
  BY <1>4, FrozenJob DEF ReceiveRelease, ReceiveLog, RMAllocate, RMAskRelease,
     vars
<1>5. CASE \E a \in Allocs : CtrRun(a) \/ CtrExit(a)
  <2>1. PICK a \in Allocs : CtrRun(a) \/ CtrExit(a)
    BY <1>5
  <2>2. a = 1 /\ ctrs[1] \in {"Starting", "Running"}
        /\ UNCHANGED <<phase, session>>
    BY <1>0, <2>1 DEF CtrRun, CtrExit
  <2>3. 1 \in Started /\ 1 \in Started' /\ ~JobDone
    BY <1>0, <2>2, <2>1 DEF Started, CtrRun, CtrExit, JobInv, TypeOK, CtrStates
  <2>4. phase # "Stopped"
    BY <2>2, <2>3 DEF JobInv, StopsAfterJob
  <2>5. JobStage = "Running" /\ JobStage' = "Running"
    BY <2>2, <2>3, <2>4 DEF JobStage
  <2>6. CASE CtrRun(a)
    <3>1. ~JobDone'
      BY <1>0, <2>2, <2>6 DEF CtrRun, JobInv, TypeOK
    <3>2. JobDone' = JobDone
      BY <2>3, <3>1, Zenon DEF JobDone
    <3>. QED
      BY <2>2, <2>5, <3>2 DEF JobView!vars
  <2>7. CASE CtrExit(a)
    <3>1. JobDone'
      BY <1>0, <2>2, <2>3, <2>7 DEF CtrExit, JobInv, TypeOK
    <3>2. JobView!Finish
      BY <2>2, <2>3, <2>5, <3>1 DEF JobView!Finish
    <3>. QED
      BY <3>2 DEF JobView!Next
  <2>. QED
    BY <2>1, <2>6, <2>7
<1>. QED
  BY <1>1, <1>2, <1>3, <1>4, <1>5 DEF Next, Task, Environment

\* With the single allocation of the GC task's request and a session
\* deletion that does not fail, the GC task (part_000:35-105) implements
\* GCJob, the controller of spec section 4.2: it waits for the allocation,
\* opens the session with the job, lets the job run to completion whatever
\* the RM sends, and stops closing the session, or stops at once on a DB
\* error before the job starts.
THEOREM GCRefinedHolds ==
    MaxAllocs = 1 /\ ~DeleteMayFail => (Spec => GCRefined)
<1> SUFFICES ASSUME MaxAllocs = 1, ~DeleteMayFail PROVE Spec => GCRefined
  OBVIOUS
<1>1. Init => IInv /\ JobInv /\ JobView!Init
  <2> SUFFICES ASSUME Init PROVE IInv /\ JobInv /\ JobView!Init
    OBVIOUS
  <2>1. IInv /\ JobInv
    BY InitIInv, JobInit
  <2>2. phase = "Created" /\ session = FALSE /\ Started = {}
    BY <2>1 DEF Init, IInv
  <2>3. JobView!Init
    BY <2>2 DEF JobView!Init, JobStage, JobDone
  <2>. QED
    BY <2>1, <2>3
<1>2. IInv /\ JobInv /\ [Next]_vars =>
         (IInv /\ JobInv)' /\ [JobView!Next]_JobView!vars
  <2> SUFFICES ASSUME IInv, JobInv, [Next]_vars
               PROVE  (IInv /\ JobInv)' /\ [JobView!Next]_JobView!vars
    OBVIOUS
  <2>1. IInv' /\ JobInv'
    BY NextIInv, JobNext
  <2>. QED
    BY <2>1, JobViewStep
<1>. QED
  BY <1>1, <1>2, PTL DEF Spec, GCRefined, JobView!Spec
=============================================================================
