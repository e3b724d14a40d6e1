---------------------- MODULE CommandReadiness_proofs ----------------------
(***************************************************************************)
(* Proof that the ContainerLog handler of command.go implements the        *)
(* abstract Readiness specification (Command!ReadinessRefined), for every  *)
(* set of readiness checks and every bound.                                *)
(***************************************************************************)
EXTENDS Command_proofs, FiniteSetTheorems

\* The refinement mapping's two views of an event history.
PassedIn(s) == UNION {s[j].line : j \in {j \in 1..Len(s) : s[j].kind = "Log"}}
ReadyIn(s) == {i \in 1..Len(s) : s[i].kind = "ServiceReady"}

\* Before the ready event, c.readinessChecks holds exactly the checks no
\* published log line has passed and no ServiceReady was published; after
\* it, exactly one was.  No event precedes PreStart.
RInv ==
    /\ phase = "Created" => events = <<>>
    /\ ~readinessMessageSent =>
          /\ readinessChecks = Checks \ PassedIn(events)
          /\ ReadyIn(events) = {}
    /\ readinessMessageSent => \E k \in 1..Len(events) : ReadyIn(events) = {k}

RefInv == TypeOK /\ RInv

USE BoundsAssumption DEF cmdVars, rmVars, ctrVars, envVars

-----------------------------------------------------------------------------
(* How the two views change when one event is published.                 *)

\* A check is passed by a history iff some Log event of it passes it.
LEMMA PassedInMember ==
    ASSUME NEW s, NEW x
    PROVE  x \in PassedIn(s) <=>
             \E j \in 1..Len(s) : s[j].kind = "Log" /\ x \in s[j].line
BY DEF PassedIn

AppendViewOK(s, e) ==
    /\ PassedIn(Append(s, e)) =
          IF e.kind = "Log" THEN PassedIn(s) \cup e.line ELSE PassedIn(s)
    /\ ReadyIn(Append(s, e)) =
          IF e.kind = "ServiceReady" THEN ReadyIn(s) \cup {Len(s) + 1}
                                     ELSE ReadyIn(s)

\* Appending an event adds its line to the passed checks if it is a Log
\* event, and its index to the ready events if it is a ServiceReady.
LEMMA AppendView ==
    ASSUME NEW s \in Seq(Event), NEW e \in Event
    PROVE  AppendViewOK(s, e)
<1> DEFINE t == Append(s, e)
           n == Len(s)
<1>1. /\ Len(t) = n + 1
      /\ \A j \in 1..n : t[j] = s[j]
      /\ t[n + 1] = e
  OBVIOUS
<1>2. ReadyIn(t) = IF e.kind = "ServiceReady" THEN ReadyIn(s) \cup {n + 1}
                                              ELSE ReadyIn(s)
  BY <1>1 DEF ReadyIn
<1>3. PassedIn(t) = IF e.kind = "Log" THEN PassedIn(s) \cup e.line
                                      ELSE PassedIn(s)
  <2> SUFFICES ASSUME NEW x
               PROVE  x \in PassedIn(t) <=>
                        x \in (IF e.kind = "Log" THEN PassedIn(s) \cup e.line
                                                 ELSE PassedIn(s))
    OBVIOUS
  <2>1. x \in PassedIn(t) <=>
          \E j \in 1..n + 1 : t[j].kind = "Log" /\ x \in t[j].line
    BY <1>1, PassedInMember
  <2>2. x \in PassedIn(s) <=>
          \E j \in 1..n : s[j].kind = "Log" /\ x \in s[j].line
    BY PassedInMember
  <2>. QED
    BY <1>1, <2>1, <2>2
<1>. QED
  BY <1>2, <1>3 DEF AppendViewOK

\* Publishing an event that is neither a log line nor the ready event
\* changes neither view.
LEMMA AppendQuiet ==
    ASSUME NEW s \in Seq(Event),
           NEW k \in {"Scheduled", "Assigned", "ContainerStarted", "Exited"}
    PROVE  /\ PassedIn(Append(s, Ev(k, {}))) = PassedIn(s)
           /\ ReadyIn(Append(s, Ev(k, {}))) = ReadyIn(s)
<1>1. Ev(k, {}) \in Event
  BY DEF Ev, Event, EventKinds
<1>2. AppendViewOK(s, Ev(k, {}))
  BY <1>1, AppendView
<1>. QED
  BY <1>2 DEF AppendViewOK, Ev

-----------------------------------------------------------------------------
(* Every handler but ContainerLog leaves the abstract state alone.        *)

EventsQuiet ==
    /\ PassedIn(events') = PassedIn(events)
    /\ ReadyIn(events') = ReadyIn(events)

Quiet ==
    /\ UNCHANGED <<readinessChecks, readinessMessageSent>>
    /\ EventsQuiet
    /\ phase' = "Created" => events' = <<>>

\* exit() publishes at most an Exited event.
LEMMA ExitQuiet ==
    ASSUME TypeOK, NEW st, NEW live \in BOOLEAN, Exit(st, live)
    PROVE  EventsQuiet
<1>1. CASE live
  <2>1. events' = Append(events, Ev("Exited", {}))
    BY <1>1 DEF Exit
  <2>. QED
    BY <2>1, AppendQuiet DEF EventsQuiet, TypeOK
<1>2. CASE ~live
  BY <1>2 DEF Exit, EventsQuiet
<1>. QED
  BY <1>1, <1>2

\* terminate() publishes at most an Exited event.
LEMMA TerminateQuiet ==
    ASSUME TypeOK, NEW live \in BOOLEAN, Terminate(live)
    PROVE  EventsQuiet
<1>1. CASE ~allocation
  BY <1>1, ExitQuiet DEF Terminate
<1>2. CASE allocation
  BY <1>2 DEF Terminate, EventsQuiet
<1>. QED
  BY <1>1, <1>2

\* The refinement mapping in terms of PassedIn and ReadyIn.
LEMMA MapViews ==
    /\ LinesPassedUpTo(Len(events)) = PassedIn(events)
    /\ ReadyAt = ReadyIn(events)
    /\ LinesPassedUpTo(Len(events))' = PassedIn(events')
    /\ ReadyAt' = ReadyIn(events')
BY DEF LinesPassedUpTo, ReadyAt, PassedIn, ReadyIn

\* A quiet step keeps RInv and is a stuttering step of Readiness.
LEMMA QuietStep ==
    ASSUME RefInv, TypeOK', Quiet
    PROVE  RInv' /\ UNCHANGED ReadyView!vars
<1>1. ReadyIn(events') \subseteq 1..Len(events')
  BY DEF ReadyIn
<1>2. readinessMessageSent' => \E k \in 1..Len(events') : ReadyIn(events') = {k}
  <2> SUFFICES ASSUME readinessMessageSent'
               PROVE  \E k \in 1..Len(events') : ReadyIn(events') = {k}
    OBVIOUS
  <2>1. PICK k \in 1..Len(events) : ReadyIn(events) = {k}
    BY Zenon DEF Quiet, RefInv, RInv
  <2>2. ReadyIn(events') = {k}
    BY <2>1 DEF Quiet, EventsQuiet
  <2>. QED
    BY <1>1, <2>2
<1>3. RInv'
  BY <1>2 DEF Quiet, EventsQuiet, RefInv, RInv
<1>4. UNCHANGED ReadyView!vars
  BY MapViews DEF Quiet, EventsQuiet, ReadyView!vars
<1>. QED
  BY <1>3, <1>4

\* PreStart, ResourcesAllocated, the unexpected ReleaseResources, the Kill
\* requests, container state changes and terminateForGC, and every step of
\* the RM, the runtime and the proxy are quiet.
LEMMA QuietActions ==
    ASSUME RefInv, [Next]_vars, ~ReceiveLog
    PROVE  Quiet
<1> USE DEF RefInv
<1>1. CASE PreStart
  <2>1. events = <<>> /\ UNCHANGED <<readinessChecks, readinessMessageSent>>
        /\ phase' # "Created"
    BY <1>1 DEF PreStart, RInv
  <2>2. CASE events' = <<Ev("Scheduled", {})>>
    <3>1. events' = Append(<<>>, Ev("Scheduled", {}))
      BY <2>2
    <3>2. <<>> \in Seq(Event)
      OBVIOUS
    <3>3. PassedIn(events') = PassedIn(<<>>) /\ ReadyIn(events') = ReadyIn(<<>>)
      BY <3>1, <3>2, AppendQuiet
    <3>. QED
      BY <2>1, <3>3 DEF Quiet, EventsQuiet
  <2>3. CASE Terminate(FALSE)
    BY <2>1, <2>3, TerminateQuiet DEF Quiet
  <2>. QED
    BY <1>1, <2>2, <2>3 DEF PreStart
<1>2. CASE ReceiveAllocated
  <2>1. UNCHANGED <<readinessChecks, readinessMessageSent>> /\ phase' # "Created"
    BY <1>2 DEF ReceiveAllocated, SessionStartFails
  <2>2. CASE events' = Append(events, Ev("Assigned", {}))
    BY <2>1, <2>2, AppendQuiet DEF Quiet, EventsQuiet, TypeOK
  <2>3. CASE SessionStartFails
    BY <2>1, <2>3, TerminateQuiet DEF Quiet, SessionStartFails
  <2>. QED
    BY <1>2, <2>2, <2>3 DEF ReceiveAllocated
<1>3. CASE ReceiveRelease
  BY <1>3, TerminateQuiet DEF ReceiveRelease, Quiet
<1>4. CASE Kill
  <2>1. UNCHANGED <<readinessChecks, readinessMessageSent>> /\ phase' # "Created"
    BY <1>4 DEF Kill
  <2>2. CASE Terminate(TRUE)
    BY <2>1, <2>2, TerminateQuiet DEF Quiet
  <2>3. CASE UNCHANGED events
    BY <2>1, <2>3 DEF Quiet, EventsQuiet
  <2>. QED
    BY <1>4, <2>2, <2>3 DEF Kill
<1>5. CASE ReceiveContainerState
  <2>1. UNCHANGED <<readinessChecks, readinessMessageSent>> /\ phase' # "Created"
    BY <1>5 DEF ReceiveContainerState
  <2>2. CASE events' = Append(events, Ev("ContainerStarted", {}))
    BY <2>1, <2>2, AppendQuiet DEF Quiet, EventsQuiet, TypeOK
  <2>3. CASE Exit(IF Head(fromCtr).failed THEN "Failure" ELSE "Success", TRUE)
    BY <2>1, <2>3, ExitQuiet DEF Quiet
  <2>4. CASE UNCHANGED events
    BY <2>1, <2>4 DEF Quiet, EventsQuiet
  <2>. QED
    BY <1>5, <2>2, <2>3, <2>4 DEF ReceiveContainerState
<1>6. CASE TerminateForGC
  BY <1>6, TerminateQuiet DEF TerminateForGC, Quiet
<1>7. CASE Environment \/ UNCHANGED vars
  <2>1. UNCHANGED <<phase, events, readinessChecks, readinessMessageSent>>
    BY <1>7 DEF Environment, RMAllocate, RMProcessRelease, RMAskRelease,
       CtrAdvance, CtrExit, CtrKilled, ProxyReceive, vars
  <2>2. phase' = "Created" => events' = <<>>
    BY <2>1 DEF RInv
  <2>. QED
    BY <2>1, <2>2 DEF Quiet, EventsQuiet
<1>. QED
  BY <1>1, <1>2, <1>3, <1>4, <1>5, <1>6, <1>7 DEF Next, Command

-----------------------------------------------------------------------------
(* The ContainerLog handler is one Observe step.                          *)

\* The abstract Observe step, spelled out over PassedIn and ReadyIn.
ObserveIn(line) ==
    /\ PassedIn(events') = PassedIn(events) \cup line
    /\ readinessMessageSent' = (readinessMessageSent \/ Checks \subseteq PassedIn(events'))
    /\ Cardinality(ReadyIn(events')) =
          IF readinessMessageSent' /\ ~readinessMessageSent
          THEN Cardinality(ReadyIn(events)) + 1 ELSE Cardinality(ReadyIn(events))

LEMMA ObserveInIsObserve ==
    ASSUME NEW line, ObserveIn(line)
    PROVE  ReadyView!Observe(line)
BY MapViews DEF ObserveIn, ReadyView!Observe

\* A ContainerLog message keeps RInv and observes its line.
LEMMA LogStep ==
    ASSUME RefInv, TypeOK', ReceiveLog
    PROVE  RInv' /\ ReadyView!Next
<1> USE DEF RefInv
<1>1. PICK line \in SUBSET Checks :
        IF ~readinessMessageSent /\ ReadinessLeft(line) = {}
        THEN /\ readinessChecks' = {}
             /\ readinessMessageSent' = TRUE
             /\ events' = events \o <<Ev("ServiceReady", {}), Ev("Log", line)>>
        ELSE /\ readinessChecks' = IF readinessMessageSent THEN readinessChecks
                                                          ELSE ReadinessLeft(line)
             /\ events' = Append(events, Ev("Log", line))
             /\ UNCHANGED readinessMessageSent
  BY DEF ReceiveLog
<1>2. phase' = "Alive"
  BY DEF ReceiveLog
<1> DEFINE P == PassedIn(events)
           R == ReadyIn(events)
           n == Len(events)
           Log == Ev("Log", line)
           SR == Ev("ServiceReady", {})
<1>3. /\ Log \in Event /\ SR \in Event /\ Log.kind = "Log" /\ Log.line = line
      /\ SR.kind = "ServiceReady" /\ events \in Seq(Event)
  BY DEF Ev, Event, EventKinds, TypeOK
<1>4. Append(events, SR) \in Seq(Event)
  BY <1>3
<1>5. ASSUME ~readinessMessageSent /\ ReadinessLeft(line) = {}
      PROVE  ObserveIn(line)
  <2>1. /\ readinessChecks' = {} /\ readinessMessageSent'
        /\ events' = Append(Append(events, SR), Log)
    BY <1>1, <1>5, <1>3
  <2>2. AppendViewOK(events, SR) /\ AppendViewOK(Append(events, SR), Log)
    BY <1>3, <1>4, AppendView
  <2>3. R = {} /\ readinessChecks = Checks \ P
    BY <1>5 DEF RInv
  <2>4. PassedIn(events') = P \cup line /\ ReadyIn(events') = {n + 1}
    BY <1>3, <2>1, <2>2, <2>3 DEF AppendViewOK
  <2>5. Checks \subseteq PassedIn(events')
    BY <1>5, <2>3, <2>4 DEF ReadinessLeft
  <2>6. Cardinality(ReadyIn(events')) = Cardinality(R) + 1
    <3>1. Cardinality({n + 1}) = 1
      BY FS_Singleton
    <3>2. Cardinality({}) = 0
      BY FS_EmptySet
    <3>. QED
      BY <2>3, <2>4, <3>1, <3>2
  <2>. QED
    BY <1>5, <2>1, <2>4, <2>5, <2>6, Zenon DEF ObserveIn
<1>6. ASSUME ~(~readinessMessageSent /\ ReadinessLeft(line) = {})
      PROVE  ObserveIn(line)
  <2>1. /\ events' = Append(events, Log)
        /\ readinessMessageSent' = readinessMessageSent
        /\ readinessChecks' = IF readinessMessageSent THEN readinessChecks
                                                      ELSE ReadinessLeft(line)
    BY <1>1, <1>6
  <2>2. AppendViewOK(events, Log)
    BY <1>3, AppendView
  <2>3. PassedIn(events') = P \cup line /\ ReadyIn(events') = R
    BY <1>3, <2>1, <2>2 DEF AppendViewOK
  <2>4. Cardinality(ReadyIn(events')) = Cardinality(R)
    BY <2>3
  <2>5. CASE readinessMessageSent
    BY <2>1, <2>3, <2>4, <2>5, Zenon DEF ObserveIn
  <2>6. CASE ~readinessMessageSent
    <3>1. readinessChecks = Checks \ P
      BY <2>6 DEF RInv
    <3>2. ~(Checks \subseteq PassedIn(events'))
      BY <1>6, <2>3, <2>6, <3>1 DEF ReadinessLeft
    <3>3. readinessMessageSent' = (readinessMessageSent \/ Checks \subseteq PassedIn(events'))
      <4>0. readinessMessageSent \in BOOLEAN
        BY DEF TypeOK
      <4>1. readinessMessageSent' = FALSE
        BY <2>1, <2>6, <4>0, Zenon
      <4>. QED
        BY <2>6, <4>1, <3>2, Zenon
    <3>4. Cardinality(ReadyIn(events')) =
            IF readinessMessageSent' /\ ~readinessMessageSent
            THEN Cardinality(ReadyIn(events)) + 1 ELSE Cardinality(ReadyIn(events))
      BY <2>1, <2>4, <2>6, Zenon
    <3>. QED
      BY <2>3, <3>3, <3>4 DEF ObserveIn
  <2>. QED
    BY <2>5, <2>6
<1>7. RInv'
  <2>1. CASE ~readinessMessageSent /\ ReadinessLeft(line) = {}
    <3>1. events' = Append(Append(events, SR), Log) /\ readinessMessageSent'
      BY <1>1, <2>1
    <3>2. AppendViewOK(events, SR) /\ AppendViewOK(Append(events, SR), Log)
      BY <1>3, <1>4, AppendView
    <3>3. ReadyIn(events') = {n + 1} /\ Len(events') = n + 2
      BY <1>3, <2>1, <3>1, <3>2 DEF AppendViewOK, RInv
    <3>. QED
      BY <1>2, <3>1, <3>3 DEF RInv
  <2>2. CASE ~(~readinessMessageSent /\ ReadinessLeft(line) = {})
    <3>1. /\ events' = Append(events, Log)
          /\ readinessMessageSent' = readinessMessageSent
          /\ readinessChecks' = IF readinessMessageSent THEN readinessChecks
                                                        ELSE ReadinessLeft(line)
      BY <1>1, <2>2
    <3>2. AppendViewOK(events, Log)
      BY <1>3, AppendView
    <3>3. PassedIn(events') = P \cup line /\ ReadyIn(events') = R
          /\ Len(events') = n + 1
      BY <1>3, <3>1, <3>2 DEF AppendViewOK
    <3>. QED
      BY <1>2, <3>1, <3>3 DEF RInv, ReadinessLeft
  <2>. QED
    BY <2>1, <2>2
<1>8. ObserveIn(line)
  BY <1>5, <1>6, Zenon
<1>. QED
  BY <1>7, <1>8, ObserveInIsObserve DEF ReadyView!Next

-----------------------------------------------------------------------------
(* The refinement theorem.                                                 *)

\* The ContainerLog handler and readinessChecksPass (command.go:248-254,
\* 345-353) implement the abstract Readiness specification, for every set
\* of readiness checks and every bound: under the mapping that reads the
\* passed checks off the published Log events, the announcement off
\* c.readinessMessageSent and the count off the ServiceReady events, every
\* step of the command model is an Observe step or a stutter.  The
\* inductive invariant RInv says that c.readinessChecks is the set of
\* checks no published line has passed until the ready event is sent.
THEOREM ReadinessRefinedHolds == Spec => ReadinessRefined
<1>1. Init => RefInv /\ ReadyView!Init
  <2> SUFFICES ASSUME Init PROVE RefInv /\ ReadyView!Init
    OBVIOUS
  <2>1. events = <<>> /\ ~readinessMessageSent /\ readinessChecks = Checks
    BY DEF Init
  <2>2. PassedIn(events) = {} /\ ReadyIn(events) = {}
    BY <2>1 DEF PassedIn, ReadyIn
  <2>3. Cardinality(ReadyIn(events)) = 0
    BY <2>2, FS_EmptySet
  <2>4. RInv
    BY <2>1, <2>2 DEF RInv
  <2>5. ReadyView!Init
    <3>1. /\ LinesPassedUpTo(Len(events)) = {}
          /\ readinessMessageSent = FALSE
          /\ Cardinality(ReadyAt) = 0
      BY <2>1, <2>2, <2>3, MapViews DEF Init
    <3>. QED
      BY <3>1, Zenon DEF ReadyView!Init
  <2>. QED
    BY <2>4, <2>5, TypeInit DEF RefInv
<1>2. RefInv /\ [Next]_vars => RefInv' /\ [ReadyView!Next]_ReadyView!vars
  <2> SUFFICES ASSUME RefInv, [Next]_vars
               PROVE  RefInv' /\ [ReadyView!Next]_ReadyView!vars
    OBVIOUS
  <2>1. TypeOK'
    BY TypeNext DEF RefInv
  <2>2. CASE ReceiveLog
    BY <2>1, <2>2, LogStep DEF RefInv
  <2>3. CASE ~ReceiveLog
    BY <2>1, <2>3, QuietActions, QuietStep DEF RefInv
  <2>. QED
    BY <2>2, <2>3
<1>. QED
  BY <1>1, <1>2, PTL DEF Spec, ReadinessRefined, ReadyView!Spec
-----------------------------------------------------------------------------
(* ReadinessExact: where the ServiceReady event sits in the history.      *)

\* The checks passed by the Log events among the first i events of s.
PassedUpTo(s, i) ==
    UNION {s[j].line : j \in {j \in 1..i : s[j].kind = "Log"}}

\* ReadinessExact without its first conjunct, for any history s: a ready
\* event is followed by the Log event that completed the checks, and a Log
\* event by which every check is passed comes after a ready event.
Exact(s) ==
    /\ \A i \in ReadyIn(s) :
         /\ i < Len(s) /\ s[i + 1].kind = "Log"
         /\ Checks \subseteq PassedUpTo(s, i + 1)
    /\ \A i \in 1..Len(s) :
         (s[i].kind = "Log" /\ Checks \subseteq PassedUpTo(s, i))
            => \E r \in ReadyIn(s) : r < i

\* Up to the end of the history, the checks passed are PassedIn.
LEMMA PassedAll ==
    ASSUME NEW s
    PROVE  PassedUpTo(s, Len(s)) = PassedIn(s)
BY DEF PassedUpTo, PassedIn

\* Publishing an event other than the ready event keeps Exact, provided
\* that a Log event completing the checks comes after a ready event.
LEMMA ExactAppend ==
    ASSUME NEW s \in Seq(Event), NEW e \in Event, Exact(s),
           e.kind # "ServiceReady",
           e.kind = "Log" /\ Checks \subseteq PassedIn(s) \cup e.line
              => ReadyIn(s) # {}
    PROVE  Exact(Append(s, e))
<1> DEFINE t == Append(s, e)
           n == Len(s)
<1>1. /\ t \in Seq(Event) /\ Len(t) = n + 1
      /\ \A j \in 1..n : t[j] = s[j]
      /\ t[n + 1] = e
  OBVIOUS
<1>2. ReadyIn(t) = ReadyIn(s) /\ PassedIn(t) = IF e.kind = "Log"
                                             THEN PassedIn(s) \cup e.line
                                             ELSE PassedIn(s)
  BY AppendView DEF AppendViewOK
<1>3. ASSUME NEW i \in 0..n PROVE PassedUpTo(t, i) = PassedUpTo(s, i)
  <2>1. {j \in 1..i : t[j].kind = "Log"} = {j \in 1..i : s[j].kind = "Log"}
    BY <1>1
  <2>. QED
    BY <2>1 DEF PassedUpTo
<1>4. ReadyIn(s) \subseteq 1..n
  BY DEF ReadyIn
<1>5. \A i \in ReadyIn(t) :
         /\ i < Len(t) /\ t[i + 1].kind = "Log"
         /\ Checks \subseteq PassedUpTo(t, i + 1)
  BY <1>1, <1>2, <1>3, <1>4 DEF Exact
<1>6. ASSUME NEW i \in 1..Len(t), t[i].kind = "Log",
             Checks \subseteq PassedUpTo(t, i)
      PROVE  \E r \in ReadyIn(t) : r < i
  <2>1. CASE i \in 1..n
    BY <1>1, <1>2, <1>3, <1>6, <2>1 DEF Exact
  <2>2. CASE i = n + 1
    <3>1. e.kind = "Log" /\ Checks \subseteq PassedIn(s) \cup e.line
      BY <1>1, <1>2, <1>6, <2>2, PassedAll
    <3>2. PICK r \in ReadyIn(s) : TRUE
      BY <3>1
    <3>. QED
      BY <1>2, <1>4, <2>2, <3>2
  <2>. QED
    BY <1>1, <2>1, <2>2
<1>. QED
  BY <1>5, <1>6 DEF Exact

\* The first ready event, published with the Log event that completes the
\* checks, makes the history exact.
LEMMA ExactReady ==
    ASSUME NEW s \in Seq(Event), NEW line \in SUBSET Checks,
           Exact(s), ReadyIn(s) = {}, Checks \subseteq PassedIn(s) \cup line
    PROVE  Exact(Append(Append(s, Ev("ServiceReady", {})), Ev("Log", line)))
<1> DEFINE SR == Ev("ServiceReady", {})
           Log == Ev("Log", line)
           t1 == Append(s, SR)
           t == Append(t1, Log)
           n == Len(s)
<1>1. SR \in Event /\ Log \in Event /\ SR.kind = "ServiceReady"
      /\ Log.kind = "Log" /\ Log.line = line
  BY DEF Ev, Event, EventKinds
<1>2. /\ t1 \in Seq(Event) /\ t \in Seq(Event) /\ Len(t) = n + 2
      /\ \A j \in 1..n : t[j] = s[j]
      /\ t[n + 1] = SR /\ t[n + 2] = Log
  BY <1>1
<1>3. ReadyIn(t) = {n + 1} /\ PassedIn(t) = PassedIn(s) \cup line
  <2>1. AppendViewOK(s, SR) /\ AppendViewOK(t1, Log)
    BY <1>1, <1>2, AppendView
  <2>. QED
    BY <1>1, <2>1 DEF AppendViewOK
<1>4. ASSUME NEW i \in 0..n PROVE PassedUpTo(t, i) = PassedUpTo(s, i)
  <2>1. {j \in 1..i : t[j].kind = "Log"} = {j \in 1..i : s[j].kind = "Log"}
    BY <1>2
  <2>. QED
    BY <2>1 DEF PassedUpTo
<1>5. Checks \subseteq PassedUpTo(t, n + 2)
  BY <1>2, <1>3, PassedAll
<1>6. ASSUME NEW i \in 1..Len(t), t[i].kind = "Log",
             Checks \subseteq PassedUpTo(t, i)
      PROVE  \E r \in ReadyIn(t) : r < i
  <2>1. CASE i \in 1..n
    <3>1. s[i].kind = "Log" /\ Checks \subseteq PassedUpTo(s, i)
      BY <1>2, <1>4, <1>6, <2>1
    <3>. QED
      BY <3>1, <2>1 DEF Exact
  <2>2. CASE i = n + 2
    <3>1. n + 1 \in ReadyIn(t) /\ n + 1 < i
      BY <1>3, <2>2
    <3>. QED
      BY <3>1
  <2>. QED
    BY <1>1, <1>2, <1>6, <2>1, <2>2
<1>. QED
  BY <1>1, <1>2, <1>3, <1>5, <1>6 DEF Exact
QuietKinds == {"Scheduled", "Assigned", "ContainerStarted", "Exited"}

\* A step publishes nothing, or one event that is neither a log line nor
\* the ready event.
Grow ==
    \/ events' = events
    \/ \E k \in QuietKinds : events' = Append(events, Ev(k, {}))

LEMMA TerminateGrow ==
    ASSUME NEW live, Terminate(live)
    PROVE  Grow
BY DEF Terminate, Exit, Grow, QuietKinds

\* Every step but a ContainerLog publishes at most one quiet event.
LEMMA QuietGrow ==
    ASSUME RefInv, [Next]_vars, ~ReceiveLog
    PROVE  Grow
<1>1. CASE PreStart
  <2>1. events = <<>>
    BY <1>1 DEF PreStart, RefInv, RInv
  <2>2. CASE events' = <<Ev("Scheduled", {})>>
    BY <2>1, <2>2 DEF Grow, QuietKinds
  <2>3. CASE Terminate(FALSE)
    BY <2>3, TerminateGrow
  <2>. QED
    BY <1>1, <2>2, <2>3 DEF PreStart
<1>2. CASE ReceiveAllocated
  BY <1>2, TerminateGrow DEF ReceiveAllocated, SessionStartFails, Grow,
     QuietKinds
<1>3. CASE ReceiveRelease
  BY <1>3, TerminateGrow DEF ReceiveRelease
<1>4. CASE Kill
  BY <1>4, TerminateGrow DEF Kill, Grow
<1>5. CASE ReceiveContainerState
  BY <1>5 DEF ReceiveContainerState, Exit, Grow, QuietKinds
<1>6. CASE TerminateForGC
  BY <1>6, TerminateGrow DEF TerminateForGC
<1>7. CASE Environment \/ UNCHANGED vars
  BY <1>7 DEF Environment, RMAllocate, RMProcessRelease, RMAskRelease,
     CtrAdvance, CtrExit, CtrKilled, ProxyReceive, vars, Grow
<1>. QED
  BY <1>1, <1>2, <1>3, <1>4, <1>5, <1>6, <1>7 DEF Next, Command

\* RefInv with the history exact: the inductive invariant of ReadinessExact.
ExactInv == RefInv /\ Exact(events)

\* A step keeps the history exact.
LEMMA ExactStep ==
    ASSUME ExactInv, [Next]_vars, TypeOK'
    PROVE  Exact(events')
<1> USE DEF ExactInv, RefInv
<1>0. events \in Seq(Event)
  BY DEF TypeOK
<1>1. CASE ~ReceiveLog
  <2>1. Grow
    BY <1>1, QuietGrow
  <2>2. CASE events' = events
    BY <2>2
  <2>3. CASE \E k \in QuietKinds : events' = Append(events, Ev(k, {}))
    <3>1. PICK k \in QuietKinds : events' = Append(events, Ev(k, {}))
      BY <2>3
    <3>2. Ev(k, {}) \in Event /\ Ev(k, {}).kind \notin {"ServiceReady", "Log"}
      BY DEF Ev, Event, EventKinds, QuietKinds
    <3>. QED
      BY <1>0, <3>1, <3>2, ExactAppend
  <2>. QED
    BY <2>1, <2>2, <2>3 DEF Grow
<1>2. CASE ReceiveLog
  <2>1. PICK line \in SUBSET Checks :
          IF ~readinessMessageSent /\ ReadinessLeft(line) = {}
          THEN /\ readinessChecks' = {}
               /\ readinessMessageSent' = TRUE
               /\ events' = events \o <<Ev("ServiceReady", {}), Ev("Log", line)>>
          ELSE /\ readinessChecks' = IF readinessMessageSent THEN readinessChecks
                                                            ELSE ReadinessLeft(line)
               /\ events' = Append(events, Ev("Log", line))
               /\ UNCHANGED readinessMessageSent
    BY <1>2 DEF ReceiveLog
  <2>2. Ev("Log", line) \in Event /\ Ev("Log", line).kind = "Log"
        /\ Ev("Log", line).line = line
    BY DEF Ev, Event, EventKinds
  <2>3. CASE ~readinessMessageSent /\ ReadinessLeft(line) = {}
    <3>1. events' = Append(Append(events, Ev("ServiceReady", {})), Ev("Log", line))
      BY <2>1, <2>3
    <3>2. ReadyIn(events) = {} /\ readinessChecks = Checks \ PassedIn(events)
      BY <2>3 DEF RInv
    <3>3. Checks \subseteq PassedIn(events) \cup line
      BY <2>3, <3>2 DEF ReadinessLeft
    <3>. QED
      BY <1>0, <3>1, <3>2, <3>3, ExactReady
  <2>4. CASE ~(~readinessMessageSent /\ ReadinessLeft(line) = {})
    <3>1. events' = Append(events, Ev("Log", line))
      BY <2>1, <2>4
    <3>2. Checks \subseteq PassedIn(events) \cup line => ReadyIn(events) # {}
      <4>1. CASE readinessMessageSent
        BY <4>1 DEF RInv
      <4>2. CASE ~readinessMessageSent
        <5>1. readinessChecks = Checks \ PassedIn(events)
          BY <4>2 DEF RInv
        <5>. QED
          BY <2>4, <4>2, <5>1 DEF ReadinessLeft
      <4>. QED
        BY <4>1, <4>2
    <3>. QED
      BY <1>0, <2>2, <3>1, <3>2, ExactAppend
  <2>. QED
    BY <2>3, <2>4
<1>. QED
  BY <1>1, <1>2

\* ExactInv holds initially and is kept by every step.
LEMMA ExactInit == Init => ExactInv
<1> SUFFICES ASSUME Init PROVE ExactInv
  OBVIOUS
<1>1. RefInv
  BY TypeInit DEF Init, RefInv, RInv, PassedIn, ReadyIn
<1>2. events = <<>>
  BY DEF Init
<1>. QED
  BY <1>1, <1>2 DEF ExactInv, Exact, ReadyIn

LEMMA ExactNext == ExactInv /\ [Next]_vars => ExactInv'
<1> SUFFICES ASSUME ExactInv, [Next]_vars PROVE ExactInv'
  OBVIOUS
<1>1. TypeOK'
  BY TypeNext DEF ExactInv, RefInv
<1>2. RInv'
  <2>1. CASE ReceiveLog
    BY <1>1, <2>1, LogStep DEF ExactInv
  <2>2. CASE ~ReceiveLog
    BY <1>1, <2>2, QuietActions, QuietStep DEF ExactInv
  <2>. QED
    BY <2>1, <2>2
<1>3. Exact(events')
  BY <1>1, ExactStep
<1>. QED
  BY <1>1, <1>2, <1>3 DEF ExactInv, RefInv

\* The ContainerLog handler and readinessChecksPass (command.go:248-254,
\* 345-353) publish ServiceReady at most once, right before the log line
\* by which every readiness check has been passed, and never after a line
\* that completes the checks without it, for every set of checks and every
\* bound.
THEOREM ReadinessExactHolds == Spec => []ReadinessExact
<1>1. Init => ExactInv
  BY ExactInit
<1>2. ExactInv /\ [Next]_vars => ExactInv'
  BY ExactNext
<1>3. ExactInv => ReadinessExact
  <2> SUFFICES ASSUME ExactInv PROVE ReadinessExact
    OBVIOUS
  <2>1. ReadyAt = ReadyIn(events)
    BY MapViews
  <2>2. \A i \in 0..Len(events) : LinesPassedUpTo(i) = PassedUpTo(events, i)
    BY DEF LinesPassedUpTo, PassedUpTo
  <2>3. Cardinality(ReadyAt) <= 1
    <3>1. CASE readinessMessageSent
      <4>1. PICK k \in 1..Len(events) : ReadyIn(events) = {k}
        BY <3>1 DEF ExactInv, RefInv, RInv
      <4>2. Cardinality({k}) = 1
        BY FS_Singleton
      <4>. QED
        BY <2>1, <4>1, <4>2
    <3>2. CASE ~readinessMessageSent
      <4>1. ReadyAt = {}
        BY <2>1, <3>2 DEF ExactInv, RefInv, RInv
      <4>2. Cardinality({}) = 0
        BY FS_EmptySet
      <4>. QED
        BY <4>1, <4>2
    <3>. QED
      BY <3>1, <3>2
  <2>4. ReadyIn(events) \subseteq 1..Len(events)
    BY DEF ReadyIn
  <2>. QED
    BY <2>1, <2>2, <2>3, <2>4 DEF ExactInv, Exact, ReadinessExact
<1>. QED
  BY <1>1, <1>2, <1>3, PTL DEF Spec
\* c.readinessChecks (command.go:248-254, 345-353) holds exactly the checks
\* no published log line has passed until the ready event, and exactly one
\* ServiceReady is published once c.readinessMessageSent is set.
THEOREM RefInvHolds == Spec => []RefInv
<1>1. Init => ExactInv
  BY ExactInit
<1>2. ExactInv /\ [Next]_vars => ExactInv'
  BY ExactNext
<1>. QED
  BY <1>1, <1>2, PTL DEF Spec, ExactInv
=============================================================================
