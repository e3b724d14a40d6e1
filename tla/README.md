# TLA+ models of the task controllers

This directory holds TLA+ models of two task controllers of the master.

- The **command actor**, in `src/master/internal/command/command.go`. It is the task controller of a command, notebook, shell or tensorboard.
- The **checkpoint-GC task actor**, in `src/unnamed/part_000`.

Each model comes with TLC configurations that check it on small instances, and with TLAPS proofs of its main invariants for every value of the constants.

## 1. The system

### 1.1 Parts and how they interact

A task controller is an actor. It handles one message at a time, and its handler switches on the message type. It talks to four kinds of collaborator, and to all of them by asynchronous messages.

| Collaborator | What passes between them | In `src/`? |
|---|---|---|
| Resource manager (RM) | The controller asks it for an allocation (`AllocateRequest`). The RM answers with `ResourcesAllocated`, may send `ReleaseResources`, and is told `ResourcesReleased` when the task gives its resources back. | no |
| Container runtime | It runs the container started by `Allocation.Start`. It reports each state (`Assigned`, `Pulling`, `Starting`, `Running`, `Terminated`) as `TaskContainerStateChanged`, sends `ContainerLog` lines, and obeys `Allocation.Kill`. | no |
| Proxy | It receives `Register` and `Unregister` messages for the task's service ID. | no |
| Session store | `StartTaskSession` and `DeleteTaskSessionByTaskID` are synchronous database calls, and either may fail. | no |
| Event stream | A child actor that keeps the history of the command's events (Scheduled, Assigned, ContainerStarted, ServiceReady, Log, Exited). | no |
| `terminateForGC` timer | A one-shot message, armed by `exit()` 24 hours ahead. When it fires, the command stops itself. | yes |

The models rely on these properties of the actor framework. They are stated in the header comment of each module.

- **Ordering.** Messages from one sender to one receiver arrive in the order they were sent. Messages from different senders interleave arbitrarily. `ctx.Ask` to the proxy does not wait for the answer.
- **Errors stop the actor.** When a handler returns an error, or calls `ctx.Self().Stop()`, the actor stops. `PostStop` runs, and no later message is processed.
- **PostStop is folded in.** Every step that stops the actor also contains its `PostStop` handler.
- **Late events are lost.** The child event stream is already stopped when `PostStop` runs, so events told from `PostStop` are lost.

### 1.2 Inventory

**Command** (`command.go`).

State, in `command` (lines 68–96): `task`, `allocation`, `container`, `proxyNames`, `exitStatus`, `readinessChecks`, `readinessMessageSent`.

Operations, all of which are actions:
- `PreStart` (101–127);
- `ResourcesAllocated` (`receiveSchedulerMsg`, 265–306);
- the four `Kill*Request` cases (161–205);
- `TaskContainerStateChanged` (207–246);
- `ContainerLog` (248–254);
- `terminateForGC` (256–257);
- the `default` case, which is reached by `ReleaseResources` (259–260);
- `PostStop`, which calls `terminate` (308–322).

Helpers: `exit` (324–343), `readinessChecksPass` (345–353) and `State` (355–377).

What is hard here:
- The RM's grant races the user's Kill.
- Kill waits for an asynchronous Terminated report.
- The proxy routes and the RM's resources are released through two different actors.
- Readiness depends on the order of log lines.
- Every error path stops the actor mid-protocol.

**Checkpoint-GC task** (`part_000`).

State: `task` and `logs`.

Operations: `PreStart`, `ResourcesAllocated` (with a session-start error and a checkpoint-query error), `ReleaseResources` (ignored), `TaskContainerStateChanged`, `ContainerLog` and `PostStop`.

What is hard here:
- The GC task starts one container per allocation but stops on the first Terminated report.
- It ignores the RM's release requests.
- Its session is opened and closed on different paths.

**Not modelled:**
- The rendering done by the status handlers (`getSummary`, `Get*Request`, `toNotebook`, `toCommand`, `toShell`, `toTensorboard`). These handlers change nothing. What they show is modelled: `State` and `exitStatus`, mapped onto the abstract lifecycle `CommandStatus`. The one way a rendering changes behaviour is modelled too: a failing `toNotebook` makes `KillNotebookRequest` skip `terminate()`, and the constant `NotebookAddrFails` enables that path.
- `DefaultConfig`, `getPort` and `setPodSpec`, which build pure configuration values.
- The YAML schema test data at the end of `command.go`.
- The RM's scheduling policy.

`PROJECT.json` lists every component and every hazard found in the survey.

## 2. Modules

| Module | Models | State → code |
|---|---|---|
| `Command.tla` | The command actor with its RM, runtime, proxy, session store and timer. | See the list below. |
| `MC_Command.tla` | Small values of the bounds for TLC. | |
| `Command_proofs.tla` | The TLAPS proofs of `TypeOK`, `IInv`, `NoStaleRoute` and `StoppedReleased`. | |
| `MC_Command_inv.tla` | The inductive invariants `IInv` and `RefInv` of the two proof modules, for TLC. | |
| `Readiness.tla` | The abstract readiness evaluator: lines are observed, and the service is announced once, at the line that completes the passed checks. | `passed`, `announced` and `told` are the refinement mapping's images of the published Log events, `c.readinessMessageSent` and the ServiceReady events. |
| `CommandReadiness_proofs.tla` | The TLAPS proofs that `Command` implements `Readiness`, of `RefInv` and of `ReadinessExact`. | |
| `CommandStatus.tla` | The abstract status lifecycle of the spec (section 3): forward only, with the exit status recorded once, on entering Terminated. | `status` is `State()` and `exit` is `c.exitStatus`. |
| `CommandStatus_proofs.tla` | The TLAPS proof that, with no kill request, `Command` implements `CommandStatus`. | |
| `CheckpointGC.tla` | The GC task with its RM and its GC containers. | See the list below. |
| `MC_CheckpointGC.tla` | The log bound for TLC; it extends the proof module so that `gc_task` also checks `JobInv`. | |
| `GCJob.tla` | The abstract GC controller of spec section 4.2: it waits, runs its job with the session open, and stops only after the job finished (or at once, on a failure before the job starts). | `stage` is `JobStage` (Stopped once the task stopped, Running once a container started, Waiting before), `session` is the session, and `jobDone` is `JobDone` (every started container has terminated). |
| `CheckpointGC_proofs.tla` | The TLAPS proofs of `TypeOK`, `SessionLifecycle`, `StopsAfterJob` and `JobInv`, and that the GC task implements `GCJob`. | |

How the state of `Command.tla` corresponds to the code:

- `phase` is the actor's lifecycle.
- `allocation` is `c.allocation != nil`.
- `container` is `c.container.State`.
- `exitStatus` is `c.exitStatus`.
- `proxyNames` is `len(c.proxyNames)`.
- `readinessChecks` is the keys of `c.readinessChecks`.
- `events` is the history told to the event stream.
- `rm`, `fromRM`, `toRM`, `releases` and `rmAsked` are the RM and its channels.
- `ctr`, `fromCtr` and `ctrKill` are the runtime and its channel.
- `proxyInbox` and `route` are the proxy.
- `session` is the session row.
- `gcPending` says whether the `NotifyAfter` timer is armed.

How the state of `CheckpointGC.tla` corresponds to the code:

- `task` is `t.task != nil`.
- `logs` is `len(t.logs)`.
- `session` is the session row.
- `ctrs[a]` is the container of allocation `a`.
- `fromRM` and `fromCtr` are the channels.

There is one action per handler, and each action contains every call its handler makes.

- `Exit` is `exit()`. It records the status, tells the event stream, tells the RM `ResourcesReleased`, arms the timer and deletes the session.
- `Terminate` is `terminate()`. It is used by `Kill`, and by every step that stops the actor, as `PostStop`.

Data is abstracted as follows.

- A log line is the set of readiness checks it passes.
- An exit message is one of `Success`, `Failure` or `Aborted`.
- A proxy address is one `Register` message. Only the number of addresses matters, because every route is keyed on the task ID.

## 3. Runs

| Run | cfg | Expect | Checks |
|---|---|---|---|
| `command_safety` | `MC_Command.cfg` | pass (about 1.16 M states) | `TypeOK`, `ReadinessExact`, `NoStaleRoute`, `ReadinessRefined` |
| `command_inductive_inv` | `MC_Command_inv.cfg` | pass (about 436 k states) | `IInv` (of `Command_proofs`), `RefInv` (of `CommandReadiness_proofs`) |
| `command_kill_liveness` | `MC_Command_live.cfg` | pass (about 438 k states) | `StoppedReleased`, `KillLeadsToExit` |
| `command_status_nokill` | `MC_Command_status_nokill.cfg` | pass (about 91 k states) | `StatusRefined` |
| `command_status_regress` | `MC_Command_status.cfg` | violation | `StatusRefined` |
| `command_notebook_kill` | `MC_Command_notebook.cfg` | violation | `KillLeadsToExit` |
| `command_kill_twice` | `MC_Command_kill_twice.cfg` | violation | `ExitedOnce` |
| `command_zombie_start` | `MC_Command_zombie.cfg` | violation | `NoZombieStart` |
| `command_release_unhandled` | `MC_Command_release.cfg` | violation | `ReleaseRequestHonoured` |
| `command_route_after_release` | `MC_Command_route.cfg` | violation | `RouteGoneBeforeReclaim` |
| `gc_task` | `MC_CheckpointGC.cfg` | pass | `TypeOK`, `SessionLifecycle`, `StopsAfterJob`, `JobInv`, `StartedLeadsToStop`, `GCRefined` |
| `gc_multi_alloc` | `MC_CheckpointGC_multi.cfg` | violation | `StopsAfterJob` |

### 3.1 What the passing runs show

- **`ReadinessExact`.** Whatever the order of matching and non-matching log lines, `ServiceReady` is published at most once. When it is published, it comes right before the Log event of the first line by which every check has been passed. No line that completes the checks is logged without an earlier ready event.
- **`NoStaleRoute`.** Once the command has seen its container terminate and the proxy has drained its mailbox, the proxy holds no route. This holds even though `Register` (on Running) and `Unregister` (on Terminated) come from two handlers, and `Running` may carry 0, 1 or 2 addresses.
- **`ReadinessRefined`.** The `ContainerLog` handler implements the abstract `Readiness` specification. The refinement mapping takes the checks passed so far from the published Log events, the announcement from `c.readinessMessageSent`, and the number of announcements from the ServiceReady events. Every handled line is one `Observe` step, and every other step of every actor is a stutter. This is stronger than `ReadinessExact` in one respect: it also ties the flag and the event count to the checks.
- **`StoppedReleased`.** When the RM sends no `ReleaseResources`, every way the actor stops has told the RM `ResourcesReleased`. The ways are a failed Ask in `PreStart`, a failed `StartTaskSession` after the grant, and the `terminateForGC` timer. The second depends on the order at `command.go:277-282`: the handler returns before `c.allocation` is set, so `PostStop` aborts and releases instead of killing a container that was never started.
- **`StatusRefined` without kills.** With no user kill, the status a snapshot shows follows the spec's lifecycle. It moves forward only, it becomes Terminated exactly when `exit()` records the exit status, and that status is final. This holds with the RM's release request and both DB failures enabled. So the regression found by `command_status_regress` comes only from a Kill that races the grant. `StatusRefinedHolds` proves this for every value of the other constants.
- **`IInv` and `RefInv` (command).** The inductive invariants of the `NoStaleRoute` proof and of the readiness refinement proof (section 4) hold in every reachable state of an instance with one kill.
- **`KillLeadsToExit`.** A processed Kill is eventually followed by an exit status, both before and after allocation. This needs the runtime to carry out the kill and the actor to process the Terminated report.
- **`SessionLifecycle` (GC).** The session exists exactly while the task is alive with its containers started. This includes the path where the checkpoint query fails after the session was opened.
- **`StopsAfterJob` (GC).** With the one allocation a single-agent request receives, the task stops only after its container has terminated.
- **`StartedLeadsToStop` (GC).** Once started, the task always stops, however many `ReleaseResources` the RM sends.
- **`GCRefined` (GC).** The GC task implements `GCJob`. The grant that opens the session is `Start`, the container's exit is `Finish`, the Terminated report that stops the task is `Stop`, and a DB failure in the allocation handler is `Abort`. Every other step (PreStart, `ReleaseResources`, logs, the RM, a container starting to run, a non-terminal report) is a stutter. So the task never closes the session, or stops, while its job is still running.

### 3.2 What the violations show

`PROJECT.json` has the details under "findings".

- **`ExitedOnce`.** Two Kills before allocation run `exit()` twice (`command.go:316`).
- **`NoZombieStart`.** A grant that arrives after an abort still starts a container. The guard at `command.go:269` never fires, because `c.task` is never reset.
- **`StatusRefined` with kills.** A Kill processed before the grant makes `State()` report Terminated with exit status "Aborted". The late grant starts a container anyway, so the status goes back to Assigned. Later the container's Terminated report overwrites the exit status (`command.go:269`). This is the user-visible side of the zombie start.
- **`KillLeadsToExit` for a notebook.** `KillNotebookRequest` renders the notebook first. When `toNotebook` fails, it only logs the error and never calls `terminate()`, so the kill is lost (`command.go:162-165`). Spec section 5 says Kill is safe in every state.
- **`ReleaseRequestHonoured`.** `ReleaseResources` falls into the `default` case and stops the actor, which leaves the container's Terminated report, the `Unregister`s and `ResourcesReleased` undone (`command.go:260`).
- **`RouteGoneBeforeReclaim`.** The RM can reclaim the resources while the proxy still routes the task. A `Register` still in the proxy's mailbox can even install the route after the release. The cause is that `Unregister` and `ResourcesReleased` go to two different actors (`command.go:236`, `:332`).
- **`StopsAfterJob` with two allocations.** The GC task stops on the first Terminated report while another GC container still runs (`part_000:95`).

### 3.3 Mutants

Every property of a passing run has a mutant in `PROJECT.json`: a plausible bug in the mapped code that the run must catch. Each mutant is defined in the module just before the definition it replaces.

| Mutant | The bug it models | Property that catches it |
|---|---|---|
| `RegisterAddressesMakeLen` | Names built with `make([]string, len)` and then appended to. | `TypeOK` |
| `ReadinessLeftAnyPass` | Ready as soon as any one check passes. | `ReadinessExact` |
| `UnregisterNamesAfterReset` | `c.proxyNames` reset before the Unregister loop. | `NoStaleRoute`, and `IInv` in `command_inductive_inv` |
| `ReadinessLeftNoDelete` | Each line is evaluated against every configured check, forgetting those passed by earlier lines. | `ReadinessRefined`, and `RefInv` in `command_inductive_inv` |
| `SessionStartFailsAfterAllocation` | `c.allocation` is set before `StartTaskSession` is called. | `StoppedReleased` |
| `StateIgnoringExit` | `State()` without its `c.exitStatus` case. | `StatusRefined` |
| `TerminateWithoutKill` | `terminate()` without `allocation.Kill`. | `KillLeadsToExit` |
| `StartAllOffByOne` | The loop over `msg.Allocations` is off by one. | `TypeOK` (GC) |
| `DeleteSessionNever` | `PostStop` forgets the session. | `SessionLifecycle`, `GCRefined` |
| `StopsOnReportAny` | The Terminated check is dropped. | `StopsAfterJob`, `JobInv` |
| `StopsOnReportOnlyFailed` | The task stops only when the job failed. | `StartedLeadsToStop` |

### 3.4 Bounds

**Command.** The bounds are two readiness checks, at most 2 kills, 2 log lines and 2 addresses.

- With two checks and two lines, a check can be passed by a different line than the other one, and a non-matching line can come between them.
- Two kills give a repeated kill.
- Two addresses give several `Register` messages racing one `Unregister` batch.
- `DBMayFail = TRUE` enables the error paths of `StartTaskSession` and `DeleteTaskSessionByTaskID`.
- The RM's `ReleaseResources` is on in the safety run and off in the liveness run. With it on, `ReleaseRequestHonoured` already shows that the exit can be lost, and `StoppedReleased` is false.
- `NotebookAddrFails` is off except in `command_notebook_kill`. The failure of `generateServiceAddress` does not depend on the actor's state, so one run with it on shows its effect.
- `command_status_nokill` sets `MaxKills = 0`. `command_status_regress` keeps two kills and turns off the RM's release request and the DB failures, so that the trace shows the kill-grant race alone.
- `command_inductive_inv` has one kill, which is enough to reach the kill paths that the invariants must survive. The rest of its bounds are those of the safety run.

**GC.** `MaxAllocs = 1` is the single-agent case, and `MaxAllocs = 2` is the multi-allocation case. Up to 4 log lines are allowed, interleaved with the reports.

**Deadlock.** Deadlock checking is off in every cfg. The actor stops for good, so a final state with nothing enabled is the system's normal end.

### 3.5 Fairness

The fairness assumptions are weak fairness on the following steps, each with its justification:

- **The actor's own message handling.** The actor framework drains every mailbox while the actor lives.
- **The RM processing `ResourcesReleased`.** The RM is an actor too.
- **The runtime carrying out `allocation.Kill`.** The agent kills the container it was told to kill.
- **The proxy's mailbox.** The proxy is an actor too.
- **`terminateForGC`.** The timer fires once armed.
- **For the GC task only: every started GC container eventually exits.** A GC job deletes a finite list of checkpoints.

The following are not assumed fair:
- the user's kills;
- the RM's grant (a request may wait forever);
- the progress of a command's container (a notebook may run forever).

## 4. Proofs

`tlapm` checks every proof to the last leaf.

**`Command_proofs.tla`, `TypeCorrect`: `Spec => []TypeOK`.** This holds for every value of the constants that satisfies `BoundsAssumption`: the bounds are naturals, the flags are Booleans, and `Checks` is finite.

- There is one lemma per handler: `PreStartType`, `ReceiveAllocatedType`, `ReceiveReleaseType`, `KillType`, `ReceiveContainerStateType`, `ReceiveLogType` and `TerminateForGCType`.
- The RM, the runtime and the proxy each have one lemma too.
- `TerminateType` is shared by every path that runs `terminate()`. It shows that the variables `exit()` writes stay in their types.
- `TypeOK` is inductive as it stands, so no strengthening is needed.

**`Command_proofs.tla`, `NoStaleRouteHolds`: `Spec => []NoStaleRoute`.** This holds under the same assumption. `NoStaleRoute` alone is not inductive: a step of the proxy or of the Terminated handler can only be shown safe from facts about the channels. The inductive invariant `IInv` is `TypeOK /\ RouteInv`, and `RouteInv` has these conjuncts:
- `RouteCovered`: a route, or a `Register` still in the proxy's mailbox, is covered. Either `proxyNames > 0`, so the Terminated handler will send an `Unregister` after it, or the mailbox already ends with an `Unregister`. This is the heart of the argument: the proxy's mailbox is FIFO.
- `NothingBeforeRunning` and `OneRunningReport`: nothing is registered before the Running report is processed, and that report is sent once. Without them, a second Running report could set `proxyNames` to 0 over live routes.
- `TerminatedLast` and `ExitedQuiet`: the Terminated report is the runtime's last message. Once it is processed, `fromCtr` is empty and `proxyNames = 0`.
- `CreatedQuiet`, `GrantOnce` and `OneGrant`: the RM grants once, and only while the container is `None`. Without them, a second `ResourcesAllocated` could restart a terminated container, which would report Running a second time. The zombie start of `command_zombie_start` does not do this: it starts a container that was never started, and only once.

There is one lemma per action. `CtrReportRoute` covers every runtime report, and `RouteFrozen` covers every step that touches none of the state `RouteInv` reads. `ConcatRepeat` and `TailIndex` state what appending n copies of a message to a mailbox and removing the head of a channel do to its indices. TLC checked `IInv` (`command_inductive_inv`) before the proof was written. `IInvHolds` states `Spec => []IInv` as a theorem of its own, so the invariant that run checks is proved for every value of the constants.

**`Command_proofs.tla`, `StoppedReleasedHolds`: `~RMSendsRelease => (Spec => []StoppedReleased)`.** The inductive invariant `StopInv` is `IInv` plus three facts:
- `AllocStarted`: an allocation implies a started container;
- `NoReleaseAsked`: no `ReleaseResources` is queued;
- `GCArmedReleased`: an armed GC timer implies that a release was sent.

Each stopping step either runs `exit()`, which counts a release, or finds the GC timer armed. The abort paths stop with no allocation, and `CreatedQuiet`, `OneGrant` and `AllocStarted` show this. The lemma `TerminateReleases` says what `terminate()` does to the release count and the timer. The hypothesis `~RMSendsRelease` is needed: `command_release_unhandled` shows the actor stopping without a release otherwise.

**`CommandReadiness_proofs.tla`, `ReadinessRefinedHolds`: `Spec => ReadinessRefined`.** This holds for every set of checks and every bound. The inductive invariant `RInv` has three conjuncts:
- before PreStart there is no event;
- until the ready event, `c.readinessChecks` is the set of checks that no published line has passed, and no ServiceReady was published;
- afterwards, exactly one ServiceReady was published.

The proof has three parts:
- `AppendView` says what publishing one event does to the two views of the history: the checks passed and the ready indices.
- `QuietActions` shows that every handler other than `ContainerLog`, and every step of the other actors, leaves the abstract state alone. `QuietStep` then makes such a step a stutter.
- `LogStep` shows that a handled log line is exactly the abstract `Observe` of that line. It has three cases: the line completes the checks, the flag is already set, or checks remain.

TLC checked `RefInv` (`command_inductive_inv`) first.

**`CommandReadiness_proofs.tla`, `ReadinessExactHolds`: `Spec => []ReadinessExact`, and `RefInvHolds`: `Spec => []RefInv`.** Both hold for every set of checks and every bound. `ReadinessExact` speaks of positions in the history, which `RInv` does not see. So the inductive invariant `ExactInv` is `RefInv /\ Exact(events)`. `Exact(s)` is `ReadinessExact` without its counting conjunct, stated for any history `s` through `PassedUpTo(s, i)`, the checks passed by the first i events. The argument has three parts:
- `QuietGrow` shows that every step other than a `ContainerLog` publishes nothing, or one event that is neither a Log nor a ServiceReady.
- `ExactAppend` shows that publishing such an event, or a Log event, keeps the history exact. The Log case relies on a premise: a line that completes the checks comes after a ready event. `RInv` supplies it. Before the flag is set, `c.readinessChecks` is the set of unpassed checks, so the `IF` of the handler would have taken the ready branch. After the flag is set, the one ServiceReady exists.
- `ExactReady` shows that the ready branch keeps the history exact. ServiceReady and the completing Log are appended in that order, and the earlier lines did not complete the checks, because no ready event preceded them.

The counting conjunct, `Cardinality(ReadyAt) <= 1`, comes from `RInv`: the ready events are `{}` or one `{k}`.

**`CommandStatus_proofs.tla`, `StatusRefinedHolds`: `MaxKills = 0 => (Spec => StatusRefined)`.** This holds for every other value of the constants, with the RM's release request and both DB failures enabled. The hypothesis is needed: `command_status_regress` shows the status going back from Terminated when a kill races the grant. The inductive invariant is `IInv /\ SInv`, and `SInv` has three conjuncts:
- `AllocIffCtr`: `c.allocation` is set exactly when the runtime was started;
- `ReportsRise`: the container reports still in `fromCtr` rise strictly in rank, all above `c.container.State` and none above the runtime's own state. This is why a report never moves the status back;
- `ExitRecorded`: an exit status is recorded with the Terminated report, or by an abort that stops the actor before any report. The Terminated report comes with one, and an armed GC timer implies one.

The proof has one lemma per handler. `AbortStop` covers a `terminate()` with nothing allocated, which is `Finish("Aborted")`. `KillingStop` covers a `terminate()` with an allocation, which only asks for the kill and is a stutter. `ContainerStatus` shows that a report is an `Advance`, or a `Finish` on Terminated. `EnvStatus` shows that a runtime step appends a report above every other. `Derived` collects what the invariant says about the state the actor is in: for example, an alive actor with an exit status has processed Terminated and has an empty `fromCtr`. TLC checked `SInv` on the no-kill instance (90,674 states) before the proof was written.

**`CheckpointGC_proofs.tla`, `SessionLifecycleHolds`: `~DeleteMayFail => (Spec => []SessionLifecycle)`.** This holds for every number of allocations and every log bound. `SessionLifecycle` alone is not inductive. The inductive invariant `IInv` adds to it:
- `TypeOK`;
- that no container is started while the actor is in `Created`, which makes `PreStart` keep the session absent;
- that `t.task` is set from `PreStart` on, which makes `PostStop` really delete the session.

The lemmas are:
- `StartAllStarts`: an allocation of n ≥ 1 entries starts a container;
- `CtrStepKeepsStarted`: the runtime never un-starts a container.

TLC also checks `IInv` as an invariant with two allocations before the proof is attempted. The hypothesis `~DeleteMayFail` is needed: a failed `DeleteTaskSessionByTaskID` is only logged (`part_000:103`) and leaks the row.

**`CheckpointGC_proofs.tla`, `TypeCorrect`: `Spec => []TypeOK`.** This holds for every value of the constants, with every DB call allowed to fail. `DeleteSessionType` says that PostStop's deletion leaves a Boolean.

**`CheckpointGC_proofs.tla`, `StopsAfterJobHolds`: `MaxAllocs = 1 => (Spec => []StopsAfterJob)`.** The inductive invariant `JobInv` is `TypeOK /\ JobFacts /\ StopsAfterJob`. `JobFacts` says:
- the RM has not granted before PreStart, and before its grant nothing is started and no `ResourcesAllocated` is queued;
- at most one `ResourcesAllocated` is ever queued, and while it is queued nothing is started. So a DB failure in the allocation handler stops a task with nothing to wait for;
- every Terminated report in flight is about a container that has terminated.

Only the Terminated-report step (`JobReport`) uses `MaxAllocs = 1`: the reported container is then the only one. `gc_multi_alloc` shows the hypothesis is needed. TLC checked `JobInv` on `gc_task`, and `JobFacts` with two allocations, before the proof was written.

**`CheckpointGC_proofs.tla`, `JobInvHolds`: `MaxAllocs = 1 => (Spec => []JobInv)`.** This is the invariant of `StopsAfterJobHolds` as a theorem of its own, from the same two lemmas `JobInit` and `JobNext`. `gc_task` checks it as an invariant.

**`CheckpointGC_proofs.tla`, `GCRefinedHolds`: `MaxAllocs = 1 /\ ~DeleteMayFail => (Spec => GCRefined)`.** The invariant of the step is `IInv /\ JobInv`, taken from the two proofs above, in the states before and after the step. `JobViewStep` then maps each action:
- the grant to `Start`: `JobFacts` says nothing is started while a `ResourcesAllocated` is queued, and `StartAll` sets the first container to Starting, so `JobDone` is false on both sides;
- the DB failure in the allocation handler to `Abort`: nothing is started, and `SessionLifecycle` in the next state closes the session;
- `CtrExit` to `Finish`: with one allocation the exiting container is the only one, and `StopsAfterJob` says the task has not stopped;
- the Terminated report that stops the task to `Stop`: `JobFacts` says the reported container has terminated, so the job is done;
- every other step to a stutter, because it changes neither the phase, the session nor a container (`FrozenJob`).
The hypotheses are those of the two invariants: `gc_multi_alloc` shows that with two allocations the task can stop while a container runs, and a failing deletion leaves the session open after stopping.

**Only model-checked.** TLAPS cannot prove these, so TLC checks them:
- the liveness properties (`KillLeadsToExit`, `StartedLeadsToStop`), which rest on fairness and ENABLED;
- the violations, which need no proof: TLC's trace is the counterexample.

## 5. Plan for later work

1. **Compose the two controllers with one shared RM.** The RM is not in `src/`, so such a composition would be modelled mostly from the spec.
