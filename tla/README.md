# termcraft: TLA+ specifications

termcraft is a terminal application in which an AI agent edits the pages of a
small TSX project. The user sends a turn, the agent works in a staged copy of
the project, a gate validates what it produced, and the result is committed to
the managed tree together with the chat log. All paths below are relative to
the repository; its code lives in `src/`.

The hard part of the program is that a turn is long (minutes), runs
concurrently with the user's commands and with edits from outside, and must end
in exactly one durable outcome even if the process dies at any point. That is
what these modules are about.

## 1. Inventory

### Components, their state, their operations

| Component | State | Operations | What makes it correct |
|---|---|---|---|
| **Write mutex** `store/transaction/model/write-mutex.ts` | the active permit, a FIFO of waiters | `acquire`, `release`, guarded chain steps | FIFO grants, no lost wake-up, no step begins under a stale permit |
| **Transaction engine** `store/transaction/model/{plan,engine}.ts` | on disk: managed files and a journal directory per transaction (`payloads/`, `plan.json`, `intent.json`, `applied/`, `committed.json`, `conflict.json`) | `runTransaction`, `rollForwardTransaction` | all or nothing, exactly once, write-ahead, never overwrites what it did not plan over |
| **Recovery** `store/transaction/model/recovery.ts` | the list of directories still to be resolved | `classifyTransaction`, `recoverTransactions`, `discardTransaction` | every intended transaction commits before the project opens; a crash in recovery is harmless |
| **Transaction wrappers** `store/transaction/model/wrappers.ts` | none | one per durable operation (create, chat append, finalize, terminalize, ...) | plans bound under the permit; at most one terminal record per turn; finalization only over what was read at send time |
| **Durable write** `infrastructure/durability` | a file and its directory entry | create, write, flush, rename, flush directory | old or new content after a crash |
| **Store factory** `store/model/factory.ts` | the open project | `openProject`, `withPermit`, the orphan-turn scan | recovery precedes every write; no turn stays open after a crash |
| **Turn lifecycle** `core/turns`, `core/machines/model/turn-machine.ts`, `core/kernel/model/handlers/turn.ts` | phase, active turn and attempt, fence lease, candidate, commit-intent bit | `turn.start`, admission, attempts, freeze, validation, finalize, terminalize, `turn.cancel` | one terminal event per turn; a cancel reaches the agent; nothing commits after a cancel that was accepted in time; staging is retired |
| **Command mailbox, event bus, mirror** `core/mailbox`, `core/kernel/model/{counters,operation-publish}.ts`, `ui/mirror` | dedupe ledger, revision and event counters, subscribers, the batches being drained | submit, dispatch, publish, subscribe, unsubscribe | a command runs once, events are seen in order, a client's revision is the kernel's |
| **Kernel and handlers** `core/kernel` | counters, snapshot slots, capabilities | one handler per command family | snapshots are consistent with machines |
| **Project lease** `store/lease` | OS lock, advisory file | take, release | one writer per project, for as long as it writes |
| **Host supervisor** `host/supervisor/model/{supervisor,restart-policy,spare-pool}.ts` | a record per tree revision, the start queue, restart budgets, spare processes | `preview`, `resize`, `retry`, `close`, what an incarnation reports | the process cap holds, a free slot is handed on, nothing the user asked for is lost in a restart, an incarnation dies of its own failure only |
| **Host session** `host/supervisor/model/{session,request-table,heartbeat-watchdog,frame-broker}.ts`, `host/session` | phase, request table, mount in flight, frame order; the child's page | `start`, requests, `mount`, the pump, timers, `stop`; the child's handlers | every call returns once; parent and child agree on the page; a well-behaved child is never failed |
| **Agent run engine** `agent/run` | outcome latch, exit confirmation, unconfirmed-exit latch | start, cancel, confirm exit | one outcome per run; no run starts while an old process may live |
| **Preview tokens** `core/preview`, **export** `core/export` | frame and geometry ledgers; target directory | acknowledge, render; publish | no input at a stale frame; a failed export leaves the old output |
| **Journal lines** `store/jsonl`, **gate** `gate`, **workspaces** `store/sandbox`, **protocol** | data | parsing, checks, directory copies | pure functions or single calls |

### How they interact

The UI submits commands to the **mailbox**; a handler of the **kernel** runs in
the mailbox's dispatch. `turn.start` launches the **turn lifecycle** as a
detached asynchronous operation; `turn.cancel` arrives while it runs. The
lifecycle calls the **agent run engine** for each attempt, reads the staged
workspace, runs the **gate**, and finally calls the **store**, whose
**factory** takes a permit of the **write mutex** and executes a **wrapper**
that runs the **transaction engine**, which installs every file with a
**durable write**. On the next launch the factory takes the **lease**, runs
**recovery** and closes orphaned turns before anything else can write.
Everything observable is published on the **event bus** and folded into the
**mirror** by the UI. All of this is one event loop: code between two `await`s
is atomic, and everything that can go wrong goes wrong at an `await`, at a
durable write, or by process death. Pages are rendered by child processes: the
**host supervisor** keeps one **host session** per tree revision, and talks to
its child over two pipes.

### Hard behaviours

Crashes between durable effects; appends torn half way; an error reported after
the effect; a stale continuation that still holds a permit, lease or candidate;
cancels racing completion and commit; edits from outside; interrupted cleanup;
a child process that hangs, dies or reports its end after its successor has
started; a page switch while frames of the old page are under way; a subscriber
that publishes while it is being notified; several termcraft processes on one
folder.
`PROJECT.json` lists each under `hazards`, at its line.

## 2. What is modelled

### WriteMutex, WriteMutexClients

`WriteMutex` is `createWriteMutex`: `activePermit` is `activePermitId`,
`waiters` the array of pending resolvers, `Acquire` and `Release` the two
methods, with `release` of a permit that is not active a no-op. A permit is
identified with the acquire call that made it. `WriteMutexClients` adds the
callers: `withPermit` acquires, and a guarded step of a chain checks the permit
and then awaits its callback, so it has a beginning (`BeginStep`, or
`StaleStep` when the check fails) and an end (`EndStep`), and anything may
happen in between. The check is before-only, as the code says: a step that has
begun runs to its end even if its permit is released meanwhile and the next
holder begins a step of its own. A caller keeps its permit object, so early,
late and repeated releases and late steps are all possible; `withPermit` itself
awaits its function and never releases early. `releaseAfterApplied` has no
caller in the program and is left out.

### TransactionPlan, ProjectTransaction

`TransactionPlan` is the vocabulary: a managed file's content is a sequence of
atoms saying who wrote it and whether all of it reached the disk; `<<>>` is the
absent file. Two contents are equal exactly when the code's images (state,
hash, size) are. A transaction's operations replace, delete or append, each on
its own target.

`ProjectTransaction` has one action per durable effect:

| Action | Code |
|---|---|
| `Capture`, `Request`, `BindPlan` | the send-time read set; `withPermit`; a wrapper observing its targets and building operations |
| `InstallPayload`, `InstallPlan`, `CheckPrecondition`, `InstallIntent` | `runTransaction` up to the point of no rollback |
| `AlreadyApplied`, `Apply`, `Mismatch`, `TearAppend`, `Mark` | one iteration of `rollForwardTransaction` |
| `Commit`, `VerifyFails` | `verifyRealizedOperations` and `committed.json` |
| `Launch`, `Recognize`, `StopAt`, `RollForward`, `Discard`, `RemoveEntry`, `FinishDiscard`, `OpenProject` | `openProject` and `recoverTransactions`, directories in id order |
| `Crash`, `Edit` | process death between two effects; an edit from outside |

Every durable write has three outcomes: it succeeds, it fails before the effect
or it fails after it (the rename has happened; the directory flush or the
confirming read fails). Appends are truncate-and-write in place, so they can
also stop half way. The journal's `rmSync` removes entries one at a time in any
order.

Abstractions, beyond data:

- Observing a target and installing over it are one step with respect to edits
  from outside. The code has a window of some microseconds there, which no
  check inside the process can close.
- Journal records are present or absent. Their schema and hash validation
  rejects damage from outside, which is not modelled; the one damage the
  program inflicts itself, a half-removed directory, is.
- An append carries the records of one transaction as one atom, and a torn
  append never ends at a line boundary.
- A plan names a target at most once (`PlanAssumption`); every wrapper builds
  its plan that way.
- Only one termcraft process is modelled here; several of them, and the lease
  between them, are the subject of `ProjectLaunch`.
- Power loss that loses an unflushed directory entry is not modelled yet.

### AtomicStore

The abstract specification: a store and the set of transactions that have taken
effect; `Commit(t)` applies the whole plan in one step. `ProjectTransaction`
implements it under the refinement mapping `CommittedView`, in which an
intended but uncommitted transaction is taken back out of the targets it
already reached. The refinement is checked and proved (`EngineIsAtomic`) with
crashes but without failing writes and outside edits: with failing writes the
engine does not implement it, for the reason given in section 6 (a pending
transaction does not block the next one).

### TurnMachine, TurnLifecycle

`TurnMachine` is the transition table of the turn machine and what
`StateMachine.apply` does with it: move along an edge, or report "illegal" and
stay. Nothing calls the two actions around `backend-unhealthy`, so that phase
is left out.

`TurnLifecycle` is one asynchronous operation per turn, all on one event loop.
An action ends one `await` with a result of the port that was called and runs
the synchronous code up to the next; `pc[t]` names the `await`.

| State | Code |
|---|---|
| `phase`, `activeTurn`, `handle`, `intentBit` | turn machine, `activeTurnId`, `activeTurnAttempt`, `commitIntentRecorded` in `kernel.ts` |
| `attempt`, `fallbackUsed`, `root` | locals of `runTurn` |
| `leases`, `lease` | the counter and live lease of `createTurnFence` |
| `run`, `alive`, `latched` | the engine's outcome latch, the process tree, the backend's unconfirmed-exit latch |
| `userRecord`, `record` | the turn's records in the chat log |
| `event`, `shown` | the terminal event; the attempt of the latest `turn.progress` |
| `verdict`, `cancelledIn` | how the turn ends; the phase in which a cancel was accepted, or "missed" (history) |

| Action | Code |
|---|---|
| `Start`, `Read`, `Admit`, `StageWorkspace`, `RetireWorkspace` | `beginTurn`, `runTurnStart`, `runAdmission`, `terminalizeRejectedAdmission` |
| `Loop`, `Fallback`, `Settle` | the loop of `runTurn` with `startTurnAttempt` and `finalizeOutcome` |
| `Claim`, `ProcessesExit`, `Deliver` | the driver's outcome, the process tree draining, `handleFencedEvent` |
| `Snapshot`, `ReadManifest`, `GateRejects`, `GatePasses` | `freezeTurnCandidate`, `runTurnValidation`, `finalizeTurn` up to the transaction |
| `Finalize`, `Acknowledge` | the transaction becoming durable; its promise resolving |
| `RecordTerminal`, `RetireCandidate`, `Return`, `Publish` | `terminalizeTurn`, the retirement, the tail of `runTurnStart` |
| `Cancel` | the guard of `turn.cancel` and `handleTurnCancel` |

Abstractions: an `await` of something already resolved is merged with the step
before it, except at the head of the loop, which a cancel can reach. A store
call is done, refused, or done and reported as failed (section 6 item 5). A
deadline may have expired at each place where the code asks; no timer enforces
it during a run. The fenced `cancelRequested` flag only skips a transition that
would change nothing. A cancel accepted in `running` is recorded as missed
(`Misses`) in the two cases in which the code lets the turn go on after it: the
driver has already claimed an outcome that lets it go on, a completion or a
rejected resume, so that the engine's latch is lost (section 6 item 9), or the
run is live and the kernel has no handle of it (item 8). A diagnostics fold that fails is one of the reasons why
the next attempt does not begin. Prompts, sessions, pages, and the workspace
and candidate directories are left out; process death is the subject of
`ProjectLaunch`.

### TurnContract

What the kernel promises of turns: one at a time, at most one terminal record
and only while the turn is active, one terminal event after its end, and
"completed" only after a commit. It allows a committed turn to be reported as
failed, because that happens (section 6 item 7).

### ProjectLaunch

The life of one project folder under several termcraft processes. Where
`ProjectTransaction` gives every durable effect an action, a transaction here
is two steps, its intent and its realization, and the project is its manifest
and one chat; what is followed is who holds the lock, which turns are open, and
what a launch does about the turns of a process that died.

| Action | Code |
|---|---|
| `Launch`, `MakeFolder`, `LockNew`, `Create` | `openOrCreateProject`, `createProject`, the lease |
| `Recover`, `SkipChat`, `Interrupt`, `Scanned` | `openProject`: the journal, then `scanOrphanTurns` |
| `Open`, `Ready`, `CloseBlocked` | `project.open`, `runProjectReadySequence` with `classifyOrphanTurns`, and the shell's answer to a blocked open, `project.close` |
| `Start`, `Admit`, `Finalize`, `Terminalize` | a turn, seen through its transactions |
| `Realize`, `Conflicts`, `StaysPending` | how a transaction with an intent answers |
| `Exit` | the process exits or dies; the operating system frees its lock |

A failing read or write (`Fault`) may happen wherever the code has an error
branch. A process exit is one step; the microtasks between the release of the
lease and the end of the process are not modelled. The advisory file beside
the lock is left out: nothing decides by it.

### HostSupervisor

`createHostSupervisor` with its restart policy and spare pool. `rec` are the
`KeyState`s and `keys` the map; a key whose session is closing can have two
records, the old one no longer in the map. `hosts` are the incarnations, seen
through what they report to the supervisor: the outcome of `start()`
(`StartReady`, `StartFails`), the answer to a mount (`MountReply`), `onFatal`
(`FatalReported`, which comes after the teardown of the child) and the end of
`stop()`. One action is one await-free section: `Preview` and `PreviewAgain`
are `preview()` for a new and an open key, `Close` and `CloseEnds` are
`close()` before and after it waits, `onIncarnationFatal`, `reconcileMount`
and `tryDrainQueue` keep their names. `stopAll` is `Close` of every record.
`setMode` and queries are passed to the session and change nothing here.
`asked` and `refused` are history for the properties.

`PromptReap` is an assumption about timing: with it, a failed child is reaped
before the backoff or a retry starts its successor. The code does not enforce
it, which is the subject of `host_late_failure`; `host_restarts` assumes it, to
show what holds when children die in time, and `host_capacity` does not.

### HostSession, HostContract

`HostSession` is one incarnation: the supervisor's side of the session
(`start`, the requests with their table, `mount`, the inbound pump, heartbeat
and first-frame deadlines, `stop`), the child's handlers (`handleHello`,
`handleMount`, `handleResize`, `handleQuery`, `handleShutdown`), and the two
pipes. A page is named by its source hash, frames carry a page and a sequence
number. The child may die at any point, hang, or (with `Hostile`) let page code
write to its output; requests may time out before or after their answer. A
timer that may fire is an action; the watchdog's window is the counter `late`.

`HostContract` is what `HostSupervisor` assumes of an incarnation, and
`HostSession` implements it (`ImplementsContract`): the two modules are
composed through it, since a supervisor with several complete sessions is far
beyond exploration. One step of it was learnt from the session: a session that
is stopped while starting can still become ready, when the child's answer is in
the pipe already (`LateReady`).

### CommandBus

The mailbox in one module: the dedupe ledger (`Submit`, with the sweep of a
full ledger), `Execute` (`runFirstSeen`: revision guard, capability guard,
handler), `applyTransition`, the asynchronous half of an operation
(`OperationPublishes`), the counters, the event bus and the clients' mirrors. A
drain of the bus is synchronous code, so while `drain.on` holds only what a
subscriber can do from inside a notification may happen: publish (nested, and
queued), subscribe, unsubscribe, send a command. When the bus is drained the
kernel may publish a capability change (`publishAndTrackCapabilities`). Ids
carry the time they were minted at, as the UUIDs do. Payloads and the commands'
own effects are left out. That a schema refuses a batch, after the revision has
been advanced for it, is a choice (`refuseTransition`), and `gap` remembers it
until the next batch is emitted. No handler publishes from inside a
notification today; the bus is written for it, and it is modelled as written.


## 3. Runs

| Run | Bounds | Shows |
|---|---|---|
| `write_mutex` | 3 callers, 4 guarded steps | FIFO, no lost wake-up, steps begin in grant order under the permit in force and overlap only after an early release, every caller granted |
| `transaction_crash` | 2 transactions, 3 targets, 3 launches | refinement of `AtomicStore`, an intent leads to a commit, nobody queues forever, recovery stops only for a cause |
| `transaction_trouble` | as above, 2 launches, 1 failing write, 1 edit | write-ahead, exactly-once append, replayable intents, exclusion, an open project has decided every intent of an earlier process, durable answers, the send-time compare-and-swap, edits survive |
| `turn_lifecycle` | 2 turns, 2 attempts | slot and phase agree, no agent is alive when its work is used, a cancel before finalization prevents the commit unless it missed the run, late events are dropped, refinement of `TurnContract` |
| `turn_ends` | 1 turn, 4 attempts | a started turn ends, and frees the kernel |
| `host_capacity` | 3 revisions, 2 slots, a spare, queue of 1, 1 restart | the cap holds with spares, a freed slot is handed on, a late close orphans nobody |
| `host_restarts` | 1 revision, 2 pages, 2 sizes, 2 slots, 2 spares, 1 restart | page switches and sizes survive restarts, every close returns |
| `host_late_failure` | as above, 3 incarnations, no `PromptReap` | violation: section 6 item 1 |
| `host_session` | 2 pages, 3 requests, table of 2, 2 timeouts | no false violation, both sides agree, nothing outlives the session, everything returns, refinement of `HostContract` |
| `command_bus` | 2 clients, 2 commands, ledger of 1, horizon of 1, 3 batches | one execution per command, refusals for capacity only for cause, mirrors current but for a refused batch, ordered streams |
| `project_launch` | 2 processes, 2 turns, 4 launches, 2 failures | one terminal record per turn, never "interrupted" over an intended answer, a ready project is settled |
| `project_lease` | as above, 2 launches | violation: section 6 item 2 |

The type invariants `TypeOK`, of the modules that state one, are not among the
properties; those of `ProjectTransaction`, `TurnLifecycle`, `ProjectLaunch`,
`HostSupervisor` and `HostSession` are proved, and that of the mutex is part of
its invariant.

**Bounds.** The two transactions are chosen so that each kind of operation
occurs and both append to the same chat log, which is what a turn and a
concurrent write do. Three launches allow a crash in the first process, a crash
during the recovery from it, and a complete recovery; a fourth adds no new
combination of journal contents, because recovery only ever moves a directory
towards committed, conflict or gone. One failing write and one edit suffice for
each property to meet every place where they can occur; pairs of them are what
the proofs cover. `MaxLaunches`, `MaxFaults`, `MaxEdits`, `MaxSteps`,
`MaxTime`, `MaxBatches` and `MaxNested` are bounds of the exploration only, and
the theorems hold for all their values.
Two turns are enough for the overlap of one turn's tail with the next one; a
third would overlap in the same way, because a turn starts only after its
predecessor has settled. Two attempts let a gate retry and a session fallback
compete for the last lease (the code's `MAX_TURN_ATTEMPTS` is 4); liveness is
checked for one turn with the code's four. What it means for the next turn
follows from `SlotFollowsPhase`: a kernel without an active turn is idle, and
the tail that overlaps with the next turn never touches the phase.
In the host, three revisions compete for two slots and a queue of one: two
fill the cap, the third waits, and a spare may stand in the slot that the
second one needs. A full queue needs a fourth revision, which is beyond
exploration; a preview or retry that is refused there leaves the slots and the
queue as they were, and the theorems (`CapHolds`, `QueueIsServed`) cover it. Two pages
and one buffered size are what a switch or a resize in the wrong moment needs;
failures are unbounded, only the restart budget is small (the code's is 3), so
that the circuit opens and is closed again. Numbers of records and incarnations
are reused, so behaviours are unbounded in length. Three request ids fill a
table of two and leave one for the mount. A ledger of one entry is full after
every command, and a horizon of one tick with a clock of two lets an entry
expire while its duplicate is still to come. Two launches are the fewest in
which one process leaves a turn to the next; four let a launch die in the
middle of closing it, twice.

Deadlock is checked in the host runs; a session that has ended says so
(`Finished`). It is not checked in the others: when the callers and turns are
done, or the launches, commands or batches are used up, the system has really
stopped.

**Fairness.** `WF(ProcessStep)`: an open or recovering process runs the code it
has begun; every `await` in this part resolves, because it waits for local file
operations or for the mutex. `WF(up = "down" /\ Launch)`: a project that was
closed by a crash is opened again while the launch bound lasts; a project that
recovery has stopped need not be. In `WriteMutexClients` the holder of the
mutex releases it, which `withPermit` does in a `finally`. `WF(Operation(t))`
in `TurnLifecycle`: every port a turn awaits answers. Nothing else is fair:
callers need not call or begin a step (one that has begun ends), crashes and edits need not happen, an agent may run
forever (no timer stops it), and users need not cancel. In `HostSupervisor`,
`WF(HostEnds(h))` and `WF(CloseEnds(r))`: `start()` and the reaping of a killed
child have deadlines, and a promise that can resolve does. In `HostSession`
nothing is assumed of the child: each wait has its own deadline, and each
deadline is fair on its own, as is the end of a child that was killed.
`CommandBus` and `ProjectLaunch` state safety only.

## 4. Proofs

Eight modules prove every safety property the passing runs check, for all
values of the constants: any number of callers, plans, launches, turns,
processes, keys, records, clients and commands, every cap, and any number of
failures and edits. Nothing is assumed but what the modules assume of their
constants (one theorem has a hypothesis, named below): `PlanAssumption`,
`EngineAssumption`, `PermitAssumption`, `TurnAssumption`, `BusAssumption`,
`LaunchAssumption`, `SessionAssumption`, `BoundsAssumption` and
`NamesAssumption`. They say that bounds are numbers, that a "nobody" value is
not one of the things it stands beside, that a plan names a target at most
once, and that the supervisor has finitely many keys, records and incarnations
at a time, which a JavaScript `Map` has.

| Module | Inductive invariant | Theorems |
|---|---|---|
| `WriteMutexProofs` | `MutexInv` | `GrantsAreFifo`, `WaitersHaveAHolder`, `GuardedStepsAreSerial`, `AwaitedStepsExclude` |
| `ProjectTransactionProofs` | `JournalInv`, `OwnerInv`, `ContentInv`, `ScanInv` | types, write-ahead, exactly-once append, exclusion, durable answers |
| `TransactionAtomicityProofs` | `CalmInv`, `ReadInv` | `EditsAreKept`, `BlocksForCause`, `CommitsOverItsRead`, `EngineIsAtomic` |
| `TurnLifecycleProofs` | `TurnInv` | `SlotAgrees`, `AgentsAreGone`, `CancelWins`, `ShownIsCurrent`, `TurnsKeepTheContract` |
| `ProjectLaunchProofs` | `ChatInv`, `LeaseInv`, `CreateInv`, `ScanInv` | `TurnsEndOnce`, `AnswersAreNotInterrupted`, `OpenProjectIsSettled` |
| `HostSupervisorProofs` | `SupervisorInv` | `OpenIsMapped`, `QueueIsServed`, `CapHolds`, `SwitchesAreKept`, `ResizesAreKept` |
| `HostSessionProofs` | `SessionInv` | `NoViolationIsFalse`, `NothingIsLeft`, `SidesMeet`, `SessionKeepsTheContract` |
| `CommandBusProofs` | `LedgerInv`, `BusInv` | `ExecutedOnce`, `RefusalsAreDue`, `MirrorsCatchUp`, `StreamsAreOrdered` |

The theorems `TypeCorrect`, `TurnTypes`, `LaunchTypes`, `SessionTypes` and
`SupervisorTypes` are the type invariants of five of the modules.

### The store

- **Mutex.** `FifoOrder` and `NoLostWakeup` are almost inductive; they need
  that no call is made twice (`CalledOnce`) and, for `StepsAreSerial`, that
  everyone who began a step had been granted (`BegunAfterGrant`): a new guarded
  step then comes from the latest grant. Steps of two callers can overlap only
  through a release during a running step; `AwaitedStepsExclude` says that
  callers who await their steps, as `withPermit` does, exclude each other.
- **Types** (`TypeCorrect`), one lemma per group of actions.
- **Journal** (`JournalInv` gives `IntentReplayable`). `IntentReplayable` alone
  is not inductive: installing an intent must know that plan and payloads are
  there, so the invariant says of every stage what is on disk, and that a
  directory under removal has no intent.
- **Ownership** (`OwnerInv` gives `OneAtATime`). A caller in the engine holds
  the mutex; during recovery the mutex is free and at most one directory, the
  first one left in the scan, is being acted on.
- **Content** (`ContentInv` gives `WriteAhead` and `AppendOnce`). What is said
  of the managed files must also hold of the old images the plans recorded,
  since a new image is built from one; an old image moreover contains nothing
  of its own transaction.
- **Scan** (`ScanInv` gives `OpenMeansDecided` and `AnswerIsDurable`). Every
  intent without a commit either belongs to a caller of this process or is
  still ahead of the scan. When a process dies, whatever its callers had been
  told other than success ("pending", "conflict", "refused", nothing) becomes
  "orphaned", so that only callers of the running process are excepted.
- **Edits** (`EditsSurvive`). An operation is applied only over the old image,
  or over the new one, or over its own torn append, so what a step overwrites
  was recorded, or left there, by a transaction with an intent; `JournalInv`
  supplies the intent.
- **Causes** (`BlockedForCause`). `CalmInv` speaks of a history with crashes
  only: at most one intended transaction is undone (`Undone`), it is the one at
  work or the next one of the scan, and each of its targets shows the old
  image, the new image or a torn append of its own, according to what has been
  applied. Recovery then meets nothing it would stop at. What is left to block
  a launch is a failed write, an edit, or a half-removed directory.
- **Reads** (`CommitsOverWhatItRead`). `ReadInv`: from the binding of the plan
  to the intent the old images are what is on disk, because nobody else can
  write under the permit; and the precondition check compared them with the
  read set. Without the restriction to `edits = 0` the property is false, as
  the attempt to prove it showed (section 5).
- **Atomicity** (`EngineIsAtomic`). With `CalmInv`, `CommittedView` takes
  exactly the one undone transaction back out. Applying an operation is then
  invisible, `committed.json` makes all of them visible in one step, and a
  crash is a stutter. The theorem is about the behaviours in which every state
  is `Calm` (no write has failed, no edit has been made): after a write that
  failed past the intent, the next writer works over half-applied targets
  (section 6 item 3), and an edit is a change the abstract store does not have.

### The kernel

- **Turns.** `TurnInv` ties each `await` to the phases of the turn machine it
  can meet (`PhasesAt`) and the slot to the one turn whose operation holds the
  kernel; a run and its lease exist exactly while the turn awaits them, and the
  lease in use is the latest; and it says which records can exist at each
  `await`. A cancel in time must be remembered until the record is written:
  after it the phase is on the way to its end and the commit out of reach
  (`Preventing`). A cancel accepted in `running` that does not miss the run
  (`Misses`, section 2) stops it: `StopInv` says that the run then ends as
  cancelled or failed, so that the turn is neither retried nor continued. The
  theorems are stated for `Safe`, the specification without
  its fairness, which `Spec` implies. `TurnsKeepTheContract` maps every action
  to one of `TurnContract` or to a stutter.
- **Ledger.** `AtMostOnce` follows from: what was admitted is in the ledger, or
  its stamp is behind the floor (`Guarded`), which never goes back; and what is
  queued is queued once and has not run.
- **Bus.** `MirrorsInv` speaks of the middle of a drain: a subscriber that has
  been notified has the current event, one that has not is exactly one behind,
  and the revision of the event is the kernel's unless another batch waits or
  one was refused (`gap`).
  `OrderInv` keeps waiting batches in the order of publication.

### The project folder

- **Chat** (`ChatInv` gives `OneTerminalRecord`). A transaction that may still
  take effect (in the journal, or in the hands of a process) is bound to a
  length of the chat; up to there the chat never changes, and beyond it the
  transaction has no effect. So what its author read is still true if it takes
  effect at all. This needs neither the lease nor recovery, and holds also
  where `WritersHoldLease` fails.
- **Lease** (`LeaseInv` gives `IntendedIsNotInterrupted`). As long as nobody
  has written without it, whoever has a transaction or a running turn holds the
  lock, and a scan starts with no agent record left in the journal.
- **Scan** (`CreateInv`, `ScanInv` give `ReadyIsSettled`). Each orphan is still
  to be done, or reported as not closed, or, once the kernel runs, its own. The
  creation of the project is part of it: until there is a manifest there is
  nothing to scan.

### The host

- **Supervisor.** Most actions first change a record or an incarnation and then
  start whatever the change made room for (`tryDrainQueue`), or fill the spare
  pool. The parts of `SupervisorInv` are therefore predicates of a state that
  is passed to them (`Shape`, `QueueOK`, `CapOK`), and the lemmas follow the
  code: `FatalKeeps`, `Drained`, `ReplenishedFits`, then one lemma per action.
  `Shape` says how records, map and incarnations belong together, `CapOK` that
  keyed incarnations and spares stay below the cap and that a queue which is
  not empty means that the keyed ones fill it. Nothing in it needs
  `PromptReap`: the properties hold however late the failed children die.
  `OwnFailureOnly` is the one that does not.
- **Session.** `NoFalseViolation` is about the order of what is in the two
  pipes. Until `start()` has ended, hello, ready and first frame follow each
  other (`HandshakeInv`). In service, the mount in flight is in one pipe or in
  the other and only once, its answer is followed by the first frame of the new
  page, and every frame is of the page that was mounted when it was written
  (`PageAt`), with numbers that grow (`ServingInv`). With empty pipes this is
  `SidesAgree`. `SessionKeepsTheContract` maps each step to one of
  `HostContract` or to a stutter, and so makes the supervisor's assumption
  about its incarnations a theorem.

### What is only model-checked

Liveness is outside the prover's reach (fairness is about ENABLED):
`IntentCommits`, `EveryCallerLeaves`, `EveryCallGranted`, `EveryTurnEnds`,
`EveryCloseEnds` and `EverythingReturns` are checked by TLC alone. So are the
two violations, which are counterexamples.

One theorem has a hypothesis about the behaviour: `EngineIsAtomic` assumes
`[]Calm`, which the run `transaction_crash` establishes by its bounds.

## 5. What the runs of the host and the kernel show beyond their properties

- A mount that the child refuses while another page has been asked for is not
  followed by a mount of that page until the next `preview` (`supervisor.ts:82`
  says "last click still wins"; the return is at 319-325). `SwitchNotLost`
  excludes it by `refused`.
- The cap counts records, not processes: the child of a replaced or broken
  incarnation may still be dying while its slot is in use.
- Two publications nested in the same drain share the later one's revision,
  since the bus reads the counter when it emits a batch.
- A batch that the schemas refuse has moved the revision already
  (`dispatch.ts:230-244`, which logs it as a breach of contract by the
  producer): until another batch is emitted every mirror is behind, and the
  next command of every client is refused as stale. `MirrorsCurrent` excepts
  the revision, not the sequence number, in that time.
- A handler that unsubscribes during a notification may still be called for the
  current event.
- `AtMostOnce` rests on a wall clock that is not set back (`dedupe-ledger.ts`
  sweeps by it).
- The send-time compare-and-swap (`CommitsOverWhatItRead`) is exact among
  termcraft's own writers only. One edit that restores a file between the
  observation of the plan's old images and the check passes the check, and the
  old image may come back: a transaction that was left pending before is rolled
  forward first by the next launch, and the guarded one then commits over it.
- The store keeps the report of its opening scan; a project blocked for an
  orphan is blocked for it again at every reopening in the same process.

## 6. Where documentation and code disagree

The first two are runs whose single property the model violates. The others
were met while modelling; the models contain the behaviour, and the properties
are stated so as to allow it.

1. `OwnFailureOnly` (`supervisor.ts:343`): the failure of an incarnation can be
   reported twice, by its pending mount at once and by `onFatal` after the
   teardown. The second report, when it comes after the successor's start,
   stops the successor and counts against its budget.
2. `WritersHoldLease` (`core/kernel/model/handlers/project.ts:215`): a project
   that is closed and opened again in one process is used without the lease.
3. A failure after intent does not block overlapping writes
   (`engine.ts:59-61`). The permit is released, the next writer works on
   half-applied targets, and the first transaction then meets content it cannot
   replace.
4. A crash inside the recursive removal of a prepared transaction can leave a
   plan without its payloads, which the next scan calls corrupt
   (`recovery.ts:335-337` says it is harmless).
5. A durable write may fail with the new file in place
   (`durable-write.ts:64-65`), so a caller told "failed before intent" may find
   its transaction committed after the next launch.
6. A target changed after its applied marker is reported as a conflict without
   a `conflict.json` (turn-durability design 4.6).
7. The bit behind `CANCEL_TOO_LATE` is set only after the whole of
   `finalizeTurn` (`run-turn.ts:907`), so a cancel during the transaction is
   accepted, the commit stands, and the turn is reported as failed
   (kernel-command-contract 7.2).
8. The tail of a turn's operation clears the attempt handle (`turn.ts:1787`)
   while the next turn may already be running, whose cancel then does not reach
   the agent.
9. A cancel that loses the engine's latch to a rejected resume is followed by a
   fresh-session attempt (`run-turn.ts:597-661`), and one that loses it to a
   claimed completion does not keep the turn from its gate and its commit. `CancelPreventsCommit` excludes both by `Misses`.
10. A process that dies between making the folder and its creation transaction
    (`factory.ts:1592`) leaves a folder that neither `openProject` (no manifest)
    nor `createProject` (it exists) accepts. The folder is made with a recursive
    `mkdir`, so two processes can both believe they made it; the second one's
    creation then conflicts with the first.

## 7. Plan

Built and proved: the mutex and the transaction engine; the turn lifecycle; the
life of a project folder (lease, recovery, orphaned turns); the host supervisor
and session; the mailbox. Next, in this order:

1. **More proofs.** How far atomicity reaches beyond `Calm`: with writes that
   fail only before the intent is there, the engine should still be the atomic
   store.
2. **Workspaces**: the staging and candidate directories of a turn.
3. **AgentRun**: the event queue, the cancel ladder and its timing.
4. **PreviewTokens**, **ExportPublish**, **Migration**.
5. **JournalDurability**: durable writes with power loss.

## 8. Not modelled

Text analysis in the gate, rendering and widgets, wire schemas, prompt
building, SDK plumbing and the operating-system bindings: pure functions of
their input or single calls without protocol state. They are listed one by one
in `PROJECT.json`.
