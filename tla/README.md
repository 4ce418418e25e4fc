# A TLA+ verification project for Rnix

Rnix runs AI agents as if they were Unix processes.  A daemon holds a process
table; every process is a Go struct plus one *reasoning goroutine* that asks an
LLM device for the next step, runs the tools the answer names through a virtual
file system, and repeats.  Users, other processes, supervisors, schedulers and
the quota machinery all act on the same process at the same time: they signal
it, suspend it, resume it, wait for it, reap it.  What is hard in this program
is therefore concurrency and failure, and that is what the modules here model.

## 1. Inventory of the system

| Part | Source | State it keeps | Operations | What makes it correct |
|---|---|---|---|---|
| process lifecycle | `kernel/process.go`, `suspend.go`, `signal.go`, `reap.go`, `subtree.go`, `reason.go` | state, Exit, Done channel, TerminatedCh, wait group, suspend flag and reason, reap once | spawn, signal, suspend, resume, finish, wait, reap | one reasoner per process; a suspended process is quiet; the field matrix of `invariant.go`; no outcome lost |
| provider gate | `kernel/provider_gate.go` and its three write sites | per-provider token channel, limit, waiter count | acquire, release | tokens conserved, limit respected, waits bounded, no cross-gate deadlock |
| subtree operations | `kernel/subtree.go`, `reap.go` | parent/child edges, `resumeMu` | suspend, resume a tree, reparent orphans | each member is suspended once and resumed once; the walk over a tree that goes on changing promises no more (section 6) |
| supervisor | `kernel/supervisor.go` | child specs, running children, restart history | start, child exit, restart strategies, intensity limit, shutdown | one incarnation of a child at work; no exit unnoticed; restarts start clean and roll back; shutdown ends |
| signals | `kernel/signal.go`, `coroutine.go` | handlers, blocked and pending sets | signal, block, unblock, tree delivery | a blocked signal is delivered once, after unblock |
| coroutines, threads | `kernel/coroutine.go`, `thread.go` | coroutine state, yield and resume channels | yield, resume, thread spawn and join | one resumer wins, a yielded value is consumed once |
| IPC | `kernel/ipc.go`, `ipc_persist.go` | message queues, pipes | send, receive, pipe read, write, close | bounded queues, FIFO, no loss across restart |
| quota wake | `kernel/quota_wake.go`, `retry_backoff.go` | ResumeAt, wake scan | suspend on quota, wake, postpone, roll back | a suspended process is woken after its reset, by one waker, never ended by a failed attempt, never before the backoff |
| crash recovery | `kernel/checkpoint.go`, `load_suspended.go`, `resume.go`, `rehydrate.go` | proc-info and checkpoint files | save, scan, rehydrate | a suspension that was saved is what a restart finds |
| budget pool | `kernel/budget_pool.go` | allotments and spending | allocate, consume, return | never overspent, allotments sum to the total |
| heartbeat monitor | `kernel/heartbeat_monitor.go` | last activity, stall flags | touch, scan | a stall is raised and cleared once |
| reputation, synergy, immune | `kernel/reputation.go`, `synergy_matrix.go`, `immune.go` | scores, pair counts, anomaly windows | record, query, suspend on anomaly | bounded scores, bounded windows |
| context manager | `context/`, `kernel/compact.go` | message list, token counts | append, prune, compact | tool calls stay paired with their results |
| VFS and mounts | `vfs/` | mount table, fd table, MCP reference counts | open, read, write, close, mount, unmount | the reference count is the number of owners; an owner's server runs and is reached; none is leaked |
| compose | `compose/` | DAG of stages | validate, run, cancel | an agent runs after its dependencies and with their output; every agent is accounted for |
| intent | `intent/` | desired graph, reconciler state | submit, reconcile, merge | a node runs after its dependencies; the in-flight count is exact; the verdict is true; Execute returns |
| small sync library | `internal/xsync` | future, registry, ring buffer, sync map | set, get, push | set once, bounded, no lost update |
| daemon and IPC server | `ipc/`, `cmd/rnix` | socket, request handlers | one handler per method | thin wrappers over kernel calls |
| drivers | `drivers/` | subprocesses, HTTP clients | VFS file operations | I/O with external programs |
| agents, skills, skillpkg, config | `agents/`, `skills/`, `skillpkg/`, `internal/config` | parsed manifests | load, resolve, install | sequential parsing and file I/O |
| user interface | `internal/dashboard`, `internal/ui`, `debug/`, `shell/` | view models, script interpreter | render, interpret | sequential |
| test harness | `agtest/` | scenarios | run, compare | sequential |


All paths are under `src/`; kernel files are under `src/kernel/`.

### How the parts interact

* The **daemon** turns a request into one kernel call on a goroutine of its own,
  so any number of kernel calls about one process run at the same time.
* A kernel call and the **reasoning goroutine** share the fields of `Process`
  under `proc.mu`, three atomics, the context, the wait group `proc.wg`, and the
  one-slot channel `Done`.  Nothing makes a call atomic: it is a sequence of
  short lock sections, and another call can run between any two of them.
* `KernelImpl.resumeMu` is the one lock held over a whole operation: by
  `SuspendSubtree`, `ResumeSubtree`, resume-from-disk and the quota wake scanner.
  `Kernel.Suspend`, SIGPAUSE and a process's own suspend do not hold it.
* `Done` carries two kinds of message: the exit of the process, and a suspend
  notification.  Whoever receives (a waiting parent, `Wait`, the supervisor's
  monitor) has to tell them apart.
* Every LLM write passes the **provider gate**, which is shared by all processes
  and is reached from the primary write, the fallback and the compaction.
* A suspended process comes back by four ways: a resume in place, the **quota
  wake** scanner, a detached resume that puts a new object under the same UUID,
  and a restart of the daemon that rebuilds it from `proc-info.json`.  The first
  three exclude each other by `resumeMu`; a kill does not take it.
* Processes that descend from one another by resume or fork carry the same MCP
  **mount** path, so they share one server process through a reference count.
* A **supervisor** knows its children only by what their `Done` channels carry,
  through one-shot monitor goroutines and its own exit channel.
* The **compose** engine and the **intent** reconciler are clients of the kernel:
  they spawn agents, wait for them and read their output.

## 2. Plan

Ordered by how much of the system rests on the part.

| Module | Part | Abstract specification | State |
|---|---|---|---|
| `ProcLifecycle` | process lifecycle | `ProcessContract` | done |
| `ProviderGate` | provider gate | `AdmissionControl` | done |
| `MountTable` | MCP mounts: per-entry lock, reference counts, connect and close outside the lock | `SharedServer` | done |
| `Supervisor` | supervisor with its exit channel, monitors, strategies and intensity limit | | done, but for the adoption of a detached resume and the recovery of messages |
| `QuotaWake` | wake scan, roll-back, postponement, manual resumes, kills, checkpoints, crash and restart of the daemon | | done |
| `Engine` | compose engine and its layers, budget, resume from a node | | done |
| `Reconciler` | intent reconciler and incremental merges | | done |
| `Conversation` | prune and compact against the reasoner that appends | calls stay paired with results | open |

What section 6 lists is not planned.  Every safety property that a run checks is
proved, some under a hypothesis that section 5 names.

## 3. The modules

### ProcLifecycle

One process that `reasonStep` drives, together with everything that acts on it.
An *agent* is one of

* a caller: a goroutine inside a kernel call (`OpsOf` says which calls it makes,
  any number of times);
* a *life*: one incarnation of the reasoning goroutine, from `Spawn` or from a
  resume, until it has left `proc.wg`;
* `Shutdown`: the goroutine of `twoPhaseShutdown`.

`pc[a]` is the point in the source where the agent is.  One action is one
section under `proc.mu` or one atomic, channel, lock or wait-group operation, so
every interleaving the scheduler can produce between them is explored.

| Variable | Code |
|---|---|
| `state`, `suspendReason`, `exit` | `Process.State`, `SuspendReason` (empty or stamped), `Exit` (nil, or which of suspend, completion, failure, unexpected exit, kill wrote it) |
| `suspendRequested`, `terminated` | the atomic flag; the channel `terminated` is closed |
| `done` | the value buffered in `Done`, capacity one |
| `ctxDone` | the context that is now in `Process.ctx` is cancelled |
| `fdOpen` | the process has its LLM device open |
| `resumeMu`, `reapOnce` | the lock's holder; the state of the `sync.Once` |
| `LiveReasoners` | what `proc.wg` counts |
| `pass`, `val`, `op` | locals of `suspendSubtree`, of the exit paths, and which call this is |

| Actions | Code |
|---|---|
| `Call*` | entry and first test of `Suspend`, `SuspendSubtree`, SIGPAUSE, `ResumeSubtree`, kill, `Wait`, `WaitChildInReason`/`SpawnAndWait`, `Reap` |
| `Subtree*`, `Suspend*` | `suspendSubtree` and its passes, `suspendOneForSubtree`, `Kernel.Suspend`, `suspendProcess` |
| `Resume*` | `resumeSubtreeLocked`, `resumeOneForSubtree`, `Unsuspend`; `ResumeOpen` starts a life or fails the reopening |
| `LifeStart`, `Complete`, `Fail`, `ObserveCancel`, `selfSuspend`, `Defer`, `Notify*`, `LifeClose` | `reasonStep`, its deferred function, `notifySuspendDone`, the deferred `CloseAll` |
| `Finish*` | `finishProcess` and `Terminate` |
| `Kill*`, `Signal*`, `Grace*` | `KillWithOrigin`, default signal actions, `killSuspendedProcess`, `reapSuspendedProcess`, `twoPhaseShutdown` |
| `Wait*`, `Reap*` | `Wait`, `WaitChildInReason`, `Reap`, `reapProcess` |

Abstracted: what the LLM says (completing, failing, being cancelled or suspending
itself are choices), the text of reasons and statuses, events, and the files a
suspend writes.  Not modelled: script-runner processes that have no LLM device,
children, blocked and handled signals, the quota wake's roll-back, resume from
disk, the debugger.

`ProcessContract` is what a holder of a process may rely on: five phases, at most
one active reasoner, a pause only when there is none, an unpause that brings at
most one.  `PhaseOf[state]` and `LiveReasoners` are the refinement mapping.

### ProviderGate

Reasoning goroutines that share one gate entry per provider.  `slots` is the
number of tokens in the entry's channel, `held` whose token a goroutine has
received, `waiters` the reported count.  The actions follow `acquireProviderGate`:
`Entry`, the fast path, `Register`, the three arms of the wait loop's select,
`Leave` (the deferred decrement); then `WriteReturns` (the driver's write and the
release), and the three ways on: `Fallback`, `Retry`, `StepOver`.  `Cancel` is any
source of cancellation.  `AdmissionControl` is the promise: a capacity fixed
once, at most that many inside, nobody inside two providers.

### MountTable

One path of `MountManager` and the processes that share it.  An entry is one
`*MCPMount`; `mounts` is the slot of the sync map, `device` the driver the device
registry routes to, `lock`, `refCount`, `connected` the entry's fields, `running`
the server process behind its transport.  A user is a process object with the
thread that acts for it: `pc`, the entry it has loaded (`loc`), and `owned`, the
reference it is entitled to release, which no variable of the code records.

| Actions | Code |
|---|---|
| `MountReserve`, `ConnectOk`, `ConnectFails`, `Register` | `Mount`: publish the locked placeholder, connect, finalize or roll back |
| `AcquireLoad`, `AcquireLocked`, `ListLoad`, `ListLocked` | `Acquire` and `ListMounts`: load, then block on the entry's lock, then look again |
| `UnmountLoad`, `UnmountLocked`, `Unregister`, `Close` | `Unmount`; the close is outside the lock |
| `Rehydrate`, `Finish`, `KillSuspended`, `Replace` | `reattachMCPMounts`, `finishProcess`, `killSuspendedProcess`, `cleanupOldProcessAndHistory` |

`AcquireFails` is where the caller goes when `Acquire` refuses: the retry chain
of `reattachMCPMounts`.  A freed entry may be handed out again (`Free`), so a
stale pointer can meet a new object with the old name.  `CleansReleased` says
whether a resume also unmounts the paths of a process that has finished and so
has released them: the code does, and `mounts_stolen` shows what that costs.  The
other runs and the theorems describe callers that release once.  `SharedServer`
is the promise: owners join and leave, the server is up while there is one.

### Supervisor

`<<i, g>>` is the g-th process started for child i.  `done` is its Done channel
(one slot, a send that finds it full is dropped), `armed` the incarnations a
monitor waits on, `exitCh` the events monitors have received (a monitor can be
slow between receive and send, so they arrive in any order), `event` the one
being handled.

| Actions | Code |
|---|---|
| `StartNext`, `StartFails`, `StartedAll` | the starts of `run` and of the three restart functions |
| `MonitorReceive` | the monitor goroutine of `startChild` |
| `Receive`, `Gate`, `GateAgain`, `NoRestart`, `Restart`, `GiveUp`, `Migrate`, `Settle` | `handleChildExit`: stale filter, quota gate with its two reads of the live state, policy, intensity limit, migration, `allDone` |
| `StopSignal`, `StopWait`, `StopTimeout`, `StoppedAll` | `stopChild` (its wait ends when the child's goroutine does, or after both timers), and what follows the stops |
| `Exit`, `Suspend`, `Wake`, `KilledWhileSuspended` | what a child's Done shows of its life: it ends, suspends for quota or for any other reason, is resumed from either, is killed while suspended (by a user, or by the grace timer of a SIGTERM sent earlier) |

How many earlier restarts are still inside the intensity window is a choice
(`Recorded`).  `WakesInGate` lets a wake fall between the gate's two reads.
`run`'s return when the supervisor's own process is no longer Running at a receive
(`supervisor.go:181`) is not an action: nobody but the supervisor's goroutine finishes
that process; a kill or a suspension cancels its context and waits for it.

`strays` is a history variable: the children the supervisor has given up before
their end.  There are three kinds.  A child that suspends itself while it is being
stopped ends its goroutine, so `stopChild` neither waits longer nor sends SIGKILL,
and `Reap` ignores a Suspended process.  A child that does not look at its
cancelled context outlasts both timers.  And a child suspended for another reason
than quota is taken for one that has exited.  The supervisor goes on without them: a
stray that is woken or resumed works beside its restarted successor, or after the
supervisor is over, until a grace timer, a user or its own end stops it.  `AtWork`
leaves strays aside; what the properties below say holds of all other children.

### QuotaWake

One UUID.  Objects are `*Process` values, `table` the one in the process table;
one that a detached resume removed keeps its fields and may still be in the
scanner's hands.  A suspend is not one step: its transition is followed by the
stamp of the reason, the save and the goroutine's deferred function, and a resume can
come between any two of them; `leaving[o]` counts the goroutines at each of these
points.  `cutShort` marks an object that such a goroutine has ended under a new
loop.  `wakeIn` is `ResumeAt` as ticks left, `age` how long ago the ticker sent the
scan its `now`; `disk` is `proc-info.json`, `unsaved` says that the object has
changed since, `writing` is a checkpoint goroutine past its look at the state.
`failedAgo`, `overtaken` and `cutShort` are history variables for the properties.

| Actions | Code |
|---|---|
| `QuotaSuspend`, `Stamp`, `SaveSuspension`, `Defer` | `quotaSuspendProcess` up to its transition; `suspendProcess`'s stamp and save; the deferred function of `reasonStep`, which ends a process it finds Running and not asked to suspend |
| `Finishes`, `KillWhileSuspended` | `finishProcess`, `killSuspendedProcess` (which takes no lock) |
| `Collect`, `WakeRecheck`, `Probe`, `WakeUnsuspend`, `WakeReopen`, `WakeFailed`, `Postpone`, `Persist` | the wake scan: lock-free collection, re-check of state and table under `resumeMu`, probe, resume with roll-back, postponement by a backoff from the scan's `now`, in memory and on disk |
| `ResumeInPlace`, `ReopenInPlace`; `ResumeDetached`, `ResumeReplace` | `ResumeSubtree`; `ResumeWithOpts` |
| `Checkpoint`, `CheckpointWrite`, `SaveProcInfo` | `asyncWriteCheckpoint`, its look at the state and its save; the saves of a resume, a kill and a reap |
| `Crash`, `Reload` | loss of everything but the disk; `LoadSuspendedFromDisk` |

A save reads the object and writes the file in one step.  Suspends from outside
(SIGPAUSE, `Kernel.Suspend`) are those of `ProcLifecycle`: this module is about a
process that the scanner may wake.

### Engine

The compose engine on one dependency graph: `seen` and `layer` are the layers passed
and running, `thread`, `outcome` the goroutines of `executeNode` and `layerResults`,
`result` is `resultMap`, `proc` the agents' processes and `told` the first value
that came into `Done`.  `Stop`, `Exhausted`, `StartLayer`, `CollectLayer` are
`runLayers`; `SpawnFails`, `SpawnAgent`, `Waited`, `WaitCancelled` are
`executeNode`; `ProcessEnds`, `Suspends`, `Wakes` are what happens to a process.
`Wait` returns on `told`, whoever sent it: an agent that suspends itself is recorded
as failed, its dependents are skipped, and it may be woken and end well afterwards.
The initial states are those of `Execute`, and of `ExecuteFromNode` for every agent.
`NextLayer` is a round of Kahn's algorithm.

### Reconciler

One intent tree: `nodes`, `deps`, `status`, `retries` are its nodes, `thread[n][k]` the
k-th attempt of a node in flight (a retry after a timeout can overlap the killed
attempt), up to the event it has put into `eventCh`.  `Begin`, `SpawnFirst`,
`HandleCompleted`, `HandleRetry`, `HandleFailed`, `Cancelled` are the lock sections
of `Execute`; `SpawnIntent`, `NodeEnds` are `executeNodeWithTimeout`;
`MergeAndInject` and `MergeRejected` are `MergeIncremental` and the injection.
`MergeKinds` says which merges a run has: adding nodes, changing the intent of
existing ones, refused graphs, and merges after `Execute` has returned.

### Proof and model-checking modules

`MCProcLifecycle`, `MCProviderGate`, `MCParts` and `MCPartsLive` give the instances.
`MCParts` and `MCPartsLive` hold several parts that share no state: `part`, chosen
initially, says which one takes steps while the others stay in one initial state, so
a run reaches the states of each part by itself, added up and not multiplied.
`*Proofs` hold the theorems.  `SupervisorConstants` and `ReconcilerConstants` are
the hypotheses of theirs on the constants; an `ASSUME` in `MCParts` and
`MCPartsLive` has TLC evaluate them, and those that the other modules assume, for
every instance.  The modules that are extended together prefix the names they would
share (`EngineInit`, `SupervisorNext`, `ReconcilerSpec`, `QuotaSpec`).  Operators
marked *Mutant* are the plausible bugs each property is tested against: with the
mutant in place of the definition it varies, the property fails.

## 4. The runs

| Run | Question and answer |
|---|---|
| `gate` | Crossed fallbacks, disagreeing and non-positive limits: tokens are conserved, limits hold, nobody waits while holding, the waiter count is exact, `AdmissionControl` is implemented; and a wait ends, though no write need ever return. |
| `proc_locked` | With suspends and resumes under `resumeMu`, any kill, and a waiting and reaping parent: quiet while suspended, one reasoner, device open while reasoning, field matrix, contract. |
| `proc_any` | With unlocked suspends, SIGPAUSE and self-suspends too, a parent never takes a suspended child for finished. |
| `proc_live` | Suspends return; a parent that waits when its child's end is announced learns of it; SIGKILL, and SIGTERM with its escalation, end a process that nobody suspends. |
| `parts` | Mount table: counts, owners served, no server leaked, `SharedServer` implemented. Engine: no agent without its upstream's output, every agent accounted for. Supervisor: one incarnation, nothing unwatched, strategies kept, restarts clean, nothing left behind but strays. Quota wake: one driver, wakes never kill, a backoff from the scan's tick, saved suspensions survive a crash. |
| `parts_live` | Quota wake: a process with an instant comes back. An attach returns; a shutdown of a supervisor ends. Reconciler: `Execute` returns under every kind of merge, and, for merges that add nodes, dependencies first, true verdicts and an exact in-flight count. |

The remaining runs each show one place where the code does not do what it, or a
comment beside it, says.

| Run | What the shortest behaviour does |
|---|---|
| `proc_paused_twice` | Two SIGPAUSEs pass the running test; one completes, a resume starts a life, the other one's transition then suspends the process under the reasoning goroutine. `resumeMu` is not taken on this path. |
| `proc_wait` | `Wait` receives a suspend notification and reaps; its comment promises Zombie. |
| `proc_exit_lost` | A resume runs while the old goroutine is in its deferred function; that goroutine finds the flag cleared and the state Running, and terminates the process; the resume then sets `Exit` to nil. |
| `proc_kill_lost` | SIGKILL's cancel reaches a goroutine that is already suspending itself: the process stays Suspended. |
| `mounts_stolen` | Two processes share a server; one finishes and releases its reference; resuming it releases the reference again (`resume.go:303`), and the server is closed under the other. |
| `supervisor_double` | A permanent child runs out of quota; the gate reads its state, not Running; the wake scan wakes it; the gate reads it again, not Suspended: it falls through and a second incarnation is started. |

Five more consequences of the same interleavings follow from the model and have
no run of their own: a process killed while Suspended is Dead with its
`SuspendReason` still set (`suspend.go:268`; the Dead row of `invariant.go`
wants it empty); a parent that receives the suspend notification of a child
which is killed before the parent looks at its state reports the suspend status
as the exit (`reap.go:337`); the kill of a suspended process can reap it beside
the goroutine a resume has just started and ended (`suspend.go:265`); a
self-suspend's late stamps can land on a process already resumed
(`suspend.go:68`); and a kill that saw the process Suspended, overtaken by a resume
and the process's own end, buries that Zombie and writes "killed while suspended"
over the exit it had (`suspend.go:264-270`; `ProcessContract` allows it as a burial).

Of the other parts:

* A checkpoint goroutine that has found the process Running can save its older
  snapshot after the suspension has been saved (`reason.go:1541`): the disk says
  `running`, and a crash then loses the suspension.  `SuspensionSurvives` and
  `WokenInTheEnd` except exactly that case, by `overtaken`; without the exception
  TLC finds it in six states.
* The early save by a checkpoint or by the listing of the table can put a suspension
  on disk before its reason is stamped; after a crash right then the process is
  Suspended again, and never woken automatically.  `Woken` therefore speaks of
  suspensions saved with their reason.
* A goroutine that is leaving a suspend and finds a resumed process Running ends it
  as "unexpected exit", while the resume's new loop goes on; a later resume of the
  UUID starts another loop beside that one.  `OneDriver` excepts exactly loops so
  `cutShort`; it is `proc_exit_lost` seen from the quota wake.
* The backoff of a failed wake counts from the ticker's `now`
  (`quota_wake.go:336`), taken before the scan waited for `resumeMu` and for
  earlier wakes, though `quota_wake.go:330-333` promises the full gap between
  attempts: after a long wait the next tick may try at once.  `BackoffKept` states what
  is kept.
* A crash between a wake's save and the end of the wake, and one between a
  postponement and its save, lose the suspension and the backoff respectively;
  the properties speak of what was saved.
* A supervised child that was resumed detached after its monitor was armed again
  waits on the old object's channel: nobody watches the new one.  A permanent
  child suspended for another reason than quota is restarted beside the paused
  original, on purpose.  A spawn that fails in `restartOneForOne` ends the
  supervisor and leaves the other children running (`next = "abandon"`).
* What a supervisor gives up before its end works on if it is resumed: the strays of
  section 3.
* A compose run records an agent that suspends as failed and can be over while it is
  only Suspended; a later wake puts it to work, for a run that no longer exists.
* A compose run resumed at an agent takes the agents of the layers passed that
  are not upstream of it as succeeded, though they have no result (`Forgotten`).
* A merge that changes an intent, or a refused one, gives executing or completed
  nodes new dependencies (`merge.go:94`: the roll-back does not restore those of
  unchanged nodes), and a merge after `Execute` has returned starts nodes nobody
  listens for.  `DepsCompleted` and `CompletedIsComplete` are therefore checked for
  merges that add nodes in time, `ExecuteEnds` for all; `ActiveExact` is proved for all.

### Bounds

* `maxPasses` is the code's own constant, 3.
* Two or three lives: the hazards between a goroutine and its successor need two,
  a third shows that nothing depends on the first being the one `Spawn` starts.
  When no life is left the model does not resume (`ResumeCheck`).
* Three callers: two that suspend, resume and kill against each other, and a
  parent.  A caller makes any number of calls, so nothing depends on how many.
* The gate: three goroutines suffice for a holder, a waiter and a process that
  disagrees on the limit; two providers for crossed fallbacks.  `MaxChunks` is 2,
  so that a wait is both renewed and ended.
* Callers with the same calls and lives started by a resume are interchangeable;
  `proc_locked`, whose properties are all safety properties, uses that symmetry.
* Mounts: two processes, each any number of times attached, finished, killed and
  replaced.  A thread refers to at most one entry and the table to one more, so
  three entries never run out.  In `parts_live` a mount takes the first free entry,
  since free entries differ in name only.
* Engine: every acyclic graph of four agents (numbered in an order of their
  dependencies) and every agent to resume from: a diamond and a chain of four are
  the least in which a layer waits for two others.  An agent uses no token or one,
  and the pool has two.
* Supervisor: two children with different policies under each strategy, so that
  there is a child before and one after the crashed one; two incarnations each and
  a limit of two (three and three in `parts_live`, for one child), so that the
  limit is met and not met.  In `parts` a stray stays as it is (`StraysStay`): no
  property speaks of it and its events are stale.  `parts_live` and the proofs have
  no such bound.
* Quota wake: a window of one tick, a backoff of two.  For safety (`parts`) two
  objects, one in the table and one in the hands of the scanner or of a goroutine
  leaving it, and one such goroutine per object (`MaxLeaving`).  For liveness
  (`parts_live`) one object, which a detached resume replaces when nobody refers to
  it any more, and two goroutines leaving it.
* Reconciler: three nodes, one of them merged in, over trees with chains, joins
  and a cycle to refuse; two attempts per node; for the end of `Execute`
  (`Mrg` in `MCPartsLive`) two nodes and two merges of every kind.
* The proofs below depend on none of these bounds but, where a counter is capped,
  on there being one.

### Deadlock

Deadlock is checked in the runs of the lifecycle and the gate: a caller may always
start another call and a process that is over leaves the callers idle.  It is not
in the runs of `MCParts` and `MCPartsLive`: an engine, a supervisor or a reconciler
that is over stops.  That none of them stops earlier is what `ShutdownEnds`,
`ExecuteEnds`, `AttachReturns` and `WokenInTheEnd` say.

### Fairness

`ProcLifecycle!Fairness`: the scheduler runs every goroutine that can take its
next step; a cancelled context ends the write or tool it was passed to (the
drivers take the context); the grace timer fires.  It is weak fairness on what
is *not* a choice of the outside: no caller has to make a call, no model has to
answer, no device has to fail.  `ProviderGate!Fairness`: the heartbeat timer of
the wait loop fires, and the deferred decrement runs.  No assumption is made on
which ready arm a select takes, nor that a write ever returns.

`MountTable!Fairness`: threads run, and a mutex that is freed again and again
reaches its waiter (Go's starvation mode).  `Supervisor!SupervisorFairness`: the
supervisor's and the monitors' goroutines run, and so do the timers of `stopChild`;
nothing is assumed of any child, told to stop or not, and nobody has to cancel the
supervisor. `QuotaWake!QuotaFairness`: the scanner and the clock go on, a resume
that has begun ends, a goroutine leaving a suspend gets to its end, `resumeMu` is
handed over; no user has to act, and `WokenInTheEnd` asks that the device comes back
and the daemon stays up from some point on. `Reconciler!ReconcilerFairness`: the
loop handles events, and every attempt ends, at the latest by its timeout.  Each
property of `MCPartsLive` assumes the fairness of its own part, since the parts that
stay still are not fair.

## 5. What is proved

By TLAPS, for every finite set of goroutines, any providers, any limits, any
number of callers and incarnations, any processes and entries of a mount, any
acyclic compose graph, any objects, windows and backoffs of the quota wake, any
number of supervised children, and any finite set of intent nodes.

**Gate.** `GateInv` = `TypeOK` /\ `SlotConservation` /\ `TokenFollowsControl`.
Conservation alone is not inductive: whether a step that leaves a wait or a
write returns a token depends on who has it, so the third conjunct says that a
caller holds its target's token exactly from the receive to the release, and
queues only on a real provider.  From it: `TypeCorrect`, `SlotsConserved`,
`InFlightBounded`, `NoCrossedGates`, and `GateImplementsAdmission` (every step
is one of the abstract steps or a stutter).  `WaitersCounted` is inductive on top
of the typing: each step adds or removes one goroutine of the set that is counted,
and the library's facts on cardinalities do the rest.  Assumed: `GateConstants`
and `FiniteCallers`.

**Lifecycle, any calls.** `TypeCorrect` needs `PassBounded`: that the pass counter
stays in range follows from the test that opens a pass, which the later steps of the
pass have to remember.  `ParentSeesEnd` needs no lock.  `WaitInv` adds to the typing
by which call a caller came where it is, so that a parent in `WaitChildInReason`
gets to the reaping steps only past its test of the child's state; and what is
Zombie or Dead stays so (`OverIsOver`).

**Lifecycle, locked calls.** `LockedCalls` says that no caller suspends through
`Kernel.Suspend` or SIGPAUSE and that the process does not suspend itself: what
remains holds `resumeMu`.  `proc_paused_twice` shows that
the assumption is needed, and the instance of `proc_locked` satisfies it.  The
inductive invariant is `LockInv`: typing; `MutexInv` (a caller inside a walk
holds the lock); `QuietInv` (from the wait on the wait group to the transition,
and from the transition of a resume to the start of the new life, no goroutine
lives, and meanwhile the process runs); `AloneInv` (two live goroutines are the
same one).  `SuspendedIsQuiet` is not inductive by itself because the transition
to Suspended is a step later than the wait: what keeps a goroutine from starting
in between is the lock, and that is what `MutexInv` and `QuietInv` carry.  From
it: `LockedIsQuiet`, `LockedSingleReasoner`, and `LockedImplementsContract`,
whose step lemma shows for each group of actions which contract step it is.

Two more invariants are inductive beside `LockInv`.  `DeviceInv` says that the
device is open from the start of a life on; a resume opens it when no goroutine
lives, so no `CloseAll` of an earlier one is still to come.  It gives
`LockedKeepsDevice`.  `FieldInv` is the matrix and what each agent that is between two
of its lock sections has already done: a finish carries an outcome and finds the
process not Suspended, a suspend stamps the reason before the exit, a resume clears
them in that order (`Midway`, `CallerMidway`), and a process that has not run has
neither (`CreatedRow`).  The matrix alone is not inductive, since each row is
established by several sections.  It gives `LockedKeepsFields`.

**Mounts.** Under `~CleansReleased`.  `RefCountIsOwners` is not inductive: whether
an `Acquire` may count depends on what the entry it loaded has become since.
`MountInv` adds `LockDiscipline` (an entry is locked exactly by the thread inside
its section), `EntryLife` (what a mounting or unmounting thread has for itself),
`LiveEntry` (a registered entry whose lock is free is running, routed and
counted) and `Ownership` (who owns, owns the registered entry).  From it:
`CountsOwners`, `ServesOwners`, `NoServerLost`, and `TableShares`: the last
registration is a join, every decrement a leave, all else a stutter.  Assumed:
`MountConstants`.

**Engine.** `EngineInv` adds to `UpstreamDone` the facts that the layers passed are
closed under dependencies (`LayersInOrder`), that a goroutine's place tells whether
its agent has a process (`ThreadOfLayer`), that "ok", in a result or in what a
process was the first to tell, is never a guess (`ResultsTell`), and that a
goroutine that has returned has heard from its process and passed on what it heard,
unless the run was cancelled (`NothingLeft`).  That a next layer exists while agents
are left needs an agent of least level among them: the graph's layering, which
`GraphsAssumption` provides, and the well-foundedness of the naturals.  From it:
`FedByUpstream`, `AccountsForAll`.

**Quota wake.** `WakeInv` = `QuotaTypes` /\ `MutexInv` /\ `ObjectInv` /\ `OneDriver` /\
`HandOver`.  `OneDriver` alone does not survive a wake: between the unsuspend and the
reopening the object is Running without a driver, and `HandOver` says nobody has one
then, loops cut short aside; `MutexInv` says that the holder of `resumeMu` works on
the object in the table, `ObjectInv` that only that object runs and that one cut
short stays ended.  All of it holds with any number of goroutines leaving, at any
point of their suspends.
`BackoffInv` (an object or a disk snapshot is not due before the backoff, counted
from the tick of the failed scan, is over)
and `SavedInv` (what the disk holds of an object that has not changed since) are
inductive on top of it.  From these: `DrivenByOne`, `WakesSpareProcesses`,
`BackoffRespected`, `SavedSurvives`.  Assumed: `QuotaConstants`.

**Supervisor.** Under `SupervisorConstants`: children numbered from 1 to `Last`,
any strategy, policies and limits.  `SupInv` holds whatever the children do.  It adds to
the typing which incarnations exist (`History`), whom the event being handled is
about (`Handling`), how far the stops and the starts have come and that whatever is
still to be started has been stopped (`Stopping`, `Starting`), what is left when it
is over (`Over`), by how much a restart under way separates two children
(`Together`), and that the exit of a child that counts as alive is awaited, on its
way or being handled (`WatchedInv`).  `Watched` and `StrategyKept` speak of the loop
only and say nothing of the steps in between; `WatchedInv` and `Together` do.  From
it: `ChildrenWatched`, `RestartedTogether`.

`OneIncarnation` is about the processes themselves, which the supervisor knows only
by messages.  `EndedInv` says what a message proves: an exit "ok" or "fail" in
`Done`, in the exit channel or in hand came from a process that does not work again,
while a suspension's proves nothing.  And every process given up has ended or is a
stray (`Gone`), but for the one `stopChild` is waiting for.  It is inductive
provided no child is woken between the two reads of the quota gate (`~WakesInGate`),
and `supervisor_double` shows that `OneIncarnation` fails without the proviso.  From
`SupInv` and `EndedInv`: `OneAtWork`, `RestartIsClean`, `NobodyLeftBehind`, each
with strays aside.

**Reconciler.** Under `ReconcilerConstants`: finitely many nodes, any trees, any
limit on retries.  `RecInv` = `ReconcilerTypes` /\ `FreshStart` /\ `ActiveExact`;
the count needs that nothing is in flight before `Execute`, and for each scheduling
that the slots taken are as many as the nodes that become runnable (`CountIsExact`,
for every kind of merge).

`OrderInv` adds that the graph is acyclic and closed, that a node outside the tree
is pending, that an executing node has exactly one attempt and any other none, and
that a node that was started has its dependencies completed.  It gives
`DependenciesFirst`, for merges that add nodes, before or after `Execute` has
returned.  `CompleteInv` says instead that an executing node has an attempt in
flight, so that when the count is zero none is executing.  If no node has failed
either, the graph being acyclic, one of the nodes that have not completed depends on
none of the others and would have been spawned, so a verdict of completed is true:
`CompleteWhenReported`, for merges that add or change nodes before `Execute`
returns.  The excluded kinds are those of section 4: TLC violates `DepsCompleted`
with a changed node or a refused graph, and `CompletedIsComplete` with a refused
graph or a late merge.

**Only model-checked.** Liveness (`WaitBounded`, `SuspendReturns`,
`WaiterReturns`, `SignalsTerminate`, `WokenInTheEnd`, `AttachReturns`,
`ShutdownEnds`, `ExecuteEnds`), which is beyond the prover.

## 6. What is not modelled

* **The walk over a subtree.** What `suspendSubtree` does to one process is in
  `ProcLifecycle`.  Across the tree nothing converges in general: after the last
  pass a fork, a child of a member that ended by itself between collection and
  visit, or a process spawned over IPC with a suspended parent may go on running,
  and two generations removed by the collector hide the third.  A module could only
  restate the walk.
* **Orphans.** A reparented child is a zombie until somebody waits for it or reaps
  it; the code promises no more.
* **Coroutines, threads, Send, Recv and Pipe, signal masks and handlers.** Nothing
  in the program calls them; only tests do.
* **Context pruning and compaction.** Groups are cut at assistant messages, an
  action plan appends one between a call and its result, and a manual compaction
  swaps in a snapshot while the reasoner appends.  What is promised of the pairing
  needs a model of the conversation as data; this is the open item of the plan.
* **In the supervisor**, the adoption of the object a detached resume creates, and
  the recovery of persisted messages; **in crash recovery**, what checkpoints and
  `process-meta.json` contain, and the reconciliation of history with the operating
  system; **in the mounts**, `UnmountAll`.
* **In the compose engine**, a stream between engine and daemon that breaks: the client
  reads that as exit 0 (`cmd/rnix/compose.go:119`).  **In the quota wake**, suspends
  from outside.
* **The transition table** is no property of `ProcLifecycle`: every write of the
  state there consults it in the lock section that applies it, as the code does.
* **Arithmetic on one goroutine or under one mutex**: retry backoff, the loop
  detector, budgets and SLAs, scores and statistics, stall detection.
* **By choice**: drivers, LLM protocols and other external I/O; parsing of
  manifests, scripts and configuration; the dashboard, CLI and trace viewers;
  retention and append-only observation files.  The prompt and tool content of a
  step is a choice of outcomes everywhere.
