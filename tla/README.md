# Everstack's sandboxes, browsers, uploads and triggers in TLA+

Everstack is a self-hosted AI gateway: model routing, agents, workflows, a task
queue, object storage, billing, and *sandboxes*, the virtual machines in which
agents and users run code.  Most of the gateway translates requests and talks to
other systems.  The part with a protocol of its own is the sandbox control
plane: several gateway processes ("pods") drive database rows toward what users
asked for, call backends that fail, meter what runs, and keep users' work.  This
project models that part first, then two others that hold a resource for a
tenant across failing calls, the pool of browser pods and the uploads of object
storage, and the triggers that start agents without anybody waiting for them.

Paths below are relative to `src/`.  `ORCH` is `internal/orchestrator/sandbox`,
`SBX` is `internal/sandbox`, `POOL` is `SBX/browserpool`, `STORE` is
`internal/storage`, `TRIG` is `internal/agents/trigger`, `API` is
`internal/api/grpc`.

## 1. Inventory

### 1.1 The components modelled

| Component | State it keeps | Operations | Talks to |
|---|---|---|---|
| Row store, `ORCH/repository.go`, `ORCH/step.go` | `sandbox_instances`: `lifecycle_state`, `desired_state`, `reconcile_after`, `reconcile_attempts`, `recovery_attempts`, the lease (`reconcile_locked_by`, `reconcile_locked_at`), snapshot path, archive ref, `billing_started_at` | `InsertPending`, `SetDesiredState` (with and without tenant limit), `ClaimDue`, `ApplyTransition`, `RecordFailure`, `Recover`, `AutoRecover`, `MarkError` | everyone below, through SQL |
| Reconciler, `ORCH/reconciler.go` | rows in flight per pod | `tick`, `processRow` | row store, executor |
| Checkers, `ORCH/idle.go`, `archive.go`, `recovery.go`, `health_sweeper.go` | the candidates a tick has selected; consecutive misses | idle stop, keep-warm stop, archive, delete, automatic recovery, lost VM | row store, backend, metering |
| Executor, `SBX/manager_executor.go` | none of its own | `ExecuteCreate`, `Stop`, `Revive`, `Archive`, `Terminate` | backend, disk, object store, metering, cache |
| Metering, `SBX/usage_meter.go` | the ledger `sandbox_usage_records`, the open window of a row | `recordUsageForInstance`, `CloseMissingCompute` | row store, cache |
| Manager, `SBX/manager.go`, `manager_lifecycle.go` | instances in memory, sessions | start-up, lookup with database fallback, direct destroy, purge | all of the above |
| Slots, `SBX/limits.go`, the counts of `ORCH/repository.go` and `SBX/manager.go` | none: rows are counted | insert or start within the tenant's limit, direct session creation, the count of a revive | row store, manager |
| Event bus, `ORCH/notify.go` | subscriber channels | `Subscribe`, `Unsubscribe`, `dispatch` | PostgreSQL LISTEN |
| Backends, `SBX/docker`, `firecracker`, `fcagent`, `kubernetes` | VMs, warm pools | create, destroy, snapshot, restore | outside the process |
| Browser pool, `POOL/pool.go`, `state.go`, `usage_postgres.go` | pods, leases, deadlines, creations and releases in flight, `pendingCreates`; `browser_usage_windows` | `EnsureBrowser`, `Release`, the reaper, `Close`, `RecoverStale` | Kubernetes, Chromium, database |
| Uploads, `STORE/upload_lifecycle.go`, `direct_upload.go`, `reconciler.go`, `API/storage/v1` | `object_storage_uploads`, `object_storage_objects`, `object_storage_usage`, bytes at the provider | presign, complete, direct upload, delete, bucket sync, reconcile | database, provider, clients with a URL |
| Agent triggers, `TRIG/executor.go`, `circuit_breaker.go`, `scheduler.go`, `webhook_handler.go`, `event_subscriber.go`, `postgres_store.go` | `agent_triggers` with the circuit and its counter, `agent_trigger_executions`; a copy of the row in every activation | cron tick, webhook, event and test firing; `Execute` with retries; success and failure records; updates | database, agent sessions, workflows |

How they interact.  The API and the checkers write `desired_state` and never
wait.  The same SQL statement moves a row that is at rest into the convergence
that leads there.  A worker claims due rows under an advisory lock, stamps a
lease and commits; it then runs one *step*, which is one executor method and may
take 90 seconds, outside any transaction; it writes the result back with a
single statement guarded by `reconcile_locked_by = leaderID`.  The executor
finds the instance in the pod's memory, or in the row if it is not there, and
calls backend, disk, object store and ledger in a fixed order.

The browser pool lives in one process.  A mutex guards its maps and is given up
for every call to Kubernetes, Chromium or the database; what is in flight is
written down in the maps, so that another call for the same session waits for
it on a channel.  Uploads are the opposite: nothing is in memory, every step is
a serialisable transaction, and provider calls happen between two of them.  A
trigger's activations share nothing but the row each has a copy of, and write to
it in single statements without a condition.

### 1.2 What is hard here

* **Interleaving.**  Everything may happen to a row between the claim and the
  write-back of a step: new requests, a sweep, a direct destroy, the expiry of
  the lease, another claim.
* **Atomicity.**  Sweeps select first and act later; the executor reads the row
  first and destroys later.
* **Crash and re-run.**  A step that is interrupted anywhere is run again from
  its beginning, possibly by another pod with another cache.
* **Partial failure.**  VM, tar, object store and ledger fail separately; the
  order of effects decides what a re-run finds.
* **Stale caches.**  No pod is told that another pod moved a row.
* **Liveness.**  A row that nobody claims never moves again; a row that fails
  must not be retried for ever; a reservation nobody completes must be given
  back.
* **Counting.**  Slots, capacity and quota are counted at one moment and used at
  a later one, by several actors, some of whom do not count.
* **Old copies.**  An activation of a trigger decides minutes later by the row it
  was started with.
* **Handing over.**  A browser goes from one session to the next through a
  sequence of calls each of which may fail.

`PROJECT.json` lists the hazards line by line with the properties that would
catch each.

### 1.3 What correctness means, per component

* *Row store and reconciler*: one worker at a time steps a sandbox; a result
  that comes too late changes nothing; a request that took effect is honoured
  unless a recovery follows a later one; retries have a budget that starts afresh with each convergence;
  every convergence ends; clients see only the promised transitions.
* *Checkers*: acting on an old selection should not undo a newer request (it can,
  by way of an error and a recovery; section 2 has the trace); automatic recovery
  is bounded.
* *Executor*: what a user left in a sandbox should be what they find again, and a
  step that is run twice should do what it would have done once (section 2 has the
  cases in which the code loses work); a row that says stopped or terminated has no
  VM.
* *Metering*: every compute window is charged, and charged once.
* *Slots*: no interleaving exceeds the limit, and a row that has taken its slot
  is not refused it again.
* *Browser pool*: a leased browser belongs to one session, holds nothing of
  another, is metered, and no failure leaks a pod or a slot; nobody waits for
  nobody.
* *Uploads*: what is charged is what is held, once; a published upload has its
  bytes; reservations and deletions end.
* *Triggers*: whoever fails often enough opens the circuit, whatever copies
  decide; an open circuit is tried again and closes when sessions succeed; a
  running execution is one that runs; limits hold.
* *Event bus*: every subscriber hears of a change or its channel is closed, and
  nothing is sent on a closed channel.

### 1.4 The other components

Listed in `PROJECT.json` with the reason each is not modelled yet.  Candidates
for modules of their own, in this order: the task queue (`internal/tasks`), the
workflow engine (`internal/workflows/engine`), agent runs
(`internal/agents/agentrun`), the warm VM pool (`SBX/firecracker`).  Model
providers, configuration, generated code, the administration UI and the adapters
to other systems have little state that a model would say something about.

## 2. The modules

```
SandboxStates            states, desired states, pure transition functions
  <- SandboxStatesProofs          facts about them
  <- SandboxLifecycle             rows, leases, reconcilers, checkers
       INSTANCE SandboxPromise    what clients may rely on
       INSTANCE SandboxStepping   what the executor may rely on
       <- MCSandboxLifecycle
       <- SandboxLifecycleProofs  (with SandboxStatesProofs)
  <- SandboxWorkspace             VM, work, archive, billing of one sandbox
       <- MCSandboxWorkspace
       <- SandboxWorkspaceProofs  (with SandboxStatesProofs)
            INSTANCE SandboxStepping
            <- SandboxWorkspaceKeptProofs
  <- SandboxSlots                 a tenant's slots over several sandboxes
       <- MCSandboxSlots
       <- SandboxSlotsProofs

StorageUploads           uploads, usage counters, provider, reconcilers
  INSTANCE UploadLedger           what the quota promises
  <- MCStorageUploads
  <- StorageUploadsProofs

BrowserPool              leases of browser pods in one process
  <- MCBrowserPool
  <- BrowserPoolProofs

AgentTriggers            activations, circuit breaker, execution rows
  <- MCAgentTriggers
  <- AgentTriggersProofs
```

### SandboxStates

The state names of `ORCH/step.go`, the table of successful steps (`StepTarget`
for `Step`), the CASE of the `SetDesiredState` statement (`MovedBy`, `Advance`),
where recovery re-enters convergence (`RecoverTarget`) and the labels of the
public API (`PublicState`).  The states "absent" and "purged" stand for a row
that is not inserted yet and one that is deleted again.

### SandboxPromise

The abstract specification of the row store for a client of the API: the graph
of public labels, and nothing about leases, attempts or desired states.
`SandboxLifecycle` implements it with `label <- PublicState(row.state)`.  The
graph shows that a sandbox is archived only after it was stopped, comes back
only through starting, and leaves error only toward a label that is on its way.

### SandboxStepping

The abstract specification of the rows for whoever steps them, and the seam
between the next two modules.  A row has a state, a desired state and at most one
stepper, the pod whose worker has it with the desired state that it claimed.  A
claim finds nobody at work; a stepper's result is always written, and is the
target of the state the row has; while there is a stepper, nothing but its result
moves the row; a stepper may be lost, and then the row stays as it is.  There are
no leases, deadlines or attempts.  `SandboxLifecycle` implements it where steps
end before their lease and nothing destroys a row directly (`SteppedAlone`, with
`stepper` read off the tasks), which is the whole purpose of the lease;
`SandboxWorkspace` implements it for its row, with the calls of the executor as
stuttering steps.

### SandboxLifecycle

All writes to the lifecycle columns, by every process.

| Code | Model |
|---|---|
| a row of `sandbox_instances` | `row[s]` |
| `reconcile_after <= NOW()` | `row[s].due`, set again by `BackoffElapses` |
| `reconcile_locked_by`, age of `reconcile_locked_at` | `holder`, `expired`; `LeaseExpires` |
| a goroutine started by `tick` with its copy of the row | `task[w]`, `w` a pod and a slot |
| the rows a checker has read and not yet handled | `scan[k]` |
| `InsertPending`, `SetDesiredState`, `Recover`, purge, direct destroy | the actions of `API` |
| `ClaimDue` and the dispatch of one row | `ClaimDue(w, s)` |
| `processRow` after success, failure, panic | `ApplyTransition(w)`, `RecordFailure(w)`, `AbandonStep(w)` |
| idle, keep-warm, archive and delete sweeps | `Select`, then `Sweep`, `SpecialCandidate` |
| `HealthSweeper`, `RecoveryChecker` | `Select`, then `MarkError`; `AutoRecover` |
| a pod that dies; its replacement has another `LeaderID` | `CrashPod`, `StartPod` |

A batch of `ClaimDue` is a sequence of single claims, since the advisory lock
serialises the stamps.  The outcome of a step is nondeterministic here.  `stale`
in a task and `asked` are history variables: no action's guard reads them except
`LeaseExpires`, where `stale` only says which holder a running step belongs to.

`asked[s]` follows the last request that *took effect*: one that moved the row or
met it where it was wanted (`Effective`).  A write that meets the row converging or
in error redirects nothing and leaves `asked[s].want` alone; `over` becomes
"written".  It stays in the desired column, though, and `Recover` and `AutoRecover`
re-enter convergence by that column; when they follow such a write, `over` becomes
"recovered".  `IntentHonoured` says that this is the only way in which a request
that took effect is lost: otherwise the row rests only where it was wanted, and
until such a write it goes on desiring that.  The exception is real.  The idle
checker selects a running row; its user terminates it, which takes effect; the
sweep, now stale, writes `sleeping`; the termination fails `MaxAttempts` times; the
recovery checker sends the row to `stopping`, and the sandbox the user deleted ends
up sleeping.  `ORCH/idle.go:158-160` says that "duplicates and stale candidates are
no-ops", which is true of the state and not of the desired column.

`StepsOutliveLease` chooses between two readings of the timeouts.  The code gives
a step 90 seconds and a lease two minutes, so a step that honours its context
ends first (`FALSE`); a call that ignores it may not (`TRUE`).
`DirectDestroyAllowed` says whether the manager's direct destroy, which clears a
lease without looking at it, is in use.

### SandboxWorkspace

One sandbox below the row: the VM and the version of the user's work in it, the
workspace tar on each disk, the archived copy, the open compute window, each
pod's cached window, and the ledger.  An executor method is a sequence of
phases, one action per call that has an effect (`StopSnapshot`, `DestroyVM`,
`Meter`, ...), so that an interruption falls between any two of them.  A row has
one worker at a time, whose write-back is not refused: what `SandboxStepping`
says and `SandboxLifecycle` establishes.

`Trouble` chooses what may go wrong: a pod dies (`crash`), a step panics or its
write-back fails (`abandon`), a call fails (`step`), a VM dies (`vanish`), a live
guest looks gone (`unreachable`), a read of the row fails (`lookup`), a `Destroy`
and the `Status` call that asks what became of the VM both fail (`blind`).

`blind` stands for a rule of the code: `ExecuteStop` and `ExecuteTerminate` accept
a failed destroy as "already gone" whenever `Status` returns an error, of any
kind, where the health sweeper insists on "not found".  With it a row can be
written `sleeping` or `terminated` over a VM that runs; `NoOrphanVM` is checked
and proved for backends that can say whether a VM is there.

`work` is history: the version the user made last; whether the user is owed it
(`owed`: until a termination is accepted or the VM itself dies, and for no other
reason); and whether one of the two things happened in which the code loses it
(`unsaved`, `cut`).

Four observations about lost work and money, which hold of the code and are the
reason the properties of section 3 carry conditions:

* With two pods the pod that stops a sandbox closes the window it has in memory
  (`findInstanceBySandboxIDWithDBFallback` looks there first).  A pod that
  stopped the sandbox earlier still has it; after another pod's revive the open
  window is not metered and the write-back clears it.  `WindowsAreBilled` is
  therefore checked and proved with one pod.  For the same reason a stale window
  makes a stop fail after it destroyed the VM ("close sandbox compute billing
  window": it is neither in the row nor in the ledger), and the work with it, so
  that `WorkKeptThroughReruns` needs one pod as well.
* A stop that is run again after it destroyed the VM meets no guest, removes the
  tar its first run made, and the row sleeps without a snapshot; an archiving
  that is run again after it removed the tar records no archive.  The executor's
  contract says of a re-run that it "must converge, not double-apply ...
  snapshot/restore re-run cleanly" (`SBX/manager_executor.go:12-15`).
  `WorkKeptThroughReruns` leaves those cases out (`work.cut`).
* A live guest that does not answer when it is to be snapshotted is taken for a
  dead one, when `Status` fails or the error reads like a dead guest's
  (`isDeadGuestSnapshotError`: "EOF", "connection refused").  The stop then
  destroys the live VM and what was in it, although it "is data-preserving exactly
  like the user-facing one" (`ORCH/step.go:259-261`).  `WorkKeptThroughReruns`
  leaves that out too (`work.unsaved`, set when a stop destroys a VM of which it
  has no snapshot); guests that do not answer are part of its run.
* A stop that fails for good leaves the VM alive; an archive request and a
  recovery then send the row straight to archiving, which does not look for a
  VM: "the VM is already gone (stopped in StateStopping)" (`ORCH/step.go:283`).
  The row ends `archived` with a VM that runs and is not billed.  That is why
  `NoOrphanVM` is about rows that say stopped or terminated.

Section 4.3 has the conditions in full and shows that none can be dropped.

Where an action does a little more or less than the code:

* `Use` needs the row to be running; `exec` and file access by id do not look at
  the row's state (`SBX/manager_executor.go:505-543`), so a process may also write
  to a VM that is being stopped, after its snapshot.  That write is lost, and the
  model has no property about it.
* `Recorded` always leaves a ledger row; the code reports success without one for
  a window of zero or negative length (`SBX/usage_meter.go:454-456`), for which
  there is nothing to charge.
* `TerminateClean` may leave the archived object: the code removes it only with an
  instance in hand, and ignores errors.
* `CallFails` is any call that returns an error.  `Step` takes a "not found" from
  `ExecuteTerminate` for success (`ORCH/step.go:371-378`); it can come only from a
  `Destroy` that does not find a VM which `Status` finds, and is left out.

### SandboxSlots

Several sandboxes of one tenant.  A slot is never written down: it is counted,
from `lifecycle_state` and the open billing window, by whoever wants one.

| Code | Model |
|---|---|
| the `WHERE` of every count | `Holds`, `Counted` |
| `InsertPendingWithLimit`, `SetDesiredStateWithLimit`: advisory lock, count, write | one action each, guarded by `SlotFree` |
| `ConcurrentSandboxCount`: rows and the pod's own instances | `Used(p, s)` with `memory[p]` |
| `createSandboxAsync`: count, then insert | `AskSlot`, then `InsertPendingWithLimit` |
| `getOrCreateImpl`: count, placeholder, row, VM | `AskSlot`, `Place`, `PersistPlaceholder`, `Launched` or `LaunchFails` |
| the start verb, `Recover`, `AutoRecover`, the checkers | `SetDesiredState`, `Recover`: no count |
| `ExecuteRevive` counts before it allocates | `StepRevive`, then `Revived` or `ReviveFails` |
| `ListSandboxInstances` fails rows pending for ten minutes | `FailStalePending` |

`AskSlot` asks for a row that is not there.  `getOrCreateImpl`
(`SBX/manager.go:1447-1554`) may also destroy the sandbox a session has, because its
network or repository settings changed or its entry in memory is stale, and take the
row through creation again within the same request; that recreation is left out.

`pass` is history: how a row came to be counted.  What the model shows of the
limit is subtle.  The number of rows *counted* may exceed it, since starts and
recoveries write `reviving` without counting, and a direct creation counts
first and writes later.  The number of sandboxes that *run* does not, direct
sessions apart: an uncounted row has to pass the count of its revive step.  The
price is that two uncounted reviving rows at the limit refuse each other until
both are given up; `ReviveAssured` says when that cannot happen.  A pod's
outdated instances only ever cause refusals.  `FailStalePending` assumes that a
direct creation has given up within ten minutes, which the code enforces for
asynchronous creations only.

### UploadLedger

What the quota promises, without states, leases or providers: a charge is
reserved within the quota, committed, released; an import is charged whatever
the quota.  `StorageUploads` implements it with the reservation state of each
row as its charge.

### StorageUploads

| Code | Model |
|---|---|
| a row of `object_storage_uploads` | `row[o]`, `o` a provider key |
| `attempt_count` as a fencing token | `row[o].attempt`, the actor whose attempt is current |
| `expires_at`, the verification lease, `next_attempt_at` against the clock | `expired`, `leased`, `waiting`; `Expire`, `LeaseEnds`, `RetryFallsDue` |
| `object_storage_usage` | `usage` |
| a method of `PostgresUploadLifecycle` | one action or operator of the same name |
| the provider, and URLs it accepts | `bytes`, `url`; `ClientPut`, `ProviderPut`, `ProviderGet`, `ProviderDelete` |
| a request handler or reconciler between two transactions | `task[a]` |
| the list of `ListReconcileCandidates` with `RunOnce`'s decisions | `todo[r]`, decided by `Verdict` when it is read |
| a failing database call, the end of a process | `Crash` |

Every object counts one unit.  A row that is imported after the deletion of an
upload at the same key replaces it (`origin`); an actor still at work on the old
row finds that one deleted (`StateOf`).

Seen in the model and left unproved, because the code does it: a URL that a
concurrent replay was given outlives the reservation that `FailInitiation`
releases; a client may overwrite a published object as long as its URL is valid;
a sync may import an object whose bytes a deletion is removing, which is why
`ReadyHasBytes` speaks of uploads.

### BrowserPool

One gateway process.  An action is one critical section of `p.mu`, or one
outcome of a call made outside it.

| Code | Model |
|---|---|
| `p.pods` with `state`, `sessionID` | `pods[n]` |
| `p.leases`; deadlines in the past | `lease`, `late` |
| `p.ensures`, `p.releases` and their channels | `ensures`, `releases`; `Await`, `Complete` with `Woken` |
| `p.pendingCreates` | `pending` |
| a goroutine in `ensureBrowser` or `release` | `task[c]` |
| `reap` with its copies | `reap`; `Tick`, `ReapExpired`, `ReapPod`, `ReapOrphans` |
| pods in the cluster, by owner | `alive` |
| what a session leaves in Chromium | `pods[n].dirt` |
| open rows of `browser_usage_windows` | `window` |
| `Close` | `Close`, then `CloseAll` when every operation has returned |
| the process dies and is started again | `Restart` |

Deadlines and idle times are passed whenever the model says so.  Pods of all
settings are alike.  Two processes share nothing but the usage table, which has
one open window per session; the model has one process and its predecessors.

`CleanHandover` covers what a session does under its lease.
`BrowserSessionContext` keeps its connection when the reaper ends the lease, so
a tool call that is under way may still drive a browser that is reset or leased
again; that is outside the pool and outside the property.

### AgentTriggers

One trigger and its activations in all processes.  `Type` says how it is fired
and `Workflow` what it runs.

| Code | Model |
|---|---|
| the row of `agent_triggers`: `circuit_state`, `consecutive_failures`, `circuit_opened_at` against `circuitResetPeriod` | `circuit`, `failures`, `due`; `Elapse` |
| rows of `agent_trigger_executions` in `running` | `running` |
| a goroutine in `Executor.Execute` with the `Trigger` it was given | `stage[a]`, `copy[a]`, `attempt[a]` |
| `tick`, `Handle`, `handleEvent`; `TestAgentTrigger` | `Fire`, by the query of the trigger's type; `Test` |
| the check of the circuit, `TransitionToHalfOpen`, `CountRunningExecutions` | `Check`, `HalfOpen`, `Count` |
| `RecordExecution`, the session or workflow, `completeExecution`, the delay | `Start`, `SessionSucceeds`, `SessionFails`, `Retry` |
| `RecordSuccess`, `RecordFailure` | `RecordSuccess`; `RecordFailure`, then `OpenCircuit` |
| `UpdateTrigger` | `Update` |
| a failing store call, a process that dies | `Fails(call)` for the calls in `Trouble`; `Die` |

A `RecordExecution` that returns an error has left no row, or a row that was
committed and that nobody completes (`RowLeft`).  A gateway without a workflow runner
records a failure and no row (`TRIG/executor.go:345-349`): to the circuit the same as
a `Start` and a `SessionFails`, and not modelled on its own.

A row that nobody will complete stays in `running` and is counted in `lost`:
there is no code that would complete it, and with `max_concurrent` 1 the trigger
never runs again.  `streak` is history: failures recorded since any success.
Counters stop at the threshold, past which the code only compares them; a copy
has what its activation still looks at (`Seen`).  A
success whose copy had neither failures nor a half-open circuit writes nothing,
so that `consecutive_failures` may be ahead of `streak` and a circuit may open
early; `FailingOpens` says that it never opens late.  `healthy` separates what
the operator repairs from what the code does: from then on sessions and store
calls succeed.

## 3. The runs

### 3.1 Runs that pass

| Run | Instance | Shows |
|---|---|---|
| `lifecycle_fencing` | one sandbox, two pods of one worker, idle and health sweeps, steps outlive leases, direct destroys | `TypeOK`, `IntentHonoured`, `RetryBudget`, `StaleResultDiscarded`, `KeepsPromise` |
| `lifecycle_timely` | one sandbox, two pods of two workers that may crash, archive, delete and keep-warm sweeps | `OneStepperPerRow`, `SteppedAlone`; `ConvergenceEnds`, `RetriesEnd` under `FairSpec` |
| `workspace_retried` | one pod, abandoned steps, silent guests and reads that fail, two versions, four windows | `WorkKeptThroughReruns`, `WindowsAreBilled` |
| `workspace_trouble` | two pods on one disk, all trouble but `blind`, two windows | `TypeOK`, `BilledOnce`, `NoOrphanVM`, `ReviveRestores` |
| `slots` | three sandboxes, two pods, two slots | `TypeOK`, `WithinLimit`, `ReviveAssured` |
| `uploads` | two keys, one handler, one reconciler, a quota of one | `TypeOK`, `UsageMatches`, `QuotaKept`, `KeepsLedger` |
| `uploads_shared` | one key, two handlers, one reconciler | `ReadyHasBytes`; `ReservationsEnd`, `DeletionsEnd` under `FairSpec` |
| `browser_pool` | two sessions of one tenant, two callers and the reaper, two pods, one restart | `TypeOK`, `LeasesAreBound`, `CleanHandover`, `CapacityKept`, `LimitKept`, `LeasedIsMetered`, `NothingLeaks`, `WaitsAreForWork` |
| `triggers` | webhook trigger, two activations, one retry, two at once, every trouble, one lost row | `TypeOK`, `RunningRowsAreReal`, `FailingOpens`; `OpenEnds`, `ActivationsEnd`, `CircuitHeals` under `FairSpec` |

Every property has a mutant in `PROJECT.json`: a change to one definition, of
the kind a slip in the code would make, under which the run finds the property
violated.

### 3.2 Runs that end in a violation

Each contradicts a sentence of the source; `PROJECT.json` quotes it.

* `stranded`.  A request survives the step it met when it comes after the last
  claim that copied the row, or when it is an archive request for a running row.
  The row is then `running` with another desired state: `ClaimDue` does not look
  at it, the idle checker and the health sweeper require `desired_state =
  'running'`, and nothing the system does by itself moves it again.
* `ready_reaped`.  A reconciler lists an upload whose reservation has expired;
  the client completes it before its turn; `BeginDeletion` accepts a ready row
  and the published object is deleted.
* `cron_stays_open`.  The query of the scheduler leaves out open triggers, and
  only an activation moves a circuit from open to half-open.  A cron trigger that
  has opened stays open, unless somebody tests it by hand; so does an event
  trigger.  `OpenEnds` holds of webhooks, whose query does not look at the circuit.

Other disagreements were met and are kept as observations.  In `BrowserPool`: the
reaper lists the sessions past their deadline and releases them one after the
other; a session that was released and leased again before its turn loses its new
lease, and its billing window ends at the old deadline.  In `AgentTriggers`: the
check of a half-open circuit lets everybody through, though it "allows a single
probe execution"; and two activations that count the running executions before
either has recorded its own both start, past `max_concurrent`.

Two more in `SandboxLifecycle`.  `ApplyTransition` writes the `desired_state` of the row as it was
claimed, so a stop requested while the sandbox is created is overwritten by
`running`, although `SetDesiredState` says of such a request that "the reconciler
is already converging it".  And the lease belongs to a pod, not to a claim: with
two workers in one pod, a direct destroy clears the lease of a row in flight, the
second worker claims the row, and the first one's result passes the guard; this
is what `Fenced` in section 4 excludes.

### 3.3 Bounds

* *One sandbox in the lifecycle and workspace runs.*  Rows are independent: each action of
  `SandboxLifecycle` but `CrashPod`, `StartPod` and `Busy` reads and writes one
  row, and a worker with another row in hand is one that does nothing for this
  one.  The theorems of section 4 do not need the bound.
* *Two pods, at most two workers each.*  Fencing is about a worker and its
  successor; a third worker would stand for either.
* *`MaxAttempts = 2`, `MaxRecovery = 1`.*  The smallest values with a failure
  that is retried, a failure that is the last, and a recovery that is refused.
* *Checkers.*  Each lifecycle run enables some of them, and between the two runs
  all five are used; the recovery checker is always on.
* *`MaxWindow`, `MaxWork`.*  Creating or reviving a VM opens a window, so they
  bound how often it is brought up: twice in the largest run (a window and an
  older one), four times with one pod.  The user makes one or two versions; a
  property about lost work compares the last version with any other.

* *Slots.*  One sandbox more than slots, and one slot more than one, so that a
  count can be exceeded by one and by several; two pods for stale memory.
* *Uploads.*  Two keys and a quota of one let a reservation be refused; one key
  with three actors is where they race.  Rows share only the counters.
* *Browsers.*  Two sessions compete for one place in the plan, two pods and three
  names let one be deleted, one reused and one created; the second caller is the
  racing call, the reaper the third.  One restart leaves orphans and windows.

* *Triggers.*  Activations share one row, and a stale copy needs one other to make
  it stale; with one retry the threshold is two, so that a streak is counted by
  two activations.  One place more than lost rows, since a lost row takes its
  place for ever and a trigger with one place would stop.

`workspace_trouble` has a `VIEW` that leaves out `work.owed`, `work.cut` and
`work.unsaved`: no guard, no other variable and none of the run's properties reads them.

`CHECK_DEADLOCK FALSE` is set where the system may rest: a purged sandbox is the
end, so is a bounded number of windows, and so is an upload that is deleted.

### 3.4 Fairness

`SandboxLifecycle`'s `FairSpec` assumes only what the loops give:

* `StartPod`: a pod that is deployed starts; the environment leaves one pod.
* `ClaimDue` per sandbox, strong: `tick` runs for ever and `ClaimDue` orders by
  `reconcile_after`, so a row that is due again and again is reached.
* `Finish` per sandbox, strong: a step that is tried over and over is not
  abandoned every time.  The code retries a step that panics on every attempt
  without counting it, so without this assumption `ConvergenceEnds` is false;
  this is listed as a hazard.
* `BackoffElapses`, `LeaseExpires`: time passes.
* `AutoRecover`: the recovery checker ticks for ever.
* `Finish(w) \/ AbandonStep(w)`: a step ends, because its context has a
  deadline.

Nothing is assumed of the user, the sweeps or the health of a VM.

`StorageUploads`' `FairSpec`:

* `Expire`, `LeaseEnds`, `RetryFallsDue`: time passes.
* `ListReconcileCandidates` and `Reconcile` per key, strong: the ticker runs for
  ever and its list is ordered by age, so that a row that is a candidate again
  and again is reached.
* `ProviderGet`, and `CommitVerifiedUpload` or `RejectContent`, of a reconciler:
  a call that was made returns.
* `ProviderDelete` and `CompleteDeletion`, strong, by whichever actor: of the
  deletions begun again and again, neither the provider refuses nor a crash cuts
  off every one.

Nothing is assumed of clients and handlers: they may stop between any two steps.

`AgentTriggers`' `FairSpec`: a goroutine takes its next step, since every call it
makes has a deadline and every session a timeout (`Step(a)`); whoever calls the
webhook calls again as long as it is accepted (`Fire(a)`); the reset period passes
(`ResetPeriodEnds`).  Nobody tests a trigger, and nothing is assumed of updates
and repair: `OpenEnds` and `CircuitHeals` are about a trigger that is settled,
enabled and repaired for good.

## 4. Proofs

All theorems hold for every value of the constants that satisfies the named
assumptions: any number of sandboxes, pods and workers, any budgets, any layout
of disks, any combination of trouble but where a table says otherwise.  Every
safety property of a passing run, invariant or action property, is stated by a
theorem.  `SandboxStatesProofs` has the facts about the transition tables that
the first proofs use.

### 4.1 SandboxLifecycleProofs

| Theorem | States | Under |
|---|---|---|
| `TypeCorrect` | `[]TypeOK`; the recovery counter never passes its bound | `LifecycleAssumption` |
| `LeaseFencing` | `StaleResultDiscarded` | `Fenced` |
| `Exclusive` | `[]OneStepperPerRow` | steps end before their lease, no direct destroy |
| `BudgetKept` | `[]RetryBudget` | `LifecycleAssumption` |
| `IntentKept` | `[]IntentHonoured` | `Fenced` |
| `Implements` | `KeepsPromise`: the refinement of `SandboxPromise` | `Fenced` |
| `StepsAlone` | `SteppedAlone`: the refinement of `SandboxStepping` | steps end before their lease, no direct destroy |

`Fenced` says that a pod has one worker, or that steps end before their lease
and nobody destroys directly.  Something of the kind is needed, as the last
observation of 3.2 explains: with two workers in a pod, the guard of the
write-back cannot tell the worker that lost the row from the one that has it.

The argument.  None of the properties is inductive.  `LeaseIInv` adds what the
lease is supposed to mean: a task that is not stale holds the lease of its row
and the row is as it was claimed (`TaskInv`); two such tasks for one row are one
(`OwnerInv`); only rows that can be claimed are leased (`LeaseInv`); in a timely
system no task is stale and no held lease expired (`TimelyInv`).  From it follows
that a row at rest has no worker, so a request that moves it cannot be undone by
a write-back.  `IntentInv` then says that the row, unless a recovery followed a
later write, is on the *way* to what was asked (a set of states per desired state),
and that until such a write the worker who will write has claimed it with that
desire.  `BudgetInv` says that attempts are spent only in
`error` and in the states error and rest lead to without a reset.  The refinement of `SandboxPromise`
needs `TaskInv`: the state that a write-back leaves from is the one the row has.
That of `SandboxStepping` reads the stepper of a row off the tasks, so it needs
to know before and after each step that at most one task has the row in hand,
that it owns the lease, and that the row is as it was claimed (`InHand`,
`OutOfHand`); a claim then finds no stepper because a lease that is held has not
expired.

### 4.2 SandboxWorkspaceProofs

| Theorem | States | Assumes |
|---|---|---|
| `TypeCorrect` | `[]TypeOK` | |
| `ChargedOnce` | `[]BilledOnce` | |
| `RestsWithoutVM` | `[]NoOrphanVM` | no `blind` trouble |
| `RevivesWhatItLeadsTo` | `ReviveRestores` | |
| `StepsOneRow` | `SteppedAlone`: the refinement of `SandboxStepping` for one row | |

They assume `WorkspaceAssumption`, and all but one nothing else.  `StepInv` adds to the types that each
phase of a step belongs to the states whose executor method has it (`RunsIn`):
nothing moves a row while it is stepped.  `Destroyed` says that from the
destruction of a VM to the write-back there is none, which makes `NoOrphanVM`
inductive.  `ReviveInv` follows a revive through its phases: what it has settled
on (`Promised`) is what the row leads to, and after the restore it is in the VM.
`BilledOnce` is inductive with the types: the ledger is written in one place.

`StepsOneRow` and `StepsAlone` together say how the two sandbox models fit
together: both move the rows only as `SandboxStepping` allows, so the single worker
which `SandboxWorkspace` takes for granted is the one `SandboxLifecycle` provides.
What the pair does not say is that `SandboxWorkspace` can answer every behaviour
of `SandboxStepping` (a step that never calls the backend cannot be written back);
its actions have no guard on the row's desired state or on its history, so what
it leaves out is left out by the executor.  `StepsOneRow` has been checked by TLC
on the instance of `workspace_trouble` as well.

### 4.3 SandboxWorkspaceKeptProofs

What `SandboxWorkspace` promises only under conditions.

| Theorem | States | Pods | Trouble excluded |
|---|---|---|---|
| `RunsWithVM` | `[]RunningHasVM`: a row that says running has a VM | any | `vanish` |
| `EveryWindowBilled` | `WindowsAreBilled` | one | `vanish`, `step`, `crash` |
| `NoneEndsInError` | `[]StaysOutOfError`: no window is refused, no row ends in error | one | `vanish`, `step`, `crash` |
| `WorkIsKept` | `[]WorkKeptThroughReruns` | one | `vanish`, `step` |

`WorkKeptThroughReruns` itself has two exceptions, `work.unsaved` and `work.cut`:
the theorem says that these are the only ways in which stops, archives and revives
lose work under its conditions, not that work is never lost.

The conditions of the two properties that a run checks are exact: TLC, given
one of the excluded kinds of trouble alone, or two pods and no trouble at all
where the table says one, finds each violated; and it finds
`WorkKeptThroughReruns` violated without either of its two exceptions, on the
instance of the run.  One gateway process with one data
volume is what `examples/quickstart/compose.yaml` starts.  Without `vanish` a VM
ends only by what the gateway does; without `step` the theorems are about steps
that are interrupted anywhere, by a panic, a refused write-back or a crash, not
about calls that return an error.

The argument, from invariants that TLC confirmed on larger instances than the
runs before they were proved (two pods with four kinds of trouble for the first,
one pod, four windows and up to five kinds for the others):

* `AliveInv`: a VM that a step has made is there until the write-back, so a
  running row has one, and the health sweeper never misses it.
* `BillInv`, for `EveryWindowBilled`: the cache of the one gateway and the row
  agree on the open window (`Agrees`), a step that stops or terminates closes the
  window of the row before it writes (`Settled`), and a window is open only where
  a VM may run.  Neither a read that fails nor a backend that cannot answer
  disturbs this, since a window that is open is in memory.
* `PinInv`, for `WorkIsKept`: a crash empties the cache and start-up opens windows
  of its own, so cache and row need not agree any more; what is left is that a
  cached window can be found in the row or the ledger (`Findable`), so that no
  stop is refused after it destroyed the VM.
* `WorkInv`, for `WorkIsKept`: where the user's last version is, phase by phase
  (`Tracked`): in the VM while the row runs or is about to be stopped, in the tar
  that the stop made, at what the row leads to while it rests (`Leads`), and
  under way through a revive, where `ReviveInv` says that what is restored is
  what the row leads to.  A stop without a snapshot is tracked by the VM alone, so
  that destroying it is either destroying a VM whose snapshot is made or the
  exception `unsaved`.  `NotOwed` says what ends the debt.

### 4.4 SandboxSlotsProofs

| Theorem | States |
|---|---|
| `SlotsInvariant` | `[]SlotsInv`, which includes `TypeOK` |
| `SlotsTyped` | `[]TypeOK` |
| `RunsWithinLimit` | `[]WithinLimit` |
| `RevivesAreAssured` | `[]ReviveAssured` |

They assume `SlotsAssumption`: any finite set of sandboxes, any pods, any limit.
`WithinLimit` is not inductive: that a row runs within the limit comes from a
count that was made earlier.  `SlotsInv` says that the rows which passed a count
and still hold a slot are never more than the limit (`PassesWithinLimit`); that a
row that is created or runs has a pass, counted or direct, and a row with a pass
holds a slot; that a revive step which has counted keeps its row reviving; and
that an answered request still finds its row as it was (`RowsInOrder`).  The
proof is about cardinalities of subsets of `Counted`: a count looks at all rows
that hold a slot, so those that passed are fewer still.

### 4.5 StorageUploadsProofs

| Theorem | States |
|---|---|
| `UploadsInvariant` | `[]UploadsInv` |
| `UploadsTyped` | `[]TypeOK` |
| `UsageIsCounted` | `[]UsageMatches` |
| `QuotaIsKept` | `[]QuotaKept` |
| `ReadyHasItsBytes` | `[]ReadyHasBytes` |
| `LedgerIsKept` | `KeepsLedger`: the refinement of `UploadLedger` |

They assume `UploadsAssumption`.  That a counter never goes below zero is part of
`TypeOK` and needs `UsageMatches`: a refund is of a row that is charged.
`ReadyHasBytes` needs to know what each actor's step implies for the row it works
on (`ActorsAgree`): whoever is about to erase bytes works on a row that is
`deleting`, or deleted, and neither leads back to `ready`; whoever judges content
as good has read it while its attempt was current.

### 4.6 BrowserPoolProofs

| Theorem | States |
|---|---|
| `PoolInvariant` | `[]PoolInv` |
| `PoolTyped` | `[]TypeOK` |
| `LeasesStayBound` | `[]LeasesAreBound` |
| `BrowsersAreClean` | `[]CleanHandover` |
| `CapacityIsKept` | `[]CapacityKept` |
| `PlanIsKept` | `[]LimitKept` |
| `LeasesAreMetered` | `[]LeasedIsMetered` |
| `NoPodLeaks` | `[]NothingLeaks` |
| `NobodyWaitsInVain` | `[]WaitsAreForWork` |

They assume `BrowserPoolAssumption`: any finite sets of pods, sessions and calls,
any limits.  Almost all work of the pool is done outside its mutex, so the
argument is about what a goroutine may rely on between two critical sections.

* `CallsInv`: the calls at work are exactly those registered in `ensures` and
  `releases`, one per session, never both kinds; who waits, waits for a
  registered one.  `WaitsAreForWork` follows, since a call that is registered
  never waits.
* `PodsInv`: a pod in `binding` or `resetting`, or not yet published, is kept by
  one call (`PodKept`, `OnePodEach`); a pod that somebody is about to delete is
  in `deleting`, or gone, and nobody keeps it (`Discards`); what is idle is
  clean, and what is bound is marked by its own session only (`PodInOrder`).
  With that `LeasesAreBound` and `NothingLeaks` are inductive, and
  `CleanHandover` follows.
* `CapacityKept` and `LimitKept` count sets that a step changes in one member:
  the call that moves.  A step either leaves the member in or takes it out, or
  it is the one that has looked at the limit in the same critical section.

### 4.7 AgentTriggersProofs

| Theorem | States |
|---|---|
| `TriggersInvariant` | `[]TriggersInv` |
| `TriggersTyped` | `[]TypeOK` |
| `RunningRowsHaveSessions` | `[]RunningRowsAreReal` |
| `FailingTriggersOpen` | `[]FailingOpens` |

They assume `AgentTriggersAssumption`: any finite set of activations, any limits,
any trouble.  Two facts make the properties inductive.  `RetriesLeft`: who waits
for another attempt has one left, so that attempts stay within their type.  And
`streak <= failures`: the stored counter is reset only by a success that ends the
streak as well, so that the failure which completes a streak is answered with a
count at the threshold and its activation goes on to open the circuit, whatever
its copy says.

## 5. What is only model-checked, and why

* Liveness: `ConvergenceEnds`, `RetriesEnd`, `ReservationsEnd`, `DeletionsEnd`,
  `OpenEnds`, `ActivationsEnd`, `CircuitHeals`.  Proofs of ENABLED and of fairness
  are out of the prover's reach.
* That the conditions of section 4.3 cannot be weakened: a counterexample on a
  small instance is what shows it.

## 6. What is left out

* *In the row store*: the derived `agent_definitions.lifecycle_status`, the
  notifications, the legacy states `failed` and `stopped` (`provisioning` is in
  `SandboxSlots`).
* *In the checkers*: the leader lock.  Without it sweeps of several pods overlap,
  which is more than the code does.
* *In the executor*: the best-effort VM snapshot in the object store, setup
  scripts, prices and network counters, the pinned end of a window, rows that
  start-up writes for a VM without one.  The object store is always configured.
* *The legacy synchronous lifecycle*, for deployments without the reconciler.
* *Backends*: a call succeeds, fails before its effect, or is interrupted.
* *In uploads*: sizes other than one, batches of the reconciler, downloads,
  listings, storage connections and their credentials.
* *In the browser pool*: heartbeats and therefore which orphans are due, prices
  and the times written into a window, browser settings, the tenant check on a
  session id, several processes.
* *In triggers*: cron expressions, time zones and the scheduler's lock, the
  webhook's signature and rate limit, templates and results, deletion, and updates
  of the limits, which are constants.  A session succeeds or fails; what it does
  is the agent runtime's.
* *Everything else*: see the components in `PROJECT.json`.  Most of the
  repository is generated code, user interface, request translation and adapters.

## 7. Plan

Done: `SandboxStates`, `SandboxPromise`, `SandboxStepping`, `SandboxLifecycle`, `SandboxWorkspace`,
`SandboxSlots`, `UploadLedger`, `StorageUploads`, `BrowserPool`, `AgentTriggers`,
and their proofs as far as section 4 says.  Next, in this order:

1. `EventBus`: subscribers, bounded channels, `dispatch` sending outside the
   lock, `Unsubscribe` closing.  Safety: no send on a closed channel; a
   subscriber that is not told was full.
2. `TaskQueue`: an abstract queue (each task completed at most once, none lost)
   and the PostgreSQL and Redis forms against it; retry, cancel and completion
   racing.
3. `AgentView`: `SandboxLifecycle` composed with the derived status of agents.
4. The workflow engine and the warm VM pool, each as a module of its own.
5. Proofs: the refinement of the queue, and whatever `AgentView` needs of
   `SandboxStepping`.

Runs are bounded by the time TLC needs; each new module brings one run with its
safety properties and, where the code disagrees with its own words, one more.
