# Formal models of the specrails-desktop server

specrails-desktop is a desktop application that runs coding-agent CLIs (Claude,
Codex, Gemini, local runners) on the user's projects. Its core is a Node server
that keeps one SQLite database per project, queues jobs, starts provider
processes, and accounts for what they spend. This directory holds TLA+ models of
that server's core logic, their model-checking configurations, and theorems
about them.

Source lines below are those of `server/...` in the repository. `queue-manager.ts`
stands for `server/modules/execution/runtime/queue-manager.ts`, and other file names
without a directory for the file of that name under `server/`.

## Contents

| file | what it is |
|---|---|
| `QueueManager.tla` | the job queue of one project: admission, order, slot, child, kills, outbox, budget, shutdown, crash, restart |
| `JobLifecycle.tla` | the abstract specification the queue implements |
| `MCQueueManager.tla` with `MCRecovery.cfg`, `MCKills.cfg`, `MCOrder.cfg`, `MCLiveness.cfg` | instances that hold |
| `MCStranded.cfg`, `MCWedged.cfg` | instances in which the queue departs from its comments |
| `QueueManagerProofs.tla`, `QueueOutcomeProofs.tla` | theorems about the queue |
| `RepoLock.tla`, `MCRepoLock.tla`, `MCRepoLock.cfg`, `RepoLockProofs.tla` | the per-repository lock, its instance and its theorems |
| `InteractiveSession.tla`, `MCInteractiveSession.tla`, `MCSession.cfg`, `InteractiveSessionProofs.tla` | the session of one job with a resident child, its instance and its theorems |
| `PromptDelivery.tla` | the abstract specification of its prompts |
| `ProjectRegistry.tla`, `MCProjectRegistry.tla`, `MCRegistry.cfg`, `ProjectRegistryProofs.tla` | the catalogue of projects and the leases that guard them, the instance and its theorems |
| `TicketOutcomes.tla`, `MCTicketOutcomes.tla`, `MCOutcomes.cfg`, `TicketOutcomesProofs.tla` | what runs and decisions do to tickets, across two stores, the instance and its theorems |
| `PrDecision.tla`, `MCPrDecision.tla`, `MCPrDecision.cfg`, `PrDecisionProofs.tla` | the decision on one delivery, its instance and its theorems |
| `JiraOutbox.tla`, `MCJiraOutbox.tla`, `MCJira.cfg`, `JiraOutboxProofs.tla` | the synchronisation with Jira, its instance and its theorems |
| the other `.cfg` files | instances of the known departures, section 10 |
| `PROJECT.json` | index: components, runs, mutants, map from definitions to source lines, hazards, findings, theorems |

## 1. The system

### Components

**Job queue** (`queue-manager.ts`, with `server/db/jobs.ts` and
`domain/scheduling.ts`, `domain/daily-budget.ts`).
*State on disk*: `queued_jobs` (admissions with position and priority), `jobs`
(rows `running` or terminal), `orphan_job_recovery` (an outbox: one row per job
that has ended, with three checkpoints), `queue_state.paused`,
`ai_invocations` (the spend ledger).
*State in memory*: `_jobs`, `_queue`, `_activeJobId`, the active child and its
timers, the sets of canceled, zombie, force-failed and blocked jobs, the flags
`_paused`, `_disposed`, `_restoreBlocked`.
*Operations*: enqueue, cancel, pause, resume, reorder, updatePriority, shutdown;
callbacks for child data and exit, zombie and kill timers, the completion of an
awaited plugin check; constructor with recovery.
*Correct when*: an acknowledged job runs at most once and reaches exactly one
outcome with one ledger entry and one report; one child at a time; dependents run
only after their parent completed and never wait for one that failed; order by
priority survives a restart; the budget is enforced on recorded spend; nothing
is left waiting.

**Interactive job session** (`interactive-job-session.ts`). Keeps a resident
child, a queue of turns and the rule that settles the session by itself.
*State*: the queue of prompts, whether a turn streams, the frames accepted so far,
the background workers of the child, the reason it is being ended for, three timers.
*Operations*: send, finalize, abort, dispose; lines of output, microtasks, timers, exit.
Correct when a follow-up is delivered in order, refused or reported, never lost between
the last turn and the settlement, when every turn is accounted for once, and when the
session settles once and in the end.

**Repository lock** (`repo-lock.ts`). A map from a canonical Git directory to the
last promise chained on it. Correct when functions on a common repository never
overlap, in order, and calls on several repositories never deadlock.

**Project registry and admission leases** (`project-registry.ts`,
`process-admission.ts`). Open project contexts, load retries, removal; a
generation per project invalidates continuations that awaited across a removal.
Correct when no continuation of a removed project acts, a project admits work only
after its recovery, a removed one stays away, and a removal that was refused can be
retried.

**Loop engine** (`modules/loops`): runs of several steps, each with its own
child; step accounting that survives a crash; resume at the failed step.

**Missions and conversations** (`modules/missions`, `modules/conversations`):
durable inputs, one turn at a time per conversation, steering of a running turn.

**Delivery** (`modules/delivery`): isolated worktrees per rail, pull requests,
decisions made by compare-and-set under operation leases. *State on disk*: the row of
a delivery with its lease and the row of its effect on tickets; beyond the server, the
repository and GitHub. Correct when one request at a time works on a delivery, a
final decision stays and says what happened, and its effect on the tickets comes about
once, for the iteration that was decided.

**Specs** (`modules/specs`): the ticket file and its lock; a ticket has a status, the
marker of the last outcome applied to it, and addenda that are claimed by a run and
applied or given back by its outcome. Correct when each outcome changes a ticket once
and no addendum is left in flight.

**Jira synchronisation** (`server/jira`): an outbox of changes drained by one
worker, a poll that reads issues back, links between tickets and issues,
re-authentication. Correct when every change arrives once or is shown as failed, newer
intentions win, and nothing waits for ever.

**Accounting**
(`modules/accounting`): aggregation of `ai_invocations`. **Core and framework
updates**, **setup, plugins, headroom, workspaces, worktrees**, the smaller
modules (**agents, audit, browser, builder, code, inbox, intent, onboarding,
project rules and settings, subscription usage, terminals, recovery**), the
**provider adapters, MCP and mobile** transports, and the **client, CLI, Tauri
shell and local runner** complete the repository.

### How they interact

* HTTP and WebSocket routes call the managers' methods; Node runs each handler to
  its end or to its next `await`.
* The queue reports an outcome to its project (`_onJobFinished`: tickets, Jira,
  rails, webhooks) from inside an outbox transaction, so the report is repeated
  until it commits.
* Managers share the project database; the ledger is written by all of them and
  read by the queue's budget check.
* Removal of a project calls the queue's `shutdown` first and goes on only when it
  answers that nothing is outstanding.
* Rails, the code explorer and delivery take repository locks around Git.
* The end of a run, and the decision on its delivery, write the ticket file and the
  Jira outbox; ownership of tickets passes to a run when it is admitted.
* The recovery of a project replays terminal callbacks, then ticket effects, and only
  then is the project's admission opened.

### What is hard

* *Interleaving*: a start awaits plugin checks while further handlers run; timers
  and `close` callbacks of an earlier child arrive when a later one runs.
* *Failure*: any transaction may fail and the process may die between any two;
  a child may ignore SIGTERM, survive SIGKILL, and exit later all the same.
* *Order*: outbox rows are replayed later than they were staged, with a snapshot
  of the dependents; positions on disk are rewritten separately from memory.
* *Two stores*: an outcome is written to a JSON file and to SQLite, and Jira or GitHub
  may have done what the answer never said.
* *Progress*: whoever frees the slot must drain the queue; whoever claims a lease must
  give it back on every path.

The hazards, each at its line and with the properties that watch it, are listed
under `hazards` in `PROJECT.json`, including those no model covers yet.

## 2. Plan

Modules in order of importance.

Done:

1. `RepoLock` with proofs.
2. `QueueManager` and `JobLifecycle`, runs and refinement;
   `QueueManagerProofs`: types, `AdmittedOnce`, `SpawnedOnce`, `OneChild`.
3. `InteractiveSession`, and `PromptDelivery` that it implements.
4. `ProjectRegistry`, with the admission leases.
5. `TicketOutcomes`: terminal callbacks and delivery effects over the two stores.
6. `PrDecision` with proofs.
7. `JiraOutbox`.
8. `ProjectRegistryProofs`.
9. `InteractiveSessionProofs`, with the refinement of `PromptDelivery`.
10. `QueueOutcomeProofs`: `SettledExactlyOnce`, `SpendIsKnown`, `StateConsistent`,
    the refinement of `JobLifecycle`; then the jobs that wait and their order
    (`NoStrandedDependent`, `NoLostWakeup`, `PriorityOrder`, `DurableOrder`).
11. `JiraOutboxProofs`: `Consistent`, `SentOnce`, `NewestWins`.
12. `TicketOutcomesProofs`: `Consistent`, `SettledCompletely`, `DecisionTakesEffect`,
    `EffectOfItsIteration`.

Left:

13. `AgentInputs` (missions): durable inputs, queued, steered, interrupted;
    abstract specification: each input is delivered at most once.
14. `LoopRun`: steps, accounting recovery, resume.
15. `FrameworkSwitch`: staged installation with crashes.

Recursive functions and sets are used where the code recurses (`Descendants` is
the least closed set, not a recursive operator), so that every module can carry
theorems.

## 3. QueueManager

### State and atomicity

Each variable is a field of the class or a column of a table; the comments in the
module name them. The durable ones survive `Crash`, all others are reset by it.
`admitted`, `spawns` and `notified` are history, and `faults`, `crashes`, ... are
bounds.

Node does not preempt a handler, so a handler is one action, with two exceptions:
the outbox replay is one action per row (`ReplayRow`) followed by `AfterReplay`,
and the drain of the queue is the action `Drain`. `pc`, `pass` and `then` say what
the current handler has still to do; while `pc` is not `"idle"` only these actions
and `Crash` are enabled. This gives the crash its chance between the transactions
of a handler without adding interleavings the event loop does not have. The only
`await` in the life of a job is the one before its spawn; between `Reserve` and
`Spawn` any other handler may run.

A transaction that fails is a choice which costs one of `MaxFaults`. Where the
code rolls memory back as well and rethrows (admission, cancellation, reorder,
priority), the failed call changes nothing and needs no action.

| action | code |
|---|---|
| `Enqueue`, `CancelBeforeSpawn`, `CancelRunning`, `Pause`, `Resume`, `Reorder`, `UpdatePriority`, `Shutdown` | the public methods |
| `Forget` | `DELETE` of a terminal job (`project-router-jobs.ts`, `deleteJob`) |
| `Drain`, `Reserve` | `_drainQueue` with `_enforceDailyBudget` |
| `Spawn`, `AbandonStart` | `_startJob` after its await: promotion by `createJob` and spawn, or `_canContinueStart` is false |
| `WedgeFailed`, `WedgeUnsettled` | `_failWedgedJob`, when its terminal intent commits and when it does not |
| `ChildExit`, `LateExit`, `ExitDisposed` | `_onJobExit` (and `_settleInteractiveJob`), `_reconcileForceFailedJobExit`, and the exit seen by a disposed manager |
| `PersistEventFails`, `ZombieTimeout` | `persistEvent`, `_onZombieDetected` |
| `KillTimerFires`, `SigkillAnswered`, `ForceFail` | the timer of `_kill`, the callback of the SIGKILL, `_forceFailUnkillableJob` |
| `Capture`, `ReplayRow`, `AfterReplay` | `_captureOrphanRecoveries` (with the rest of `_restoreFromDb` at startup), `_resumeOrphanRecoveriesUnsafe` |
| `Crash`, `Restart` | death of the process, constructor |

`JobLifecycle` is what a user may rely on about a job: it is admitted, starts at
most once, only after its parent completed or was deleted from the history, ends
once, is skipped only on account of a parent that ended badly, and is reported
only once it has ended. `QueueManager!Lifecycle` maps a job's phase to its durable
rows (not to memory), so the refinement also says that a crash is invisible.

### Abstractions

* Data: commands, providers, models, profiles, costs and log lines. A job that ran
  has one ledger row; the budget is a number of such rows (`BudgetCap`). The sum of
  money is not modelled, its arrival in the ledger is.
* `priority` is one variable for memory and disk: it is written to both in one
  transaction with a rollback of memory.
* The manager without a database and without callbacks, a test configuration.
* Pipelines: their status is computed from the jobs and changes none.
* `normalizePendingQueue` and the union with legacy queued rows in `jobs`: repairs
  of databases of older builds. `QueueConsistent` shows that the first has nothing
  to do in a database of this build.
* A late reconciliation needs the outbox row of its job. After a shutdown that was
  refused has captured and completed that row, a further try finds nothing to reconcile
  and fails, as in the code, until a restart.
* After a zombie timeout the model raises no second one for the same child: the
  first leads to SIGKILL already.
* A `priority` and a parent are chosen once for a job id before the run (`Init`,
  `Dep`) instead of by its `Enqueue`: ids are fresh, so this loses nothing.
* A parent that is named by `Enqueue` has been admitted before (it may have been deleted
  from the history since). The code accepts any other id too, and treats it as satisfied,
  like no parent at all.

### Runs

| run | instance | states | what it shows |
|---|---|---|---|
| `recovery` | 3 jobs, 2 depends on 1; 1 fault, 1 crash | 756,117 | no admission lost or run twice; each outcome settled once; memory, disk and queue agree; no lost wakeup; `JobLifecycle` |
| `kills` | 2 jobs, one interactive, budget of one; 2 faults, 1 crash, 1 cancel, 1 pause, 1 deletion | 1,476,905 | one child, settlement once, and no start on unrecorded spend, through kills, unkillable children and late exits |
| `order` | 3 jobs, 2 priorities, 1 move, 1 crash | 778,088 | priority order, and the same order after a restart |
| `liveness` | 2 jobs; 1 fault, 1 crash, 1 pause | 290,311 | the queue moves, admissions settle, removals converge |

*Bounds.* Two jobs are enough for what happens between the holder of the slot and
its successor, three for a parent, its dependent and a bystander. One crash can
fall between any two transactions, and the recovery from it is itself a handler
that can meet the fault; a second crash only repeats the first with a smaller
outbox. Two faults let the staging of a terminal row and its later retry both
fail. Timeouts and SIGKILL failures are not bounded: a job has one of each.
`MaxKills` bounds cancellations only; `MaxPauses` bounds `pause()` and, so that it cannot be
called for ever, `resume()` of a queue that is not paused.

`CHECK_DEADLOCK FALSE` in these configurations: a server that has been removed, and
has no crash left, stops.

The `recovery` and `liveness` runs exclude combinations that `stranded` and `wedged`
show to be real: `recovery` has a pair instead of a chain, and one priority.

Each property of each run is also checked against a mutant of the code
(`mutants` in `PROJECT.json`), for instance a start that does not look at its slot
again after the await, a completion that does not wait for its callback, or a resume
that does not drain: in each the property is violated.

### Fairness

`FairSpec` assumes weak fairness of: the rest of a running handler; the pending
start of a reserved job (plugin checks have timeouts and the promise settles either
way); the inactivity timer of the job that holds the slot; the kill timer; the
callback of the SIGKILL; and the exit of a child that the SIGKILL has reached. No
fairness is assumed of a child that works or hangs, so progress past it comes only
from the timers. All are timers, promise callbacks or the operating system's answer
to a signal. `OperatedSpec` adds the operator: a dead server is started again, a
paused queue resumed, a removal that was refused retried. `QueueMoves` and
`EveryAdmissionSettles` name the exceptions: a queue that is paused, a server being
removed, and a job whose terminal row could not be written (`blocked`), which waits
for a restart by design. Interactive sessions are left out of this run: a session in
`finalize` mode waits for a human without a limit.

### Where the code departs from its comments

* `stranded`: the replay of an outbox row skips the dependents in its snapshot
  (`queue-manager.ts:4593`). With jobs 1, 2 (on 1), 3 (on 2): 1 fails to start and is
  staged with the snapshot {2}; the terminal checkpoint fails, so the queue pauses
  with 2 still queued; 3 is enqueued, which is legal since 2 is not terminal; resume
  replays the snapshot: 2 is skipped and 3 is not. The comment at 4586 promises the
  recursive semantics of a live failure. 3 is never run, skipped or reported.
* `wedged`: a job whose start and whose settlement both fail is put back with
  `unshift` (`queue-manager.ts:1826`). A job of a higher priority that was admitted
  during the await now stands behind it, until a restart sorts the queue. The comments
  at 1034 and 3907 say that higher priority always comes first.

What `stranded` shows has a sequel. Once 2 is skipped, it may be deleted from the
history; 3 then counts as satisfied, but the deletion does not drain the queue, so that 3
waits with the slot free until another event comes (`NoLostWakeup` fails with one fault,
one crash, one deletion and a chain). The theorems of section 11 say that outside
these combinations nothing of the kind happens.

## 4. RepoLock

`chains[k]` is the map entry of a key: the last call that chained a promise on it.
`Begin` is `withRepoLocks` up to its return, `Turn` a promise whose predecessor has
settled (its callback asks for the next key or runs the function), `Settle` the
settlement from the innermost key outwards, and `Forget` the cleanup microtask. The
function's result is irrelevant to the lock: a rejection settles the chain alike.

`repo_lock` checks three calls with any subset of three repositories (380,913 states):
the shortest cycle needs two calls and two keys, and three calls let a cleanup run
between the others. Liveness assumes that promise callbacks run and the functions
under the lock settle.

## 5. InteractiveSession

A session keeps one child over the turns of one job. Its variables are the fields of
the class; `turns` and `fate` are history, the turns that were written to the child and
what became of each prompt. A handler is one action. Two exceptions follow the code: a
result frame queues a microtask, which runs after the other lines of the same chunk of
output and before any other handler, so `Feed` and `Quiesce` are actions of their own
and everything but a line of output waits for them (`micro`).

| action | code (`interactive-job-session.ts`) |
|---|---|
| `Start`, `Send`, `Finalize`, `Abort` | the methods of that name; a write to the child may fail in each |
| `WorkLine`, `TasksLine`, `Result` | `_onStdoutLine`: a frame that ends no turn, `_trackBackgroundTasks`, `_onTurnResult` with the frames it drops |
| `Feed`, `Quiesce` | the microtasks of `_onTurnResult`: the next prompt, or `_quiesce` with `_continueBackgroundWork` and `_finalizeQuiescent` |
| `EofTimeout`, `KillTimeout`, `ZombieTimeout` | the timers |
| `StdinError`, `Close` | events of the child |
| `Dispose`, `SnapshotRefused` | the owner's shutdown: `snapshotForAbort` and `dispose`, or only the former when the job could not be staged |

A write, a durable row and a checkpoint may fail at each place the code meets that
(`FailStop`). The child is free: it answers its turn, repeats an earlier frame, sends a
notice that ends no turn, reports workers, falls silent, survives signals.
`PromptDelivery` is what a user may rely on: a prompt is refused at once or taken,
prompts that wait are delivered in order, each at most once, and a session that settles
has reported each one it did not deliver. The refinement maps `fate` and `pending` to
themselves and the end of the session to `over`.

*Abstractions.* The signature of a frame is the turn it belongs to; usage and text are
left out, that a turn has usage no frame has counted is `turnEvents`. The set of
background tasks is whether it is empty. Audit rows, broadcasts and the fields of the
totals are left out; `CountedOnce` follows which turn reaches the totals, and by what.

## 6. ProjectRegistry

The catalogue and the data directories are durable; `contexts`, `failed`, `timers`,
`closed` and `generation` are the maps of `project-registry.ts` and
`process-admission.ts`; `chain` is where the recovery of a context awaits. All methods
are synchronous, so each is one action; the recovery of a context (`recoverAfterProbe`)
is one step per await, and a route is two, `Capture` before its await and `Continue`
after it, which acts only on a lease that is still current.

A load ends in one of five ways (`LoadOutcomes`): the database is locked (`busy`, the only
way that is tried again); `initDb` throws otherwise, having closed its own handle
(`unopened`); the construction of the managers throws, with the handle left open
(`broken`, `:728-1676`); something throws after the context was registered (`late`, after
`:1677`); or it succeeds (`ok`). After `late` the context stays in the map while
`_tryLoadProject` lists the project as failed as well (`:317`); its recovery never began, so
its admission stays closed. `addProject` drops the context in every such case and takes its
row back, but an error of that deletion is swallowed (`:414`); the row is then neither open
nor listed as failed until a restart, and the history variable `leftover` names it. The same
holds of a removal that deletes everything but the row.

| action | code |
|---|---|
| `AddProject`, `RetryLoad`, `Restart` | `addProject`, the load-retry timer, `loadAll`, over `_loadProjectContext` |
| `Recover`, `RecoveryFails` | `recoverAfterProbe` and what it awaits; a stage resolves or throws |
| `RemoveDeferred`, `Remove` | `removeProject` up to one of its early returns, or to its end |
| `Shutdown` | `shutdown` of `index.ts` as far as the registry goes |
| `Capture`, `Continue` | `captureProcessAdmission`, `assertCurrent` |
| `Lock`, `Unlock` | another process that locks a database (environment) |

An id is random, so it is registered once; `ever` are the ids used. The model deliberately has
both the closed set and the generation: within the life of a process either refuses a removed
project's continuation, and the generation also refuses one that is older than a reload. The
order in which `removeProject` tears down the managers of a context is not modelled; that the
handle is closed before the directory is removed, the directory may stay, and the row goes
last and may stay, is. A handle leaked by a load that threw is closed by nobody, also when its
project is removed. A removal that cannot purge the history of a project that is not loaded
still stops its retry timer, and the removal of a project that failed to load deletes its
data; both are what the code does and `CatalogueAccounted` allows.

## 7. TicketOutcomes

Two durable stores, and no transaction over both. `tickets` is the JSON file; `owner`,
`rail`, `runs`, `delivery` and `outbox` are tables. A terminal callback and a delivery
effect are synchronous calls, but the process may die between any two of their writes
and each write may fail; `op` is the call in progress, one action per write, and while it
is there only its next step and `Crash` are enabled.

| action | code |
|---|---|
| `LaunchJob`, `CheckLaunch`, `StartShared`, `StartIsolated`, `AdmitLoop`, `RefuseShared`, `RefuseIsolated` | launching a job or a loop run (`rails-router.ts`, `rail-isolated-launch.ts`, `ticket-ownership.ts`), with the awaits between check and registration |
| `ClaimJobAddenda` | `claimSpecAddenda` for a job |
| `EndRun`, `ReplayCallback`, `ApplyOutcome`, `SettleAddenda`, `CommitCallback`, `RollBackCallback` and the two failures | the terminal callback: `applyJobOutcomeToTickets`, `settleSpecAddenda`, rail release, Jira and the checkpoint |
| `OpenDelivery`, `Decide`, `ReplayEffect`, `Select`, `WriteTickets`, `MarkWritten`, `HandToJira`, `CompleteEffect`, `EffectFails` | a terminal decision and its effect (`rail-pr-ticket-effects.ts`), in its three durable phases |
| `EditTicket`, `ReopenAddendum`, `AgentStarts` | users and agents |
| `Crash`, `Restart`, `OpenAdmission` | death, `reconcileInterrupted...` at start, the end of the recovery |

A callback that failed is called again: a job's by the queue (see `ReplayRow` in
`QueueManager`), a loop's by a restart only, once. *Abstractions.* A ticket has one
addendum; what a run worked on is a set of tickets; deliveries of several repositories
are one. A run that the server's death finds at work has failed, but a queued job has not.

## 8. PrDecision

The buttons of the review card. An action is the code between two awaits; `req[q]` is
where request `q` stands, with the row it claimed (`seen`) and the row it will write
(`plan`). `line` is the repository lock of section 4, taken here as a queue.

| action | code |
|---|---|
| `Arrive`, `Claim`, `Release`, `Unlock` | the route, `claimPrDeliveryOperation`, `releasePrDeliveryOperation`; a local merge claims before it takes the lock, every other action after |
| `Observe`, `Change`, `Confirm` | `gh pr view`, `gh pr ready` or `reopen`, the observation after it |
| `Close`, `PushBranch`, `CreateDraft`, `FindExactOpenPr` | `gh pr close`, the push, `gh pr create --draft` and the search by head and base |
| `Advance` | the local merge |
| `SettleDecision` | `transitionClaimedDecision` with the effect on tickets |
| `Lapse`, `Expire`, `Restart` | half an hour has passed, over a request at work or over a lease left behind; the server dies and clears the leases |
| `People` | GitHub (external) |

A command that fails, and one that is carried out with its answer lost, are different outcomes
and cost one of `MaxFaults` each; so does a write of the row that fails. The lease itself can
be left behind: the read after the claim may throw before the `try` whose `finally` gives it
back (`dispatch.ts:50`), and an error of giving it back is dropped (`:69`). Such a request
ends in the phase `lost`, and its lease is reclaimed by the next request after half an hour,
or cleared by a restart. `LeaseGivenBack` says both: a request gives its lease back or ends in
`lost`, and the row can be claimed again and again. What becomes of the tickets of a decision
is not part of this module: `row.effect` only says that an effect is owed, and
`TicketOutcomes` says when it comes about. *Abstractions.* The delivery has one verified
commit; a pull request is its state, whether head and base are the recorded ones, and whether
the commit is absent, its head, or under later commits. Left out are the action
recover-and-retry; repository groups and chains of deliveries, with the route of a row that
has an execution manifest (`rails-router.ts:1730`, `dispatch.ts:26`) and the decision
`superseded`; the decision `implementation_failed`; and follow-ups whose pull request was
found merged or closed when their run settled, or which need a new one. A local merge may
advance the branch and then fail its verification, because somebody moved the checkout
meanwhile (`merge-local.ts:284`): the row stays as it was, the commit may be integrated.

## 9. JiraOutbox

`box` is the outbox; a drain (`drain` is the token it uses) claims the oldest live row of
each issue and executes the batch concurrently, `work[o]` being where row `o` stands.
Requests have two steps, what Jira does (`Reads`, `Writes`) and what the code does with
the answer (`Got`, `Acked`), so that an answer may be late or lost, the token may expire
and people may move an issue in between.

An edit of a ticket changes a set of fields (`Changes`). One of the labels alone is held for
the undo window (`enqueueHeldUpdate`, which folds every update of the issue that waits, also
one in backoff, into the new row); any other is sent at once. An edit is named by the row
made for it, so that of two edits of a field the greater is the newer: `edits` of a row is
what its payload has of each field, and `text` is what Jira shows, overwritten field by
field with each write. `EditsKept` compares the two: Jira shows each edit or a newer one of
its field, or a row that is live or dead will bring it there. It states two exceptions, both
of which are in the code. An update that Jira refuses with a 400 is sent again without its
priority and then done (`executeUpdate`, `jira-sync-manager.ts:1415`, action
`PriorityRefused`); `dropped` is the newest priority left out so. And a row can be put
behind a newer edit of one of its fields, by a fold of a row in backoff behind an immediate
one (`jira-db.ts:427`) or by a retry by hand: the history `overtaken` names the fields
concerned, and `MCJiraOverwritten` shows that Jira then ends with the older edit.

| action | code |
|---|---|
| `Move`, `Report`, `Edit`, `Promote`, `RetryDead` | the enqueuers of `jira-sync-manager.ts` and `retryOutbox` |
| `StartDrain`, `Got`, `Acked`, `PriorityRefused`, `Refused`, `Rejects`, `Unanswered`, `Unauthorized` | `drainUntilBlocked`, `executeUpdate`, `executeComment`, `createLinkedIssue`, `walkToCategory`, `handleHardError`, `onAuth401`; the last row of a batch begins the next pass |
| `Elapse` | a backoff or an undo window ends |
| `StartPoll`, `Search`, `Upsert`, `PollFails`, `PollUnauthorized` | the poll and `upsertIssuesIntoStore` |
| `Reauthenticate`, `Crash` | `connect` with a new token; death and `resetInflight` at start |
| `PersonMoves`, `Revoke` | Jira (external) |

*Abstractions.* A request that timed out, or whose sender died, is not executed by Jira later.
One poll runs at a time. The overlap of two minutes is the exact comparison `updated >=
highWater`: the least it promises. Jira accepts the property that marks a created issue, and
the search for it always finds the issue: the code repeats the creation without properties
after a 400, and `findIssueByCreateMarker` looks at the 50 newest issues of the user within a
window (`:618`), so `SentOnce` holds of creations found by their marker only. The batch of a
drain is not limited (`MAX_DRAIN_BATCH` is 8). `walkToCategory` takes at most five steps and
those towards the goal; `Walk` takes any step to a status not visited, and the two reads of a
step are one: more behaviour, not less. Of the fields the description goes as the summary
does, and nobody edits them in Jira. Idempotency keys make a second enqueue of the same change
no change at all, and are left out. Missing issues and tombstones, creating a spec directly in
Jira, clarification threads, the contents of fields, a crash between the insertion of a link
and the mark of its row, a database write that fails (in `executeOp`'s `catch` it would leave
a row in flight until a restart), and switching the connection off are not modelled.
`MaxAttempts` is assumed to be more than one; the code has 6 (`MAX_OUTBOX_ATTEMPTS`).

## 10. Runs and known departures of sections 5 to 9

### Runs

| run | instance | states | what it shows |
|---|---|---|---|
| `session` | 3 prompts, both modes; 1 handoff in a row, 2 in all; 1 refused shutdown | 572,654 | prompts as `PromptDelivery` says; every turn counted once; no failure masked; no quiet end over a turn, a prompt or a worker; every session ends |
| `registry` | 2 projects, one of them removable; 1 request; 2 removal attempts, 1 restart, 1 lock, 1 retry | 195,485 | work is admitted after recovery only and done on the project it was meant for; the catalogue is accounted for; a project becomes usable |
| `outcomes` | 1 ticket, a job, a shared run and 2 isolated runs of which 2 are launched; 1 crash, 1 trouble | 770,176 | an outcome changes a ticket once; a decision takes effect, for its own iteration; nothing left behind; recovery ends |
| `pr_decision` | 2 requests, 2 pull requests; 1 lapsed lease, 1 crash, 1 fault, 2 moves of people | 698,667 | one request at work; what is final is true and stays; leases are given back, or can be reclaimed |
| `jira` | 2 tickets, 1 of them imported; 3 statuses in a line; 3 rows, 2 attempts, 2 events, 4 rows and events together | 663,007 | rows and drain agree; edits are kept, and undone by none that is older, but for the exceptions of section 9; comments are posted once; the newest intention wins; the outbox runs empty |

*Bounds.* A session needs a prompt that streams, one that waits, and one that is sent while
the first is fed. Two projects are enough to see that an operation on one leaves the other
alone, so one of them is never removed (`Removable`) while the other can be refused a removal,
half removed, and removed again; and one request can outlive any removal or reload. Every
property of `TicketOutcomes` relates at most two runs on a ticket, so `MaxLaunches` lets any
two of the four run; a second ticket only multiplies. On a delivery the second request is the
one that takes a lapsed lease or finds a stale row, a third would do the same to the second;
two pull requests are needed for one that replaces another; the one fault meets the lapse, the
crash and the people in every order. Two rows are one that fails and one that overtakes it,
and a third is folded with the first behind the second; three statuses in a line make a walk
of two steps; the events (failures, losses, refused priorities, retries by hand, deaths,
people, expired tokens, polls) share one budget, so any two of them meet over two rows, and
any one over three (`MaxLoad`). The bounds were also checked with five rows and events
together (8,180,000 states), which takes too long for a run. `CHECK_DEADLOCK FALSE` in all
five: once every prompt, run, request or change has come to its end and the bounds are spent,
these systems have nothing left to do.

### Fairness

* `session`: microtasks and timers run; a child that has a turn and is not silent for good
  answers it, exits, or falls silent; a child without a process is reported as closed; the
  inactivity timer is due for a silent child only. None is assumed of a child's reaction to
  the end of its input or to a signal. A session in mode `finalize` may wait for its human
  for ever, so `AutoSettles` is about the other mode, and `TeardownCompletes` about both once
  somebody ends it.
* `registry`: retry timers fire, awaited stages settle, and the process that locks a
  database lets go of it in the end. No restart and no removal is assumed.
* `outcomes`: the steps of a synchronous call follow one another, a dead server is started
  again and its recovery goes on, and the queue replays the callback of a job (which is
  what `liveness` shows of the queue). Failures and crashes are bounded.
* `pr_decision`: each request goes on, since every command has a time limit and the lock is
  fair (`repo_lock`); and half an hour passes over a lease that was left behind (`Expire`).
* `jira`: the drain timer ticks, waiting times pass, an answer to some row arrives in the
  end, and a user who is asked for a token enters one. An answer to some row is enough as
  the drain waits for its whole batch.

### Where the code departs from its comments

Each configuration below shows one, and is reproduced with
`tlc -config MCX.cfg <its MC module>`. They are not runs of the index, and the runs above
exclude exactly them: by a weaker property (the formula says the exception) or by a bound.

| configuration (property) | what happens | what is said |
|---|---|---|
| `MCSessionRefused` (`CountedNeverTwice`) | `snapshotForAbort` (`interactive-job-session.ts:1042`) adds the turn in flight to the totals and leaves it armed. The queue's shutdown calls it (`queue-manager.ts:872`) and may return without `dispose` (`:603`) when the job cannot be staged: the session goes on, the result frame counts the turn again, and as `_inflightFolded` is never reset a later turn in flight is not counted | `:22` every turn's usage is summed; `:1038` |
| `MCRegistryReopened` (`QuiescedStaysClosed`) | a removal that is deferred (`project-registry.ts:447`) has closed the admission; the recovery chain, still awaiting, finds its context registered and opens it again (`:1738`) over a queue that was shut down | `process-admission.ts:68` invalidate and reject |
| `MCOutcomesLate` (`EffectAlwaysOfItsIteration`) | an effect whose write failed is replayed by a restart from its stored selection, and moves a ticket that a later run now owns (`rail-pr-ticket-effects.ts:192`) | `:203` |
| `MCOutcomesMerged` (`MergedAlwaysReachesDone`) | a merge is decided while the run's callback is still owed; the callback then puts the ticket on review, and nothing moves it on | `rail-pr-ticket-effects.ts:201`, `ticket-store.ts:544` |
| `MCOutcomesReopened` (`ReopensItsOwn`) | a discard reopens an addendum that another run applied since (`spec-addenda.ts:358`) | `rail-pr-ticket-effects.ts:261` |
| `MCOutcomesInFlight` (`InFlightHasRun`) | a shared loop run claims addenda (`rails-router.ts:1340`) before the engine accepts it; a refused one leaves them in flight | `spec-addenda.ts:103` |
| `MCOutcomesWriters` (`OneWriter`) | a loop launch checks that no run works on the ticket, awaits, and registers without checking again (`rails-router.ts:837`) | `:830` |
| `MCPrDangling` (`NoDanglingPr`) | the server dies, or answers are lost, between `gh pr create` and the write of the row: the row has no URL, and a local merge or discard leaves the pull request open. Likewise a death after the local branch was advanced and before the row was written lets a later discard leave the work integrated | `decision-policy.ts`, merging under an open PR would leave it dangling |
| `MCJiraOverwritten` (`LastEditStays`) | a title sent at once fails into its backoff, a newer title is sent at once, and then an edit of the labels is held: `enqueueHeldUpdate` folds every waiting update (`jira-db.ts:427`), the one in backoff included, behind the newer title, and Jira ends with the older one. A retry by hand of a failed edit does the same | `jira-db.ts:414` an earlier held update; `jira-sync-manager.ts:917` local↔Jira divergence |
| `MCJiraDuplicate` (`IssueOnce`) | a death during the first attempt of a creation leaves its attempts at 0 (`jira-db.ts:522`), so the marker is not searched for (`jira-sync-manager.ts:1394`) | `:563` rather than risking a duplicate |
| `MCJiraTwin` (`NoTwin`) | a poll between the creation in Jira and the insertion of the link makes the issue a second ticket; the link then violates a UNIQUE column until the row is dead | `createLinkedIssue` |
| `MCJiraReverted` (`NeverReverted`) | the frozen set is read before the request (`jira-sync-manager.ts:694`); a status set during it is overwritten by the older one, until its row is drained | `jira-materializer.ts:10` |
| `MCJiraStale` (`NothingStale`) | another issue's later change moves `highWater` past a change that was left out for a frozen ticket; when the ticket's row then dies, the change is never read | same place |
| `MCJiraAsked` (`AskedInNeed`) | a late 401 of a request made with the old token pauses again after the new one was entered (`onAuth401`) | `resumeAfterReauth` |

## 11. Proofs

All theorems hold for every value of the constants that satisfies the named
assumptions of the modules; TLC evaluates those in every run.

**RepoLockProofs.** `TypeCorrect`, `ExclusionHolds` and `FirstComeFirstServedHolds`.
`Exclusion` is not inductive: deleting a map entry lets a new call start without
waiting for anyone. The strengthening is one invariant per key and one per call.
`KeyInv`: the calls chained on a key are totally ordered by arrival (the history
variable `earlier`), each waits for the one just before it, a granted call has only
settled ones before it, and the map entry is missing only when everything on the chain
has settled. `CallInv`: a call waits on one key at most, and is inside only when all its
keys are granted. The history variable makes the order of a chain expressible without
recursion along `previous`.

**QueueManagerProofs.** `TypeCorrect` is `Spec => []TypeOK`, with one lemma per group of
actions. `Invariance` proves `IInv == TypeOK /\ Safe`, where `Safe` is
the conjunction of

* `AdmittedOnce`, what is to be shown of the two tables;
* `KnownJobs`: memory (statuses, starts, children, the slot) knows only acknowledged
  jobs;
* `SpawnInv`: `SpawnedOnce`, and a job that is queued, starting or still admitted on
  disk has never been spawned;
* `Blank`: a server that is down, or whose first restore has not succeeded yet, has no
  job, no child and no slot;
* `SlotInv`: `OneChild`, and a late reconciliation that failed has no child left.

None of the three properties is inductive alone. `AdmittedOnce` needs `KnownJobs`: a
terminal row is written for jobs memory knows. `SpawnedOnce` needs that whatever may
still be spawned never was, and therefore that a restart (or a resume that retries the
restore) rebuilds the queue into an empty memory: `Blank`. `OneChild` needs that the slot
is only given up by a job without a live child or with one that was given up on, and that
the latter's late exit is reconciled once. `AdmittedOnceHolds`, `SpawnedOnceHolds` and
`OneChildHolds` follow.
`IInv` was checked by TLC with the constants of `kills` before it was proved.

**QueueOutcomeProofs.** `OutcomeInvariance` proves `OInv == IInv /\ Outcome /\ Numbered`,
from which `SettledExactlyOnceHolds`, `SpendIsKnownHolds`, `StateConsistentHolds` and
`LifecycleImplemented` follow. `Outcome` is the conjunction of

* `OutboxInv`: an outbox row is of a job that ended by itself and is still in the history;
  checkpoints, holds and snapshots belong to outbox rows;
* `LedgerInv`: `SettledExactlyOnce`, and while the row is there, the ledger has the
  invocation exactly when it is checked off. This makes replays and reopened accountings
  harmless: a late reconciliation takes the entry out in the transaction that clears the
  checkpoint, and it needs the row to do so;
* `SnapshotInv`: what is left to skip of a snapshot (`Doomed`) hangs together by
  dependency, different jobs have none in common, and the job in the slot is in none. The
  last part is why a dependent is never started while its parent's failure has still to
  reach it: `Reserve` finds the parent neither completed nor unknown;
* `MemoryInv`: memory never runs ahead of the disk, and once restored (`Serving`) it knows
  all that waits and all that runs;
* `SlotUse`: a job about to be started has its admission, a parent that completed or was
  deleted, and room in the budget; a job in the slot is starting, has a child, or waits for
  a restart;
* `PauseInv`: a queue that may start a job has no outstanding accounting or skip, which is
  what the pause after a failed replay is for.

`Numbered` is `QueueConsistent` with the positions distinct. It rests on `PositionsRank`: if
a relation orders a set, `Positions` numbers it from 1 without gaps in that order
(`FewerAhead` compares the sets in front of two members); each caller shows that its
relation is an order. Snapshots rest on `DescendantsParent` (a member was put there by its
parent) and `FreshSnapshot` (a new snapshot does not meet an old one), both proved from the
definition as a least closed set. `SettlesOutcome` covers every step that stages intents or
reopens a spend: starts that fail, exits, force-fails, reconciliations, the capture and the
shutdown. `IInv /\ Outcome /\ Numbered` was checked by TLC with the constants of `recovery`
and `kills` before it was proved.

In the refinement `Enqueue` is `Admit`, `Spawn` and a promotion whose spawn fails are
`Start`, `Forget` is `Archive`, and every other step is `EndOrReport` or a stutter: a job
that is skipped has in the same state a parent that ended badly (`SnapshotInv`).

`WaitingInvariance` adds `Waiting /\ InOrder`, from which `NothingStranded`,
`NoWakeupLost`, `PriorityOrderHolds` and `DurableOrderHolds` follow. `Waiting` is

* `Guarded`: a job that waits although its parent ended badly is in a snapshot that is
  still to be replayed, under the condition below;
* `Linked`: while no transaction has failed, a snapshot has the waiting dependents of each
  of its members. Where the dependents are no parents themselves this follows from
  `SnapshotInv` after failures, too (`SnapshotsLinked`);
* `Drained`: while nothing has failed, no outbox row is left for a later handler, so that
  no admission comes between a snapshot and its replay;
* `Attended`: the job in the slot has a parent that ended, which keeps a cancellation of
  that parent from being a new ending;
* `Rested` and `Restoring`: a handler that ends without a drain leaves no job that could
  start. Of all such handlers only the deletion from the history can make a job ready,
  and it does so only for one that is stranded.

`InOrder` says, while nothing has failed, that a job never stands behind one of lower
priority, and that what a restart would sort from the disk is the order in memory.
`PositionsOrder`, `InsertedOrders` and `RestoredOrders` say what the renumbering, the
insertion by priority and the restore do to an order.

The four theorems are implications, as the plain properties are not true of the code:

| theorem | holds |
|---|---|
| `NothingStranded` | while no transaction has failed, or if no dependent is itself a parent (`Shallow`) |
| `NoWakeupLost` | as above, or while nothing was deleted from the history |
| `PriorityOrderHolds`, `DurableOrderHolds` | while no transaction has failed |

Any number of crashes, kills, pauses and children that ignore signals is allowed in each.
Without its condition each of the properties is violated (`stranded`, its sequel in section 3,
and `wedged`, whose job put back in front breaks both orders). The properties of `recovery`
and `order` are instances: the former has a pair instead of a chain, the latter no fault.
`Waiting /\ InOrder` was checked by TLC, with chains, faults, crashes, deletions, pauses and
kills in several combinations, before it was proved.

**PrDecisionProofs.** `OneAtWorkAlways`, `MergedIsMergedAlways` and `FinalStaysAlways`,
for any number of requests, pull requests, lapsed leases, crashes, faults and people, from
`Inv == TypeOK /\ HolderIsFirst /\ ClaimsOpenRow /\ FollowUpsOpen /\ MergesAreTrue`.

* `HolderIsFirst`: a request that works on the delivery holds the repository lock. This
  and not the lease is what excludes others: a lease can be taken away from a request that
  is still running.
* `ClaimsOpenRow`: what was claimed is not final. With the compare in `SettleDecision` it
  makes a final decision stay. It needs that no action is allowed on a final row, and
  therefore `FollowUpsOpen`: a follow-up is never `completed`.
* `MergesAreTrue`: a row that is merged, or about to be, is so on the grounds of
  `Delivered`, which lasts since nobody can unmerge a pull request and the integration
  branch keeps the commit.

`ConsistentAlways` is about discards: a row that is discarded without a warning has its pull
request closed. It needs `Links` in addition: the pull requests that the row, a request at
work and its plan link to exist; a plan about to be written is as good as a row; and while
a request other than a local merge is at work, the decision is the one it has seen. The last
part is why the recovery of a merge never reopens a pull request that somebody else's discard
has closed.

**ProjectRegistryProofs.** `ConsistentAlways`, `AdmittedMeansRecoveredAlways` and
`ActsOnItsOwnProjectAlways`, for any number of projects, requests, restarts and locks. `Inv`
adds to `TypeOK` and `CatalogueAccounted` that contexts, timers and failures belong to rows of
the catalogue, which gives `RemovedForGood`; `Recovered`, `AdmittedMeansRecovered` without the
application barrier, as that falls with a restart; and `LeasesHold`: a held lease is never
ahead of its project's generation, and one that is level with it, on a project that is open,
has a context, an open database and no removal tried since. Each step that closes, reopens or
removes the project increases the generation, which is why the level is lost in the same step.

**InteractiveSessionProofs.** `ConsistentAlways`, `CountedOnceAlways` and
`FailureNotMaskedAlways`, and `DeliveryImplemented`: the session implements
`PromptDelivery`, for any prompts, any number of turns and any faults of the child.
`Inv` adds to `TypeOK` and the settlement properties:

* `Queue`: a prompt waits exactly when it is in `pending`, at one place, and something
  that will take it out is under way (a turn, its microtask, or the end);
* `Accepts`: every turn has been accepted but the last one, which may be in flight;
* `Counts`: a turn was counted by its frame or by the one fold of the session, and no
  more often; without a refused shutdown by exactly one of the two;
* `Ending`: before a session is being ended it has seen no failure, and one that ends
  quietly is at rest.

`CountedOnce` needs `Accepts`: the fold adds the turn in flight, and only the last turn
can be in flight. The refinement maps each action to one of the four steps of
`PromptDelivery` (taken, fed, settled, vanished) or to a stutter, and needs `Queue` for
each of them.

**TicketOutcomesProofs.** `ConsistentAlways`, `SettledCompletelyAlways`,
`DecisionTakesEffectAlways` and `EffectOfItsIterationAlways`, for any tickets, runs,
crashes, failures and edits. Steps touch many variables, and each property cares for a few
of the ways in which they do. So `Moves` first says what a single step may do to runs, owners,
tickets and history at most (a ticket that leaves the hands of its run has got the run's
marker, an owner is replaced only by a launch, ...), with one lemma per action; the
invariants are then shown to survive a step that `Moves`, or, where that is not enough, the
actions in question. The invariant is `Typed /\ Fits /\ Settled /\ Moved /\ Whole`:

* `Fits`: the phases of runs, of deliveries and of the call in progress go together
  (`RunInv`, `DeliveryInv`, `CallInv`), and a delivery that a launch supersedes is
  superseded by that launch alone (`PredInv`);
* `Settled`: `OutcomeOnce`, and what makes it and `SettledCompletely` inductive. A ticket
  that an outcome has changed carries the run's marker as long as the run owns it
  (`OnceInv`), and a callback that reached its checkpoint without a failure has marked
  everything and left no addendum in flight (`CallbackInv`, `ClosedInv`);
* `Moved`: Jira is told of nothing that did not happen, and each ticket a decision has selected
  has been moved, or still waits on review for the write (`MovedBy`);
* `Whole`, while no write of the ticket file has failed: the callback of a run that ended
  comes before anything else (`Heard`); an effect that is not written runs before anybody
  takes a ticket from it (`Awaited`); a delivery's owners are those of its run (`Carried`);
  and a ticket on review of a merged delivery is among the selected ones (`LeavesReview`).

`EffectOfItsIteration` and the clause `ReachesDone` of `DecisionTakesEffect` need `Whole`;
they state the failure of the ticket file as their exception, which is the departure of
`MCOutcomesLate` and `MCOutcomesMerged`. The invariant was checked by TLC before it was
proved.

**JiraOutboxProofs.** `ConsistentHolds`, `SentOnceHolds` and `NewestWinsHolds`, for any
tickets, statuses, workflows, numbers of rows, attempts and events. `Inv` is the types
(`World`, `RowsOK`) and, over the outbox and its executions:

* `OneAtATime`, `InOrder`: an issue has one row in flight, and a transition in flight has no
  older one pending in its ticket; `OneCreation`: a ticket has one creation at most;
* `Engaged`, `Progress`: a row is in flight exactly when something executes it, a drain runs
  while there is one, and how far it got fits its kind;
* `EditsOK`: `NoneLost` is `EditsKept`: Jira shows the edit of a row, or a newer one of its
  field, or a row that is live or dead still carries one. Since writes overwrite, it needs
  that nothing old is written late: but for the fields in `overtaken`, the rows of a ticket
  have their edits in the order in which these were made and are sent in that order
  (`InTurn`), so what Jira shows is never newer than a row still to be sent (`Ahead`). What is
  shown comes from a row (`Sourced`), and a row whose answer is in is written (`AckedOK`);
* `NewestOK`: no live transition is older than the newest one made. Claims go in order, and
  a retry by hand revives nothing older, since `Reconcile` retires a row that died once a
  newer transition exists. `NewestWins` follows;
* `CommentsOK`: a comment about to be sent has not been posted, since an attempt reads the
  comments first;
* `IssuesOK`: a creation that sends without having searched was never answered, so each
  issue it may have made before cost a death of the server. This is where `MaxAttempts > 1`
  is needed: a row given up at its very first attempt could be revived without a search.

`Evolves` is the one lemma for all steps in which rows change state and executions end or
proceed, `Claims` covers the start of a pass, `AppendKeeps` the enqueuers and `WritesEdits`
what Jira does. `MergedEdits` and `NotBehind` say of a fold that it carries what it retires,
and that what it puts behind a newer edit is in `overtaken`.
`MaxOfNaturals` (a finite set of numbers that is not empty has a maximum) is proved by a
smallest counterexample. `Inv` was checked by TLC before it was proved, with the constants of
`jira`.

**Only model-checked.** The liveness properties (`EveryCallCompletes`, `QueueMoves`,
`EveryAdmissionSettles`, `ShutdownConverges` and those of the other modules): liveness under
fairness is out of the prover's reach. Every safety property of a run is stated by a
theorem; the four of the queue named above only under their conditions, and the runs check
the plain form where the condition holds or nothing violates it within the bounds. No
recursive operator is used.

## 12. Not modelled

Planned, because they have concurrency or recovery of their own: missions (their input
queue), the loop engine (accounting of steps, resume), the framework switch, and of the
delivery the launch and settlement of runs in worktrees, repository groups and chains,
recover-and-retry and the cleanup of branches. The conversations follow the turn discipline
of the missions. Of the registry the order of the managers' teardown is left out, of the
tickets their creation, editing and hierarchy, of Jira what section 9 names. Not planned:
request/response features, aggregation, adapters and user interface, which keep little
state between steps.
