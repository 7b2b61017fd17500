---------------------------- MODULE QueueManager ----------------------------
(***************************************************************************)
(* src/server/modules/execution/runtime/queue-manager.ts: the job queue of *)
(* one project.  One job at a time is taken from a durable queue, promoted *)
(* from queued_jobs to jobs, spawned as a provider CLI, and settled        *)
(* through an outbox (orphan_job_recovery) whose three checkpoints are the *)
(* spend ledger, the project callback and the skipping of dependents.      *)
(*                                                                         *)
(* Node runs a handler to its end before the next one.  A handler is here  *)
(* one action up to the outbox replay (one action per outbox row) and the  *)
(* drain of the queue: `pc` says which of these the running handler has    *)
(* still to do and no other handler is enabled until it is back to "idle". *)
(* Only a crash can come in between.  A transaction that fails is a choice *)
(* that costs one of MaxFaults.  A failed strict admission, cancellation,  *)
(* reorder or priority change is rolled back completely, in memory too,    *)
(* and is therefore a stuttering step.                                     *)
(***************************************************************************)
EXTENDS Naturals, FiniteSets

CONSTANTS
  Job,          \* job ids, numbered in their sort order
  NoJob,        \* the null of _activeJobId and of an absent dependency
  Dep,          \* Dep[j]: the job j was admitted as depending on, or NoJob
  Priorities,   \* priority weights
  Interactive,  \* jobs that run as a resident interactive session
  BudgetCap,    \* recorded invocations at which the daily budget is used up
  MaxFaults,    \* bound on failing transactions
  MaxCrashes,   \* bound on process deaths
  MaxKills,     \* bound on kills (cancel of a running job, zombie timeout)
  MaxPauses,    \* bound on pause(), and resume() of a queue that is not paused
  MaxMoves,     \* bound on reorder() and updatePriority()
  MaxForgets    \* bound on deletions of job history

ASSUME JobAssumption == IsFiniteSet(Job) /\ Job \subseteq Nat /\ NoJob \notin Job
ASSUME DepAssumption == Dep \in [Job -> Job \cup {NoJob}]
ASSUME PriorityAssumption == Priorities \subseteq Nat /\ Priorities # {}
ASSUME BoundAssumption == Interactive \subseteq Job /\ BudgetCap \in Nat \ {0}

VARIABLES
  (* the project database *)
  row,          \* row[j]: status of the jobs row of j, "none" without one
  forgotten,    \* jobs whose row has been deleted from the history
  saved,        \* jobs with a queued_jobs row
  savedPos,     \* savedPos[j]: queue_position of that row
  savedPaused,  \* queue_state.paused
  priority,     \* priority[j], equal in memory and in queued_jobs
  outbox,       \* jobs with an orphan_job_recovery row
  accounted,    \* ... whose accounting_completed is set
  called,       \* ... whose callback_completed is set
  finished,     \* ... whose terminal_completed is set
  held,         \* ... whose payload says awaitingLateReconciliation
  descendants,  \* descendants[j]: the snapshot in the payload of j
  ledger,       \* ledger[j]: ai_invocations rows of j
  (* the memory of the server process *)
  mode,         \* "up", "closing" (_disposed, database kept), "closed", "down"
  status,       \* status[j]: _jobs.get(j).status, "none" when unknown
  position,     \* position[j]: place of j in _queue, 0 outside
  active,       \* _activeJobId
  starting,     \* jobs with a pending _startJob continuation
  child,        \* jobs with a live child (or session) of this process
  canceling, zombie, persistFailed, \* _cancelingJobs, _zombieJobs, ...
  killTimer,    \* the job _killTimer is armed for
  sigkill,      \* jobs whose SIGKILL callback is pending
  killed,       \* jobs whose child a SIGKILL has reached
  forceFailed,  \* _forceFailedRowJobs
  lateClosed,   \* jobs of _pendingLateReconciliations, left by a failed one
  blocked,      \* _terminalPersistenceBlockedJobs
  paused,       \* _paused
  restoreBlocked, \* _restoreBlocked
  (* the handler that is running *)
  pc,           \* "idle", "capture", "replay" or "drain"
  pass,         \* outbox rows the current replay has still to visit
  then,         \* what the handler does after the replay
  (* history, and bounds *)
  admitted,     \* jobs whose admission was acknowledged
  spawns,       \* spawns[j]: children ever created for j
  notified,     \* jobs whose terminal outcome reached the project callback
  faults, crashes, kills, pauses, moves, forgets

outboxVars  == <<outbox, accounted, called, finished, held, descendants>>
savedVars   == <<row, forgotten, saved, savedPos, savedPaused, priority>>
markVars    == <<canceling, zombie, persistFailed>>
killVars    == <<killTimer, sigkill, killed>>
lateVars    == <<forceFailed, lateClosed>>
childVars   == <<starting, child, markVars, killVars, lateVars>>
queueVars   == <<status, position, active>>
flagVars    == <<blocked, paused, restoreBlocked>>
handlerVars == <<mode, pc, pass, then>>
history     == <<admitted, spawns, notified>>
bounds      == <<faults, crashes, kills, pauses, moves, forgets>>
vars == <<outboxVars, savedVars, ledger, childVars, queueVars, flagVars,
          handlerVars, history, bounds>>
otherBounds == <<crashes, kills, pauses, moves, forgets>>

Terminal == {"completed", "failed", "canceled", "zombie_terminated", "skipped"}

DiskTypes ==
  /\ row \in [Job -> {"none", "running"} \cup Terminal]
  /\ forgotten \subseteq Job /\ saved \subseteq Job
  /\ savedPos \in [Job -> Nat]
  /\ savedPaused \in BOOLEAN
  /\ priority \in [Job -> Priorities]
  /\ ledger \in [Job -> Nat]

OutboxTypes ==
  /\ outbox \subseteq Job /\ held \subseteq Job
  /\ accounted \subseteq Job /\ called \subseteq Job /\ finished \subseteq Job
  /\ descendants \in [Job -> SUBSET Job]

QueueTypes ==
  /\ status \in [Job -> {"none", "queued", "running"} \cup Terminal]
  /\ position \in [Job -> Nat]
  /\ active \in Job \cup {NoJob}
  /\ paused \in BOOLEAN /\ restoreBlocked \in BOOLEAN
  /\ blocked \subseteq Job

ChildTypes ==
  /\ starting \subseteq Job /\ child \subseteq Job
  /\ canceling \subseteq Job /\ zombie \subseteq Job /\ persistFailed \subseteq Job
  /\ killTimer \in Job \cup {NoJob}
  /\ sigkill \subseteq Job /\ killed \subseteq Job
  /\ forceFailed \subseteq Job /\ lateClosed \subseteq Job

HandlerTypes ==
  /\ mode \in {"up", "closing", "closed", "down"}
  /\ pc \in {"idle", "capture", "replay", "drain"}
  /\ pass \subseteq Job
  /\ then \in {"settle", "exit", "late", "resume", "restore", "flush", "close",
               "unclosed"}

HistoryTypes ==
  /\ admitted \subseteq Job /\ notified \subseteq Job
  /\ spawns \in [Job -> Nat]
  /\ faults \in Nat /\ crashes \in Nat /\ kills \in Nat /\ pauses \in Nat
  /\ moves \in Nat /\ forgets \in Nat

(* The statuses a row and a job can have, and the modes of the manager.    *)
TypeOK ==
  /\ DiskTypes
  /\ OutboxTypes
  /\ QueueTypes
  /\ ChildTypes
  /\ HandlerTypes
  /\ HistoryTypes

(* A fresh project: the constructor has found an empty database.           *)
Init ==
  /\ row = [j \in Job |-> "none"] /\ status = [j \in Job |-> "none"]
  /\ savedPos = [j \in Job |-> 0] /\ position = [j \in Job |-> 0]
  /\ priority \in [Job -> Priorities]
  /\ descendants = [j \in Job |-> {}]
  /\ ledger = [j \in Job |-> 0] /\ spawns = [j \in Job |-> 0]
  /\ saved = {} /\ forgotten = {} /\ admitted = {} /\ notified = {}
  /\ outbox = {} /\ accounted = {} /\ called = {} /\ finished = {} /\ held = {}
  /\ starting = {} /\ child = {} /\ canceling = {} /\ zombie = {}
  /\ persistFailed = {}
  /\ sigkill = {} /\ killed = {} /\ forceFailed = {} /\ lateClosed = {}
  /\ blocked = {}
  /\ pass = {}
  /\ active = NoJob /\ killTimer = NoJob
  /\ savedPaused = FALSE /\ paused = FALSE /\ restoreBlocked = FALSE
  /\ mode = "up" /\ pc = "idle" /\ then = "settle"
  /\ faults = 0 /\ crashes = 0 /\ kills = 0 /\ pauses = 0 /\ moves = 0
  /\ forgets = 0
-----------------------------------------------------------------------------
(* The queue and its order.                                                *)

Queued == {j \in Job : status[j] = "queued"}

(* _recomputePositions of the queue Q ordered by the pairs of before.       *)
Positions(Q, before) ==
  [k \in Job |->
     IF k \in Q THEN 1 + Cardinality({m \in Q \ {k} : <<m, k>> \in before}) ELSE 0]

InFront == {e \in Job \X Job : position[e[1]] < position[e[2]]}

Without(S) == Positions(Queued \ S, InFront)

(* Mutant of Inserted: a job always goes to the end of the queue.          *)
AppendedLast(j, w) ==
  Positions(Queued \cup {j},
            {e \in InFront : j \notin {e[1], e[2]}} \cup (Queued \X {j}))

(* enqueue and updatePriority splice a job in before the first job of a    *)
(* lower priority.                                                         *)
Inserted(j, w) ==
  LET Q == Queued \ {j}
      Front == {k \in Q : \A m \in Q : position[m] <= position[k] => priority[m] >= w}
  IN  Positions(Q \cup {j}, {e \in InFront : j \notin {e[1], e[2]}}
                              \cup (Front \X {j}) \cup ({j} \X (Q \ Front)))

(* _failWedgedJob puts a job back with unshift.                            *)
Unshifted(j) ==
  Positions(Queued \cup {j},
            {e \in InFront : j \notin {e[1], e[2]}} \cup ({j} \X Queued))

(* _restoreFromDb: by queue_position and id, then a stable sort by priority. *)
RestoredBefore(m, k) ==
  \/ priority[m] > priority[k]
  \/ priority[m] = priority[k] /\ savedPos[m] < savedPos[k]
  \/ priority[m] = priority[k] /\ savedPos[m] = savedPos[k] /\ m < k

Restored == Positions(saved, {e \in Job \X Job : RestoredBefore(e[1], e[2])})

(* Mutant of Persisted: only rows that are new get a position.             *)
PersistedOnce(Q, pos) ==
  [j \in Job |-> IF j \in Q \ saved THEN pos[j] ELSE savedPos[j]]

(* _persistQueuedState of the queue Q with these positions; the rows of    *)
(* other queued jobs keep theirs.                                          *)
Persisted(Q, pos) == [j \in Job |-> IF j \in Q THEN pos[j] ELSE savedPos[j]]

(* _getDependencyStatus: live state, then history, then the durable queue. *)
DependencyStatus(p) ==
  IF status[p] # "none" THEN status[p]
  ELSE IF row[p] # "none" /\ p \notin forgotten THEN row[p]
  ELSE IF p \in saved THEN "queued" ELSE "none"

(* isDependencySatisfied: an unknown parent counts as satisfied.           *)
DependencyMet(j) ==
  Dep[j] # NoJob => DependencyStatus(Dep[j]) \in {"none", "completed"}

(* The members of S that depend on j, directly or through members of S:    *)
(* the least set closed under dependency.                                  *)
Descendants(j, S) ==
  {k \in S : \A C \in SUBSET S :
               (\A m \in S : Dep[m] \in C \cup {j} => m \in C) => k \in C}
-----------------------------------------------------------------------------
(* Failures, and the shapes handlers share.                                *)

Healthy == faults' = faults
Fault == faults < MaxFaults /\ faults' = faults + 1

(* _persistQueueState is best effort: the flag may not reach the disk.     *)
FailStop ==
  /\ paused' = TRUE
  /\ savedPaused' \in {TRUE, savedPaused}

Idle == mode = "up" /\ pc = "idle"

(* The handler goes on to _resumeOrphanRecoveries over the outbox rows     *)
(* that have a checkpoint to make, and after it to `next`.                 *)
Replay(next) ==
  /\ pc' = "replay"
  /\ then' = next
  /\ pass' = {j \in outbox' : j \notin accounted' \cap called' \cap finished'}

Stay == UNCHANGED <<pc, pass, then>>

(* _stageTerminalIntent: the jobs of S get their terminal row, lose their  *)
(* admission and gain an outbox row, in one transaction.                   *)
Stage(S, st, hold) ==
  /\ row' = [j \in Job |-> IF j \in S THEN st ELSE row[j]]
  /\ saved' = saved \ S
  /\ outbox' = outbox \cup S
  /\ accounted' = accounted \ S
  /\ called' = called \ S
  /\ finished' = finished \ S
  /\ held' = IF hold THEN held \cup S ELSE held \ S
  /\ descendants' =
       [j \in Job |-> IF j \notin S THEN descendants[j]
                      ELSE IF st = "completed" THEN {} ELSE Descendants(j, saved)]
  /\ UNCHANGED <<forgotten, savedPos, priority>>

Unstaged == UNCHANGED <<outboxVars, row, forgotten, saved, savedPos, priority>>
-----------------------------------------------------------------------------
(* The public operations.                                                  *)

(* enqueue: validate the parent, splice by priority, persist, drain.  The  *)
(* caller names a parent whose id it was given, and every id is new.       *)
Enqueue(j) ==
  /\ Idle /\ ~restoreBlocked
  /\ j \notin admitted
  /\ Dep[j] # NoJob =>
       /\ Dep[j] \in admitted
       /\ DependencyStatus(Dep[j]) \notin Terminal \ {"completed"}
  /\ status' = [status EXCEPT ![j] = "queued"]
  /\ position' = Inserted(j, priority[j])
  /\ saved' = saved \cup {j}
  /\ savedPos' = Persisted(Queued \cup {j}, position')
  /\ admitted' = admitted \cup {j}
  /\ pc' = "drain"
  /\ UNCHANGED <<outboxVars, row, forgotten, savedPaused, priority, ledger,
                 childVars, active, flagVars, mode, pass, then, spawns, notified,
                 bounds>>

(* A job holds the slot but its start has not come to the spawn yet.       *)
Preparing(j) == status[j] = "running" /\ active = j /\ j \notin child

(* _cancelBeforeSpawn: one transaction for the canceled tombstone, its     *)
(* outbox row, the skipped dependents and the positions of the rest.       *)
CancelBeforeSpawn(j) ==
  LET skipped == Descendants(j, Queued \ {j})
      gone == skipped \cup {j}
  IN  /\ Idle
      /\ status[j] = "queued" \/ Preparing(j)
      /\ j \notin blocked
      /\ row' = [k \in Job |-> IF k = j THEN "canceled"
                               ELSE IF k \in skipped THEN "skipped" ELSE row[k]]
      /\ status' = [k \in Job |-> IF k = j THEN "canceled"
                                  ELSE IF k \in skipped THEN "skipped" ELSE status[k]]
      /\ position' = Without(gone)
      /\ saved' = saved \ gone
      /\ savedPos' = Persisted(Queued \ gone, position')
      /\ outbox' = outbox \cup {j}
      /\ accounted' = accounted \cup {j}
      /\ called' = called \ {j}
      /\ finished' = finished \ {j}
      /\ held' = held \ {j}
      /\ descendants' = [descendants EXCEPT ![j] = skipped]
      /\ active' = IF active = j THEN NoJob ELSE active
      /\ canceling' = canceling \ {j}
      /\ Replay("settle")
      /\ UNCHANGED <<forgotten, savedPaused, priority, ledger, starting, child,
                     zombie, persistFailed, killVars, lateVars, flagVars, mode,
                     history, bounds>>

(* Mutant of Kill: nothing escalates the SIGTERM.                          *)
KillOnce(j) == canceling' = canceling \cup {j} /\ UNCHANGED killTimer

(* _kill: the intent, SIGTERM, and a timer for SIGKILL.                    *)
Kill(j) ==
  /\ canceling' = canceling \cup {j}
  /\ killTimer' = j

(* cancel of a running job; an interactive session is asked to finalize.   *)
CancelRunning(j) ==
  /\ Idle
  /\ status[j] = "running" /\ j \in child /\ j \notin blocked
  /\ kills < MaxKills /\ kills' = kills + 1
  /\ \/ j \notin Interactive /\ Kill(j)
     \/ j \in Interactive /\ canceling' = canceling \cup {j} /\ UNCHANGED killTimer
  /\ UNCHANGED <<outboxVars, savedVars, ledger, starting, child, zombie,
                 persistFailed, sigkill, killed, lateVars, queueVars, flagVars,
                 handlerVars, history, faults, crashes, pauses, moves, forgets>>

(* pause: best effort on disk.                                             *)
Pause ==
  /\ Idle /\ ~paused
  /\ pauses < MaxPauses /\ pauses' = pauses + 1
  /\ paused' = TRUE
  /\ \/ savedPaused' = TRUE /\ Healthy
     \/ UNCHANGED savedPaused /\ Fault
  /\ UNCHANGED <<outboxVars, row, forgotten, saved, savedPos, priority, ledger,
                 childVars, queueVars, blocked, restoreBlocked, handlerVars,
                 history, crashes, kills, moves, forgets>>

(* reorder: the queue is numbered again, in any permutation that keeps the *)
(* priority bands.                                                         *)
Reorder(p) ==
  /\ Idle
  /\ moves < MaxMoves /\ moves' = moves + 1
  /\ p # position
  /\ \A j \in Job : p[j] = IF j \notin Queued THEN 0
                           ELSE 1 + Cardinality({k \in Queued : p[k] < p[j]})
  /\ \A j, k \in Queued :
       /\ p[j] = p[k] => j = k
       /\ p[j] < p[k] => priority[j] >= priority[k]
  /\ position' = p
  /\ savedPos' = Persisted(Queued, p)
  /\ UNCHANGED <<outboxVars, row, forgotten, saved, savedPaused, priority, ledger,
                 childVars, status, active, flagVars, handlerVars, history,
                 faults, crashes, kills, pauses, forgets>>

(* updatePriority of a queued job: taken out and spliced in again.         *)
UpdatePriority(j, w) ==
  /\ Idle
  /\ moves < MaxMoves /\ moves' = moves + 1
  /\ status[j] = "queued" /\ w # priority[j]
  /\ priority' = [priority EXCEPT ![j] = w]
  /\ position' = Inserted(j, w)
  /\ savedPos' = Persisted(Queued, position')
  /\ UNCHANGED <<outboxVars, row, forgotten, saved, savedPaused, ledger,
                 childVars, status, active, flagVars, handlerVars, history,
                 faults, crashes, kills, pauses, forgets>>

(* DELETE of a terminal job that has no recovery pending (deleteJob).      *)
Forget(j) ==
  /\ Idle
  /\ forgets < MaxForgets /\ forgets' = forgets + 1
  /\ row[j] \in Terminal /\ j \notin forgotten /\ j \notin outbox
  /\ forgotten' = forgotten \cup {j}
  /\ UNCHANGED <<outboxVars, row, saved, savedPos, savedPaused, priority, ledger,
                 childVars, queueVars, flagVars, handlerVars, history, faults,
                 crashes, kills, pauses, moves>>
-----------------------------------------------------------------------------
(* The drain of the queue and the start of a job.                          *)

(* _enforceDailyBudget: the spend is read from the ledger.                 *)
OverBudget == Cardinality({j \in Job : ledger[j] > 0}) >= BudgetCap

Ready(j) == status[j] = "queued" /\ DependencyMet(j)

CanDrain == mode = "up" /\ active = NoJob /\ ~paused /\ Queued # {}

(* The slot is reserved before anything is awaited; the admission keeps    *)
(* its queued_jobs row, at position 0, until the promotion.                *)
Reserve(j) ==
  /\ Ready(j)
  /\ \A k \in Job : Ready(k) => position[j] <= position[k]
  /\ active' = j
  /\ status' = [status EXCEPT ![j] = "running"]
  /\ position' = Without({j})
  /\ starting' = starting \cup {j}
  /\ \/ savedPos' = [Persisted(Queued \ {j}, position') EXCEPT ![j] = 0] /\ Healthy
     \/ UNCHANGED savedPos /\ Fault
  /\ UNCHANGED <<paused, savedPaused>>

(* _drainQueue: budget first, then the first job whose parent is settled.  *)
Drain ==
  /\ pc = "drain"
  /\ pc' = "idle"
  /\ \/ /\ ~CanDrain \/ (~OverBudget /\ \A j \in Job : ~Ready(j))
        /\ UNCHANGED <<queueVars, starting, savedPos, paused, savedPaused,
                       faults>>
     \/ /\ CanDrain /\ OverBudget
        /\ paused' = TRUE /\ savedPaused' = TRUE
        /\ UNCHANGED <<queueVars, starting, savedPos, faults>>
     \/ CanDrain /\ ~OverBudget /\ \E j \in Job : Reserve(j)
  /\ UNCHANGED <<outboxVars, row, forgotten, saved, priority, ledger, child,
                 markVars, killVars, lateVars, blocked, restoreBlocked, mode,
                 pass, then, history, otherBounds>>

(* Mutant of CanContinueStart: the slot is not looked at again.            *)
StillUp(j) == mode = "up"

(* _canContinueStart, tested again after the pre-spawn await.              *)
CanContinueStart(j) == mode = "up" /\ active = j

(* The await of a start that was canceled or torn down meanwhile.          *)
AbandonStart(j) ==
  /\ pc = "idle" /\ mode # "down"
  /\ j \in starting /\ ~CanContinueStart(j)
  /\ starting' = starting \ {j}
  /\ UNCHANGED <<outboxVars, savedVars, ledger, child, markVars, killVars,
                 lateVars, queueVars, flagVars, handlerVars, history, bounds>>

(* Mutant of Spawn: the promotion leaves the admission in queued_jobs.     *)
SpawnUnpromoted(j) ==
  /\ pc = "idle"
  /\ j \in starting /\ CanContinueStart(j)
  /\ starting' = starting \ {j}
  /\ row' = [row EXCEPT ![j] = "running"]
  /\ child' = child \cup {j}
  /\ spawns' = [spawns EXCEPT ![j] = @ + 1]
  /\ UNCHANGED <<outboxVars, forgotten, saved, savedPos, savedPaused, priority,
                 ledger, markVars, killVars, lateVars, queueVars, flagVars,
                 handlerVars, admitted, notified, bounds>>

(* createJob promotes the admission, then the child is spawned.            *)
Spawn(j) ==
  /\ pc = "idle"
  /\ j \in starting /\ CanContinueStart(j)
  /\ starting' = starting \ {j}
  /\ row' = [row EXCEPT ![j] = "running"]
  /\ saved' = saved \ {j}
  /\ child' = child \cup {j}
  /\ spawns' = [spawns EXCEPT ![j] = @ + 1]
  /\ UNCHANGED <<outboxVars, forgotten, savedPos, savedPaused, priority, ledger,
                 markVars, killVars, lateVars, queueVars, flagVars, handlerVars,
                 admitted, notified, bounds>>

(* _failWedgedJob when the start throws, before or after the promotion,    *)
(* and its terminal intent is staged.                                      *)
WedgeFailed(j) ==
  /\ pc = "idle"
  /\ j \in starting /\ CanContinueStart(j)
  /\ starting' = starting \ {j}
  /\ Stage({j}, "failed", FALSE)
  /\ status' = [status EXCEPT ![j] = "failed"]
  /\ active' = NoJob
  /\ blocked' = blocked \ {j}
  /\ Replay("settle")
  /\ UNCHANGED <<savedPaused, ledger, child, markVars, killVars, lateVars,
                 position, paused, restoreBlocked, mode, history, bounds>>

(* _failWedgedJob when the intent cannot be staged: back to the front of   *)
(* the queue if the admission is still there, else the slot stays taken.   *)
WedgeUnsettled(j) ==
  /\ pc = "idle" /\ Fault
  /\ j \in starting /\ CanContinueStart(j)
  /\ starting' = starting \ {j}
  /\ \/ /\ j \in saved
        /\ status' = [status EXCEPT ![j] = "queued"]
        /\ position' = Unshifted(j)
        /\ savedPos' \in {savedPos, Persisted(Queued \cup {j}, position')}
        /\ active' = NoJob
        /\ UNCHANGED <<blocked, row, saved>>
     \/ /\ blocked' = blocked \cup {j}
        /\ \/ UNCHANGED <<row, saved>>
           \/ row' = [row EXCEPT ![j] = "running"] /\ saved' = saved \ {j}
        /\ UNCHANGED <<queueVars, savedPos>>
  /\ FailStop
  /\ UNCHANGED <<outboxVars, forgotten, priority, ledger, child, markVars,
                 killVars, lateVars, restoreBlocked, handlerVars, history,
                 otherBounds>>
-----------------------------------------------------------------------------
(* A live child: its exit, its silence, and the escalation of a kill.      *)

(* _reconcileForceFailedJobExit of the jobs of S: their rows are no longer *)
(* held, and those of `spend` are to be accounted again.  A job whose      *)
(* outbox row is gone has no intent any more: its reconciliation throws.   *)
Reconcilable(S) == S \cap outbox

Reconcile(S, spend) ==
  /\ held' = held \ S
  /\ accounted' = accounted \ spend
  /\ ledger' = [j \in Job |-> IF j \in spend THEN 0 ELSE ledger[j]]
  /\ forceFailed' = forceFailed \ S
  /\ lateClosed' = lateClosed \ S
  /\ blocked' = blocked \ S
  /\ UNCHANGED <<outbox, called, finished, descendants>>

(* The status _onJobExit and _settleInteractiveJob derive.                 *)
Outcomes(j) ==
  IF j \in Interactive
  THEN IF j \in canceling THEN {"canceled"} ELSE {"completed", "failed"}
  ELSE IF j \in persistFailed THEN {"failed"}
  ELSE IF j \in zombie THEN {"zombie_terminated"}
  ELSE IF j \in canceling THEN {"canceled"}
  ELSE {"completed", "failed"}

(* Before any early return the slot and the kill timer of j are released.  *)
ReleaseTimer(j) == killTimer' = IF active = j THEN NoJob ELSE killTimer

(* The 'close' of a child whose manager has been disposed.                 *)
ExitDisposed(j) ==
  /\ pc = "idle" /\ mode \in {"closing", "closed"} /\ j \in child
  /\ child' = child \ {j}
  /\ killed' = killed \ {j}
  /\ \/ j \in Interactive /\ UNCHANGED <<active, killTimer>>
     \/ /\ j \notin Interactive /\ ReleaseTimer(j)
        /\ active' = IF active = j THEN NoJob ELSE active
  /\ UNCHANGED <<outboxVars, savedVars, ledger, starting, markVars, sigkill,
                 lateVars, status, position, flagVars, handlerVars, history,
                 bounds>>

(* The late 'close' of a force-failed child only reconciles its spend.     *)
LateExit(j) ==
  /\ Idle /\ j \in child \cap forceFailed
  /\ child' = child \ {j}
  /\ killed' = killed \ {j}
  /\ \/ /\ j \in Reconcilable(forceFailed)
        /\ \E spend \in SUBSET {j} : Reconcile({j}, spend)
        /\ Replay("late")
        /\ UNCHANGED <<paused, savedPaused, faults>>
     \/ /\ Fault /\ FailStop /\ Stay
        /\ blocked' = blocked \cup {j}
        /\ lateClosed' = lateClosed \cup {j}
        /\ UNCHANGED <<outboxVars, ledger, forceFailed>>
  /\ UNCHANGED <<row, forgotten, saved, savedPos, priority, starting, markVars,
                 killTimer, sigkill, queueVars, restoreBlocked, mode, history,
                 otherBounds>>

(* _onJobExit, or the settlement of an interactive session: the terminal   *)
(* intent is staged, then the outbox is replayed.  When the staging fails  *)
(* the slot stays reserved for the childless row.                          *)
ChildExit(j) ==
  /\ Idle /\ j \in child \ forceFailed
  /\ child' = child \ {j}
  /\ killed' = killed \ {j}
  /\ ReleaseTimer(j)
  /\ \/ /\ \E st \in Outcomes(j) :
             Stage({j}, st, FALSE) /\ status' = [status EXCEPT ![j] = st]
        /\ active' = IF active = j THEN NoJob ELSE active
        /\ canceling' = canceling \ {j}
        /\ zombie' = zombie \ {j}
        /\ persistFailed' = persistFailed \ {j}
        /\ blocked' = blocked \ {j}
        /\ Replay("exit")
        /\ UNCHANGED <<paused, savedPaused, faults>>
     \/ /\ Fault /\ FailStop /\ Stay /\ Unstaged
        /\ active' = j
        /\ blocked' = blocked \cup {j}
        /\ UNCHANGED <<status, markVars>>
  /\ UNCHANGED <<ledger, starting, sigkill, lateVars, position, restoreBlocked,
                 mode, history, otherBounds>>

(* persistEvent cannot write an event of the child: fail-stop and kill it. *)
PersistEventFails(j) ==
  /\ Idle /\ Fault
  /\ j \in child \ Interactive
  /\ status[j] = "running" \/ j \in forceFailed
  /\ FailStop
  /\ \/ active = j /\ persistFailed' = persistFailed \cup {j} /\ Kill(j)
     \/ active # j /\ UNCHANGED <<persistFailed, canceling, killTimer>>
  /\ UNCHANGED <<outboxVars, row, forgotten, saved, savedPos, priority, ledger,
                 starting, child, zombie, sigkill, killed, lateVars, queueVars,
                 blocked, restoreBlocked, handlerVars, history, otherBounds>>

(* _onZombieDetected: the child has been silent for too long.              *)
ZombieTimeout(j) ==
  /\ Idle
  /\ active = j /\ status[j] = "running"
  /\ j \in child \ (Interactive \cup zombie)
  /\ zombie' = zombie \cup {j}
  /\ Kill(j)
  /\ UNCHANGED <<outboxVars, savedVars, ledger, starting, child, persistFailed,
                 sigkill, killed, lateVars, queueVars, flagVars, handlerVars,
                 history, bounds>>

(* The grace period of a kill is over: SIGKILL, answered by a callback.    *)
KillTimerFires ==
  /\ pc = "idle" /\ killTimer # NoJob
  /\ killTimer' = NoJob
  /\ sigkill' = sigkill \cup {killTimer}
  /\ UNCHANGED <<outboxVars, savedVars, ledger, starting, child, markVars, killed,
                 lateVars, queueVars, flagVars, handlerVars, history, bounds>>

(* The callback reports success: a live child is going to exit.  Or it     *)
(* reports a failure for a job that no longer holds the slot.              *)
SigkillAnswered(j) ==
  /\ pc = "idle" /\ j \in sigkill
  /\ sigkill' = sigkill \ {j}
  /\ \/ j \in child /\ killed' = killed \cup {j}
     \/ (active # j \/ j \notin child) /\ UNCHANGED killed
  /\ UNCHANGED <<outboxVars, savedVars, ledger, starting, child, markVars,
                 killTimer, lateVars, queueVars, flagVars, handlerVars, history,
                 bounds>>

(* _forceFailUnkillableJob: the row is failed and held for the late exit,  *)
(* and the slot is released although the child lives.                      *)
ForceFail(j) ==
  /\ pc = "idle" /\ mode \in {"up", "closing"}
  /\ j \in sigkill /\ active = j /\ status[j] = "running"
  /\ sigkill' = sigkill \ {j}
  /\ \/ /\ Stage({j}, "failed", TRUE)
        /\ status' = [status EXCEPT ![j] = "failed"]
        /\ forceFailed' = forceFailed \cup {j}
        /\ blocked' = blocked \ {j}
        /\ Replay("settle")
        /\ active' = NoJob
        /\ canceling' = canceling \ {j}
        /\ zombie' = zombie \ {j}
        /\ UNCHANGED <<paused, savedPaused, faults>>
     \/ /\ Fault /\ FailStop /\ Stay /\ Unstaged
        /\ blocked' = blocked \cup {j}
        /\ UNCHANGED <<status, active, canceling, zombie, forceFailed>>
  /\ UNCHANGED <<ledger, starting, child, persistFailed, killTimer, killed,
                 lateClosed, position, restoreBlocked, mode, history,
                 otherBounds>>
-----------------------------------------------------------------------------
(* The outbox: capture at startup and shutdown, replay after every handler. *)

(* Mutant of Orphan: only the job that still has the slot is captured.     *)
ActiveOrphan == {j \in Job : row[j] = "running" /\ active = j}

(* Orphans are the running rows of a process that is gone or is going.     *)
Orphan == {j \in Job : row[j] = "running"}

(* _captureOrphanRecoveries, one transaction: holds are released, and the  *)
(* orphans become failed rows with an intent.                              *)
Captured(reaccount) ==
  LET C == accounted \ reaccount
  IN  /\ row' = [j \in Job |-> IF j \in Orphan THEN "failed" ELSE row[j]]
      /\ outbox' = outbox \cup Orphan
      /\ accounted' = C \ (Orphan \ outbox)
      /\ called' = called \ (Orphan \ outbox)
      /\ finished' = finished \ (Orphan \ outbox)
      /\ held' = {}
      /\ ledger' = [j \in Job |-> IF j \in reaccount THEN 0 ELSE ledger[j]]
      /\ descendants' =
           [j \in Job |-> IF j \in Orphan \ outbox THEN Descendants(j, saved)
                          ELSE descendants[j]]

(* The capture, and at startup (or in a resume that retries it) the rest   *)
(* of _restoreFromDb up to its replay: the queue is rebuilt.               *)
Capture ==
  /\ pc = "capture"
  /\ \/ /\ \E reaccount \in SUBSET held : Captured(reaccount)
        /\ \/ /\ mode = "up"
              /\ status' = [j \in Job |-> IF j \in saved THEN "queued" ELSE status[j]]
              /\ position' = Restored
              /\ restoreBlocked' = FALSE
           \/ mode = "closing" /\ UNCHANGED <<status, position, restoreBlocked>>
        /\ Replay(then)
        /\ UNCHANGED <<paused, savedPaused, faults>>
     \/ /\ Fault
        /\ \/ UNCHANGED <<outboxVars, row, ledger>>
           \/ mode = "up" /\ \E reaccount \in SUBSET held : Captured(reaccount)
        /\ \/ mode = "up" /\ restoreBlocked' = TRUE /\ FailStop
           \/ mode = "closing" /\ UNCHANGED <<restoreBlocked, paused,
                                              savedPaused>>
        /\ pc' = "idle" /\ then' = "settle"
        /\ UNCHANGED <<pass, status, position>>
  /\ UNCHANGED <<forgotten, saved, savedPos, priority, childVars, active, blocked,
                 mode, history, otherBounds>>

(* _skipRecoveredDescendants: a snapshot member that is still queued is    *)
(* skipped; one already skipped is only reported; others are left alone.   *)
StillQueued(k) == k \in saved \/ status[k] = "queued"
AlreadySkipped(k) ==
  (row[k] = "skipped" /\ k \notin forgotten) \/ status[k] = "skipped"

(* The checkpoints the row of j has still to make.                         *)
Pending(j) == (IF j \in accounted THEN {} ELSE {"accounting"})
                \cup (IF j \in called THEN {} ELSE {"callback"})
                \cup (IF j \in finished THEN {} ELSE {"terminal"})

(* Mutant of SkipDescendants: the admissions are not deleted.              *)
SkipKeepingAdmissions(j) ==
  LET skipped == {k \in descendants[j] : StillQueued(k)}
  IN  /\ row' = [k \in Job |-> IF k \in skipped THEN "skipped" ELSE row[k]]
      /\ status' = [k \in Job |-> IF k \in skipped /\ status[k] # "none"
                                  THEN "skipped" ELSE status[k]]
      /\ position' = Without(skipped)
      /\ UNCHANGED <<saved, savedPos>>

(* Mutant of SkipDescendants: the skipped jobs stay in _queue.             *)
SkipInPlace(j) ==
  LET skipped == {k \in descendants[j] : StillQueued(k)}
  IN  /\ row' = [k \in Job |-> IF k \in skipped THEN "skipped" ELSE row[k]]
      /\ status' = [k \in Job |-> IF k \in skipped /\ status[k] # "none"
                                  THEN "skipped" ELSE status[k]]
      /\ saved' = saved \ skipped
      /\ UNCHANGED <<position, savedPos>>

(* The third checkpoint: the dependents in the snapshot are skipped and    *)
(* reported, and the positions of the rest of the queue are persisted.     *)
SkipDescendants(j) ==
  LET skipped == {k \in descendants[j] : StillQueued(k)}
  IN  /\ row' = [k \in Job |-> IF k \in skipped THEN "skipped" ELSE row[k]]
      /\ status' = [k \in Job |-> IF k \in skipped /\ status[k] # "none"
                                  THEN "skipped" ELSE status[k]]
      /\ saved' = saved \ skipped
      /\ position' = Without(skipped)
      /\ savedPos' = Persisted(Queued \ skipped, position')

(* One outbox row of _resumeOrphanRecoveriesUnsafe.  Each checkpoint is a  *)
(* transaction of its own and `ok` names the ones that commit.             *)
ReplayRow(j) ==
  /\ pc = "replay" /\ j \in pass
  /\ \E ok \in SUBSET Pending(j) :
       /\ \/ ok = Pending(j) /\ Healthy
          \/ ok # Pending(j) /\ Fault
       /\ accounted' = IF "accounting" \in ok THEN accounted \cup {j} ELSE accounted
       /\ ledger' =
            IF "accounting" \in ok THEN [ledger EXCEPT ![j] = @ + 1] ELSE ledger
       /\ called' = IF "callback" \in ok THEN called \cup {j} ELSE called
       /\ finished' = IF "terminal" \in ok THEN finished \cup {j} ELSE finished
       /\ notified' = notified
            \cup (IF "callback" \in ok THEN {j} ELSE {})
            \cup (IF "terminal" \in ok /\ row[j] # "completed"
                  THEN {k \in descendants[j] : StillQueued(k) \/ AlreadySkipped(k)}
                  ELSE {})
       /\ \/ "terminal" \in ok /\ row[j] # "completed" /\ SkipDescendants(j)
          \/ /\ "terminal" \notin ok \/ row[j] = "completed"
             /\ UNCHANGED <<row, status, saved, position, savedPos>>
  /\ pass' = pass \ {j}
  /\ UNCHANGED <<outbox, held, descendants, forgotten, savedPaused, priority,
                 childVars, active, flagVars, mode, pc, then, admitted, spawns,
                 otherBounds>>

(* Mutant of Resumed: resume does not drain the queue.                     *)
ResumedIdle(ready) ==
  /\ ready
  /\ pc' = "idle"
  /\ paused' = FALSE
  /\ \/ savedPaused' = FALSE /\ Healthy
     \/ UNCHANGED savedPaused /\ Fault

(* What a handler does once its replay has answered `ready`.               *)
Resumed(ready) ==
  /\ ready
  /\ pc' = "drain"
  /\ paused' = FALSE
  /\ \/ savedPaused' = FALSE /\ Healthy
     \/ UNCHANGED savedPaused /\ Fault

StartedUp(ready) ==
  /\ pc' = "drain"
  /\ paused' = (savedPaused \/ ~ready)
  /\ savedPaused' \in IF ready THEN {savedPaused} ELSE {TRUE, savedPaused}

(* Mutant of Exited: the exit of a job does not drain the queue.           *)
ExitedIdle(ready) ==
  /\ pc' = "idle"
  /\ paused' = (paused \/ OverBudget \/ ~ready)
  /\ savedPaused' \in {savedPaused, TRUE}

(* The budget is enforced on every exit, in both outcomes of the replay.   *)
Exited(ready) ==
  /\ pc' = IF ready THEN "drain" ELSE "idle"
  /\ paused' = (paused \/ OverBudget \/ ~ready)
  /\ savedPaused' \in
       (IF OverBudget /\ ~paused THEN {TRUE} ELSE {savedPaused})
         \cup (IF ready THEN {} ELSE {TRUE})

FailedStop(ready) == ~ready /\ pc' = "idle" /\ FailStop

Keep == UNCHANGED <<paused, savedPaused>>

(* shutdown gives up its ownership, and its database once every row of it  *)
(* is terminal and every checkpoint is made.                               *)
Closed ==
  /\ pc' = "idle"
  /\ active' = NoJob
  /\ mode' = IF /\ \A j \in Job : row[j] # "running"
                /\ outbox' \subseteq (accounted \cap called \cap finished) \ held
             THEN "closed" ELSE "closing"

(* Mutant of Complete: a row goes although its callback has not run.       *)
CompleteUncalled == (outbox \cap accounted \cap finished) \ held

(* Rows with every checkpoint, unless a late exit is still awaited.        *)
Complete == (outbox \cap accounted \cap called \cap finished) \ held

(* Mutants of EffectsReady: a pending skip, or a pending accounting, does  *)
(* not stop the queue.                                                     *)
AccountingReady == outbox \subseteq accounted
SkipsReady == outbox \subseteq finished

(* The answer of the replay: no accounting and no skip is outstanding.     *)
EffectsReady == outbox \subseteq accounted \cap finished

(* The end of the replay: the complete rows are removed (in one            *)
(* transaction), and the handler goes on.                                  *)
AfterReplay ==
  /\ pc = "replay" /\ pass = {}
  /\ \E cleaned \in BOOLEAN :
       LET gone == IF cleaned THEN Complete ELSE {}
           ready == cleaned /\ EffectsReady
       IN  /\ outbox' = outbox \ gone
           /\ accounted' = accounted \ gone
           /\ called' = called \ gone
           /\ finished' = finished \ gone
           /\ descendants' = [j \in Job |-> IF j \in gone THEN {} ELSE descendants[j]]
           /\ \/ /\ then = "resume" /\ cleaned /\ Resumed(ready)
                 /\ UNCHANGED <<active, mode>>
              \/ /\ \/ cleaned /\ Healthy
                    \/ ~cleaned /\ Fault
                 /\ \/ /\ \/ then = "settle" /\ ready /\ pc' = "drain" /\ Keep
                          \/ then = "late" /\ ready /\ pc' = "idle" /\ Keep
                          \/ then \in {"settle", "late", "resume"} /\ FailedStop(ready)
                          \/ then = "exit" /\ Exited(ready)
                          \/ then = "restore" /\ StartedUp(ready)
                          \/ then = "flush" /\ pc' = "capture" /\ Keep
                          \/ then = "unclosed" /\ pc' = "idle" /\ Keep
                       /\ UNCHANGED <<active, mode>>
                    \/ then = "close" /\ Closed /\ Keep
  /\ then' = IF then = "flush" THEN "close" ELSE "settle"
  /\ UNCHANGED <<held, row, forgotten, saved, savedPos, priority, ledger,
                 childVars, status, position, blocked, restoreBlocked, pass,
                 history, otherBounds>>
-----------------------------------------------------------------------------
(* Resume, shutdown, and the death of the process.                         *)

(* resume: a failed restore is retried, then the failed late               *)
(* reconciliations, then the outbox; the queue runs again if all succeed.  *)
Resume ==
  /\ Idle
  /\ \/ /\ restoreBlocked
        /\ pc' = "capture" /\ then' = "resume"
        /\ Keep
        /\ UNCHANGED <<pass, outboxVars, ledger, lateVars, blocked, faults, pauses>>
     \/ /\ ~restoreBlocked
        /\ \/ paused /\ UNCHANGED pauses
           \/ ~paused /\ pauses < MaxPauses /\ pauses' = pauses + 1
        /\ \E ok \in SUBSET Reconcilable(lateClosed) : \E spend \in SUBSET ok :
             /\ Reconcile(ok, spend)
             /\ \/ ok = Reconcilable(lateClosed) /\ Healthy
                \/ ok # Reconcilable(lateClosed) /\ Fault
             /\ \/ ok = lateClosed /\ blocked' = {} /\ Replay("resume") /\ Keep
                \/ /\ ok # lateClosed \/ blocked' # {}
                   /\ FailStop
                   /\ \/ ok = {} /\ Stay
                      \/ ok # {} /\ Replay("late")
  /\ UNCHANGED <<row, forgotten, saved, savedPos, priority, starting, child,
                 markVars, killVars, queueVars, restoreBlocked, mode, history,
                 crashes, kills, moves, forgets>>

(* _flushInFlightAccounting and _stageGracefulAbort: the held rows of      *)
(* `late` are released, and the jobs of `aborted` staged as failed.        *)
Flushed(aborted, late, spend) ==
  /\ row' = [j \in Job |-> IF j \in aborted THEN "failed" ELSE row[j]]
  /\ status' = [j \in Job |-> IF j \in aborted THEN "failed" ELSE status[j]]
  /\ saved' = saved \ aborted
  /\ outbox' = outbox \cup aborted
  /\ accounted' = accounted \ (aborted \cup spend)
  /\ called' = called \ aborted
  /\ finished' = finished \ aborted
  /\ held' = held \ (late \cup aborted)
  /\ descendants' = [j \in Job |-> IF j \in aborted THEN Descendants(j, saved)
                                   ELSE descendants[j]]
  /\ ledger' = [j \in Job |-> IF j \in spend THEN 0 ELSE ledger[j]]
  /\ forceFailed' = forceFailed \ late
  /\ lateClosed' = forceFailed \ late
  /\ blocked' = (blocked \ (late \cup aborted)) \cup (forceFailed \ late)

Running == {j \in Job : active = j /\ status[j] = "running"}

(* shutdown: late reconciliations, each of which may fail, then the        *)
(* running job is staged as failed, then the outbox is replayed; it can be *)
(* called again.                                                           *)
Shutdown ==
  /\ pc = "idle" /\ mode \in {"up", "closing"}
  /\ mode' = "closing"
  /\ killTimer' = NoJob
  /\ \E aborted \in {Running, {}}, late \in SUBSET Reconcilable(forceFailed) :
       /\ \/ aborted = Running /\ late = Reconcilable(forceFailed) /\ Healthy
          \/ (aborted # Running \/ late # Reconcilable(forceFailed)) /\ Fault
       /\ \/ late = forceFailed /\ Keep
          \/ late # forceFailed /\ FailStop
       /\ \E spend \in SUBSET late : Flushed(aborted, late, spend)
       /\ Replay(IF aborted = Running THEN "flush" ELSE "unclosed")
  /\ UNCHANGED <<forgotten, savedPos, priority, starting, child, markVars,
                 sigkill, killed, position, active, restoreBlocked, history,
                 otherBounds>>

(* The process dies, between any two transactions of a handler; its memory *)
(* is gone, and with it the ownership of any child that survives it.       *)
Crash ==
  /\ mode # "down"
  /\ crashes < MaxCrashes /\ crashes' = crashes + 1
  /\ mode' = "down"
  /\ pc' = "idle" /\ then' = "settle"
  /\ status' = [j \in Job |-> "none"] /\ position' = [j \in Job |-> 0]
  /\ active' = NoJob /\ killTimer' = NoJob
  /\ starting' = {} /\ child' = {} /\ canceling' = {} /\ zombie' = {}
  /\ persistFailed' = {}
  /\ sigkill' = {} /\ killed' = {} /\ forceFailed' = {} /\ lateClosed' = {}
  /\ blocked' = {}
  /\ pass' = {}
  /\ paused' = FALSE /\ restoreBlocked' = FALSE
  /\ UNCHANGED <<outboxVars, savedVars, ledger, history, faults, kills, pauses,
                 moves, forgets>>

(* The constructor of the next process: _restoreFromDb.                    *)
Restart ==
  /\ mode = "down"
  /\ mode' = "up"
  /\ pc' = "capture" /\ then' = "restore"
  /\ UNCHANGED <<outboxVars, savedVars, ledger, childVars, queueVars, flagVars,
                 pass, history, bounds>>

Next ==
  \/ \E j \in Job : Enqueue(j) \/ Forget(j)
  \/ \E j \in Job : CancelBeforeSpawn(j) \/ CancelRunning(j)
  \/ \E j \in Job, w \in Priorities : UpdatePriority(j, w)
  \/ \E p \in [Job -> 0 .. Cardinality(Job)] : Reorder(p)
  \/ Pause \/ Resume \/ Shutdown
  \/ Drain
  \/ \E j \in Job : Spawn(j) \/ AbandonStart(j) \/ WedgeFailed(j) \/ WedgeUnsettled(j)
  \/ \E j \in Job : ExitDisposed(j) \/ LateExit(j) \/ ChildExit(j)
  \/ \E j \in Job : PersistEventFails(j) \/ ZombieTimeout(j)
  \/ \E j \in Job : SigkillAnswered(j) \/ ForceFail(j)
  \/ KillTimerFires
  \/ Capture \/ AfterReplay \/ \E j \in Job : ReplayRow(j)
  \/ Crash \/ Restart

Spec == Init /\ [][Next]_vars
-----------------------------------------------------------------------------
(* Fairness.  Handlers run to their end, and the await of a start settles. *)
(* A silent child is caught by the zombie timer, the kill timer fires, the *)
(* SIGKILL is answered, and a child that was killed with it exits; nothing *)
(* is assumed of a child that SIGKILL cannot reach.                        *)
KilledExit(j) == j \in killed /\ ChildExit(j)

FairSpec ==
  /\ Spec
  /\ WF_vars(Capture) /\ WF_vars(AfterReplay) /\ WF_vars(Drain)
  /\ WF_vars(\E j \in Job : ReplayRow(j))
  /\ WF_vars(KillTimerFires)
  /\ \A j \in Job :
       /\ WF_vars(Spawn(j) \/ AbandonStart(j) \/ WedgeFailed(j) \/ WedgeUnsettled(j))
       /\ WF_vars(ZombieTimeout(j))
       /\ WF_vars(SigkillAnswered(j) \/ ForceFail(j))
       /\ WF_vars(KilledExit(j))

(* The operator restarts a dead server, resumes a paused queue, and tries  *)
(* a removal or shutdown that did not complete again.                      *)
OperatedSpec ==
  /\ FairSpec
  /\ WF_vars(Restart) /\ WF_vars(Resume) /\ WF_vars(mode = "closing" /\ Shutdown)
-----------------------------------------------------------------------------
(* Safety.                                                                 *)

(* An acknowledged job is in exactly one durable place, queued_jobs or     *)
(* jobs, and nothing else is: promotion, cancellation and recovery never   *)
(* lose an admission nor leave one that would run again after a restart.   *)
AdmittedOnce ==
  /\ admitted = saved \cup {j \in Job : row[j] # "none"}
  /\ \A j \in saved : row[j] = "none"

(* One execution slot: a live child that has not been given up on belongs  *)
(* to the job that holds the slot, and no other job counts as running, so  *)
(* cancel and the zombie timer hit the child of the job they name.         *)
OneChild ==
  mode = "up" =>
    /\ child \ forceFailed \subseteq {active}
    /\ {j \in Job : status[j] = "running"} \subseteq {active}

(* A child is created at most once for a job, across crashes and restarts. *)
SpawnedOnce == \A j \in Job : spawns[j] <= 1

(* The ledger has at most one invocation of a job, however often its       *)
(* accounting is replayed or reopened by a late exit; and an outbox row    *)
(* goes only when the outcome was reported and the spend recorded.         *)
SettledExactlyOnce ==
  /\ \A j \in Job : ledger[j] <= 1
  /\ \A j \in Job \ outbox :
       row[j] \in Terminal \ {"skipped"} =>
         /\ j \in notified
         /\ spawns[j] > 0 => ledger[j] = 1

(* A queue that may start a job knows the spend of every job before it, so *)
(* the budget is never overrun by more than the job that reaches it.       *)
SpendIsKnown ==
  /\ mode = "up" /\ ~paused /\ pc \in {"idle", "drain"} =>
       \A j \in Job \ {active} : spawns[j] > 0 => ledger[j] > 0
  /\ Cardinality({j \in Job : spawns[j] > 0}) <= BudgetCap

(* No job waits for a parent that can no longer complete.                  *)
NoStrandedDependent ==
  mode = "up" /\ pc = "idle" /\ ~paused =>
    \A j \in Queued : Dep[j] # NoJob =>
      DependencyStatus(Dep[j]) \notin Terminal \ {"completed"}

(* Whenever the server is at rest and the slot is free, no job that could  *)
(* run is waiting: every path that frees the slot, settles a parent or     *)
(* lifts the pause goes on to drain the queue.                             *)
NoLostWakeup ==
  mode = "up" /\ pc = "idle" /\ ~paused /\ active = NoJob => \A j \in Job : ~Ready(j)

(* What the manager reports as ended has ended on disk with that status,   *)
(* and what it has queued would be queued again by a restart.              *)
MemoryMatchesDisk ==
  mode # "down" /\ pc # "capture" =>
    \A j \in Job :
      /\ status[j] \in Terminal => row[j] = status[j]
      /\ status[j] = "queued" => j \in saved

(* _queue holds exactly the queued jobs, each once, numbered from 1; what  *)
(* normalizePendingQueue repairs in corrupt states never arises.           *)
QueueConsistent ==
  mode # "down" /\ pc # "capture" =>
    \A j \in Job : position[j] = IF status[j] # "queued" THEN 0
                    ELSE 1 + Cardinality({k \in Queued : position[k] < position[j]})

(* The state is well formed, and memory agrees with the disk and with       *)
(* itself.                                                                  *)
StateConsistent == TypeOK /\ MemoryMatchesDisk /\ QueueConsistent

(* "Higher priority always executes first": the queue never has a job      *)
(* behind one of a lower priority.                                         *)
PriorityOrder ==
  \A j, k \in Queued : position[j] < position[k] => priority[j] >= priority[k]

(* A crash now would bring the queue back in the order it has.             *)
DurableOrder ==
  mode = "up" /\ pc = "idle" =>
    \A j, k \in Queued : position[j] < position[k] => RestoredBefore(j, k)

(* The queue keeps the promises made about each job.                       *)
Phase(j) ==
  IF j \notin admitted THEN "new" ELSE IF row[j] = "none" THEN "waiting" ELSE row[j]

Lifecycle == INSTANCE JobLifecycle WITH phase <- [j \in Job |-> Phase(j)],
                                        reported <- notified,
                                        archived <- forgotten

ImplementsLifecycle == Lifecycle!Spec
-----------------------------------------------------------------------------
(* Liveness.                                                               *)

(* A child that hangs, even one that SIGKILL cannot remove, does not wedge *)
(* the queue: a ready job leaves the queue unless the queue is paused or   *)
(* shut down first.                                                        *)
QueueMoves ==
  \A j \in Job : mode = "up" /\ Ready(j) ~> ~Ready(j) \/ paused \/ mode # "up"

(* Every acknowledged job reaches a durable outcome, through faults and    *)
(* crashes, unless the server is being shut down or a terminal row could   *)
(* not be written and waits for a restart.                                 *)
EveryAdmissionSettles ==
  \A j \in Job :
    j \in admitted ~>
      row[j] \in Terminal \/ blocked # {} \/ mode \in {"closing", "closed"}

(* A project removal that was refused because storage failed converges     *)
(* when it is tried again.                                                 *)
ShutdownConverges == mode = "closing" ~> mode \in {"closed", "down"}
=============================================================================
