--------------------------- MODULE ProjectRegistry ---------------------------
(***************************************************************************)
(* The catalogue of projects (server/project-registry.ts) and the          *)
(* admission leases that guard its projects (server/process-admission.ts). *)
(*                                                                         *)
(* A project has a row in the desktop database and a data directory, both  *)
(* of which survive a restart, and while the server runs a context: its    *)
(* database handle and its managers.  Every function below is synchronous, *)
(* hence one step; what interleaves is                                     *)
(*   - the retry timers of projects whose database was locked,             *)
(*   - the recovery of a loaded context, a chain of awaits at the end of   *)
(*     which the project's admission is opened,                            *)
(*   - the continuations of routes that hold an admission lease,           *)
(*   - removals, shutdowns and restarts.                                   *)
(* Project ids are random, so an id is registered at most once.            *)
(***************************************************************************)
EXTENDS Naturals, Sequences

CONSTANTS
  Projects,      \* project ids
  Removable,     \* bound: the projects somebody tries to remove
  Requests,      \* route handlers that capture a lease and then await
  MaxAttempts,   \* bound on the attempts to remove one project
  MaxRestarts,   \* bound on the restarts of the server
  MaxLocks,      \* bound on how often another process locks a database
  MaxRetries     \* bound on the retries that find a database still locked

ASSUME RegistryAssumption ==
  /\ Removable \subseteq Projects
  /\ MaxAttempts \in Nat /\ MaxRestarts \in Nat
  /\ MaxLocks \in Nat /\ MaxRetries \in Nat

VARIABLES
  ever, rows, data,              \* ids ever used, the catalogue, data directories
  locked, locks,                 \* databases another process locks, and how often
  contexts, open,                \* _contexts, and the open database handles
  failed, timers,                \* _failedProjects with the error, _loadRetryTimers
  chain,                         \* where the recovery of each context stands
  closed, generation,            \* closedProjects, projectGenerations
  appOpen,                       \* appOpen; appGeneration changes only with it
  shuttingDown,                  \* _shuttingDown
  stopped,                       \* projects whose QueueManager was shut down
  attempts, restarts,            \* attempts to remove a project, restarts
  request,                       \* the continuations
  leftover                       \* history: rows whose deletion the desktop database refused

durable == <<ever, rows, data>>
registry == <<contexts, open, failed, timers, chain, stopped>>
admission == <<closed, generation, appOpen>>
environment == <<locked, locks, restarts>>
vars == <<durable, registry, admission, environment, shuttingDown, attempts, request, leftover>>

Stages == <<"probe", "worktrees", "flows", "effects", "stashes">>
Awaiting == {Stages[i] : i \in DOMAIN Stages}
Chains == Awaiting \cup {"none", "done", "failed", "stopped"}

Idle == [at |-> "idle"]
Held == [at : {"held"}, project : Projects, generation : Nat, attempt : Nat]
Ended == [at : {"acted", "refused"}]

TypeOK ==
  /\ ever \subseteq Projects /\ rows \subseteq ever /\ data \subseteq ever
  /\ locked \subseteq Projects /\ locks \in 0..MaxLocks
  /\ contexts \subseteq ever /\ open \subseteq ever
  /\ failed \in [Projects -> {"none", "busy", "broken"}] /\ timers \subseteq ever
  /\ chain \in [Projects -> Chains]
  /\ closed \subseteq Projects /\ generation \in [Projects -> Nat]
  /\ appOpen \in BOOLEAN /\ shuttingDown \in BOOLEAN
  /\ stopped \subseteq contexts
  /\ attempts \in [Projects -> 0..MaxAttempts] /\ restarts \in 0..MaxRestarts
  /\ request \in [Requests -> {Idle} \cup Held \cup Ended]
  /\ leftover \subseteq rows

Init ==
  /\ ever = {} /\ rows = {} /\ data = {}
  /\ locked = {} /\ locks = 0
  /\ contexts = {} /\ open = {} /\ timers = {} /\ stopped = {}
  /\ failed = [p \in Projects |-> "none"] /\ chain = [p \in Projects |-> "none"]
  /\ closed = {} /\ generation = [p \in Projects |-> 0]
  /\ appOpen = TRUE /\ shuttingDown = FALSE
  /\ attempts = [p \in Projects |-> 0] /\ restarts = 0
  /\ request = [r \in Requests |-> Idle] /\ leftover = {}

-----------------------------------------------------------------------------
(* server/process-admission.ts *)

Bump(g, ps) == [p \in Projects |-> IF p \in ps THEN g[p] + 1 ELSE g[p]]

QuiesceLeavingOpen(ps) == closed' = closed /\ generation' = Bump(generation, ps)

\* beginProjectProcessQuiescence
Quiesce(ps) == closed' = closed \cup ps /\ generation' = Bump(generation, ps)

OpenAdmissionKeptClosed(p) == closed' = closed /\ generation' = Bump(generation, {p})

\* openProjectProcessAdmission
OpenAdmission(p) == closed' = closed \ {p} /\ generation' = Bump(generation, {p})

\* assertProcessAdmission
Admitted(p) == appOpen /\ p \notin closed

IsCurrentInProject(lease) ==
  lease.project \notin closed /\ generation[lease.project] = lease.generation

\* isCurrent, of the lease in a continuation
IsCurrent(lease) ==
  Admitted(lease.project) /\ generation[lease.project] = lease.generation

\* captureProcessAdmission by a route, which resolved the project's context first.
Capture(r, p) ==
  /\ request[r] = Idle
  /\ p \in contexts /\ Admitted(p)
  /\ request' = [request EXCEPT ![r] = [at |-> "held", project |-> p,
       generation |-> generation[p], attempt |-> attempts[p]]]
  /\ UNCHANGED <<durable, registry, admission, environment, shuttingDown, attempts, leftover>>

\* The continuation of the route after its await: assertCurrent, then the work.
Continue(r) ==
  /\ request[r].at = "held"
  /\ request' = [request EXCEPT ![r] =
       [at |-> IF IsCurrent(request[r]) THEN "acted" ELSE "refused"]]
  /\ UNCHANGED <<durable, registry, admission, environment, shuttingDown, attempts, leftover>>

-----------------------------------------------------------------------------
(* Loading *)

\* How far loading a project gets: initDb finds the database locked, or throws
\* for another reason and closes its own handle, or the construction of the
\* managers throws with the handle open, or it throws once the context is
\* registered.  Else the project is loaded.
LoadOutcomes(p) == IF p \in locked THEN {"busy"} ELSE {"unopened", "broken", "late", "ok"}

Outcomes(ps) == {f \in [ps -> {"busy", "unopened", "broken", "late", "ok"}] :
                   \A p \in ps : f[p] \in LoadOutcomes(p)}

Reaching(out, points) == {p \in DOMAIN out : out[p] \in points}

\* Past initDb, and past _contexts.set.
Opened(out) == Reaching(out, {"broken", "late", "ok"})
Registered(out) == Reaching(out, {"late", "ok"})

\* initDb makes the data directory first, which may be what fails.
DataAfter(out) ==
  {data \cup (DOMAIN out \ u) : u \in SUBSET Reaching(out, {"unopened"})}

\* Where the recovery of a context stands after its load: one that threw after
\* the registration never began, and its admission stays closed.
ChainAfter(out, others) ==
  [p \in Projects |-> IF p \in Reaching(out, {"ok"}) THEN "probe"
                      ELSE IF p \in Reaching(out, {"late"}) THEN "failed" ELSE others[p]]

\* _loadProjectContext for the projects of out, with admission closed first.
Load(out) ==
  /\ Quiesce(DOMAIN out)
  /\ open' = open \cup Opened(out)
  /\ data' \in DataAfter(out)
  /\ chain' = ChainAfter(out, chain)
  /\ stopped' = stopped

\* What _failedProjects says of a project.
Failure(outcome) ==
  CASE outcome = "ok" -> "none" [] outcome = "busy" -> "busy" [] OTHER -> "broken"

\* _tryLoadProject: only a database that could not be opened is retried.  A
\* context that was registered before the load threw stays registered.
TryLoad(out) ==
  /\ Load(out)
  /\ contexts' = contexts \cup Registered(out)
  /\ failed' = [p \in Projects |-> IF p \in DOMAIN out THEN Failure(out[p]) ELSE failed[p]]
  /\ timers' = (timers \ DOMAIN out) \cup Reaching(out, {"busy"})

\* addProject: of a project that cannot be hydrated the context is dropped and
\* the row is taken back, unless the desktop database refuses that too.
AddProject(p) ==
  /\ p \notin ever
  /\ ever' = ever \cup {p}
  /\ \E out \in Outcomes({p}) :
       /\ Load(out)
       /\ IF out[p] = "ok"
            THEN /\ contexts' = contexts \cup {p} /\ rows' = rows \cup {p}
                 /\ leftover' = leftover
            ELSE /\ contexts' = contexts /\ rows' \in {rows, rows \cup {p}}
                 /\ leftover' = leftover \cup (rows' \ rows)
  /\ UNCHANGED <<failed, timers, appOpen, environment, shuttingDown, attempts, request>>

\* The retry timer: the row is read again, and a shutdown wins.
RetryLoad(p) ==
  /\ p \in timers
  /\ p \in locked => generation[p] < MaxRetries
  /\ IF p \in rows /\ ~shuttingDown
       THEN \E out \in Outcomes({p}) : TryLoad(out)
       ELSE /\ timers' = timers \ {p}
            /\ UNCHANGED <<data, contexts, open, failed, chain, stopped, closed, generation>>
  /\ UNCHANGED <<ever, rows, appOpen, environment, shuttingDown, attempts, request, leftover>>

-----------------------------------------------------------------------------
(* The recovery of a context: recoverAfterProbe and what it awaits *)

After(stage) == LET i == CHOOSE j \in DOMAIN Stages : Stages[j] = stage
                IN  IF i = Len(Stages) THEN "done" ELSE Stages[i + 1]

\* this._contexts.get(project.id) === ctx
StillRegistered(p) == p \in contexts

\* One await of the chain resolves.  The last one opens the admission.
Recover(p) ==
  /\ chain[p] \in Awaiting
  /\ IF StillRegistered(p)
       THEN /\ chain' = [chain EXCEPT ![p] = After(chain[p])]
            /\ IF chain'[p] = "done" THEN OpenAdmission(p)
               ELSE UNCHANGED <<closed, generation>>
       ELSE /\ chain' = [chain EXCEPT ![p] = "stopped"]
            /\ UNCHANGED <<closed, generation>>
  /\ UNCHANGED <<durable, contexts, open, failed, timers, stopped, appOpen,
                 environment, shuttingDown, attempts, request, leftover>>

\* A stage throws, with the project's admission still closed.  The replay of
\* ticket effects does not: it tries again until it has settled.
RecoveryFails(p) ==
  /\ chain[p] \in Awaiting \ {"effects"}
  /\ chain' = [chain EXCEPT ![p] = "failed"]
  /\ UNCHANGED <<durable, contexts, open, failed, timers, stopped, admission,
                 environment, shuttingDown, attempts, request, leftover>>

-----------------------------------------------------------------------------
(* removeProject *)

\* QueueManager.shutdown() returns false: terminal effects are pending.  Or
\* the history cannot be purged.  The context and the data stay as they are.
RemoveDeferred(p) ==
  /\ p \in rows \cap Removable /\ attempts[p] < MaxAttempts
  /\ attempts' = [attempts EXCEPT ![p] = @ + 1]
  /\ timers' = timers \ {p}
  /\ IF p \in contexts
       THEN Quiesce({p}) /\ stopped' = stopped \cup {p}
       ELSE UNCHANGED <<closed, generation, stopped>>
  /\ UNCHANGED <<durable, contexts, open, failed, chain, appOpen, environment,
                 shuttingDown, request, leftover>>

RemoveKeepingTimer(p) ==
  /\ p \in rows \cap Removable /\ attempts[p] < MaxAttempts
  /\ attempts' = [attempts EXCEPT ![p] = @ + 1]
  /\ IF p \in contexts THEN Quiesce({p}) /\ open' = open \ {p}
                       ELSE UNCHANGED <<closed, generation, open>>
  /\ contexts' = contexts \ {p} /\ stopped' = stopped \ {p}
  /\ data' \in {data \ {p}, data} /\ failed' = [failed EXCEPT ![p] = "none"]
  /\ rows' \in {rows \ {p}, rows}
  /\ leftover' = (leftover \cup {p}) \cap rows'
  /\ UNCHANGED <<ever, timers, chain, appOpen, environment, shuttingDown, request>>

\* The managers are torn down and the context's handle closed before the
\* directory goes, which may fail; the row goes last, and may stay when the
\* desktop database refuses.  The handle of a load that threw without a
\* context is nobody's to close.
Remove(p) ==
  /\ p \in rows \cap Removable /\ attempts[p] < MaxAttempts
  /\ attempts' = [attempts EXCEPT ![p] = @ + 1]
  /\ timers' = timers \ {p}
  /\ IF p \in contexts THEN Quiesce({p}) /\ open' = open \ {p}
                       ELSE UNCHANGED <<closed, generation, open>>
  /\ contexts' = contexts \ {p} /\ stopped' = stopped \ {p}
  /\ data' \in {data \ {p}, data} /\ failed' = [failed EXCEPT ![p] = "none"]
  /\ rows' \in {rows \ {p}, rows}
  /\ leftover' = (leftover \cup {p}) \cap rows'
  /\ UNCHANGED <<ever, chain, appOpen, environment, shuttingDown, request>>

-----------------------------------------------------------------------------
(* Shutdown, restart, and other processes *)

\* shutdown of server/index.ts: admission closes for the whole application
\* before its first await, and the registry clears its timers.
Shutdown ==
  /\ ~shuttingDown
  /\ shuttingDown' = TRUE /\ appOpen' = FALSE
  /\ timers' = {} /\ stopped' = contexts
  /\ UNCHANGED <<durable, contexts, open, failed, chain, closed, generation,
                 environment, attempts, request, leftover>>

\* The process ends, with or without a shutdown, and starts again: loadAll.
Restart ==
  /\ restarts < MaxRestarts
  /\ restarts' = restarts + 1
  /\ \E out \in Outcomes(rows) :
       /\ contexts' = Registered(out) /\ open' = Opened(out)
       /\ failed' = [p \in Projects |-> IF p \in rows THEN Failure(out[p]) ELSE "none"]
       /\ timers' = Reaching(out, {"busy"})
       /\ data' \in DataAfter(out)
       /\ chain' = ChainAfter(out, [p \in Projects |-> "none"])
  /\ closed' = rows
  /\ generation' = [p \in Projects |-> IF p \in rows THEN 1 ELSE 0]
  /\ appOpen' = TRUE /\ shuttingDown' = FALSE /\ stopped' = {} /\ leftover' = {}
  /\ request' = [r \in Requests |->
       IF request[r].at = "held" THEN [at |-> "refused"] ELSE request[r]]
  /\ UNCHANGED <<ever, rows, locked, locks, attempts>>

\* Another process (a second server, a backup) locks a database and lets go.
Lock(p) ==
  /\ p \notin locked /\ locks < MaxLocks
  /\ locked' = locked \cup {p}
  /\ locks' = locks + 1
  /\ UNCHANGED <<durable, registry, admission, restarts, shuttingDown, attempts, request, leftover>>

Unlock(p) ==
  /\ p \in locked
  /\ locked' = locked \ {p}
  /\ UNCHANGED <<durable, registry, admission, locks, restarts, shuttingDown, attempts, request,
                 leftover>>

Next ==
  \/ \E p \in Projects :
       \/ AddProject(p) \/ RetryLoad(p) \/ Recover(p) \/ RecoveryFails(p)
       \/ RemoveDeferred(p) \/ Remove(p) \/ Lock(p) \/ Unlock(p)
       \/ \E r \in Requests : Capture(r, p)
  \/ \E r \in Requests : Continue(r)
  \/ Shutdown \/ Restart

\* Timers fire, promises settle, and a lock is not held for ever.
Fairness ==
  /\ \A p \in Projects : WF_vars(RetryLoad(p)) /\ WF_vars(Recover(p)) /\ WF_vars(Unlock(p))
  /\ \A r \in Requests : WF_vars(Continue(r))

Spec == Init /\ [][Next]_vars
FairSpec == Spec /\ Fairness

-----------------------------------------------------------------------------
(* Properties *)

\* A project admits subprocess work only once the recovery of its own context
\* has run to the end (the comment at project-registry.ts:715), and only while
\* that context holds an open database.  Removals, failed hydrations and a
\* recovery that outlives its context come in between.
AdmittedMeansRecovered ==
  \A p \in rows : Admitted(p) => chain[p] = "done" /\ p \in contexts \cap open

\* A route that awaited does its work only on the context it captured, with the
\* database open, no removal tried since and no shutdown begun: what the
\* generations of process-admission.ts stand for.
ActsOnItsOwnProject ==
  [][\A r \in Requests :
       (request[r].at = "held" /\ request'[r].at = "acted") =>
          LET p == request[r].project
          IN  /\ p \in contexts /\ p \in open
              /\ attempts[p] = request[r].attempt
              /\ ~shuttingDown]_vars

\* A project that left the catalogue stays away: no context or failure entry of
\* it remains, and no timer will load it again.
RemovedForGood ==
  \A p \in ever \ rows : p \notin contexts /\ p \notin timers /\ failed[p] = "none"

\* No project of the catalogue is silently unusable: it has a context or is
\* listed as failed, unless the desktop database refused to delete its row.  A
\* context has its directory and its open database.  One that is also listed as
\* failed, because its load threw too late, never admits work; and a timer is
\* pending only where nothing was built yet ("Only an unopened DB can be
\* retried safely", project-registry.ts:317).
CatalogueAccounted ==
  /\ \A p \in rows : p \in contexts \/ failed[p] # "none" \/ p \in leftover
  /\ contexts \subseteq data \cap open
  /\ \A p \in contexts : failed[p] # "none" => p \in closed /\ chain[p] = "failed"
  /\ \A p \in timers : failed[p] = "busy" /\ p \notin contexts \cup open

\* A project whose database was locked at the start is loaded or found broken
\* once the lock is gone, unless it is removed or the server stops.
LockedEventuallyLoaded ==
  \A p \in Projects :
    failed[p] = "busy" ~>
       (p \in contexts \/ failed[p] = "broken" \/ attempts[p] > 0 \/ shuttingDown)

\* The admission of a loaded project opens, or its recovery has failed, or it
\* is being removed, or the server stops, or restarts and cannot load it.
AdmissionEventuallyOpens ==
  \A p \in Projects :
    p \in contexts ~>
      (Admitted(p) \/ chain[p] = "failed" \/ attempts[p] > 0 \/ shuttingDown \/ failed[p] # "none")

\* "Invalidate all earlier continuations and reject new work for one project"
\* (process-admission.ts:68): once a removal has quiesced a project, its
\* admission stays closed until the server is restarted.
QuiescedStaysClosed ==
  \A p \in stopped : ~Admitted(p)

(* The state is well formed, the catalogue knows every project there is,    *)
(* and a removed one does not come back.                                    *)
Consistent == TypeOK /\ CatalogueAccounted /\ RemovedForGood

(* A project becomes usable: loaded after a lock, admitted after recovery.  *)
BecomesUsable == LockedEventuallyLoaded /\ AdmissionEventuallyOpens
=============================================================================
