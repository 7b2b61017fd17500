------------------------- MODULE QueueManagerProofs -------------------------
(***************************************************************************)
(* Proofs about QueueManager for every set of jobs, dependencies and       *)
(* bounds: the state is well typed, an acknowledged job is in exactly one  *)
(* durable place, a job is spawned at most once across crashes, and there  *)
(* is one execution slot.                                                  *)
(*                                                                         *)
(* The last three are proved from one inductive invariant.  A job that is  *)
(* queued, starting or still admitted on disk has never been spawned       *)
(* (SpawnInv); that depends on a restart finding an empty memory, also     *)
(* when its first capture failed and a resume retries it (Blank); and the  *)
(* slot is only given up by a job without a live child, or with one that   *)
(* has been given up on, whose late exit is reconciled once (SlotInv).     *)
(***************************************************************************)
EXTENDS QueueManager, TLAPS, FiniteSetTheorems

USE DEF vars, outboxVars, savedVars, childVars, markVars, killVars, lateVars,
        queueVars, flagVars, handlerVars, history, bounds, otherBounds

-----------------------------------------------------------------------------
(* Type correctness: the helpers, what each returns or assigns, then one   *)
(* lemma per action, then the theorem.                                     *)

(* The positions of any set of queued jobs are natural numbers.            *)
LEMMA PositionsType ==
  ASSUME NEW Q \in SUBSET Job, NEW before
  PROVE  Positions(Q, before) \in [Job -> Nat]
<1>1. ASSUME NEW k \in Job
      PROVE  Cardinality({m \in Q \ {k} : <<m, k>> \in before}) \in Nat
  <2>1. {m \in Q \ {k} : <<m, k>> \in before} \in SUBSET Job
    OBVIOUS
  <2>2. IsFiniteSet({m \in Q \ {k} : <<m, k>> \in before})
    BY <2>1, FS_Subset, JobAssumption
  <2> QED
    BY <2>2, FS_CardinalityType
<1> QED
  BY <1>1 DEF Positions

LEMMA WithoutType ==
  ASSUME NEW S PROVE Without(S) \in [Job -> Nat]
BY PositionsType DEF Without, Queued

LEMMA InsertedType ==
  ASSUME NEW j \in Job, NEW w PROVE Inserted(j, w) \in [Job -> Nat]
BY PositionsType DEF Inserted, Queued

LEMMA UnshiftedType ==
  ASSUME NEW j \in Job PROVE Unshifted(j) \in [Job -> Nat]
BY PositionsType DEF Unshifted, Queued

LEMMA RestoredType ==
  ASSUME saved \subseteq Job PROVE Restored \in [Job -> Nat]
BY PositionsType DEF Restored

LEMMA PersistedType ==
  ASSUME savedPos \in [Job -> Nat], NEW pos \in [Job -> Nat], NEW Q
  PROVE  Persisted(Q, pos) \in [Job -> Nat]
BY DEF Persisted

(* A snapshot contains jobs that were queued only.                         *)
LEMMA DescendantsType ==
  ASSUME NEW j, NEW S PROVE Descendants(j, S) \subseteq S
BY DEF Descendants

(* What the shapes that handlers share assign.                             *)
LEMMA FaultType ==
  ASSUME TypeOK, Healthy \/ Fault PROVE faults' \in Nat
BY DEF TypeOK, HistoryTypes, Healthy, Fault

LEMMA FailStopType ==
  ASSUME TypeOK, FailStop PROVE paused' \in BOOLEAN /\ savedPaused' \in BOOLEAN
BY DEF TypeOK, DiskTypes, FailStop

LEMMA ReplayType ==
  ASSUME outbox' \subseteq Job, NEW next, Replay(next)
  PROVE  pc' = "replay" /\ then' = next /\ pass' \subseteq Job
BY DEF Replay

(* What the transactions of the outbox assign.                             *)
LEMMA StageType ==
  ASSUME TypeOK, NEW S \in SUBSET Job, NEW st \in Terminal, NEW hold,
         Stage(S, st, hold)
  PROVE  /\ row' \in [Job -> {"none", "running"} \cup Terminal]
         /\ saved' \subseteq Job /\ forgotten' \subseteq Job
         /\ savedPos' \in [Job -> Nat] /\ priority' \in [Job -> Priorities]
         /\ OutboxTypes'
<1>1. \A j \in Job : Descendants(j, saved) \subseteq Job
  BY DescendantsType DEF TypeOK, DiskTypes
<1>2. descendants' \in [Job -> SUBSET Job]
  BY <1>1 DEF Stage, TypeOK, OutboxTypes
<1> QED
  BY <1>2 DEF Stage, TypeOK, DiskTypes, OutboxTypes

LEMMA ReconcileType ==
  ASSUME TypeOK, NEW S, NEW spend, Reconcile(S, spend)
  PROVE  /\ OutboxTypes'
         /\ ledger' \in [Job -> Nat]
         /\ forceFailed' \subseteq Job /\ lateClosed' \subseteq Job
         /\ blocked' \subseteq Job
BY DEF Reconcile, TypeOK, OutboxTypes, DiskTypes, ChildTypes, QueueTypes

LEMMA CapturedType ==
  ASSUME TypeOK, NEW reaccount \in SUBSET Job, Captured(reaccount)
  PROVE  /\ row' \in [Job -> {"none", "running"} \cup Terminal]
         /\ ledger' \in [Job -> Nat]
         /\ OutboxTypes'
<1>1. \A j \in Job : Descendants(j, saved) \subseteq Job
  BY DescendantsType DEF TypeOK, DiskTypes
<1>2. descendants' \in [Job -> SUBSET Job]
  BY <1>1 DEF Captured, TypeOK, OutboxTypes
<1> QED
  BY <1>2 DEF Captured, TypeOK, DiskTypes, OutboxTypes, Orphan, Terminal

LEMMA FlushedType ==
  ASSUME TypeOK, NEW aborted \in SUBSET Job, NEW late \in SUBSET Job,
         NEW spend \in SUBSET late, Flushed(aborted, late, spend)
  PROVE  /\ row' \in [Job -> {"none", "running"} \cup Terminal]
         /\ saved' \subseteq Job
         /\ ledger' \in [Job -> Nat]
         /\ status' \in [Job -> {"none", "queued", "running"} \cup Terminal]
         /\ forceFailed' \subseteq Job /\ lateClosed' \subseteq Job
         /\ blocked' \subseteq Job
         /\ OutboxTypes'
<1>1. \A j \in Job : Descendants(j, saved) \subseteq Job
  BY DescendantsType DEF TypeOK, DiskTypes
<1>2. descendants' \in [Job -> SUBSET Job]
  BY <1>1 DEF Flushed, TypeOK, OutboxTypes
<1>3. OutboxTypes'
  BY <1>2 DEF Flushed, TypeOK, OutboxTypes
<1> QED
  BY <1>3 DEF Flushed, Terminal, TypeOK, DiskTypes, QueueTypes, ChildTypes

LEMMA SkipDescendantsType ==
  ASSUME TypeOK, NEW j \in Job, SkipDescendants(j)
  PROVE  /\ row' \in [Job -> {"none", "running"} \cup Terminal]
         /\ status' \in [Job -> {"none", "queued", "running"} \cup Terminal]
         /\ saved' \subseteq Job
         /\ position' \in [Job -> Nat] /\ savedPos' \in [Job -> Nat]
BY WithoutType, PersistedType
   DEF SkipDescendants, Terminal, TypeOK, DiskTypes, QueueTypes

LEMMA ReserveType ==
  ASSUME TypeOK, NEW j \in Job, Reserve(j)
  PROVE  /\ status' \in [Job -> {"none", "queued", "running"} \cup Terminal]
         /\ position' \in [Job -> Nat] /\ active' \in Job /\ paused' \in BOOLEAN
         /\ savedPos' \in [Job -> Nat] /\ savedPaused' \in BOOLEAN
         /\ starting' \subseteq Job
         /\ faults' \in Nat
<1>1. position' \in [Job -> Nat] /\ savedPos' \in [Job -> Nat]
  <2>1. position' \in [Job -> Nat]
    BY WithoutType DEF Reserve
  <2>2. Persisted(Queued \ {j}, position') \in [Job -> Nat]
    BY <2>1, PersistedType DEF TypeOK, DiskTypes
  <2>3. [Persisted(Queued \ {j}, position') EXCEPT ![j] = 0] \in [Job -> Nat]
    BY <2>2
  <2>4. CASE savedPos' = savedPos
    BY <2>1, <2>4 DEF TypeOK, DiskTypes
  <2>5. CASE savedPos' = [Persisted(Queued \ {j}, position') EXCEPT ![j] = 0]
    BY <2>1, <2>3, <2>5
  <2> QED
    BY <2>4, <2>5 DEF Reserve
<1>2. faults' \in Nat
  BY FaultType DEF Reserve
<1>3. status' \in [Job -> {"none", "queued", "running"} \cup Terminal]
  BY DEF Reserve, TypeOK, QueueTypes
<1> QED
  BY <1>1, <1>2, <1>3 DEF Reserve, TypeOK, DiskTypes, QueueTypes, ChildTypes

-----------------------------------------------------------------------------
LEMMA InitTypes == Init => TypeOK
<1> SUFFICES ASSUME Init PROVE TypeOK
  OBVIOUS
<1>1. DiskTypes
  BY DEF Init, DiskTypes
<1>2. OutboxTypes
  BY DEF Init, OutboxTypes
<1>3. QueueTypes
  BY DEF Init, QueueTypes
<1>4. ChildTypes
  BY DEF Init, ChildTypes
<1>5. HandlerTypes
  BY DEF Init, HandlerTypes
<1>6. HistoryTypes
  BY DEF Init, HistoryTypes
<1> QED
  BY <1>1, <1>2, <1>3, <1>4, <1>5, <1>6 DEF TypeOK

LEMMA EnqueueTypes ==
  ASSUME TypeOK, NEW j \in Job, Enqueue(j)
  PROVE  TypeOK'
BY InsertedType, PersistedType
   DEF Enqueue, TypeOK, DiskTypes, OutboxTypes, QueueTypes, ChildTypes,
       HandlerTypes, HistoryTypes

LEMMA ForgetTypes ==
  ASSUME TypeOK, NEW j \in Job, Forget(j)
  PROVE  TypeOK'
BY DEF Forget, Terminal, TypeOK, DiskTypes, OutboxTypes, QueueTypes, ChildTypes,
       HandlerTypes, HistoryTypes

LEMMA CancelBeforeSpawnTypes ==
  ASSUME TypeOK, NEW j \in Job, CancelBeforeSpawn(j)
  PROVE  TypeOK'
<1> DEFINE skipped == Descendants(j, Queued \ {j})
<1>a. skipped \subseteq Job
  BY DescendantsType DEF Queued
<1>b. position' \in [Job -> Nat] /\ savedPos' \in [Job -> Nat]
  BY WithoutType, PersistedType DEF CancelBeforeSpawn, TypeOK, DiskTypes
<1> HIDE DEF skipped
<1>1. DiskTypes'
  BY <1>b DEF CancelBeforeSpawn, TypeOK, DiskTypes, Terminal
<1>2. OutboxTypes'
  BY <1>a DEF CancelBeforeSpawn, skipped, TypeOK, OutboxTypes
<1>3. QueueTypes'
  BY <1>b DEF CancelBeforeSpawn, TypeOK, QueueTypes, Terminal
<1>4. ChildTypes'
  BY DEF CancelBeforeSpawn, TypeOK, ChildTypes
<1>5. HandlerTypes'
  BY <1>2, ReplayType DEF CancelBeforeSpawn, OutboxTypes, TypeOK, HandlerTypes
<1>6. HistoryTypes'
  BY DEF CancelBeforeSpawn, TypeOK, HistoryTypes
<1> QED
  BY <1>1, <1>2, <1>3, <1>4, <1>5, <1>6 DEF TypeOK

LEMMA CancelRunningTypes ==
  ASSUME TypeOK, NEW j \in Job, CancelRunning(j)
  PROVE  TypeOK'
BY DEF CancelRunning, Kill, TypeOK, DiskTypes, OutboxTypes, QueueTypes, ChildTypes,
       HandlerTypes, HistoryTypes

LEMMA UpdatePriorityTypes ==
  ASSUME TypeOK, NEW j \in Job, NEW w \in Priorities, UpdatePriority(j, w)
  PROVE  TypeOK'
BY InsertedType, PersistedType
   DEF UpdatePriority, TypeOK, DiskTypes, OutboxTypes, QueueTypes, ChildTypes,
       HandlerTypes, HistoryTypes

LEMMA ReorderTypes ==
  ASSUME TypeOK, NEW p \in [Job -> 0 .. Cardinality(Job)], Reorder(p)
  PROVE  TypeOK'
BY PersistedType DEF Reorder, TypeOK, DiskTypes, OutboxTypes, QueueTypes, ChildTypes,
       HandlerTypes, HistoryTypes

LEMMA PauseTypes ==
  ASSUME TypeOK, Pause
  PROVE  TypeOK'
<1>a. faults' \in Nat
  BY FaultType DEF Pause
<1>1. DiskTypes'
  BY DEF Pause, TypeOK, DiskTypes, Terminal
<1>2. OutboxTypes'
  BY DEF Pause, TypeOK, OutboxTypes
<1>3. QueueTypes'
  BY DEF Pause, TypeOK, QueueTypes, Terminal
<1>4. ChildTypes'
  BY DEF Pause, TypeOK, ChildTypes
<1>5. HandlerTypes'
  BY DEF Pause, TypeOK, HandlerTypes
<1>6. HistoryTypes'
  BY <1>a DEF Pause, TypeOK, HistoryTypes
<1> QED
  BY <1>1, <1>2, <1>3, <1>4, <1>5, <1>6 DEF TypeOK

LEMMA ResumeTypes ==
  ASSUME TypeOK, Resume
  PROVE  TypeOK'
<1> DEFINE Retries ==
      \E ok \in SUBSET Reconcilable(lateClosed) :
        \E spend \in SUBSET ok : Reconcile(ok, spend)
<1>a. Retries \/ UNCHANGED <<outboxVars, ledger, lateVars>>
  BY DEF Resume
<1>b. /\ OutboxTypes'
      /\ ledger' \in [Job -> Nat]
      /\ forceFailed' \subseteq Job /\ lateClosed' \subseteq Job
  BY <1>a, ReconcileType DEF TypeOK, DiskTypes, OutboxTypes, ChildTypes
<1>1. DiskTypes'
  BY <1>b, FailStopType DEF Resume, Keep, TypeOK, DiskTypes, Terminal
<1>2. OutboxTypes'
  BY <1>b DEF Resume, TypeOK, OutboxTypes
<1>3. QueueTypes'
  BY FailStopType DEF Resume, Keep, Reconcile, TypeOK, QueueTypes, Terminal
<1>4. ChildTypes'
  BY <1>b DEF Resume, TypeOK, ChildTypes
<1>5. HandlerTypes'
  BY <1>b, ReplayType DEF Resume, Stay, OutboxTypes, TypeOK, HandlerTypes
<1>6. HistoryTypes'
  BY FaultType DEF Resume, TypeOK, HistoryTypes
<1> QED
  BY <1>1, <1>2, <1>3, <1>4, <1>5, <1>6 DEF TypeOK

LEMMA ShutdownTypes ==
  ASSUME TypeOK, Shutdown
  PROVE  TypeOK'
<1>a. PICK aborted \in {Running, {}}, late \in SUBSET Reconcilable(forceFailed) :
        /\ Healthy \/ Fault
        /\ Keep \/ FailStop
        /\ \E spend \in SUBSET late : Flushed(aborted, late, spend)
        /\ Replay(IF aborted = Running THEN "flush" ELSE "unclosed")
  BY DEF Shutdown
<1>b. aborted \subseteq Job /\ late \subseteq Job
  BY DEF Running, Reconcilable, TypeOK, ChildTypes
<1>c. paused' \in BOOLEAN /\ savedPaused' \in BOOLEAN
  BY <1>a, FailStopType DEF Keep, TypeOK, DiskTypes, QueueTypes
<1>1. DiskTypes'
  BY <1>a, <1>b, <1>c, FlushedType DEF Shutdown, TypeOK, DiskTypes, Terminal
<1>2. OutboxTypes'
  BY <1>a, <1>b, FlushedType DEF Shutdown, TypeOK, OutboxTypes
<1>3. QueueTypes'
  BY <1>a, <1>b, <1>c, FlushedType DEF Shutdown, TypeOK, QueueTypes, Terminal
<1>4. ChildTypes'
  BY <1>a, <1>b, FlushedType DEF Shutdown, TypeOK, ChildTypes
<1>5. HandlerTypes'
  BY <1>2, <1>a, ReplayType DEF Shutdown, OutboxTypes, TypeOK, HandlerTypes
<1>6. HistoryTypes'
  BY <1>a, FaultType DEF Shutdown, TypeOK, HistoryTypes
<1> QED
  BY <1>1, <1>2, <1>3, <1>4, <1>5, <1>6 DEF TypeOK

LEMMA DrainTypes ==
  ASSUME TypeOK, Drain
  PROVE  TypeOK'
<1>1. DiskTypes'
  BY ReserveType DEF Drain, TypeOK, DiskTypes, Terminal
<1>2. OutboxTypes'
  BY DEF Drain, TypeOK, OutboxTypes
<1>3. QueueTypes'
  BY ReserveType DEF Drain, TypeOK, QueueTypes, Terminal
<1>4. ChildTypes'
  BY ReserveType DEF Drain, TypeOK, ChildTypes
<1>5. HandlerTypes'
  BY DEF Drain, TypeOK, HandlerTypes
<1>6. HistoryTypes'
  BY ReserveType DEF Drain, TypeOK, HistoryTypes
<1> QED
  BY <1>1, <1>2, <1>3, <1>4, <1>5, <1>6 DEF TypeOK

LEMMA SpawnTypes ==
  ASSUME TypeOK, NEW j \in Job, Spawn(j)
  PROVE  TypeOK'
BY DEF Spawn, TypeOK, DiskTypes, OutboxTypes, QueueTypes, ChildTypes,
       HandlerTypes, HistoryTypes

LEMMA AbandonStartTypes ==
  ASSUME TypeOK, NEW j \in Job, AbandonStart(j)
  PROVE  TypeOK'
BY DEF AbandonStart, TypeOK, DiskTypes, OutboxTypes, QueueTypes, ChildTypes,
       HandlerTypes, HistoryTypes

LEMMA WedgeFailedTypes ==
  ASSUME TypeOK, NEW j \in Job, WedgeFailed(j)
  PROVE  TypeOK'
<1>a. "failed" \in Terminal
  BY DEF Terminal
<1>1. DiskTypes'
  BY <1>a, StageType DEF WedgeFailed, TypeOK, DiskTypes, Terminal
<1>2. OutboxTypes'
  BY <1>a, StageType DEF WedgeFailed, TypeOK, OutboxTypes
<1>3. QueueTypes'
  BY DEF WedgeFailed, TypeOK, QueueTypes, Terminal
<1>4. ChildTypes'
  BY DEF WedgeFailed, TypeOK, ChildTypes
<1>5. HandlerTypes'
  BY <1>2, ReplayType DEF WedgeFailed, OutboxTypes, TypeOK, HandlerTypes
<1>6. HistoryTypes'
  BY DEF WedgeFailed, TypeOK, HistoryTypes
<1> QED
  BY <1>1, <1>2, <1>3, <1>4, <1>5, <1>6 DEF TypeOK

LEMMA WedgeUnsettledTypes ==
  ASSUME TypeOK, NEW j \in Job, WedgeUnsettled(j)
  PROVE  TypeOK'
<1>a. position' \in [Job -> Nat] /\ savedPos' \in [Job -> Nat]
  BY UnshiftedType, PersistedType DEF WedgeUnsettled, TypeOK, DiskTypes, QueueTypes
<1>1. DiskTypes'
  BY <1>a, FailStopType DEF WedgeUnsettled, TypeOK, DiskTypes, Terminal
<1>2. OutboxTypes'
  BY DEF WedgeUnsettled, TypeOK, OutboxTypes
<1>3. QueueTypes'
  BY <1>a, FailStopType DEF WedgeUnsettled, TypeOK, QueueTypes, Terminal
<1>4. ChildTypes'
  BY DEF WedgeUnsettled, TypeOK, ChildTypes
<1>5. HandlerTypes'
  BY DEF WedgeUnsettled, TypeOK, HandlerTypes
<1>6. HistoryTypes'
  BY FaultType DEF WedgeUnsettled, TypeOK, HistoryTypes
<1> QED
  BY <1>1, <1>2, <1>3, <1>4, <1>5, <1>6 DEF TypeOK

LEMMA ExitDisposedTypes ==
  ASSUME TypeOK, NEW j \in Job, ExitDisposed(j)
  PROVE  TypeOK'
BY DEF ExitDisposed, ReleaseTimer, TypeOK, DiskTypes, OutboxTypes, QueueTypes,
       ChildTypes,
       HandlerTypes, HistoryTypes

LEMMA LateExitTypes ==
  ASSUME TypeOK, NEW j \in Job, LateExit(j)
  PROVE  TypeOK'
<1>a. \/ \E spend \in SUBSET {j} : Reconcile({j}, spend)
      \/ UNCHANGED <<outboxVars, ledger, forceFailed>>
         /\ blocked' = blocked \cup {j} /\ lateClosed' = lateClosed \cup {j}
  BY DEF LateExit
<1>b. /\ OutboxTypes'
      /\ ledger' \in [Job -> Nat]
      /\ forceFailed' \subseteq Job /\ lateClosed' \subseteq Job
      /\ blocked' \subseteq Job
  BY <1>a, ReconcileType
     DEF TypeOK, DiskTypes, OutboxTypes, ChildTypes, QueueTypes
<1>1. DiskTypes'
  BY <1>b, FailStopType DEF LateExit, TypeOK, DiskTypes, Terminal
<1>2. OutboxTypes'
  BY <1>b DEF LateExit, TypeOK, OutboxTypes
<1>3. QueueTypes'
  BY <1>b, FailStopType DEF LateExit, TypeOK, QueueTypes, Terminal
<1>4. ChildTypes'
  BY <1>b DEF LateExit, TypeOK, ChildTypes
<1>5. HandlerTypes'
  BY <1>b, ReplayType DEF LateExit, Stay, OutboxTypes, TypeOK, HandlerTypes
<1>6. HistoryTypes'
  BY FaultType DEF LateExit, TypeOK, HistoryTypes
<1> QED
  BY <1>1, <1>2, <1>3, <1>4, <1>5, <1>6 DEF TypeOK

LEMMA ChildExitTypes ==
  ASSUME TypeOK, NEW j \in Job, ChildExit(j)
  PROVE  TypeOK'
<1>a. /\ row' \in [Job -> {"none", "running"} \cup Terminal]
      /\ saved' \subseteq Job /\ forgotten' \subseteq Job
      /\ savedPos' \in [Job -> Nat] /\ priority' \in [Job -> Priorities]
      /\ OutboxTypes'
  <2>1. CASE \E st \in Outcomes(j) : Stage({j}, st, FALSE)
    <3>1. Outcomes(j) \subseteq Terminal
      BY DEF Outcomes, Terminal
    <3> QED
      BY <2>1, <3>1, StageType
  <2>2. CASE Unstaged
    BY <2>2 DEF Unstaged, TypeOK, DiskTypes, OutboxTypes
  <2> QED
    BY <2>1, <2>2 DEF ChildExit
<1>1. DiskTypes'
  BY <1>a, FailStopType DEF ChildExit, TypeOK, DiskTypes, Terminal
<1>2. OutboxTypes'
  BY <1>a DEF ChildExit, TypeOK, OutboxTypes
<1>3. QueueTypes'
  BY FailStopType DEF ChildExit, Outcomes, TypeOK, QueueTypes, Terminal
<1>4. ChildTypes'
  BY DEF ChildExit, ReleaseTimer, TypeOK, ChildTypes
<1>5. HandlerTypes'
  BY <1>a, ReplayType DEF ChildExit, Stay, OutboxTypes, TypeOK, HandlerTypes
<1>6. HistoryTypes'
  BY FaultType DEF ChildExit, TypeOK, HistoryTypes
<1> QED
  BY <1>1, <1>2, <1>3, <1>4, <1>5, <1>6 DEF TypeOK

LEMMA PersistEventFailsTypes ==
  ASSUME TypeOK, NEW j \in Job, PersistEventFails(j)
  PROVE  TypeOK'
<1>1. DiskTypes'
  BY FailStopType DEF PersistEventFails, TypeOK, DiskTypes, Terminal
<1>2. OutboxTypes'
  BY DEF PersistEventFails, TypeOK, OutboxTypes
<1>3. QueueTypes'
  BY FailStopType DEF PersistEventFails, TypeOK, QueueTypes, Terminal
<1>4. ChildTypes'
  BY DEF PersistEventFails, Kill, TypeOK, ChildTypes
<1>5. HandlerTypes'
  BY DEF PersistEventFails, TypeOK, HandlerTypes
<1>6. HistoryTypes'
  BY FaultType DEF PersistEventFails, TypeOK, HistoryTypes
<1> QED
  BY <1>1, <1>2, <1>3, <1>4, <1>5, <1>6 DEF TypeOK

LEMMA ZombieTimeoutTypes ==
  ASSUME TypeOK, NEW j \in Job, ZombieTimeout(j)
  PROVE  TypeOK'
BY DEF ZombieTimeout, Kill, TypeOK, DiskTypes, OutboxTypes, QueueTypes, ChildTypes,
       HandlerTypes, HistoryTypes

LEMMA SigkillAnsweredTypes ==
  ASSUME TypeOK, NEW j \in Job, SigkillAnswered(j)
  PROVE  TypeOK'
BY DEF SigkillAnswered, TypeOK, DiskTypes, OutboxTypes, QueueTypes, ChildTypes,
       HandlerTypes, HistoryTypes

LEMMA ForceFailTypes ==
  ASSUME TypeOK, NEW j \in Job, ForceFail(j)
  PROVE  TypeOK'
<1>a. /\ row' \in [Job -> {"none", "running"} \cup Terminal]
      /\ saved' \subseteq Job /\ forgotten' \subseteq Job
      /\ savedPos' \in [Job -> Nat] /\ priority' \in [Job -> Priorities]
      /\ OutboxTypes'
  <2>1. Stage({j}, "failed", TRUE) \/ Unstaged
    BY DEF ForceFail
  <2>2. CASE Stage({j}, "failed", TRUE)
    BY <2>2, StageType DEF Terminal
  <2>3. CASE Unstaged
    BY <2>3 DEF Unstaged, TypeOK, DiskTypes, OutboxTypes
  <2> QED
    BY <2>1, <2>2, <2>3
<1>1. DiskTypes'
  BY <1>a, FailStopType DEF ForceFail, TypeOK, DiskTypes, Terminal
<1>2. OutboxTypes'
  BY <1>a DEF ForceFail, TypeOK, OutboxTypes
<1>3. QueueTypes'
  BY FailStopType DEF ForceFail, TypeOK, QueueTypes, Terminal
<1>4. ChildTypes'
  BY DEF ForceFail, TypeOK, ChildTypes
<1>5. HandlerTypes'
  BY <1>a, ReplayType DEF ForceFail, Stay, OutboxTypes, TypeOK, HandlerTypes
<1>6. HistoryTypes'
  BY FaultType DEF ForceFail, TypeOK, HistoryTypes
<1> QED
  BY <1>1, <1>2, <1>3, <1>4, <1>5, <1>6 DEF TypeOK

LEMMA KillTimerFiresTypes ==
  ASSUME TypeOK, KillTimerFires
  PROVE  TypeOK'
BY DEF KillTimerFires, TypeOK, DiskTypes, OutboxTypes, QueueTypes, ChildTypes,
       HandlerTypes, HistoryTypes

LEMMA CaptureTypes ==
  ASSUME TypeOK, Capture
  PROVE  TypeOK'
<1>a. /\ row' \in [Job -> {"none", "running"} \cup Terminal]
      /\ ledger' \in [Job -> Nat]
      /\ OutboxTypes'
  <2>1. CASE \E reaccount \in SUBSET held : Captured(reaccount)
    <3>1. held \subseteq Job
      BY DEF TypeOK, OutboxTypes
    <3> QED
      BY <2>1, <3>1, CapturedType
  <2>2. CASE UNCHANGED <<outboxVars, row, ledger>>
    BY <2>2 DEF TypeOK, DiskTypes, OutboxTypes
  <2> QED
    BY <2>1, <2>2 DEF Capture
<1>b. status' \in [Job -> {"none", "queued", "running"} \cup Terminal]
      /\ position' \in [Job -> Nat]
  BY RestoredType DEF Capture, TypeOK, DiskTypes, QueueTypes
<1>1. DiskTypes'
  BY <1>a, FailStopType DEF Capture, TypeOK, DiskTypes, Terminal
<1>2. OutboxTypes'
  BY <1>a DEF Capture, TypeOK, OutboxTypes
<1>3. QueueTypes'
  BY <1>b, FailStopType DEF Capture, TypeOK, QueueTypes, Terminal
<1>4. ChildTypes'
  BY DEF Capture, TypeOK, ChildTypes
<1>5. HandlerTypes'
  BY <1>a, ReplayType DEF Capture, TypeOK, OutboxTypes, HandlerTypes
<1>6. HistoryTypes'
  BY FaultType DEF Capture, TypeOK, HistoryTypes
<1> QED
  BY <1>1, <1>2, <1>3, <1>4, <1>5, <1>6 DEF TypeOK

LEMMA AfterReplayTypes ==
  ASSUME TypeOK, AfterReplay
  PROVE  TypeOK'
<1>a. Healthy \/ Fault
  BY DEF AfterReplay, Resumed
<1>1. DiskTypes'
  BY DEF AfterReplay, Resumed, FailedStop, FailStop, Exited, StartedUp, Keep,
         TypeOK, DiskTypes, Terminal
<1>2. OutboxTypes'
  BY DEF AfterReplay, TypeOK, OutboxTypes
<1>3. QueueTypes'
  BY DEF AfterReplay, Resumed, FailedStop, FailStop, Exited, StartedUp, Keep,
         Closed, TypeOK, QueueTypes, Terminal
<1>4. ChildTypes'
  BY DEF AfterReplay, TypeOK, ChildTypes
<1>5. HandlerTypes'
  BY DEF AfterReplay, Resumed, FailedStop, Exited, StartedUp, Closed, TypeOK,
         HandlerTypes
<1>6. HistoryTypes'
  BY <1>a, FaultType DEF AfterReplay, TypeOK, HistoryTypes
<1> QED
  BY <1>1, <1>2, <1>3, <1>4, <1>5, <1>6 DEF TypeOK

LEMMA ReplayRowTypes ==
  ASSUME TypeOK, NEW j \in Job, ReplayRow(j)
  PROVE  TypeOK'
<1>a. /\ row' \in [Job -> {"none", "running"} \cup Terminal]
      /\ status' \in [Job -> {"none", "queued", "running"} \cup Terminal]
      /\ saved' \subseteq Job
      /\ position' \in [Job -> Nat] /\ savedPos' \in [Job -> Nat]
  BY SkipDescendantsType DEF ReplayRow, TypeOK, DiskTypes, QueueTypes
<1>1. DiskTypes'
  BY <1>a DEF ReplayRow, TypeOK, DiskTypes, Terminal
<1>2. OutboxTypes'
  BY DEF ReplayRow, TypeOK, OutboxTypes
<1>3. QueueTypes'
  BY <1>a DEF ReplayRow, TypeOK, QueueTypes, Terminal
<1>4. ChildTypes'
  BY DEF ReplayRow, TypeOK, ChildTypes
<1>5. HandlerTypes'
  BY DEF ReplayRow, TypeOK, HandlerTypes
<1>6. HistoryTypes'
  BY FaultType DEF ReplayRow, OutboxTypes, TypeOK, HistoryTypes
<1> QED
  BY <1>1, <1>2, <1>3, <1>4, <1>5, <1>6 DEF TypeOK

LEMMA CrashTypes ==
  ASSUME TypeOK, Crash
  PROVE  TypeOK'
<1>1. DiskTypes'
  BY DEF Crash, TypeOK, DiskTypes, Terminal
<1>2. OutboxTypes'
  BY DEF Crash, TypeOK, OutboxTypes
<1>3. QueueTypes'
  BY DEF Crash, TypeOK, QueueTypes, Terminal
<1>4. ChildTypes'
  BY DEF Crash, TypeOK, ChildTypes
<1>5. HandlerTypes'
  BY DEF Crash, TypeOK, HandlerTypes
<1>6. HistoryTypes'
  BY DEF Crash, TypeOK, HistoryTypes
<1> QED
  BY <1>1, <1>2, <1>3, <1>4, <1>5, <1>6 DEF TypeOK

LEMMA RestartTypes ==
  ASSUME TypeOK, Restart
  PROVE  TypeOK'
BY DEF Restart, TypeOK, DiskTypes, OutboxTypes, QueueTypes, ChildTypes,
       HandlerTypes, HistoryTypes

(* Every step keeps the types.                                             *)
LEMMA NextTypes ==
  ASSUME TypeOK, [Next]_vars
  PROVE  TypeOK'
<1>1. CASE UNCHANGED vars
  BY <1>1 DEF TypeOK, DiskTypes, OutboxTypes, QueueTypes, ChildTypes,
              HandlerTypes, HistoryTypes
<1>2. ASSUME NEW j \in Job, Enqueue(j) PROVE TypeOK'
  BY <1>2, EnqueueTypes
<1>3. ASSUME NEW j \in Job, Forget(j) PROVE TypeOK'
  BY <1>3, ForgetTypes
<1>4. ASSUME NEW j \in Job, CancelBeforeSpawn(j) PROVE TypeOK'
  BY <1>4, CancelBeforeSpawnTypes
<1>5. ASSUME NEW j \in Job, CancelRunning(j) PROVE TypeOK'
  BY <1>5, CancelRunningTypes
<1>6. ASSUME NEW j \in Job, NEW w \in Priorities, UpdatePriority(j, w) PROVE TypeOK'
  BY <1>6, UpdatePriorityTypes
<1>7. ASSUME NEW p \in [Job -> 0 .. Cardinality(Job)], Reorder(p) PROVE TypeOK'
  BY <1>7, ReorderTypes
<1>8. CASE Pause
  BY <1>8, PauseTypes
<1>9. CASE Resume
  BY <1>9, ResumeTypes
<1>10. CASE Shutdown
  BY <1>10, ShutdownTypes
<1>11. CASE Drain
  BY <1>11, DrainTypes
<1>12. ASSUME NEW j \in Job, Spawn(j) PROVE TypeOK'
  BY <1>12, SpawnTypes
<1>13. ASSUME NEW j \in Job, AbandonStart(j) PROVE TypeOK'
  BY <1>13, AbandonStartTypes
<1>14. ASSUME NEW j \in Job, WedgeFailed(j) PROVE TypeOK'
  BY <1>14, WedgeFailedTypes
<1>15. ASSUME NEW j \in Job, WedgeUnsettled(j) PROVE TypeOK'
  BY <1>15, WedgeUnsettledTypes
<1>16. ASSUME NEW j \in Job, ExitDisposed(j) PROVE TypeOK'
  BY <1>16, ExitDisposedTypes
<1>17. ASSUME NEW j \in Job, LateExit(j) PROVE TypeOK'
  BY <1>17, LateExitTypes
<1>18. ASSUME NEW j \in Job, ChildExit(j) PROVE TypeOK'
  BY <1>18, ChildExitTypes
<1>19. ASSUME NEW j \in Job, PersistEventFails(j) PROVE TypeOK'
  BY <1>19, PersistEventFailsTypes
<1>20. ASSUME NEW j \in Job, ZombieTimeout(j) PROVE TypeOK'
  BY <1>20, ZombieTimeoutTypes
<1>21. ASSUME NEW j \in Job, SigkillAnswered(j) PROVE TypeOK'
  BY <1>21, SigkillAnsweredTypes
<1>22. ASSUME NEW j \in Job, ForceFail(j) PROVE TypeOK'
  BY <1>22, ForceFailTypes
<1>23. CASE KillTimerFires
  BY <1>23, KillTimerFiresTypes
<1>24. CASE Capture
  BY <1>24, CaptureTypes
<1>25. CASE AfterReplay
  BY <1>25, AfterReplayTypes
<1>26. ASSUME NEW j \in Job, ReplayRow(j) PROVE TypeOK'
  BY <1>26, ReplayRowTypes
<1>27. CASE Crash
  BY <1>27, CrashTypes
<1>28. CASE Restart
  BY <1>28, RestartTypes
<1> QED
  BY <1>1, <1>2, <1>3, <1>4, <1>5, <1>6, <1>7, <1>8, <1>9, <1>10, <1>11, <1>12,
     <1>13, <1>14, <1>15, <1>16, <1>17, <1>18, <1>19, <1>20, <1>21, <1>22, <1>23,
     <1>24, <1>25, <1>26, <1>27, <1>28 DEF Next

(* Every reachable state is well typed: rows and jobs have the statuses    *)
(* the code gives them, and the kill timer, the SIGKILL callbacks and the  *)
(* slot always name a real job (_kill, _onJobExit, _drainQueue).           *)
THEOREM TypeCorrect == Spec => []TypeOK
<1>1. Init => TypeOK
  BY InitTypes
<1>2. TypeOK /\ [Next]_vars => TypeOK'
  BY NextTypes
<1> QED
  BY <1>1, <1>2, PTL DEF Spec

-----------------------------------------------------------------------------
(* One durable place, one spawn, one slot.                                 *)

(* The manager knows no job that was not acknowledged.                     *)
KnownJobs ==
  /\ \A j \in Job : status[j] # "none" => j \in admitted
  /\ starting \subseteq admitted /\ child \subseteq admitted
  /\ active # NoJob => active \in admitted

SpawnInv ==
  /\ SpawnedOnce
  /\ \A j \in Job :
       j \notin admitted \/ j \in saved \/ status[j] = "queued" \/ j \in starting =>
         spawns[j] = 0
  /\ \A j \in child : spawns[j] > 0
  /\ active # NoJob => status[active] # "queued"

Unrestored == mode = "down" \/ (mode = "up" /\ (restoreBlocked \/ pc = "capture"))

Blank ==
  /\ Unrestored => /\ active = NoJob /\ child = {} /\ lateClosed = {}
                   /\ \A j \in Job : status[j] = "none"
  /\ then = "flush" => mode # "up"

SlotInv ==
  /\ OneChild
  /\ mode = "up" => \A j \in lateClosed : j \notin child /\ spawns[j] > 0

Safe == AdmittedOnce /\ KnownJobs /\ SpawnInv /\ Blank /\ SlotInv

IInv == TypeOK /\ Safe

LEMMA InitSafe == Init => Safe
BY DEF Init, Safe, AdmittedOnce, KnownJobs, SpawnInv, SpawnedOnce, Blank,
       Unrestored, SlotInv, OneChild

LEMMA JobNotNull ==
  ASSUME NEW j \in Job PROVE j # NoJob
BY JobAssumption
-----------------------------------------------------------------------------
(* Steps that leave jobs where they are.                                   *)
LEMMA UnchangedSafe ==
  ASSUME Safe,
         UNCHANGED <<row, saved, admitted, spawns, status, active, mode>>,
         UNCHANGED <<starting, child, forceFailed, lateClosed, restoreBlocked>>,
         UNCHANGED <<pc, then>>
  PROVE  Safe'
BY DEF Safe, AdmittedOnce, KnownJobs, SpawnInv, SpawnedOnce, Blank, Unrestored,
       SlotInv, OneChild

(* The jobs of S leave the durable queue for a jobs row.                   *)
LEMMA SettledAdmitted ==
  ASSUME AdmittedOnce, NEW S \in SUBSET admitted,
         admitted' = admitted, saved' = saved \ S,
         \A j \in Job : row'[j] = "none" <=> row[j] = "none" /\ j \notin S,
         admitted \subseteq Job
  PROVE  AdmittedOnce'
BY DEF AdmittedOnce

(* Steps that start nothing, queue nothing and take no slot.               *)
Shrinks ==
  /\ admitted' = admitted /\ spawns' = spawns
  /\ saved' \subseteq saved /\ starting' \subseteq starting /\ child' \subseteq child
  /\ active' \in {active, NoJob}
  /\ \A j \in Job : /\ status'[j] \in {"queued", "running"} => status'[j] = status[j]
                    /\ status'[j] # "none" => j \in admitted

LEMMA ShrinksKnown ==
  ASSUME IInv, Shrinks PROVE KnownJobs'
BY DEF IInv, Safe, TypeOK, QueueTypes, KnownJobs, Shrinks

LEMMA ShrinksSpawn ==
  ASSUME IInv, Shrinks PROVE SpawnInv'
BY DEF IInv, Safe, TypeOK, QueueTypes, SpawnInv, SpawnedOnce, Shrinks

LEMMA ShrinksBlank ==
  ASSUME IInv, Shrinks,
         Unrestored' => /\ Unrestored /\ lateClosed' \subseteq lateClosed
                        /\ \A j \in Job : status[j] = "none" => status'[j] = "none",
         then' = "flush" => mode' # "up"
  PROVE  Blank'
BY DEF IInv, Safe, Blank, Shrinks

LEMMA ShrinksSlot ==
  ASSUME IInv, Shrinks,
         mode' = "up" =>
           /\ mode = "up"
           /\ child' \ forceFailed' \subseteq child \ forceFailed
           /\ \A j \in lateClosed' : j \in lateClosed \/ j \in child \ child'
           /\ \/ active' = active
              \/ /\ child' \subseteq forceFailed'
                 /\ \A j \in Job : status'[j] # "running"
  PROVE  SlotInv'
<1> SUFFICES ASSUME mode' = "up"
             PROVE  /\ OneChild'
                    /\ \A j \in lateClosed' : j \notin child' /\ spawns'[j] > 0
  BY DEF SlotInv, OneChild
<1>1. \A j \in lateClosed' : j \notin child' /\ spawns'[j] > 0
  BY DEF IInv, Safe, SlotInv, SpawnInv, Shrinks
<1>2. OneChild'
  BY DEF IInv, Safe, SlotInv, OneChild, Shrinks
<1> QED
  BY <1>1, <1>2
-----------------------------------------------------------------------------
LEMMA EnqueueSafe ==
  ASSUME IInv, NEW j \in Job, Enqueue(j)
  PROVE  Safe'
<1>1. j \notin admitted /\ row[j] = "none" /\ status[j] = "none" /\ j # active
  BY JobNotNull DEF Enqueue, IInv, Safe, AdmittedOnce, KnownJobs
<1>2. /\ UNCHANGED <<row, active, mode, restoreBlocked, then, child, starting>>
      /\ UNCHANGED <<forceFailed, lateClosed, spawns>>
      /\ admitted' = admitted \cup {j} /\ saved' = saved \cup {j}
      /\ status' = [status EXCEPT ![j] = "queued"]
      /\ mode = "up" /\ ~restoreBlocked /\ pc' = "drain"
  BY DEF Enqueue, Idle
<1>3. AdmittedOnce'
  BY <1>1, <1>2 DEF IInv, Safe, AdmittedOnce, TypeOK, DiskTypes
<1>4. KnownJobs'
  BY <1>1, <1>2 DEF IInv, Safe, KnownJobs, TypeOK, QueueTypes
<1>5. SpawnInv'
  BY <1>1, <1>2 DEF IInv, Safe, KnownJobs, SpawnInv, SpawnedOnce, TypeOK,
                    QueueTypes
<1>6. Blank'
  BY <1>2 DEF IInv, Safe, Blank, Unrestored, Idle
<1>7. SlotInv'
  BY <1>1, <1>2 DEF IInv, Safe, SlotInv, OneChild, TypeOK, QueueTypes
<1> QED
  BY <1>3, <1>4, <1>5, <1>6, <1>7 DEF Safe

LEMMA CancelBeforeSpawnSafe ==
  ASSUME IInv, NEW j \in Job, CancelBeforeSpawn(j)
  PROVE  Safe'
<1> DEFINE skipped == Descendants(j, Queued \ {j})
           gone == skipped \cup {j}
<1>1. skipped \subseteq Queued \ {j}
  BY DescendantsType
<1>2. gone \subseteq admitted /\ gone \subseteq Job
  BY <1>1 DEF CancelBeforeSpawn, Preparing, Queued, IInv, Safe, KnownJobs
<1>3. /\ row' = [k \in Job |-> IF k = j THEN "canceled"
                               ELSE IF k \in skipped THEN "skipped" ELSE row[k]]
      /\ status' = [k \in Job |-> IF k = j THEN "canceled"
                                  ELSE IF k \in skipped THEN "skipped" ELSE status[k]]
      /\ saved' = saved \ gone
      /\ active' = IF active = j THEN NoJob ELSE active
      /\ UNCHANGED <<mode, restoreBlocked, starting, child, forceFailed>>
      /\ UNCHANGED <<lateClosed, admitted, spawns>>
      /\ mode = "up" /\ pc' = "replay" /\ then' = "settle"
      /\ status[j] = "queued" \/ Preparing(j)
  BY DEF CancelBeforeSpawn, Replay, Idle
<1> HIDE DEF skipped
<1>4. AdmittedOnce'
  <2>1. \A k \in Job : row'[k] = "none" <=> row[k] = "none" /\ k \notin gone
    BY <1>3
  <2> QED
    BY <1>2, <1>3, <2>1, SettledAdmitted DEF IInv, Safe, TypeOK, HistoryTypes
<1>5. Shrinks
  BY <1>1, <1>3 DEF Shrinks, Queued, Preparing, IInv, Safe, KnownJobs
<1>6. Blank'
  BY <1>1, <1>3, <1>5, ShrinksBlank DEF Unrestored, Queued, Preparing
<1>7. active = j => /\ child \subseteq forceFailed
                    /\ \A k \in Job : status'[k] # "running"
  BY <1>3, JobNotNull
     DEF IInv, Safe, SlotInv, OneChild, SpawnInv, Preparing, TypeOK, ChildTypes
<1>8. SlotInv'
  BY <1>3, <1>5, <1>7, ShrinksSlot
<1> QED
  BY <1>4, <1>5, <1>6, <1>8, ShrinksKnown, ShrinksSpawn DEF Safe

LEMMA ResumeSafe ==
  ASSUME IInv, Resume
  PROVE  Safe'
<1>1. /\ UNCHANGED <<row, saved, admitted, spawns, status, active, mode>>
      /\ UNCHANGED <<starting, child, restoreBlocked>>
      /\ then' \in {"resume", "late", then}
      /\ mode = "up" /\ (pc' = "capture" => restoreBlocked \/ pc = "capture")
  BY DEF Resume, Idle, Replay, Stay
<1>2. /\ lateClosed' \subseteq lateClosed
      /\ \A j \in forceFailed \ forceFailed' : j \in lateClosed
  BY DEF Resume, Reconcile, Reconcilable
<1>3. Shrinks
  BY <1>1 DEF Shrinks, IInv, Safe, KnownJobs
<1>4. AdmittedOnce'
  BY <1>1 DEF IInv, Safe, AdmittedOnce
<1>5. Blank'
  BY <1>1, <1>2, <1>3, ShrinksBlank DEF Unrestored, IInv, Safe, Blank
<1>6. SlotInv'
  <2>1. child' \ forceFailed' \subseteq child \ forceFailed
    BY <1>1, <1>2 DEF IInv, Safe, SlotInv
  <2> QED
    BY <1>1, <1>2, <1>3, <2>1, ShrinksSlot
<1> QED
  BY <1>3, <1>4, <1>5, <1>6, ShrinksKnown, ShrinksSpawn DEF Safe

LEMMA ShutdownSafe ==
  ASSUME IInv, Shutdown
  PROVE  Safe'
<1>1. /\ UNCHANGED <<admitted, spawns, active, starting, child, restoreBlocked>>
      /\ mode' = "closing"
  BY DEF Shutdown
<1>2. PICK aborted \in {Running, {}} :
        /\ row' = [j \in Job |-> IF j \in aborted THEN "failed" ELSE row[j]]
        /\ status' = [j \in Job |-> IF j \in aborted THEN "failed" ELSE status[j]]
        /\ saved' = saved \ aborted
  BY DEF Shutdown, Flushed
<1>3. aborted \subseteq admitted /\ aborted \subseteq Job
  BY DEF Running, IInv, Safe, KnownJobs
<1>4. AdmittedOnce'
  BY <1>1, <1>2, <1>3, SettledAdmitted DEF IInv, Safe, TypeOK, HistoryTypes
<1>5. Shrinks
  BY <1>1, <1>2, <1>3 DEF Shrinks, Running, IInv, Safe, KnownJobs
<1>6. Blank'
  BY <1>1, <1>5, ShrinksBlank DEF Unrestored
<1>7. SlotInv'
  BY <1>1, <1>5, ShrinksSlot
<1> QED
  BY <1>4, <1>5, <1>6, <1>7, ShrinksKnown, ShrinksSpawn DEF Safe

LEMMA DrainSafe ==
  ASSUME IInv, Drain
  PROVE  Safe'
<1>1. /\ UNCHANGED <<row, saved, admitted, spawns, mode, child, forceFailed>>
      /\ UNCHANGED <<lateClosed, restoreBlocked, then>>
      /\ pc = "drain" /\ pc' = "idle"
  BY DEF Drain
<1>2. CASE UNCHANGED <<status, active, starting>>
  BY <1>1, <1>2 DEF IInv, Safe, AdmittedOnce, KnownJobs, SpawnInv, SpawnedOnce,
                    Blank, Unrestored, SlotInv, OneChild
<1>3. ASSUME NEW j \in Job, CanDrain, Reserve(j)
      PROVE  Safe'
  <2>1. /\ status[j] = "queued" /\ active = NoJob /\ mode = "up"
        /\ active' = j /\ starting' = starting \cup {j}
        /\ status' = [status EXCEPT ![j] = "running"]
    BY <1>3 DEF CanDrain, Reserve, Ready
  <2>2. ~Unrestored
    BY <2>1 DEF IInv, Safe, Blank
  <2>3. AdmittedOnce'
    BY <1>1 DEF IInv, Safe, AdmittedOnce
  <2>4. KnownJobs'
    BY <1>1, <2>1 DEF IInv, Safe, KnownJobs, TypeOK, QueueTypes
  <2>5. SpawnInv'
    BY <1>1, <2>1 DEF IInv, Safe, SpawnInv, SpawnedOnce, TypeOK, QueueTypes
  <2>6. Blank'
    BY <1>1, <2>2 DEF IInv, Safe, Blank, Unrestored
  <2>7. SlotInv'
    <3>1. child \subseteq forceFailed /\ \A k \in Job : status[k] # "running"
      BY <2>1, JobNotNull DEF IInv, Safe, SlotInv, OneChild, TypeOK, ChildTypes
    <3> QED
      BY <1>1, <2>1, <3>1 DEF IInv, Safe, SlotInv, OneChild, TypeOK, QueueTypes
  <2> QED
    BY <2>3, <2>4, <2>5, <2>6, <2>7 DEF Safe
<1> QED
  BY <1>2, <1>3 DEF Drain

LEMMA SpawnSafe ==
  ASSUME IInv, NEW j \in Job, Spawn(j)
  PROVE  Safe'
<1>1. /\ UNCHANGED <<admitted, status, active, mode, restoreBlocked, pc, then>>
      /\ UNCHANGED <<forceFailed, lateClosed>>
      /\ starting' = starting \ {j} /\ child' = child \cup {j}
      /\ saved' = saved \ {j}
      /\ row' = [row EXCEPT ![j] = "running"]
      /\ spawns' = [spawns EXCEPT ![j] = @ + 1]
      /\ j \in starting /\ active = j /\ mode = "up"
  BY DEF Spawn, CanContinueStart
<1>2. j \in admitted /\ spawns[j] = 0 /\ status[j] # "queued"
  BY <1>1, JobNotNull DEF IInv, Safe, KnownJobs, SpawnInv
<1>3. AdmittedOnce'
  BY <1>1, <1>2 DEF IInv, Safe, AdmittedOnce, TypeOK, DiskTypes
<1>4. KnownJobs'
  BY <1>1, <1>2 DEF IInv, Safe, KnownJobs
<1>5. SpawnInv'
  BY <1>1, <1>2 DEF IInv, Safe, SpawnInv, SpawnedOnce, TypeOK, HistoryTypes
<1>6. Blank'
  BY <1>1, JobNotNull DEF IInv, Safe, Blank, Unrestored
<1>7. SlotInv'
  BY <1>1, <1>2 DEF IInv, Safe, SlotInv, OneChild, TypeOK, HistoryTypes, ChildTypes
<1> QED
  BY <1>3, <1>4, <1>5, <1>6, <1>7 DEF Safe

LEMMA AbandonStartSafe ==
  ASSUME IInv, NEW j \in Job, AbandonStart(j)
  PROVE  Safe'
<1>1. /\ UNCHANGED <<row, saved, admitted, spawns, status, active, mode>>
      /\ UNCHANGED <<child, forceFailed, lateClosed, restoreBlocked, pc, then>>
      /\ starting' \subseteq starting
  BY DEF AbandonStart
<1> QED
  BY <1>1 DEF IInv, Safe, AdmittedOnce, KnownJobs, SpawnInv, SpawnedOnce, Blank,
              Unrestored, SlotInv, OneChild

LEMMA WedgeFailedSafe ==
  ASSUME IInv, NEW j \in Job, WedgeFailed(j)
  PROVE  Safe'
<1>1. /\ UNCHANGED <<admitted, spawns, mode, restoreBlocked, child>>
      /\ UNCHANGED <<forceFailed, lateClosed>>
      /\ starting' \subseteq starting
      /\ row' = [k \in Job |-> IF k \in {j} THEN "failed" ELSE row[k]]
      /\ status' = [status EXCEPT ![j] = "failed"]
      /\ saved' = saved \ {j}
      /\ active = j /\ active' = NoJob /\ j \in starting
      /\ mode = "up" /\ pc' = "replay" /\ then' = "settle"
  BY DEF WedgeFailed, CanContinueStart, Stage, Replay
<1>2. j \in admitted /\ j \notin child /\ ~Unrestored
  BY <1>1, JobNotNull
     DEF IInv, Safe, KnownJobs, SpawnInv, Blank, TypeOK, HistoryTypes
<1>3. AdmittedOnce'
  BY <1>1, <1>2, SettledAdmitted DEF IInv, Safe, TypeOK, HistoryTypes
<1>4. Shrinks
  BY <1>1, <1>2 DEF Shrinks, IInv, Safe, KnownJobs, TypeOK, QueueTypes
<1>5. Blank'
  BY <1>1, <1>2, <1>4, ShrinksBlank DEF Unrestored
<1>6. child \subseteq forceFailed /\ \A k \in Job : status'[k] # "running"
  BY <1>1, <1>2 DEF IInv, Safe, SlotInv, OneChild, TypeOK, QueueTypes, ChildTypes
<1>7. SlotInv'
  BY <1>1, <1>4, <1>6, ShrinksSlot
<1> QED
  BY <1>3, <1>4, <1>5, <1>7, ShrinksKnown, ShrinksSpawn DEF Safe

LEMMA WedgeUnsettledSafe ==
  ASSUME IInv, NEW j \in Job, WedgeUnsettled(j)
  PROVE  Safe'
<1>1. /\ UNCHANGED <<admitted, spawns, mode, restoreBlocked, child, pc, then>>
      /\ UNCHANGED <<forceFailed, lateClosed>>
      /\ starting' \subseteq starting
      /\ active = j /\ j \in starting /\ mode = "up"
  BY DEF WedgeUnsettled, CanContinueStart
<1>2. /\ j \in admitted /\ j \notin child /\ spawns[j] = 0 /\ ~Unrestored
  BY <1>1, JobNotNull
     DEF IInv, Safe, KnownJobs, SpawnInv, Blank, TypeOK, HistoryTypes
<1>3. CASE /\ status' = [status EXCEPT ![j] = "queued"]
           /\ active' = NoJob
           /\ UNCHANGED <<row, saved>>
  <2>1. AdmittedOnce'
    BY <1>1, <1>3 DEF IInv, Safe, AdmittedOnce
  <2>2. KnownJobs'
    BY <1>1, <1>2, <1>3 DEF IInv, Safe, KnownJobs, TypeOK, QueueTypes
  <2>3. SpawnInv'
    BY <1>1, <1>2, <1>3 DEF IInv, Safe, SpawnInv, SpawnedOnce, TypeOK, QueueTypes
  <2>4. Blank'
    BY <1>1, <1>2, <1>3 DEF IInv, Safe, Blank, Unrestored
  <2>5. SlotInv'
    BY <1>1, <1>2, <1>3
       DEF IInv, Safe, SlotInv, OneChild, TypeOK, QueueTypes, ChildTypes
  <2> QED
    BY <2>1, <2>2, <2>3, <2>4, <2>5 DEF Safe
<1>4. CASE /\ UNCHANGED <<status, active>>
           /\ \/ UNCHANGED <<row, saved>>
              \/ row' = [row EXCEPT ![j] = "running"] /\ saved' = saved \ {j}
  <2>1. AdmittedOnce'
    BY <1>1, <1>2, <1>4 DEF IInv, Safe, AdmittedOnce, TypeOK, DiskTypes
  <2>2. Shrinks
    BY <1>1, <1>4 DEF Shrinks, IInv, Safe, KnownJobs
  <2>3. Blank'
    BY <1>1, <1>4, <2>2, ShrinksBlank DEF Unrestored, IInv, Safe, Blank
  <2>4. SlotInv'
    BY <1>1, <1>4, <2>2, ShrinksSlot
  <2> QED
    BY <2>1, <2>2, <2>3, <2>4, ShrinksKnown, ShrinksSpawn DEF Safe
<1> QED
  BY <1>3, <1>4 DEF WedgeUnsettled

LEMMA ExitDisposedSafe ==
  ASSUME IInv, NEW j \in Job, ExitDisposed(j)
  PROVE  Safe'
<1>1. /\ UNCHANGED <<row, saved, admitted, spawns, status, mode, starting>>
      /\ UNCHANGED <<lateClosed, restoreBlocked, pc, then>>
      /\ child' \subseteq child
      /\ active' \in {active, NoJob}
      /\ mode \in {"closing", "closed"}
  BY DEF ExitDisposed
<1>2. Shrinks
  BY <1>1 DEF Shrinks, IInv, Safe, KnownJobs
<1>3. AdmittedOnce'
  BY <1>1 DEF IInv, Safe, AdmittedOnce
<1>4. Blank'
  BY <1>1, <1>2, ShrinksBlank DEF Unrestored
<1>5. SlotInv'
  BY <1>1, <1>2, ShrinksSlot
<1> QED
  BY <1>2, <1>3, <1>4, <1>5, ShrinksKnown, ShrinksSpawn DEF Safe

LEMMA LateExitSafe ==
  ASSUME IInv, NEW j \in Job, LateExit(j)
  PROVE  Safe'
<1>1. /\ UNCHANGED <<row, saved, admitted, spawns, status, active, mode, starting>>
      /\ UNCHANGED <<restoreBlocked>>
      /\ j \in child /\ child' = child \ {j}
      /\ then' \in {"late", then} /\ pc' \in {"idle", "replay"} /\ mode = "up"
  BY DEF LateExit, Idle, Replay, Stay
<1>2. /\ lateClosed' \subseteq lateClosed \cup {j}
      /\ forceFailed' \in {forceFailed, forceFailed \ {j}}
  BY DEF LateExit, Reconcile
<1>3. Shrinks
  BY <1>1 DEF Shrinks, IInv, Safe, KnownJobs
<1>4. AdmittedOnce'
  BY <1>1 DEF IInv, Safe, AdmittedOnce
<1>5. ~Unrestored
  BY <1>1 DEF IInv, Safe, Blank
<1>6. Blank'
  BY <1>1, <1>3, <1>5, ShrinksBlank DEF Unrestored, IInv, Safe, Blank
<1>7. SlotInv'
  <2>1. child' \ forceFailed' \subseteq child \ forceFailed
    BY <1>1, <1>2
  <2> QED
    BY <1>1, <1>2, <1>3, <2>1, ShrinksSlot
<1> QED
  BY <1>3, <1>4, <1>6, <1>7, ShrinksKnown, ShrinksSpawn DEF Safe

LEMMA ChildExitSafe ==
  ASSUME IInv, NEW j \in Job, ChildExit(j)
  PROVE  Safe'
<1>1. /\ UNCHANGED <<admitted, spawns, mode, restoreBlocked, starting>>
      /\ UNCHANGED <<forceFailed, lateClosed>>
      /\ j \in child \ forceFailed /\ child' = child \ {j}
      /\ then' \in {"exit", then} /\ pc' \in {"idle", "replay"} /\ mode = "up"
  BY DEF ChildExit, Idle, Replay, Stay
<1>2. active = j /\ j \in admitted /\ ~Unrestored
  BY <1>1 DEF IInv, Safe, KnownJobs, Blank, SlotInv, OneChild
<1>3. CASE \E st \in Outcomes(j) : /\ Stage({j}, st, FALSE)
                                   /\ status' = [status EXCEPT ![j] = st]
                                   /\ active' = NoJob
  <2>1. PICK st \in Terminal :
          /\ row' = [k \in Job |-> IF k \in {j} THEN st ELSE row[k]]
          /\ saved' = saved \ {j}
          /\ status' = [status EXCEPT ![j] = st]
    BY <1>3 DEF Outcomes, Terminal, Stage
  <2>2. AdmittedOnce'
    BY <1>1, <1>2, <2>1, SettledAdmitted
       DEF IInv, Safe, TypeOK, HistoryTypes, Terminal
  <2>3. Shrinks
    BY <1>1, <1>2, <1>3, <2>1
       DEF Shrinks, IInv, Safe, KnownJobs, TypeOK, QueueTypes, Terminal
  <2>4. Blank'
    BY <1>1, <1>2, <2>3, ShrinksBlank DEF Unrestored, IInv, Safe, Blank
  <2>5. child' \subseteq forceFailed' /\ \A k \in Job : status'[k] # "running"
    BY <1>1, <1>2, <2>1
       DEF IInv, Safe, SlotInv, OneChild, TypeOK, QueueTypes, ChildTypes, Terminal
  <2>6. SlotInv'
    BY <1>1, <2>3, <2>5, ShrinksSlot
  <2> QED
    BY <2>2, <2>3, <2>4, <2>6, ShrinksKnown, ShrinksSpawn DEF Safe
<1>4. CASE UNCHANGED <<row, saved, status>> /\ active' = j
  <2>1. AdmittedOnce'
    BY <1>1, <1>4 DEF IInv, Safe, AdmittedOnce
  <2>2. Shrinks
    BY <1>1, <1>2, <1>4 DEF Shrinks, IInv, Safe, KnownJobs
  <2>3. Blank'
    BY <1>1, <1>2, <2>2, ShrinksBlank DEF Unrestored, IInv, Safe, Blank
  <2>4. SlotInv'
    BY <1>1, <1>2, <1>4, <2>2, ShrinksSlot
  <2> QED
    BY <2>1, <2>2, <2>3, <2>4, ShrinksKnown, ShrinksSpawn DEF Safe
<1> QED
  BY <1>2, <1>3, <1>4 DEF ChildExit, Unstaged

LEMMA ForceFailSafe ==
  ASSUME IInv, NEW j \in Job, ForceFail(j)
  PROVE  Safe'
<1>1. /\ UNCHANGED <<admitted, spawns, mode, restoreBlocked, starting, child>>
      /\ UNCHANGED <<lateClosed>>
      /\ active = j /\ status[j] = "running"
      /\ then' \in {"settle", then} /\ (pc' # "capture")
  BY DEF ForceFail, Replay, Stay
<1>2. j \in admitted
  BY <1>1 DEF IInv, Safe, KnownJobs
<1>3. CASE Stage({j}, "failed", TRUE) /\ status' = [status EXCEPT ![j] = "failed"]
           /\ forceFailed' = forceFailed \cup {j} /\ active' = NoJob
  <2>1. /\ row' = [k \in Job |-> IF k \in {j} THEN "failed" ELSE row[k]]
        /\ saved' = saved \ {j}
    BY <1>3 DEF Stage
  <2>2. AdmittedOnce'
    BY <1>1, <1>2, <2>1, SettledAdmitted DEF IInv, Safe, TypeOK, HistoryTypes
  <2>3. Shrinks
    BY <1>1, <1>2, <1>3, <2>1 DEF Shrinks, IInv, Safe, KnownJobs, TypeOK, QueueTypes
  <2>4. Blank'
    BY <1>1, <2>3, ShrinksBlank DEF Unrestored, IInv, Safe, Blank
  <2>5. mode' = "up" =>
          child' \subseteq forceFailed' /\ \A k \in Job : status'[k] # "running"
    BY <1>1, <1>3
       DEF IInv, Safe, SlotInv, OneChild, TypeOK, QueueTypes, ChildTypes
  <2>6. SlotInv'
    BY <1>1, <1>3, <2>3, <2>5, ShrinksSlot
  <2> QED
    BY <2>2, <2>3, <2>4, <2>6, ShrinksKnown, ShrinksSpawn DEF Safe
<1>4. CASE UNCHANGED <<row, saved, status, active, forceFailed>>
  <2>1. Shrinks
    BY <1>1, <1>4 DEF Shrinks, IInv, Safe, KnownJobs
  <2>2. AdmittedOnce'
    BY <1>1, <1>4 DEF IInv, Safe, AdmittedOnce
  <2>3. Blank'
    BY <1>1, <2>1, ShrinksBlank DEF Unrestored, IInv, Safe, Blank
  <2>4. SlotInv'
    BY <1>1, <1>4, <2>1, ShrinksSlot
  <2> QED
    BY <2>1, <2>2, <2>3, <2>4, ShrinksKnown, ShrinksSpawn DEF Safe
<1> QED
  BY <1>3, <1>4 DEF ForceFail, Unstaged

LEMMA CaptureSafe ==
  ASSUME IInv, Capture
  PROVE  Safe'
<1>1. /\ UNCHANGED <<saved, admitted, spawns, active, mode, starting, child>>
      /\ UNCHANGED <<forceFailed, lateClosed>>
      /\ pc = "capture" /\ pc' # "capture" /\ then' \in {then, "settle"}
  BY DEF Capture, Replay
<1>2. \A j \in Job : row'[j] = "none" <=> row[j] = "none"
  BY DEF Capture, Captured, Orphan, IInv, TypeOK, DiskTypes
<1>3. AdmittedOnce'
  <2>1. {j \in Job : row'[j] # "none"} = {j \in Job : row[j] # "none"}
    BY <1>2
  <2>2. admitted \subseteq Job
    BY DEF IInv, TypeOK, HistoryTypes
  <2> QED
    BY <1>1, <1>2, <2>1, <2>2 DEF IInv, Safe, AdmittedOnce
<1>4. CASE UNCHANGED status /\ (restoreBlocked' => restoreBlocked \/ mode = "up")
  <2>1. Shrinks
    BY <1>1, <1>4 DEF Shrinks, IInv, Safe, KnownJobs
  <2>2. Unrestored' => Unrestored
    BY <1>1, <1>4 DEF Unrestored
  <2>3. Blank'
    BY <1>1, <1>4, <2>1, <2>2, ShrinksBlank DEF IInv, Safe, Blank
  <2>4. SlotInv'
    BY <1>1, <1>4, <2>1, ShrinksSlot
  <2> QED
    BY <1>3, <2>1, <2>3, <2>4, ShrinksKnown, ShrinksSpawn DEF Safe
<1>5. CASE /\ mode = "up" /\ restoreBlocked' = FALSE
           /\ status' = [j \in Job |-> IF j \in saved THEN "queued" ELSE status[j]]
  <2>1. /\ active = NoJob /\ child = {} /\ lateClosed = {}
        /\ \A j \in Job : status[j] = "none"
    BY <1>1, <1>5 DEF IInv, Safe, Blank, Unrestored
  <2>2. KnownJobs'
    BY <1>1, <1>5, <2>1 DEF IInv, Safe, KnownJobs, AdmittedOnce
  <2>3. SpawnInv'
    BY <1>1, <1>5, <2>1 DEF IInv, Safe, SpawnInv, SpawnedOnce
  <2>4. Blank'
    BY <1>1, <1>5 DEF IInv, Safe, Blank, Unrestored
  <2>5. SlotInv'
    BY <1>1, <1>5, <2>1 DEF IInv, Safe, SlotInv, OneChild
  <2> QED
    BY <1>3, <2>2, <2>3, <2>4, <2>5 DEF Safe
<1>6. \/ UNCHANGED status
      \/ /\ mode = "up" /\ restoreBlocked' = FALSE
         /\ status' = [j \in Job |-> IF j \in saved THEN "queued" ELSE status[j]]
  BY DEF Capture
<1>7. UNCHANGED restoreBlocked \/ mode = "up"
  BY DEF Capture
<1> QED
  BY <1>4, <1>5, <1>6, <1>7

LEMMA AfterReplaySafe ==
  ASSUME IInv, AfterReplay
  PROVE  Safe'
<1>1. /\ UNCHANGED <<row, saved, admitted, spawns, status, starting, child>>
      /\ UNCHANGED <<forceFailed, lateClosed, restoreBlocked>>
      /\ then' \in {"close", "settle"}
  BY DEF AfterReplay
<1>2. CASE UNCHANGED <<active, mode>> /\ (pc' = "capture" => then = "flush")
  <2>1. Shrinks
    BY <1>1, <1>2 DEF Shrinks, IInv, Safe, KnownJobs
  <2>2. Blank'
    BY <1>1, <1>2, <2>1, ShrinksBlank DEF Unrestored, IInv, Safe, Blank
  <2>3. SlotInv'
    BY <1>1, <1>2, <2>1, ShrinksSlot
  <2>4. AdmittedOnce'
    BY <1>1 DEF IInv, Safe, AdmittedOnce
  <2> QED
    BY <2>1, <2>2, <2>3, <2>4, ShrinksKnown, ShrinksSpawn DEF Safe
<1>3. CASE Closed
  <2>1. Shrinks
    BY <1>1, <1>3 DEF Closed, Shrinks, IInv, Safe, KnownJobs
  <2>2. mode' \in {"closing", "closed"}
    BY <1>3 DEF Closed
  <2>3. Blank'
    BY <1>1, <2>1, <2>2, ShrinksBlank DEF Unrestored
  <2>4. SlotInv'
    BY <1>1, <2>1, <2>2, ShrinksSlot
  <2>5. AdmittedOnce'
    BY <1>1 DEF IInv, Safe, AdmittedOnce
  <2> QED
    BY <2>1, <2>3, <2>4, <2>5, ShrinksKnown, ShrinksSpawn DEF Safe
<1> QED
  BY <1>2, <1>3 DEF AfterReplay, Resumed, FailedStop, Exited, StartedUp

LEMMA ReplayRowSafe ==
  ASSUME IInv, NEW j \in Job, ReplayRow(j)
  PROVE  Safe'
<1>1. /\ UNCHANGED <<admitted, spawns, active, mode, starting, child>>
      /\ UNCHANGED <<forceFailed, lateClosed, restoreBlocked, pc, then>>
      /\ SkipDescendants(j) \/ UNCHANGED <<row, status, saved>>
  BY DEF ReplayRow
<1> DEFINE skipped == {k \in descendants[j] : StillQueued(k)}
<1>2. skipped \subseteq admitted /\ skipped \subseteq Job
  BY DEF StillQueued, IInv, Safe, AdmittedOnce, KnownJobs, TypeOK, OutboxTypes
<1>3. CASE SkipDescendants(j)
  <2>1. /\ row' = [k \in Job |-> IF k \in skipped THEN "skipped" ELSE row[k]]
        /\ status' = [k \in Job |-> IF k \in skipped /\ status[k] # "none"
                                    THEN "skipped" ELSE status[k]]
        /\ saved' = saved \ skipped
    BY <1>3 DEF SkipDescendants
  <2> HIDE DEF skipped
  <2>2. AdmittedOnce'
    <3>1. \A k \in Job : row'[k] = "none" <=> row[k] = "none" /\ k \notin skipped
      BY <2>1
    <3> QED
      BY <1>1, <1>2, <2>1, <3>1, SettledAdmitted
         DEF IInv, Safe, TypeOK, HistoryTypes
  <2>3. Shrinks
    BY <1>1, <1>2, <2>1 DEF Shrinks, IInv, Safe, KnownJobs
  <2>4. Blank'
    BY <1>1, <2>1, <2>3, ShrinksBlank DEF Unrestored, IInv, Safe, Blank
  <2>5. SlotInv'
    BY <1>1, <2>3, ShrinksSlot
  <2> QED
    BY <2>2, <2>3, <2>4, <2>5, ShrinksKnown, ShrinksSpawn DEF Safe
<1>4. CASE UNCHANGED <<row, status, saved>>
  BY <1>1, <1>4, UnchangedSafe DEF IInv
<1> QED
  BY <1>1, <1>3, <1>4

LEMMA CrashSafe ==
  ASSUME IInv, Crash
  PROVE  Safe'
<1>1. /\ UNCHANGED <<row, saved, admitted, spawns>>
      /\ active' = NoJob /\ starting' = {} /\ child' = {} /\ lateClosed' = {}
      /\ status' = [j \in Job |-> "none"]
      /\ mode' = "down" /\ then' = "settle"
  BY DEF Crash
<1>2. AdmittedOnce'
  BY <1>1 DEF IInv, Safe, AdmittedOnce
<1>3. KnownJobs'
  BY <1>1 DEF KnownJobs
<1>4. SpawnInv'
  BY <1>1 DEF IInv, Safe, SpawnInv, SpawnedOnce
<1>5. Blank' /\ SlotInv'
  BY <1>1 DEF Blank, SlotInv, OneChild
<1> QED
  BY <1>2, <1>3, <1>4, <1>5 DEF Safe

LEMMA RestartSafe ==
  ASSUME IInv, Restart
  PROVE  Safe'
<1>1. /\ UNCHANGED <<row, saved, admitted, spawns, status, active, starting>>
      /\ UNCHANGED <<child, forceFailed, lateClosed>>
      /\ mode = "down" /\ then' = "restore"
  BY DEF Restart
<1>2. /\ active = NoJob /\ child = {} /\ lateClosed = {}
      /\ \A j \in Job : status[j] = "none"
  BY <1>1 DEF IInv, Safe, Blank, Unrestored
<1>3. AdmittedOnce' /\ KnownJobs' /\ SpawnInv'
  BY <1>1 DEF IInv, Safe, AdmittedOnce, KnownJobs, SpawnInv, SpawnedOnce
<1>4. Blank' /\ SlotInv'
  BY <1>1, <1>2 DEF Blank, SlotInv, OneChild
<1> QED
  BY <1>3, <1>4 DEF Safe
-----------------------------------------------------------------------------
(* Every step keeps the invariant.                                         *)
LEMMA NextSafe ==
  ASSUME IInv, [Next]_vars
  PROVE  Safe'
<1>1. ASSUME NEW j \in Job,
             \/ Forget(j) \/ CancelRunning(j) \/ PersistEventFails(j)
             \/ ZombieTimeout(j) \/ SigkillAnswered(j)
      PROVE  Safe'
  BY <1>1, UnchangedSafe
     DEF IInv, Forget, CancelRunning, PersistEventFails, ZombieTimeout,
         SigkillAnswered
<1>2. ASSUME NEW j \in Job, NEW w \in Priorities, UpdatePriority(j, w)
      PROVE  Safe'
  BY <1>2, UnchangedSafe DEF IInv, UpdatePriority
<1>3. ASSUME NEW p \in [Job -> 0 .. Cardinality(Job)], Reorder(p)
      PROVE  Safe'
  BY <1>3, UnchangedSafe DEF IInv, Reorder
<1>4. CASE Pause \/ KillTimerFires \/ UNCHANGED vars
  BY <1>4, UnchangedSafe DEF IInv, Pause, KillTimerFires
<1>5. ASSUME NEW j \in Job,
             \/ Enqueue(j) \/ CancelBeforeSpawn(j) \/ Spawn(j) \/ AbandonStart(j)
             \/ WedgeFailed(j) \/ WedgeUnsettled(j) \/ ExitDisposed(j)
             \/ LateExit(j) \/ ChildExit(j) \/ ForceFail(j) \/ ReplayRow(j)
      PROVE  Safe'
  BY <1>5, EnqueueSafe, CancelBeforeSpawnSafe, SpawnSafe, AbandonStartSafe,
     WedgeFailedSafe, WedgeUnsettledSafe, ExitDisposedSafe, LateExitSafe,
     ChildExitSafe, ForceFailSafe, ReplayRowSafe
<1>6. CASE \/ Resume \/ Shutdown \/ Drain \/ Capture \/ AfterReplay \/ Crash
           \/ Restart
  BY <1>6, ResumeSafe, ShutdownSafe, DrainSafe, CaptureSafe, AfterReplaySafe,
     CrashSafe, RestartSafe
<1> QED
  BY <1>1, <1>2, <1>3, <1>4, <1>5, <1>6 DEF Next

(* Every reachable state satisfies the invariant: it is what enqueue,      *)
(* _drainQueue, _startJob, _onJobExit and _restoreFromDb keep together.    *)
THEOREM Invariance == Spec => []IInv
<1>1. Init => IInv
  BY InitTypes, InitSafe DEF IInv
<1>2. IInv /\ [Next]_vars => IInv'
  BY NextTypes, NextSafe DEF IInv
<1> QED
  BY <1>1, <1>2, PTL DEF Spec

(* An acknowledged job is never lost and never run again after it left the *)
(* queue: it has a queued_jobs row or a jobs row and never both, whatever  *)
(* promotions, cancellations, replays, crashes and restarts come in        *)
(* between (createJob, _cancelBeforeSpawn, _skipRecoveredDescendants).     *)
THEOREM AdmittedOnceHolds == Spec => []AdmittedOnce
<1>1. IInv => AdmittedOnce
  BY DEF IInv, Safe
<1> QED
  BY <1>1, Invariance, PTL

(* A job is spawned at most once in its life: neither the restore after a  *)
(* crash nor a wedge that puts it back into the queue runs it again        *)
(* (_restoreFromDb, _failWedgedJob, _canContinueStart).                    *)
THEOREM SpawnedOnceHolds == Spec => []SpawnedOnce
<1>1. IInv => SpawnedOnce
  BY DEF IInv, Safe, SpawnInv
<1> QED
  BY <1>1, Invariance, PTL

(* A live child that has not been given up on belongs to the job that      *)
(* holds the slot (_drainQueue, _kill, _forceFailUnkillableJob).           *)
THEOREM OneChildHolds == Spec => []OneChild
<1>1. IInv => OneChild
  BY DEF IInv, Safe, SlotInv
<1> QED
  BY <1>1, Invariance, PTL
=============================================================================
