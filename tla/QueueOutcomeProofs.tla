-------------------------- MODULE QueueOutcomeProofs --------------------------
(***************************************************************************)
(* What becomes of a job, for every set of jobs, dependencies and bounds:  *)
(* its outcome is settled exactly once, what memory reports is on disk,    *)
(* no job starts on spend that is not known, the queue implements          *)
(* JobLifecycle, and what waits in it is in order and is woken or skipped. *)
(*                                                                         *)
(* The inductive invariant adds to the one of QueueManagerProofs what the  *)
(* outbox and the ledger say of each other, that the snapshots of          *)
(* different jobs are disjoint and closed under dependency as far as their *)
(* members still wait, and that the job in the slot is in none of them.    *)
(***************************************************************************)
EXTENDS QueueManagerProofs

USE DEF vars, outboxVars, savedVars, childVars, markVars, killVars, lateVars,
        queueVars, flagVars, handlerVars, history, bounds, otherBounds

(* The jobs in the snapshot of m that have still to be skipped.            *)
Doomed(m) == descendants[m] \cap saved

(* An outbox row is of a job that has ended by itself; what is made of it, *)
(* and a snapshot, needs the row.                                          *)
OutboxInv ==
  /\ accounted \cup called \cup finished \cup held \cup pass \subseteq outbox
  /\ \A j \in outbox : row[j] \in Terminal \ {"skipped"} /\ j \notin forgotten
  /\ \A j \in forgotten : row[j] \in Terminal
  /\ \A m \in Job : /\ descendants[m] \subseteq admitted
                    /\ descendants[m] # {} => m \in outbox /\ row[m] # "completed"

(* The ledger has the invocation of a job that ended, unless it is owed.   *)
LedgerInv ==
  /\ SettledExactlyOnce
  /\ \A j \in Job : /\ ledger[j] > 0 => row[j] \in Terminal \ {"skipped"}
                    /\ spawns[j] > 0 => row[j] \notin {"none", "skipped"}
  /\ \A j \in outbox \ accounted : ledger[j] = 0
  /\ \A j \in accounted : spawns[j] > 0 => ledger[j] = 1
  /\ called \subseteq notified
  /\ \A j \in notified : row[j] \in Terminal

SnapshotInv ==
  /\ \A m \in Job : \A k \in Doomed(m) : Dep[k] \in Doomed(m) \cup {m}
  /\ \A m, n \in Job : m # n => Doomed(m) \cap Doomed(n) = {}
  /\ \A m \in Job : active \in Doomed(m) => status[active] # "running"

Serving == mode = "up" /\ ~Unrestored

(* Memory never runs ahead of the disk; once restored it knows all that    *)
(* waits and all that runs.                                                *)
MemoryInv ==
  /\ \A j \in Job :
       /\ status[j] \in Terminal => row[j] = status[j]
       /\ status[j] = "queued" => j \in saved
       /\ status[j] = "running" /\ active = j => row[j] \in {"none", "running"}
  /\ Serving =>
       /\ \A j \in saved : status[j] = "queued" \/ (status[j] = "running" /\ active = j)
       /\ \A j \in Job : row[j] = "running" => active = j /\ status[j] = "running"
  /\ Unrestored => starting = {} /\ forceFailed = {}
  /\ \A j \in forceFailed : status[j] = "failed"
  /\ lateClosed \subseteq forceFailed
  /\ \A j \in starting : status[j] # "queued"
  /\ then = "flush" \/ (mode = "closing" /\ pc = "capture") =>
       \A j \in Job : active = j => status[j] # "running"

Spawned == {j \in Job : spawns[j] > 0}

(* The job in the slot is about to be started, has a child, or waits for a *)
(* restart; one that is to be started may be.                              *)
SlotUse ==
  /\ \A j \in admitted : Dep[j] \in admitted \cup {NoJob}
  /\ mode = "up" =>
       /\ \A j \in starting : active = j =>
            /\ status[j] = "running" /\ j \in saved
            /\ Dep[j] # NoJob => row[Dep[j]] = "completed" \/ Dep[j] \in forgotten
            /\ Cardinality(Spawned) < BudgetCap
       /\ \A j \in Job : active = j /\ status[j] = "running" =>
            j \in starting \cup child \cup blocked
       /\ \A j \in child \ forceFailed : status[j] = "running" /\ row[j] = "running"

(* A queue that may start a job has nothing outstanding.                   *)
PauseInv ==
  /\ mode = "up" /\ ~paused /\ pc \in {"idle", "drain"} =>
       outbox \subseteq accounted \cap finished
  /\ mode \in {"up", "down"} /\ restoreBlocked =>
       paused /\ pc \in {"idle", "capture"}
  /\ then = "unclosed" => mode # "up"
  /\ Cardinality(Spawned) <= BudgetCap

(* The queued jobs are numbered from 1.                                    *)
Rank(pos, Q, j) == 1 + Cardinality({k \in Q : pos[k] < pos[j]})

Numbered ==
  /\ \A j \in Job :
       position[j] = IF status[j] # "queued" THEN 0 ELSE Rank(position, Queued, j)
  /\ \A j, k \in Queued : position[j] = position[k] => j = k

Outcome == OutboxInv /\ LedgerInv /\ SnapshotInv /\ MemoryInv /\ SlotUse /\ PauseInv

OInv == IInv /\ Outcome /\ Numbered
-----------------------------------------------------------------------------
(* Snapshots.                                                              *)
LEMMA DescendantsClosed ==
  ASSUME NEW j, NEW S, NEW m \in S, Dep[m] \in Descendants(j, S) \cup {j}
  PROVE  m \in Descendants(j, S)
BY DEF Descendants

LEMMA DescendantsLeast ==
  ASSUME NEW j, NEW S, NEW C \in SUBSET S,
         \A m \in S : Dep[m] \in C \cup {j} => m \in C
  PROVE  Descendants(j, S) \subseteq C
BY DEF Descendants

(* A member of a snapshot was put there by its parent.                     *)
LEMMA DescendantsParent ==
  ASSUME NEW j, NEW S, NEW k \in Descendants(j, S)
  PROVE  Dep[k] \in Descendants(j, S) \cup {j}
<1> DEFINE D == Descendants(j, S)
           C == {m \in D : Dep[m] \in D \cup {j}}
<1>1. D \subseteq S
  BY DescendantsType
<1>2. \A m \in S : Dep[m] \in D \cup {j} => m \in D
  BY DescendantsClosed
<1>3. C \in SUBSET S /\ \A m \in S : Dep[m] \in C \cup {j} => m \in C
  <2> HIDE DEF D
  <2> QED
    BY <1>1, <1>2
<1>4. D \subseteq C
  <2> HIDE DEF C
  <2> QED
    BY <1>3, DescendantsLeast
<1> QED
  BY <1>4

(* A snapshot taken now meets no other family of waiting jobs.             *)
LEMMA FreshSnapshot ==
  ASSUME NEW j, NEW n, NEW S, NEW X \in SUBSET S, n # j, n \notin S, j \notin X,
         \A k \in X : Dep[k] \in X \cup {n}
  PROVE  Descendants(j, S) \cap X = {}
<1> DEFINE D == Descendants(j, S)
           C == D \ X
<1>1. D \subseteq S
  BY DescendantsType
<1>2. \A m \in S : Dep[m] \in D \cup {j} => m \in D
  BY DescendantsClosed
<1>3. C \in SUBSET S /\ \A m \in S : Dep[m] \in C \cup {j} => m \in C
  <2> HIDE DEF D
  <2> QED
    BY <1>1, <1>2
<1>4. D \subseteq C
  <2> HIDE DEF C
  <2> QED
    BY <1>3, DescendantsLeast
<1> QED
  BY <1>4
-----------------------------------------------------------------------------
(* The numbering of the queue.                                             *)

(* before orders the jobs of Q.                                            *)
Orders(before, Q) ==
  /\ \A k \in Q : <<k, k>> \notin before
  /\ \A j, k \in Q : j = k \/ <<j, k>> \in before \/ <<k, j>> \in before
  /\ \A j, k, m \in Q : <<j, k>> \in before /\ <<k, m>> \in before => <<j, m>> \in before

Ahead(k, before, Q) == {m \in Q \ {k} : <<m, k>> \in before}

LEMMA FewerAhead ==
  ASSUME NEW Q \in SUBSET Job, NEW before, Orders(before, Q),
         NEW j \in Q, NEW k \in Q, <<j, k>> \in before
  PROVE  Cardinality(Ahead(j, before, Q)) < Cardinality(Ahead(k, before, Q))
<1> DEFINE A == Ahead(j, before, Q)
           B == Ahead(k, before, Q)
<1>1. j # k /\ <<k, j>> \notin before
  BY DEF Orders
<1>2. A \subseteq B
  BY <1>1 DEF Orders, Ahead
<1>3. j \in B /\ j \notin A
  BY <1>1 DEF Ahead
<1>4. IsFiniteSet(B)
  <2>1. B \in SUBSET Job
    BY DEF Ahead
  <2> QED
    BY <2>1, FS_Subset, JobAssumption
<1> HIDE DEF A, B
<1>5. IsFiniteSet(A) /\ Cardinality(A) <= Cardinality(B)
      /\ (Cardinality(B) = Cardinality(A) => B = A)
  BY <1>2, <1>4, FS_Subset
<1>6. Cardinality(A) \in Nat /\ Cardinality(B) \in Nat
  BY <1>4, <1>5, FS_CardinalityType
<1>7. Cardinality(A) < Cardinality(B)
  BY <1>3, <1>5, <1>6
<1> QED
  BY <1>7 DEF A, B

(* Positions numbers the jobs of Q from 1 in the given order.              *)
LEMMA PositionsAhead ==
  ASSUME NEW Q \in SUBSET Job, NEW before, NEW k \in Q
  PROVE  /\ Positions(Q, before)[k] = 1 + Cardinality(Ahead(k, before, Q))
         /\ Cardinality(Ahead(k, before, Q)) \in Nat
<1>1. Positions(Q, before)[k] = 1 + Cardinality(Ahead(k, before, Q))
  BY DEF Positions, Ahead
<1>2. IsFiniteSet(Ahead(k, before, Q))
  BY FS_Subset, JobAssumption DEF Ahead
<1> QED
  BY <1>1, <1>2, FS_CardinalityType

LEMMA PositionsOrder ==
  ASSUME NEW Q \in SUBSET Job, NEW before, Orders(before, Q), NEW j \in Q, NEW k \in Q
  PROVE  /\ Positions(Q, before)[j] < Positions(Q, before)[k] <=> <<j, k>> \in before
         /\ Positions(Q, before)[j] = Positions(Q, before)[k] => j = k
<1>1. ASSUME NEW m \in Q, NEW n \in Q, <<m, n>> \in before
      PROVE  Positions(Q, before)[m] < Positions(Q, before)[n]
  <2>1. Cardinality(Ahead(m, before, Q)) < Cardinality(Ahead(n, before, Q))
    BY <1>1, FewerAhead
  <2> QED
    BY <2>1, PositionsAhead
<1>2. \A m \in Q : Positions(Q, before)[m] \in Nat
  BY PositionsAhead
<1>3. j = k \/ <<j, k>> \in before \/ <<k, j>> \in before
  BY DEF Orders
<1> QED
  BY <1>1, <1>2, <1>3

LEMMA PositionsRank ==
  ASSUME NEW Q \in SUBSET Job, NEW before, Orders(before, Q)
  PROVE  LET pos == Positions(Q, before)
         IN  /\ \A j, k \in Q : pos[j] = pos[k] => j = k
             /\ \A j \in Job :
                  pos[j] = IF j \notin Q THEN 0 ELSE Rank(pos, Q, j)
<1> DEFINE pos == Positions(Q, before)
<1>1. \A j \in Job \ Q : pos[j] = 0
  BY DEF Positions
<1>2. \A j, k \in Q : /\ pos[j] < pos[k] <=> <<j, k>> \in before
                      /\ pos[j] = pos[k] => j = k
  BY PositionsOrder
<1>3. \A j \in Q : pos[j] = 1 + Cardinality(Ahead(j, before, Q))
  BY PositionsAhead
<1> HIDE DEF pos
<1>4. ASSUME NEW j \in Q
      PROVE  {k \in Q : pos[k] < pos[j]} = Ahead(j, before, Q)
  <2>1. <<j, j>> \notin before
    BY DEF Orders
  <2> QED
    BY <1>2, <2>1 DEF Ahead
<1>5. \A j \in Job : pos[j] = IF j \notin Q THEN 0 ELSE Rank(pos, Q, j)
  BY <1>1, <1>3, <1>4 DEF Rank
<1> QED
  BY <1>2, <1>5 DEF pos

LEMMA Renumbered ==
  ASSUME NEW before, status' \in [Job -> {"none", "queued", "running"} \cup Terminal],
         Orders(before, Queued'), position' = Positions(Queued', before)
  PROVE  Numbered'
<1> DEFINE Q == Queued'
           pos == position'
<1>1. Q \in SUBSET Job /\ Orders(before, Q) /\ pos = Positions(Q, before)
  BY DEF Queued
<1>2. \A j \in Job : j \in Q <=> status'[j] = "queued"
  BY DEF Queued
<1> HIDE DEF Q, pos
<1>3. /\ \A j, k \in Q : pos[j] = pos[k] => j = k
      /\ \A j \in Job : pos[j] = IF j \notin Q THEN 0 ELSE Rank(pos, Q, j)
  BY <1>1, PositionsRank
<1>4. \A j \in Job : Rank(pos, Q, j) = Rank(position, Queued, j)'
  BY DEF Rank, pos, Q
<1> QED
  BY <1>2, <1>3, <1>4 DEF Numbered, Q, pos

LEMMA InFrontOrders ==
  ASSUME TypeOK, Numbered, NEW Q \in SUBSET Queued
  PROVE  Orders(InFront, Q)
<1>1. \A j, k \in Job : <<j, k>> \in InFront <=> position[j] < position[k]
  BY DEF InFront
<1>2. \A j \in Job : position[j] \in Nat
  BY DEF TypeOK, QueueTypes
<1>3. \A j, k \in Q : position[j] = position[k] => j = k
  BY DEF Numbered
<1>4. Q \subseteq Job
  BY DEF Queued
<1> HIDE DEF InFront
<1> QED
  BY <1>1, <1>2, <1>3, <1>4 DEF Orders

LEMMA WithoutNumbered ==
  ASSUME TypeOK, TypeOK', Numbered, NEW S, Queued' = Queued \ S, position' = Without(S)
  PROVE  Numbered'
BY InFrontOrders, Renumbered DEF Without, TypeOK, QueueTypes

LEMMA InsertedOrders ==
  ASSUME TypeOK, Numbered, NEW j \in Job, NEW w
  PROVE  LET Q == Queued \ {j}
             Front == {k \in Q : \A m \in Q : position[m] <= position[k]
                                                => priority[m] >= w}
         IN  Orders({e \in InFront : j \notin {e[1], e[2]}}
                      \cup (Front \X {j}) \cup ({j} \X (Q \ Front)), Q \cup {j})
<1> DEFINE Q == Queued \ {j}
           Front == {k \in Q : \A m \in Q : position[m] <= position[k] => priority[m] >= w}
           before == {e \in InFront : j \notin {e[1], e[2]}}
                       \cup (Front \X {j}) \cup ({j} \X (Q \ Front))
<1>1. Orders(InFront, Q)
  BY InFrontOrders
<1>2. \A k, m \in Q : <<m, k>> \in InFront /\ k \in Front => m \in Front
  BY DEF InFront, Queued, TypeOK, QueueTypes
<1>3. \A k, m \in Q : <<m, k>> \in before <=> <<m, k>> \in InFront
  BY DEF InFront
<1>4. /\ \A k \in Q : <<k, j>> \in before <=> k \in Front
      /\ \A k \in Q : <<j, k>> \in before <=> k \notin Front
      /\ <<j, j>> \notin before
  OBVIOUS
<1>5. Orders(before, Q \cup {j})
  <2> HIDE DEF before, Front, Q
  <2> QED
    BY <1>1, <1>2, <1>3, <1>4 DEF Orders
<1> QED
  BY <1>5

LEMMA InsertedNumbered ==
  ASSUME TypeOK, TypeOK', Numbered, NEW j \in Job, NEW w,
         Queued' = (Queued \ {j}) \cup {j}, position' = Inserted(j, w)
  PROVE  Numbered'
<1> DEFINE Q == Queued \ {j}
           Front == {k \in Q : \A m \in Q : position[m] <= position[k] => priority[m] >= w}
           before == {e \in InFront : j \notin {e[1], e[2]}}
                       \cup (Front \X {j}) \cup ({j} \X (Q \ Front))
<1>1. position' = Positions(Q \cup {j}, before)
  BY DEF Inserted
<1>2. Orders(before, Q \cup {j})
  BY InsertedOrders
<1> HIDE DEF before
<1> QED
  BY <1>1, <1>2, Renumbered DEF TypeOK, QueueTypes

LEMMA UnshiftedNumbered ==
  ASSUME TypeOK, TypeOK', Numbered, NEW j \in Job, j \notin Queued,
         Queued' = Queued \cup {j}, position' = Unshifted(j)
  PROVE  Numbered'
<1> DEFINE before == {e \in InFront : j \notin {e[1], e[2]}} \cup ({j} \X Queued)
<1>1. position' = Positions(Queued \cup {j}, before)
  BY DEF Unshifted
<1>2. Orders(InFront, Queued)
  BY InFrontOrders
<1>3. \A k, m \in Queued : <<m, k>> \in before <=> <<m, k>> \in InFront
  BY DEF InFront
<1>4. /\ \A k \in Queued : <<k, j>> \notin before /\ <<j, k>> \in before
      /\ <<j, j>> \notin before
  OBVIOUS
<1>5. Orders(before, Queued \cup {j})
  <2> HIDE DEF before
  <2> QED
    BY <1>2, <1>3, <1>4 DEF Orders
<1> HIDE DEF before
<1> QED
  BY <1>1, <1>5, Renumbered DEF TypeOK, QueueTypes

LEMMA RestoredOrders ==
  ASSUME TypeOK
  PROVE  Orders({e \in Job \X Job : RestoredBefore(e[1], e[2])}, saved)
<1> DEFINE before == {e \in Job \X Job : RestoredBefore(e[1], e[2])}
<1>1. \A m, k \in Job : <<m, k>> \in before <=> RestoredBefore(m, k)
  OBVIOUS
<1>2. \A j \in Job : j \in Nat /\ savedPos[j] \in Nat /\ priority[j] \in Nat
  BY JobAssumption, PriorityAssumption DEF TypeOK, DiskTypes
<1>3. saved \subseteq Job
  BY DEF TypeOK, DiskTypes
<1> HIDE DEF before
<1>4. \A k \in saved : <<k, k>> \notin before
  BY <1>1, <1>2, <1>3 DEF RestoredBefore
<1>5. \A j, k \in saved : j = k \/ <<j, k>> \in before \/ <<k, j>> \in before
  <2>1. \A j, k \in Job : j = k \/ RestoredBefore(j, k) \/ RestoredBefore(k, j)
    BY <1>2 DEF RestoredBefore
  <2> QED
    BY <1>1, <1>3, <2>1
<1>6. \A j, k, m \in saved :
        <<j, k>> \in before /\ <<k, m>> \in before => <<j, m>> \in before
  BY <1>1, <1>2, <1>3 DEF RestoredBefore
<1>7. Orders(before, saved)
  BY <1>4, <1>5, <1>6 DEF Orders
<1> QED
  BY <1>7 DEF before

LEMMA RestoredNumbered ==
  ASSUME TypeOK, TypeOK', Queued' = saved, position' = Restored
  PROVE  Numbered'
<1> DEFINE before == {e \in Job \X Job : RestoredBefore(e[1], e[2])}
<1>1. position' = Positions(saved, before)
  BY DEF Restored
<1>2. Orders(before, saved)
  BY RestoredOrders
<1> HIDE DEF before
<1> QED
  BY <1>1, <1>2, Renumbered DEF TypeOK, QueueTypes
-----------------------------------------------------------------------------
(* What a step leaves alone keeps what is said of it.                      *)
LEMMA SameOutbox ==
  ASSUME OutboxInv, UNCHANGED <<outbox, accounted, called, finished, held>>,
         UNCHANGED <<descendants, row, forgotten>>,
         admitted \subseteq admitted', pass' \subseteq pass
  PROVE  OutboxInv'
BY DEF OutboxInv

LEMMA SameLedger ==
  ASSUME LedgerInv, UNCHANGED <<outbox, accounted, called, ledger, row>>,
         UNCHANGED <<spawns, notified>>
  PROVE  LedgerInv'
BY DEF LedgerInv, SettledExactlyOnce

LEMMA SameSnapshots ==
  ASSUME SnapshotInv, \A m \in Job : Doomed(m)' = Doomed(m),
         \A m \in Job : active' \in Doomed(m) /\ status'[active'] = "running" =>
                          active' = active /\ status[active] = "running"
  PROVE  SnapshotInv'
BY DEF SnapshotInv

LEMMA SameSpawned ==
  ASSUME UNCHANGED spawns PROVE Spawned' = Spawned
BY DEF Spawned

LEMMA SameNumbers ==
  ASSUME Numbered, UNCHANGED position,
         \A j \in Job : status'[j] = "queued" <=> status[j] = "queued"
  PROVE  Numbered'
<1>1. Queued' = Queued
  BY DEF Queued
<1>2. \A j \in Job : Rank(position, Queued, j)' = Rank(position, Queued, j)
  BY <1>1 DEF Rank
<1> QED
  BY <1>1, <1>2 DEF Numbered

(* Steps that change none of what the invariant is about.                  *)
LEMMA CalmOutcome ==
  ASSUME Outcome,
         UNCHANGED <<outboxVars, row, forgotten, saved, ledger, status, active>>,
         UNCHANGED <<admitted, spawns, notified, starting, child, lateVars>>,
         UNCHANGED <<mode, pc, then, pass, restoreBlocked>>,
         blocked \subseteq blocked', paused => paused'
  PROVE  Outcome'
<1>1. OutboxInv' /\ LedgerInv'
  BY SameOutbox, SameLedger DEF Outcome
<1>2. SnapshotInv'
  BY SameSnapshots DEF Outcome, Doomed
<1>3. MemoryInv'
  BY DEF Outcome, MemoryInv, Serving, Unrestored
<1>4. SlotUse'
  BY SameSpawned DEF Outcome, SlotUse
<1>5. PauseInv'
  BY SameSpawned DEF Outcome, PauseInv
<1> QED
  BY <1>1, <1>2, <1>3, <1>4, <1>5 DEF Outcome

LEMMA CalmStep ==
  ASSUME OInv,
         \/ \E j \in Job : \/ CancelRunning(j) \/ PersistEventFails(j)
                           \/ ZombieTimeout(j) \/ SigkillAnswered(j)
         \/ \E j \in Job, w \in Priorities : UpdatePriority(j, w)
         \/ \E p \in [Job -> 0 .. Cardinality(Job)] : Reorder(p)
         \/ Pause \/ KillTimerFires \/ UNCHANGED vars
  PROVE  Outcome'
<1>1. ASSUME NEW j \in Job,
             \/ CancelRunning(j) \/ PersistEventFails(j)
             \/ ZombieTimeout(j) \/ SigkillAnswered(j)
      PROVE  Outcome'
  <2>1. CASE CancelRunning(j)
    BY <2>1, CalmOutcome DEF OInv, CancelRunning
  <2>2. CASE PersistEventFails(j)
    BY <2>2, CalmOutcome DEF OInv, PersistEventFails, FailStop
  <2>3. CASE ZombieTimeout(j)
    BY <2>3, CalmOutcome DEF OInv, ZombieTimeout
  <2>4. CASE SigkillAnswered(j)
    BY <2>4, CalmOutcome DEF OInv, SigkillAnswered
  <2> QED
    BY <1>1, <2>1, <2>2, <2>3, <2>4
<1>2. ASSUME NEW j \in Job, NEW w \in Priorities, UpdatePriority(j, w)
      PROVE  Outcome'
  BY <1>2, CalmOutcome DEF OInv, UpdatePriority
<1>3. ASSUME NEW p \in [Job -> 0 .. Cardinality(Job)], Reorder(p)
      PROVE  Outcome'
  BY <1>3, CalmOutcome DEF OInv, Reorder
<1>4. CASE Pause \/ KillTimerFires \/ UNCHANGED vars
  BY <1>4, CalmOutcome DEF OInv, Pause, KillTimerFires
<1> QED
  BY <1>1, <1>2, <1>3, <1>4

LEMMA ForgetOutcome ==
  ASSUME OInv, NEW j \in Job, Forget(j)
  PROVE  Outcome'
<1>1. /\ UNCHANGED <<outboxVars, row, saved, ledger, childVars, queueVars>>
      /\ UNCHANGED <<flagVars, handlerVars, history>>
      /\ forgotten' = forgotten \cup {j}
      /\ row[j] \in Terminal /\ j \notin outbox
  BY DEF Forget
<1>2. OutboxInv'
  BY <1>1 DEF OInv, Outcome, OutboxInv
<1>3. LedgerInv'
  BY <1>1, SameLedger DEF OInv, Outcome
<1>4. SnapshotInv'
  BY <1>1, SameSnapshots DEF OInv, Outcome, Doomed
<1>5. MemoryInv'
  BY <1>1 DEF OInv, Outcome, MemoryInv, Serving, Unrestored
<1>6. SlotUse'
  BY <1>1, SameSpawned DEF OInv, Outcome, SlotUse
<1>7. PauseInv'
  BY <1>1, SameSpawned DEF OInv, Outcome, PauseInv
<1> QED
  BY <1>2, <1>3, <1>4, <1>5, <1>6, <1>7 DEF Outcome

LEMMA AbandonStartOutcome ==
  ASSUME OInv, NEW j \in Job, AbandonStart(j)
  PROVE  Outcome'
<1>1. /\ UNCHANGED <<outboxVars, savedVars, ledger, child, lateVars, queueVars>>
      /\ UNCHANGED <<flagVars, handlerVars, history>>
      /\ starting' = starting \ {j}
      /\ mode # "up" \/ active # j
  BY DEF AbandonStart, CanContinueStart
<1>2. OutboxInv' /\ LedgerInv'
  BY <1>1, SameOutbox, SameLedger DEF OInv, Outcome
<1>3. SnapshotInv'
  BY <1>1, SameSnapshots DEF OInv, Outcome, Doomed
<1>4. MemoryInv'
  BY <1>1 DEF OInv, Outcome, MemoryInv, Serving, Unrestored
<1>5. SlotUse'
  BY <1>1, SameSpawned DEF OInv, Outcome, SlotUse
<1>6. PauseInv'
  BY <1>1, SameSpawned DEF OInv, Outcome, PauseInv
<1> QED
  BY <1>2, <1>3, <1>4, <1>5, <1>6 DEF Outcome

LEMMA ExitDisposedOutcome ==
  ASSUME OInv, NEW j \in Job, ExitDisposed(j)
  PROVE  Outcome'
<1>1. /\ UNCHANGED <<outboxVars, savedVars, ledger, starting, lateVars, status>>
      /\ UNCHANGED <<flagVars, handlerVars, history>>
      /\ active' \in {active, NoJob}
      /\ mode \in {"closing", "closed"}
  BY DEF ExitDisposed
<1>2. OutboxInv' /\ LedgerInv'
  BY <1>1, SameOutbox, SameLedger DEF OInv, Outcome
<1>3. SnapshotInv'
  <2>1. \A m \in Job : NoJob \notin Doomed(m)
    BY JobNotNull DEF Doomed, OInv, IInv, TypeOK, DiskTypes
  <2> QED
    BY <1>1, <2>1, SameSnapshots DEF OInv, Outcome, Doomed
<1>4. MemoryInv'
  BY <1>1, JobNotNull DEF OInv, Outcome, MemoryInv, Serving, Unrestored
<1>5. SlotUse'
  BY <1>1 DEF OInv, Outcome, SlotUse
<1>6. PauseInv'
  BY <1>1, SameSpawned DEF OInv, Outcome, PauseInv
<1> QED
  BY <1>2, <1>3, <1>4, <1>5, <1>6 DEF Outcome

LEMMA CrashOutcome ==
  ASSUME OInv, Crash
  PROVE  Outcome'
<1>1. /\ UNCHANGED <<outboxVars, row, forgotten, saved, ledger, history>>
      /\ status' = [j \in Job |-> "none"]
      /\ active' = NoJob /\ starting' = {} /\ child' = {}
      /\ forceFailed' = {} /\ lateClosed' = {} /\ pass' = {}
      /\ mode' = "down" /\ pc' = "idle" /\ then' = "settle"
      /\ restoreBlocked' = FALSE
  BY DEF Crash
<1>2. OutboxInv' /\ LedgerInv'
  BY <1>1, SameOutbox, SameLedger DEF OInv, Outcome
<1>3. SnapshotInv'
  <2>1. \A m \in Job : NoJob \notin Doomed(m)
    BY JobNotNull DEF Doomed, OInv, IInv, TypeOK, DiskTypes
  <2> QED
    BY <1>1, <2>1, SameSnapshots DEF OInv, Outcome, Doomed
<1>4. MemoryInv'
  BY <1>1, JobNotNull DEF Terminal, MemoryInv, Serving, Unrestored
<1>5. SlotUse'
  BY <1>1 DEF OInv, Outcome, SlotUse
<1>6. PauseInv'
  BY <1>1, SameSpawned DEF OInv, Outcome, PauseInv
<1> QED
  BY <1>2, <1>3, <1>4, <1>5, <1>6 DEF Outcome

LEMMA RestartOutcome ==
  ASSUME OInv, Restart
  PROVE  Outcome'
<1>1. /\ UNCHANGED <<outboxVars, savedVars, ledger, childVars, queueVars>>
      /\ UNCHANGED <<flagVars, pass, history>>
      /\ mode = "down" /\ mode' = "up" /\ pc' = "capture" /\ then' = "restore"
  BY DEF Restart
<1>2. active = NoJob /\ child = {} /\ \A j \in Job : status[j] = "none"
  BY <1>1 DEF OInv, IInv, Safe, Blank, Unrestored
<1>3. starting = {} /\ forceFailed = {}
  BY <1>1 DEF OInv, Outcome, MemoryInv, Unrestored
<1>4. OutboxInv' /\ LedgerInv'
  BY <1>1, SameOutbox, SameLedger DEF OInv, Outcome
<1>5. SnapshotInv'
  BY <1>1, SameSnapshots DEF OInv, Outcome, Doomed
<1>6. MemoryInv'
  BY <1>1, <1>2, <1>3 DEF Terminal, OInv, Outcome, MemoryInv, Serving, Unrestored
<1>7. SlotUse'
  BY <1>1, <1>2, <1>3 DEF OInv, Outcome, SlotUse
<1>8. PauseInv'
  BY <1>1, SameSpawned DEF OInv, Outcome, PauseInv
<1> QED
  BY <1>4, <1>5, <1>6, <1>7, <1>8 DEF Outcome
-----------------------------------------------------------------------------
(* Admission, and cancellation before a spawn.                             *)

(* A waiting job has left no trace.                                        *)
LEMMA WaitingJob ==
  ASSUME OInv, NEW j \in Job, j \in saved
  PROVE  /\ row[j] = "none" /\ spawns[j] = 0 /\ j \in admitted
         /\ ledger[j] = 0
         /\ j \notin outbox /\ j \notin forgotten /\ j \notin notified
         /\ j \notin accounted \cup called \cup finished \cup held \cup pass
         /\ descendants[j] = {}
<1>1. row[j] = "none" /\ spawns[j] = 0 /\ j \in admitted
  BY DEF OInv, IInv, Safe, AdmittedOnce, SpawnInv
<1>2. ledger[j] = 0
  BY <1>1 DEF OInv, Outcome, LedgerInv, Terminal, IInv, TypeOK, DiskTypes
<1> QED
  BY <1>1, <1>2 DEF OInv, Outcome, LedgerInv, OutboxInv, Terminal

LEMMA NewJob ==
  ASSUME OInv, NEW j \in Job, j \notin admitted
  PROVE  /\ row[j] = "none" /\ status[j] = "none" /\ j \notin saved
         /\ j # active /\ j \notin starting /\ j \notin child
         /\ \A m \in Job : j \notin descendants[m]
BY JobNotNull
   DEF OInv, Outcome, OutboxInv, IInv, Safe, AdmittedOnce, KnownJobs

LEMMA EnqueueOutcome ==
  ASSUME OInv, NEW j \in Job, Enqueue(j)
  PROVE  Outcome'
<1>1. /\ UNCHANGED <<outboxVars, row, forgotten, ledger, childVars, active>>
      /\ UNCHANGED <<flagVars, mode, pass, then, spawns, notified>>
      /\ mode = "up" /\ pc = "idle" /\ ~restoreBlocked /\ pc' = "drain"
      /\ j \notin admitted /\ admitted' = admitted \cup {j}
      /\ saved' = saved \cup {j}
      /\ status' = [status EXCEPT ![j] = "queued"]
      /\ Dep[j] # NoJob => Dep[j] \in admitted
  BY DEF Enqueue, Idle
<1>2. status \in [Job -> {"none", "queued", "running"} \cup Terminal]
  BY DEF OInv, IInv, TypeOK, QueueTypes
<1>3. OutboxInv' /\ LedgerInv'
  BY <1>1, SameOutbox, SameLedger DEF OInv, Outcome
<1>4. SnapshotInv'
  <2>1. \A m \in Job : Doomed(m)' = Doomed(m)
    BY <1>1, NewJob DEF Doomed
  <2> QED
    BY <1>1, <1>2, <2>1, NewJob, SameSnapshots DEF OInv, Outcome
<1>5. MemoryInv'
  BY <1>1, <1>2, NewJob DEF OInv, Outcome, MemoryInv, Serving, Unrestored, Terminal
<1>6. SlotUse'
  BY <1>1, <1>2, NewJob, SameSpawned DEF OInv, Outcome, SlotUse
<1>7. PauseInv'
  BY <1>1, SameSpawned DEF OInv, Outcome, PauseInv
<1> QED
  BY <1>3, <1>4, <1>5, <1>6, <1>7 DEF Outcome

LEMMA CancelBeforeSpawnOutcome ==
  ASSUME OInv, NEW j \in Job, CancelBeforeSpawn(j)
  PROVE  Outcome'
<1> DEFINE skipped == Descendants(j, Queued \ {j})
           gone == skipped \cup {j}
<1>1. skipped \subseteq Queued \ {j}
  BY DescendantsType
<1>2. /\ UNCHANGED <<forgotten, ledger, starting, child, lateVars, flagVars>>
      /\ UNCHANGED <<mode, history>>
      /\ row' = [k \in Job |-> IF k = j THEN "canceled"
                               ELSE IF k \in skipped THEN "skipped" ELSE row[k]]
      /\ status' = [k \in Job |-> IF k = j THEN "canceled"
                                  ELSE IF k \in skipped THEN "skipped" ELSE status[k]]
      /\ saved' = saved \ gone
      /\ outbox' = outbox \cup {j} /\ accounted' = accounted \cup {j}
      /\ called' = called \ {j} /\ finished' = finished \ {j} /\ held' = held \ {j}
      /\ descendants' = [descendants EXCEPT ![j] = skipped]
      /\ active' = IF active = j THEN NoJob ELSE active
      /\ pc' = "replay" /\ then' = "settle" /\ pass' \subseteq outbox'
      /\ mode = "up" /\ pc = "idle"
      /\ status[j] = "queued" \/ (Preparing(j) /\ j \notin blocked)
  BY DEF CancelBeforeSpawn, Replay, Idle
<1>3. \A k \in Doomed(j)' : FALSE
  BY <1>2 DEF Doomed, OInv, IInv, TypeOK, OutboxTypes
<1>4. \A k \in Queued \ {j} : Dep[k] \in gone => k \in gone
  BY DescendantsClosed
<1> HIDE DEF skipped
<1>5. ~Unrestored
  BY <1>2 DEF Preparing, OInv, IInv, Safe, Blank
<1>6. j \in saved /\ skipped \subseteq saved /\ skipped \subseteq Job
  BY <1>1, <1>2 DEF Preparing, Queued, OInv, Outcome, MemoryInv, SlotUse
<1>7. \A k \in gone : row[k] = "none" /\ k \in admitted /\ k \notin outbox /\
                      k \notin forgotten /\ ledger[k] = 0 /\ spawns[k] = 0
                      /\ k \notin notified /\ k \notin called
  BY <1>6, WaitingJob
<1>8. /\ descendants \in [Job -> SUBSET Job] /\ saved \subseteq Job
      /\ row \in [Job -> {"none", "running"} \cup Terminal]
      /\ status \in [Job -> {"none", "queued", "running"} \cup Terminal]
      /\ forceFailed \subseteq Job /\ starting \subseteq Job
  BY DEF OInv, IInv, TypeOK, DiskTypes, OutboxTypes, QueueTypes, ChildTypes
<1>a. /\ row'[j] = "canceled" /\ \A k \in skipped : row'[k] \in {"skipped", "canceled"}
      /\ \A k \in Job \ gone : row'[k] = row[k]
      /\ \A k \in Job : row'[k] \in Terminal \/ (k \notin gone /\ row'[k] = row[k])
  BY <1>2, <1>6 DEF Terminal
<1>9. OutboxInv'
  <2>1. accounted' \cup called' \cup finished' \cup held' \cup pass' \subseteq outbox'
    BY <1>2 DEF OInv, Outcome, OutboxInv
  <2>2. \A k \in outbox' : row'[k] \in Terminal \ {"skipped"} /\ k \notin forgotten'
    <3>1. outbox \subseteq Job
      BY DEF OInv, IInv, TypeOK, OutboxTypes
    <3>2. \A k \in outbox : row'[k] = row[k]
      BY <1>7, <1>a, <3>1
    <3> QED
      BY <1>2, <1>7, <1>a, <3>2 DEF OInv, Outcome, OutboxInv, Terminal
  <2>3. \A k \in forgotten' : row'[k] \in Terminal
    BY <1>2, <1>a DEF OInv, Outcome, OutboxInv, IInv, TypeOK, DiskTypes
  <2>4. ASSUME NEW m \in Job
        PROVE  /\ descendants'[m] \subseteq admitted'
               /\ descendants'[m] # {} => m \in outbox' /\ row'[m] # "completed"
    <3>1. CASE m = j
      BY <1>2, <1>7, <1>8, <1>a, <3>1
    <3>2. CASE m # j
      BY <1>2, <1>7, <1>8, <1>a, <3>2 DEF OInv, Outcome, OutboxInv
    <3> QED
      BY <3>1, <3>2
  <2> QED
    BY <2>1, <2>2, <2>3, <2>4 DEF OutboxInv
<1>10. LedgerInv'
  <2>1. SettledExactlyOnce'
    BY <1>2, <1>7, <1>a DEF OInv, Outcome, LedgerInv, SettledExactlyOnce
  <2>2. \A k \in Job : /\ ledger'[k] > 0 => row'[k] \in Terminal \ {"skipped"}
                       /\ spawns'[k] > 0 => row'[k] \notin {"none", "skipped"}
    BY <1>2, <1>7, <1>a DEF OInv, Outcome, LedgerInv
  <2>3. /\ \A k \in outbox' \ accounted' : ledger'[k] = 0
        /\ \A k \in accounted' : spawns'[k] > 0 => ledger'[k] = 1
        /\ called' \subseteq notified'
    BY <1>2, <1>7 DEF OInv, Outcome, LedgerInv
  <2>4. \A k \in notified' : row'[k] \in Terminal
    BY <1>2, <1>a DEF OInv, Outcome, LedgerInv, IInv, TypeOK, HistoryTypes
  <2> QED
    BY <2>1, <2>2, <2>3, <2>4 DEF LedgerInv
<1>11. SnapshotInv'
  <2>1. \A m \in Job : m # j => Doomed(m)' = Doomed(m) \ gone
    BY <1>2, <1>8 DEF Doomed
  <2>2. ASSUME NEW m \in Job, m # j, NEW k \in Doomed(m), k \notin gone
        PROVE  Dep[k] \in (Doomed(m) \ gone) \cup {m}
    <3>1. k \in Job /\ k \in saved /\ status[k] = "queued"
      BY <1>2, <1>5, <1>8 DEF Doomed, OInv, Outcome, MemoryInv, SnapshotInv, Serving
    <3>2. Dep[k] \notin gone
      BY <1>4, <2>2, <3>1 DEF Queued
    <3> QED
      BY <3>2 DEF OInv, Outcome, SnapshotInv
  <2>3. \A m \in Job : active' \in Doomed(m)' => status'[active'] # "running"
    <3>1. \A m \in Job : NoJob \notin Doomed(m)'
      BY <1>2, <1>8, JobNotNull DEF Doomed
    <3> QED
      BY <1>2, <1>3, <1>8, <2>1, <3>1 DEF OInv, Outcome, SnapshotInv, Doomed
  <2> QED
    BY <1>3, <2>1, <2>2, <2>3 DEF OInv, Outcome, SnapshotInv
<1>12. MemoryInv'
  BY <1>1, <1>2, <1>5, <1>6, <1>7, <1>8, JobNotNull
     DEF OInv, Outcome, MemoryInv, Serving, Unrestored, Terminal, Queued
<1>b. \A k \in Job : active' = k =>
        /\ active = k /\ k # j
        /\ status[k] = "running" => k \notin gone /\ status'[k] = "running"
        /\ status'[k] = "running" => status[k] = "running"
  BY <1>1, <1>2, <1>8, JobNotNull DEF Queued, Terminal
<1>13. SlotUse'
  <2>1. \A k \in admitted' : Dep[k] \in admitted' \cup {NoJob}
    BY <1>2 DEF OInv, Outcome, SlotUse
  <2>2. ASSUME NEW k \in starting', active' = k
        PROVE  /\ status'[k] = "running" /\ k \in saved'
               /\ Dep[k] # NoJob => row'[Dep[k]] = "completed" \/ Dep[k] \in forgotten'
               /\ Cardinality(Spawned') < BudgetCap
    <3>1. /\ k \in starting /\ k \in Job /\ active = k /\ status[k] = "running"
          /\ k \in saved /\ k \in admitted
          /\ Dep[k] # NoJob => row[Dep[k]] = "completed" \/ Dep[k] \in forgotten
          /\ Cardinality(Spawned) < BudgetCap
      BY <1>2, <1>6, <1>8, <1>b, <2>2
         DEF OInv, Outcome, SlotUse, IInv, Safe, KnownJobs
    <3>2. Dep[k] # NoJob => Dep[k] \in Job
      BY <3>1 DEF OInv, Outcome, SlotUse, IInv, TypeOK, HistoryTypes
    <3>3. Dep[k] # NoJob /\ row[Dep[k]] = "completed" => row'[Dep[k]] = "completed"
      BY <1>7, <1>a, <3>2
    <3> QED
      BY <1>2, <1>b, <2>2, <3>1, <3>3, SameSpawned
  <2>3. /\ \A k \in Job : active' = k /\ status'[k] = "running" =>
             k \in starting' \cup child' \cup blocked'
        /\ \A k \in child' \ forceFailed' : status'[k] = "running" /\ row'[k] = "running"
    <3>1. \A k \in child \ forceFailed : k \notin gone
      BY <1>2, <1>7 DEF OInv, Outcome, SlotUse
    <3>2. child \subseteq Job
      BY DEF OInv, IInv, TypeOK, ChildTypes
    <3> QED
      BY <1>2, <1>a, <1>b, <3>1, <3>2 DEF OInv, Outcome, SlotUse
  <2> QED
    BY <2>1, <2>2, <2>3 DEF SlotUse
<1>14. PauseInv'
  BY <1>2, <1>5, SameSpawned DEF OInv, Outcome, PauseInv, Unrestored
<1> QED
  BY <1>9, <1>10, <1>11, <1>12, <1>13, <1>14 DEF Outcome
-----------------------------------------------------------------------------
(* The drain of the queue, and the start of a job.                         *)

LEMMA SpawnedFinite ==
  IsFiniteSet(Spawned) /\ Cardinality(Spawned) \in Nat
<1>1. Spawned \in SUBSET Job
  BY DEF Spawned
<1>2. IsFiniteSet(Spawned)
  BY <1>1, FS_Subset, JobAssumption
<1> QED
  BY <1>2, FS_CardinalityType

(* The spend of every job is known while the slot is free and nothing is   *)
(* outstanding.                                                            *)
LEMMA KnownSpend ==
  ASSUME OInv, Serving, NEW j \in Job, spawns[j] > 0, active # j,
         outbox \subseteq accounted
  PROVE  ledger[j] > 0
<1>1. row[j] \in Terminal \ {"skipped"}
  <2>1. row[j] \notin {"none", "skipped", "running"}
    BY DEF OInv, Outcome, LedgerInv, MemoryInv
  <2> QED
    BY <2>1 DEF OInv, IInv, TypeOK, DiskTypes
<1> QED
  BY <1>1 DEF OInv, Outcome, LedgerInv, SettledExactlyOnce

(* The job that is taken from the queue is in no snapshot, its parent has  *)
(* completed or is forgotten, and the budget has room for it.              *)
LEMMA ReservedJob ==
  ASSUME OInv, Serving, active = NoJob, ~paused, pc = "drain",
         NEW j \in Job, Ready(j), ~OverBudget
  PROVE  /\ \A m \in Job : j \notin Doomed(m)
         /\ Dep[j] # NoJob => row[Dep[j]] = "completed" \/ Dep[j] \in forgotten
         /\ Cardinality(Spawned) < BudgetCap
<1>1. status[j] = "queued" /\ j \in saved /\ j \in admitted
  BY WaitingJob DEF Ready, OInv, Outcome, MemoryInv
<1>2. ASSUME NEW m \in Job, j \in Doomed(m)
      PROVE  FALSE
  <2>1. Dep[j] \in Doomed(m) \cup {m}
    BY <1>2 DEF OInv, Outcome, SnapshotInv
  <2>2. /\ m \in outbox /\ row[m] # "completed" /\ m \notin forgotten
        /\ row[m] \in Terminal
    BY <1>2 DEF Doomed, OInv, Outcome, OutboxInv
  <2>3. Dep[j] # NoJob
    BY <2>1, JobNotNull DEF Doomed, OInv, IInv, TypeOK, DiskTypes
  <2>4. CASE Dep[j] = m
    BY <1>1, <2>2, <2>3, <2>4
       DEF Ready, DependencyMet, DependencyStatus, OInv, Outcome, MemoryInv, IInv,
           TypeOK, QueueTypes, Terminal
  <2>5. CASE Dep[j] \in Doomed(m)
    <3>1. Dep[j] \in Job /\ Dep[j] \in saved
      BY <2>5 DEF Doomed, OInv, IInv, TypeOK, DiskTypes
    <3>2. status[Dep[j]] = "queued"
      BY <3>1, JobNotNull DEF OInv, Outcome, MemoryInv
    <3> QED
      BY <2>3, <3>2 DEF Ready, DependencyMet, DependencyStatus
  <2> QED
    BY <2>1, <2>4, <2>5
<1>3. ASSUME Dep[j] # NoJob
      PROVE  row[Dep[j]] = "completed" \/ Dep[j] \in forgotten
  <2>1. Dep[j] \in admitted /\ Dep[j] \in Job
    BY <1>1, <1>3 DEF OInv, Outcome, SlotUse, IInv, TypeOK, HistoryTypes
  <2>2. DependencyStatus(Dep[j]) \in {"none", "completed"}
    BY <1>3 DEF Ready, DependencyMet
  <2>3. row[Dep[j]] = "none" => Dep[j] \in saved
    BY <2>1 DEF OInv, IInv, Safe, AdmittedOnce
  <2> QED
    BY <2>1, <2>2, <2>3
       DEF DependencyStatus, Terminal, OInv, Outcome, MemoryInv
<1>4. Cardinality(Spawned) < BudgetCap
  <2> DEFINE L == {k \in Job : ledger[k] > 0}
  <2>1. Spawned \subseteq L
    BY KnownSpend, JobNotNull DEF Spawned, OInv, Outcome, PauseInv, Serving
  <2>2. IsFiniteSet(L) /\ Cardinality(Spawned) <= Cardinality(L)
        /\ Cardinality(L) \in Nat
    <3>1. IsFiniteSet(L)
      BY FS_Subset, JobAssumption
    <3> QED
      BY <2>1, <3>1, FS_Subset, FS_CardinalityType
  <2>3. ~(Cardinality(L) >= BudgetCap)
    BY DEF OverBudget
  <2> HIDE DEF L
  <2> QED
    BY <2>2, <2>3, SpawnedFinite, BoundAssumption
<1> QED
  BY <1>2, <1>3, <1>4

LEMMA DrainOutcome ==
  ASSUME OInv, Drain
  PROVE  Outcome'
<1>1. /\ UNCHANGED <<outboxVars, row, forgotten, saved, ledger, child, lateVars>>
      /\ UNCHANGED <<restoreBlocked, blocked, mode, then, pass, history>>
      /\ pc = "drain" /\ pc' = "idle"
  BY DEF Drain
<1>p. paused => paused'
  BY DEF Drain, Reserve, CanDrain
<1>2. OutboxInv' /\ LedgerInv'
  BY <1>1, SameOutbox, SameLedger DEF OInv, Outcome
<1>3. PauseInv'
  BY <1>1, <1>p, SameSpawned DEF OInv, Outcome, PauseInv
<1>4. CASE UNCHANGED <<status, active, starting>>
  <2>1. SnapshotInv'
    BY <1>1, <1>4, SameSnapshots DEF OInv, Outcome, Doomed
  <2>2. MemoryInv'
    BY <1>1, <1>4 DEF OInv, Outcome, MemoryInv, Serving, Unrestored, PauseInv
  <2>3. SlotUse'
    BY <1>1, <1>4, SameSpawned DEF OInv, Outcome, SlotUse
  <2> QED
    BY <1>2, <1>3, <2>1, <2>2, <2>3 DEF Outcome
<1>5. ASSUME NEW j \in Job, Reserve(j), CanDrain, ~OverBudget
      PROVE  Outcome'
  <2>1. /\ active' = j /\ status' = [status EXCEPT ![j] = "running"]
        /\ starting' = starting \cup {j} /\ Ready(j) /\ status[j] = "queued"
        /\ mode = "up" /\ active = NoJob /\ ~paused
    BY <1>5 DEF Reserve, CanDrain, Ready
  <2>2. Serving
    BY <1>1, <2>1 DEF Serving, Unrestored, OInv, Outcome, PauseInv
  <2>3. /\ \A m \in Job : j \notin Doomed(m)
        /\ Dep[j] # NoJob => row[Dep[j]] = "completed" \/ Dep[j] \in forgotten
        /\ Cardinality(Spawned) < BudgetCap
    BY <1>1, <1>5, <2>1, <2>2, ReservedJob
  <2>4. status \in [Job -> {"none", "queued", "running"} \cup Terminal]
    BY DEF OInv, IInv, TypeOK, QueueTypes
  <2>5. j \in saved /\ row[j] = "none" /\ j \notin forceFailed
    BY <2>1, WaitingJob DEF OInv, Outcome, MemoryInv
  <2>6. SnapshotInv'
    BY <1>1, <2>1, <2>3 DEF OInv, Outcome, SnapshotInv, Doomed
  <2>7. MemoryInv'
    <3>1. then' # "flush"
      BY <1>1, <2>1 DEF OInv, IInv, Safe, Blank
    <3>2. \A k \in Job : row[k] # "running" /\ (k \in saved => status[k] = "queued")
      BY <2>1, <2>2, JobNotNull DEF OInv, Outcome, MemoryInv
    <3>3. /\ status'[j] = "running" /\ "running" \notin Terminal
          /\ \A k \in Job : k # j => status'[k] = status[k]
      BY <2>1, <2>4 DEF Terminal
    <3>4. \A k \in Job : /\ status'[k] \in Terminal => row'[k] = status'[k]
                         /\ status'[k] = "queued" => k \in saved'
                         /\ status'[k] = "running" /\ active' = k =>
                              row'[k] \in {"none", "running"}
      BY <1>1, <2>1, <2>5, <3>3 DEF OInv, Outcome, MemoryInv
    <3>5. /\ \A k \in saved' :
               status'[k] = "queued" \/ (status'[k] = "running" /\ active' = k)
          /\ \A k \in Job : row'[k] # "running"
      <4>1. saved \subseteq Job
        BY DEF OInv, IInv, TypeOK, DiskTypes
      <4> QED
        BY <1>1, <2>1, <3>2, <3>3, <4>1
    <3>6. ~Unrestored'
      BY <1>1, <2>1, <2>2 DEF Serving, Unrestored
    <3>7. /\ \A k \in forceFailed' : status'[k] = "failed"
          /\ \A k \in starting' : status'[k] # "queued"
          /\ lateClosed' \subseteq forceFailed'
      BY <1>1, <2>1, <2>4, <2>5 DEF OInv, Outcome, MemoryInv, IInv, TypeOK, ChildTypes
    <3> QED
      BY <1>1, <2>1, <3>1, <3>4, <3>5, <3>6, <3>7 DEF MemoryInv
  <2>8. SlotUse'
    <3>1. child \ forceFailed = {}
      BY <2>1, JobNotNull DEF OInv, IInv, Safe, SlotInv, OneChild, TypeOK, ChildTypes
    <3> QED
      BY <1>1, <2>1, <2>3, <2>4, <2>5, <3>1, SameSpawned DEF OInv, Outcome, SlotUse
  <2> QED
    BY <1>2, <1>3, <2>6, <2>7, <2>8 DEF Outcome
<1> QED
  BY <1>4, <1>5 DEF Drain

(* A starting job has been given a child, or is taken for having one.      *)
LEMMA PromotedOutcome ==
  ASSUME OInv, NEW j \in Job, j \in starting, mode = "up", active = j,
         UNCHANGED <<outboxVars, forgotten, ledger, status, active, lateVars>>,
         UNCHANGED <<mode, restoreBlocked, pc, then, pass, admitted, notified>>,
         starting' = starting \ {j},
         row' = [row EXCEPT ![j] = "running"], saved' = saved \ {j},
         \A k \in Job : k # j => spawns'[k] = spawns[k]
  PROVE  OutboxInv' /\ LedgerInv' /\ SnapshotInv' /\ MemoryInv'
<1>1. status[j] = "running" /\ j \in saved
  BY DEF OInv, Outcome, SlotUse
<1>2. /\ row[j] = "none" /\ ledger[j] = 0 /\ j \notin outbox /\ j \notin forgotten
      /\ j \notin notified /\ j \notin accounted
      /\ j \notin called /\ descendants[j] = {}
  BY <1>1, WaitingJob
<1>3. row \in [Job -> {"none", "running"} \cup Terminal]
  BY DEF OInv, IInv, TypeOK, DiskTypes
<1>4. row'[j] = "running" /\ \A k \in Job : k # j => row'[k] = row[k]
  BY <1>3
<1>5. OutboxInv'
  <2>1. outbox \subseteq Job /\ forgotten \subseteq Job
    BY DEF OInv, IInv, TypeOK, OutboxTypes, DiskTypes
  <2> QED
    BY <1>2, <1>4, <2>1 DEF OInv, Outcome, OutboxInv
<1>6. LedgerInv'
  <2>1. SettledExactlyOnce'
    BY <1>2, <1>4 DEF OInv, Outcome, LedgerInv, SettledExactlyOnce, Terminal
  <2>2. outbox \subseteq Job /\ accounted \subseteq Job /\ notified \subseteq Job
    BY DEF OInv, IInv, TypeOK, OutboxTypes, HistoryTypes
  <2> QED
    BY <1>2, <1>4, <2>1, <2>2 DEF OInv, Outcome, LedgerInv
<1>7. SnapshotInv'
  <2>1. \A m \in Job : Doomed(m)' = Doomed(m)
    BY <1>1 DEF Doomed, OInv, Outcome, SnapshotInv
  <2> QED
    BY <2>1, SameSnapshots DEF OInv, Outcome
<1>8. MemoryInv'
  BY <1>1, <1>2, <1>4 DEF OInv, Outcome, MemoryInv, Serving, Unrestored, Terminal
<1> QED
  BY <1>5, <1>6, <1>7, <1>8

LEMMA SpawnOutcome ==
  ASSUME OInv, NEW j \in Job, Spawn(j)
  PROVE  Outcome'
<1>1. /\ UNCHANGED <<outboxVars, forgotten, ledger, lateVars, queueVars>>
      /\ UNCHANGED <<flagVars, handlerVars, admitted, notified>>
      /\ j \in starting /\ mode = "up" /\ active = j
      /\ starting' = starting \ {j} /\ child' = child \cup {j}
      /\ row' = [row EXCEPT ![j] = "running"] /\ saved' = saved \ {j}
      /\ spawns' = [spawns EXCEPT ![j] = @ + 1]
  BY DEF Spawn, CanContinueStart
<1>2. spawns \in [Job -> Nat] /\ row \in [Job -> {"none", "running"} \cup Terminal]
  BY DEF OInv, IInv, TypeOK, HistoryTypes, DiskTypes
<1>3. OutboxInv' /\ LedgerInv' /\ SnapshotInv' /\ MemoryInv'
  BY <1>1, <1>2, PromotedOutcome
<1>4. status[j] = "running" /\ Cardinality(Spawned) < BudgetCap
  BY <1>1 DEF OInv, Outcome, SlotUse
<1>5. SlotUse'
  <2>1. \A k \in child' \ forceFailed' : status'[k] = "running" /\ row'[k] = "running"
    BY <1>1, <1>2, <1>4 DEF OInv, Outcome, SlotUse, IInv, TypeOK, ChildTypes
  <2> QED
    BY <1>1, <2>1 DEF OInv, Outcome, SlotUse
<1>6. PauseInv'
  <2>1. Spawned' = Spawned \cup {j}
    BY <1>1, <1>2 DEF Spawned
  <2>2. Cardinality(Spawned') <= Cardinality(Spawned) + 1
    <3>1. Cardinality(Spawned \cup {j}) =
            IF j \in Spawned THEN Cardinality(Spawned) ELSE Cardinality(Spawned) + 1
      BY SpawnedFinite, FS_AddElement
    <3> QED
      BY <2>1, <3>1, SpawnedFinite
  <2>3. Cardinality(Spawned') \in Nat
    BY <2>1, SpawnedFinite, FS_AddElement, FS_CardinalityType
  <2>4. Cardinality(Spawned') <= BudgetCap
    BY <1>4, <2>2, <2>3, SpawnedFinite, BoundAssumption
  <2> QED
    BY <1>1, <2>4 DEF OInv, Outcome, PauseInv
<1> QED
  BY <1>3, <1>5, <1>6 DEF Outcome
-----------------------------------------------------------------------------
(* The jobs of S get an intent, and the spend of others is reopened.       *)
Settles(S, spend) ==
  /\ UNCHANGED <<forgotten, admitted, spawns, notified>>
  /\ saved' = saved \ S
  /\ outbox' = outbox \cup S
  /\ accounted' = accounted \ (S \cup spend)
  /\ called' = called \ S /\ finished' = finished \ S
  /\ held' \cup pass' \subseteq outbox'
  /\ \A j \in Job : ledger'[j] = IF j \in spend THEN 0 ELSE ledger[j]
  /\ \A j \in Job \ S : row'[j] = row[j] /\ descendants'[j] = descendants[j]
  /\ \A j \in S : /\ row'[j] \in Terminal \ {"skipped"}
                  /\ descendants'[j] = IF row'[j] = "completed" THEN {}
                                       ELSE Descendants(j, saved)

LEMMA SettlesOutcome ==
  ASSUME OInv, NEW S \in SUBSET Job, NEW spend \in SUBSET outbox, Settles(S, spend),
         \A j \in S : j \in admitted /\ row[j] \in {"none", "running"},
         \A j \in S, m \in Job : j \notin Doomed(m),
         \A j, k \in S : j # k => j \notin saved,
         \A k \in Job : active' = k /\ status'[k] = "running" =>
                          S = {} /\ active = k /\ status[k] = "running"
  PROVE  OutboxInv' /\ LedgerInv' /\ SnapshotInv'
<1>1. /\ outbox \subseteq Job /\ saved \subseteq Job /\ forgotten \subseteq Job
      /\ notified \subseteq Job
      /\ row \in [Job -> {"none", "running"} \cup Terminal]
      /\ ledger \in [Job -> Nat]
      /\ \A j \in Job : descendants[j] \subseteq Job
  BY DEF OInv, IInv, TypeOK, OutboxTypes, DiskTypes, HistoryTypes
<1>2. \A j \in S : /\ row[j] \notin Terminal /\ ledger[j] = 0 /\ j \notin outbox
                   /\ j \notin forgotten /\ j \notin notified
  BY <1>1 DEF OInv, Outcome, OutboxInv, LedgerInv, Terminal
<1>3. \A k \in saved : row[k] = "none" /\ k \in admitted /\ k \notin outbox
  BY <1>1, WaitingJob
<1>4. \A j \in Job : Descendants(j, saved) \subseteq saved
  BY DescendantsType
<1>5. OutboxInv'
  <2>1. accounted' \cup called' \cup finished' \cup held' \cup pass' \subseteq outbox'
    BY DEF Settles, OInv, Outcome, OutboxInv
  <2>2. \A k \in outbox' : row'[k] \in Terminal \ {"skipped"} /\ k \notin forgotten'
    BY <1>1, <1>2 DEF Settles, OInv, Outcome, OutboxInv
  <2>3. \A k \in forgotten' : row'[k] \in Terminal
    BY <1>1, <1>2 DEF Settles, OInv, Outcome, OutboxInv
  <2>4. ASSUME NEW m \in Job
        PROVE  /\ descendants'[m] \subseteq admitted'
               /\ descendants'[m] # {} => m \in outbox' /\ row'[m] # "completed"
    <3>1. CASE m \in S
      BY <1>3, <1>4, <3>1 DEF Settles
    <3>2. CASE m \notin S
      BY <3>2 DEF Settles, OInv, Outcome, OutboxInv
    <3> QED
      BY <3>1, <3>2
  <2> QED
    BY <2>1, <2>2, <2>3, <2>4 DEF OutboxInv
<1>6. LedgerInv'
  <2>1. \A k \in Job \ outbox' : k \notin spend /\ k \notin S /\ k \notin outbox
    BY DEF Settles
  <2>2. SettledExactlyOnce'
    BY <2>1 DEF Settles, OInv, Outcome, LedgerInv, SettledExactlyOnce
  <2>3. \A k \in Job : /\ ledger'[k] > 0 => row'[k] \in Terminal \ {"skipped"}
                       /\ spawns'[k] > 0 => row'[k] \notin {"none", "skipped"}
    BY <1>2 DEF Settles, OInv, Outcome, LedgerInv, Terminal
  <2>4. /\ \A k \in outbox' \ accounted' : ledger'[k] = 0
        /\ \A k \in accounted' : spawns'[k] > 0 => ledger'[k] = 1
        /\ called' \subseteq notified'
    BY <1>1, <1>2 DEF Settles, OInv, Outcome, LedgerInv, OutboxInv
  <2>5. \A k \in notified' : row'[k] \in Terminal
    BY <1>1, <1>2 DEF Settles, OInv, Outcome, LedgerInv
  <2> QED
    BY <2>2, <2>3, <2>4, <2>5 DEF LedgerInv
<1>7. SnapshotInv'
  <2>1. \A m \in Job \ S : Doomed(m)' = Doomed(m)
    BY DEF Settles, Doomed
  <2>2. \A m \in S : Doomed(m)' \subseteq Descendants(m, saved) \cap saved
    BY DEF Settles, Doomed
  <2>3. ASSUME NEW m \in S, NEW k \in Doomed(m)'
        PROVE  Dep[k] \in Doomed(m)' \cup {m}
    <3>1. descendants'[m] = Descendants(m, saved) /\ k \in Descendants(m, saved)
      BY <2>3 DEF Settles, Doomed
    <3>2. Dep[k] \in Descendants(m, saved) \cup {m}
      BY <3>1, DescendantsParent
    <3>3. Dep[k] \in Descendants(m, saved) => Dep[k] \in saved \ S \/ Dep[k] = m
      <4>1. k \in saved /\ k \notin S
        BY <2>3 DEF Settles, Doomed
      <4>2. ASSUME Dep[k] \in S, Dep[k] # m PROVE Dep[k] \notin saved
        BY <4>2
      <4> QED
        BY <1>4, <4>2
    <3> QED
      BY <3>1, <3>2, <3>3 DEF Settles, Doomed
  <2>4. ASSUME NEW m \in S, NEW n \in Job, m # n
        PROVE  Doomed(m)' \cap Doomed(n)' = {}
    <3>1. CASE n \in S
      <4>1. m \notin saved /\ n \notin saved
        BY <2>4, <3>1
      <4>2. Descendants(m, saved) \cap Descendants(n, saved) = {}
        <5>1. /\ Descendants(n, saved) \in SUBSET saved
              /\ m \notin Descendants(n, saved)
              /\ \A k \in Descendants(n, saved) : Dep[k] \in Descendants(n, saved) \cup {n}
          BY <4>1, DescendantsType, DescendantsParent
        <5> QED
          BY <2>4, <4>1, <5>1, FreshSnapshot
      <4> QED
        BY <2>2, <3>1, <4>2
    <3>2. CASE n \notin S /\ Doomed(n) # {}
      <4>1. n \notin saved
        BY <1>3, <3>2 DEF Doomed, OInv, Outcome, OutboxInv
      <4>2. Doomed(n) \in SUBSET saved /\ m \notin Doomed(n)
        BY DEF Doomed
      <4>3. \A k \in Doomed(n) : Dep[k] \in Doomed(n) \cup {n}
        BY DEF OInv, Outcome, SnapshotInv
      <4>4. Descendants(m, saved) \cap Doomed(n) = {}
        BY <2>4, <4>1, <4>2, <4>3, FreshSnapshot
      <4> QED
        BY <2>1, <2>2, <3>2, <4>4
    <3>3. CASE n \notin S /\ Doomed(n) = {}
      BY <2>1, <3>3
    <3> QED
      BY <3>1, <3>2, <3>3
  <2>5. \A m \in Job : \A k \in Doomed(m)' : Dep[k] \in Doomed(m)' \cup {m}
    BY <2>1, <2>3 DEF OInv, Outcome, SnapshotInv
  <2>6. \A m, n \in Job : m # n => Doomed(m)' \cap Doomed(n)' = {}
    BY <2>1, <2>4 DEF OInv, Outcome, SnapshotInv
  <2>7. ASSUME NEW m \in Job, active' \in Doomed(m)', status'[active'] = "running"
        PROVE  FALSE
    <3>1. active' \in Job
      BY <1>1, <2>7 DEF Settles, Doomed
    <3>2. S = {} /\ active = active' /\ status[active] = "running"
      BY <2>7, <3>1
    <3> QED
      BY <2>1, <2>7, <3>2 DEF OInv, Outcome, SnapshotInv
  <2> QED
    BY <2>5, <2>6, <2>7 DEF SnapshotInv
<1> QED
  BY <1>5, <1>6, <1>7
-----------------------------------------------------------------------------
(* The job in the slot ends: a start that failed, an exit, a child that    *)
(* cannot be killed.                                                       *)
LEMMA SlotJob ==
  ASSUME OInv, NEW j \in Job, active = j, status[j] = "running"
  PROVE  /\ row[j] \in {"none", "running"} /\ j \in admitted /\ j \notin forceFailed
         /\ \A m \in Job : j \notin Doomed(m)
         /\ mode = "up" => ~Unrestored /\ ~restoreBlocked
BY JobNotNull
   DEF OInv, Outcome, MemoryInv, SnapshotInv, IInv, Safe, KnownJobs, Blank, Unrestored

LEMMA StagedOutcome ==
  ASSUME OInv, NEW j \in Job, active = j, status[j] = "running",
         NEW st \in Terminal \ {"skipped"}, NEW hold, Stage({j}, st, hold),
         UNCHANGED <<ledger, spawns, notified, admitted, mode, restoreBlocked>>,
         UNCHANGED lateClosed,
         status' = [status EXCEPT ![j] = st], active' = NoJob,
         NEW next \in {"settle", "exit"}, Replay(next), starting' \subseteq starting,
         \/ forceFailed' = forceFailed
         \/ forceFailed' = forceFailed \cup {j} /\ st = "failed",
         mode = "up" => child' \subseteq forceFailed'
  PROVE  Outcome'
<1>1. /\ row[j] \in {"none", "running"} /\ j \in admitted /\ j \notin forceFailed
      /\ \A m \in Job : j \notin Doomed(m)
      /\ mode = "up" => ~Unrestored /\ ~restoreBlocked
  BY SlotJob
<1>2. /\ saved' = saved \ {j} /\ outbox' = outbox \cup {j}
      /\ accounted' = accounted \ {j}
      /\ pc' = "replay" /\ then' \in {"settle", "exit"} /\ pass' \subseteq outbox'
      /\ held' \subseteq outbox' /\ UNCHANGED forgotten
      /\ row' = [k \in Job |-> IF k \in {j} THEN st ELSE row[k]]
  BY DEF Stage, Replay, OInv, Outcome, OutboxInv
<1>3. Settles({j}, {})
  BY <1>2 DEF Stage, Settles
<1>4. OutboxInv' /\ LedgerInv' /\ SnapshotInv'
  BY <1>1, <1>3, JobNotNull, SettlesOutcome
<1>5. /\ status \in [Job -> {"none", "queued", "running"} \cup Terminal]
      /\ saved \subseteq Job /\ forceFailed \subseteq Job /\ starting \subseteq Job
  BY DEF OInv, IInv, TypeOK, QueueTypes, DiskTypes, ChildTypes
<1>6. MemoryInv'
  <2>1. \A k \in Job : /\ status'[k] \in Terminal => row'[k] = status'[k]
                       /\ status'[k] = "queued" => k \in saved'
                       /\ active' # k
    BY <1>2, <1>5, JobNotNull DEF OInv, Outcome, MemoryInv, Terminal
  <2>2. Serving' => /\ \A k \in saved' : status'[k] = "queued"
                    /\ \A k \in Job : row'[k] # "running"
    <3> SUFFICES ASSUME mode = "up"
                 PROVE  /\ \A k \in saved' : status'[k] = "queued"
                        /\ \A k \in Job : row'[k] # "running"
      BY DEF Serving
    <3>1. Serving
      BY <1>1 DEF Serving
    <3>2. st # "running"
      BY DEF Terminal
    <3> QED
      BY <1>2, <1>5, <3>1, <3>2 DEF OInv, Outcome, MemoryInv
  <2>3. Unrestored' => starting' = {} /\ forceFailed' = {}
    BY <1>1, <1>2, JobNotNull DEF OInv, Outcome, MemoryInv, Unrestored, IInv, Safe, Blank
  <2>4. /\ \A k \in forceFailed' : status'[k] = "failed"
        /\ lateClosed' \subseteq forceFailed'
        /\ \A k \in starting' : status'[k] # "queued"
    BY <1>1, <1>5 DEF OInv, Outcome, MemoryInv, Terminal
  <2> QED
    BY <1>2, <2>1, <2>2, <2>3, <2>4 DEF MemoryInv
<1>7. SlotUse'
  BY <1>5, JobNotNull DEF OInv, Outcome, SlotUse
<1>8. PauseInv'
  <2>1. mode # "down" \/ ~restoreBlocked
    BY JobNotNull DEF OInv, IInv, Safe, Blank, Unrestored
  <2> QED
    BY <1>1, <1>2, <2>1, SameSpawned DEF OInv, Outcome, PauseInv
<1> QED
  BY <1>4, <1>6, <1>7, <1>8 DEF Outcome

LEMMA WedgeFailedOutcome ==
  ASSUME OInv, NEW j \in Job, WedgeFailed(j)
  PROVE  Outcome'
<1>1. /\ UNCHANGED <<ledger, spawns, notified, admitted, mode, restoreBlocked>>
      /\ UNCHANGED <<lateVars, child>>
      /\ j \in starting /\ mode = "up" /\ active = j
      /\ starting' \subseteq starting /\ Stage({j}, "failed", FALSE)
      /\ status' = [status EXCEPT ![j] = "failed"] /\ active' = NoJob
      /\ Replay("settle")
  BY DEF WedgeFailed, CanContinueStart
<1>2. status[j] = "running"
  BY <1>1 DEF OInv, Outcome, SlotUse
<1>3. child \subseteq forceFailed
  BY <1>1 DEF OInv, IInv, Safe, SlotInv, OneChild, SpawnInv
<1>4. "failed" \in Terminal \ {"skipped"}
  BY DEF Terminal
<1> QED
  BY <1>1, <1>2, <1>3, <1>4, StagedOutcome

LEMMA WedgeUnsettledOutcome ==
  ASSUME OInv, NEW j \in Job, WedgeUnsettled(j)
  PROVE  Outcome'
<1>1. /\ UNCHANGED <<outboxVars, forgotten, ledger, child, lateVars>>
      /\ UNCHANGED <<restoreBlocked, handlerVars, history>>
      /\ j \in starting /\ mode = "up" /\ active = j /\ pc = "idle"
      /\ starting' = starting \ {j} /\ paused' = TRUE
  BY DEF WedgeUnsettled, CanContinueStart, FailStop
<1>2. status[j] = "running" /\ j \in saved
  BY <1>1 DEF OInv, Outcome, SlotUse
<1>3. j \notin forceFailed /\ ~Unrestored /\ \A m \in Job : j \notin Doomed(m)
  BY <1>1, <1>2, SlotJob
<1>4. child \subseteq forceFailed
  BY <1>1 DEF OInv, IInv, Safe, SlotInv, OneChild, SpawnInv
<1>5. PauseInv'
  BY <1>1, SameSpawned DEF OInv, Outcome, PauseInv
<1>6. CASE /\ status' = [status EXCEPT ![j] = "queued"] /\ active' = NoJob
           /\ UNCHANGED <<row, saved>>
  <2>1. OutboxInv' /\ LedgerInv'
    BY <1>1, <1>6, SameOutbox, SameLedger DEF OInv, Outcome
  <2>2. SnapshotInv'
    <3>1. \A m \in Job : NoJob \notin Doomed(m)
      BY JobNotNull DEF Doomed, OInv, IInv, TypeOK, DiskTypes
    <3> QED
      BY <1>1, <1>6, <3>1, SameSnapshots DEF OInv, Outcome, Doomed
  <2>3. MemoryInv'
    <3>1. /\ status \in [Job -> {"none", "queued", "running"} \cup Terminal]
          /\ starting \subseteq Job /\ forceFailed \subseteq Job /\ saved \subseteq Job
      BY DEF OInv, IInv, TypeOK, QueueTypes, ChildTypes, DiskTypes
    <3>2. status'[j] = "queued" /\ \A k \in Job : k # j => status'[k] = status[k]
      BY <1>6, <3>1
    <3>3. row[j] = "none"
      BY <1>2, WaitingJob
    <3>4. \A k \in Job : /\ status'[k] \in Terminal => row'[k] = status'[k]
                         /\ status'[k] = "queued" => k \in saved'
                         /\ active' # k
      BY <1>2, <1>6, <3>2, JobNotNull DEF OInv, Outcome, MemoryInv, Terminal
    <3>5. Serving' => /\ \A k \in saved' : status'[k] = "queued"
                      /\ \A k \in Job : row'[k] # "running"
      BY <1>1, <1>3, <1>6, <3>1, <3>2, <3>3
         DEF OInv, Outcome, MemoryInv, Serving, Unrestored
    <3>6. /\ \A k \in forceFailed' : status'[k] = "failed"
          /\ lateClosed' \subseteq forceFailed'
          /\ \A k \in starting' : status'[k] # "queued"
      BY <1>1, <1>3, <3>1, <3>2 DEF OInv, Outcome, MemoryInv
    <3> QED
      BY <1>1, <1>3, <3>4, <3>5, <3>6 DEF MemoryInv, Unrestored
  <2>4. SlotUse'
    BY <1>1, <1>4, <1>6, JobNotNull DEF OInv, Outcome, SlotUse, IInv, TypeOK, ChildTypes
  <2> QED
    BY <1>5, <2>1, <2>2, <2>3, <2>4 DEF Outcome
<1>7. CASE UNCHANGED <<status, active, row, saved>> /\ blocked' = blocked \cup {j}
  <2>1. OutboxInv' /\ LedgerInv'
    BY <1>1, <1>7, SameOutbox, SameLedger DEF OInv, Outcome
  <2>2. SnapshotInv'
    BY <1>1, <1>7, SameSnapshots DEF OInv, Outcome, Doomed
  <2>3. MemoryInv'
    BY <1>1, <1>7 DEF OInv, Outcome, MemoryInv, Serving, Unrestored
  <2>4. SlotUse'
    BY <1>1, <1>7, SameSpawned DEF OInv, Outcome, SlotUse
  <2> QED
    BY <1>5, <2>1, <2>2, <2>3, <2>4 DEF Outcome
<1>8. CASE /\ UNCHANGED <<status, active>> /\ blocked' = blocked \cup {j}
           /\ row' = [row EXCEPT ![j] = "running"] /\ saved' = saved \ {j}
  <2>1. OutboxInv' /\ LedgerInv' /\ SnapshotInv' /\ MemoryInv'
    BY <1>1, <1>8, PromotedOutcome
  <2>2. SlotUse'
    BY <1>1, <1>4, <1>8 DEF OInv, Outcome, SlotUse
  <2> QED
    BY <1>5, <2>1, <2>2 DEF Outcome
<1> QED
  BY <1>6, <1>7, <1>8 DEF WedgeUnsettled

LEMMA ChildExitOutcome ==
  ASSUME OInv, NEW j \in Job, ChildExit(j)
  PROVE  Outcome'
<1>1. /\ UNCHANGED <<ledger, starting, lateVars, restoreBlocked, mode, history>>
      /\ mode = "up" /\ pc = "idle" /\ j \in child \ forceFailed
      /\ child' = child \ {j}
  BY DEF ChildExit, Idle
<1>2. active = j /\ status[j] = "running" /\ child' \subseteq forceFailed
  BY <1>1 DEF OInv, Outcome, SlotUse, IInv, Safe, SlotInv, OneChild
<1>3. ASSUME NEW st \in Outcomes(j), Stage({j}, st, FALSE), Replay("exit"),
             status' = [status EXCEPT ![j] = st],
             active' = IF active = j THEN NoJob ELSE active
      PROVE  Outcome'
  <2>1. st \in Terminal \ {"skipped"}
    BY DEF Outcomes, Terminal
  <2> QED
    BY <1>1, <1>2, <1>3, <2>1, StagedOutcome
<1>4. CASE /\ FailStop /\ Stay /\ Unstaged /\ active' = j /\ UNCHANGED status
           /\ blocked' = blocked \cup {j}
  <2>0. UNCHANGED active /\ paused' = TRUE
    BY <1>2, <1>4 DEF FailStop
  <2>1. OutboxInv' /\ LedgerInv'
    BY <1>1, <1>4, SameOutbox, SameLedger DEF OInv, Outcome, Unstaged, Stay
  <2>2. SnapshotInv'
    BY <1>4, <2>0, SameSnapshots DEF OInv, Outcome, Doomed, Unstaged
  <2>3. MemoryInv'
    BY <1>1, <1>4, <2>0
       DEF OInv, Outcome, MemoryInv, Serving, Unrestored, Unstaged, Stay
  <2>4. SlotUse'
    BY <1>1, <1>2, <1>4, <2>0, SameSpawned DEF OInv, Outcome, SlotUse, Unstaged
  <2>5. PauseInv'
    BY <1>1, <1>4, <2>0, SameSpawned DEF OInv, Outcome, PauseInv, Stay
  <2> QED
    BY <2>1, <2>2, <2>3, <2>4, <2>5 DEF Outcome
<1> QED
  BY <1>3, <1>4 DEF ChildExit

LEMMA ForceFailOutcome ==
  ASSUME OInv, NEW j \in Job, ForceFail(j)
  PROVE  Outcome'
<1>1. /\ UNCHANGED <<ledger, starting, child, lateClosed, restoreBlocked, mode>>
      /\ UNCHANGED history
      /\ active = j /\ status[j] = "running"
  BY DEF ForceFail
<1>2. CASE /\ Stage({j}, "failed", TRUE) /\ Replay("settle") /\ active' = NoJob
           /\ status' = [status EXCEPT ![j] = "failed"]
           /\ forceFailed' = forceFailed \cup {j}
  <2>1. mode = "up" => child \subseteq forceFailed'
    BY <1>1, <1>2 DEF OInv, IInv, Safe, SlotInv, OneChild
  <2>2. "failed" \in Terminal \ {"skipped"}
    BY DEF Terminal
  <2> QED
    BY <1>1, <1>2, <2>1, <2>2, StagedOutcome
<1>3. CASE /\ FailStop /\ Stay /\ Unstaged /\ blocked' = blocked \cup {j}
           /\ UNCHANGED <<status, active, forceFailed>>
  BY <1>1, <1>3, CalmOutcome DEF OInv, FailStop, Stay, Unstaged
<1> QED
  BY <1>2, <1>3 DEF ForceFail
-----------------------------------------------------------------------------
(* Late exits, resume and shutdown.                                        *)

LEMMA ReconciledOutcome ==
  ASSUME OInv, NEW S \in SUBSET forceFailed, NEW spend \in SUBSET Reconcilable(S),
         Reconcile(S, spend), pass' \subseteq outbox',
         UNCHANGED <<row, forgotten, saved, status, active, admitted, spawns>>,
         UNCHANGED notified
  PROVE  OutboxInv' /\ LedgerInv' /\ SnapshotInv'
<1>1. Settles({}, spend)
  BY DEF Reconcile, Settles, OInv, Outcome, OutboxInv
<1>2. spend \in SUBSET outbox
  BY DEF Reconcilable
<1> QED
  BY <1>1, <1>2, SettlesOutcome

LEMMA LateExitOutcome ==
  ASSUME OInv, NEW j \in Job, LateExit(j)
  PROVE  Outcome'
<1>1. /\ UNCHANGED <<row, forgotten, saved, starting, queueVars, restoreBlocked>>
      /\ UNCHANGED <<mode, history>>
      /\ mode = "up" /\ pc = "idle" /\ j \in child /\ j \in forceFailed
      /\ child' = child \ {j}
  BY DEF LateExit, Idle
<1>2. status[j] = "failed" /\ ~Unrestored /\ ~restoreBlocked
  BY <1>1 DEF OInv, Outcome, MemoryInv, IInv, Safe, Blank, Unrestored
<1>3. ASSUME NEW spend \in SUBSET {j}, j \in Reconcilable(forceFailed),
             Reconcile({j}, spend), Replay("late")
      PROVE  Outcome'
  <2>1. /\ pc' = "replay" /\ then' = "late" /\ pass' \subseteq outbox'
        /\ forceFailed' = forceFailed \ {j} /\ lateClosed' = lateClosed \ {j}
        /\ blocked' = blocked \ {j} /\ spend \in SUBSET Reconcilable({j})
    BY <1>3 DEF Replay, Reconcile, Reconcilable
  <2>2. OutboxInv' /\ LedgerInv' /\ SnapshotInv'
    BY <1>1, <1>3, <2>1, ReconciledOutcome
  <2>3. MemoryInv'
    BY <1>1, <1>2, <2>1 DEF OInv, Outcome, MemoryInv, Serving, Unrestored
  <2>4. SlotUse'
    BY <1>1, <1>2, <2>1, SameSpawned DEF OInv, Outcome, SlotUse
  <2>5. PauseInv'
    BY <1>1, <1>2, <2>1, SameSpawned DEF OInv, Outcome, PauseInv
  <2> QED
    BY <2>2, <2>3, <2>4, <2>5 DEF Outcome
<1>4. CASE /\ FailStop /\ Stay /\ blocked' = blocked \cup {j}
           /\ lateClosed' = lateClosed \cup {j}
           /\ UNCHANGED <<outboxVars, ledger, forceFailed>>
  <2>1. OutboxInv' /\ LedgerInv'
    BY <1>1, <1>4, SameOutbox, SameLedger DEF OInv, Outcome, Stay
  <2>2. SnapshotInv'
    BY <1>1, <1>4, SameSnapshots DEF OInv, Outcome, Doomed
  <2>3. MemoryInv'
    BY <1>1, <1>4 DEF OInv, Outcome, MemoryInv, Serving, Unrestored, Stay
  <2>4. SlotUse'
    BY <1>1, <1>2, <1>4, SameSpawned DEF OInv, Outcome, SlotUse
  <2>5. PauseInv'
    BY <1>1, <1>4, SameSpawned DEF OInv, Outcome, PauseInv, Stay, FailStop
  <2> QED
    BY <2>1, <2>2, <2>3, <2>4, <2>5 DEF Outcome
<1> QED
  BY <1>3, <1>4 DEF LateExit

LEMMA ResumeOutcome ==
  ASSUME OInv, Resume
  PROVE  Outcome'
<1>1. /\ UNCHANGED <<row, forgotten, saved, starting, child, queueVars>>
      /\ UNCHANGED <<restoreBlocked, mode, history>>
      /\ mode = "up" /\ pc = "idle"
  BY DEF Resume, Idle
<1>2. CASE /\ restoreBlocked /\ pc' = "capture" /\ then' = "resume" /\ Keep
           /\ UNCHANGED <<pass, outboxVars, ledger, lateVars, blocked>>
  <2>1. OutboxInv' /\ LedgerInv'
    BY <1>1, <1>2, SameOutbox, SameLedger DEF OInv, Outcome
  <2>2. SnapshotInv'
    BY <1>1, <1>2, SameSnapshots DEF OInv, Outcome, Doomed
  <2>3. MemoryInv'
    BY <1>1, <1>2 DEF OInv, Outcome, MemoryInv, Serving, Unrestored
  <2>4. SlotUse'
    BY <1>1, <1>2, SameSpawned DEF OInv, Outcome, SlotUse
  <2>5. PauseInv'
    BY <1>1, <1>2, SameSpawned DEF OInv, Outcome, PauseInv, Keep
  <2> QED
    BY <2>1, <2>2, <2>3, <2>4, <2>5 DEF Outcome
<1>3. ASSUME ~restoreBlocked, NEW ok \in SUBSET Reconcilable(lateClosed),
             NEW spend \in SUBSET ok, Reconcile(ok, spend),
             \/ blocked' = {} /\ ok = lateClosed /\ Replay("resume")
             \/ FailStop /\ ok = {} /\ Stay
             \/ FailStop /\ Replay("late")
      PROVE  Outcome'
  <2>1. ok \in SUBSET forceFailed /\ spend \in SUBSET Reconcilable(ok)
        /\ ok \subseteq lateClosed
    BY <1>3 DEF Reconcilable, OInv, Outcome, MemoryInv
  <2>2. /\ pass' \subseteq outbox'
        /\ \/ pc' = "replay" /\ then' \in {"resume", "late"}
           \/ pc' = pc /\ then' = then /\ paused' = TRUE
    <3>1. UNCHANGED outbox
      BY <1>3 DEF Reconcile
    <3> QED
      BY <1>3, <3>1 DEF Replay, Stay, FailStop, OInv, Outcome, OutboxInv
  <2>3. OutboxInv' /\ LedgerInv' /\ SnapshotInv'
    BY <1>1, <1>3, <2>1, <2>2, ReconciledOutcome
  <2>4. /\ forceFailed' = forceFailed \ ok /\ lateClosed' = lateClosed \ ok
        /\ blocked' = blocked \ ok
    BY <1>3 DEF Reconcile
  <2>5. MemoryInv'
    BY <1>1, <1>3, <2>1, <2>2, <2>4 DEF OInv, Outcome, MemoryInv, Serving, Unrestored
  <2>6. SlotUse'
    <3>1. ok \cap child = {}
      BY <1>1, <2>1 DEF OInv, IInv, Safe, SlotInv
    <3>2. \A k \in ok : status[k] # "running"
      BY <2>1 DEF OInv, Outcome, MemoryInv
    <3>3. /\ child' \ forceFailed' = child \ forceFailed
          /\ \A k \in blocked : status[k] = "running" => k \in blocked'
      BY <1>1, <2>4, <3>1, <3>2
    <3> QED
      BY <1>1, <3>3, SameSpawned DEF OInv, Outcome, SlotUse
  <2>7. PauseInv'
    BY <1>1, <1>3, <2>2, SameSpawned DEF OInv, Outcome, PauseInv
  <2> QED
    BY <2>3, <2>5, <2>6, <2>7 DEF Outcome
<1>4. \/ /\ restoreBlocked /\ pc' = "capture" /\ then' = "resume" /\ Keep
         /\ UNCHANGED <<pass, outboxVars, ledger, lateVars, blocked>>
      \/ /\ ~restoreBlocked
         /\ \E ok \in SUBSET Reconcilable(lateClosed) : \E spend \in SUBSET ok :
              /\ Reconcile(ok, spend)
              /\ \/ blocked' = {} /\ ok = lateClosed /\ Replay("resume")
                 \/ FailStop /\ ok = {} /\ Stay
                 \/ FailStop /\ Replay("late")
  BY DEF Resume
<1> QED
  BY <1>2, <1>3, <1>4

LEMMA ShutdownOutcome ==
  ASSUME OInv, Shutdown
  PROVE  Outcome'
<1>1. /\ UNCHANGED <<forgotten, starting, child, active, restoreBlocked, history>>
      /\ mode' = "closing"
  BY DEF Shutdown
<1>a. PICK aborted \in {Running, {}}, late \in SUBSET Reconcilable(forceFailed) :
        /\ \E spend \in SUBSET late : Flushed(aborted, late, spend)
        /\ Replay(IF aborted = Running THEN "flush" ELSE "unclosed")
  BY DEF Shutdown
<1>b. PICK spend \in SUBSET late : Flushed(aborted, late, spend)
  BY <1>a
<1>2. /\ Flushed(aborted, late, spend)
      /\ Replay(IF aborted = Running THEN "flush" ELSE "unclosed")
  BY <1>a, <1>b
<1>3. /\ pc' = "replay" /\ pass' \subseteq outbox'
      /\ then' \in {"flush", "unclosed"}
      /\ then' = "flush" => aborted = Running
  BY <1>2 DEF Replay
<1>4. /\ status' = [k \in Job |-> IF k \in aborted THEN "failed" ELSE status[k]]
      /\ row' = [k \in Job |-> IF k \in aborted THEN "failed" ELSE row[k]]
      /\ forceFailed' = forceFailed \ late /\ lateClosed' = forceFailed \ late
      /\ saved' = saved \ aborted
  BY <1>2 DEF Flushed
<1>5. \A k \in aborted : active = k /\ status[k] = "running" /\ k \in Job
  BY DEF Running
<1>6. \A k \in aborted : /\ k \in admitted /\ row[k] \in {"none", "running"}
                         /\ k \notin forceFailed
                         /\ \A m \in Job : k \notin Doomed(m)
  BY <1>5, SlotJob
<1>7. /\ row \in [Job -> {"none", "running"} \cup Terminal]
      /\ status \in [Job -> {"none", "queued", "running"} \cup Terminal]
      /\ forceFailed \subseteq Job /\ starting \subseteq Job
  BY DEF OInv, IInv, TypeOK, DiskTypes, QueueTypes, ChildTypes
<1>8. Settles(aborted, spend)
  <2>1. \A k \in aborted : row'[k] = "failed" /\ "failed" \in Terminal \ {"skipped"}
    BY <1>4, <1>5 DEF Terminal
  <2>2. held' \subseteq outbox'
    BY <1>2 DEF Flushed, OInv, Outcome, OutboxInv
  <2> QED
    BY <1>1, <1>2, <1>3, <1>5, <2>1, <2>2 DEF Flushed, Settles
<1>9. OutboxInv' /\ LedgerInv' /\ SnapshotInv'
  <2>1. \A k \in Job : active' = k /\ status'[k] = "running" =>
                         aborted = {} /\ active = k /\ status[k] = "running"
    BY <1>1, <1>4, <1>5
  <2>2. aborted \in SUBSET Job /\ spend \in SUBSET outbox
    BY <1>5 DEF Reconcilable
  <2> QED
    BY <1>5, <1>6, <1>8, <2>1, <2>2, SettlesOutcome
<1>10. MemoryInv'
  <2>1. \A k \in Job : /\ status'[k] \in Terminal => row'[k] = status'[k]
                       /\ status'[k] = "queued" => k \in saved'
                       /\ status'[k] = "running" /\ active' = k =>
                            row'[k] \in {"none", "running"}
    BY <1>1, <1>4, <1>5 DEF OInv, Outcome, MemoryInv
  <2>2. /\ \A k \in forceFailed' : status'[k] = "failed"
        /\ lateClosed' \subseteq forceFailed'
        /\ \A k \in starting' : status'[k] # "queued"
    BY <1>1, <1>4, <1>7 DEF OInv, Outcome, MemoryInv
  <2>3. then' = "flush" => \A k \in Job : active' = k => status'[k] # "running"
    BY <1>1, <1>3, <1>4 DEF Running
  <2> QED
    BY <1>1, <1>3, <2>1, <2>2, <2>3 DEF MemoryInv, Serving, Unrestored
<1>11. SlotUse'
  BY <1>1 DEF OInv, Outcome, SlotUse
<1>12. PauseInv'
  BY <1>1, SameSpawned DEF OInv, Outcome, PauseInv
<1> QED
  BY <1>9, <1>10, <1>11, <1>12 DEF Outcome

LEMMA CaptureOutcome ==
  ASSUME OInv, Capture
  PROVE  Outcome'
<1>1. /\ UNCHANGED <<forgotten, saved, childVars, active, blocked, mode, history>>
      /\ mode \in {"up", "closing"} /\ pc = "capture"
  BY DEF Capture
<1>2. mode = "up" =>
        /\ active = NoJob /\ child = {} /\ starting = {} /\ forceFailed = {}
        /\ lateClosed = {} /\ then # "flush"
        /\ \A k \in Job : status[k] = "none"
  BY <1>1 DEF OInv, Outcome, MemoryInv, IInv, Safe, Blank, Unrestored
<1>3. mode = "closing" => \A k \in Job : active = k => status[k] # "running"
  BY <1>1 DEF OInv, Outcome, MemoryInv
<1>4. /\ saved \subseteq Job /\ row \in [Job -> {"none", "running"} \cup Terminal]
      /\ outbox \subseteq Job
  BY DEF OInv, IInv, TypeOK, DiskTypes, OutboxTypes
<1>5. \A k \in Orphan : k \notin saved /\ k \notin outbox /\ k \in admitted
  BY DEF Orphan, Terminal, OInv, Outcome, OutboxInv, IInv, Safe, AdmittedOnce
<1>6. \A k \in Job : active' = k => status'[k] # "running"
  BY <1>1, <1>2, <1>3, JobNotNull DEF Capture
<1>7. ASSUME NEW reaccount \in SUBSET held, Captured(reaccount), pass' \subseteq outbox'
      PROVE  /\ OutboxInv' /\ LedgerInv' /\ SnapshotInv'
             /\ \A k \in Job : row'[k] = IF k \in Orphan THEN "failed" ELSE row[k]
  <2>1. Orphan \ outbox = Orphan /\ saved \ Orphan = saved
    BY <1>5
  <2>2. \A k \in Job : row'[k] = IF k \in Orphan THEN "failed" ELSE row[k]
    BY <1>7 DEF Captured
  <2>3. Settles(Orphan, reaccount)
    <3>1. /\ outbox' = outbox \cup Orphan
          /\ accounted' = (accounted \ reaccount) \ Orphan
          /\ called' = called \ Orphan /\ finished' = finished \ Orphan
          /\ held' = {}
          /\ ledger' = [k \in Job |-> IF k \in reaccount THEN 0 ELSE ledger[k]]
          /\ descendants' = [k \in Job |-> IF k \in Orphan THEN Descendants(k, saved)
                                           ELSE descendants[k]]
      BY <1>7, <2>1 DEF Captured
    <3>2. Orphan \subseteq Job /\ "failed" \in Terminal \ {"skipped"}
      BY DEF Orphan, Terminal
    <3>3. \A k \in Orphan : /\ row'[k] \in Terminal \ {"skipped"}
                            /\ row'[k] # "completed"
      BY <2>2, <3>2
    <3> QED
      BY <1>1, <1>7, <2>1, <2>2, <3>1, <3>2, <3>3 DEF Settles
  <2>4. /\ Orphan \in SUBSET Job /\ reaccount \in SUBSET outbox
        /\ \A k \in Orphan : row[k] = "running"
    BY <1>7 DEF Orphan, OInv, Outcome, OutboxInv
  <2>5. \A k \in Orphan, m \in Job : k \notin Doomed(m)
    BY <1>5 DEF Doomed
  <2> QED
    BY <1>5, <1>6, <2>2, <2>3, <2>4, <2>5, SettlesOutcome
<1>8. SlotUse'
  BY <1>1, <1>2, <1>6, JobNotNull DEF OInv, Outcome, SlotUse
<1>9. CASE /\ \E reaccount \in SUBSET held : Captured(reaccount)
           /\ \/ /\ mode = "up" /\ restoreBlocked' = FALSE
                 /\ status' = [k \in Job |-> IF k \in saved THEN "queued" ELSE status[k]]
              \/ mode = "closing" /\ UNCHANGED <<status, restoreBlocked>>
           /\ Replay(then)
  <2>1. pc' = "replay" /\ then' = then /\ pass' \subseteq outbox'
    BY <1>9 DEF Replay
  <2>2. /\ OutboxInv' /\ LedgerInv' /\ SnapshotInv'
        /\ \A k \in Job : row'[k] = IF k \in Orphan THEN "failed" ELSE row[k]
    BY <1>7, <1>9, <2>1
  <2>3. MemoryInv'
    <3>1. CASE mode = "up"
      <4>1. /\ \A k \in Job : status'[k] = IF k \in saved THEN "queued" ELSE "none"
            /\ restoreBlocked' = FALSE
        BY <1>2, <1>9, <3>1
      <4>2. \A k \in Job : row'[k] # "running"
        BY <2>2 DEF Orphan
      <4> QED
        BY <1>1, <1>2, <1>4, <2>1, <3>1, <4>1, <4>2
           DEF MemoryInv, Serving, Unrestored, Terminal
    <3>2. CASE mode = "closing"
      <4>1. UNCHANGED status
        BY <1>9, <3>2
      <4>2. \A k \in Job : /\ status'[k] \in Terminal => row'[k] = status'[k]
                           /\ status'[k] = "queued" => k \in saved'
        BY <1>1, <2>2, <4>1 DEF OInv, Outcome, MemoryInv, Orphan, Terminal
      <4>3. /\ \A k \in forceFailed' : status'[k] = "failed"
            /\ lateClosed' \subseteq forceFailed'
            /\ \A k \in starting' : status'[k] # "queued"
        BY <1>1, <4>1 DEF OInv, Outcome, MemoryInv
      <4> QED
        BY <1>1, <1>6, <3>2, <4>2, <4>3 DEF MemoryInv, Serving, Unrestored
    <3> QED
      BY <1>1, <3>1, <3>2
  <2>4. PauseInv'
    BY <1>1, <1>9, <2>1, SameSpawned DEF OInv, Outcome, PauseInv
  <2> QED
    BY <1>8, <2>2, <2>3, <2>4 DEF Outcome
<1>10. CASE /\ \/ UNCHANGED <<outboxVars, row, ledger>>
               \/ mode = "up" /\ \E reaccount \in SUBSET held : Captured(reaccount)
            /\ \/ mode = "up" /\ restoreBlocked' = TRUE /\ FailStop
               \/ mode = "closing" /\ UNCHANGED restoreBlocked
            /\ pc' = "idle" /\ then' = "settle" /\ UNCHANGED <<pass, status>>
  <2>1. OutboxInv' /\ LedgerInv' /\ SnapshotInv'
    <3>1. CASE UNCHANGED <<outboxVars, row, ledger>>
      <4>1. OutboxInv' /\ LedgerInv'
        BY <1>1, <1>10, <3>1, SameOutbox, SameLedger DEF OInv, Outcome
      <4>2. SnapshotInv'
        BY <1>1, <1>10, <3>1, SameSnapshots DEF OInv, Outcome, Doomed
      <4> QED
        BY <4>1, <4>2
    <3>2. ASSUME NEW reaccount \in SUBSET held, Captured(reaccount)
          PROVE  OutboxInv' /\ LedgerInv' /\ SnapshotInv'
      <4>1. pass' \subseteq outbox'
        BY <1>10, <3>2 DEF Captured, OInv, Outcome, OutboxInv
      <4> QED
        BY <1>7, <3>2, <4>1
    <3> QED
      BY <1>10, <3>1, <3>2
  <2>2. MemoryInv'
    <3>1. CASE mode = "up"
      <4>1. restoreBlocked' = TRUE /\ \A k \in Job : status'[k] = "none"
        BY <1>2, <1>10, <3>1
      <4> QED
        BY <1>1, <1>2, <1>10, <3>1, <4>1 DEF MemoryInv, Serving, Unrestored, Terminal
    <3>2. CASE mode = "closing"
      BY <1>1, <1>10, <3>2 DEF OInv, Outcome, MemoryInv, Serving, Unrestored
    <3> QED
      BY <1>1, <3>1, <3>2
  <2>3. PauseInv'
    BY <1>1, <1>10, SameSpawned DEF OInv, Outcome, PauseInv, FailStop
  <2> QED
    BY <1>8, <2>1, <2>2, <2>3 DEF Outcome
<1> QED
  BY <1>9, <1>10 DEF Capture
-----------------------------------------------------------------------------
(* The replay of the outbox.                                               *)

(* The rows of `gone` have every checkpoint.                               *)
LEMMA RemovedOutcome ==
  ASSUME OInv, NEW gone \in SUBSET Complete,
         outbox' = outbox \ gone, accounted' = accounted \ gone,
         called' = called \ gone, finished' = finished \ gone,
         descendants' = [j \in Job |-> IF j \in gone THEN {} ELSE descendants[j]],
         UNCHANGED <<held, row, forgotten, saved, ledger, status, pass, history>>,
         active' \in {active, NoJob}, pass = {}
  PROVE  OutboxInv' /\ LedgerInv' /\ SnapshotInv'
<1>1. /\ gone \subseteq outbox /\ gone \cap held = {}
      /\ \A k \in gone : k \in accounted /\ k \in called
  BY DEF Complete
<1>2. OutboxInv'
  BY <1>1 DEF OInv, Outcome, OutboxInv
<1>3. LedgerInv'
  <2>1. SettledExactlyOnce'
    BY <1>1 DEF OInv, Outcome, LedgerInv, SettledExactlyOnce
  <2> QED
    BY <1>1, <2>1 DEF OInv, Outcome, LedgerInv
<1>4. SnapshotInv'
  <2>1. \A m \in Job : Doomed(m)' = IF m \in gone THEN {} ELSE Doomed(m)
    BY DEF Doomed
  <2>2. \A m \in Job : NoJob \notin Doomed(m)
    BY JobNotNull DEF Doomed, OInv, IInv, TypeOK, DiskTypes
  <2> QED
    BY <2>1, <2>2 DEF OInv, Outcome, SnapshotInv
<1> QED
  BY <1>2, <1>3, <1>4

LEMMA AfterReplayOutcome ==
  ASSUME OInv, AfterReplay
  PROVE  Outcome'
<1>1. /\ UNCHANGED <<held, row, forgotten, saved, ledger, childVars, status>>
      /\ UNCHANGED <<blocked, restoreBlocked, pass, history>>
      /\ pc = "replay" /\ pass = {}
      /\ then' = IF then = "flush" THEN "close" ELSE "settle"
  BY DEF AfterReplay
<1>2. PICK cleaned \in BOOLEAN :
        LET gone == IF cleaned THEN Complete ELSE {}
            ready == cleaned /\ EffectsReady
        IN  /\ outbox' = outbox \ gone
            /\ accounted' = accounted \ gone
            /\ called' = called \ gone
            /\ finished' = finished \ gone
            /\ descendants' = [j \in Job |-> IF j \in gone THEN {} ELSE descendants[j]]
            /\ \/ /\ then = "resume" /\ Resumed(ready)
                  /\ UNCHANGED <<active, mode>>
               \/ /\ \/ then = "settle" /\ ready /\ pc' = "drain" /\ Keep
                     \/ then = "late" /\ ready /\ pc' = "idle" /\ Keep
                     \/ then \in {"settle", "late", "resume"} /\ FailedStop(ready)
                     \/ then = "exit" /\ Exited(ready)
                     \/ then = "restore" /\ StartedUp(ready)
                     \/ then = "flush" /\ pc' = "capture" /\ Keep
                     \/ then = "unclosed" /\ pc' = "idle" /\ Keep
                  /\ UNCHANGED <<active, mode>>
               \/ then = "close" /\ Closed /\ Keep
  BY DEF AfterReplay
<1> DEFINE gone == IF cleaned THEN Complete ELSE {}
           ready == cleaned /\ EffectsReady
<1>3. /\ outbox' = outbox \ gone /\ accounted' = accounted \ gone
      /\ called' = called \ gone /\ finished' = finished \ gone
      /\ descendants' = [j \in Job |-> IF j \in gone THEN {} ELSE descendants[j]]
      /\ gone \in SUBSET Complete
  BY <1>2
<1>4. /\ \/ active' = active /\ mode' = mode
         \/ active' = NoJob /\ mode' \in {"closed", "closing"} /\ pc' = "idle"
      /\ pc' \in {"idle", "drain"} \/ (pc' = "capture" /\ then = "flush")
  BY <1>2 DEF Closed, Resumed, FailedStop, Exited, StartedUp
<1>5. mode' = "up" /\ ~paused' /\ pc' \in {"idle", "drain"} =>
        ready \/ then = "unclosed"
  BY <1>2 DEF Closed, Resumed, FailedStop, FailStop, Exited, StartedUp
<1>6. OutboxInv' /\ LedgerInv' /\ SnapshotInv'
  <2>1. active' \in {active, NoJob}
    BY <1>4
  <2> HIDE DEF gone
  <2> QED
    BY <1>1, <1>3, <2>1, RemovedOutcome
<1>7. mode \in {"up", "down"} => ~restoreBlocked
  BY <1>1 DEF OInv, Outcome, PauseInv
<1>8. MemoryInv'
  <2>1. Serving' => Serving
    BY <1>1, <1>4, <1>7 DEF Serving, Unrestored
  <2>2. Unrestored' => Unrestored
    BY <1>1, <1>4, <1>7 DEF Unrestored, OInv, IInv, Safe, Blank
  <2>3. then' # "flush"
    BY <1>1
  <2>4. mode' = "closing" /\ pc' = "capture" =>
          \A k \in Job : active' = k => status'[k] # "running"
    BY <1>1, <1>4 DEF OInv, Outcome, MemoryInv
  <2>5. mode' = "up" => active' = active
    BY <1>4
  <2>6. \A k \in Job : active' = k => active = k
    BY <1>4, JobNotNull
  <2> QED
    BY <1>1, <2>1, <2>2, <2>3, <2>4, <2>5, <2>6 DEF OInv, Outcome, MemoryInv, Serving
<1>9. SlotUse'
  BY <1>1, <1>4, SameSpawned DEF OInv, Outcome, SlotUse
<1>10. PauseInv'
  <2>1. ready => outbox' \subseteq accounted' \cap finished'
    BY <1>3 DEF EffectsReady
  <2>2. mode' = "up" => mode = "up" /\ then # "unclosed"
    BY <1>4 DEF OInv, Outcome, PauseInv
  <2>3. mode' \in {"up", "down"} => ~restoreBlocked'
    BY <1>1, <1>4, <1>7
  <2>4. then' # "unclosed"
    BY <1>1
  <2> QED
    BY <1>1, <1>5, <2>1, <2>2, <2>3, <2>4, SameSpawned DEF OInv, Outcome, PauseInv
<1> QED
  BY <1>6, <1>8, <1>9, <1>10 DEF Outcome

(* What the third checkpoint skips is what is doomed.                      *)
LEMMA SkippedDoomed ==
  ASSUME OInv, NEW j \in Job
  PROVE  {k \in descendants[j] : StillQueued(k)} = Doomed(j)
BY DEF StillQueued, Doomed, OInv, Outcome, MemoryInv, IInv, TypeOK, OutboxTypes

LEMMA ReplayRowOutcome ==
  ASSUME OInv, NEW j \in Job, ReplayRow(j)
  PROVE  Outcome'
<1>1. /\ UNCHANGED <<outbox, held, descendants, forgotten, childVars, active>>
      /\ UNCHANGED <<flagVars, mode, pc, then, admitted, spawns>>
      /\ pc = "replay" /\ j \in pass /\ pass' = pass \ {j}
  BY DEF ReplayRow
<1>2. PICK ok \in SUBSET Pending(j) :
       /\ accounted' = IF "accounting" \in ok THEN accounted \cup {j} ELSE accounted
       /\ ledger' =
            IF "accounting" \in ok THEN [ledger EXCEPT ![j] = @ + 1] ELSE ledger
       /\ called' = IF "callback" \in ok THEN called \cup {j} ELSE called
       /\ finished' = IF "terminal" \in ok THEN finished \cup {j} ELSE finished
       /\ notified' = notified
            \cup (IF "callback" \in ok THEN {j} ELSE {})
            \cup (IF "terminal" \in ok /\ row[j] # "completed"
                  THEN {k \in descendants[j] : StillQueued(k) \/ AlreadySkipped(k)}
                  ELSE {})
       /\ \/ "terminal" \in ok /\ row[j] # "completed" /\ SkipDescendants(j)
          \/ /\ "terminal" \notin ok \/ row[j] = "completed"
             /\ UNCHANGED <<row, status, saved, position, savedPos>>
  BY DEF ReplayRow
<1> DEFINE doomed == IF "terminal" \in ok /\ row[j] # "completed" THEN Doomed(j) ELSE {}
<1>3. /\ saved \subseteq Job /\ outbox \subseteq Job /\ notified \subseteq Job
      /\ forgotten \subseteq Job /\ starting \subseteq Job /\ child \subseteq Job
      /\ forceFailed \subseteq Job
      /\ row \in [Job -> {"none", "running"} \cup Terminal]
      /\ status \in [Job -> {"none", "queued", "running"} \cup Terminal]
      /\ ledger \in [Job -> Nat] /\ descendants \in [Job -> SUBSET Job]
  BY DEF OInv, IInv, TypeOK, DiskTypes, OutboxTypes, QueueTypes, ChildTypes,
         HistoryTypes
<1>4. doomed \subseteq Doomed(j) /\ doomed \subseteq saved /\ doomed \subseteq Job
  BY <1>3 DEF Doomed
<1>5. /\ \A k \in Job : row'[k] = IF k \in doomed THEN "skipped" ELSE row[k]
      /\ \A k \in Job : status'[k] = IF k \in doomed /\ status[k] # "none"
                                     THEN "skipped" ELSE status[k]
      /\ saved' = saved \ doomed
  <2>1. CASE "terminal" \in ok /\ row[j] # "completed" /\ SkipDescendants(j)
    BY <2>1, SkippedDoomed DEF SkipDescendants
  <2>2. CASE /\ "terminal" \notin ok \/ row[j] = "completed"
             /\ UNCHANGED <<row, status, saved>>
    BY <2>2
  <2> QED
    BY <1>2, <2>1, <2>2
<1>6. \A k \in saved : row[k] = "none" /\ k \notin outbox /\ k \notin notified
                       /\ k \notin forgotten /\ spawns[k] = 0 /\ ledger[k] = 0
  BY <1>3, WaitingJob
<1>7. /\ j \in outbox /\ row[j] \in Terminal \ {"skipped"} /\ j \notin doomed
      /\ row'[j] = row[j]
  <2>1. j \in outbox /\ row[j] \in Terminal \ {"skipped"}
    BY <1>1 DEF OInv, Outcome, OutboxInv
  <2> QED
    BY <1>4, <1>5, <1>6, <2>1
<1>8. "accounting" \in ok => j \notin accounted /\ ledger[j] = 0
  BY <1>7 DEF Pending, OInv, Outcome, LedgerInv
<1>9. /\ j \in accounted' => j \in accounted \/ ledger'[j] = 1
      /\ \A k \in Job : k # j => ledger'[k] = ledger[k]
      /\ ledger'[j] \in {ledger[j], 1}
      /\ j \notin accounted' => ledger'[j] = ledger[j]
      /\ j \in accounted => ledger'[j] = ledger[j]
  BY <1>2, <1>3, <1>8
<1>a. \A k \in Job : row[k] # "none" => row'[k] = row[k]
  BY <1>4, <1>5, <1>6
<1> HIDE DEF doomed
<1>10. OutboxInv'
  <2>1. accounted' \cup called' \cup finished' \cup held' \cup pass' \subseteq outbox'
    BY <1>1, <1>2, <1>7 DEF OInv, Outcome, OutboxInv
  <2>2. \A k \in outbox' : row'[k] \in Terminal \ {"skipped"} /\ k \notin forgotten'
    BY <1>1, <1>3, <1>a DEF OInv, Outcome, OutboxInv, Terminal
  <2>3. \A k \in forgotten' : row'[k] \in Terminal
    BY <1>1, <1>3, <1>a DEF OInv, Outcome, OutboxInv, Terminal
  <2>4. \A m \in Job : /\ descendants'[m] \subseteq admitted'
                       /\ descendants'[m] # {} => m \in outbox' /\ row'[m] # "completed"
    BY <1>1, <1>5 DEF OInv, Outcome, OutboxInv
  <2> QED
    BY <2>1, <2>2, <2>3, <2>4 DEF OutboxInv
<1>11. LedgerInv'
  <2>1. notified \subseteq notified'
    BY <1>2
  <2>2. SettledExactlyOnce'
    <3>1. \A k \in Job : ledger'[k] <= 1
      BY <1>9 DEF OInv, Outcome, LedgerInv, SettledExactlyOnce
    <3>2. ASSUME NEW k \in Job \ outbox', row'[k] \in Terminal \ {"skipped"}
          PROVE  /\ k \in notified'
                 /\ spawns'[k] > 0 => ledger'[k] = 1
      <4>1. k # j /\ row[k] = row'[k] /\ k \notin outbox
        BY <1>1, <1>5, <1>7, <3>2
      <4> QED
        BY <1>1, <1>9, <2>1, <3>2, <4>1 DEF OInv, Outcome, LedgerInv, SettledExactlyOnce
    <3> QED
      BY <3>1, <3>2 DEF SettledExactlyOnce
  <2>3. ASSUME NEW k \in Job
        PROVE  /\ ledger'[k] > 0 => row'[k] \in Terminal \ {"skipped"}
               /\ spawns'[k] > 0 => row'[k] \notin {"none", "skipped"}
    <3>1. CASE k = j
      BY <1>7, <3>1 DEF Terminal
    <3>2. CASE k # j
      BY <1>1, <1>4, <1>5, <1>6, <1>9, <3>2 DEF OInv, Outcome, LedgerInv
    <3> QED
      BY <3>1, <3>2
  <2>4. /\ \A k \in outbox' \ accounted' : ledger'[k] = 0
        /\ \A k \in accounted' : spawns'[k] > 0 => ledger'[k] = 1
    <3>1. /\ accounted \subseteq accounted' /\ accounted' \subseteq accounted \cup {j}
          /\ accounted \subseteq Job
      BY <1>2 DEF OInv, IInv, TypeOK, OutboxTypes
    <3> QED
      BY <1>1, <1>3, <1>9, <3>1 DEF OInv, Outcome, LedgerInv
  <2>5. called' \subseteq notified'
    BY <1>2 DEF OInv, Outcome, LedgerInv
  <2>6. ASSUME NEW k \in notified'
        PROVE  row'[k] \in Terminal
    <3>1. CASE k \in notified
      BY <1>3, <1>a, <3>1 DEF OInv, Outcome, LedgerInv, Terminal
    <3>2. CASE k = j
      BY <1>7, <3>2
    <3>3. CASE /\ "terminal" \in ok /\ row[j] # "completed"
               /\ k \in descendants[j] /\ (StillQueued(k) \/ AlreadySkipped(k))
      <4>1. k \in Job
        BY <1>3, <3>3
      <4>2. CASE StillQueued(k)
        BY <1>5, <3>3, <4>1, <4>2, SkippedDoomed DEF Terminal, doomed
      <4>3. CASE AlreadySkipped(k)
        <5>1. row[k] = "skipped"
          BY <4>1, <4>3 DEF AlreadySkipped, OInv, Outcome, MemoryInv, Terminal
        <5> QED
          BY <1>a, <4>1, <5>1 DEF Terminal
      <4> QED
        BY <3>3, <4>2, <4>3
    <3> QED
      BY <1>2, <2>6, <3>1, <3>2, <3>3
  <2> QED
    BY <2>2, <2>3, <2>4, <2>5, <2>6 DEF LedgerInv
<1>12. SnapshotInv'
  <2>1. \A m \in Job : Doomed(m)' = Doomed(m) \ doomed
    BY <1>1, <1>5 DEF Doomed
  <2>2. \A m \in Job : m # j => Doomed(m)' = Doomed(m)
    BY <1>4, <2>1 DEF OInv, Outcome, SnapshotInv
  <2>3. Doomed(j)' = {} \/ Doomed(j)' = Doomed(j)
    BY <2>1 DEF doomed
  <2>4. \A m \in Job : active' \in Doomed(m)' => status'[active'] # "running"
    <3>1. \A m \in Job : Doomed(m) \subseteq Job
      BY <1>3 DEF Doomed
    <3> QED
      BY <1>1, <1>5, <2>1, <3>1 DEF OInv, Outcome, SnapshotInv
  <2> QED
    BY <2>2, <2>3, <2>4 DEF OInv, Outcome, SnapshotInv
<1>13. \A k \in Job : active = k /\ status[k] = "running" => k \notin doomed
  BY <1>4 DEF OInv, Outcome, SnapshotInv
<1>14. MemoryInv'
  <2>1. \A k \in Job : /\ status'[k] \in Terminal => row'[k] = status'[k]
                       /\ status'[k] = "queued" => k \in saved'
                       /\ status'[k] = "running" /\ active' = k =>
                            row'[k] \in {"none", "running"}
    BY <1>1, <1>5, <1>13 DEF OInv, Outcome, MemoryInv, Terminal
  <2>2. Serving' =>
          /\ \A k \in saved' :
               status'[k] = "queued" \/ (status'[k] = "running" /\ active' = k)
          /\ \A k \in Job : row'[k] = "running" => active' = k /\ status'[k] = "running"
    BY <1>1, <1>3, <1>5, <1>13 DEF OInv, Outcome, MemoryInv, Serving, Unrestored
  <2>3. \A k \in forceFailed' : status'[k] = "failed"
    BY <1>1, <1>3, <1>4, <1>5, <1>6 DEF OInv, Outcome, MemoryInv, Terminal
  <2>4. /\ \A k \in starting' : status'[k] # "queued"
        /\ lateClosed' \subseteq forceFailed'
        /\ Unrestored' => starting' = {} /\ forceFailed' = {}
    BY <1>1, <1>3, <1>5 DEF OInv, Outcome, MemoryInv, Unrestored
  <2>5. then' = "flush" \/ (mode' = "closing" /\ pc' = "capture") =>
          \A k \in Job : active' = k => status'[k] # "running"
    BY <1>1, <1>5 DEF OInv, Outcome, MemoryInv
  <2> QED
    BY <2>1, <2>2, <2>3, <2>4, <2>5 DEF MemoryInv
<1>15. SlotUse'
  <2> SUFFICES ASSUME mode = "up"
               PROVE  /\ \A k \in starting : active = k =>
                           /\ status'[k] = "running" /\ k \in saved'
                           /\ Dep[k] # NoJob =>
                                row'[Dep[k]] = "completed" \/ Dep[k] \in forgotten
                           /\ Cardinality(Spawned) < BudgetCap
                      /\ \A k \in Job : active = k /\ status'[k] = "running" =>
                           k \in starting \cup child \cup blocked
                      /\ \A k \in child \ forceFailed :
                           status'[k] = "running" /\ row'[k] = "running"
    BY <1>1, SameSpawned DEF OInv, Outcome, SlotUse
  <2>1. ASSUME NEW k \in starting, active = k
        PROVE  /\ status'[k] = "running" /\ k \in saved'
               /\ Dep[k] # NoJob => row'[Dep[k]] = "completed" \/ Dep[k] \in forgotten
               /\ Cardinality(Spawned) < BudgetCap
    <3>1. /\ k \in Job /\ status[k] = "running" /\ k \in saved /\ k \in admitted
          /\ Dep[k] # NoJob => row[Dep[k]] = "completed" \/ Dep[k] \in forgotten
          /\ Cardinality(Spawned) < BudgetCap
      BY <1>3, <2>1 DEF OInv, Outcome, SlotUse, IInv, Safe, KnownJobs
    <3>2. Dep[k] # NoJob => Dep[k] \in Job
      BY <3>1 DEF OInv, Outcome, SlotUse, IInv, TypeOK, HistoryTypes
    <3> QED
      BY <1>5, <1>13, <1>a, <2>1, <3>1, <3>2
  <2>2. \A k \in Job : active = k /\ status'[k] = "running" =>
          k \in starting \cup child \cup blocked
    BY <1>5 DEF OInv, Outcome, SlotUse
  <2>3. \A k \in child \ forceFailed : status'[k] = "running" /\ row'[k] = "running"
    BY <1>3, <1>4, <1>5, <1>6 DEF OInv, Outcome, SlotUse
  <2> QED
    BY <2>1, <2>2, <2>3
<1>16. PauseInv'
  BY <1>1, SameSpawned DEF OInv, Outcome, PauseInv
<1> QED
  BY <1>10, <1>11, <1>12, <1>14, <1>15, <1>16 DEF Outcome
-----------------------------------------------------------------------------
(* Every step keeps the numbering of the queue.                            *)
LEMMA UntouchedNumbers ==
  ASSUME OInv,
         \/ \E j \in Job : \/ Forget(j) \/ CancelRunning(j) \/ Spawn(j)
                           \/ AbandonStart(j) \/ ExitDisposed(j) \/ LateExit(j)
                           \/ PersistEventFails(j) \/ ZombieTimeout(j)
                           \/ SigkillAnswered(j)
         \/ Pause \/ Resume \/ KillTimerFires \/ AfterReplay \/ Restart
         \/ UNCHANGED vars
  PROVE  Numbered'
<1>1. UNCHANGED <<status, position>>
  BY DEF Forget, CancelRunning, Spawn, AbandonStart, ExitDisposed, LateExit,
         PersistEventFails, ZombieTimeout, SigkillAnswered, Pause, Resume,
         KillTimerFires, AfterReplay, Restart
<1> QED
  BY <1>1, SameNumbers DEF OInv

(* The job in the slot is not in the queue.                                *)
LEMMA EndedNumbers ==
  ASSUME OInv, NEW j \in Job, WedgeFailed(j) \/ ChildExit(j) \/ ForceFail(j)
  PROVE  Numbered'
<1>1. status \in [Job -> {"none", "queued", "running"} \cup Terminal]
  BY DEF OInv, IInv, TypeOK, QueueTypes
<1>2. status[j] # "queued"
  BY DEF WedgeFailed, ChildExit, ForceFail, CanContinueStart, Idle, OInv, Outcome,
         SlotUse
<1>3. UNCHANGED position
  BY DEF WedgeFailed, ChildExit, ForceFail
<1>4. \/ UNCHANGED status
      \/ \E st \in Terminal : status' = [status EXCEPT ![j] = st]
  BY DEF WedgeFailed, ChildExit, ForceFail, Outcomes, Terminal
<1>5. \A k \in Job : status'[k] = "queued" <=> status[k] = "queued"
  BY <1>1, <1>2, <1>4 DEF Terminal
<1> QED
  BY <1>3, <1>5, SameNumbers DEF OInv

LEMMA ShutdownNumbers ==
  ASSUME OInv, Shutdown
  PROVE  Numbered'
<1>1. UNCHANGED position
  BY DEF Shutdown
<1>2. \E aborted \in {Running, {}} :
        status' = [j \in Job |-> IF j \in aborted THEN "failed" ELSE status[j]]
  BY DEF Shutdown, Flushed
<1>3. \A k \in Job : status'[k] = "queued" <=> status[k] = "queued"
  BY <1>2 DEF Running
<1> QED
  BY <1>1, <1>3, SameNumbers DEF OInv

LEMMA EnqueueNumbers ==
  ASSUME OInv, TypeOK', NEW j \in Job, Enqueue(j)
  PROVE  Numbered'
<1>1. /\ status' = [status EXCEPT ![j] = "queued"]
      /\ position' = Inserted(j, priority[j])
  BY DEF Enqueue
<1>2. Queued' = (Queued \ {j}) \cup {j}
  BY <1>1 DEF Queued, OInv, IInv, TypeOK, QueueTypes
<1> QED
  BY <1>1, <1>2, InsertedNumbered DEF OInv, IInv

LEMMA UpdatePriorityNumbers ==
  ASSUME OInv, TypeOK', NEW j \in Job, NEW w \in Priorities, UpdatePriority(j, w)
  PROVE  Numbered'
<1>1. UNCHANGED status /\ status[j] = "queued" /\ position' = Inserted(j, w)
  BY DEF UpdatePriority
<1>2. Queued' = (Queued \ {j}) \cup {j}
  BY <1>1 DEF Queued
<1> QED
  BY <1>1, <1>2, InsertedNumbered DEF OInv, IInv

LEMMA ReorderNumbers ==
  ASSUME OInv, NEW p \in [Job -> 0 .. Cardinality(Job)], Reorder(p)
  PROVE  Numbered'
<1>1. /\ \A j \in Job : p[j] = IF j \notin Queued THEN 0 ELSE Rank(p, Queued, j)
      /\ \A j, k \in Queued : p[j] = p[k] => j = k
      /\ position' = p /\ UNCHANGED status
  BY DEF Reorder, Rank
<1>2. Queued' = Queued /\ \A j \in Job : j \in Queued <=> status'[j] = "queued"
  BY <1>1 DEF Queued
<1>3. \A j \in Job : Rank(position, Queued, j)' = Rank(p, Queued, j)
  BY <1>1, <1>2 DEF Rank
<1> QED
  BY <1>1, <1>2, <1>3 DEF Numbered

LEMMA CancelBeforeSpawnNumbers ==
  ASSUME OInv, TypeOK', NEW j \in Job, CancelBeforeSpawn(j)
  PROVE  Numbered'
<1> DEFINE skipped == Descendants(j, Queued \ {j})
           gone == skipped \cup {j}
<1>1. /\ status' = [k \in Job |-> IF k = j THEN "canceled"
                                  ELSE IF k \in skipped THEN "skipped" ELSE status[k]]
      /\ position' = Without(gone)
  BY DEF CancelBeforeSpawn
<1>2. Queued' = Queued \ gone
  <2> HIDE DEF skipped
  <2> QED
    BY <1>1 DEF Queued
<1> QED
  BY <1>1, <1>2, WithoutNumbered DEF OInv, IInv

LEMMA DrainNumbers ==
  ASSUME OInv, TypeOK', Drain
  PROVE  Numbered'
<1>1. CASE UNCHANGED queueVars
  BY <1>1, SameNumbers DEF OInv
<1>2. ASSUME NEW j \in Job, Reserve(j)
      PROVE  Numbered'
  <2>1. /\ status' = [status EXCEPT ![j] = "running"]
        /\ position' = Without({j})
    BY <1>2 DEF Reserve
  <2>2. Queued' = Queued \ {j}
    BY <2>1 DEF Queued, OInv, IInv, TypeOK, QueueTypes
  <2> QED
    BY <2>1, <2>2, WithoutNumbered DEF OInv, IInv
<1> QED
  BY <1>1, <1>2 DEF Drain

LEMMA WedgeUnsettledNumbers ==
  ASSUME OInv, TypeOK', NEW j \in Job, WedgeUnsettled(j)
  PROVE  Numbered'
<1>1. CASE UNCHANGED queueVars
  BY <1>1, SameNumbers DEF OInv
<1>2. CASE status' = [status EXCEPT ![j] = "queued"] /\ position' = Unshifted(j)
  <2>1. j \notin Queued
    BY DEF WedgeUnsettled, CanContinueStart, Queued, OInv, Outcome, SlotUse
  <2>2. Queued' = Queued \cup {j}
    BY <1>2 DEF Queued, OInv, IInv, TypeOK, QueueTypes
  <2> QED
    BY <1>2, <2>1, <2>2, UnshiftedNumbered DEF OInv, IInv
<1> QED
  BY <1>1, <1>2 DEF WedgeUnsettled

LEMMA CaptureNumbers ==
  ASSUME OInv, TypeOK', Capture
  PROVE  Numbered'
<1>1. CASE UNCHANGED <<status, position>>
  BY <1>1, SameNumbers DEF OInv
<1>2. CASE /\ mode = "up" /\ position' = Restored
           /\ status' = [j \in Job |-> IF j \in saved THEN "queued" ELSE status[j]]
  <2>1. \A j \in Job : status[j] = "none"
    BY <1>2 DEF Capture, OInv, IInv, Safe, Blank, Unrestored
  <2>2. Queued' = saved
    BY <1>2, <2>1 DEF Queued, OInv, IInv, TypeOK, DiskTypes
  <2> QED
    BY <1>2, <2>2, RestoredNumbered DEF OInv, IInv
<1> QED
  BY <1>1, <1>2 DEF Capture

LEMMA ReplayRowNumbers ==
  ASSUME OInv, TypeOK', NEW j \in Job, ReplayRow(j)
  PROVE  Numbered'
<1>1. CASE UNCHANGED <<status, position>>
  BY <1>1, SameNumbers DEF OInv
<1>2. CASE SkipDescendants(j)
  <2> DEFINE skipped == {k \in descendants[j] : StillQueued(k)}
  <2>1. /\ status' = [k \in Job |-> IF k \in skipped /\ status[k] # "none"
                                    THEN "skipped" ELSE status[k]]
        /\ position' = Without(skipped)
    BY <1>2 DEF SkipDescendants
  <2> HIDE DEF skipped
  <2>2. Queued' = Queued \ skipped
    BY <2>1 DEF Queued
  <2> QED
    BY <2>1, <2>2, WithoutNumbered DEF OInv, IInv
<1> QED
  BY <1>1, <1>2 DEF ReplayRow

LEMMA CrashNumbers ==
  ASSUME Crash
  PROVE  Numbered'
<1>1. /\ \A j \in Job : status'[j] = "none" /\ position'[j] = 0
  BY DEF Crash
<1> QED
  BY <1>1 DEF Numbered, Queued

LEMMA NextNumbers ==
  ASSUME OInv, TypeOK', [Next]_vars
  PROVE  Numbered'
<1>1. ASSUME NEW j \in Job,
             \/ Enqueue(j) \/ CancelBeforeSpawn(j) \/ WedgeFailed(j)
             \/ WedgeUnsettled(j) \/ ChildExit(j) \/ ForceFail(j) \/ ReplayRow(j)
      PROVE  Numbered'
  BY <1>1, EnqueueNumbers, CancelBeforeSpawnNumbers, EndedNumbers,
     WedgeUnsettledNumbers, ReplayRowNumbers
<1>2. ASSUME NEW j \in Job, NEW w \in Priorities, UpdatePriority(j, w)
      PROVE  Numbered'
  BY <1>2, UpdatePriorityNumbers
<1>3. ASSUME NEW p \in [Job -> 0 .. Cardinality(Job)], Reorder(p)
      PROVE  Numbered'
  BY <1>3, ReorderNumbers
<1>4. CASE Shutdown \/ Drain \/ Capture \/ Crash
  BY <1>4, ShutdownNumbers, DrainNumbers, CaptureNumbers, CrashNumbers
<1>5. CASE \/ \E j \in Job : \/ Forget(j) \/ CancelRunning(j) \/ Spawn(j)
                             \/ AbandonStart(j) \/ ExitDisposed(j) \/ LateExit(j)
                             \/ PersistEventFails(j) \/ ZombieTimeout(j)
                             \/ SigkillAnswered(j)
           \/ Pause \/ Resume \/ KillTimerFires \/ AfterReplay \/ Restart
           \/ UNCHANGED vars
  BY <1>5, UntouchedNumbers
<1> QED
  BY <1>1, <1>2, <1>3, <1>4, <1>5 DEF Next
-----------------------------------------------------------------------------
(* The invariant.                                                          *)
LEMMA NextOutcome ==
  ASSUME OInv, [Next]_vars
  PROVE  Outcome'
<1>1. ASSUME NEW j \in Job,
             \/ Enqueue(j) \/ Forget(j) \/ CancelBeforeSpawn(j)
             \/ Spawn(j) \/ AbandonStart(j) \/ WedgeFailed(j) \/ WedgeUnsettled(j)
      PROVE  Outcome'
  BY <1>1, EnqueueOutcome, ForgetOutcome, CancelBeforeSpawnOutcome, SpawnOutcome,
     AbandonStartOutcome, WedgeFailedOutcome, WedgeUnsettledOutcome
<1>2. ASSUME NEW j \in Job,
             \/ ExitDisposed(j) \/ LateExit(j) \/ ChildExit(j) \/ ForceFail(j)
             \/ ReplayRow(j)
      PROVE  Outcome'
  BY <1>2, ExitDisposedOutcome, LateExitOutcome, ChildExitOutcome, ForceFailOutcome,
     ReplayRowOutcome
<1>3. CASE Resume \/ Shutdown \/ Drain \/ Capture \/ AfterReplay \/ Crash \/ Restart
  BY <1>3, ResumeOutcome, ShutdownOutcome, DrainOutcome, CaptureOutcome,
     AfterReplayOutcome, CrashOutcome, RestartOutcome
<1>4. CASE \/ \E j \in Job : \/ CancelRunning(j) \/ PersistEventFails(j)
                             \/ ZombieTimeout(j) \/ SigkillAnswered(j)
           \/ \E j \in Job, w \in Priorities : UpdatePriority(j, w)
           \/ \E p \in [Job -> 0 .. Cardinality(Job)] : Reorder(p)
           \/ Pause \/ KillTimerFires \/ UNCHANGED vars
  BY <1>4, CalmStep
<1> QED
  BY <1>1, <1>2, <1>3, <1>4 DEF Next

LEMMA InitOutcome == Init => Outcome /\ Numbered
<1> SUFFICES ASSUME Init PROVE Outcome /\ Numbered
  OBVIOUS
<1>1. Spawned = {}
  BY DEF Init, Spawned
<1>2. OutboxInv /\ LedgerInv
  BY DEF Init, OutboxInv, LedgerInv, SettledExactlyOnce, Terminal
<1>3. SnapshotInv
  BY DEF Init, SnapshotInv, Doomed
<1>4. MemoryInv
  BY JobNotNull DEF Init, MemoryInv, Serving, Unrestored, Terminal
<1>5. SlotUse
  BY JobNotNull DEF Init, SlotUse
<1>6. PauseInv
  BY <1>1, FS_EmptySet, BoundAssumption DEF Init, PauseInv
<1>7. Numbered
  BY DEF Init, Numbered, Queued
<1> QED
  BY <1>2, <1>3, <1>4, <1>5, <1>6, <1>7 DEF Outcome

(* The invariant the results below follow from: no step of the queue       *)
(* manager, a failing transaction and a crash included, leaves it.         *)
THEOREM OutcomeInvariance == Spec => []OInv
<1>1. Init => OInv
  BY InitTypes, InitSafe, InitOutcome DEF OInv, IInv
<1>2. OInv /\ [Next]_vars => OInv'
  <2> SUFFICES ASSUME OInv, [Next]_vars PROVE OInv'
    OBVIOUS
  <2>1. IInv'
    BY NextTypes, NextSafe DEF OInv, IInv
  <2>2. Outcome' /\ Numbered'
    BY <2>1, NextOutcome, NextNumbers DEF IInv
  <2> QED
    BY <2>1, <2>2 DEF OInv
<1> QED
  BY <1>1, <1>2, PTL DEF Spec

(* _resumeOrphanRecoveries and _flushInFlightAccounting: however often an  *)
(* accounting is replayed after a crash or reopened by a late exit, a job  *)
(* has at most one ledger entry, and its outbox row goes only when the     *)
(* outcome was reported and the spend recorded.                            *)
THEOREM SettledExactlyOnceHolds == Spec => []SettledExactlyOnce
<1>1. OInv => SettledExactlyOnce
  BY DEF OInv, Outcome, LedgerInv
<1> QED
  BY <1>1, OutcomeInvariance, PTL

(* _enforceDailyBudget reads the ledger only: whenever the queue may start *)
(* a job it knows the spend of every earlier one, and never more jobs than *)
(* the cap are spawned.                                                    *)
THEOREM SpendIsKnownHolds == Spec => []SpendIsKnown
<1>1. OInv => SpendIsKnown
  <2> SUFFICES ASSUME OInv PROVE SpendIsKnown
    OBVIOUS
  <2>1. ASSUME mode = "up", ~paused, pc \in {"idle", "drain"},
               NEW j \in Job, j # active, spawns[j] > 0
        PROVE  ledger[j] > 0
    <3>1. Serving /\ outbox \subseteq accounted
      BY <2>1 DEF OInv, Outcome, PauseInv, Serving, Unrestored
    <3> QED
      BY <2>1, <3>1, KnownSpend
  <2>2. Cardinality({j \in Job : spawns[j] > 0}) <= BudgetCap
    BY DEF OInv, Outcome, PauseInv, Spawned
  <2> QED
    BY <2>1, <2>2 DEF SpendIsKnown
<1> QED
  BY <1>1, OutcomeInvariance, PTL

(* What the manager reports as ended has ended on disk with that status,   *)
(* what it has queued a restart would queue again, and its queue is        *)
(* numbered from 1 without gaps (_recomputePositions).                     *)
THEOREM StateConsistentHolds == Spec => []StateConsistent
<1>1. OInv => StateConsistent
  <2> SUFFICES ASSUME OInv PROVE StateConsistent
    OBVIOUS
  <2>1. MemoryMatchesDisk
    BY DEF OInv, Outcome, MemoryInv, MemoryMatchesDisk
  <2>2. QueueConsistent
    BY DEF OInv, Numbered, Rank, QueueConsistent
  <2> QED
    BY <2>1, <2>2 DEF OInv, IInv, StateConsistent
<1> QED
  BY <1>1, OutcomeInvariance, PTL
-----------------------------------------------------------------------------
(* The queue implements JobLifecycle.                                      *)
LEMMA PhaseOf ==
  ASSUME OInv, NEW j \in Job
  PROVE  /\ Phase(j) = "new" <=> j \notin admitted
         /\ Phase(j) = "waiting" <=> j \in saved
         /\ row[j] # "none" => Phase(j) = row[j]
         /\ Phase(j) \in {"new", "waiting", "running"} \cup Terminal
         /\ j \notin admitted => row[j] = "none"
         /\ row[j] = "none" /\ j \in admitted => j \in saved
BY DEF Phase, Terminal, OInv, IInv, Safe, AdmittedOnce, TypeOK, DiskTypes

(* A row that changes is of a job that ends: by itself, before its start,  *)
(* or because the job it depends on has not completed.                     *)
RowEnds(j) ==
  \/ row'[j] = row[j]
  \/ row[j] = "running" /\ row'[j] \in Terminal \ {"skipped"}
  \/ row[j] = "none" /\ j \in admitted /\ row'[j] \in {"failed", "canceled"}
  \/ /\ row[j] = "none" /\ j \in admitted /\ row'[j] = "skipped"
     /\ Dep[j] \in Job /\ row'[Dep[j]] \in Terminal \ {"completed"}

LEMMA RowsEnd ==
  ASSUME OInv, OInv', UNCHANGED <<admitted, forgotten>>, notified \subseteq notified',
         \A j \in Job : RowEnds(j)
  PROVE  Lifecycle!EndOrReport
<1> DEFINE ph == [j \in Job |-> Phase(j)]
<1>1. \A j \in Job :
        /\ Phase(j)' = "new" <=> j \notin admitted'
        /\ row'[j] # "none" => Phase(j)' = row'[j]
        /\ Phase(j)' \in {"new", "waiting", "running"} \cup Terminal
        /\ row'[j] = "none" /\ j \in admitted' => j \in saved' /\ Phase(j)' = "waiting"
  BY DEF Phase, Terminal, OInv, IInv, Safe, AdmittedOnce, TypeOK, DiskTypes
<1>2. \A j \in Job : ph[j] = Phase(j) /\ ph'[j] = Phase(j)'
  OBVIOUS
<1>3. ph' \in [Job -> {"new", "waiting", "running"} \cup Terminal]
  BY <1>1
<1>4. ASSUME NEW j \in Job
      PROVE  \/ ph'[j] = ph[j]
             \/ ph[j] = "running" /\ ph'[j] \in Terminal \ {"skipped"}
             \/ ph[j] = "waiting" /\ ph'[j] \in {"failed", "canceled"}
             \/ /\ ph[j] = "waiting" /\ ph'[j] = "skipped"
                /\ Dep[j] # NoJob /\ ph'[Dep[j]] \in Terminal \ {"completed"}
  <2> HIDE DEF ph
  <2>1. CASE row'[j] = row[j]
    BY <1>1, <1>2, <2>1, PhaseOf
  <2>2. CASE row[j] = "running" /\ row'[j] \in Terminal \ {"skipped"}
    BY <1>1, <1>2, <2>2, PhaseOf DEF Terminal
  <2>3. CASE row[j] = "none" /\ j \in admitted /\ row'[j] \in {"failed", "canceled"}
    BY <1>1, <1>2, <2>3, PhaseOf
  <2>4. CASE /\ row[j] = "none" /\ j \in admitted /\ row'[j] = "skipped"
             /\ Dep[j] \in Job /\ row'[Dep[j]] \in Terminal \ {"completed"}
    <3>1. Dep[j] # NoJob /\ row'[Dep[j]] # "none"
      BY <2>4, JobNotNull DEF Terminal
    <3> QED
      BY <1>1, <1>2, <2>4, <3>1, PhaseOf
  <2> QED
    BY <2>1, <2>2, <2>3, <2>4 DEF RowEnds
<1>5. ASSUME NEW j \in notified' PROVE j \in Job /\ ph'[j] \in Terminal
  <2>1. j \in Job /\ row'[j] \in Terminal
    BY DEF OInv, Outcome, LedgerInv, IInv, TypeOK, HistoryTypes
  <2> QED
    BY <1>1, <1>2, <2>1 DEF Terminal
<1> QED
  BY <1>3, <1>4, <1>5
     DEF Lifecycle!EndOrReport, Lifecycle!MayEnd, Lifecycle!Outcome, Terminal

LEMMA AdmitStep ==
  ASSUME OInv, OInv', NEW j \in Job, Enqueue(j)
  PROVE  Lifecycle!Admit(j)
<1>1. /\ j \notin admitted /\ admitted' = admitted \cup {j} /\ UNCHANGED row
      /\ UNCHANGED <<notified, forgotten>>
  BY DEF Enqueue
<1>2. row[j] = "none"
  BY <1>1, PhaseOf
<1>3. \A k \in Job : Phase(k)' = IF k = j THEN "waiting" ELSE Phase(k)
  BY <1>1, <1>2 DEF Phase
<1>4. Phase(j) = "new"
  BY <1>1 DEF Phase
<1> QED
  BY <1>1, <1>3, <1>4 DEF Lifecycle!Admit

LEMMA StartStep ==
  ASSUME OInv, OInv', NEW j \in Job, j \in starting, mode = "up", active = j,
         row' = [row EXCEPT ![j] = "running"],
         UNCHANGED <<admitted, notified, forgotten>>
  PROVE  Lifecycle!Start(j)
<1>1. j \in saved /\ j \in admitted /\ Phase(j) = "waiting"
  <2>1. j \in saved
    BY DEF OInv, Outcome, SlotUse
  <2> QED
    BY <2>1, WaitingJob, PhaseOf
<1>2. \A k \in Job : Phase(k)' = IF k = j THEN "running" ELSE Phase(k)
  BY <1>1 DEF Phase, OInv, IInv, TypeOK, DiskTypes
<1>3. ASSUME Dep[j] # NoJob
      PROVE  /\ Dep[j] \in Job
             /\ Phase(Dep[j]) = "completed" \/ Dep[j] \in forgotten
  <2>1. Dep[j] \in Job /\ (row[Dep[j]] = "completed" \/ Dep[j] \in forgotten)
    BY <1>1, <1>3 DEF OInv, Outcome, SlotUse, IInv, TypeOK, HistoryTypes
  <2> QED
    BY <2>1, PhaseOf
<1> QED
  BY <1>1, <1>2, <1>3 DEF Lifecycle!Start

LEMMA ArchiveStep ==
  ASSUME OInv, NEW j \in Job, Forget(j)
  PROVE  Lifecycle!Archive(j)
<1>1. /\ row[j] \in Terminal /\ forgotten' = forgotten \cup {j}
      /\ UNCHANGED <<row, admitted, notified>>
  BY DEF Forget
<1>2. Phase(j) \in Terminal /\ \A k \in Job : Phase(k)' = Phase(k)
  BY <1>1, PhaseOf DEF Phase, Terminal
<1> QED
  BY <1>1, <1>2 DEF Lifecycle!Archive, Lifecycle!Outcome, Terminal

(* The jobs that the other steps end.                                      *)
LEMMA EndedRows ==
  ASSUME OInv, NEW k \in Job, WedgeFailed(k) \/ ChildExit(k) \/ ForceFail(k)
  PROVE  \A j \in Job : RowEnds(j)
<1>1. row[k] \in {"none", "running"} /\ k \in admitted
  <2>1. active = k /\ status[k] = "running"
    BY DEF WedgeFailed, ChildExit, ForceFail, CanContinueStart, Idle, OInv, Outcome,
           SlotUse, IInv, Safe, SlotInv, OneChild
  <2> QED
    BY <2>1, SlotJob
<1>2. ChildExit(k) => row[k] = "running"
  BY DEF ChildExit, Idle, OInv, Outcome, SlotUse
<1>3. /\ \A j \in Job : j # k => row'[j] = row[j]
      /\ \/ row'[k] = row[k]
         \/ row'[k] = "failed"
         \/ row[k] = "running" /\ row'[k] \in Terminal \ {"skipped"}
  BY <1>2 DEF WedgeFailed, ChildExit, ForceFail, Stage, Unstaged, Outcomes, Terminal
<1> QED
  BY <1>1, <1>3 DEF RowEnds, Terminal

LEMMA CanceledRows ==
  ASSUME OInv, NEW k \in Job, CancelBeforeSpawn(k)
  PROVE  \A j \in Job : RowEnds(j)
<1> DEFINE skipped == Descendants(k, Queued \ {k})
<1>1. /\ row' = [j \in Job |-> IF j = k THEN "canceled"
                               ELSE IF j \in skipped THEN "skipped" ELSE row[j]]
      /\ status[k] = "queued" \/ Preparing(k)
      /\ mode = "up" /\ pc = "idle"
  BY DEF CancelBeforeSpawn, Idle
<1>2. skipped \subseteq Queued \ {k} /\ \A j \in skipped : Dep[j] \in skipped \cup {k}
  BY DescendantsType, DescendantsParent
<1> HIDE DEF skipped
<1>3. \A j \in Queued : row[j] = "none" /\ j \in admitted /\ j \in Job
  BY WaitingJob DEF Queued, OInv, Outcome, MemoryInv
<1>4. row[k] \in {"none", "running"} /\ k \in admitted
  BY <1>1, <1>3, SlotJob DEF Queued, Preparing
<1> QED
  BY <1>1, <1>2, <1>3, <1>4 DEF RowEnds, Terminal

LEMMA AbortedRows ==
  ASSUME OInv, Shutdown
  PROVE  \A j \in Job : RowEnds(j)
<1>1. \E aborted \in {Running, {}} :
        row' = [j \in Job |-> IF j \in aborted THEN "failed" ELSE row[j]]
  BY DEF Shutdown, Flushed
<1>2. \A j \in Running : row[j] \in {"none", "running"} /\ j \in admitted
  BY SlotJob DEF Running
<1> QED
  BY <1>1, <1>2 DEF RowEnds, Terminal

LEMMA CapturedRows ==
  ASSUME OInv, Capture
  PROVE  \A j \in Job : RowEnds(j)
<1>1. \/ UNCHANGED row
      \/ row' = [j \in Job |-> IF j \in Orphan THEN "failed" ELSE row[j]]
  BY DEF Capture, Captured
<1> QED
  BY <1>1 DEF RowEnds, Orphan, Terminal

LEMMA SkippedRows ==
  ASSUME OInv, NEW k \in Job, ReplayRow(k)
  PROVE  \A j \in Job : RowEnds(j)
<1>1. \/ UNCHANGED row
      \/ /\ row[k] # "completed"
         /\ row' = [j \in Job |-> IF j \in Doomed(k) THEN "skipped" ELSE row[j]]
  BY SkippedDoomed DEF ReplayRow, SkipDescendants
<1>2. row[k] \in Terminal
  BY DEF ReplayRow, OInv, Outcome, OutboxInv
<1>3. \A j \in Doomed(k) : /\ row[j] = "none" /\ j \in admitted /\ j \in Job
                           /\ Dep[j] \in Doomed(k) \cup {k}
  <2>1. Doomed(k) \subseteq Job /\ Doomed(k) \subseteq saved
    BY DEF Doomed, OInv, IInv, TypeOK, DiskTypes
  <2> QED
    BY <2>1, WaitingJob DEF OInv, Outcome, SnapshotInv
<1> QED
  BY <1>1, <1>2, <1>3 DEF RowEnds, Terminal

LEMMA LifecycleStep ==
  ASSUME OInv, OInv', [Next]_vars
  PROVE  [Lifecycle!Next]_(Lifecycle!vars)
<1>1. ASSUME NEW j \in Job, Enqueue(j)
      PROVE  Lifecycle!Next
  BY <1>1, AdmitStep DEF Lifecycle!Next
<1>2. ASSUME NEW j \in Job, Forget(j)
      PROVE  Lifecycle!Next
  BY <1>2, ArchiveStep DEF Lifecycle!Next
<1>3. ASSUME NEW j \in Job, j \in starting, CanContinueStart(j),
             row' = [row EXCEPT ![j] = "running"],
             UNCHANGED <<admitted, notified, forgotten>>
      PROVE  Lifecycle!Next
  BY <1>3, StartStep DEF Lifecycle!Next, CanContinueStart
<1>4. ASSUME UNCHANGED <<admitted, forgotten>>, notified \subseteq notified',
             \A j \in Job : RowEnds(j)
      PROVE  Lifecycle!Next
  BY <1>4, RowsEnd DEF Lifecycle!Next
<1>5. ASSUME NEW j \in Job,
             \/ WedgeFailed(j) \/ ChildExit(j) \/ ForceFail(j) \/ CancelBeforeSpawn(j)
      PROVE  Lifecycle!Next
  <2>1. UNCHANGED <<admitted, forgotten, notified>>
    BY <1>5 DEF WedgeFailed, ChildExit, ForceFail, CancelBeforeSpawn, Stage, Unstaged
  <2> QED
    BY <1>4, <1>5, <2>1, EndedRows, CanceledRows
<1>6. ASSUME NEW j \in Job, ReplayRow(j)
      PROVE  Lifecycle!Next
  <2>1. UNCHANGED <<admitted, forgotten>> /\ notified \subseteq notified'
    BY <1>6 DEF ReplayRow
  <2> QED
    BY <1>4, <1>6, <2>1, SkippedRows
<1>7. CASE Shutdown \/ Capture
  <2>1. UNCHANGED <<admitted, forgotten, notified>>
    BY <1>7 DEF Shutdown, Capture
  <2> QED
    BY <1>4, <1>7, <2>1, AbortedRows, CapturedRows
<1>8. ASSUME UNCHANGED <<row, admitted, forgotten, notified>>
      PROVE  Lifecycle!Next
  BY <1>4, <1>8 DEF RowEnds
<1>9. ASSUME NEW j \in Job, Spawn(j) \/ WedgeUnsettled(j)
      PROVE  Lifecycle!Next
  <2>1. /\ j \in starting /\ CanContinueStart(j)
        /\ row' = [row EXCEPT ![j] = "running"] \/ UNCHANGED row
        /\ UNCHANGED <<admitted, notified, forgotten>>
    BY <1>9 DEF Spawn, WedgeUnsettled
  <2> QED
    BY <1>3, <1>8, <2>1
<1>10. ASSUME NEW j \in Job,
              \/ AbandonStart(j) \/ CancelRunning(j) \/ ExitDisposed(j) \/ LateExit(j)
              \/ PersistEventFails(j) \/ ZombieTimeout(j) \/ SigkillAnswered(j)
       PROVE  Lifecycle!Next
  <2>1. UNCHANGED <<row, admitted, forgotten, notified>>
    BY <1>10 DEF AbandonStart, CancelRunning, ExitDisposed, LateExit,
                 PersistEventFails, ZombieTimeout, SigkillAnswered
  <2> QED
    BY <1>8, <2>1
<1>11. CASE \/ \E j \in Job, w \in Priorities : UpdatePriority(j, w)
            \/ \E p \in [Job -> 0 .. Cardinality(Job)] : Reorder(p)
            \/ Pause \/ Resume \/ Drain \/ KillTimerFires \/ AfterReplay
            \/ Crash \/ Restart \/ UNCHANGED vars
  <2>1. UNCHANGED <<row, admitted, forgotten, notified>>
    BY <1>11 DEF UpdatePriority, Reorder, Pause, Resume, Drain, KillTimerFires,
                 AfterReplay, Crash, Restart
  <2> QED
    BY <1>8, <2>1
<1> QED
  BY <1>1, <1>2, <1>5, <1>6, <1>7, <1>9, <1>10, <1>11 DEF Next

LEMMA LifecycleInit == Init => Lifecycle!Init
BY DEF Init, Lifecycle!Init, Phase

(* The handlers of the queue manager, its crashes and recoveries included, *)
(* do to each job only what JobLifecycle allows: one admission, one start  *)
(* after the parent completed, one end, a report only of an end.           *)
THEOREM LifecycleImplemented == Spec => ImplementsLifecycle
<1>1. Init => Lifecycle!Init
  BY LifecycleInit
<1>2. OInv /\ OInv' /\ [Next]_vars => [Lifecycle!Next]_(Lifecycle!vars)
  BY LifecycleStep
<1> QED
  BY <1>1, <1>2, OutcomeInvariance, PTL
     DEF Spec, ImplementsLifecycle, Lifecycle!Spec
-----------------------------------------------------------------------------
(* The jobs that wait.                                                     *)

(* No job depends on one that itself depends on another.                   *)
Shallow == \A j \in Job : Dep[j] # NoJob => Dep[Dep[j]] = NoJob

Bad == Terminal \ {"completed"}

(* A dependent of p has nothing to wait for.                               *)
Hopeless(p) ==
  \/ row[p] \in Bad /\ p \notin forgotten
  \/ mode = "up" /\ status[p] \in Bad

(* A replay is going to skip k.                                            *)
Covered(k) == \E d \in Job \ finished : k \in descendants[d]

(* A job that waits for nothing is in a snapshot that is still replayed.   *)
Guarded ==
  faults = 0 \/ Shallow =>
    \A k \in saved : Dep[k] # NoJob /\ Hopeless(Dep[k]) => Covered(k)

(* While nothing has failed, a snapshot has the dependents of its members. *)
Linked ==
  faults = 0 =>
    \A d \in Job \ finished : \A k \in saved :
      Dep[k] \in Doomed(d) => k \in descendants[d]

(* While nothing has failed, no snapshot outlives the handler it is from.  *)
Drained ==
  faults = 0 /\ mode = "up" =>
    /\ pc \in {"idle", "drain"} => outbox \subseteq finished
    /\ pc = "replay" => outbox \ finished \subseteq pass

(* A job that got the slot has a parent that ended.                        *)
Attended ==
  mode = "up" /\ active \in saved /\ Dep[active] # NoJob =>
    row[Dep[active]] \in Terminal

(* The handlers that capture drain the queue in the end.                   *)
Restoring == mode = "up" /\ pc = "capture" => then # "late"

(* A handler that ends without a drain leaves no job that could start.     *)
Rested ==
  faults = 0 \/ forgets = 0 \/ Shallow =>
    (/\ mode = "up" /\ ~paused /\ active = NoJob
     /\ pc = "idle" \/ (pc = "replay" /\ then = "late")
     => \A j \in Job : ~Ready(j))

Waiting == Guarded /\ Linked /\ Drained /\ Attended /\ Restoring /\ Rested

WInv == OInv /\ Waiting

LEMMA ParentIsJob ==
  ASSUME NEW k \in Job, Dep[k] # NoJob PROVE Dep[k] \in Job
BY DepAssumption

(* With chains of one link the snapshots are closed without an induction.  *)
LEMMA SnapshotsLinked ==
  ASSUME WInv, faults = 0 \/ Shallow, NEW d \in Job \ finished, NEW k \in saved,
         Dep[k] \in Doomed(d)
  PROVE  k \in descendants[d]
<1>1. CASE faults = 0
  BY <1>1 DEF WInv, Waiting, Linked
<1>2. CASE Shallow
  <2>1. Dep[k] \in Job /\ k \in Job
    BY DEF Doomed, WInv, OInv, IInv, TypeOK, DiskTypes
  <2>2. Dep[Dep[k]] \in Doomed(d) \cup {d}
    BY DEF WInv, OInv, Outcome, SnapshotInv
  <2>3. Dep[Dep[k]] \in Job
    BY <2>2 DEF Doomed, WInv, OInv, IInv, TypeOK, DiskTypes
  <2>4. Dep[Dep[k]] = NoJob
    BY <1>2, <2>1, JobNotNull DEF Shallow
  <2> QED
    BY <2>3, <2>4, JobNotNull
<1> QED
  BY <1>1, <1>2

(* What two snapshots and the jobs that wait must do in a step.            *)
LEMMA GuardKept ==
  ASSUME WInv, faults' = 0 => faults = 0, saved' \subseteq saved,
         \A k \in saved' : faults = 0 \/ Shallow =>
           /\ Dep[k] # NoJob /\ Hopeless(Dep[k])' => Hopeless(Dep[k]) \/ Covered(k)'
           /\ Covered(k) => Covered(k)'
  PROVE  Guarded'
BY DEF WInv, Waiting, Guarded

LEMMA LinksKept ==
  ASSUME WInv, faults' = 0 => faults = 0, saved' \subseteq saved,
         \A d \in Job \ finished' :
           \/ d \notin finished /\ descendants'[d] = descendants[d]
           \/ descendants'[d] \cap saved' = {}
           \/ \A k \in saved : Dep[k] \in descendants'[d] => k \in descendants'[d]
  PROVE  Linked'
<1> SUFFICES ASSUME faults = 0, NEW d \in Job \ finished', NEW k \in saved',
                    Dep[k] \in Doomed(d)'
             PROVE  k \in descendants'[d]
  BY DEF Linked
<1>1. Dep[k] \in descendants'[d] /\ Dep[k] \in saved'
  BY DEF Doomed
<1>2. CASE d \notin finished /\ descendants'[d] = descendants[d]
  BY <1>1, <1>2 DEF WInv, Waiting, Linked, Doomed
<1> QED
  BY <1>1, <1>2

(* The jobs of S, which had no snapshot, are settled and get one.          *)
LEMMA SettledGuard ==
  ASSUME WInv, TypeOK', faults' = 0 => faults = 0,
         NEW S \in SUBSET Job, S \cap outbox = {},
         saved' \subseteq saved, forgotten \subseteq forgotten',
         \A j \in Job \ S : /\ j \in finished' <=> j \in finished
                            /\ descendants'[j] = descendants[j]
                            /\ row'[j] \in Bad => row'[j] = row[j]
                            /\ mode' = "up" /\ status'[j] \in Bad =>
                                 mode = "up" /\ status'[j] = status[j],
         \A j \in S : /\ j \notin finished'
                      /\ descendants'[j] = IF row'[j] = "completed" THEN {}
                                           ELSE Descendants(j, saved)
                      /\ row'[j] \in Terminal
                      /\ mode' = "up" /\ status'[j] \in Bad => row'[j] \in Bad
  PROVE  Guarded' /\ Linked'
<1>1. saved \subseteq Job /\ saved' \subseteq Job
  BY DEF WInv, OInv, IInv, TypeOK, DiskTypes
<1>2. \A j \in S : descendants[j] = {}
  BY DEF WInv, OInv, Outcome, OutboxInv
<1>3. ASSUME NEW k \in saved', Dep[k] # NoJob, Hopeless(Dep[k])'
      PROVE  Hopeless(Dep[k]) \/ Covered(k)'
  <2>1. Dep[k] \in Job
    BY <1>1, <1>3, ParentIsJob
  <2>2. CASE Dep[k] \notin S
    BY <1>3, <2>1, <2>2 DEF Hopeless
  <2>3. CASE Dep[k] \in S
    <3>1. row'[Dep[k]] \in Bad
      BY <1>3, <2>3 DEF Hopeless
    <3>2. k \in Descendants(Dep[k], saved)
      BY DescendantsClosed
    <3>3. k \in descendants'[Dep[k]] /\ Dep[k] \notin finished'
      BY <2>3, <3>1, <3>2 DEF Bad
    <3> QED
      BY <2>1, <3>3 DEF Covered
  <2> QED
    BY <2>2, <2>3
<1>4. ASSUME NEW k \in saved', Covered(k)
      PROVE  Covered(k)'
  <2>1. PICK d \in Job \ finished : k \in descendants[d]
    BY <1>4 DEF Covered
  <2>2. d \notin S
    BY <1>2, <2>1
  <2> QED
    BY <2>1, <2>2 DEF Covered
<1>5. Guarded'
  BY <1>3, <1>4, GuardKept
<1>6. ASSUME NEW d \in Job \ finished'
      PROVE  \/ d \notin finished /\ descendants'[d] = descendants[d]
             \/ descendants'[d] \cap saved' = {}
             \/ \A k \in saved : Dep[k] \in descendants'[d] => k \in descendants'[d]
  <2>1. CASE d \notin S
    BY <2>1
  <2>2. CASE d \in S
    <3>1. \A k \in saved : Dep[k] \in Descendants(d, saved) => k \in Descendants(d, saved)
      BY DescendantsClosed
    <3> QED
      BY <2>2, <3>1
  <2> QED
    BY <2>1, <2>2
<1> QED
  BY <1>5, <1>6, LinksKept

(* A step that settles no job.                                             *)
LEMMA QuietGuard ==
  ASSUME WInv, TypeOK', faults' = 0 => faults = 0,
         UNCHANGED <<finished, descendants>>,
         saved' \subseteq saved, forgotten \subseteq forgotten',
         \A j \in Job : /\ row'[j] \in Bad => row'[j] = row[j]
                        /\ mode' = "up" /\ status'[j] \in Bad =>
                             mode = "up" /\ status'[j] = status[j]
  PROVE  Guarded' /\ Linked'
<1> DEFINE S == {}
<1>1. S \in SUBSET Job /\ S \cap outbox = {}
  OBVIOUS
<1>2. /\ \A j \in Job \ S : /\ j \in finished' <=> j \in finished
                            /\ descendants'[j] = descendants[j]
                            /\ row'[j] \in Bad => row'[j] = row[j]
                            /\ mode' = "up" /\ status'[j] \in Bad =>
                                 mode = "up" /\ status'[j] = status[j]
      /\ \A j \in S : FALSE
  OBVIOUS
<1> HIDE DEF S
<1> QED
  BY <1>1, <1>2, SettledGuard

LEMMA CalmWaiting ==
  ASSUME WInv, TypeOK', faults' = 0 => faults = 0,
         UNCHANGED <<outboxVars, row, forgotten, saved, status, mode, pc, then, pass>>,
         paused => paused', mode = "up" => active' = active, forgets' = forgets
  PROVE  Waiting'
<1>1. Guarded' /\ Linked'
  BY QuietGuard
<1>2. Drained' /\ Attended' /\ Restoring'
  BY DEF WInv, Waiting, Drained, Attended, Restoring
<1>3. \A j \in Job : Ready(j)' <=> Ready(j)
  BY DEF Ready, DependencyMet, DependencyStatus
<1>4. Rested'
  BY <1>3 DEF WInv, Waiting, Rested, TypeOK, QueueTypes
<1> QED
  BY <1>1, <1>2, <1>4 DEF Waiting

(* The steps that settle nothing, start nothing and leave the queue alone. *)
LEMMA CalmSteps ==
  ASSUME WInv, TypeOK', faults' = 0 => faults = 0,
         \/ \E j \in Job : \/ CancelRunning(j) \/ PersistEventFails(j)
                           \/ ZombieTimeout(j) \/ SigkillAnswered(j)
                           \/ AbandonStart(j) \/ ExitDisposed(j)
         \/ \E j \in Job, w \in Priorities : UpdatePriority(j, w)
         \/ \E p \in [Job -> 0 .. Cardinality(Job)] : Reorder(p)
         \/ Pause \/ KillTimerFires \/ UNCHANGED vars
  PROVE  Waiting'
<1>1. ASSUME NEW j \in Job,
             \/ CancelRunning(j) \/ PersistEventFails(j)
             \/ ZombieTimeout(j) \/ SigkillAnswered(j)
      PROVE  Waiting'
  <2>1. CASE CancelRunning(j)
    BY <2>1, CalmWaiting DEF CancelRunning
  <2>2. CASE PersistEventFails(j)
    BY <2>2, CalmWaiting DEF PersistEventFails, FailStop
  <2>3. CASE ZombieTimeout(j)
    BY <2>3, CalmWaiting DEF ZombieTimeout
  <2>4. CASE SigkillAnswered(j)
    BY <2>4, CalmWaiting DEF SigkillAnswered
  <2> QED
    BY <1>1, <2>1, <2>2, <2>3, <2>4
<1>2. ASSUME NEW j \in Job, NEW w \in Priorities, UpdatePriority(j, w)
      PROVE  Waiting'
  BY <1>2, CalmWaiting DEF UpdatePriority
<1>3. ASSUME NEW p \in [Job -> 0 .. Cardinality(Job)], Reorder(p)
      PROVE  Waiting'
  BY <1>3, CalmWaiting DEF Reorder
<1>4. CASE Pause \/ KillTimerFires \/ UNCHANGED vars
  BY <1>4, CalmWaiting DEF Pause, KillTimerFires
<1>5. ASSUME NEW j \in Job, AbandonStart(j) \/ ExitDisposed(j)
      PROVE  Waiting'
  BY <1>5, CalmWaiting DEF AbandonStart, ExitDisposed
<1> QED
  BY <1>1, <1>2, <1>3, <1>4, <1>5

(* The end of the job in the slot.                                         *)
LEMMA StagedGuard ==
  ASSUME WInv, TypeOK', NEW j \in Job, active = j, status[j] = "running",
         NEW st \in Terminal, NEW hold, Stage({j}, st, hold), faults' = 0 => faults = 0,
         status' = [status EXCEPT ![j] = st], mode' = mode
  PROVE  Guarded' /\ Linked'
<1>1. j \notin outbox
  BY SlotJob DEF WInv, OInv, Outcome, OutboxInv, Terminal
<1>2. /\ status \in [Job -> {"none", "queued", "running"} \cup Terminal]
      /\ row'[j] = st /\ \A k \in Job \ {j} : row'[k] = row[k]
      /\ \A k \in Job \ {j} : descendants'[k] = descendants[k]
      /\ descendants'[j] = IF st = "completed" THEN {} ELSE Descendants(j, saved)
      /\ saved' \subseteq saved /\ forgotten' = forgotten /\ finished' = finished \ {j}
  BY DEF Stage, WInv, OInv, IInv, TypeOK, QueueTypes
<1>3. \A k \in Job : status'[k] = IF k = j THEN st ELSE status[k]
  BY <1>2
<1> DEFINE S == {j}
<1>4. S \in SUBSET Job /\ S \cap outbox = {}
  BY <1>1
<1>5. /\ \A k \in Job \ S : /\ k \in finished' <=> k \in finished
                            /\ descendants'[k] = descendants[k]
                            /\ row'[k] \in Bad => row'[k] = row[k]
                            /\ mode' = "up" /\ status'[k] \in Bad =>
                                 mode = "up" /\ status'[k] = status[k]
      /\ \A k \in S : /\ k \notin finished'
                      /\ descendants'[k] = IF row'[k] = "completed" THEN {}
                                           ELSE Descendants(k, saved)
                      /\ row'[k] \in Terminal
                      /\ mode' = "up" /\ status'[k] \in Bad => row'[k] \in Bad
  BY <1>2, <1>3
<1> HIDE DEF S
<1> QED
  BY <1>2, <1>4, <1>5, SettledGuard

(* The job of a live child that was not given up on has the slot.          *)
LEMMA ChildInSlot ==
  ASSUME OInv, mode = "up", NEW j \in child \ forceFailed
  PROVE  j \in Job /\ active = j /\ status[j] = "running" /\ row[j] = "running"
BY DEF OInv, Outcome, SlotUse, IInv, Safe, SlotInv, OneChild, TypeOK, ChildTypes

LEMMA EndedGuard ==
  ASSUME WInv, TypeOK', faults' = 0 => faults = 0, NEW j \in Job,
         WedgeFailed(j) \/ ChildExit(j) \/ ForceFail(j)
  PROVE  Guarded' /\ Linked'
<1>1. CASE WedgeFailed(j)
  <2>1. active = j /\ status[j] = "running" /\ Stage({j}, "failed", FALSE)
    BY <1>1 DEF WedgeFailed, CanContinueStart, WInv, OInv, Outcome, SlotUse
  <2> QED
    BY <1>1, <2>1, StagedGuard DEF WedgeFailed, Terminal
<1>2. CASE ChildExit(j)
  <2>1. active = j /\ status[j] = "running"
    BY <1>2, ChildInSlot DEF ChildExit, Idle, WInv
  <2>2. CASE \E st \in Outcomes(j) :
               Stage({j}, st, FALSE) /\ status' = [status EXCEPT ![j] = st]
    <3>1. PICK st \in Outcomes(j) :
                 Stage({j}, st, FALSE) /\ status' = [status EXCEPT ![j] = st]
      BY <2>2
    <3>2. st \in Terminal /\ mode' = mode
      BY <1>2 DEF Outcomes, Terminal, ChildExit
    <3> QED
      BY <2>1, <3>1, <3>2, StagedGuard
  <2>3. CASE Unstaged /\ UNCHANGED status
    BY <1>2, <2>3, QuietGuard DEF Unstaged, ChildExit
  <2> QED
    BY <1>2, <2>2, <2>3 DEF ChildExit
<1>3. CASE ForceFail(j)
  <2>1. active = j /\ status[j] = "running" /\ mode' = mode
    BY <1>3 DEF ForceFail
  <2>2. CASE Stage({j}, "failed", TRUE) /\ status' = [status EXCEPT ![j] = "failed"]
    BY <2>1, <2>2, StagedGuard DEF Terminal
  <2>3. CASE Unstaged /\ UNCHANGED status
    BY <2>1, <2>3, QuietGuard DEF Unstaged
  <2> QED
    BY <1>3, <2>2, <2>3 DEF ForceFail
<1> QED
  BY <1>1, <1>2, <1>3

LEMMA ReplayWaits ==
  ASSUME NEW next, Replay(next)
  PROVE  Drained' /\ Restoring' /\ (next # "late" => Rested')
BY DEF Replay, Drained, Restoring, Rested

LEMMA StillAttended ==
  ASSUME WInv, active' \in saved' => active' = active /\ active \in saved,
         mode' = "up" => mode = "up",
         \A j \in Job : row[j] \in Terminal => row'[j] \in Terminal
  PROVE  Attended'
<1>1. SUFFICES ASSUME mode' = "up", active' \in saved', Dep[active'] # NoJob
               PROVE  row'[Dep[active']] \in Terminal
  BY DEF Attended
<1>2. active' = active /\ active \in saved /\ mode = "up" /\ active \in Job
  BY <1>1 DEF WInv, OInv, IInv, TypeOK, DiskTypes
<1>3. Dep[active] \in Job /\ row[Dep[active]] \in Terminal
  BY <1>1, <1>2, ParentIsJob DEF WInv, Waiting, Attended
<1> QED
  BY <1>2, <1>3

LEMMA SameReady ==
  ASSUME UNCHANGED <<status, row, forgotten, saved>>
  PROVE  \A j \in Job : Ready(j)' <=> Ready(j)
BY DEF Ready, DependencyMet, DependencyStatus

(* While the queue runs, no snapshot is outstanding.                       *)
LEMMA NothingHopeless ==
  ASSUME WInv, mode = "up", ~paused, pc \in {"idle", "drain"}, faults = 0 \/ Shallow,
         NEW k \in saved, Dep[k] # NoJob
  PROVE  ~Hopeless(Dep[k])
<1>1. outbox \subseteq finished
  BY DEF WInv, OInv, Outcome, PauseInv
<1>2. ~Covered(k)
  BY <1>1 DEF Covered, WInv, OInv, Outcome, OutboxInv
<1> QED
  BY <1>2 DEF WInv, Waiting, Guarded

LEMMA ForgetWaiting ==
  ASSUME WInv, TypeOK', NEW j \in Job, Forget(j)
  PROVE  Waiting'
<1>1. /\ UNCHANGED <<outboxVars, row, saved, queueVars, flagVars, handlerVars, faults>>
      /\ forgotten' = forgotten \cup {j} /\ forgets' = forgets + 1 /\ Idle
      /\ row[j] \in Terminal /\ j \notin forgotten
  BY DEF Forget
<1>2. Guarded' /\ Linked'
  BY <1>1, QuietGuard
<1>3. Drained' /\ Attended' /\ Restoring'
  BY <1>1 DEF WInv, Waiting, Drained, Attended, Restoring
<1>4. Rested'
  <2>1. SUFFICES ASSUME faults = 0 \/ Shallow, ~paused, active = NoJob,
                        NEW k \in Job, Ready(k)'
                 PROVE  FALSE
    BY <1>1 DEF Rested, WInv, OInv, IInv, TypeOK, HistoryTypes
  <2>2. ~Ready(k) /\ status[k] = "queued" /\ k \in saved
    BY <1>1, <2>1 DEF Ready, WInv, OInv, Outcome, MemoryInv, Waiting, Rested, Idle
  <2>3. Dep[k] = j /\ status[j] = "none"
    BY <1>1, <2>1, <2>2 DEF Ready, DependencyMet, DependencyStatus
  <2>4. ~Hopeless(j)
    BY <1>1, <2>1, <2>2, <2>3, NothingHopeless, JobNotNull DEF Idle
  <2>5. row[j] = "completed"
    BY <1>1, <2>4 DEF Hopeless, Bad
  <2> QED
    BY <1>1, <2>2, <2>3, <2>5 DEF Ready, DependencyMet, DependencyStatus
<1> QED
  BY <1>2, <1>3, <1>4 DEF Waiting

LEMMA EnqueueWaiting ==
  ASSUME WInv, TypeOK', NEW j \in Job, Enqueue(j)
  PROVE  Waiting'
<1>1. /\ UNCHANGED <<outboxVars, row, forgotten, active, mode, pass, then, faults>>
      /\ status' = [status EXCEPT ![j] = "queued"] /\ saved' = saved \cup {j}
      /\ Idle /\ pc' = "drain" /\ j \notin admitted
      /\ Dep[j] # NoJob => /\ Dep[j] \in admitted
                           /\ DependencyStatus(Dep[j]) \notin Terminal \ {"completed"}
  BY DEF Enqueue
<1>2. /\ j \notin saved /\ j # active /\ \A d \in Job : j \notin descendants[d]
      /\ status[j] = "none"
  BY <1>1, NewJob DEF WInv
<1>3. \A p \in Job : Hopeless(p)' => Hopeless(p) /\ p # j
  BY <1>1, <1>2, NewJob DEF Hopeless, Bad, Terminal, WInv, OInv, IInv, TypeOK, QueueTypes
<1>4. ASSUME Dep[j] # NoJob
      PROVE  ~Hopeless(Dep[j])
  <2> DEFINE p == Dep[j]
  <2>1. p \in Job /\ status[p] \in {"none", "queued", "running"} \cup Terminal
    BY <1>4, ParentIsJob DEF WInv, OInv, IInv, TypeOK, QueueTypes
  <2>2. /\ status[p] \in Terminal => row[p] = status[p]
        /\ status[p] = "queued" => row[p] = "none"
        /\ status[p] = "running" => row[p] \in {"none", "running"}
    BY <1>1, <2>1, WaitingJob, SlotJob
       DEF WInv, OInv, Outcome, MemoryInv, IInv, Safe, SlotInv, OneChild, Idle
  <2> HIDE DEF p
  <2>3. DependencyStatus(p) \notin Bad
    BY <1>1, <1>4 DEF p, Bad
  <2>4. CASE status[p] = "none"
    BY <2>3, <2>4 DEF p, Hopeless, DependencyStatus, Bad, Terminal
  <2>5. CASE status[p] # "none"
    BY <2>1, <2>2, <2>3, <2>5
       DEF p, Hopeless, DependencyStatus, Bad, Terminal
  <2> QED
    BY <2>4, <2>5 DEF p
<1>5. Guarded'
  <2>1. \A k \in saved' : Dep[k] # NoJob => Dep[k] \in Job
    BY ParentIsJob DEF TypeOK, DiskTypes
  <2>2. \A k \in Job : Covered(k) => Covered(k)'
    BY <1>1 DEF Covered
  <2>3. saved \subseteq Job
    BY DEF WInv, OInv, IInv, TypeOK, DiskTypes
  <2> QED
    BY <1>1, <1>3, <1>4, <2>1, <2>2, <2>3 DEF Guarded, WInv, Waiting
<1>6. Linked'
  <2>1. SUFFICES ASSUME faults = 0, NEW d \in Job \ finished, NEW k \in saved',
                        Dep[k] \in Doomed(d)'
                 PROVE  FALSE
    BY <1>1 DEF Linked
  <2>2. d \notin outbox
    BY <1>1, <2>1 DEF WInv, Waiting, Drained, Idle
  <2> QED
    BY <1>1, <2>1, <2>2 DEF Doomed, WInv, OInv, Outcome, OutboxInv
<1>7. Drained' /\ Restoring' /\ Rested'
  BY <1>1 DEF WInv, Waiting, Drained, Restoring, Rested, Idle
<1>8. Attended'
  BY <1>1, <1>2, StillAttended DEF Idle
<1> QED
  BY <1>5, <1>6, <1>7, <1>8 DEF Waiting

LEMMA CancelBeforeSpawnWaiting ==
  ASSUME WInv, TypeOK', NEW j \in Job, CancelBeforeSpawn(j)
  PROVE  Waiting'
<1> DEFINE skipped == Descendants(j, Queued \ {j})
           gone == skipped \cup {j}
<1>1. /\ UNCHANGED <<forgotten, mode, faults>>
      /\ row' = [k \in Job |-> IF k = j THEN "canceled"
                               ELSE IF k \in skipped THEN "skipped" ELSE row[k]]
      /\ status' = [k \in Job |-> IF k = j THEN "canceled"
                                  ELSE IF k \in skipped THEN "skipped" ELSE status[k]]
      /\ saved' = saved \ gone
      /\ finished' = finished \ {j}
      /\ descendants' = [descendants EXCEPT ![j] = skipped]
      /\ active' = IF active = j THEN NoJob ELSE active
      /\ Replay("settle") /\ Idle
      /\ status[j] = "queued" \/ Preparing(j)
  BY DEF CancelBeforeSpawn
<1>2. Drained' /\ Restoring' /\ Rested'
  BY <1>1, ReplayWaits
<1>3. \A k \in Queued \ {j} : Dep[k] \in gone => k \in gone
  BY DescendantsClosed
<1>4. skipped \subseteq Queued \ {j}
  BY DescendantsType
<1> HIDE DEF skipped
<1>5. j \in saved /\ skipped \subseteq saved /\ saved \subseteq Job
  <2>1. mode = "up" /\ pc = "idle"
    BY <1>1 DEF Idle
  <2>2. Preparing(j) => j \in starting
    BY <2>1 DEF CancelBeforeSpawn, Preparing, WInv, OInv, Outcome, SlotUse
  <2>3. j \in saved
    BY <1>1, <2>1, <2>2 DEF Preparing, WInv, OInv, Outcome, SlotUse, MemoryInv
  <2>4. skipped \subseteq saved
    BY <1>4 DEF Queued, WInv, OInv, Outcome, MemoryInv
  <2>5. saved \subseteq Job
    BY DEF WInv, OInv, IInv, TypeOK, DiskTypes
  <2> QED
    BY <2>3, <2>4, <2>5
<1>6. \A k \in gone : row[k] = "none"
  BY <1>5, WaitingJob DEF WInv
<1>7. descendants[j] = {} /\ j \notin finished
  BY <1>5, WaitingJob DEF WInv
<1>8. \A k \in Job : Covered(k) => Covered(k)'
  <2>1. descendants \in [Job -> SUBSET Job]
    BY DEF WInv, OInv, IInv, TypeOK, OutboxTypes
  <2> QED
    BY <1>1, <1>7, <2>1 DEF Covered
<1>9. ASSUME NEW k \in saved', Dep[k] # NoJob
      PROVE  Dep[k] \in Job \ gone
  <2>1. k \in saved /\ k \notin gone /\ k \in Job /\ Dep[k] \in Job
    BY <1>1, <1>5, <1>9, ParentIsJob
  <2>2. CASE status[k] = "queued"
    BY <1>3, <2>1, <2>2 DEF Queued
  <2>3. CASE status[k] # "queued"
    <3>1. ~Unrestored
      BY <1>1 DEF Idle, Preparing, WInv, OInv, IInv, Safe, Blank
    <3>2. active = k
      BY <1>1, <2>1, <2>3, <3>1 DEF Serving, Idle, WInv, OInv, Outcome, MemoryInv
    <3>3. row[Dep[k]] \in Terminal
      BY <1>1, <1>9, <2>1, <3>2 DEF WInv, Waiting, Attended, Idle
    <3> QED
      BY <1>6, <2>1, <3>3 DEF Terminal
  <2> QED
    BY <2>2, <2>3
<1>10. Guarded'
  <2>1. \A p \in Job \ gone : Hopeless(p)' => Hopeless(p)
    BY <1>1 DEF Hopeless
  <2> QED
    BY <1>1, <1>5, <1>8, <1>9, <2>1, GuardKept
<1>11. Linked'
  <2>1. \A d \in Job \ finished' :
          \/ d \notin finished /\ descendants'[d] = descendants[d]
          \/ descendants'[d] \cap saved' = {}
    <3>1. descendants \in [Job -> SUBSET Job]
      BY DEF WInv, OInv, IInv, TypeOK, OutboxTypes
    <3> QED
      BY <1>1, <3>1
  <2> QED
    BY <1>1, <2>1, LinksKept
<1>12. Attended'
  <2>1. \A k \in Job : row[k] \in Terminal => row'[k] \in Terminal
    BY <1>1 DEF Terminal
  <2>2. active' \in saved' => active' = active /\ active \in saved
    BY <1>1, <1>5, JobNotNull
  <2> QED
    BY <1>1, <2>1, <2>2, StillAttended
<1> QED
  BY <1>2, <1>10, <1>11, <1>12 DEF Waiting

LEMMA DrainWaiting ==
  ASSUME WInv, TypeOK', faults' = 0 => faults = 0, Drain
  PROVE  Waiting'
<1>1. /\ UNCHANGED <<outboxVars, row, forgotten, saved, mode, pass, then, forgets>>
      /\ pc = "drain" /\ pc' = "idle"
  BY DEF Drain
<1>2. \/ UNCHANGED <<status, active>>
      \/ \E j \in Job : CanDrain /\ ~OverBudget /\ Reserve(j)
  BY DEF Drain
<1>3. \A j \in Job : status'[j] \in Bad => status'[j] = status[j]
  BY <1>2 DEF Reserve, Bad, Terminal, WInv, OInv, IInv, TypeOK, QueueTypes
<1>4. Guarded' /\ Linked'
  BY <1>1, <1>3, QuietGuard DEF WInv, OInv, IInv, Safe, Blank, Unrestored
<1>5. Drained' /\ Restoring'
  BY <1>1 DEF WInv, Waiting, Drained, Restoring
<1>6. Attended'
  <2>1. CASE UNCHANGED <<status, active>>
    BY <1>1, <2>1, StillAttended
  <2>2. ASSUME NEW j \in Job, CanDrain, ~OverBudget, Reserve(j)
        PROVE  Attended'
    <3>1. Serving
      BY <1>1, <2>2 DEF CanDrain, Serving, Unrestored, WInv, OInv, Outcome, PauseInv
    <3>2. Dep[j] # NoJob => row[Dep[j]] = "completed" \/ Dep[j] \in forgotten
      BY <1>1, <2>2, <3>1, ReservedJob DEF CanDrain, Reserve, WInv
    <3>3. Dep[j] # NoJob => row[Dep[j]] \in Terminal
      BY <3>2 DEF Terminal, WInv, OInv, Outcome, OutboxInv
    <3> QED
      BY <1>1, <2>2, <3>3 DEF Attended, Reserve
  <2> QED
    BY <1>2, <2>1, <2>2
<1>7. Rested'
  <2>1. SUFFICES ASSUME mode = "up", ~paused', active' = NoJob, NEW j \in Job, Ready(j)'
                 PROVE  FALSE
    BY <1>1 DEF Rested
  <2>2. UNCHANGED <<status, active>>
    BY <1>2, <2>1, JobNotNull DEF Reserve
  <2>3. Ready(j)
    BY <1>1, <2>1, <2>2, SameReady
  <2>4. ~\E k \in Job : Reserve(k)
    BY <2>1, JobNotNull DEF Reserve
  <2>5. ~paused /\ ~CanDrain
    BY <2>1, <2>3, <2>4 DEF Drain
  <2> QED
    BY <2>1, <2>2, <2>3, <2>5 DEF CanDrain, Ready, Queued
<1> QED
  BY <1>4, <1>5, <1>6, <1>7 DEF Waiting

LEMMA SpawnWaiting ==
  ASSUME WInv, TypeOK', NEW j \in Job, Spawn(j)
  PROVE  Waiting'
<1>1. /\ UNCHANGED <<outboxVars, forgotten, status, active, handlerVars, faults>>
      /\ row' = [row EXCEPT ![j] = "running"] /\ saved' = saved \ {j}
      /\ active = j /\ mode = "up"
  BY DEF Spawn, CanContinueStart
<1>2. \A k \in Job : row'[k] \in Bad => row'[k] = row[k]
  BY <1>1 DEF Bad, Terminal, WInv, OInv, IInv, TypeOK, DiskTypes
<1>3. Guarded' /\ Linked'
  BY <1>1, <1>2, QuietGuard
<1>4. Drained' /\ Restoring' /\ Attended' /\ Rested'
  BY <1>1, JobNotNull DEF WInv, Waiting, Drained, Restoring, Attended, Rested
<1> QED
  BY <1>3, <1>4 DEF Waiting

LEMMA EndedWaiting ==
  ASSUME WInv, TypeOK', faults' = 0 => faults = 0, NEW j \in Job,
         WedgeFailed(j) \/ ChildExit(j) \/ ForceFail(j)
  PROVE  Waiting'
<1>1. Guarded' /\ Linked'
  BY EndedGuard
<1>2. active = j /\ status[j] = "running"
  BY ChildInSlot
     DEF WedgeFailed, CanContinueStart, ChildExit, Idle, ForceFail, WInv, OInv, Outcome,
         SlotUse
<1>3. \/ /\ Replay("settle") \/ Replay("exit")
         /\ active' = NoJob
      \/ /\ Stay /\ Fault /\ FailStop /\ UNCHANGED <<outboxVars, row, saved, mode>>
         /\ active' = active
  BY <1>2 DEF WedgeFailed, ChildExit, ForceFail, Unstaged
<1>4. Attended'
  <2>1. NoJob \notin saved'
    BY JobNotNull DEF TypeOK, DiskTypes
  <2>2. CASE active' = NoJob
    BY <2>1, <2>2 DEF Attended
  <2>3. CASE active' = active /\ UNCHANGED <<row, saved, mode>>
    BY <2>3 DEF Attended, WInv, Waiting
  <2> QED
    BY <1>3, <2>2, <2>3
<1>5. CASE Replay("settle") \/ Replay("exit")
  BY <1>1, <1>4, <1>5, ReplayWaits DEF Waiting
<1>6. CASE Stay /\ Fault /\ FailStop /\ UNCHANGED <<outboxVars, mode>>
  <2>1. Drained' /\ Restoring' /\ Rested'
    BY <1>6 DEF Stay, FailStop, Fault, Drained, Restoring, Rested, WInv, Waiting, OInv,
                IInv, TypeOK, HistoryTypes
  <2> QED
    BY <1>1, <1>4, <2>1 DEF Waiting
<1> QED
  BY <1>3, <1>5, <1>6

LEMMA WedgeUnsettledWaiting ==
  ASSUME WInv, TypeOK', faults' = 0 => faults = 0, NEW j \in Job, WedgeUnsettled(j)
  PROVE  Waiting'
<1>1. /\ UNCHANGED <<outboxVars, forgotten, handlerVars>>
      /\ saved' \subseteq saved /\ active' \in {active, NoJob}
      /\ row' = row \/ (row' = [row EXCEPT ![j] = "running"] /\ saved' = saved \ {j})
      /\ status' = status \/ status' = [status EXCEPT ![j] = "queued"]
      /\ active = j /\ mode = "up" /\ paused'
  <2>1. /\ UNCHANGED <<outboxVars, forgotten, handlerVars>>
        /\ active = j /\ mode = "up" /\ paused'
    BY DEF WedgeUnsettled, CanContinueStart, FailStop
  <2>2. CASE /\ status' = [status EXCEPT ![j] = "queued"] /\ active' = NoJob
             /\ UNCHANGED <<row, saved>>
    BY <2>1, <2>2
  <2>3. CASE /\ UNCHANGED queueVars
             /\ \/ UNCHANGED <<row, saved>>
                \/ row' = [row EXCEPT ![j] = "running"] /\ saved' = saved \ {j}
    BY <2>1, <2>3
  <2> QED
    BY <2>2, <2>3 DEF WedgeUnsettled
<1>2. \A k \in Job : /\ row'[k] \in Bad => row'[k] = row[k]
                     /\ status'[k] \in Bad => status'[k] = status[k]
  BY <1>1 DEF Bad, Terminal, WInv, OInv, IInv, TypeOK, DiskTypes, QueueTypes
<1>3. Guarded' /\ Linked'
  BY <1>1, <1>2, QuietGuard
<1>4. Drained' /\ Restoring' /\ Rested'
  BY <1>1 DEF WInv, Waiting, Drained, Restoring, Rested
<1>5. Attended'
  <2>1. NoJob \notin saved'
    BY JobNotNull DEF TypeOK, DiskTypes
  <2>2. j \notin saved' \/ row' = row
    BY <1>1
  <2> QED
    BY <1>1, <2>1, <2>2 DEF WInv, Waiting, Attended
<1> QED
  BY <1>3, <1>4, <1>5 DEF Waiting

LEMMA LateExitWaiting ==
  ASSUME WInv, TypeOK', faults' = 0 => faults = 0, NEW j \in Job, LateExit(j)
  PROVE  Waiting'
<1>1. /\ UNCHANGED <<row, forgotten, saved, status, active, mode, finished, descendants>>
      /\ UNCHANGED <<outbox, forgets>> /\ Idle
      /\ \/ Replay("late") /\ UNCHANGED paused
         \/ Stay /\ paused'
  BY DEF LateExit, Reconcile, FailStop
<1>2. Guarded' /\ Linked'
  BY <1>1, QuietGuard
<1>3. Attended'
  BY <1>1, StillAttended
<1>4. Drained' /\ Restoring'
  <2>1. CASE Stay
    BY <1>1, <2>1 DEF Stay, Drained, Restoring, WInv, Waiting
  <2> QED
    BY <1>1, <2>1, ReplayWaits
<1>5. Rested'
  BY <1>1, SameReady DEF Idle, Rested, WInv, Waiting
<1> QED
  BY <1>2, <1>3, <1>4, <1>5 DEF Waiting

LEMMA ResumeWaiting ==
  ASSUME WInv, TypeOK', faults' = 0 => faults = 0, Resume
  PROVE  Waiting'
<1>1. /\ UNCHANGED <<row, forgotten, saved, status, active, mode, finished, descendants>>
      /\ UNCHANGED <<outbox, forgets>> /\ Idle
  BY DEF Resume, Reconcile
<1>2. \/ pc' = "capture" /\ then' = "resume"
      \/ Replay("resume")
      \/ Replay("late") /\ paused'
      \/ Stay /\ paused'
  BY DEF Resume, FailStop
<1>3. Guarded' /\ Linked'
  BY <1>1, QuietGuard
<1>4. Attended'
  BY <1>1, StillAttended
<1>5. Drained' /\ Restoring'
  <2>1. CASE Stay
    BY <1>1, <2>1 DEF Stay, Drained, Restoring, WInv, Waiting
  <2>2. CASE pc' = "capture" /\ then' = "resume"
    BY <2>2 DEF Drained, Restoring
  <2> QED
    BY <1>2, <2>1, <2>2, ReplayWaits
<1>6. Rested'
  <2>1. CASE paused'
    BY <2>1 DEF Rested
  <2>2. CASE pc' = "capture"
    BY <2>2 DEF Rested
  <2> QED
    BY <1>2, <2>1, <2>2, ReplayWaits
<1> QED
  BY <1>3, <1>4, <1>5, <1>6 DEF Waiting

LEMMA ShutdownWaiting ==
  ASSUME WInv, TypeOK', faults' = 0 => faults = 0, Shutdown
  PROVE  Waiting'
<1>1. mode' = "closing" /\ UNCHANGED forgotten
  BY DEF Shutdown
<1>2. PICK aborted \in {Running, {}}, late \in SUBSET Reconcilable(forceFailed) :
        \E spend \in SUBSET late : Flushed(aborted, late, spend)
  BY DEF Shutdown
<1>3. /\ row' = [j \in Job |-> IF j \in aborted THEN "failed" ELSE row[j]]
      /\ saved' = saved \ aborted /\ finished' = finished \ aborted
      /\ descendants' = [j \in Job |-> IF j \in aborted THEN Descendants(j, saved)
                                       ELSE descendants[j]]
  BY <1>2 DEF Flushed
<1>4. aborted \in SUBSET Job /\ aborted \cap outbox = {}
  BY SlotJob DEF Running, WInv, OInv, Outcome, OutboxInv, Terminal
<1>5. Guarded' /\ Linked'
  BY <1>1, <1>3, <1>4, SettledGuard DEF Terminal
<1>6. Drained' /\ Attended' /\ Restoring' /\ Rested'
  BY <1>1 DEF Drained, Attended, Restoring, Rested
<1> QED
  BY <1>5, <1>6 DEF Waiting

LEMMA CaptureWaiting ==
  ASSUME WInv, TypeOK', faults' = 0 => faults = 0, Capture
  PROVE  Waiting'
<1>1. UNCHANGED <<forgotten, saved, active, mode>> /\ pc = "capture"
  BY DEF Capture
<1>2. \/ UNCHANGED <<outboxVars, row>>
      \/ \E reaccount \in SUBSET held : Captured(reaccount)
  BY DEF Capture
<1>3. mode = "up" => \A j \in Job : status[j] = "none"
  BY <1>1 DEF WInv, OInv, IInv, Safe, Blank, Unrestored
<1>4. mode = "up" => \A j \in Job : status'[j] \in {"none", "queued"}
  BY <1>3 DEF Capture
<1>5. Guarded' /\ Linked'
  <2>1. CASE UNCHANGED <<outboxVars, row>>
    BY <1>1, <1>4, <2>1, QuietGuard DEF Bad, Terminal
  <2>2. CASE \E reaccount \in SUBSET held : Captured(reaccount)
    <3>1. Orphan \in SUBSET Job /\ Orphan \cap outbox = {}
      BY DEF Orphan, WInv, OInv, Outcome, OutboxInv, Terminal
    <3>2. /\ row' = [j \in Job |-> IF j \in Orphan THEN "failed" ELSE row[j]]
          /\ finished' = finished \ Orphan
          /\ descendants' = [j \in Job |-> IF j \in Orphan THEN Descendants(j, saved)
                                           ELSE descendants[j]]
      BY <2>2, <3>1 DEF Captured, WInv, OInv, Outcome, OutboxInv
    <3> QED
      BY <1>1, <1>4, <3>1, <3>2, SettledGuard DEF Bad, Terminal
  <2> QED
    BY <1>2, <2>1, <2>2
<1>6. Attended'
  <2>1. \A j \in Job : row[j] \in Terminal => row'[j] \in Terminal
    BY <1>2 DEF Captured, Terminal
  <2> QED
    BY <1>1, <2>1, StillAttended
<1>7. \/ Replay(then)
      \/ Fault /\ pc' = "idle" /\ (mode = "up" => paused')
  BY DEF Capture, FailStop
<1>8. Drained' /\ Restoring' /\ Rested'
  <2>1. CASE Replay(then)
    <3>1. Drained' /\ Restoring'
      BY <2>1, ReplayWaits
    <3>2. mode = "up" => then # "late"
      BY <1>1 DEF WInv, Waiting, Restoring
    <3>3. Rested'
      BY <1>1, <2>1, <3>2, ReplayWaits DEF Rested
    <3> QED
      BY <3>1, <3>3
  <2>2. CASE Fault /\ pc' = "idle" /\ (mode = "up" => paused')
    BY <1>1, <2>2 DEF Fault, Drained, Restoring, Rested, WInv, OInv, IInv, TypeOK,
                      HistoryTypes
  <2> QED
    BY <1>7, <2>1, <2>2
<1> QED
  BY <1>5, <1>6, <1>8 DEF Waiting

LEMMA AfterReplayWaiting ==
  ASSUME WInv, TypeOK', faults' = 0 => faults = 0, AfterReplay
  PROVE  Waiting'
<1>1. /\ UNCHANGED <<row, forgotten, saved, status, pass, forgets>>
      /\ pc = "replay" /\ pass = {}
      /\ then' = IF then = "flush" THEN "close" ELSE "settle"
  BY DEF AfterReplay
<1>2. PICK gone \in SUBSET Complete :
        /\ outbox' = outbox \ gone /\ finished' = finished \ gone
        /\ descendants' = [j \in Job |-> IF j \in gone THEN {} ELSE descendants[j]]
  BY DEF AfterReplay
<1>3. \/ active' = active /\ mode' = mode
      \/ active' = NoJob /\ mode' \in {"closed", "closing"}
  BY DEF AfterReplay, Closed
<1>4. mode' = "up" /\ ~paused' =>
        \/ pc' = "drain"
        \/ pc' = "idle" /\ then = "late" /\ UNCHANGED paused
  BY DEF AfterReplay, Closed, Resumed, FailedStop, FailStop, Exited, StartedUp, Keep,
         WInv, OInv, Outcome, PauseInv, IInv, Safe, Blank, TypeOK, QueueTypes
<1>5. gone \subseteq finished
  BY DEF Complete
<1>6. \A k \in Job : Covered(k) => Covered(k)'
  BY <1>2, <1>5 DEF Covered
<1>7. Guarded'
  <2>1. \A p \in Job : Hopeless(p)' => Hopeless(p)
    BY <1>1, <1>3 DEF Hopeless
  <2>2. saved \subseteq Job
    BY DEF WInv, OInv, IInv, TypeOK, DiskTypes
  <2> QED
    BY <1>1, <1>6, <2>1, <2>2, GuardKept, ParentIsJob
<1>8. Linked'
  <2>1. \A d \in Job \ finished' :
          \/ d \notin finished /\ descendants'[d] = descendants[d]
          \/ descendants'[d] \cap saved' = {}
    BY <1>2, <1>5
  <2> QED
    BY <1>1, <2>1, LinksKept
<1>9. Attended'
  <2>1. NoJob \notin saved
    BY JobNotNull DEF WInv, OInv, IInv, TypeOK, DiskTypes
  <2> QED
    BY <1>1, <1>3, <2>1, StillAttended
<1>10. Drained' /\ Restoring'
  <2>1. mode' = "up" => mode = "up" /\ then # "flush"
    BY <1>3 DEF WInv, OInv, IInv, Safe, Blank
  <2>2. then' # "late"
    BY <1>1
  <2> QED
    BY <1>1, <1>2, <1>5, <2>1, <2>2 DEF Drained, Restoring, WInv, Waiting
<1>11. Rested'
  <2>1. \A j \in Job : Ready(j)' <=> Ready(j)
    BY <1>1, SameReady
  <2>2. then' # "late"
    BY <1>1
  <2> QED
    BY <1>1, <1>3, <1>4, <2>1, <2>2 DEF Rested, WInv, Waiting
<1> QED
  BY <1>7, <1>8, <1>9, <1>10, <1>11 DEF Waiting

LEMMA ReplayRowWaiting ==
  ASSUME WInv, TypeOK', faults' = 0 => faults = 0, NEW j \in Job, ReplayRow(j)
  PROVE  Waiting'
<1>1. /\ UNCHANGED <<outbox, descendants, forgotten, active, paused, mode, pc, then>>
      /\ UNCHANGED forgets
      /\ pc = "replay" /\ j \in pass /\ pass' = pass \ {j}
  BY DEF ReplayRow
<1>2. PICK ok \in SUBSET Pending(j) :
        /\ ok = Pending(j) \/ Fault
        /\ finished' = IF "terminal" \in ok THEN finished \cup {j} ELSE finished
        /\ \/ "terminal" \in ok /\ row[j] # "completed" /\ SkipDescendants(j)
           \/ /\ "terminal" \notin ok \/ row[j] = "completed"
              /\ UNCHANGED <<row, status, saved>>
  BY DEF ReplayRow
<1> DEFINE skipped == IF "terminal" \in ok /\ row[j] # "completed" THEN Doomed(j) ELSE {}
<1>3. /\ row' = [k \in Job |-> IF k \in skipped THEN "skipped" ELSE row[k]]
      /\ status' = [k \in Job |-> IF k \in skipped /\ status[k] # "none"
                                  THEN "skipped" ELSE status[k]]
      /\ saved' = saved \ skipped
  BY <1>2, SkippedDoomed
     DEF SkipDescendants, WInv, OInv, IInv, TypeOK, DiskTypes, QueueTypes
<1>4. saved \subseteq Job /\ saved' \subseteq saved /\ skipped \subseteq saved
  BY <1>3 DEF WInv, OInv, IInv, TypeOK, DiskTypes, Doomed
<1>5. /\ \A k \in Job : k \in finished => k \in finished'
      /\ "terminal" \in ok => j \notin finished
      /\ \A k \in Job \ {j} : k \in finished' => k \in finished
      /\ j \in finished' => j \in finished \/ "terminal" \in ok
  BY <1>2 DEF Pending
<1>6. descendants[j] # {} => row[j] # "completed"
  BY DEF WInv, OInv, Outcome, OutboxInv
<1>7. ASSUME NEW k \in saved', Covered(k)
      PROVE  Covered(k)'
  <2>1. PICK d \in Job \ finished : k \in descendants[d]
    BY <1>7 DEF Covered
  <2>2. d \notin finished'
    <3>1. SUFFICES ASSUME d = j, "terminal" \in ok PROVE FALSE
      BY <1>5, <2>1
    <3>2. k \in skipped
      BY <1>4, <1>6, <2>1, <3>1 DEF Doomed
    <3> QED
      BY <1>3, <3>2
  <2> QED
    BY <1>1, <2>1, <2>2 DEF Covered
<1>8. ASSUME NEW k \in saved', faults = 0 \/ Shallow, Dep[k] # NoJob
      PROVE  Dep[k] \in Job \ skipped
  <2>1. k \in saved /\ k \notin skipped /\ k \in Job
    BY <1>3, <1>4
  <2>2. ASSUME Dep[k] \in skipped PROVE FALSE
    <3>1. "terminal" \in ok /\ row[j] # "completed" /\ Dep[k] \in Doomed(j)
      BY <2>2
    <3>2. k \in descendants[j]
      BY <1>5, <1>8, <2>1, <3>1, SnapshotsLinked
    <3> QED
      BY <2>1, <3>1, <3>2 DEF Doomed
  <2> QED
    BY <1>8, <2>1, <2>2, ParentIsJob
<1>9. Guarded'
  <2>1. \A p \in Job \ skipped : Hopeless(p)' => Hopeless(p)
    BY <1>1, <1>3 DEF Hopeless
  <2> QED
    BY <1>4, <1>7, <1>8, <2>1, GuardKept
<1>10. Linked'
  <2>1. \A d \in Job \ finished' : d \notin finished /\ descendants'[d] = descendants[d]
    BY <1>1, <1>5
  <2> QED
    BY <1>4, <2>1, LinksKept
<1>11. Attended'
  <2>1. \A k \in Job : row[k] \in Terminal => row'[k] \in Terminal
    BY <1>3 DEF Terminal
  <2>2. active' \in saved' => active' = active /\ active \in saved
    BY <1>1, <1>4
  <2> QED
    BY <1>1, <2>1, <2>2, StillAttended
<1>12. Drained' /\ Restoring'
  <2>1. ASSUME faults' = 0 PROVE j \in finished'
    <3>1. ok = Pending(j)
      BY <1>2, <2>1 DEF Fault, WInv, OInv, IInv, TypeOK, HistoryTypes
    <3> QED
      BY <1>2, <3>1 DEF Pending
  <2> QED
    BY <1>1, <1>5, <2>1 DEF Drained, Restoring, WInv, Waiting, OInv, IInv, TypeOK,
                            OutboxTypes
<1>13. Rested'
  <2>1. SUFFICES ASSUME NEW k \in Job, ~Ready(k) PROVE ~Ready(k)'
    BY <1>1 DEF Rested, WInv, Waiting
  <2>2. SUFFICES ASSUME status[k] = "queued", status'[k] = "queued"
                 PROVE  ~DependencyMet(k)'
    BY <1>3 DEF Ready
  <2>3. Dep[k] \in Job
    BY <2>1, <2>2, ParentIsJob DEF Ready, DependencyMet
  <2>4. CASE Dep[k] \in skipped
    <3>1. Dep[k] \notin forgotten
      BY <1>4, <2>4, WaitingJob DEF WInv
    <3>2. row'[Dep[k]] = "skipped" /\ status'[Dep[k]] \in {"none", "skipped"}
      BY <1>3, <2>3, <2>4
    <3> QED
      BY <1>1, <2>3, <3>1, <3>2, JobNotNull DEF DependencyMet, DependencyStatus
  <2>5. CASE Dep[k] \notin skipped
    <3>1. /\ row'[Dep[k]] = row[Dep[k]] /\ status'[Dep[k]] = status[Dep[k]]
          /\ Dep[k] \in saved' <=> Dep[k] \in saved
      BY <1>3, <2>3, <2>5
    <3> QED
      BY <1>1, <2>1, <2>2, <3>1 DEF Ready, DependencyMet, DependencyStatus
  <2> QED
    BY <2>4, <2>5
<1> QED
  BY <1>9, <1>10, <1>11, <1>12, <1>13 DEF Waiting

LEMMA RestartedWaiting ==
  ASSUME WInv, TypeOK', Crash \/ Restart
  PROVE  Waiting'
<1>1. /\ UNCHANGED <<outboxVars, row, forgotten, saved, faults>>
      /\ \/ mode' = "down" /\ status' = [j \in Job |-> "none"]
         \/ /\ mode = "down" /\ UNCHANGED status
            /\ pc' = "capture" /\ then' = "restore" /\ active' = active
  BY DEF Crash, Restart
<1>2. mode = "down" => active = NoJob /\ \A j \in Job : status[j] = "none"
  BY DEF WInv, OInv, IInv, Safe, Blank, Unrestored
<1>3. \A j \in Job : status'[j] = "none" \/ mode' # "up"
  BY <1>1, <1>2
<1>4. Guarded' /\ Linked'
  BY <1>1, <1>3, QuietGuard DEF Bad, Terminal
<1>5. Drained' /\ Restoring' /\ Rested'
  BY <1>1 DEF Drained, Restoring, Rested
<1>6. NoJob \notin saved'
  BY JobNotNull DEF TypeOK, DiskTypes
<1>7. Attended'
  BY <1>1, <1>2, <1>6 DEF Attended
<1> QED
  BY <1>4, <1>5, <1>7 DEF Waiting
-----------------------------------------------------------------------------
(* The order of the queue, and the order a restart would bring back.       *)
DurableQueue ==
  \A j, k \in Queued : position[j] < position[k] => RestoredBefore(j, k)

(* While nothing has failed, memory and disk agree on the order.           *)
InOrder ==
  faults = 0 =>
    /\ PriorityOrder
    /\ mode = "up" /\ pc # "capture" => DurableQueue

LEMMA WithoutOrder ==
  ASSUME TypeOK, Numbered, NEW S, Queued' = Queued \ S, position' = Without(S),
         NEW j \in Queued', NEW k \in Queued', position'[j] < position'[k]
  PROVE  position[j] < position[k]
<1>1. Queued \ S \in SUBSET Queued /\ Queued \ S \in SUBSET Job
  BY DEF Queued
<1>2. <<j, k>> \in InFront
  BY <1>1, InFrontOrders, PositionsOrder DEF Without
<1> QED
  BY <1>2 DEF InFront

(* What is spliced in before the first lower priority is in its place.     *)
LEMMA InsertedOrder ==
  ASSUME TypeOK, Numbered, PriorityOrder, NEW j \in Job, NEW w \in Priorities,
         Queued' = (Queued \ {j}) \cup {j}, position' = Inserted(j, w),
         priority' = [priority EXCEPT ![j] = w]
  PROVE  PriorityOrder'
<1> DEFINE Q == Queued \ {j}
           Front == {k \in Q : \A m \in Q : position[m] <= position[k] => priority[m] >= w}
           before == {e \in InFront : j \notin {e[1], e[2]}}
                       \cup (Front \X {j}) \cup ({j} \X (Q \ Front))
<1>1. position' = Positions(Q \cup {j}, before)
  BY DEF Inserted
<1>2. \A k, m \in Q : <<m, k>> \in before <=> <<m, k>> \in InFront
  BY DEF InFront
<1>3. /\ \A k \in Q : <<k, j>> \in before <=> k \in Front
      /\ \A k \in Q : <<j, k>> \in before <=> k \notin Front
      /\ <<j, j>> \notin before
  OBVIOUS
<1>4. Orders(before, Q \cup {j})
  BY InsertedOrders
<1>5. /\ \A k \in Job : position[k] \in Nat /\ priority[k] \in Nat
      /\ w \in Nat /\ Q \subseteq Job
  BY PriorityAssumption DEF TypeOK, DiskTypes, QueueTypes, Queued
<1>6. \A k \in Front : priority[k] >= w
  BY <1>5
<1>7. \A k \in Q \ Front : w >= priority[k]
  <2>1. SUFFICES ASSUME NEW k \in Q, NEW m \in Q, position[m] <= position[k],
                        ~(priority[m] >= w)
                 PROVE  w >= priority[k]
    OBVIOUS
  <2>2. m = k \/ position[m] < position[k]
    BY <1>5, <2>1 DEF Numbered
  <2>3. m = k \/ priority[m] >= priority[k]
    BY <2>2 DEF PriorityOrder
  <2> QED
    BY <1>5, <2>1, <2>3
<1>8. \A k, m \in Q : <<m, k>> \in InFront => priority[m] >= priority[k]
  BY DEF InFront, PriorityOrder
<1>9. priority'[j] = w /\ \A k \in Q : priority'[k] = priority[k]
  BY <1>5 DEF TypeOK, DiskTypes
<1>10. Queued' = Q \cup {j} /\ Q \cup {j} \in SUBSET Job
  BY <1>5
<1> HIDE DEF before, Front, Q
<1>11. \A m, k \in Queued' : position'[m] < position'[k] => <<m, k>> \in before
  BY <1>1, <1>4, <1>10, PositionsOrder
<1>12. \A m, k \in Q \cup {j} : <<m, k>> \in before => priority'[m] >= priority'[k]
  BY <1>2, <1>3, <1>6, <1>7, <1>8, <1>9, <1>10
<1> QED
  BY <1>10, <1>11, <1>12 DEF PriorityOrder

LEMMA RestoredOrder ==
  ASSUME TypeOK, Queued' = saved, position' = Restored, UNCHANGED <<priority, savedPos>>
  PROVE  PriorityOrder' /\ DurableQueue'
<1> DEFINE before == {e \in Job \X Job : RestoredBefore(e[1], e[2])}
<1>1. position' = Positions(saved, before)
  BY DEF Restored
<1>2. \A m, k \in Job : <<m, k>> \in before <=> RestoredBefore(m, k)
  OBVIOUS
<1>3. \A j \in Job : j \in Nat /\ savedPos[j] \in Nat /\ priority[j] \in Nat
  BY JobAssumption, PriorityAssumption DEF TypeOK, DiskTypes
<1>4. saved \subseteq Job
  BY DEF TypeOK, DiskTypes
<1>5. Orders(before, saved)
  BY RestoredOrders
<1> HIDE DEF before
<1>6. \A j, k \in Queued' : position'[j] < position'[k] => RestoredBefore(j, k)
  BY <1>1, <1>2, <1>4, <1>5, PositionsOrder
<1>7. \A j, k \in Job : RestoredBefore(j, k) =>
                          RestoredBefore(j, k)' /\ priority[j] >= priority[k]
  BY <1>3 DEF RestoredBefore
<1> QED
  BY <1>4, <1>6, <1>7 DEF PriorityOrder, DurableQueue

(* Once the positions of memory are written, a restart brings them back.   *)
LEMMA PersistedOrder ==
  ASSUME TypeOK', PriorityOrder', \A k \in Queued' : savedPos'[k] = position'[k]
  PROVE  DurableQueue'
<1>1. \A k \in Job : position'[k] \in Nat /\ priority'[k] \in Nat
  BY PriorityAssumption DEF TypeOK, DiskTypes, QueueTypes
<1>2. \A k \in Queued' : k \in Job
  BY DEF Queued
<1> QED
  BY <1>1, <1>2 DEF PriorityOrder, DurableQueue, RestoredBefore

LEMMA SameOrder ==
  ASSUME OInv, InOrder, faults' = 0 => faults = 0,
         UNCHANGED <<position, priority, savedPos>>,
         \A j \in Job : status'[j] = "queued" => status[j] = "queued",
         mode' = "up" /\ pc' # "capture" => mode = "up" /\ pc # "capture"
  PROVE  InOrder'
<1>1. \A j \in Queued' : j \in Queued
  BY DEF Queued
<1>2. \A j, k : RestoredBefore(j, k) => RestoredBefore(j, k)'
  BY DEF RestoredBefore
<1> QED
  BY <1>1, <1>2 DEF InOrder, PriorityOrder, DurableQueue

(* The steps that leave the queue as it is, but for jobs that leave it.    *)
LEMMA QuietOrder ==
  ASSUME OInv, InOrder, faults' = 0 => faults = 0,
         \/ \E j \in Job : \/ Forget(j) \/ CancelRunning(j) \/ Spawn(j)
                           \/ AbandonStart(j) \/ ExitDisposed(j) \/ LateExit(j)
                           \/ PersistEventFails(j) \/ ZombieTimeout(j)
                           \/ SigkillAnswered(j) \/ WedgeFailed(j) \/ ChildExit(j)
                           \/ ForceFail(j)
         \/ Pause \/ Resume \/ KillTimerFires \/ AfterReplay \/ Restart \/ Shutdown
         \/ UNCHANGED vars
  PROVE  InOrder'
<1>1. ASSUME NEW j \in Job,
             \/ Forget(j) \/ CancelRunning(j) \/ Spawn(j) \/ AbandonStart(j)
             \/ PersistEventFails(j) \/ ZombieTimeout(j) \/ SigkillAnswered(j)
      PROVE  InOrder'
  <2>1. UNCHANGED <<queueVars, savedPos, priority, handlerVars>>
    BY <1>1 DEF Forget, CancelRunning, Spawn, AbandonStart, PersistEventFails,
                ZombieTimeout, SigkillAnswered
  <2> QED
    BY <2>1, SameOrder
<1>2. ASSUME NEW j \in Job, ExitDisposed(j) \/ LateExit(j)
      PROVE  InOrder'
  <2>1. UNCHANGED <<status, position, savedPos, priority, mode>>
        /\ (pc = "idle" \/ UNCHANGED pc)
    BY <1>2 DEF ExitDisposed, LateExit, Idle
  <2> QED
    BY <2>1, SameOrder
<1>3. ASSUME NEW j \in Job, WedgeFailed(j) \/ ChildExit(j) \/ ForceFail(j)
      PROVE  InOrder'
  <2>1. UNCHANGED <<position, savedPos, priority, mode>> /\ pc = "idle"
    BY <1>3 DEF WedgeFailed, ChildExit, ForceFail, Idle, Stage, Unstaged
  <2>2. \A st : status' = [status EXCEPT ![j] = st] => st = "queued" \/
          \A k \in Job : status'[k] = "queued" => status[k] = "queued"
    BY DEF OInv, IInv, TypeOK, QueueTypes
  <2>3. \/ UNCHANGED status
        \/ \E st \in Terminal : status' = [status EXCEPT ![j] = st]
    BY <1>3 DEF WedgeFailed, ChildExit, Outcomes, ForceFail, Terminal
  <2>4. \A k \in Job : status'[k] = "queued" => status[k] = "queued"
    BY <2>2, <2>3 DEF Terminal
  <2> QED
    BY <2>1, <2>4, SameOrder
<1>4. CASE Pause \/ KillTimerFires \/ UNCHANGED vars
  <2>1. UNCHANGED <<queueVars, savedPos, priority, handlerVars>>
    BY <1>4 DEF Pause, KillTimerFires
  <2> QED
    BY <2>1, SameOrder
<1>5. CASE Resume \/ AfterReplay \/ Restart
  <2>1. UNCHANGED <<status, position, savedPos, priority>>
    BY <1>5 DEF Resume, AfterReplay, Restart
  <2>2. mode' = "up" /\ pc' # "capture" => mode = "up" /\ pc # "capture"
    BY <1>5 DEF Resume, Idle, AfterReplay, Closed, Restart
  <2> QED
    BY <2>1, <2>2, SameOrder
<1>6. CASE Shutdown
  <2>1. UNCHANGED <<position, savedPos, priority>> /\ mode' = "closing"
    BY <1>6 DEF Shutdown
  <2>2. \A k \in Job : status'[k] = "queued" => status[k] = "queued"
    BY <1>6 DEF Shutdown, Flushed
  <2> QED
    BY <2>1, <2>2, SameOrder
<1> QED
  BY <1>1, <1>2, <1>3, <1>4, <1>5, <1>6

LEMMA EnqueueOrder ==
  ASSUME OInv, InOrder, TypeOK', NEW j \in Job, Enqueue(j)
  PROVE  InOrder'
<1>1. SUFFICES ASSUME faults = 0 PROVE InOrder'
  BY DEF Enqueue, InOrder
<1>2. j \notin Queued /\ Queued' = (Queued \ {j}) \cup {j}
  BY NewJob DEF Enqueue, Queued, OInv, IInv, TypeOK, QueueTypes
<1>3. /\ position' = Inserted(j, priority[j])
      /\ priority' = [priority EXCEPT ![j] = priority[j]]
      /\ priority[j] \in Priorities
  BY DEF Enqueue, OInv, IInv, TypeOK, DiskTypes
<1>4. PriorityOrder'
  BY <1>1, <1>2, <1>3, InsertedOrder DEF OInv, IInv, InOrder
<1>5. \A k \in Queued' : savedPos'[k] = position'[k]
  BY <1>2 DEF Enqueue, Persisted, Queued
<1> QED
  BY <1>4, <1>5, PersistedOrder DEF InOrder

LEMMA UpdatePriorityOrder ==
  ASSUME OInv, InOrder, TypeOK', NEW j \in Job, NEW w \in Priorities,
         UpdatePriority(j, w)
  PROVE  InOrder'
<1>1. SUFFICES ASSUME faults = 0 PROVE InOrder'
  BY DEF UpdatePriority, InOrder
<1>2. j \in Queued /\ Queued' = (Queued \ {j}) \cup {j} /\ Queued' = Queued
  BY DEF UpdatePriority, Queued
<1>3. PriorityOrder'
  BY <1>1, <1>2, InsertedOrder DEF UpdatePriority, OInv, IInv, InOrder
<1>4. \A k \in Queued' : savedPos'[k] = position'[k]
  BY <1>2 DEF UpdatePriority, Persisted, Queued
<1> QED
  BY <1>3, <1>4, PersistedOrder DEF InOrder

LEMMA ReorderOrder ==
  ASSUME OInv, InOrder, TypeOK', NEW p \in [Job -> 0 .. Cardinality(Job)], Reorder(p)
  PROVE  InOrder'
<1>1. Queued' = Queued /\ position' = p /\ priority' = priority
  BY DEF Reorder, Queued
<1>2. PriorityOrder'
  BY <1>1 DEF Reorder, PriorityOrder
<1>3. \A k \in Queued' : savedPos'[k] = position'[k]
  BY <1>1 DEF Reorder, Persisted, Queued
<1> QED
  BY <1>2, <1>3, PersistedOrder DEF InOrder

(* Jobs leave the queue, and the positions of the rest are written.        *)
LEMMA LeftOrder ==
  ASSUME OInv, InOrder, TypeOK', faults' = 0 => faults = 0, NEW S,
         Queued' = Queued \ S, position' = Without(S), UNCHANGED priority,
         \A k \in Queued' : savedPos'[k] = position'[k]
  PROVE  InOrder'
<1>1. SUFFICES ASSUME faults = 0 PROVE InOrder'
  BY DEF InOrder
<1>2. \A j, k \in Queued' : position'[j] < position'[k] => position[j] < position[k]
  BY WithoutOrder DEF OInv, IInv
<1>3. PriorityOrder'
  BY <1>1, <1>2 DEF InOrder, PriorityOrder
<1> QED
  BY <1>3, PersistedOrder DEF InOrder

LEMMA CancelBeforeSpawnOrder ==
  ASSUME OInv, InOrder, TypeOK', NEW j \in Job, CancelBeforeSpawn(j)
  PROVE  InOrder'
<1> DEFINE gone == Descendants(j, Queued \ {j}) \cup {j}
<1>1. Queued' = Queued \ gone
  BY DEF CancelBeforeSpawn, Queued
<1>2. /\ position' = Without(gone) /\ UNCHANGED <<priority, faults>>
      /\ savedPos' = Persisted(Queued \ gone, position')
  BY DEF CancelBeforeSpawn
<1>3. \A k \in Queued' : savedPos'[k] = position'[k]
  BY <1>1, <1>2 DEF Persisted, Queued
<1> HIDE DEF gone
<1> QED
  BY <1>1, <1>2, <1>3, LeftOrder

LEMMA DrainOrder ==
  ASSUME OInv, InOrder, TypeOK', Drain
  PROVE  InOrder'
<1>1. CASE UNCHANGED <<queueVars, savedPos, faults>>
  BY <1>1, SameOrder DEF Drain
<1>2. ASSUME NEW j \in Job, Reserve(j)
      PROVE  InOrder'
  <2>1. Queued' = Queued \ {j}
    BY <1>2 DEF Reserve, Queued, OInv, IInv, TypeOK, QueueTypes
  <2>2. CASE Fault
    BY <2>2 DEF Fault, InOrder, OInv, IInv, TypeOK, HistoryTypes
  <2>3. CASE /\ Healthy
             /\ savedPos' = [Persisted(Queued \ {j}, position') EXCEPT ![j] = 0]
    <3>1. \A k \in Queued' : savedPos'[k] = position'[k]
      BY <2>1, <2>3 DEF Persisted, Queued
    <3> QED
      BY <1>2, <2>1, <2>3, <3>1, LeftOrder DEF Reserve, Healthy, Drain
  <2> QED
    BY <1>2, <2>2, <2>3 DEF Reserve
<1> QED
  BY <1>1, <1>2 DEF Drain

LEMMA ReplayRowOrder ==
  ASSUME OInv, InOrder, TypeOK', faults' = 0 => faults = 0, NEW j \in Job, ReplayRow(j)
  PROVE  InOrder'
<1>1. pc = "replay" /\ UNCHANGED <<mode, pc, priority>>
  BY DEF ReplayRow
<1>2. SkipDescendants(j) \/ UNCHANGED <<status, position, savedPos>>
  BY DEF ReplayRow
<1>3. CASE UNCHANGED <<status, position, savedPos>>
  BY <1>1, <1>3, SameOrder
<1>4. CASE SkipDescendants(j)
  <2> DEFINE S == {k \in descendants[j] : StillQueued(k)}
  <2>1. /\ status' = [k \in Job |-> IF k \in S /\ status[k] # "none"
                                    THEN "skipped" ELSE status[k]]
        /\ position' = Without(S) /\ savedPos' = Persisted(Queued \ S, position')
    BY <1>4 DEF SkipDescendants
  <2> HIDE DEF S
  <2>2. Queued' = Queued \ S
    BY <2>1 DEF Queued
  <2>3. \A k \in Queued' : savedPos'[k] = position'[k]
    BY <2>1, <2>2 DEF Persisted, Queued
  <2> QED
    BY <1>1, <2>1, <2>2, <2>3, LeftOrder
<1> QED
  BY <1>2, <1>3, <1>4

LEMMA CaptureOrder ==
  ASSUME OInv, InOrder, TypeOK', Capture
  PROVE  InOrder'
<1>1. UNCHANGED <<priority, savedPos, mode>> /\ pc = "capture"
  BY DEF Capture
<1>2. CASE Fault
  BY <1>2 DEF Fault, InOrder, OInv, IInv, TypeOK, HistoryTypes
<1>3. CASE mode = "closing" /\ UNCHANGED <<status, position, faults>>
  BY <1>1, <1>3, SameOrder
<1>4. CASE /\ mode = "up" /\ position' = Restored
           /\ status' = [j \in Job |-> IF j \in saved THEN "queued" ELSE status[j]]
  <2>1. \A j \in Job : status[j] = "none"
    BY <1>1, <1>4 DEF OInv, IInv, Safe, Blank, Unrestored
  <2>2. Queued' = saved
    BY <1>4, <2>1 DEF Queued, OInv, IInv, TypeOK, DiskTypes
  <2> QED
    BY <1>1, <1>4, <2>2, RestoredOrder DEF InOrder, OInv, IInv
<1> QED
  BY <1>2, <1>3, <1>4 DEF Capture

LEMMA NextOrder ==
  ASSUME OInv, InOrder, TypeOK', faults' = 0 => faults = 0, [Next]_vars
  PROVE  InOrder'
<1>1. ASSUME NEW j \in Job, WedgeUnsettled(j)
      PROVE  InOrder'
  BY <1>1 DEF WedgeUnsettled, Fault, InOrder, OInv, IInv, TypeOK, HistoryTypes
<1>2. CASE Crash
  <2>1. Queued' = {}
    BY <1>2 DEF Crash, Queued
  <2> QED
    BY <2>1 DEF InOrder, PriorityOrder, DurableQueue
<1>3. CASE \/ \E j \in Job : Enqueue(j) \/ CancelBeforeSpawn(j) \/ ReplayRow(j)
           \/ \E j \in Job, w \in Priorities : UpdatePriority(j, w)
           \/ \E p \in [Job -> 0 .. Cardinality(Job)] : Reorder(p)
           \/ Drain \/ Capture
  BY <1>3, EnqueueOrder, CancelBeforeSpawnOrder, ReplayRowOrder, UpdatePriorityOrder,
     ReorderOrder, DrainOrder, CaptureOrder
<1>4. CASE \/ \E j \in Job : \/ Forget(j) \/ CancelRunning(j) \/ Spawn(j)
                             \/ AbandonStart(j) \/ ExitDisposed(j) \/ LateExit(j)
                             \/ PersistEventFails(j) \/ ZombieTimeout(j)
                             \/ SigkillAnswered(j) \/ WedgeFailed(j) \/ ChildExit(j)
                             \/ ForceFail(j)
           \/ Pause \/ Resume \/ KillTimerFires \/ AfterReplay \/ Restart \/ Shutdown
           \/ UNCHANGED vars
  BY <1>4, QuietOrder
<1> QED
  BY <1>1, <1>2, <1>3, <1>4 DEF Next
-----------------------------------------------------------------------------
(* Failures, and deletions from the history, are never taken back.         *)
LEMMA NextBounds ==
  ASSUME TypeOK, [Next]_vars
  PROVE  (faults' = 0 => faults = 0) /\ (forgets' = 0 => forgets = 0)
<1>1. faults \in Nat /\ forgets \in Nat
  BY DEF TypeOK, HistoryTypes
<1>2. ASSUME NEW j \in Job,
             \/ Enqueue(j) \/ Forget(j) \/ CancelBeforeSpawn(j) \/ CancelRunning(j)
             \/ Spawn(j) \/ AbandonStart(j) \/ WedgeFailed(j) \/ WedgeUnsettled(j)
      PROVE  faults' \in {faults, faults + 1} /\ forgets' \in {forgets, forgets + 1}
  BY <1>2 DEF Enqueue, Forget, CancelBeforeSpawn, CancelRunning, Spawn, AbandonStart,
              WedgeFailed, WedgeUnsettled, Fault, Stage
<1>3. ASSUME NEW j \in Job,
             \/ ExitDisposed(j) \/ LateExit(j) \/ ChildExit(j) \/ PersistEventFails(j)
             \/ ZombieTimeout(j) \/ SigkillAnswered(j) \/ ForceFail(j) \/ ReplayRow(j)
      PROVE  faults' \in {faults, faults + 1} /\ forgets' \in {forgets, forgets + 1}
  BY <1>3 DEF ExitDisposed, LateExit, ChildExit, PersistEventFails, ZombieTimeout,
              SigkillAnswered, ForceFail, ReplayRow, Fault, Healthy
<1>4. ASSUME \/ \E j \in Job, w \in Priorities : UpdatePriority(j, w)
             \/ \E p \in [Job -> 0 .. Cardinality(Job)] : Reorder(p)
             \/ Pause \/ KillTimerFires \/ Crash \/ Restart \/ UNCHANGED vars
      PROVE  faults' \in {faults, faults + 1} /\ forgets' \in {forgets, forgets + 1}
  BY <1>4 DEF UpdatePriority, Reorder, Pause, KillTimerFires, Crash, Restart, Fault,
              Healthy
<1>5. ASSUME Resume \/ Shutdown \/ Drain \/ Capture \/ AfterReplay
      PROVE  faults' \in {faults, faults + 1} /\ forgets' \in {forgets, forgets + 1}
  BY <1>5 DEF Resume, Shutdown, Drain, Reserve, Capture, AfterReplay, Resumed, Fault,
              Healthy
<1> QED
  BY <1>1, <1>2, <1>3, <1>4, <1>5 DEF Next

LEMMA NextWaiting ==
  ASSUME WInv, TypeOK', [Next]_vars
  PROVE  Waiting'
<1>1. faults' = 0 => faults = 0
  BY NextBounds DEF WInv, OInv, IInv
<1>2. ASSUME NEW j \in Job,
             \/ Enqueue(j) \/ Forget(j) \/ CancelBeforeSpawn(j) \/ Spawn(j)
             \/ WedgeFailed(j) \/ WedgeUnsettled(j) \/ LateExit(j) \/ ChildExit(j)
             \/ ForceFail(j) \/ ReplayRow(j)
      PROVE  Waiting'
  BY <1>1, <1>2, EnqueueWaiting, ForgetWaiting, CancelBeforeSpawnWaiting, SpawnWaiting,
     EndedWaiting, WedgeUnsettledWaiting, LateExitWaiting, ReplayRowWaiting
<1>3. CASE Resume \/ Shutdown \/ Drain \/ Capture \/ AfterReplay \/ Crash \/ Restart
  BY <1>1, <1>3, ResumeWaiting, ShutdownWaiting, DrainWaiting, CaptureWaiting,
     AfterReplayWaiting, RestartedWaiting
<1>4. CASE \/ \E j \in Job : \/ CancelRunning(j) \/ PersistEventFails(j)
                             \/ ZombieTimeout(j) \/ SigkillAnswered(j)
                             \/ AbandonStart(j) \/ ExitDisposed(j)
           \/ \E j \in Job, w \in Priorities : UpdatePriority(j, w)
           \/ \E p \in [Job -> 0 .. Cardinality(Job)] : Reorder(p)
           \/ Pause \/ KillTimerFires \/ UNCHANGED vars
  BY <1>1, <1>4, CalmSteps
<1> QED
  BY <1>2, <1>3, <1>4 DEF Next

LEMMA InitWaiting == Init => Waiting /\ InOrder
<1> SUFFICES ASSUME Init PROVE Waiting /\ InOrder
  OBVIOUS
<1>1. saved = {} /\ outbox = {} /\ pc = "idle" /\ \A j \in Job : ~Ready(j)
  BY DEF Init, Ready
<1>2. Queued = {}
  BY DEF Init, Queued
<1> QED
  BY <1>1, <1>2 DEF Waiting, Guarded, Linked, Drained, Attended, Restoring, Rested,
                    InOrder, PriorityOrder, DurableQueue

(* The invariant of the jobs that wait is inductive.                       *)
THEOREM WaitingInvariance == Spec => [](WInv /\ InOrder)
<1>1. Init => Waiting /\ InOrder
  BY InitWaiting
<1>2. OInv /\ OInv' /\ Waiting /\ InOrder /\ [Next]_vars => Waiting' /\ InOrder'
  <2> SUFFICES ASSUME OInv, OInv', Waiting, InOrder, [Next]_vars
               PROVE  Waiting' /\ InOrder'
    OBVIOUS
  <2>1. TypeOK /\ TypeOK'
    BY DEF OInv, IInv
  <2>2. Waiting'
    BY <2>1, NextWaiting DEF WInv
  <2>3. faults' = 0 => faults = 0
    BY <2>1, NextBounds
  <2>4. InOrder'
    BY <2>1, <2>3, NextOrder
  <2> QED
    BY <2>2, <2>4
<1>3. OInv /\ Waiting => WInv
  BY DEF WInv
<1> QED
  BY <1>1, <1>2, <1>3, OutcomeInvariance, PTL DEF Spec

(* No job waits for a parent that can no longer complete, unless a         *)
(* transaction has failed and a dependent has dependents of its own: only  *)
(* with both can the skip of one job miss another (queue-manager.ts skips  *)
(* the snapshot taken when the parent ended).                              *)
THEOREM NothingStranded == Spec => [](faults = 0 \/ Shallow => NoStrandedDependent)
<1>1. WInv => (faults = 0 \/ Shallow => NoStrandedDependent)
  <2> SUFFICES ASSUME WInv, faults = 0 \/ Shallow, mode = "up", pc = "idle", ~paused,
                      NEW k \in Queued, Dep[k] # NoJob
               PROVE  DependencyStatus(Dep[k]) \notin Terminal \ {"completed"}
    BY DEF NoStrandedDependent
  <2>1. k \in saved
    BY DEF Queued, WInv, OInv, Outcome, MemoryInv
  <2>2. ~Hopeless(Dep[k])
    BY <2>1, NothingHopeless
  <2> QED
    BY <2>2 DEF Hopeless, DependencyStatus, Bad, Terminal
<1> QED
  BY <1>1, WaitingInvariance, PTL

(* Whenever the server is at rest and the slot is free, no job that could  *)
(* run is waiting, unless a transaction has failed, history has been       *)
(* deleted and a dependent has dependents of its own: deleting a job that  *)
(* another is stranded on makes that one ready, and drains nothing.        *)
THEOREM NoWakeupLost ==
  Spec => [](faults = 0 \/ forgets = 0 \/ Shallow => NoLostWakeup)
<1>1. WInv => (faults = 0 \/ forgets = 0 \/ Shallow => NoLostWakeup)
  BY DEF WInv, Waiting, Rested, NoLostWakeup
<1> QED
  BY <1>1, WaitingInvariance, PTL

(* While no transaction has failed, the queue never has a job behind one   *)
(* of a lower priority: every splice, reorder, removal and restore keeps   *)
(* the order, although only the first of them compares priorities.         *)
THEOREM PriorityOrderHolds == Spec => [](faults = 0 => PriorityOrder)
<1>1. InOrder => (faults = 0 => PriorityOrder)
  BY DEF InOrder
<1> QED
  BY <1>1, WaitingInvariance, PTL

(* While no transaction has failed, a crash would bring the queue back in  *)
(* the order it has.                                                       *)
THEOREM DurableOrderHolds == Spec => [](faults = 0 => DurableOrder)
<1>1. InOrder => (faults = 0 => DurableOrder)
  BY DEF InOrder, DurableQueue, DurableOrder
<1> QED
  BY <1>1, WaitingInvariance, PTL
=============================================================================
