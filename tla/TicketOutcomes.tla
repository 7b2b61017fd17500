--------------------------- MODULE TicketOutcomes ---------------------------
(***************************************************************************)
(* What the end of a run and the decision on its delivery do to the        *)
(* project's tickets.  The tickets (their status, the marker of the last   *)
(* applied outcome, their addenda) live in a JSON file; ownership, rails,  *)
(* run recovery, deliveries and the Jira outbox live in SQLite.  A         *)
(* terminal callback writes the file inside a SQLite transaction, a        *)
(* delivery effect crosses the two stores in three durable phases, and     *)
(* the process may die between any two writes.                             *)
(***************************************************************************)
EXTENDS Naturals, FiniteSets

CONSTANTS
  Tickets,        \* each with one addendum
  Jobs,           \* queue jobs
  Shared,         \* loop runs in the project's own directory
  Isolated,       \* loop runs in a worktree, each with a delivery
  None,
  MaxCrashes,     \* bound: crashes of the server
  MaxStoreFails,  \* bound: failed locks or writes of the ticket file
  MaxHandFails,   \* bound: refused Jira handoffs and failed rail releases
  MaxEdits,       \* bound: changes of a status by the user or an agent
  MaxTroubles,    \* bound: failures, refusals and edits together
  MaxLaunches     \* bound: runs that are launched

Runs == Jobs \cup Shared \cup Isolated
Loops == Shared \cup Isolated

ASSUME RunsAssumption ==
  /\ Jobs \cap Loops = {} /\ Shared \cap Isolated = {} /\ None \notin Runs
ASSUME BoundsAssumption ==
  {MaxCrashes, MaxStoreFails, MaxHandFails, MaxEdits,
    MaxTroubles, MaxLaunches}
    \subseteq Nat

VARIABLES
  tickets,   \* JSON: status, needs_review, marker, the addendum and its run
  owner,     \* ticket_outcome_ownership
  rail,      \* rail_ticket_ownership of the ticket's rail assignment
  runs,      \* state, tickets and outcome of each run; "ended" = recovery row
  delivery,  \* rail_pr_deliveries with its rail_pr_ticket_effects row
  outbox,    \* Jira outbox: keys <<run or delivery, ticket, action>>
  op,        \* the synchronous call in progress, lost by a crash
  tracked,   \* the in-memory maps railJobs and railLoopRuns
  server,    \* "up" (admission open), "recovering", "down"
  tried,     \* loop callbacks the current recovery has replayed
  left,      \* what is left of the bounds
  hist       \* history: what each run and effect changed, later edits

vars == <<tickets, owner, rail, runs, delivery, outbox, op, tracked, server,
          tried, left, hist>>

durable == <<tickets, owner, rail, runs, delivery, outbox>>

Statuses == {"todo", "in_progress", "on_review", "done"}
RunStates == {"none", "checked", "launching", "running", "ended", "closed",
              "refused"}
DeliveryStates == {"none", "building", "open", "pending", "completed",
                   "superseded", "abandoned"}
NoOp == [kind |-> "idle", run |-> None, at |-> "", failed |-> FALSE]

TypeOK ==
  /\ tickets \in [Tickets -> [status: Statuses, review: BOOLEAN,
                              marker: Runs \cup {None},
                              addendum: {"open", "in_flight", "applied"},
                              by: Runs \cup {None}]]
  /\ owner \in [Tickets -> Runs \cup {None}]
  /\ rail \in [Tickets -> Runs \cup {None}]
  /\ runs \in [Runs -> [st: RunStates, of: SUBSET Tickets,
                        outcome: {"none", "completed", "failed"}]]
  /\ delivery \in [Isolated -> [st: DeliveryStates, of: SUBSET Tickets,
         pred: Isolated \cup {None}, target: {"none", "todo", "done"},
         owners: [Tickets -> Runs \cup {None}], snapshot: SUBSET Tickets,
         selected: BOOLEAN, applied: SUBSET Tickets, written: BOOLEAN]]
  /\ outbox \subseteq Runs \X Tickets \X {"review", "outcome", "todo", "done"}
  /\ op \in [kind: {"idle", "callback", "effect"}, run: Runs \cup {None},
             at: {"", "tickets", "addenda", "commit", "select", "write",
                  "mark", "jira", "complete"}, failed: BOOLEAN]
  /\ tracked \subseteq Runs
  /\ server \in {"up", "recovering", "down"}
  /\ tried \subseteq Loops

Init ==
  /\ tickets = [t \in Tickets |-> [status |-> "todo", review |-> FALSE,
                  marker |-> None, addendum |-> "open", by |-> None]]
  /\ owner = [t \in Tickets |-> None]
  /\ rail = [t \in Tickets |-> None]
  /\ runs = [r \in Runs |-> [st |-> "none", of |-> {}, outcome |-> "none"]]
  /\ delivery = [d \in Isolated |-> [st |-> "none", of |-> {}, pred |-> None,
        target |-> "none", owners |-> [t \in Tickets |-> None],
        snapshot |-> {}, selected |-> FALSE, applied |-> {},
        written |-> FALSE]]
  /\ outbox = {}
  /\ op = NoOp
  /\ tracked = {}
  /\ server = "up"
  /\ tried = {}
  /\ left = [crashes |-> MaxCrashes, store |-> MaxStoreFails,
             hand |-> MaxHandFails, edits |-> MaxEdits]
  /\ hist = [applied |-> [r \in Runs |-> {}], twice |-> {},
             moved |-> [d \in Isolated |-> {}],
             edited |-> [d \in Isolated |-> {}], unsettled |-> {}]

Free == op = NoOp /\ server # "down"
Admits == op = NoOp /\ server = "up"
Troubles == (MaxStoreFails - left.store) + (MaxHandFails - left.hand)
              + (MaxEdits - left.edits)
Spend(bound) ==
  /\ left[bound] > 0
  /\ bound = "crashes" \/ Troubles < MaxTroubles
  /\ left' = [left EXCEPT ![bound] = @ - 1]

Launchable(r) ==
  /\ runs[r].st = "none"
  /\ Cardinality({q \in Runs : runs[q].st # "none"}) < MaxLaunches

-----------------------------------------------------------------------------
(* Addenda: claimed for a run, settled by its outcome, reopened by a       *)
(* discard.  An explicit plan (isolated) also takes another run's claim.   *)
Claimable(r, t) ==
  \/ tickets[t].addendum = "open"
  \/ tickets[t].addendum = "in_flight" /\ (tickets[t].by = r \/ r \in Isolated)

ClaimSpecAddenda(r, ts) ==
  [t \in Tickets |-> IF t \in ts /\ Claimable(r, t)
     THEN [tickets[t] EXCEPT !.addendum = "in_flight", !.by = r]
     ELSE tickets[t]]

SettleSpecAddenda(tk, r, outcome) ==
  [t \in Tickets |->
     IF t \notin runs[r].of \/ tk[t].addendum # "in_flight" \/ tk[t].by # r
     THEN tk[t]
     ELSE IF outcome = "completed"
     THEN [tk[t] EXCEPT !.addendum = "applied"]
     ELSE [tk[t] EXCEPT !.addendum = "open", !.by = None]]

ReopenSpecAddenda(tk, d) ==
  [t \in Tickets |->
     IF t \in delivery[d].snapshot /\ tk[t].addendum = "applied"
     THEN [tk[t] EXCEPT !.addendum = "open", !.by = None]
     ELSE tk[t]]

-----------------------------------------------------------------------------
(* Launching.  Admission of a run is one SQLite transaction that makes it  *)
(* the causal owner of its tickets and of their rail assignments.          *)
Own(r, ts) ==
  /\ owner' = [t \in Tickets |-> IF t \in ts THEN r ELSE owner[t]]
  /\ rail' = [t \in Tickets |-> IF t \in ts THEN r ELSE rail[t]]

(* A launch is refused when one of its tickets is in flight, as far as the *)
(* in-memory maps know.                                                    *)
NotInFlight(ts) == \A q \in tracked : runs[q].of \cap ts = {}

(* Mutant: a job is admitted while the project still recovers.             *)
LaunchJobEarly(r, ts) ==
  /\ Free /\ r \in Jobs /\ Launchable(r) /\ NotInFlight(ts)
  /\ Own(r, ts)
  /\ runs' = [runs EXCEPT ![r] = [@ EXCEPT !.st = "running", !.of = ts]]
  /\ tracked' = tracked \cup {r}
  /\ UNCHANGED <<tickets, delivery, outbox, op, server, tried, left, hist>>

(* A job is checked, admitted and registered without an await.             *)
LaunchJob(r, ts) ==
  /\ Admits /\ r \in Jobs /\ Launchable(r) /\ NotInFlight(ts)
  /\ Own(r, ts)
  /\ runs' = [runs EXCEPT ![r] = [@ EXCEPT !.st = "running", !.of = ts]]
  /\ tracked' = tracked \cup {r}
  /\ UNCHANGED <<tickets, delivery, outbox, op, server, tried, left, hist>>

(* At the launch and again when the job is spawned; best-effort.           *)
ClaimJobAddenda(r) ==
  /\ Free /\ r \in Jobs /\ runs[r].st = "running"
  /\ tickets' = ClaimSpecAddenda(r, runs[r].of)
  /\ UNCHANGED <<owner, rail, runs, delivery, outbox, op, tracked, server,
                 tried, left, hist>>

(* The launch of a loop awaits between the check and the registration, and *)
(* does not check again.                                                   *)
CheckLaunch(r, ts) ==
  /\ Admits /\ r \in Loops /\ Launchable(r) /\ NotInFlight(ts)
  /\ runs' = [runs EXCEPT ![r] = [@ EXCEPT !.st = "checked", !.of = ts]]
  /\ UNCHANGED <<tickets, owner, rail, delivery, outbox, op, tracked, server,
                 tried, left, hist>>

(* A shared loop run registers and claims before it is admitted; the claim *)
(* is best-effort.                                                         *)
StartShared(r) ==
  /\ Admits /\ r \in Shared /\ runs[r].st = "checked"
  /\ runs' = [runs EXCEPT ![r].st = "launching"]
  /\ tracked' = tracked \cup {r}
  /\ \/ /\ tickets' = ClaimSpecAddenda(r, runs[r].of)
        /\ left' = left
     \/ Spend("store") /\ tickets' = tickets
  /\ UNCHANGED <<owner, rail, delivery, outbox, op, server, tried, hist>>

(* An isolated one first gets its delivery, which may supersede an open    *)
(* one of the same tickets, and then claims its frozen plan.               *)
StartIsolated(r, pred) ==
  /\ Admits /\ r \in Isolated /\ runs[r].st = "checked"
  /\ pred # None => /\ delivery[pred].st = "open"
                    /\ delivery[pred].of = runs[r].of
  /\ runs' = [runs EXCEPT ![r].st = "launching"]
  /\ delivery' = [d \in Isolated |->
       IF d = r THEN [delivery[d] EXCEPT !.st = "building", !.pred = pred,
                        !.of = runs[r].of,
                        !.snapshot = {t \in runs[r].of : Claimable(r, t)}]
       ELSE IF d = pred THEN [delivery[d] EXCEPT !.st = "superseded"]
       ELSE delivery[d]]
  /\ tickets' = ClaimSpecAddenda(r, runs[r].of)
  /\ UNCHANGED <<owner, rail, outbox, op, tracked, server, tried, left, hist>>

AdmitLoop(r) ==
  /\ Free /\ r \in Loops /\ runs[r].st = "launching"
  /\ Own(r, runs[r].of)
  /\ runs' = [runs EXCEPT ![r].st = "running"]
  /\ tracked' = tracked \cup {r}
  /\ UNCHANGED <<tickets, delivery, outbox, op, server, tried, left, hist>>

(* The engine refuses the run before it is persisted.  For a shared run    *)
(* the terminal callback finds no recovery row and returns.                *)
RefuseShared(r) ==
  /\ Free /\ r \in Shared /\ runs[r].st = "launching"
  /\ runs' = [runs EXCEPT ![r].st = "refused"]
  /\ tracked' = tracked \ {r}
  /\ UNCHANGED <<tickets, owner, rail, delivery, outbox, op, server, tried,
                 left, hist>>

(* An isolated launch that fails gives the addenda back and restores the   *)
(* delivery it superseded.                                                 *)
RefuseIsolated(r) ==
  /\ Free /\ r \in Isolated /\ runs[r].st = "launching"
  /\ runs' = [runs EXCEPT ![r].st = "refused"]
  /\ tickets' = SettleSpecAddenda(tickets, r, "failed")
  /\ delivery' = [d \in Isolated |->
       IF d = r THEN [delivery[d] EXCEPT !.st = "abandoned"]
       ELSE IF d = delivery[r].pred THEN [delivery[d] EXCEPT !.st = "open"]
       ELSE delivery[d]]
  /\ UNCHANGED <<owner, rail, outbox, op, tracked, server, tried, left, hist>>

-----------------------------------------------------------------------------
(* Tickets that are changed while a delivery has selected them.            *)
Edited(ts) ==
  [hist EXCEPT !.edited = [d \in Isolated |->
     IF delivery[d].st = "pending" /\ delivery[d].selected
     THEN @[d] \cup ts ELSE @[d]]]

(* The user moves a ticket on the board (also while the project recovers), *)
(* or the agent of a run, or a Jira launch, marks it in progress or done.  *)
EditTicket(t, status) ==
  /\ Free /\ Spend("edits") /\ status # tickets[t].status
  /\ tickets' = [tickets EXCEPT ![t].status = status]
  /\ hist' = Edited({t})
  /\ UNCHANGED <<owner, rail, runs, delivery, outbox, op, tracked, server,
                 tried>>

(* The user reopens an applied addendum.                                   *)
ReopenAddendum(t) ==
  /\ Free /\ Spend("edits") /\ tickets[t].addendum = "applied"
  /\ tickets' = [tickets EXCEPT ![t].addendum = "open", ![t].by = None]
  /\ UNCHANGED <<owner, rail, runs, delivery, outbox, op, tracked, server,
                 tried, hist>>

AgentStarts(r, t) ==
  /\ Free /\ runs[r].st = "running" /\ t \in runs[r].of
  /\ tickets[t].status = "todo" /\ owner[t] = r
  /\ tickets' = [tickets EXCEPT ![t].status = "in_progress"]
  /\ UNCHANGED <<owner, rail, runs, delivery, outbox, op, tracked, server,
                 tried, left, hist>>

-----------------------------------------------------------------------------
(* The end of a run: its terminal state and its recovery row are committed *)
(* together and its callback is called.                                    *)
CallBack(r) == op' = [kind |-> "callback", run |-> r, at |-> "tickets",
                      failed |-> FALSE]

EndRun(r, outcome) ==
  /\ Free /\ runs[r].st = "running"
  /\ runs' = [runs EXCEPT ![r] = [@ EXCEPT !.st = "ended",
                                           !.outcome = outcome]]
  /\ tracked' = tracked \ ({r} \cap Jobs)
  /\ CallBack(r)
  /\ UNCHANGED <<tickets, owner, rail, delivery, outbox, server, tried, left,
                 hist>>

(* Mutant: a job's callback too is only called again by a restart.         *)
ReplayCallbackAtRestart(r) ==
  /\ Free /\ runs[r].st = "ended"
  /\ server = "recovering" /\ r \notin tried
  /\ CallBack(r)
  /\ tried' = tried \cup {r}
  /\ UNCHANGED <<durable, tracked, server, left, hist>>

(* A callback that failed is called again: a job's by the next replay of   *)
(* the queue's recovery rows, a loop's only by a restart, once.            *)
ReplayCallback(r) ==
  /\ Free /\ runs[r].st = "ended"
  /\ r \in Loops => server = "recovering" /\ r \notin tried
  /\ CallBack(r)
  /\ tried' = tried \cup ({r} \cap Loops)
  /\ UNCHANGED <<durable, tracked, server, left, hist>>

Owned(r) == {t \in runs[r].of : owner[t] = r}

(* applyJobOutcomeToTickets for one ticket, with the run as effect id.     *)
OutcomeOn(ticket, r) ==
  IF ticket.marker = r THEN ticket
  ELSE LET marked == [ticket EXCEPT !.marker = r]
           promotable == ticket.status \in {"todo", "in_progress"}
       IN IF runs[r].outcome = "completed"
          THEN [marked EXCEPT !.review = FALSE,
                  !.status = IF promotable THEN "on_review" ELSE @]
          ELSE IF ticket.status = "in_progress"
          THEN [marked EXCEPT !.status = "todo"]
          ELSE [marked EXCEPT !.review = @ \/ ticket.status = "done"]

ApplyOutcome ==
  LET r == op.run IN
  /\ op.kind = "callback" /\ op.at = "tickets"
  /\ op' = [op EXCEPT !.at = "addenda"]
  /\ tickets' = [t \in Tickets |-> IF t \in Owned(r)
                   THEN OutcomeOn(tickets[t], r) ELSE tickets[t]]
  /\ LET now == {t \in Tickets : tickets'[t] # tickets[t]} IN
     hist' = [Edited({t \in now : tickets'[t].status # tickets[t].status})
              EXCEPT !.applied[r] = @ \cup now,
                     !.twice = @ \cup (now \cap hist.applied[r])]
  /\ UNCHANGED <<owner, rail, runs, delivery, outbox, tracked, server, tried,
                 left>>

(* The ticket file cannot be locked or written: a loop's callback stops,   *)
(* a job's goes on and throws at its end.                                  *)
ApplyOutcomeFails ==
  /\ op.kind = "callback" /\ op.at = "tickets" /\ Spend("store")
  /\ op' = IF op.run \in Loops THEN NoOp
           ELSE [op EXCEPT !.at = "addenda", !.failed = TRUE]
  /\ UNCHANGED <<durable, tracked, server, tried, hist>>

SettleAddenda ==
  LET r == op.run IN
  /\ op.kind = "callback" /\ op.at = "addenda"
  /\ op' = [op EXCEPT !.at = "commit"]
  /\ tickets' = SettleSpecAddenda(tickets, r, runs[r].outcome)
  /\ UNCHANGED <<owner, rail, runs, delivery, outbox, tracked, server, tried,
                 left, hist>>

(* A failure to settle is logged and forgotten.                            *)
SettleAddendaFails ==
  /\ op.kind = "callback" /\ op.at = "addenda" /\ Spend("store")
  /\ op' = [op EXCEPT !.at = "commit"]
  /\ hist' = [hist EXCEPT !.unsettled = @ \cup {op.run}]
  /\ UNCHANGED <<durable, tracked, server, tried>>

(* Mutant: the checkpoint ignores that a critical step failed.             *)
CommitRegardless(handed) ==
  LET r == op.run IN
  /\ op.kind = "callback" /\ op.at = "commit" /\ handed
  /\ op' = NoOp
  /\ rail' = [t \in Tickets |-> IF t \in Owned(r) /\ rail[t] = r
                                THEN None ELSE rail[t]]
  /\ runs' = [runs EXCEPT ![r].st = "closed"]
  /\ tracked' = tracked \ {r}
  /\ UNCHANGED <<tickets, owner, delivery, outbox, server, tried, left, hist>>

(* Rail release, Jira and the checkpoint commit together, unless a         *)
(* critical step failed.  Jira is best-effort here.                        *)
CommitCallback(handed) ==
  LET r == op.run
      told == {t \in Owned(r) : tickets[t].marker = r}
  IN
  /\ op.kind = "callback" /\ op.at = "commit" /\ ~op.failed
  /\ op' = NoOp
  /\ rail' = [t \in Tickets |-> IF t \in Owned(r) /\ rail[t] = r
                                THEN None ELSE rail[t]]
  /\ runs' = [runs EXCEPT ![r].st = "closed"]
  /\ tracked' = tracked \ {r}
  /\ \/ handed /\ left' = left
        /\ outbox' = outbox \cup
             (IF runs[r].outcome = "completed"
              THEN {<<r, t, "review">> :
                      t \in {u \in told : tickets[u].status = "on_review"}}
              ELSE {<<r, t, "outcome">> : t \in told})
     \/ ~handed /\ Spend("hand") /\ outbox' = outbox
  /\ UNCHANGED <<tickets, owner, delivery, server, tried, hist>>

RollBackCallback ==
  /\ op.kind = "callback" /\ op.at = "commit"
  /\ IF op.failed THEN left' = left ELSE Spend("hand")
  /\ op' = NoOp
  /\ UNCHANGED <<durable, tracked, server, tried, hist>>

-----------------------------------------------------------------------------
(* The delivery of an isolated run opens for a decision once it has ended. *)
OpenDelivery(d) ==
  /\ Free /\ delivery[d].st = "building" /\ runs[d].st \in {"ended", "closed"}
  /\ delivery' = [delivery EXCEPT ![d].st = "open"]
  /\ UNCHANGED <<tickets, owner, rail, runs, outbox, op, tracked, server,
                 tried, left, hist>>

(* Mutant: an effect that has made its selection is not written again.     *)
EffectOnceSelected(d) ==
  op' = [kind |-> "effect", run |-> d, failed |-> FALSE,
         at |-> IF delivery[d].selected THEN "jira" ELSE "select"]

(* A terminal decision and its effect row, with the current owners, are    *)
(* one transaction; the effect is applied at once.                         *)
Effect(d) == op' = [kind |-> "effect", run |-> d, failed |-> FALSE,
                    at |-> IF delivery[d].written THEN "jira" ELSE "select"]

Decide(d, target) ==
  /\ Admits /\ delivery[d].st = "open"
  /\ target = "done" => runs[d].outcome = "completed"
  /\ delivery' = [delivery EXCEPT ![d] = [@ EXCEPT !.st = "pending",
                    !.target = target, !.owners = owner]]
  /\ Effect(d)
  /\ UNCHANGED <<tickets, owner, rail, runs, outbox, tracked, server, tried,
                 left, hist>>

(* Pending effects are only replayed by the recovery of the project.       *)
ReplayEffect(d) ==
  /\ Free /\ server = "recovering" /\ delivery[d].st = "pending"
  /\ \A r \in Loops : runs[r].st = "ended" => r \in tried
  /\ Effect(d)
  /\ UNCHANGED <<durable, tracked, server, tried, left, hist>>

(* Under the lock of the ticket file: the selection is durable before the  *)
(* file is written, and is never made again.                               *)
Selectable(d) ==
  {t \in delivery[d].of : /\ delivery[d].owners[t] # None
                          /\ tickets[t].status = "on_review"
                          /\ owner[t] = delivery[d].owners[t]}

Select ==
  LET d == op.run IN
  /\ op.kind = "effect" /\ op.at = "select"
  /\ op' = [op EXCEPT !.at = "write"]
  /\ delivery' = IF delivery[d].selected THEN delivery
                 ELSE [delivery EXCEPT ![d] = [@ EXCEPT !.selected = TRUE,
                                                !.applied = Selectable(d)]]
  /\ UNCHANGED <<tickets, owner, rail, runs, outbox, tracked, server, tried,
                 left, hist>>

WriteTickets ==
  LET d == op.run
      moves == {t \in delivery[d].applied : tickets[t].status = "on_review"}
      target == delivery[d].target
      moved == [t \in Tickets |-> IF t \in moves
                  THEN [tickets[t] EXCEPT !.status = target] ELSE tickets[t]]
  IN
  /\ op.kind = "effect" /\ op.at = "write"
  /\ op' = [op EXCEPT !.at = "mark"]
  /\ tickets' = IF target = "todo" THEN ReopenSpecAddenda(moved, d) ELSE moved
  /\ hist' = [Edited(moves) EXCEPT !.moved[d] = @ \cup moves,
                                   !.edited[d] = hist.edited[d]]
  /\ UNCHANGED <<owner, rail, runs, delivery, outbox, tracked, server, tried,
                 left>>

MarkWritten ==
  /\ op.kind = "effect" /\ op.at = "mark"
  /\ op' = [op EXCEPT !.at = "jira"]
  /\ delivery' = [delivery EXCEPT ![op.run].written = TRUE]
  /\ UNCHANGED <<tickets, owner, rail, runs, outbox, tracked, server, tried,
                 left, hist>>

(* Mutant: Jira is told of every ticket of the delivery.                   *)
HandAllToJira ==
  /\ op.kind = "effect" /\ op.at = "jira"
  /\ op' = [op EXCEPT !.at = "complete"]
  /\ outbox' = outbox \cup {<<op.run, t, delivery[op.run].target>> :
                              t \in delivery[op.run].of}
  /\ UNCHANGED <<tickets, owner, rail, runs, delivery, tracked, server, tried,
                 left, hist>>

HandToJira ==
  LET d == op.run IN
  /\ op.kind = "effect" /\ op.at = "jira"
  /\ op' = [op EXCEPT !.at = "complete"]
  /\ outbox' = outbox \cup {<<d, t, delivery[d].target>> :
                              t \in delivery[d].applied}
  /\ UNCHANGED <<tickets, owner, rail, runs, delivery, tracked, server, tried,
                 left, hist>>

CompleteEffect ==
  /\ op.kind = "effect" /\ op.at = "complete"
  /\ op' = NoOp
  /\ delivery' = [delivery EXCEPT ![op.run].st = "completed"]
  /\ UNCHANGED <<tickets, owner, rail, runs, outbox, tracked, server, tried,
                 left, hist>>

(* recordEffectFailure: the row stays pending.                             *)
EffectFails ==
  /\ op.kind = "effect"
  /\ \/ op.at \in {"select", "write"} /\ Spend("store")
     \/ op.at = "jira" /\ Spend("hand")
  /\ op' = NoOp
  /\ UNCHANGED <<durable, tracked, server, tried, hist>>

-----------------------------------------------------------------------------
(* Crash and restart.  A run that was running has failed (a job that was   *)
(* still queued has not); one that was not yet admitted never existed, and *)
(* its delivery becomes a failed one.                                      *)
Crash ==
  /\ server # "down" /\ Spend("crashes")
  /\ op' = NoOp /\ server' = "down" /\ tried' = {} /\ tracked' = {}
  /\ UNCHANGED <<durable, hist>>

Restart ==
  /\ server = "down"
  /\ server' = "recovering"
  /\ \E queued \in SUBSET Jobs : runs' = [r \in Runs |->
       IF runs[r].st = "running" /\ r \notin queued
       THEN [runs[r] EXCEPT !.st = "ended", !.outcome = "failed"]
       ELSE IF runs[r].st \in {"checked", "launching"}
       THEN [runs[r] EXCEPT !.st = "refused"]
       ELSE runs[r]]
  /\ tracked' = {r \in Loops : runs[r].st = "running"}
  /\ delivery' = [d \in Isolated |->
       IF delivery[d].st = "building"
       THEN [delivery[d] EXCEPT !.st = "open"] ELSE delivery[d]]
  /\ UNCHANGED <<tickets, owner, rail, outbox, op, tried, left, hist>>

OpenAdmission ==
  /\ Free /\ server = "recovering"
  /\ \A r \in Loops : runs[r].st = "ended" => r \in tried
  /\ \A d \in Isolated : delivery[d].st # "pending"
  /\ server' = "up"
  /\ UNCHANGED <<durable, op, tried, left, hist, tracked>>

-----------------------------------------------------------------------------
LaunchSets == SUBSET Tickets \ {{}}

Callbacks == \/ ApplyOutcome \/ ApplyOutcomeFails \/ SettleAddenda
             \/ SettleAddendaFails \/ RollBackCallback
             \/ \E handed \in BOOLEAN : CommitCallback(handed)

EffectSteps == \/ Select \/ WriteTickets \/ MarkWritten \/ HandToJira
               \/ CompleteEffect \/ EffectFails

Next ==
  \/ \E r \in Runs, ts \in LaunchSets : LaunchJob(r, ts) \/ CheckLaunch(r, ts)
  \/ \E r \in Isolated, pred \in Isolated \cup {None} : StartIsolated(r, pred)
  \/ \E r \in Shared : StartShared(r) \/ RefuseShared(r)
  \/ \E r \in Runs : \/ ClaimJobAddenda(r) \/ AdmitLoop(r) \/ RefuseIsolated(r)
                     \/ ReplayCallback(r)
  \/ \E r \in Runs, outcome \in {"completed", "failed"} : EndRun(r, outcome)
  \/ \E t \in Tickets, s \in Statuses : EditTicket(t, s)
  \/ \E t \in Tickets : ReopenAddendum(t)
  \/ \E r \in Runs, t \in Tickets : AgentStarts(r, t)
  \/ \E d \in Isolated : OpenDelivery(d) \/ ReplayEffect(d)
  \/ \E d \in Isolated, target \in {"todo", "done"} : Decide(d, target)
  \/ Callbacks
  \/ EffectSteps
  \/ Crash \/ Restart \/ OpenAdmission

Spec == Init /\ [][Next]_vars

(* The steps of a synchronous call follow one another, a dead server is    *)
(* started again, its recovery goes through what it has to replay, and     *)
(* the queue calls a job's callback again.                                 *)
Recovery ==
  \/ Restart \/ OpenAdmission
  \/ \E r \in Loops : ReplayCallback(r)
  \/ \E d \in Isolated : ReplayEffect(d)

Fairness ==
  /\ WF_vars(Callbacks \/ EffectSteps \/ Recovery)
  /\ \A r \in Jobs : WF_vars(ReplayCallback(r))

LiveSpec == Spec /\ Fairness

-----------------------------------------------------------------------------
(* A run whose callback is checkpointed has left nothing behind: every     *)
(* ticket it still owns carries its marker and is off its rail, and none   *)
(* of its addenda is in flight (unless their settlement failed).           *)
SettledCompletely ==
  \A r \in Runs : runs[r].st = "closed" =>
    /\ \A t \in Owned(r) : tickets[t].marker = r /\ rail[t] # r
    /\ r \notin hist.unsettled =>
         \A t \in Tickets : ~(tickets[t].addendum = "in_flight"
                              /\ tickets[t].by = r)

(* The outcome of a run changes a ticket at most once, however often its   *)
(* callback is replayed and whoever changes the ticket in between.         *)
OutcomeOnce == hist.twice = {}

(* Jira is only told of tickets the effect moved, or that somebody else    *)
(* moved after the effect had selected them.                               *)
JiraFollowsTickets ==
  \A d \in Isolated : \A t \in Tickets :
    (<<d, t, "done">> \in outbox \/ <<d, t, "todo">> \in outbox)
      => t \in hist.moved[d] \cup hist.edited[d]

(* Every ticket that a completed effect selected was moved, or was moved   *)
(* by somebody else first.                                                 *)
SelectedAreMoved ==
  \A d \in Isolated : delivery[d].st = "completed" =>
    /\ delivery[d].applied \subseteq hist.moved[d] \cup hist.edited[d]
    /\ \A t \in delivery[d].applied : <<d, t, delivery[d].target>> \in outbox

(* The write of an effect changes the status of a ticket only for the      *)
(* iteration that owned it when the decision was taken, as long as the     *)
(* ticket file does not fail (a failed write is replayed much later).      *)
OfItsIteration ==
  \A d \in Isolated : \A t \in hist'.moved[d] \ hist.moved[d] :
    owner[t] = delivery[d].owners[t]
EffectOfItsIteration == [][left.store = MaxStoreFails => OfItsIteration]_vars
EffectAlwaysOfItsIteration == [][OfItsIteration]_vars

(* A ticket whose delivery was merged is not left on review by the run of  *)
(* that delivery: the spec reaches done once the delivered change merges.  *)
ReachesDone ==
  \A d \in Isolated :
    /\ delivery[d].st = "completed" /\ delivery[d].target = "done"
    /\ runs[d].st = "closed" /\ left.edits = MaxEdits
    => \A t \in Owned(d) : tickets[t].status # "on_review"
MergedReachesDone == left.store = MaxStoreFails => ReachesDone
MergedAlwaysReachesDone == ReachesDone

(* An addendum in flight belongs to a run that exists and will settle it.  *)
InFlightHasRun ==
  \A t \in Tickets : tickets[t].addendum = "in_flight" =>
    runs[tickets[t].by].st \in {"launching", "running", "ended"}

(* A ticket has one writer: two runs never work on the same ticket.        *)
OneWriter ==
  \A r, q \in Runs : r # q /\ runs[r].st = "running" /\ runs[q].st = "running"
    => runs[r].of \cap runs[q].of = {}

(* A discarded delivery reopens only addenda that its own run applied.     *)
ReopensItsOwn ==
  [][\A t \in Tickets :
       /\ op.kind = "effect"
       /\ tickets[t].addendum = "applied" /\ tickets'[t].addendum = "open"
       => tickets[t].by = op.run]_vars

(* A recovery ends: every pending effect completes and admission opens.    *)
RecoveryEnds == (server = "recovering") ~> (server = "up")

(* The callback of a job is delivered in the end.                          *)
JobsSettle == \A r \in Jobs : runs[r].st = "ended" ~> runs[r].st = "closed"

(* The state is well formed, an outcome changes a ticket once, and Jira is  *)
(* told of what happened to the tickets and of nothing else.                *)
Consistent == TypeOK /\ OutcomeOnce /\ JiraFollowsTickets

(* The recovery after a restart ends, and the callback of a job arrives.    *)
Converges == RecoveryEnds /\ JobsSettle

(* A completed effect has done what its decision asked for: the tickets it  *)
(* selected moved, and those of a merged delivery are done.                 *)
DecisionTakesEffect == SelectedAreMoved /\ MergedReachesDone
=============================================================================
