------------------------- MODULE TicketOutcomesProofs -------------------------
(***************************************************************************)
(* What holds of the tickets for every set of tickets and runs, and any    *)
(* number of crashes, failures, edits and launches: the outcome of a run   *)
(* changes a ticket once, a callback that is checkpointed has left nothing *)
(* behind, Jira is told of what happened, and a decision takes effect.     *)
(*                                                                         *)
(* First what the operators return; then what one step can do to the runs, *)
(* owners, tickets and history (Moves), one action at a time; then each    *)
(* part of the inductive invariant, from that.                             *)
(***************************************************************************)
EXTENDS TicketOutcomes, TLAPS

USE DEF vars, durable, Runs, Loops

TicketType == [status: Statuses, review: BOOLEAN, marker: Runs \cup {None},
               addendum: {"open", "in_flight", "applied"},
               by: Runs \cup {None}]

RunType == [st: RunStates, of: SUBSET Tickets,
            outcome: {"none", "completed", "failed"}]

DeliveryType ==
  [st: DeliveryStates, of: SUBSET Tickets, pred: Isolated \cup {None},
   target: {"none", "todo", "done"}, owners: [Tickets -> Runs \cup {None}],
   snapshot: SUBSET Tickets, selected: BOOLEAN, applied: SUBSET Tickets,
   written: BOOLEAN]

LeftType == left \in [crashes : Nat, store : 0..MaxStoreFails, hand : Nat,
                      edits : 0..MaxEdits]

HistType == hist \in [applied : [Runs -> SUBSET Tickets], twice : SUBSET Tickets,
                      moved : [Isolated -> SUBSET Tickets],
                      edited : [Isolated -> SUBSET Tickets],
                      unsettled : SUBSET Runs]

Typed == TypeOK /\ LeftType /\ HistType

LEMMA Types ==
  ASSUME TypeOK
  PROVE  /\ tickets \in [Tickets -> TicketType]
         /\ runs \in [Runs -> RunType]
         /\ delivery \in [Isolated -> DeliveryType]
BY DEF TypeOK, TicketType, RunType, DeliveryType

(* All but the tickets, the runs and the deliveries.                       *)
RestType ==
  /\ owner \in [Tickets -> Runs \cup {None}]
  /\ rail \in [Tickets -> Runs \cup {None}]
  /\ outbox \subseteq Runs \X Tickets \X {"review", "outcome", "todo", "done"}
  /\ op \in [kind: {"idle", "callback", "effect"}, run: Runs \cup {None},
             at: {"", "tickets", "addenda", "commit", "select", "write",
                  "mark", "jira", "complete"}, failed: BOOLEAN]
  /\ tracked \subseteq Runs
  /\ server \in {"up", "recovering", "down"}
  /\ tried \subseteq Loops

LEMMA TypesAre ==
  ASSUME RestType', tickets' \in [Tickets -> TicketType],
         runs' \in [Runs -> RunType], delivery' \in [Isolated -> DeliveryType]
  PROVE  TypeOK'
BY DEF TypeOK, TicketType, RunType, DeliveryType, RestType

LEMMA RestTypes == ASSUME TypeOK PROVE RestType
BY DEF TypeOK, RestType

LEMMA NoneIsNoRun == None \notin Runs /\ Isolated \cap Jobs = {}
BY RunsAssumption

-----------------------------------------------------------------------------
(* What the operators return.                                              *)
InFlight(tk, t, r) == tk[t].addendum = "in_flight" /\ tk[t].by = r

LEMMA ClaimDoes ==
  ASSUME TypeOK, NEW r \in Runs, NEW ts, NEW tk, tk = ClaimSpecAddenda(r, ts)
  PROVE  /\ tk \in [Tickets -> TicketType]
         /\ \A t \in Tickets :
              /\ tk[t].status = tickets[t].status /\ tk[t].marker = tickets[t].marker
              /\ \A q \in Runs : InFlight(tk, t, q) =>
                   InFlight(tickets, t, q) \/ (q = r /\ t \in ts)
<1>1. tickets \in [Tickets -> TicketType]  BY DEF TypeOK, TicketType
<1>2. ASSUME NEW t \in Tickets
      PROVE  tk[t] \in {tickets[t], [tickets[t] EXCEPT !.addendum = "in_flight", !.by = r]}
  BY DEF ClaimSpecAddenda
<1>3. ASSUME NEW t \in Tickets, t \notin ts  PROVE tk[t] = tickets[t]
  BY <1>3 DEF ClaimSpecAddenda
<1>4. tk = [t \in Tickets |-> tk[t]]  BY DEF ClaimSpecAddenda
<1>5. ASSUME NEW t \in Tickets
      PROVE  /\ tk[t] \in TicketType
             /\ tk[t].status = tickets[t].status /\ tk[t].marker = tickets[t].marker
             /\ \A q \in Runs : InFlight(tk, t, q) =>
                  InFlight(tickets, t, q) \/ (q = r /\ t \in ts)
  BY <1>1, <1>2, <1>3, ZenonT(60) DEF TicketType, InFlight
<1> QED  BY <1>4, <1>5

LEMMA SettleDoes ==
  ASSUME NEW old \in [Tickets -> TicketType], NEW r \in Runs, NEW outcome,
         NEW tk, tk = SettleSpecAddenda(old, r, outcome)
  PROVE  /\ tk \in [Tickets -> TicketType]
         /\ \A t \in Tickets :
              /\ tk[t].status = old[t].status /\ tk[t].marker = old[t].marker
              /\ \A q \in Runs : InFlight(tk, t, q) => InFlight(old, t, q)
              /\ InFlight(tk, t, r) => t \notin runs[r].of
BY ZenonT(60) DEF TicketType, SettleSpecAddenda, InFlight

LEMMA ReopenDoes ==
  ASSUME NEW old \in [Tickets -> TicketType], NEW d \in Isolated,
         NEW tk, tk = ReopenSpecAddenda(old, d)
  PROVE  /\ tk \in [Tickets -> TicketType]
         /\ \A t \in Tickets :
              /\ tk[t].status = old[t].status /\ tk[t].marker = old[t].marker
              /\ \A q \in Runs : InFlight(tk, t, q) => InFlight(old, t, q)
BY ZenonT(60) DEF TicketType, ReopenSpecAddenda, InFlight

LEMMA OutcomeDoes ==
  ASSUME NEW ticket \in TicketType, NEW r \in Runs,
         NEW new, new = OutcomeOn(ticket, r)
  PROVE  /\ new \in TicketType /\ new.marker = r
         /\ new.addendum = ticket.addendum /\ new.by = ticket.by
         /\ ticket.marker = r => new = ticket
BY ZenonT(60) DEF TicketType, Statuses, OutcomeOn

LEMMA OwnDoes ==
  ASSUME TypeOK, NEW r \in Runs, NEW ts, Own(r, ts)
  PROVE  /\ owner' \in [Tickets -> Runs \cup {None}]
         /\ rail' \in [Tickets -> Runs \cup {None}]
         /\ \A t \in Tickets : /\ owner'[t] \in {owner[t], r}
                               /\ rail'[t] \in {rail[t], r}
BY DEF TypeOK, Own

LEMMA EditedDoes ==
  ASSUME HistType, NEW ts \in SUBSET Tickets, NEW h, h = Edited(ts)
  PROVE  /\ h \in [applied : [Runs -> SUBSET Tickets], twice : SUBSET Tickets,
                   moved : [Isolated -> SUBSET Tickets],
                   edited : [Isolated -> SUBSET Tickets],
                   unsettled : SUBSET Runs]
         /\ h.applied = hist.applied /\ h.twice = hist.twice
         /\ h.moved = hist.moved /\ h.unsettled = hist.unsettled
         /\ \A d \in Isolated :
              /\ hist.edited[d] \subseteq h.edited[d]
              /\ delivery[d].st = "pending" /\ delivery[d].selected =>
                   ts \subseteq h.edited[d]
BY DEF HistType, Edited

(* What is spent stays spent.                                              *)
LEMMA SpendDoes ==
  ASSUME LeftType, NEW bound \in {"crashes", "store", "hand", "edits"}, Spend(bound)
  PROVE  /\ LeftType'
         /\ left'.store = MaxStoreFails => left.store = MaxStoreFails /\ bound # "store"
         /\ left'.edits = MaxEdits => left.edits = MaxEdits /\ bound # "edits"
<1>1. left[bound] > 0 /\ left' = [left EXCEPT ![bound] = @ - 1]  BY DEF Spend
<1>2. MaxStoreFails \in Nat /\ MaxEdits \in Nat  BY BoundsAssumption
<1>3. CASE bound = "crashes"  BY <1>1, <1>2, <1>3 DEF LeftType
<1>4. CASE bound = "store"  BY <1>1, <1>2, <1>4 DEF LeftType
<1>5. CASE bound = "hand"  BY <1>1, <1>2, <1>5 DEF LeftType
<1>6. CASE bound = "edits"  BY <1>1, <1>2, <1>6 DEF LeftType
<1> QED  BY <1>3, <1>4, <1>5, <1>6

-----------------------------------------------------------------------------
(* What one step can do.  A run that is over keeps its outcome.            *)
RunsMove ==
  \A r \in Runs :
    /\ runs[r].st # "none" => runs'[r].of = runs[r].of
    /\ runs[r].st \in {"closed", "refused"} => runs'[r].st = runs[r].st
    /\ runs[r].st = "ended" => runs'[r].st \in {"ended", "closed"}
    /\ runs[r].st \in {"ended", "closed"} => runs'[r].outcome = runs[r].outcome
    /\ runs'[r].st = "closed" /\ runs[r].st # "closed" =>
         /\ op.kind = "callback" /\ op.at = "commit" /\ op.run = r /\ ~op.failed
         /\ \A t \in Tickets : owner[t] = r /\ t \in runs[r].of => rail'[t] # r

(* Only a run that is admitted takes tickets, and only of an open project. *)
OwnersMove ==
  \A t \in Tickets :
    /\ \/ owner'[t] = owner[t]
       \/ /\ owner'[t] \in Runs /\ runs[owner'[t]].st \in {"none", "launching"}
          /\ op = NoOp /\ server = "up"
    /\ \/ rail'[t] \in {rail[t], None}
       \/ rail'[t] \in Runs /\ runs[rail'[t]].st \in {"none", "launching"}

(* Only the callback of the owner marks a ticket; who moves a ticket that  *)
(* a pending decision has selected is remembered.                          *)
Outcome(t) ==
  op.kind = "callback" /\ op.at = "tickets" /\ op.run \in Runs /\ owner[t] = op.run

TicketsMove ==
  \A t \in Tickets :
    /\ \/ tickets'[t].marker = tickets[t].marker
       \/ Outcome(t) /\ tickets'[t].marker = op.run
    /\ \A q \in Runs : InFlight(tickets', t, q) =>
         InFlight(tickets, t, q)
           \/ (t \in runs[q].of /\ runs[q].st \in {"checked", "running"})
    /\ tickets[t].status = "on_review" /\ tickets'[t].status # "on_review" =>
         \A d \in Isolated : delivery[d].st = "pending" /\ delivery[d].selected =>
           t \in hist'.moved[d] \cup hist'.edited[d]
    /\ tickets[t].status # "on_review" /\ tickets'[t].status = "on_review" =>
         \/ left'.edits # MaxEdits
         \/ Outcome(t) /\ tickets[t].marker # op.run

HistoryGrows ==
  /\ \A d \in Isolated : /\ hist.moved[d] \subseteq hist'.moved[d]
                         /\ hist.edited[d] \subseteq hist'.edited[d]
  /\ hist.unsettled \subseteq hist'.unsettled
  /\ \A t \in hist'.twice \ hist.twice :
       op.run \in Runs /\ t \in hist.applied[op.run]
         /\ owner[t] = op.run /\ tickets[t].marker # op.run
  /\ \A r \in Runs :
       \/ hist'.applied[r] = hist.applied[r]
       \/ /\ op.kind = "callback" /\ op.run = r
          /\ \A t \in hist'.applied[r] \ hist.applied[r] : tickets'[t].marker = r

LeftShrinks ==
  /\ left'.store = MaxStoreFails => left.store = MaxStoreFails
  /\ left'.edits = MaxEdits => left.edits = MaxEdits

Moves == RunsMove /\ OwnersMove /\ TicketsMove /\ HistoryGrows /\ LeftShrinks

LEMMA RunsStay == ASSUME UNCHANGED runs PROVE RunsMove
BY DEF RunsMove

LEMMA OwnersStay == ASSUME UNCHANGED <<owner, rail>> PROVE OwnersMove
BY DEF OwnersMove

LEMMA TicketsStay == ASSUME UNCHANGED tickets PROVE TicketsMove
BY DEF TicketsMove

LEMMA HistoryStays == ASSUME UNCHANGED hist PROVE HistoryGrows
BY DEF HistoryGrows

LEMMA LeftStays == ASSUME UNCHANGED left PROVE LeftShrinks
BY DEF LeftShrinks

(* The claim or the settlement of addenda, or none, changes no status.     *)
LEMMA AddendaMove ==
  ASSUME NEW r \in Runs, NEW of, of = runs[r].of,
         \A t \in Tickets :
           /\ tickets'[t].status = tickets[t].status
           /\ tickets'[t].marker = tickets[t].marker
           /\ \A q \in Runs : InFlight(tickets', t, q) =>
                InFlight(tickets, t, q)
                  \/ (q = r /\ t \in of /\ runs[r].st \in {"checked", "running"})
  PROVE  TicketsMove
BY DEF TicketsMove

(* A run that is not over goes on.                                         *)
LEMMA RunMoves ==
  ASSUME TypeOK, NEW r \in Runs, NEW new \in RunType, runs' = [runs EXCEPT ![r] = new],
         runs[r].st # "none" => new.of = runs[r].of,
         runs[r].st \notin {"closed", "refused"}, new.st # "closed",
         runs[r].st = "ended" => /\ new.st \in {"ended", "closed"}
                                 /\ new.outcome = runs[r].outcome
  PROVE  runs' \in [Runs -> RunType] /\ RunsMove
<1>1. runs \in [Runs -> RunType]  BY Types
<1> QED  BY <1>1 DEF RunType, RunsMove

LEMMA StateMoves ==
  ASSUME TypeOK, NEW r \in Runs, NEW st \in RunStates \ {"none", "closed"},
         runs' = [runs EXCEPT ![r].st = st],
         runs[r].st \notin {"ended", "closed", "refused"}
  PROVE  runs' \in [Runs -> RunType] /\ RunsMove
<1>1. runs \in [Runs -> RunType]  BY Types
<1> QED  BY <1>1 DEF RunType, RunsMove

(* The server is not recovering when a loop is launched.                   *)
NoneWaits ==
  server = "recovering" =>
    \A r \in Loops : runs[r].st \notin {"checked", "launching"}

LEMMA LaunchJobMoves ==
  ASSUME Typed, NEW r \in Runs, NEW ts \in SUBSET Tickets, LaunchJob(r, ts)
  PROVE  Typed' /\ Moves
<1>1. runs[r].st = "none" /\ op = NoOp /\ server = "up"
  BY DEF LaunchJob, Launchable, Admits
<1>2. /\ owner' \in [Tickets -> Runs \cup {None}]
      /\ rail' \in [Tickets -> Runs \cup {None}]
      /\ \A t \in Tickets : owner'[t] \in {owner[t], r} /\ rail'[t] \in {rail[t], r}
  BY OwnDoes DEF Typed, LaunchJob
<1>3. OwnersMove  BY <1>1, <1>2 DEF OwnersMove
<1> DEFINE new == [runs[r] EXCEPT !.st = "running", !.of = ts]
<1>4. runs[r] \in RunType /\ runs' = [runs EXCEPT ![r] = new]
  BY Types DEF Typed, LaunchJob
<1>5. new \in RunType /\ new.st = "running"  BY <1>4 DEF RunType, RunStates
<1>6. runs' \in [Runs -> RunType] /\ RunsMove
  <2> HIDE DEF new
  <2> QED  BY <1>1, <1>4, <1>5, RunMoves DEF Typed
<1>7. TypeOK'
  BY <1>2, <1>6, Types, RestTypes, TypesAre DEF Typed, RestType, LaunchJob
<1> QED
  BY <1>3, <1>6, <1>7, TicketsStay, HistoryStays, LeftStays
     DEF LaunchJob, Typed, LeftType, HistType, Moves

LEMMA ClaimJobAddendaMoves ==
  ASSUME Typed, NEW r \in Runs, ClaimJobAddenda(r)  PROVE Typed' /\ Moves
<1>1. /\ tickets' \in [Tickets -> TicketType]
      /\ \A t \in Tickets :
           /\ tickets'[t].status = tickets[t].status
           /\ tickets'[t].marker = tickets[t].marker
           /\ \A q \in Runs : InFlight(tickets', t, q) =>
                InFlight(tickets, t, q) \/ (q = r /\ t \in runs[r].of)
  BY ClaimDoes DEF Typed, ClaimJobAddenda
<1>2. runs[r].st = "running"  BY DEF ClaimJobAddenda
<1>3. TicketsMove  BY <1>1, <1>2, AddendaMove
<1>4. TypeOK'  BY <1>1, Types, RestTypes, TypesAre DEF Typed, RestType, ClaimJobAddenda
<1> QED
  BY <1>3, <1>4, RunsStay, OwnersStay, HistoryStays, LeftStays
     DEF ClaimJobAddenda, Typed, LeftType, HistType, Moves

LEMMA CheckLaunchMoves ==
  ASSUME Typed, NEW r \in Runs, NEW ts \in SUBSET Tickets, CheckLaunch(r, ts)
  PROVE  Typed' /\ Moves
<1>1. runs[r].st = "none"  BY DEF CheckLaunch, Launchable
<1> DEFINE new == [runs[r] EXCEPT !.st = "checked", !.of = ts]
<1>2. runs[r] \in RunType /\ runs' = [runs EXCEPT ![r] = new]
  BY Types DEF Typed, CheckLaunch
<1>3. new \in RunType /\ new.st = "checked"  BY <1>2 DEF RunType, RunStates
<1>4. runs' \in [Runs -> RunType] /\ RunsMove
  <2> HIDE DEF new
  <2> QED  BY <1>1, <1>2, <1>3, RunMoves DEF Typed
<1>5. TypeOK'  BY <1>4, Types, RestTypes, TypesAre DEF Typed, RestType, CheckLaunch
<1> QED
  BY <1>4, <1>5, OwnersStay, TicketsStay, HistoryStays, LeftStays
     DEF CheckLaunch, Typed, LeftType, HistType, Moves

LEMMA StartSharedMoves ==
  ASSUME Typed, NEW r \in Shared, StartShared(r)  PROVE Typed' /\ Moves
<1>1. runs[r].st = "checked"  BY DEF StartShared
<1>2. /\ tickets' \in [Tickets -> TicketType]
      /\ \A t \in Tickets :
           /\ tickets'[t].status = tickets[t].status
           /\ tickets'[t].marker = tickets[t].marker
           /\ \A q \in Runs : InFlight(tickets', t, q) =>
                InFlight(tickets, t, q) \/ (q = r /\ t \in runs[r].of)
  <2>1. CASE tickets' = tickets  BY <2>1, Types DEF Typed
  <2>2. CASE tickets' = ClaimSpecAddenda(r, runs[r].of)
    BY <2>2, ClaimDoes DEF Typed
  <2> QED  BY <2>1, <2>2 DEF StartShared
<1>3. TicketsMove  BY <1>1, <1>2, AddendaMove
<1>4. LeftType' /\ LeftShrinks
  BY SpendDoes, LeftStays DEF StartShared, Typed, LeftType, LeftShrinks
<1>5. runs' \in [Runs -> RunType] /\ RunsMove
  BY <1>1, StateMoves DEF Typed, StartShared, RunStates
<1>6. TypeOK'
  BY <1>2, <1>5, Types, RestTypes, TypesAre DEF Typed, RestType, StartShared
<1> QED
  BY <1>3, <1>4, <1>5, <1>6, OwnersStay, HistoryStays
     DEF StartShared, Typed, HistType, Moves

(* The delivery of d and the one that it supersedes, or that a refusal     *)
(* restores, change.                                                       *)
LEMMA DeliveriesTyped ==
  ASSUME TypeOK, NEW st \in DeliveryStates,
         delivery' = [e \in Isolated |-> delivery'[e]],
         \A e \in Isolated : \/ delivery'[e] \in DeliveryType
                             \/ delivery'[e] = delivery[e]
                             \/ delivery'[e] = [delivery[e] EXCEPT !.st = st]
  PROVE  delivery' \in [Isolated -> DeliveryType]
<1>1. delivery \in [Isolated -> DeliveryType]  BY Types
<1>2. \A e \in Isolated : [delivery[e] EXCEPT !.st = st] \in DeliveryType
  BY <1>1 DEF DeliveryType
<1> QED  BY <1>1, <1>2

LEMMA StartIsolatedMoves ==
  ASSUME Typed, NEW r \in Isolated, NEW pred \in Isolated \cup {None},
         StartIsolated(r, pred)
  PROVE  Typed' /\ Moves
<1> DEFINE snapshot == {t \in runs[r].of : Claimable(r, t)}
           new == [delivery[r] EXCEPT !.st = "building", !.pred = pred,
                        !.of = runs[r].of, !.snapshot = snapshot]
<1>1. runs[r].st = "checked" /\ runs[r] \in RunType /\ delivery[r] \in DeliveryType
  BY Types DEF StartIsolated, Typed
<1>2. /\ tickets' \in [Tickets -> TicketType]
      /\ \A t \in Tickets :
           /\ tickets'[t].status = tickets[t].status
           /\ tickets'[t].marker = tickets[t].marker
           /\ \A q \in Runs : InFlight(tickets', t, q) =>
                InFlight(tickets, t, q) \/ (q = r /\ t \in runs[r].of)
  <2>1. tickets' = ClaimSpecAddenda(r, runs[r].of)  BY DEF StartIsolated
  <2> QED  BY <2>1, ClaimDoes DEF Typed
<1>3. TicketsMove  BY <1>1, <1>2, AddendaMove
<1>4. new \in DeliveryType /\ "superseded" \in DeliveryStates
  <2>1. runs[r].of \in SUBSET Tickets  BY <1>1 DEF RunType
  <2>2. snapshot \in SUBSET Tickets  BY <2>1
  <2> HIDE DEF snapshot
  <2> QED  BY <1>1, <2>1, <2>2 DEF DeliveryType, DeliveryStates
<1>5. delivery' = [e \in Isolated |-> IF e = r THEN new
                     ELSE IF e = pred THEN [delivery[e] EXCEPT !.st = "superseded"]
                     ELSE delivery[e]]
  BY DEF StartIsolated
<1>6. delivery' \in [Isolated -> DeliveryType]
  <2> HIDE DEF new
  <2>1. delivery' = [e \in Isolated |-> delivery'[e]]  BY <1>5
  <2>2. ASSUME NEW e \in Isolated
        PROVE  \/ delivery'[e] \in DeliveryType
               \/ delivery'[e] = delivery[e]
               \/ delivery'[e] = [delivery[e] EXCEPT !.st = "superseded"]
    BY <1>4, <1>5
  <2> QED  BY <1>4, <1>5, <2>1, <2>2, DeliveriesTyped DEF Typed
<1>7. runs' \in [Runs -> RunType] /\ RunsMove
  BY <1>1, StateMoves DEF Typed, StartIsolated, RunStates
<1>8. TypeOK'
  BY <1>2, <1>6, <1>7, RestTypes, TypesAre DEF Typed, RestType, StartIsolated
<1> QED
  BY <1>3, <1>7, <1>8, OwnersStay, HistoryStays, LeftStays
     DEF StartIsolated, Typed, LeftType, HistType, Moves

LEMMA AdmitLoopMoves ==
  ASSUME Typed, NoneWaits, NEW r \in Runs, AdmitLoop(r)  PROVE Typed' /\ Moves
<1>1. runs[r].st = "launching" /\ op = NoOp /\ server = "up"
  BY DEF AdmitLoop, Free, NoneWaits, Typed, TypeOK
<1>2. /\ owner' \in [Tickets -> Runs \cup {None}]
      /\ rail' \in [Tickets -> Runs \cup {None}]
      /\ \A t \in Tickets : owner'[t] \in {owner[t], r} /\ rail'[t] \in {rail[t], r}
  BY OwnDoes DEF Typed, AdmitLoop
<1>3. OwnersMove  BY <1>1, <1>2 DEF OwnersMove
<1>4. runs' \in [Runs -> RunType] /\ RunsMove
  BY <1>1, StateMoves DEF Typed, AdmitLoop, RunStates
<1>5. TypeOK'
  BY <1>2, <1>4, Types, RestTypes, TypesAre DEF Typed, RestType, AdmitLoop
<1> QED
  BY <1>3, <1>4, <1>5, TicketsStay, HistoryStays, LeftStays
     DEF AdmitLoop, Typed, LeftType, HistType, Moves

LEMMA RefuseSharedMoves ==
  ASSUME Typed, NEW r \in Shared, RefuseShared(r)  PROVE Typed' /\ Moves
<1>1. runs[r].st = "launching"  BY DEF RefuseShared
<1>2. runs' \in [Runs -> RunType] /\ RunsMove
  BY <1>1, StateMoves DEF Typed, RefuseShared, RunStates
<1>3. TypeOK'  BY <1>2, Types, RestTypes, TypesAre DEF Typed, RestType, RefuseShared
<1> QED
  BY <1>2, <1>3, OwnersStay, TicketsStay, HistoryStays, LeftStays
     DEF RefuseShared, Typed, LeftType, HistType, Moves

LEMMA RefuseIsolatedMoves ==
  ASSUME Typed, NEW r \in Runs, RefuseIsolated(r)  PROVE Typed' /\ Moves
<1> DEFINE new == [delivery[r] EXCEPT !.st = "abandoned"]
<1>1. runs[r].st = "launching" /\ r \in Isolated  BY DEF RefuseIsolated
<1>2. tickets \in [Tickets -> TicketType] /\ delivery[r] \in DeliveryType
  BY <1>1, Types DEF Typed
<1>3. /\ tickets' \in [Tickets -> TicketType]
      /\ \A t \in Tickets :
           /\ tickets'[t].status = tickets[t].status
           /\ tickets'[t].marker = tickets[t].marker
           /\ \A q \in Runs : InFlight(tickets', t, q) => InFlight(tickets, t, q)
  BY <1>2, SettleDoes DEF RefuseIsolated
<1>4. TicketsMove  BY <1>3, AddendaMove
<1>5. new \in DeliveryType /\ "open" \in DeliveryStates
  BY <1>2 DEF DeliveryType, DeliveryStates
<1>6. delivery' = [e \in Isolated |-> IF e = r THEN new
                     ELSE IF e = delivery[r].pred THEN [delivery[e] EXCEPT !.st = "open"]
                     ELSE delivery[e]]
  BY DEF RefuseIsolated
<1>7. delivery' \in [Isolated -> DeliveryType]
  <2> HIDE DEF new
  <2>1. delivery' = [e \in Isolated |-> delivery'[e]]  BY <1>6
  <2>2. ASSUME NEW e \in Isolated
        PROVE  \/ delivery'[e] \in DeliveryType
               \/ delivery'[e] = delivery[e]
               \/ delivery'[e] = [delivery[e] EXCEPT !.st = "open"]
    BY <1>5, <1>6
  <2> QED  BY <1>5, <1>6, <2>1, <2>2, DeliveriesTyped DEF Typed
<1>8. runs' \in [Runs -> RunType] /\ RunsMove
  BY <1>1, StateMoves DEF Typed, RefuseIsolated, RunStates
<1>9. TypeOK'
  BY <1>3, <1>7, <1>8, RestTypes, TypesAre DEF Typed, RestType, RefuseIsolated
<1> QED
  BY <1>4, <1>8, <1>9, OwnersStay, HistoryStays, LeftStays
     DEF RefuseIsolated, Typed, LeftType, HistType, Moves

-----------------------------------------------------------------------------
(* Changes of tickets.                                                     *)
LEMMA EditTicketMoves ==
  ASSUME Typed, NEW t \in Tickets, NEW status \in Statuses, EditTicket(t, status)
  PROVE  Typed' /\ Moves
<1>1. tickets \in [Tickets -> TicketType]  BY Types DEF Typed
<1>2. /\ tickets' = [tickets EXCEPT ![t].status = status]
      /\ hist' = Edited({t}) /\ Spend("edits")
  BY DEF EditTicket
<1>3. tickets' \in [Tickets -> TicketType]  BY <1>1, <1>2 DEF TicketType
<1>4. LeftType' /\ LeftShrinks /\ left'.edits # MaxEdits
  BY <1>2, SpendDoes DEF Typed, LeftShrinks
<1>5. /\ HistType' /\ HistoryGrows
      /\ \A d \in Isolated : delivery[d].st = "pending" /\ delivery[d].selected =>
           t \in hist'.edited[d]
  BY <1>2, EditedDoes DEF Typed, HistType, HistoryGrows
<1>6. \A u \in Tickets :
        /\ tickets'[u].marker = tickets[u].marker
        /\ u # t => tickets'[u].status = tickets[u].status
        /\ \A q \in Runs : InFlight(tickets', u, q) => InFlight(tickets, u, q)
  BY <1>1, <1>2 DEF TicketType, InFlight
<1>7. TicketsMove  BY <1>4, <1>5, <1>6 DEF TicketsMove
<1>8. TypeOK'  BY <1>3, Types, RestTypes, TypesAre DEF Typed, RestType, EditTicket
<1> QED
  BY <1>4, <1>5, <1>7, <1>8, RunsStay, OwnersStay DEF EditTicket, Typed, Moves

LEMMA ReopenAddendumMoves ==
  ASSUME Typed, NEW t \in Tickets, ReopenAddendum(t)  PROVE Typed' /\ Moves
<1>1. tickets \in [Tickets -> TicketType]  BY Types DEF Typed
<1>2. /\ tickets' = [tickets EXCEPT ![t].addendum = "open", ![t].by = None]
      /\ Spend("edits")
  BY DEF ReopenAddendum
<1>3. tickets' \in [Tickets -> TicketType]  BY <1>1, <1>2, ZenonT(60) DEF TicketType
<1>4. LeftType' /\ LeftShrinks
  BY <1>2, SpendDoes DEF Typed, LeftShrinks
<1>5. \A u \in Tickets :
        /\ tickets'[u].marker = tickets[u].marker
        /\ tickets'[u].status = tickets[u].status
        /\ \A q \in Runs : InFlight(tickets', u, q) => InFlight(tickets, u, q)
  BY <1>1, <1>2 DEF TicketType, InFlight
<1>6. TicketsMove  BY <1>5 DEF TicketsMove
<1>7. TypeOK'  BY <1>3, Types, RestTypes, TypesAre DEF Typed, RestType, ReopenAddendum
<1> QED
  BY <1>4, <1>6, <1>7, RunsStay, OwnersStay, HistoryStays
     DEF ReopenAddendum, Typed, HistType, Moves

LEMMA AgentStartsMoves ==
  ASSUME Typed, NEW r \in Runs, NEW t \in Tickets, AgentStarts(r, t)
  PROVE  Typed' /\ Moves
<1>1. tickets \in [Tickets -> TicketType]  BY Types DEF Typed
<1>2. /\ tickets' = [tickets EXCEPT ![t].status = "in_progress"]
      /\ tickets[t].status = "todo"
  BY DEF AgentStarts
<1>3. tickets' \in [Tickets -> TicketType]  BY <1>1, <1>2 DEF TicketType, Statuses
<1>4. \A u \in Tickets :
        /\ tickets'[u].marker = tickets[u].marker
        /\ u # t => tickets'[u].status = tickets[u].status
        /\ \A q \in Runs : InFlight(tickets', u, q) => InFlight(tickets, u, q)
  BY <1>1, <1>2 DEF TicketType, InFlight
<1>5. tickets'[t].status = "in_progress"  BY <1>1, <1>2 DEF TicketType
<1>6. TicketsMove  BY <1>2, <1>4, <1>5 DEF TicketsMove
<1>7. TypeOK'  BY <1>3, Types, RestTypes, TypesAre DEF Typed, RestType, AgentStarts
<1> QED
  BY <1>6, <1>7, RunsStay, OwnersStay, HistoryStays, LeftStays
     DEF AgentStarts, Typed, LeftType, HistType, Moves

-----------------------------------------------------------------------------
(* Callbacks.                                                              *)
LEMMA EndRunMoves ==
  ASSUME Typed, NEW r \in Runs, NEW outcome \in {"completed", "failed"},
         EndRun(r, outcome)
  PROVE  Typed' /\ Moves
<1> DEFINE new == [runs[r] EXCEPT !.st = "ended", !.outcome = outcome]
<1>1. runs[r].st = "running"  BY DEF EndRun
<1>2. runs[r] \in RunType /\ runs' = [runs EXCEPT ![r] = new]
  BY Types DEF Typed, EndRun
<1>3. new \in RunType /\ new.of = runs[r].of /\ new.st = "ended"  BY <1>2 DEF RunType, RunStates
<1>4. runs' \in [Runs -> RunType] /\ RunsMove
  <2> HIDE DEF new
  <2> QED  BY <1>1, <1>2, <1>3, RunMoves DEF Typed
<1>5. TypeOK'
  BY <1>4, Types, RestTypes, TypesAre DEF Typed, RestType, EndRun, CallBack
<1> QED
  BY <1>4, <1>5, OwnersStay, TicketsStay, HistoryStays, LeftStays
     DEF EndRun, Typed, LeftType, HistType, Moves

LEMMA ReplayCallbackMoves ==
  ASSUME Typed, NEW r \in Runs, ReplayCallback(r)  PROVE Typed' /\ Moves
<1>1. TypeOK'
  BY Types, RestTypes, TypesAre DEF Typed, RestType, ReplayCallback, CallBack
<1> QED
  BY <1>1, RunsStay, OwnersStay, TicketsStay, HistoryStays, LeftStays
     DEF ReplayCallback, Typed, LeftType, HistType, Moves

LEMMA ApplyOutcomeMoves ==
  ASSUME Typed, op.run \in Runs, ApplyOutcome  PROVE Typed' /\ Moves
<1> DEFINE r == op.run
           now == {t \in Tickets : tickets'[t] # tickets[t]}
           ts == {t \in now : tickets'[t].status # tickets[t].status}
           h == Edited(ts)
<1>1. tickets \in [Tickets -> TicketType]  BY Types DEF Typed
<1>2. /\ op.kind = "callback" /\ op.at = "tickets"
      /\ tickets' = [t \in Tickets |-> IF t \in Owned(r)
                       THEN OutcomeOn(tickets[t], r) ELSE tickets[t]]
      /\ hist' = [h EXCEPT !.applied[r] = @ \cup now,
                           !.twice = @ \cup (now \cap hist.applied[r])]
  BY DEF ApplyOutcome
<1>3. ASSUME NEW t \in Tickets
      PROVE  \/ tickets'[t] = tickets[t] /\ tickets[t] \in TicketType
             \/ /\ owner[t] = r /\ tickets[t].marker # r
                /\ tickets'[t] \in TicketType /\ tickets'[t].marker = r
                /\ tickets'[t].addendum = tickets[t].addendum
                /\ tickets'[t].by = tickets[t].by
  <2>1. tickets[t] \in TicketType  BY <1>1
  <2>2. CASE t \in Owned(r)
    <3>1. tickets'[t] = OutcomeOn(tickets[t], r)  BY <1>2, <2>2
    <3> QED  BY <2>1, <2>2, <3>1, OutcomeDoes DEF Owned
  <2>3. CASE t \notin Owned(r)
    <3>1. tickets'[t] = tickets[t]  BY <1>2, <2>3
    <3> QED  BY <2>1, <3>1
  <2> QED  BY <2>2, <2>3
<1>4. tickets' \in [Tickets -> TicketType]  BY <1>2, <1>3
<1>5. \A t \in now : /\ tickets'[t].marker = r
                     /\ owner[t] = r /\ tickets[t].marker # r
  BY <1>3
<1>6. /\ HistType' /\ HistoryGrows
      /\ \A d \in Isolated : delivery[d].st = "pending" /\ delivery[d].selected =>
           ts \subseteq hist'.edited[d]
  <2>1. ts \in SUBSET Tickets /\ now \in SUBSET Tickets  OBVIOUS
  <2> HIDE DEF ts, now
  <2>2. /\ h \in [applied : [Runs -> SUBSET Tickets], twice : SUBSET Tickets,
                  moved : [Isolated -> SUBSET Tickets],
                  edited : [Isolated -> SUBSET Tickets],
                  unsettled : SUBSET Runs]
        /\ h.applied = hist.applied /\ h.twice = hist.twice
        /\ h.moved = hist.moved /\ h.unsettled = hist.unsettled
        /\ \A d \in Isolated :
             /\ hist.edited[d] \subseteq h.edited[d]
             /\ delivery[d].st = "pending" /\ delivery[d].selected =>
                  ts \subseteq h.edited[d]
    BY <2>1, EditedDoes DEF Typed
  <2> HIDE DEF h
  <2>3. HistType'  BY <1>2, <2>1, <2>2 DEF HistType
  <2>4. /\ hist'.moved = h.moved /\ hist'.edited = h.edited
        /\ hist'.unsettled = h.unsettled
        /\ hist'.twice = hist.twice \cup (now \cap hist.applied[r])
        /\ \A q \in Runs : \/ hist'.applied[q] = hist.applied[q]
                           \/ q = r /\ hist'.applied[q] = hist.applied[q] \cup now
    BY <1>2, <2>1, <2>2
  <2>5. HistoryGrows  BY <1>2, <1>5, <2>2, <2>4 DEF HistoryGrows
  <2> QED  BY <2>2, <2>3, <2>4, <2>5
<1>7. TicketsMove
  <2>1. ASSUME NEW t \in Tickets
        PROVE  /\ \/ tickets'[t].marker = tickets[t].marker
                  \/ Outcome(t) /\ tickets'[t].marker = op.run
               /\ \A q \in Runs : InFlight(tickets', t, q) => InFlight(tickets, t, q)
               /\ tickets'[t].status # tickets[t].status =>
                    Outcome(t) /\ tickets[t].marker # op.run
    BY <1>2, <1>3 DEF Outcome, InFlight
  <2>2. \A t \in Tickets : tickets'[t].status # tickets[t].status => t \in ts
    OBVIOUS
  <2> HIDE DEF ts
  <2> QED  BY <1>6, <2>1, <2>2 DEF TicketsMove
<1>8. TypeOK'
  BY <1>4, Types, RestTypes, TypesAre DEF Typed, RestType, ApplyOutcome
<1> QED
  BY <1>6, <1>7, <1>8, RunsStay, OwnersStay, LeftStays
     DEF ApplyOutcome, Typed, LeftType, Moves

LEMMA ApplyOutcomeFailsMoves ==
  ASSUME Typed, ApplyOutcomeFails  PROVE Typed' /\ Moves
<1>1. LeftType' /\ LeftShrinks
  BY SpendDoes DEF ApplyOutcomeFails, Typed, LeftShrinks
<1>2. TypeOK'
  BY Types, RestTypes, TypesAre DEF Typed, RestType, ApplyOutcomeFails, NoOp
<1> QED
  BY <1>1, <1>2, RunsStay, OwnersStay, TicketsStay, HistoryStays
     DEF ApplyOutcomeFails, Typed, HistType, Moves

LEMMA SettleAddendaMoves ==
  ASSUME Typed, op.run \in Runs, SettleAddenda
  PROVE  /\ Typed' /\ Moves
         /\ \A t \in runs[op.run].of \cap Tickets : ~InFlight(tickets', t, op.run)
<1>1. tickets \in [Tickets -> TicketType]  BY Types DEF Typed
<1>2. /\ tickets' \in [Tickets -> TicketType]
      /\ \A t \in Tickets :
           /\ tickets'[t].status = tickets[t].status
           /\ tickets'[t].marker = tickets[t].marker
           /\ \A q \in Runs : InFlight(tickets', t, q) => InFlight(tickets, t, q)
           /\ InFlight(tickets', t, op.run) => t \notin runs[op.run].of
  BY <1>1, SettleDoes DEF SettleAddenda
<1>3. TicketsMove  BY <1>2 DEF TicketsMove
<1>4. TypeOK'
  BY <1>2, Types, RestTypes, TypesAre DEF Typed, RestType, SettleAddenda
<1> QED
  BY <1>2, <1>3, <1>4, RunsStay, OwnersStay, HistoryStays, LeftStays
     DEF SettleAddenda, Typed, LeftType, HistType, Moves

LEMMA SettleAddendaFailsMoves ==
  ASSUME Typed, op.run \in Runs, SettleAddendaFails
  PROVE  Typed' /\ Moves /\ op.run \in hist'.unsettled
<1>1. LeftType' /\ LeftShrinks
  BY SpendDoes DEF SettleAddendaFails, Typed, LeftShrinks
<1>2. HistType' /\ HistoryGrows /\ op.run \in hist'.unsettled
  BY DEF SettleAddendaFails, Typed, HistType, HistoryGrows
<1>3. TypeOK'
  BY Types, RestTypes, TypesAre DEF Typed, RestType, SettleAddendaFails
<1> QED
  BY <1>1, <1>2, <1>3, RunsStay, OwnersStay, TicketsStay
     DEF SettleAddendaFails, Typed, Moves

LEMMA CommitCallbackMoves ==
  ASSUME Typed, op.run \in Runs, runs[op.run].st = "ended",
         NEW handed \in BOOLEAN, CommitCallback(handed)
  PROVE  Typed' /\ Moves
<1> DEFINE r == op.run
           new == [runs[r] EXCEPT !.st = "closed"]
<1>1. runs[r] \in RunType /\ runs' = [runs EXCEPT ![r] = new]
  BY Types DEF Typed, CommitCallback
<1>2. new \in RunType /\ new.of = runs[r].of /\ new.outcome = runs[r].outcome
      /\ new.st = "closed"
  BY <1>1 DEF RunType, RunStates
<1>3. runs' \in [Runs -> RunType] /\ RunsMove
  <2>1. runs \in [Runs -> RunType]  BY Types DEF Typed
  <2>2. op.kind = "callback" /\ op.at = "commit" /\ ~op.failed  BY DEF CommitCallback
  <2>3. \A t \in Tickets : owner[t] = r /\ t \in runs[r].of => rail'[t] # r
    BY NoneIsNoRun DEF CommitCallback, Owned
  <2> HIDE DEF new
  <2> QED  BY <1>1, <1>2, <2>1, <2>2, <2>3 DEF RunsMove
<1>4. LeftType' /\ LeftShrinks
  BY SpendDoes, LeftStays DEF CommitCallback, Typed, LeftType, LeftShrinks
<1>5. /\ rail' \in [Tickets -> Runs \cup {None}]
      /\ \A t \in Tickets : rail'[t] \in {rail[t], None}
  BY DEF Typed, TypeOK, CommitCallback
<1>6. OwnersMove  BY <1>5 DEF OwnersMove, CommitCallback
<1>7. outbox' \subseteq Runs \X Tickets \X {"review", "outcome", "todo", "done"}
  <2>1. Owned(r) \subseteq Tickets  BY <1>1 DEF RunType, Owned
  <2>2. PICK told \in SUBSET Tickets, action \in {"review", "outcome"} :
          outbox' \subseteq outbox \cup {<<r, t, action>> : t \in told}
    <3>1. CASE runs[r].outcome = "completed"
      BY <2>1, <3>1 DEF CommitCallback
    <3>2. CASE runs[r].outcome # "completed"
      BY <2>1, <3>2 DEF CommitCallback
    <3> QED  BY <3>1, <3>2
  <2>3. outbox \subseteq Runs \X Tickets \X {"review", "outcome", "todo", "done"}
    BY DEF Typed, TypeOK
  <2> QED  BY <2>2, <2>3
<1>8. TypeOK'
  BY <1>3, <1>5, <1>7, Types, RestTypes, TypesAre DEF Typed, RestType, CommitCallback, NoOp
<1> QED
  BY <1>3, <1>4, <1>6, <1>8, TicketsStay, HistoryStays
     DEF CommitCallback, Typed, HistType, Moves

LEMMA RollBackCallbackMoves ==
  ASSUME Typed, RollBackCallback  PROVE Typed' /\ Moves
<1>1. LeftType' /\ LeftShrinks
  BY SpendDoes, LeftStays DEF RollBackCallback, Typed, LeftType, LeftShrinks
<1>2. TypeOK'
  BY Types, RestTypes, TypesAre DEF Typed, RestType, RollBackCallback, NoOp
<1> QED
  BY <1>1, <1>2, RunsStay, OwnersStay, TicketsStay, HistoryStays
     DEF RollBackCallback, Typed, HistType, Moves

-----------------------------------------------------------------------------
(* Deliveries and their effects.                                           *)
LEMMA OneDeliveryTyped ==
  ASSUME TypeOK, NEW d \in Isolated, NEW new \in DeliveryType,
         delivery' = [delivery EXCEPT ![d] = new]
  PROVE  delivery' \in [Isolated -> DeliveryType]
BY Types

LEMMA OpenDeliveryMoves ==
  ASSUME Typed, NEW d \in Isolated, OpenDelivery(d)  PROVE Typed' /\ Moves
<1>1. delivery' \in [Isolated -> DeliveryType]
  BY Types DEF Typed, OpenDelivery, DeliveryType, DeliveryStates
<1>2. TypeOK'
  BY <1>1, Types, RestTypes, TypesAre DEF Typed, RestType, OpenDelivery
<1> QED
  BY <1>2, RunsStay, OwnersStay, TicketsStay, HistoryStays, LeftStays
     DEF OpenDelivery, Typed, LeftType, HistType, Moves

LEMMA DecideMoves ==
  ASSUME Typed, NEW d \in Isolated, NEW target \in {"todo", "done"}, Decide(d, target)
  PROVE  Typed' /\ Moves
<1> DEFINE new == [delivery[d] EXCEPT !.st = "pending", !.target = target, !.owners = owner]
<1>1. new \in DeliveryType
  <2>1. delivery[d] \in DeliveryType  BY Types DEF Typed
  <2>2. owner \in [Tickets -> Runs \cup {None}]  BY DEF Typed, TypeOK
  <2> QED  BY <2>1, <2>2 DEF DeliveryType, DeliveryStates
<1>2. delivery' = [delivery EXCEPT ![d] = new]  BY DEF Decide
<1>3. delivery' \in [Isolated -> DeliveryType]
  <2> HIDE DEF new
  <2> QED  BY <1>1, <1>2, OneDeliveryTyped DEF Typed
<1>4. TypeOK'
  BY <1>3, Types, RestTypes, TypesAre DEF Typed, RestType, Decide, Effect
<1> QED
  BY <1>4, RunsStay, OwnersStay, TicketsStay, HistoryStays, LeftStays
     DEF Decide, Typed, LeftType, HistType, Moves

LEMMA ReplayEffectMoves ==
  ASSUME Typed, NEW d \in Isolated, ReplayEffect(d)  PROVE Typed' /\ Moves
<1>1. TypeOK'
  BY Types, RestTypes, TypesAre DEF Typed, RestType, ReplayEffect, Effect
<1> QED
  BY <1>1, RunsStay, OwnersStay, TicketsStay, HistoryStays, LeftStays
     DEF ReplayEffect, Typed, LeftType, HistType, Moves

LEMMA SelectMoves ==
  ASSUME Typed, op.run \in Isolated, Select  PROVE Typed' /\ Moves
<1> DEFINE d == op.run
           chosen == Selectable(d)
           new == [delivery[d] EXCEPT !.selected = TRUE, !.applied = chosen]
<1>1. delivery[d] \in DeliveryType  BY Types DEF Typed
<1>2. chosen \in SUBSET Tickets  BY <1>1 DEF DeliveryType, Selectable
<1>3. new \in DeliveryType
  <2> HIDE DEF chosen
  <2> QED  BY <1>1, <1>2 DEF DeliveryType
<1>4. delivery' \in [Isolated -> DeliveryType]
  <2>1. CASE delivery' = delivery  BY <2>1, Types DEF Typed
  <2>2. CASE delivery' = [delivery EXCEPT ![d] = new]
    <3> HIDE DEF new
    <3> QED  BY <1>3, <2>2, OneDeliveryTyped DEF Typed
  <2> QED  BY <2>1, <2>2 DEF Select
<1>5. TypeOK'
  BY <1>4, Types, RestTypes, TypesAre DEF Typed, RestType, Select
<1> QED
  BY <1>5, RunsStay, OwnersStay, TicketsStay, HistoryStays, LeftStays
     DEF Select, Typed, LeftType, HistType, Moves

(* The write moves the selected tickets that are still on review, and      *)
(* remembers each of them.                                                 *)
LEMMA WriteTicketsMoves ==
  ASSUME Typed, op.run \in Isolated, delivery[op.run].target \in {"todo", "done"},
         WriteTickets
  PROVE  /\ Typed' /\ Moves
         /\ \A t \in delivery[op.run].applied :
              tickets[t].status = "on_review" => /\ t \in hist'.moved[op.run]
                                                 /\ tickets'[t].status # "on_review"
         /\ \A t \in Tickets : \A d \in Isolated :
              t \in hist'.moved[d] \ hist.moved[d] =>
                d = op.run /\ t \in delivery[d].applied
<1> DEFINE d == op.run
           target == delivery[d].target
           moves == {t \in delivery[d].applied : tickets[t].status = "on_review"}
           moved == [t \in Tickets |-> IF t \in moves
                       THEN [tickets[t] EXCEPT !.status = target] ELSE tickets[t]]
           h == Edited(moves)
<1>1. delivery[d] \in DeliveryType /\ tickets \in [Tickets -> TicketType]
  BY Types DEF Typed
<1>2. /\ op.kind = "effect"
      /\ tickets' = IF target = "todo" THEN ReopenSpecAddenda(moved, d) ELSE moved
      /\ hist' = [h EXCEPT !.moved[d] = @ \cup moves, !.edited[d] = hist.edited[d]]
  BY DEF WriteTickets
<1>3. moves \in SUBSET Tickets /\ moves \subseteq delivery[d].applied
  BY <1>1 DEF DeliveryType
<1>4. \A t \in delivery[d].applied : tickets[t].status = "on_review" => t \in moves
  OBVIOUS
<1>5. /\ moved \in [Tickets -> TicketType]
      /\ \A t \in Tickets :
           /\ moved[t].marker = tickets[t].marker
           /\ \A q \in Runs : InFlight(moved, t, q) => InFlight(tickets, t, q)
           /\ t \in moves => moved[t].status = target
           /\ t \notin moves => moved[t].status = tickets[t].status
  <2> HIDE DEF moves
  <2> QED  BY <1>1, <1>3 DEF TicketType, Statuses, InFlight
<1>6. /\ tickets' \in [Tickets -> TicketType]
      /\ \A t \in Tickets :
           /\ tickets'[t].marker = tickets[t].marker
           /\ \A q \in Runs : InFlight(tickets', t, q) => InFlight(tickets, t, q)
           /\ t \in moves => tickets'[t].status = target
           /\ t \notin moves => tickets'[t].status = tickets[t].status
  <2> HIDE DEF moves, moved
  <2>1. CASE tickets' = moved  BY <1>5, <2>1
  <2>2. CASE tickets' = ReopenSpecAddenda(moved, d)
    BY <1>5, <2>2, ReopenDoes
  <2> QED  BY <1>2, <2>1, <2>2
<1>7. /\ h \in [applied : [Runs -> SUBSET Tickets], twice : SUBSET Tickets,
                moved : [Isolated -> SUBSET Tickets],
                edited : [Isolated -> SUBSET Tickets],
                unsettled : SUBSET Runs]
      /\ h.applied = hist.applied /\ h.twice = hist.twice
      /\ h.moved = hist.moved /\ h.unsettled = hist.unsettled
      /\ \A e \in Isolated :
           /\ hist.edited[e] \subseteq h.edited[e]
           /\ delivery[e].st = "pending" /\ delivery[e].selected =>
                moves \subseteq h.edited[e]
  <2> HIDE DEF moves
  <2> QED  BY <1>3, EditedDoes DEF Typed
<1>8. /\ HistType' /\ hist'.applied = h.applied /\ hist'.unsettled = h.unsettled
      /\ hist'.twice = h.twice
      /\ \A e \in Isolated :
           /\ e # d => hist'.moved[e] = hist.moved[e] /\ hist'.edited[e] = h.edited[e]
           /\ e = d => /\ hist'.moved[e] = hist.moved[e] \cup moves
                       /\ hist'.edited[e] = hist.edited[e]
  <2> HIDE DEF moves, h
  <2> QED  BY <1>2, <1>3, <1>7 DEF HistType, Typed
<1>9. HistoryGrows
  <2> HIDE DEF moves, h
  <2> QED  BY <1>7, <1>8 DEF HistoryGrows
<1>10. TicketsMove
  <2> HIDE DEF moves, h
  <2> QED  BY <1>1, <1>6, <1>7, <1>8 DEF TicketsMove, DeliveryType
<1>11. TypeOK'
  BY <1>6, Types, RestTypes, TypesAre DEF Typed, RestType, WriteTickets
<1>12. Typed' /\ Moves
  BY <1>8, <1>9, <1>10, <1>11, RunsStay, OwnersStay, LeftStays
     DEF WriteTickets, Typed, LeftType, Moves
<1>13. d \in Isolated /\ delivery[d].applied \subseteq Tickets
  BY <1>1 DEF DeliveryType
<1> HIDE DEF moves, h, moved
<1> QED  BY <1>3, <1>4, <1>6, <1>8, <1>12, <1>13

LEMMA MarkWrittenMoves ==
  ASSUME Typed, op.run \in Isolated, MarkWritten  PROVE Typed' /\ Moves
<1> DEFINE new == [delivery[op.run] EXCEPT !.written = TRUE]
<1>1. delivery' \in [Isolated -> DeliveryType]
  <2>1. delivery[op.run] \in DeliveryType  BY Types DEF Typed
  <2>2. new \in DeliveryType  BY <2>1 DEF DeliveryType
  <2>3. delivery' = [delivery EXCEPT ![op.run] = new]  BY DEF MarkWritten
  <2> HIDE DEF new
  <2> QED  BY <2>2, <2>3, OneDeliveryTyped DEF Typed
<1>2. TypeOK'
  BY <1>1, Types, RestTypes, TypesAre DEF Typed, RestType, MarkWritten
<1> QED
  BY <1>2, RunsStay, OwnersStay, TicketsStay, HistoryStays, LeftStays
     DEF MarkWritten, Typed, LeftType, HistType, Moves

LEMMA HandToJiraMoves ==
  ASSUME Typed, op.run \in Isolated, delivery[op.run].target \in {"todo", "done"},
         HandToJira
  PROVE  Typed' /\ Moves
<1>1. delivery[op.run].applied \subseteq Tickets
  BY Types DEF Typed, DeliveryType
<1>2. outbox' \subseteq Runs \X Tickets \X {"review", "outcome", "todo", "done"}
  <2> DEFINE told == {<<op.run, t, delivery[op.run].target>> : t \in delivery[op.run].applied}
  <2>1. outbox' = outbox \cup told  BY DEF HandToJira
  <2>2. told \subseteq Runs \X Tickets \X {"review", "outcome", "todo", "done"}
    BY <1>1
  <2>3. outbox \subseteq Runs \X Tickets \X {"review", "outcome", "todo", "done"}
    BY DEF Typed, TypeOK
  <2> HIDE DEF told
  <2> QED  BY <2>1, <2>2, <2>3
<1>3. TypeOK'
  BY <1>2, Types, RestTypes, TypesAre DEF Typed, RestType, HandToJira
<1> QED
  BY <1>3, RunsStay, OwnersStay, TicketsStay, HistoryStays, LeftStays
     DEF HandToJira, Typed, LeftType, HistType, Moves

LEMMA CompleteEffectMoves ==
  ASSUME Typed, op.run \in Isolated, CompleteEffect  PROVE Typed' /\ Moves
<1>1. delivery' \in [Isolated -> DeliveryType]
  BY Types DEF Typed, CompleteEffect, DeliveryType, DeliveryStates
<1>2. TypeOK'
  BY <1>1, Types, RestTypes, TypesAre DEF Typed, RestType, CompleteEffect, NoOp
<1> QED
  BY <1>2, RunsStay, OwnersStay, TicketsStay, HistoryStays, LeftStays
     DEF CompleteEffect, Typed, LeftType, HistType, Moves

LEMMA EffectFailsMoves ==
  ASSUME Typed, EffectFails  PROVE Typed' /\ Moves
<1>1. LeftType' /\ LeftShrinks
  BY SpendDoes DEF EffectFails, Typed, LeftShrinks
<1>2. TypeOK'
  BY Types, RestTypes, TypesAre DEF Typed, RestType, EffectFails, NoOp
<1> QED
  BY <1>1, <1>2, RunsStay, OwnersStay, TicketsStay, HistoryStays
     DEF EffectFails, Typed, HistType, Moves

-----------------------------------------------------------------------------
(* The server.                                                             *)
LEMMA CrashMoves ==
  ASSUME Typed, Crash  PROVE Typed' /\ Moves
<1>1. LeftType' /\ LeftShrinks
  BY SpendDoes DEF Crash, Typed, LeftShrinks
<1>2. TypeOK'
  BY Types, RestTypes, TypesAre DEF Typed, RestType, Crash, NoOp
<1> QED
  BY <1>1, <1>2, RunsStay, OwnersStay, TicketsStay, HistoryStays
     DEF Crash, Typed, HistType, Moves

LEMMA RestartMoves ==
  ASSUME Typed, Restart  PROVE Typed' /\ Moves
<1>1. runs \in [Runs -> RunType] /\ delivery \in [Isolated -> DeliveryType]
  BY Types DEF Typed
<1>2. PICK queued \in SUBSET Jobs :
        runs' = [r \in Runs |->
          IF runs[r].st = "running" /\ r \notin queued
          THEN [runs[r] EXCEPT !.st = "ended", !.outcome = "failed"]
          ELSE IF runs[r].st \in {"checked", "launching"}
          THEN [runs[r] EXCEPT !.st = "refused"]
          ELSE runs[r]]
  BY DEF Restart
<1>3. \A r \in Runs : runs'[r] \in RunType  BY <1>1, <1>2 DEF RunType, RunStates
<1>4. runs' \in [Runs -> RunType] /\ RunsMove
  <2>1. runs' \in [Runs -> RunType]  BY <1>2, <1>3
  <2>2. ASSUME NEW r \in Runs
        PROVE  \/ runs'[r] = runs[r]
               \/ /\ runs[r].st \in {"running", "checked", "launching"}
                  /\ runs'[r].of = runs[r].of /\ runs'[r].st \in {"ended", "refused"}
    BY <1>1, <1>2 DEF RunType
  <2> QED  BY <2>1, <2>2 DEF RunsMove
<1>5. delivery' \in [Isolated -> DeliveryType]
  <2>1. "open" \in DeliveryStates /\ delivery' = [e \in Isolated |-> delivery'[e]]
    BY DEF Restart, DeliveryStates
  <2>2. ASSUME NEW e \in Isolated
        PROVE  \/ delivery'[e] \in DeliveryType
               \/ delivery'[e] = delivery[e]
               \/ delivery'[e] = [delivery[e] EXCEPT !.st = "open"]
    BY DEF Restart
  <2> QED  BY <2>1, <2>2, DeliveriesTyped DEF Typed
<1>6. TypeOK'
  BY <1>4, <1>5, Types, RestTypes, TypesAre DEF Typed, RestType, Restart
<1> QED
  BY <1>4, <1>6, OwnersStay, TicketsStay, HistoryStays, LeftStays
     DEF Restart, Typed, LeftType, HistType, Moves

LEMMA OpenAdmissionMoves ==
  ASSUME Typed, OpenAdmission  PROVE Typed' /\ Moves
<1>1. TypeOK'
  BY Types, RestTypes, TypesAre DEF Typed, RestType, OpenAdmission
<1> QED
  BY <1>1, RunsStay, OwnersStay, TicketsStay, HistoryStays, LeftStays
     DEF OpenAdmission, Typed, LeftType, HistType, Moves

LEMMA NothingMoves ==
  ASSUME Typed, UNCHANGED vars  PROVE Typed' /\ Moves
BY RunsStay, OwnersStay, TicketsStay, HistoryStays, LeftStays, Types, RestTypes, TypesAre
   DEF Typed, RestType, LeftType, HistType, Moves

-----------------------------------------------------------------------------
(* The calls in progress, the runs and their deliveries fit.               *)

(* A call in progress is the callback of a run that has ended, or the      *)
(* effect of a pending decision; a dead server is in none.                 *)
CallInv ==
  /\ \/ op = NoOp
     \/ /\ op.kind = "callback" /\ op.run \in Runs
        /\ op.at \in {"tickets", "addenda", "commit"}
        /\ runs[op.run].st = "ended"
     \/ /\ op.kind = "effect" /\ op.run \in Isolated
        /\ op.at \in {"select", "write", "mark", "jira", "complete"}
        /\ delivery[op.run].st = "pending"
        /\ op.at \in {"select", "write", "mark"} <=> ~delivery[op.run].written
        /\ op.at \in {"write", "mark"} => delivery[op.run].selected
  /\ server = "down" => op = NoOp /\ tried = {}

(* A run gets its tickets when it is checked, its outcome when it ends.    *)
RunInv ==
  /\ NoneWaits
  /\ \A r \in Runs :
       /\ runs[r].st = "none" => runs[r].of = {}
       /\ runs[r].outcome # "none" => runs[r].st \in {"ended", "closed"}

Decided(d) == delivery[d].st \in {"pending", "completed"}

(* How far a delivery can be while its run is where it is; only a decided  *)
(* one has selected tickets, and what it has written it has selected.      *)
DeliveryInv ==
  \A d \in Isolated :
    /\ runs[d].st \in {"none", "checked"} => delivery[d].st = "none"
    /\ runs[d].st \in {"launching", "running"} => delivery[d].st = "building"
    /\ delivery[d].st # "none" => delivery[d].of = runs[d].of
    /\ delivery[d].written => delivery[d].selected
    /\ delivery[d].st = "completed" => delivery[d].written
    /\ Decided(d) => delivery[d].target # "none"
    /\ Decided(d) /\ delivery[d].target = "done" => runs[d].outcome = "completed"
    /\ ~Decided(d) => /\ ~delivery[d].selected /\ ~delivery[d].written
                      /\ delivery[d].applied = {}

(* A launch has superseded the delivery it restores if it is refused, and  *)
(* no other launch has.                                                    *)
PredInv ==
  \A d \in Isolated : runs[d].st = "launching" /\ delivery[d].pred # None =>
    /\ delivery[delivery[d].pred].st = "superseded"
    /\ \A e \in Isolated \ {d} : runs[e].st = "launching" =>
         delivery[e].pred # delivery[d].pred

Fits == CallInv /\ RunInv /\ DeliveryInv /\ PredInv

LEMMA QuietFits ==
  ASSUME Fits, UNCHANGED <<runs, delivery, op, server, tried>>  PROVE Fits'
BY DEF Fits, CallInv, RunInv, NoneWaits, DeliveryInv, Decided, PredInv

(* One run changes, and no delivery: the run goes on, or has none.         *)
LEMMA RunFits ==
  ASSUME Typed, Fits, UNCHANGED delivery, NEW r \in Runs, NEW new \in RunType,
         runs' = [runs EXCEPT ![r] = new],
         r \in Isolated =>
           /\ runs[r].st = "none" => new.st = "checked"
           /\ runs[r].st # "none" => new.of = runs[r].of /\ new.st # "launching"
           /\ new.st = "running" => runs[r].st = "launching"
           /\ new.st \in {"none", "checked"} => runs[r].st \in {"none", "checked"}
           /\ new.outcome = runs[r].outcome \/ runs[r].outcome = "none"
  PROVE  DeliveryInv' /\ PredInv'
<1>1. runs \in [Runs -> RunType] /\ delivery \in [Isolated -> DeliveryType]
  BY Types DEF Typed
<1>2. runs'[r] = new /\ \A q \in Runs \ {r} : runs'[q] = runs[q]  BY <1>1
<1>3. DeliveryInv'
  <2>1. ASSUME NEW d \in Isolated
        PROVE  /\ runs'[d].st \in {"none", "checked"} => runs[d].st \in {"none", "checked"}
               /\ runs'[d].st \in {"launching", "running"} =>
                    runs[d].st \in {"launching", "running"}
               /\ runs[d].st # "none" => runs'[d].of = runs[d].of
               /\ runs'[d].outcome = runs[d].outcome \/ runs[d].outcome = "none"
    BY <1>1, <1>2 DEF RunType
  <2> QED  BY <2>1 DEF Fits, DeliveryInv, Decided
<1>4. PredInv'
  <2>1. \A d \in Isolated : runs'[d].st = "launching" => runs[d].st = "launching"
    BY <1>1, <1>2 DEF RunType
  <2> QED  BY <2>1 DEF Fits, PredInv
<1> QED  BY <1>3, <1>4

LEMMA LaunchFits ==
  ASSUME Typed, Fits, NEW r \in Runs, NEW ts \in SUBSET Tickets,
         LaunchJob(r, ts) \/ CheckLaunch(r, ts)
  PROVE  Fits'
<1> DEFINE st == IF r \in Jobs THEN "running" ELSE "checked"
           new == [runs[r] EXCEPT !.st = st, !.of = ts]
<1>1. /\ runs[r] \in RunType /\ runs \in [Runs -> RunType]
      /\ runs[r].st = "none" /\ op = NoOp /\ server = "up"
  BY Types DEF Typed, LaunchJob, CheckLaunch, Launchable, Admits
<1>2. runs' = [runs EXCEPT ![r] = new] /\ UNCHANGED <<delivery, op, server, tried>>
      /\ (r \in Jobs \/ r \in Loops)
  BY RunsAssumption DEF LaunchJob, CheckLaunch
<1>3. /\ new \in RunType /\ new.st = st /\ new.outcome = runs[r].outcome
      /\ r \in Isolated => new.st = "checked"
  BY <1>1, NoneIsNoRun DEF RunType, RunStates
<1> HIDE DEF new
<1>4. DeliveryInv' /\ PredInv'  BY <1>1, <1>2, <1>3, RunFits
<1>5. CallInv' /\ RunInv'
  BY <1>1, <1>2, <1>3 DEF Fits, CallInv, RunInv, NoneWaits, RunType, NoOp
<1> QED  BY <1>4, <1>5 DEF Fits

LEMMA SharedFits ==
  ASSUME Typed, Fits, NEW r \in Shared, StartShared(r) \/ RefuseShared(r)
  PROVE  Fits'
<1>1. /\ runs[r] \in RunType /\ runs \in [Runs -> RunType]
      /\ runs[r].st \in {"checked", "launching"}
      /\ op = NoOp /\ server = "up"
  BY Types DEF Typed, TypeOK, StartShared, RefuseShared, Admits, Free, Fits, RunInv, NoneWaits
<1>2. PICK st \in {"launching", "refused"} :
        runs' = [runs EXCEPT ![r] = [runs[r] EXCEPT !.st = st]]
  BY DEF StartShared, RefuseShared
<1> DEFINE new == [runs[r] EXCEPT !.st = st]
<1>3. /\ new \in RunType /\ new.of = runs[r].of /\ new.outcome = runs[r].outcome
      /\ new.st = st
  BY <1>1 DEF RunType, RunStates
<1>4. runs' = [runs EXCEPT ![r] = new] /\ UNCHANGED <<delivery, op, server, tried>>
      /\ r \notin Isolated
  BY <1>2, RunsAssumption DEF StartShared, RefuseShared
<1> HIDE DEF new
<1>5. DeliveryInv' /\ PredInv'  BY <1>1, <1>3, <1>4, RunFits
<1>6. CallInv' /\ RunInv'
  BY <1>1, <1>3, <1>4 DEF Fits, CallInv, RunInv, NoneWaits, RunType, NoOp
<1> QED  BY <1>5, <1>6 DEF Fits

LEMMA AdmitFits ==
  ASSUME Typed, Fits, NEW r \in Runs, AdmitLoop(r)  PROVE Fits'
<1> DEFINE new == [runs[r] EXCEPT !.st = "running"]
<1>1. /\ runs[r] \in RunType /\ runs \in [Runs -> RunType]
      /\ runs[r].st = "launching" /\ op = NoOp
  BY Types DEF Typed, AdmitLoop, Free
<1>2. runs' = [runs EXCEPT ![r] = new] /\ UNCHANGED <<delivery, op, server, tried>>
  BY DEF AdmitLoop
<1>3. /\ new \in RunType /\ new.of = runs[r].of /\ new.outcome = runs[r].outcome
      /\ new.st = "running"
  BY <1>1 DEF RunType, RunStates
<1> HIDE DEF new
<1>4. DeliveryInv' /\ PredInv'  BY <1>1, <1>2, <1>3, RunFits
<1>5. CallInv' /\ RunInv'
  BY <1>1, <1>2, <1>3 DEF Fits, CallInv, RunInv, NoneWaits, RunType, NoOp
<1> QED  BY <1>4, <1>5 DEF Fits

LEMMA StateOnly ==
  ASSUME NEW old \in DeliveryType, NEW st, NEW new, new = [old EXCEPT !.st = st]
  PROVE  /\ new.st = st /\ new.of = old.of /\ new.pred = old.pred
         /\ new.selected = old.selected /\ new.written = old.written
         /\ new.applied = old.applied /\ new.target = old.target
         /\ new.owners = old.owners
BY DEF DeliveryType

LEMMA StartIsolatedFits ==
  ASSUME Typed, Fits, NEW r \in Isolated, NEW pred \in Isolated \cup {None},
         StartIsolated(r, pred)
  PROVE  Fits'
<1>1. /\ runs[r].st = "checked" /\ op = NoOp /\ server = "up"
      /\ pred # None => delivery[pred].st = "open"
      /\ runs' = [runs EXCEPT ![r].st = "launching"]
      /\ UNCHANGED <<op, server, tried>>
  BY DEF StartIsolated, Admits
<1>2. runs \in [Runs -> RunType] /\ delivery \in [Isolated -> DeliveryType]
  BY Types DEF Typed
<1>3. /\ runs'[r].st = "launching" /\ runs'[r].of = runs[r].of
      /\ runs'[r].outcome = runs[r].outcome
      /\ \A q \in Runs \ {r} : runs'[q] = runs[q]
  BY <1>1, <1>2 DEF RunType
<1>4. delivery[r].st = "none" /\ pred # r /\ runs[r].outcome = "none"
  BY <1>1, NoneIsNoRun DEF Fits, DeliveryInv, RunInv
<1>5. /\ delivery'[r].st = "building" /\ delivery'[r].pred = pred
      /\ delivery'[r].of = runs[r].of
      /\ delivery'[r].selected = delivery[r].selected
      /\ delivery'[r].written = delivery[r].written
      /\ delivery'[r].applied = delivery[r].applied
  <2> DEFINE snapshot == {t \in runs[r].of : Claimable(r, t)}
  <2>1. delivery'[r] = [delivery[r] EXCEPT !.st = "building", !.pred = pred,
                          !.of = runs[r].of, !.snapshot = snapshot]
    BY DEF StartIsolated
  <2> HIDE DEF snapshot
  <2> QED  BY <1>2, <2>1 DEF DeliveryType
<1>6. \A d \in Isolated \ {r} :
        \/ d # pred /\ delivery'[d] = delivery[d]
        \/ d = pred /\ delivery'[d] = [delivery[d] EXCEPT !.st = "superseded"]
  BY DEF StartIsolated
<1>7. ASSUME NEW d \in Isolated \ {r}
      PROVE  /\ delivery'[d].of = delivery[d].of /\ delivery'[d].pred = delivery[d].pred
             /\ delivery'[d].selected = delivery[d].selected
             /\ delivery'[d].written = delivery[d].written
             /\ delivery'[d].applied = delivery[d].applied
             /\ delivery'[d].target = delivery[d].target
             /\ d # pred => delivery'[d].st = delivery[d].st
             /\ d = pred => delivery'[d].st = "superseded"
  <2>1. delivery[d] \in DeliveryType  BY <1>2
  <2>2. CASE delivery'[d] = delivery[d] /\ d # pred  BY <2>2
  <2>3. CASE d = pred /\ delivery'[d] = [delivery[d] EXCEPT !.st = "superseded"]
    BY <2>1, <2>3, StateOnly
  <2> QED  BY <1>6, <2>2, <2>3
<1>8. DeliveryInv'
  <2>1. ~Decided(r) /\ ~Decided(r)'  BY <1>4, <1>5 DEF Decided
  <2>2. \A d \in Isolated \ {r} :
          \/ delivery'[d].st = delivery[d].st /\ Decided(d)' = Decided(d)
          \/ delivery[d].st = "open" /\ delivery'[d].st = "superseded"
             /\ ~Decided(d) /\ ~Decided(d)'
    BY <1>1, <1>7, NoneIsNoRun DEF Decided
  <2>3. ASSUME NEW d \in Isolated \ {r}
        PROVE  /\ runs'[d].st \in {"none", "checked"} => delivery'[d].st = "none"
               /\ runs'[d].st \in {"launching", "running"} => delivery'[d].st = "building"
               /\ delivery'[d].st # "none" => delivery'[d].of = runs'[d].of
               /\ delivery'[d].written => delivery'[d].selected
               /\ delivery'[d].st = "completed" => delivery'[d].written
               /\ Decided(d)' => delivery'[d].target # "none"
               /\ Decided(d)' /\ delivery'[d].target = "done" => runs'[d].outcome = "completed"
               /\ ~Decided(d)' => /\ ~delivery'[d].selected /\ ~delivery'[d].written
                                  /\ delivery'[d].applied = {}
    BY <1>3, <1>7, <2>2 DEF Fits, DeliveryInv
  <2> QED  BY <1>3, <1>4, <1>5, <2>1, <2>3 DEF Fits, DeliveryInv
<1>9. PredInv'
  <2>1. ASSUME NEW d \in Isolated, runs'[d].st = "launching", delivery'[d].pred # None
        PROVE  /\ delivery'[delivery'[d].pred].st = "superseded"
               /\ \A e \in Isolated \ {d} : runs'[e].st = "launching" =>
                    delivery'[e].pred # delivery'[d].pred
    <3>1. CASE d = r
      <4>1. \A e \in Isolated \ {r} : runs[e].st = "launching" => delivery[e].pred # pred
        BY <1>1, <1>5, <2>1, <3>1 DEF Fits, PredInv
      <4> QED  BY <1>3, <1>4, <1>5, <1>7, <2>1, <3>1, <4>1
    <3>2. CASE d # r
      <4>1. runs[d].st = "launching" /\ delivery[d].pred # None /\ delivery[d].pred \in Isolated
        BY <1>2, <1>3, <1>7, <2>1, <3>2 DEF DeliveryType
      <4>2. delivery[delivery[d].pred].st = "superseded"  BY <4>1 DEF Fits, PredInv
      <4>3. delivery[d].pred # r /\ delivery[d].pred # pred  BY <1>1, <1>4, <4>1, <4>2
      <4> QED  BY <1>3, <1>5, <1>7, <3>2, <4>1, <4>2, <4>3 DEF Fits, PredInv
    <3> QED  BY <3>1, <3>2
  <2> QED  BY <2>1 DEF PredInv
<1>10. CallInv' /\ RunInv'
  BY <1>1, <1>3, <1>4 DEF Fits, CallInv, RunInv, NoneWaits
<1> QED  BY <1>8, <1>9, <1>10 DEF Fits

LEMMA RefuseIsolatedFits ==
  ASSUME Typed, Fits, NEW r \in Runs, RefuseIsolated(r)  PROVE Fits'
<1> DEFINE pred == delivery[r].pred
<1>1. /\ r \in Isolated /\ runs[r].st = "launching" /\ op = NoOp
      /\ runs' = [runs EXCEPT ![r].st = "refused"]
      /\ UNCHANGED <<op, server, tried>>
  BY DEF RefuseIsolated, Free
<1>2. runs \in [Runs -> RunType] /\ delivery \in [Isolated -> DeliveryType]
  BY Types DEF Typed
<1>3. /\ runs'[r].st = "refused" /\ runs'[r].of = runs[r].of
      /\ runs'[r].outcome = runs[r].outcome
      /\ \A q \in Runs \ {r} : runs'[q] = runs[q]
  BY <1>1, <1>2 DEF RunType
<1>4. /\ delivery[r].st = "building" /\ runs[r].outcome = "none"
      /\ pred \in Isolated \cup {None}
      /\ pred # None => delivery[pred].st = "superseded"
  BY <1>1, <1>2 DEF Fits, DeliveryInv, RunInv, PredInv, DeliveryType
<1>5. \A d \in Isolated :
        \/ d = r /\ delivery'[d] = [delivery[d] EXCEPT !.st = "abandoned"]
        \/ d # r /\ d = pred /\ delivery'[d] = [delivery[d] EXCEPT !.st = "open"]
        \/ d # r /\ d # pred /\ delivery'[d] = delivery[d]
  BY DEF RefuseIsolated
<1>6. ASSUME NEW d \in Isolated
      PROVE  /\ delivery'[d].of = delivery[d].of /\ delivery'[d].pred = delivery[d].pred
             /\ delivery'[d].selected = delivery[d].selected
             /\ delivery'[d].written = delivery[d].written
             /\ delivery'[d].applied = delivery[d].applied
             /\ delivery'[d].target = delivery[d].target
             /\ d \notin {r, pred} => delivery'[d].st = delivery[d].st
             /\ d = r => delivery'[d].st = "abandoned"
             /\ d = pred /\ d # r => delivery'[d].st = "open"
  <2>1. delivery[d] \in DeliveryType  BY <1>2
  <2>2. PICK st \in {"abandoned", "open"} :
          \/ delivery'[d] = delivery[d] /\ d \notin {r, pred}
          \/ /\ delivery'[d] = [delivery[d] EXCEPT !.st = st]
             /\ d = r => st = "abandoned"
             /\ d # r => st = "open" /\ d = pred
    BY <1>5
  <2>3. CASE delivery'[d] = delivery[d] /\ d \notin {r, pred}  BY <2>3
  <2>4. CASE delivery'[d] = [delivery[d] EXCEPT !.st = st] /\ (d \in {r, pred})
    BY <2>1, <2>2, <2>4, StateOnly
  <2> QED  BY <2>2, <2>3, <2>4
<1>7. DeliveryInv'
  <2>1. \A d \in Isolated :
          \/ delivery'[d].st = delivery[d].st /\ Decided(d)' = Decided(d)
          \/ delivery[d].st = "superseded" /\ delivery'[d].st = "open"
             /\ ~Decided(d) /\ ~Decided(d)'
          \/ d = r /\ ~Decided(d) /\ ~Decided(d)'
    BY <1>4, <1>6, NoneIsNoRun DEF Decided
  <2> QED  BY <1>1, <1>3, <1>4, <1>6, <2>1 DEF Fits, DeliveryInv
<1>8. PredInv'
  <2>1. ASSUME NEW d \in Isolated, runs'[d].st = "launching", delivery'[d].pred # None
        PROVE  /\ delivery'[delivery'[d].pred].st = "superseded"
               /\ \A e \in Isolated \ {d} : runs'[e].st = "launching" =>
                    delivery'[e].pred # delivery'[d].pred
    <3>1. d # r /\ runs[d].st = "launching" /\ delivery[d].pred # None
          /\ delivery[d].pred \in Isolated
      BY <1>2, <1>3, <1>6, <2>1 DEF DeliveryType
    <3>2. delivery[delivery[d].pred].st = "superseded" /\ delivery[d].pred # pred
      BY <1>1, <3>1 DEF Fits, PredInv
    <3>3. delivery[d].pred # r  BY <1>4, <3>2
    <3> QED  BY <1>3, <1>6, <3>1, <3>2, <3>3 DEF Fits, PredInv
  <2> QED  BY <2>1 DEF PredInv
<1>9. CallInv' /\ RunInv'
  BY <1>1, <1>3 DEF Fits, CallInv, RunInv, NoneWaits
<1> QED  BY <1>7, <1>8, <1>9 DEF Fits

OpType == [kind: {"idle", "callback", "effect"}, run: Runs \cup {None},
           at: {"", "tickets", "addenda", "commit", "select", "write",
                "mark", "jira", "complete"}, failed: BOOLEAN]

LEMMA OpTyped == ASSUME Typed PROVE op \in OpType
BY DEF Typed, TypeOK, OpType

LEMMA NoOpIsIdle == NoOp.kind = "idle"
BY DEF NoOp

(* The steps of a callback: which run, and where it is.                    *)
Calling(at) == op.kind = "callback" /\ op.at = at

LEMMA CallbackOfRun ==
  ASSUME Fits, op.kind = "callback"
  PROVE  /\ op.run \in Runs /\ runs[op.run].st = "ended" /\ server # "down"
         /\ op # NoOp
<1>1. op # NoOp  BY NoOpIsIdle
<1> QED  BY <1>1 DEF Fits, CallInv

LEMMA EffectOfDelivery ==
  ASSUME Fits, op.kind = "effect"
  PROVE  /\ op.run \in Isolated /\ delivery[op.run].st = "pending" /\ server # "down"
         /\ op.at \in {"select", "write", "mark"} <=> ~delivery[op.run].written
         /\ op.at \in {"write", "mark"} => delivery[op.run].selected
         /\ op # NoOp
<1>1. op # NoOp  BY NoOpIsIdle
<1> QED  BY <1>1 DEF Fits, CallInv

(* A call begins for a run that has ended, goes on or stops.               *)
LEMMA CallFits ==
  ASSUME Typed, Fits, UNCHANGED <<runs, delivery, server>>, server # "down",
         \/ op' = NoOp
         \/ /\ op'.kind = "callback" /\ op'.run \in Runs
            /\ op'.at \in {"tickets", "addenda", "commit"}
            /\ runs[op'.run].st = "ended"
         \/ /\ op'.kind = "effect" /\ op'.run \in Isolated
            /\ op'.at \in {"select", "write", "mark", "jira", "complete"}
            /\ delivery[op'.run].st = "pending"
            /\ op'.at \in {"select", "write", "mark"} <=> ~delivery[op'.run].written
            /\ op'.at \in {"write", "mark"} => delivery[op'.run].selected
  PROVE  Fits'
BY DEF Fits, CallInv, RunInv, NoneWaits, DeliveryInv, Decided, PredInv

LEMMA EndRunFits ==
  ASSUME Typed, Fits, NEW r \in Runs, NEW outcome \in {"completed", "failed"},
         EndRun(r, outcome)
  PROVE  Fits'
<1> DEFINE new == [runs[r] EXCEPT !.st = "ended", !.outcome = outcome]
<1>1. /\ runs[r] \in RunType /\ runs \in [Runs -> RunType]
      /\ runs[r].st = "running" /\ server # "down"
  BY Types DEF Typed, EndRun, Free
<1>2. runs' = [runs EXCEPT ![r] = new] /\ UNCHANGED <<delivery, server, tried>>
      /\ op' = [kind |-> "callback", run |-> r, at |-> "tickets", failed |-> FALSE]
  BY DEF EndRun, CallBack
<1>3. /\ new \in RunType /\ new.of = runs[r].of /\ new.outcome = outcome
      /\ new.st = "ended" /\ runs[r].outcome = "none"
  BY <1>1 DEF RunType, RunStates, Fits, RunInv
<1> HIDE DEF new
<1>4. DeliveryInv' /\ PredInv'  BY <1>1, <1>2, <1>3, RunFits
<1>5. CallInv' /\ RunInv'
  BY <1>1, <1>2, <1>3 DEF Fits, CallInv, RunInv, NoneWaits, RunType, NoOp
<1> QED  BY <1>4, <1>5 DEF Fits

LEMMA CommitFits ==
  ASSUME Typed, Fits, NEW handed \in BOOLEAN, CommitCallback(handed)  PROVE Fits'
<1> DEFINE r == op.run
           new == [runs[r] EXCEPT !.st = "closed"]
<1>1. /\ r \in Runs /\ runs[r] \in RunType /\ runs \in [Runs -> RunType]
      /\ runs[r].st = "ended" /\ server # "down"
  BY Types, CallbackOfRun DEF Typed, CommitCallback
<1>2. runs' = [runs EXCEPT ![r] = new] /\ UNCHANGED <<delivery, server, tried>>
      /\ op' = NoOp
  BY DEF CommitCallback
<1>3. /\ new \in RunType /\ new.of = runs[r].of /\ new.outcome = runs[r].outcome
      /\ new.st = "closed"
  BY <1>1 DEF RunType, RunStates
<1> HIDE DEF new
<1>4. DeliveryInv' /\ PredInv'  BY <1>1, <1>2, <1>3, RunFits
<1>5. CallInv' /\ RunInv'
  BY <1>1, <1>2, <1>3 DEF Fits, CallInv, RunInv, NoneWaits, RunType, NoOp
<1> QED  BY <1>4, <1>5 DEF Fits

LEMMA CallbackFits ==
  ASSUME Typed, Fits,
         \/ \E r \in Runs : ReplayCallback(r)
         \/ ApplyOutcome \/ ApplyOutcomeFails \/ SettleAddenda
         \/ SettleAddendaFails \/ RollBackCallback
  PROVE  Fits'
<1>1. op \in OpType  BY OpTyped
<1>2. UNCHANGED <<runs, delivery, server>>
  BY DEF ReplayCallback, ApplyOutcome, ApplyOutcomeFails, SettleAddenda,
         SettleAddendaFails, RollBackCallback
<1>3. CASE \E r \in Runs : ReplayCallback(r)
  <2>1. PICK r \in Runs : ReplayCallback(r)  BY <1>3
  <2>2. /\ server # "down" /\ runs[r].st = "ended"
        /\ op' = [kind |-> "callback", run |-> r, at |-> "tickets", failed |-> FALSE]
    BY <2>1 DEF ReplayCallback, Free, CallBack
  <2> QED  BY <1>2, <2>2, CallFits
<1>4. CASE ~(\E r \in Runs : ReplayCallback(r))
  <2>1. op.kind = "callback"
    BY <1>4 DEF ApplyOutcome, ApplyOutcomeFails, SettleAddenda,
                SettleAddendaFails, RollBackCallback
  <2>2. \/ op' = NoOp
        \/ /\ op'.kind = "callback" /\ op'.run = op.run
           /\ op'.at \in {"addenda", "commit"}
    BY <1>1, <1>4, <2>1
       DEF OpType, ApplyOutcome, ApplyOutcomeFails, SettleAddenda,
           SettleAddendaFails, RollBackCallback
  <2> QED  BY <1>2, <2>1, <2>2, CallbackOfRun, CallFits
<1> QED  BY <1>3, <1>4

(* One delivery changes, and no run.                                       *)
LEMMA DeliveryFits ==
  ASSUME Typed, Fits, UNCHANGED runs, NEW d \in Isolated, NEW new \in DeliveryType,
         delivery' = [delivery EXCEPT ![d] = new],
         runs[d].st \notin {"none", "checked", "launching", "running"},
         delivery[d].st \notin {"none", "superseded"},
         new.of = delivery[d].of, new.written => new.selected,
         new.st = "completed" => new.written,
         new.st \in {"pending", "completed"} =>
           /\ new.target # "none"
           /\ new.target = "done" => runs[d].outcome = "completed",
         new.st \notin {"pending", "completed"} =>
           ~new.selected /\ ~new.written /\ new.applied = {}
  PROVE  DeliveryInv' /\ PredInv'
<1>1. delivery \in [Isolated -> DeliveryType]  BY Types DEF Typed
<1>2. delivery'[d] = new /\ \A e \in Isolated \ {d} : delivery'[e] = delivery[e]
  BY <1>1
<1>3. DeliveryInv'
  <2>1. \A e \in Isolated \ {d} : Decided(e)' = Decided(e)  BY <1>2 DEF Decided
  <2>2. Decided(d)' = (new.st \in {"pending", "completed"})  BY <1>2 DEF Decided
  <2>3. ASSUME NEW e \in Isolated \ {d}
        PROVE  /\ runs'[e] = runs[e] /\ delivery'[e] = delivery[e]
               /\ Decided(e)' = Decided(e)
    BY <1>2, <2>1
  <2>4. /\ runs'[d] = runs[d] /\ delivery'[d] = new
        /\ new.of = runs[d].of
    BY <1>2 DEF Fits, DeliveryInv
  <2>5. ASSUME NEW e \in Isolated, e # d
        PROVE  /\ runs'[e].st \in {"none", "checked"} => delivery'[e].st = "none"
               /\ runs'[e].st \in {"launching", "running"} => delivery'[e].st = "building"
               /\ delivery'[e].st # "none" => delivery'[e].of = runs'[e].of
               /\ delivery'[e].written => delivery'[e].selected
               /\ delivery'[e].st = "completed" => delivery'[e].written
               /\ Decided(e)' => delivery'[e].target # "none"
               /\ Decided(e)' /\ delivery'[e].target = "done" => runs'[e].outcome = "completed"
               /\ ~Decided(e)' => /\ ~delivery'[e].selected /\ ~delivery'[e].written
                                  /\ delivery'[e].applied = {}
    BY <2>3, <2>5 DEF Fits, DeliveryInv
  <2> QED  BY <2>2, <2>4, <2>5, ZenonT(60) DEF DeliveryInv
<1>4. PredInv'
  <2>1. \A e \in Isolated : runs[e].st = "launching" /\ delivery[e].pred # None =>
          delivery[e].pred \in Isolated /\ delivery[e].pred # d
    BY <1>1 DEF Fits, PredInv, DeliveryType
  <2> QED  BY <1>2, <2>1 DEF Fits, PredInv
<1> QED  BY <1>3, <1>4

(* A decided delivery's run is over or was refused.                        *)
LEMMA DecidedRun ==
  ASSUME Typed, Fits, NEW d \in Isolated, delivery[d].st \notin {"none", "building"}
  PROVE  runs[d].st \in {"ended", "closed", "refused"}
<1>1. runs[d] \in RunType  BY Types DEF Typed
<1> QED  BY <1>1 DEF Fits, DeliveryInv, RunType, RunStates

LEMMA OpenDeliveryFits ==
  ASSUME Typed, Fits, NEW d \in Isolated, OpenDelivery(d)  PROVE Fits'
<1> DEFINE new == [delivery[d] EXCEPT !.st = "open"]
<1>1. /\ delivery[d] \in DeliveryType /\ delivery[d].st = "building"
      /\ runs[d].st \in {"ended", "closed"}
      /\ UNCHANGED <<runs, op, server, tried>> /\ delivery' = [delivery EXCEPT ![d] = new]
      /\ op = NoOp /\ server # "down"
  BY Types DEF Typed, OpenDelivery, Free
<1>2. /\ new \in DeliveryType /\ new.st = "open" /\ new.of = delivery[d].of
      /\ new.selected = delivery[d].selected /\ new.written = delivery[d].written
      /\ new.applied = delivery[d].applied
  BY <1>1 DEF DeliveryType, DeliveryStates
<1> HIDE DEF new
<1>3. ~new.selected /\ ~new.written /\ new.applied = {}
  BY <1>1, <1>2 DEF Fits, DeliveryInv, Decided
<1>4. DeliveryInv' /\ PredInv'  BY <1>1, <1>2, <1>3, DeliveryFits
<1> QED  BY <1>1, <1>4 DEF Fits, CallInv, RunInv, NoneWaits

LEMMA DecideFits ==
  ASSUME Typed, Fits, NEW d \in Isolated, NEW target \in {"todo", "done"}, Decide(d, target)
  PROVE  /\ Fits'
         /\ delivery'[d].st = "pending" /\ delivery'[d].target = target
         /\ delivery'[d].owners = owner
         /\ ~delivery'[d].selected /\ ~delivery'[d].written /\ delivery'[d].applied = {}
         /\ \A e \in Isolated \ {d} : delivery'[e] = delivery[e]
<1> DEFINE new == [delivery[d] EXCEPT !.st = "pending", !.target = target, !.owners = owner]
<1>1. /\ delivery[d] \in DeliveryType /\ delivery \in [Isolated -> DeliveryType]
      /\ delivery[d].st = "open"
      /\ UNCHANGED <<runs, server, tried>> /\ delivery' = [delivery EXCEPT ![d] = new]
      /\ op = NoOp /\ server = "up"
  BY Types DEF Typed, Decide, Admits
<1>2. ~delivery[d].selected /\ ~delivery[d].written /\ delivery[d].applied = {}
  BY <1>1 DEF Fits, DeliveryInv, Decided
<1>3. op' = [kind |-> "effect", run |-> d, failed |-> FALSE, at |-> "select"]
  BY <1>2 DEF Decide, Effect
<1>4. /\ new \in DeliveryType /\ new.st = "pending" /\ new.of = delivery[d].of
      /\ new.selected = delivery[d].selected /\ new.written = delivery[d].written
      /\ new.applied = delivery[d].applied /\ new.target = target /\ new.owners = owner
  <2>1. owner \in [Tickets -> Runs \cup {None}]  BY DEF Typed, TypeOK
  <2> QED  BY <1>1, <2>1 DEF DeliveryType, DeliveryStates
<1> HIDE DEF new
<1>5. target = "done" => runs[d].outcome = "completed"  BY DEF Decide
<1>6. runs[d].st \in {"ended", "closed", "refused"}  BY <1>1, DecidedRun
<1>7. DeliveryInv' /\ PredInv'  BY <1>1, <1>2, <1>4, <1>5, <1>6, DeliveryFits
<1>8. delivery'[d] = new /\ \A e \in Isolated \ {d} : delivery'[e] = delivery[e]
  BY <1>1
<1>9. CallInv'
  <2>1. op'.kind = "effect" /\ op'.run = d /\ op'.at = "select"  BY <1>3
  <2> QED  BY <1>1, <1>2, <1>4, <1>8, <2>1 DEF CallInv
<1>10. RunInv'  BY <1>1 DEF Fits, RunInv, NoneWaits
<1> QED  BY <1>2, <1>4, <1>7, <1>8, <1>9, <1>10 DEF Fits

LEMMA ReplayEffectFits ==
  ASSUME Typed, Fits, NEW d \in Isolated, ReplayEffect(d)  PROVE Fits'
<1>1. /\ UNCHANGED <<runs, delivery, server>> /\ server # "down"
      /\ delivery[d].st = "pending"
      /\ op' = [kind |-> "effect", run |-> d, failed |-> FALSE,
                at |-> IF delivery[d].written THEN "jira" ELSE "select"]
  BY DEF ReplayEffect, Free, Effect
<1>2. CASE delivery[d].written  BY <1>1, <1>2, CallFits
<1>3. CASE ~delivery[d].written  BY <1>1, <1>3, CallFits
<1> QED  BY <1>2, <1>3

LEMMA SelectFits ==
  ASSUME Typed, Fits, Select
  PROVE  /\ Fits' /\ op'.kind = "effect" /\ op'.run = op.run /\ op'.at = "write"
         /\ \A e \in Isolated \ {op.run} : delivery'[e] = delivery[e]
         /\ delivery'[op.run].st = "pending" /\ delivery'[op.run].selected
         /\ delivery'[op.run].of = delivery[op.run].of
         /\ delivery'[op.run].target = delivery[op.run].target
         /\ delivery'[op.run].owners = delivery[op.run].owners
         /\ delivery'[op.run].written = delivery[op.run].written
         /\ IF delivery[op.run].selected
              THEN delivery'[op.run].applied = delivery[op.run].applied
              ELSE delivery'[op.run].applied = Selectable(op.run)
<1> DEFINE d == op.run
           chosen == IF delivery[d].selected THEN delivery[d].applied ELSE Selectable(d)
           new == [delivery[d] EXCEPT !.selected = TRUE, !.applied = chosen]
<1>1. /\ op \in OpType /\ delivery \in [Isolated -> DeliveryType]
      /\ op.kind = "effect" /\ op.at = "select" /\ op' = [op EXCEPT !.at = "write"]
      /\ UNCHANGED <<runs, server, tried>>
  BY Types, OpTyped DEF Typed, Select
<1>2. /\ d \in Isolated /\ delivery[d].st = "pending" /\ server # "down"
      /\ ~delivery[d].written /\ delivery[d] \in DeliveryType
  BY <1>1, EffectOfDelivery
<1>3. chosen \in SUBSET Tickets  BY <1>2 DEF DeliveryType, Selectable
<1>4. delivery' = [delivery EXCEPT ![d] = new]
  <2>1. CASE delivery[d].selected
    <3>1. new = delivery[d] /\ delivery' = delivery
      BY <1>2, <2>1 DEF Select, DeliveryType
    <3> HIDE DEF new
    <3> QED  BY <1>1, <1>2, <3>1
  <2>2. CASE ~delivery[d].selected  BY <2>2 DEF Select
  <2> QED  BY <2>1, <2>2
<1>5. /\ new \in DeliveryType /\ new.st = "pending" /\ new.of = delivery[d].of
      /\ new.selected /\ new.written = delivery[d].written
      /\ new.applied = chosen /\ new.target = delivery[d].target
      /\ new.owners = delivery[d].owners
  <2> HIDE DEF chosen
  <2> QED  BY <1>2, <1>3 DEF DeliveryType
<1>6. chosen = IF delivery[d].selected THEN delivery[d].applied ELSE Selectable(d)
  OBVIOUS
<1> HIDE DEF new, chosen
<1>7. /\ new.target # "none"
      /\ runs[d].st \in {"ended", "closed", "refused"}
  <2>1. runs[d].st \in {"ended", "closed", "refused"}  BY <1>2, DecidedRun
  <2> QED  BY <1>2, <1>5, <2>1 DEF Fits, DeliveryInv, Decided
<1>8. new.target = "done" => runs[d].outcome = "completed"
  BY <1>2, <1>5 DEF Fits, DeliveryInv, Decided
<1>9. DeliveryInv' /\ PredInv'  BY <1>1, <1>2, <1>4, <1>5, <1>7, <1>8, DeliveryFits
<1>10. delivery'[d] = new /\ \A e \in Isolated \ {d} : delivery'[e] = delivery[e]
  BY <1>1, <1>2, <1>4
<1>11. op'.kind = "effect" /\ op'.run = d /\ op'.at = "write"
  BY <1>1 DEF OpType
<1>12. CallInv'  BY <1>1, <1>2, <1>5, <1>10, <1>11 DEF CallInv
<1>13. RunInv'  BY <1>1 DEF Fits, RunInv, NoneWaits
<1> QED  BY <1>5, <1>6, <1>9, <1>10, <1>11, <1>12, <1>13 DEF Fits

LEMMA MarkWrittenFits ==
  ASSUME Typed, Fits, MarkWritten
  PROVE  /\ Fits' /\ op'.kind = "effect" /\ op'.run = op.run /\ op'.at = "jira"
         /\ \A e \in Isolated \ {op.run} : delivery'[e] = delivery[e]
         /\ delivery'[op.run] = [delivery[op.run] EXCEPT !.written = TRUE]
<1> DEFINE d == op.run
           new == [delivery[d] EXCEPT !.written = TRUE]
<1>1. /\ op \in OpType /\ delivery \in [Isolated -> DeliveryType]
      /\ op.kind = "effect" /\ op.at = "mark" /\ op' = [op EXCEPT !.at = "jira"]
      /\ UNCHANGED <<runs, server, tried>> /\ delivery' = [delivery EXCEPT ![d] = new]
  BY Types, OpTyped DEF Typed, MarkWritten
<1>2. /\ d \in Isolated /\ delivery[d].st = "pending" /\ server # "down"
      /\ delivery[d].selected /\ delivery[d] \in DeliveryType
  BY <1>1, EffectOfDelivery
<1>3. /\ new \in DeliveryType /\ new.st = "pending" /\ new.of = delivery[d].of
      /\ new.selected /\ new.written /\ new.target = delivery[d].target
  BY <1>2 DEF DeliveryType
<1>4. new = [delivery[d] EXCEPT !.written = TRUE]  OBVIOUS
<1> HIDE DEF new
<1>5. new.target # "none" /\ runs[d].st \in {"ended", "closed", "refused"}
  BY <1>2, <1>3, DecidedRun DEF Fits, DeliveryInv, Decided
<1>6. new.target = "done" => runs[d].outcome = "completed"
  BY <1>2, <1>3 DEF Fits, DeliveryInv, Decided
<1>7. DeliveryInv' /\ PredInv'  BY <1>1, <1>2, <1>3, <1>5, <1>6, DeliveryFits
<1>8. delivery'[d] = new /\ \A e \in Isolated \ {d} : delivery'[e] = delivery[e]
  BY <1>1, <1>2
<1>9. op'.kind = "effect" /\ op'.run = d /\ op'.at = "jira"
  BY <1>1 DEF OpType
<1>10. CallInv'  BY <1>1, <1>2, <1>3, <1>8, <1>9 DEF CallInv
<1>11. RunInv'  BY <1>1 DEF Fits, RunInv, NoneWaits
<1> QED  BY <1>4, <1>7, <1>8, <1>9, <1>10, <1>11 DEF Fits

LEMMA CompleteFits ==
  ASSUME Typed, Fits, CompleteEffect
  PROVE  /\ Fits' /\ op' = NoOp
         /\ \A e \in Isolated \ {op.run} : delivery'[e] = delivery[e]
         /\ delivery'[op.run] = [delivery[op.run] EXCEPT !.st = "completed"]
<1> DEFINE d == op.run
           new == [delivery[d] EXCEPT !.st = "completed"]
<1>1. /\ op \in OpType /\ delivery \in [Isolated -> DeliveryType]
      /\ op.kind = "effect" /\ op.at = "complete" /\ op' = NoOp
      /\ UNCHANGED <<runs, server, tried>> /\ delivery' = [delivery EXCEPT ![d] = new]
  BY Types, OpTyped DEF Typed, CompleteEffect
<1>2. /\ d \in Isolated /\ delivery[d].st = "pending" /\ server # "down"
      /\ delivery[d].written /\ delivery[d] \in DeliveryType
  BY <1>1, EffectOfDelivery DEF DeliveryType
<1>3. /\ new \in DeliveryType /\ new.st = "completed" /\ new.of = delivery[d].of
      /\ new.selected = delivery[d].selected /\ new.written
      /\ new.target = delivery[d].target
  BY <1>2 DEF DeliveryType, DeliveryStates
<1>4. new = [delivery[d] EXCEPT !.st = "completed"]  OBVIOUS
<1> HIDE DEF new
<1>5. /\ new.target # "none" /\ new.selected
      /\ runs[d].st \in {"ended", "closed", "refused"}
  BY <1>2, <1>3, DecidedRun DEF Fits, DeliveryInv, Decided
<1>6. new.target = "done" => runs[d].outcome = "completed"
  BY <1>2, <1>3 DEF Fits, DeliveryInv, Decided
<1>7. DeliveryInv' /\ PredInv'  BY <1>1, <1>2, <1>3, <1>5, <1>6, DeliveryFits
<1>8. delivery'[d] = new /\ \A e \in Isolated \ {d} : delivery'[e] = delivery[e]
  BY <1>1, <1>2
<1>9. CallInv'  BY <1>1, <1>2 DEF CallInv
<1>10. RunInv'  BY <1>1 DEF Fits, RunInv, NoneWaits
<1> QED  BY <1>1, <1>4, <1>7, <1>8, <1>9, <1>10 DEF Fits

LEMMA EffectFits ==
  ASSUME Typed, Fits, WriteTickets \/ HandToJira \/ EffectFails  PROVE Fits'
<1>1. op \in OpType /\ UNCHANGED <<runs, delivery, server>> /\ op.kind = "effect"
  BY OpTyped DEF WriteTickets, HandToJira, EffectFails
<1>2. \/ op' = NoOp
      \/ op.at = "write" /\ op'.kind = "effect" /\ op'.run = op.run /\ op'.at = "mark"
      \/ op.at = "jira" /\ op'.kind = "effect" /\ op'.run = op.run /\ op'.at = "complete"
  BY <1>1 DEF OpType, WriteTickets, HandToJira, EffectFails
<1> QED  BY <1>1, <1>2, EffectOfDelivery, CallFits

-----------------------------------------------------------------------------
LEMMA CrashFits == ASSUME Typed, Fits, Crash PROVE Fits'
BY DEF Crash, Fits, CallInv, RunInv, NoneWaits, DeliveryInv, Decided, PredInv

LEMMA RestartFits == ASSUME Typed, Fits, Restart PROVE Fits'
<1>1. runs \in [Runs -> RunType] /\ delivery \in [Isolated -> DeliveryType]
      /\ server' = "recovering" /\ UNCHANGED <<op, tried>> /\ server = "down"
  BY Types DEF Typed, Restart
<1>2. PICK queued \in SUBSET Jobs :
        runs' = [r \in Runs |->
          IF runs[r].st = "running" /\ r \notin queued
          THEN [runs[r] EXCEPT !.st = "ended", !.outcome = "failed"]
          ELSE IF runs[r].st \in {"checked", "launching"}
          THEN [runs[r] EXCEPT !.st = "refused"]
          ELSE runs[r]]
  BY DEF Restart
<1>3. ASSUME NEW r \in Runs
      PROVE  /\ runs'[r].of = runs[r].of
             /\ \/ runs'[r].st = "ended" /\ runs[r].st = "running"
                \/ /\ runs'[r].outcome = runs[r].outcome
                   /\ \/ runs'[r].st = "refused" /\ runs[r].st \in {"checked", "launching"}
                      \/ /\ runs'[r].st = runs[r].st
                         /\ runs[r].st \notin {"checked", "launching"}
                         /\ runs[r].st = "running" => r \in Jobs
  <2>1. runs[r] \in RunType  BY <1>1
  <2>2. CASE runs[r].st = "running" /\ r \notin queued
    <3>1. runs'[r] = [runs[r] EXCEPT !.st = "ended", !.outcome = "failed"]  BY <1>2, <2>2
    <3> QED  BY <2>1, <2>2, <3>1 DEF RunType
  <2>3. CASE runs[r].st \in {"checked", "launching"}
    <3>1. runs'[r] = [runs[r] EXCEPT !.st = "refused"]  BY <1>2, <2>3
    <3> QED  BY <2>1, <2>3, <3>1 DEF RunType
  <2>4. CASE ~(runs[r].st = "running" /\ r \notin queued)
             /\ runs[r].st \notin {"checked", "launching"}
    <3>1. runs'[r] = runs[r]  BY <1>2, <2>4
    <3> QED  BY <2>4, <3>1
  <2> QED  BY <2>2, <2>3, <2>4
<1>4. ASSUME NEW d \in Isolated
      PROVE  /\ delivery'[d].of = delivery[d].of
             /\ delivery'[d].selected = delivery[d].selected
             /\ delivery'[d].written = delivery[d].written
             /\ delivery'[d].applied = delivery[d].applied
             /\ delivery'[d].target = delivery[d].target
             /\ \/ delivery'[d].st = delivery[d].st /\ delivery[d].st # "building"
                \/ delivery[d].st = "building" /\ delivery'[d].st = "open"
  <2>1. delivery[d] \in DeliveryType  BY <1>1
  <2>2. CASE delivery[d].st = "building"
    <3>1. delivery'[d] = [delivery[d] EXCEPT !.st = "open"]  BY <2>2 DEF Restart
    <3> QED  BY <2>1, <2>2, <3>1, StateOnly
  <2>3. CASE delivery[d].st # "building"  BY <2>3 DEF Restart
  <2> QED  BY <2>2, <2>3
<1>5. DeliveryInv'
  <2>1. \A d \in Isolated : Decided(d)' = Decided(d)  BY <1>4 DEF Decided
  <2>2. \A d \in Isolated : runs[d].st \notin {"ended", "closed"} => runs[d].outcome = "none"
    BY DEF Fits, RunInv
  <2>3. ASSUME NEW d \in Isolated
        PROVE  /\ runs'[d].st \in {"none", "checked"} => delivery'[d].st = "none"
               /\ runs'[d].st \notin {"launching", "running"}
               /\ delivery'[d].st # "none" => delivery'[d].of = runs'[d].of
               /\ runs[d].outcome = "completed" => runs'[d].outcome = "completed"
    BY <1>3, <1>4, <2>2, NoneIsNoRun DEF Fits, DeliveryInv
  <2> QED  BY <1>4, <2>1, <2>3 DEF Fits, DeliveryInv
<1>6. PredInv'
  <2>1. \A d \in Isolated : runs'[d].st # "launching"  BY <1>3
  <2> QED  BY <2>1 DEF PredInv
<1>7. CallInv' /\ RunInv'
  <2>1. CallInv'  BY <1>1 DEF Fits, CallInv
  <2>2. NoneWaits'  BY <1>3 DEF NoneWaits
  <2> QED  BY <1>3, <2>1, <2>2 DEF Fits, RunInv
<1> QED  BY <1>5, <1>6, <1>7 DEF Fits

LEMMA OpenAdmissionFits == ASSUME Typed, Fits, OpenAdmission PROVE Fits'
BY DEF OpenAdmission, Free, Fits, CallInv, RunInv, NoneWaits, DeliveryInv, Decided, PredInv

-----------------------------------------------------------------------------
(* Every step moves as said and keeps the fit.                             *)
LEMMA StepMoves ==
  ASSUME Typed, Fits, [Next]_vars  PROVE Typed' /\ Moves /\ Fits'
<1>1. NoneWaits  BY DEF Fits, RunInv
<1>2. CASE UNCHANGED vars  BY <1>2, NothingMoves, QuietFits
<1>3. ASSUME NEW r \in Runs, NEW ts \in LaunchSets, LaunchJob(r, ts) \/ CheckLaunch(r, ts)
      PROVE  Typed' /\ Moves /\ Fits'
  BY <1>3, LaunchJobMoves, CheckLaunchMoves, LaunchFits DEF LaunchSets
<1>4. ASSUME NEW r \in Isolated, NEW pred \in Isolated \cup {None}, StartIsolated(r, pred)
      PROVE  Typed' /\ Moves /\ Fits'
  BY <1>4, StartIsolatedMoves, StartIsolatedFits
<1>5. ASSUME NEW r \in Shared, StartShared(r) \/ RefuseShared(r)
      PROVE  Typed' /\ Moves /\ Fits'
  BY <1>5, StartSharedMoves, RefuseSharedMoves, SharedFits
<1>6. ASSUME NEW r \in Runs, AdmitLoop(r) \/ RefuseIsolated(r)
      PROVE  Typed' /\ Moves /\ Fits'
  BY <1>1, <1>6, AdmitLoopMoves, AdmitFits, RefuseIsolatedMoves, RefuseIsolatedFits
<1>7. ASSUME NEW r \in Runs, ClaimJobAddenda(r)  PROVE Typed' /\ Moves /\ Fits'
  <2>1. UNCHANGED <<runs, delivery, op, server, tried>>  BY <1>7 DEF ClaimJobAddenda
  <2> QED  BY <1>7, <2>1, ClaimJobAddendaMoves, QuietFits
<1>8. ASSUME NEW r \in Runs, ReplayCallback(r)  PROVE Typed' /\ Moves /\ Fits'
  BY <1>8, ReplayCallbackMoves, CallbackFits
<1>9. ASSUME NEW r \in Runs, NEW outcome \in {"completed", "failed"}, EndRun(r, outcome)
      PROVE  Typed' /\ Moves /\ Fits'
  BY <1>9, EndRunMoves, EndRunFits
<1>10. ASSUME NEW t \in Tickets, NEW s \in Statuses, EditTicket(t, s)
       PROVE  Typed' /\ Moves /\ Fits'
  <2>1. UNCHANGED <<runs, delivery, op, server, tried>>  BY <1>10 DEF EditTicket
  <2> QED  BY <1>10, <2>1, EditTicketMoves, QuietFits
<1>11. ASSUME NEW t \in Tickets, ReopenAddendum(t)  PROVE Typed' /\ Moves /\ Fits'
  <2>1. UNCHANGED <<runs, delivery, op, server, tried>>  BY <1>11 DEF ReopenAddendum
  <2> QED  BY <1>11, <2>1, ReopenAddendumMoves, QuietFits
<1>12. ASSUME NEW r \in Runs, NEW t \in Tickets, AgentStarts(r, t)
       PROVE  Typed' /\ Moves /\ Fits'
  <2>1. UNCHANGED <<runs, delivery, op, server, tried>>  BY <1>12 DEF AgentStarts
  <2> QED  BY <1>12, <2>1, AgentStartsMoves, QuietFits
<1>13. ASSUME NEW d \in Isolated, OpenDelivery(d) \/ ReplayEffect(d)
       PROVE  Typed' /\ Moves /\ Fits'
  BY <1>13, OpenDeliveryMoves, OpenDeliveryFits, ReplayEffectMoves, ReplayEffectFits
<1>14. ASSUME NEW d \in Isolated, NEW target \in {"todo", "done"}, Decide(d, target)
       PROVE  Typed' /\ Moves /\ Fits'
  BY <1>14, DecideMoves, DecideFits
<1>15. ASSUME Callbacks  PROVE Typed' /\ Moves /\ Fits'
  <2>1. op.kind = "callback"
    BY <1>15 DEF Callbacks, ApplyOutcome, ApplyOutcomeFails, SettleAddenda,
                 SettleAddendaFails, RollBackCallback, CommitCallback
  <2>2. op.run \in Runs /\ runs[op.run].st = "ended"  BY <2>1, CallbackOfRun
  <2>3. CASE \E handed \in BOOLEAN : CommitCallback(handed)
    BY <2>2, <2>3, CommitCallbackMoves, CommitFits
  <2>4. CASE ApplyOutcome \/ ApplyOutcomeFails \/ SettleAddenda
             \/ SettleAddendaFails \/ RollBackCallback
    BY <2>2, <2>4, ApplyOutcomeMoves, ApplyOutcomeFailsMoves, SettleAddendaMoves,
       SettleAddendaFailsMoves, RollBackCallbackMoves, CallbackFits
  <2> QED  BY <1>15, <2>3, <2>4 DEF Callbacks
<1>16. ASSUME EffectSteps  PROVE Typed' /\ Moves /\ Fits'
  <2>1. op.kind = "effect"
    BY <1>16 DEF EffectSteps, Select, WriteTickets, MarkWritten, HandToJira,
                 CompleteEffect, EffectFails
  <2>2. op.run \in Isolated /\ delivery[op.run].target \in {"todo", "done"}
    <3>1. op.run \in Isolated /\ delivery[op.run].st = "pending"  BY <2>1, EffectOfDelivery
    <3>2. delivery[op.run] \in DeliveryType  BY <3>1, Types DEF Typed
    <3> QED  BY <3>1, <3>2 DEF Fits, DeliveryInv, Decided, DeliveryType
  <2>3. CASE Select \/ MarkWritten \/ CompleteEffect
    BY <2>2, <2>3, SelectMoves, SelectFits, MarkWrittenMoves, MarkWrittenFits,
       CompleteEffectMoves, CompleteFits
  <2>4. CASE WriteTickets \/ HandToJira \/ EffectFails
    BY <2>2, <2>4, WriteTicketsMoves, HandToJiraMoves, EffectFailsMoves, EffectFits
  <2> QED  BY <1>16, <2>3, <2>4 DEF EffectSteps
<1>17. CASE Crash \/ Restart \/ OpenAdmission
  BY <1>17, CrashMoves, CrashFits, RestartMoves, RestartFits, OpenAdmissionMoves,
     OpenAdmissionFits
<1> QED
  BY <1>2, <1>3, <1>4, <1>5, <1>6, <1>7, <1>8, <1>9, <1>10, <1>11, <1>12, <1>13,
     <1>14, <1>15, <1>16, <1>17 DEF Next

-----------------------------------------------------------------------------
(* The outcome of a run changes a ticket once, and a callback that is      *)
(* checkpointed has left nothing behind.                                   *)
ClaimInv ==
  \A t \in Tickets : \A r \in Runs : InFlight(tickets, t, r) => t \in runs[r].of

(* A ticket that a run's outcome has changed carries its marker as long as *)
(* the run is its owner.                                                   *)
OnceInv ==
  /\ OutcomeOnce
  /\ \A r \in Runs : \A t \in hist.applied[r] :
       /\ runs[r].st \in {"ended", "closed"}
       /\ owner[t] = r => tickets[t].marker = r

Marked(r) == \A t \in Owned(r) : tickets[t].marker = r
NoClaim(r) == \A t \in Tickets : ~InFlight(tickets, t, r)

CallbackInv ==
  op.kind = "callback" =>
    /\ op.at \in {"addenda", "commit"} /\ ~op.failed => Marked(op.run)
    /\ op.at = "commit" /\ op.run \notin hist.unsettled => NoClaim(op.run)

ClosedInv ==
  \A r \in Runs : runs[r].st = "closed" =>
    /\ Marked(r) /\ \A t \in Owned(r) : rail[t] # r
    /\ r \notin hist.unsettled => NoClaim(r)

Settled == ClaimInv /\ OnceInv /\ CallbackInv /\ ClosedInv

LEMMA OwnedLasts ==
  ASSUME Typed, Moves, NEW r \in Runs, runs[r].st \in {"ended", "closed"}
  PROVE  /\ \A t \in Tickets : owner'[t] = r => owner[t] = r
         /\ \A t \in Owned(r)' : t \in Owned(r) /\ t \in Tickets
         /\ \A t \in Tickets : owner[t] = r /\ tickets[t].marker = r =>
              tickets'[t].marker = r
         /\ Marked(r) => Marked(r)'
         /\ NoClaim(r) => NoClaim(r)'
<1>1. runs'[r].of = runs[r].of /\ runs[r].of \subseteq Tickets
  BY Types DEF Typed, RunType, Moves, RunsMove
<1>2. \A t \in Tickets : owner'[t] = r => owner[t] = r
  BY DEF Moves, OwnersMove
<1>3. \A t \in Owned(r)' : t \in Owned(r) /\ t \in Tickets
  BY <1>1, <1>2 DEF Owned
<1>4. \A t \in Tickets : owner[t] = r /\ tickets[t].marker = r => tickets'[t].marker = r
  BY DEF Moves, TicketsMove, Outcome
<1>5. Marked(r) => Marked(r)'
  BY <1>3, <1>4 DEF Marked, Owned
<1>6. NoClaim(r) => NoClaim(r)'
  BY DEF NoClaim, Moves, TicketsMove
<1> QED  BY <1>2, <1>3, <1>4, <1>5, <1>6

LEMMA ClaimLasts == ASSUME Typed, Fits, Moves, ClaimInv PROVE ClaimInv'
<1>1. ASSUME NEW t \in Tickets, NEW r \in Runs, InFlight(tickets', t, r)
      PROVE  t \in runs'[r].of
  <2>1. t \in runs[r].of  BY <1>1 DEF Moves, TicketsMove, ClaimInv
  <2>2. runs'[r].of = runs[r].of  BY <2>1 DEF Fits, RunInv, Moves, RunsMove
  <2> QED  BY <2>1, <2>2
<1> QED  BY <1>1 DEF ClaimInv, InFlight

LEMMA OnceLasts == ASSUME Typed, Typed', Fits, Moves, OnceInv PROVE OnceInv'
<1>1. ASSUME NEW r \in Runs, NEW t \in hist'.applied[r]
      PROVE  runs'[r].st \in {"ended", "closed"} /\ (owner'[t] = r => tickets'[t].marker = r)
  <2>1. t \in Tickets  BY DEF Typed, HistType
  <2>2. CASE t \in hist.applied[r]
    <3>1. runs[r].st \in {"ended", "closed"} /\ (owner[t] = r => tickets[t].marker = r)
      BY <2>2 DEF OnceInv
    <3> QED  BY <2>1, <3>1, OwnedLasts DEF Moves, RunsMove
  <2>3. CASE t \notin hist.applied[r]
    <3>1. op.kind = "callback" /\ op.run = r /\ tickets'[t].marker = r
      BY <2>3 DEF Moves, HistoryGrows
    <3> QED  BY <3>1, CallbackOfRun DEF Moves, RunsMove
  <2> QED  BY <2>2, <2>3
<1>2. OutcomeOnce'
  BY DEF OnceInv, OutcomeOnce, Moves, HistoryGrows
<1> QED  BY <1>1, <1>2 DEF OnceInv

(* A call goes on by its own steps only.                                   *)
LEMMA CallCases ==
  ASSUME Typed, Fits, [Next]_vars
  PROVE  \/ op' = NoOp \/ op'.kind = "effect" \/ UNCHANGED vars
         \/ \E r \in Runs, outcome \in {"completed", "failed"} :
              EndRun(r, outcome) \/ ReplayCallback(r)
         \/ ApplyOutcome \/ (ApplyOutcomeFails /\ op' # NoOp)
         \/ SettleAddenda \/ SettleAddendaFails
         \/ op' = op /\ op = NoOp
<1>1. op \in OpType  BY OpTyped
<1>2. CASE Callbacks
  BY <1>2 DEF Callbacks, ApplyOutcomeFails, CommitCallback, RollBackCallback
<1>3. CASE EffectSteps
  BY <1>1, <1>3 DEF OpType, EffectSteps, Select, WriteTickets, MarkWritten, HandToJira,
     CompleteEffect, EffectFails
<1>4. ASSUME NEW d \in Isolated, NEW target \in {"todo", "done"},
             ReplayEffect(d) \/ Decide(d, target)
      PROVE  op'.kind = "effect"
  BY <1>4 DEF ReplayEffect, Decide, Effect
<1>5. CASE Restart  BY <1>5 DEF Restart, Fits, CallInv
<1>6. CASE Crash  BY <1>6 DEF Crash
<1>7. CASE OpenAdmission  BY <1>7 DEF OpenAdmission, Free
<1> QED
  BY <1>2, <1>3, <1>4, <1>5, <1>6, <1>7
     DEF Next, LaunchJob, CheckLaunch, StartIsolated, StartShared, RefuseShared,
         ClaimJobAddenda, AdmitLoop, RefuseIsolated, EditTicket, ReopenAddendum,
         AgentStarts, OpenDelivery, Free, Admits

LEMMA CallbackLasts ==
  ASSUME Typed, Typed', Fits, Moves, ClaimInv', CallbackInv, [Next]_vars
  PROVE  CallbackInv'
<1>1. op \in OpType  BY OpTyped
<1>2. CASE op' = NoOp \/ op'.kind = "effect"
  BY <1>2, NoOpIsIdle DEF CallbackInv
<1>3. CASE UNCHANGED vars
  BY <1>3 DEF CallbackInv, Marked, NoClaim, InFlight, Owned
<1>4. CASE \E r \in Runs, outcome \in {"completed", "failed"} :
             EndRun(r, outcome) \/ ReplayCallback(r)
  <2>1. op'.at = "tickets"  BY <1>4 DEF EndRun, ReplayCallback, CallBack
  <2> QED  BY <2>1 DEF CallbackInv
<1>5. CASE ApplyOutcome
  <2>1. /\ op.kind = "callback" /\ op' = [op EXCEPT !.at = "addenda"]
        /\ UNCHANGED <<runs, owner>>
        /\ tickets' = [t \in Tickets |-> IF t \in Owned(op.run)
                         THEN OutcomeOn(tickets[t], op.run) ELSE tickets[t]]
    BY <1>5 DEF ApplyOutcome
  <2>2. op'.kind = "callback" /\ op'.at = "addenda" /\ op'.run = op.run
    BY <1>1, <2>1 DEF OpType
  <2>3. op.run \in Runs  BY <2>1, CallbackOfRun
  <2>4. /\ \A t \in Tickets : tickets[t] \in TicketType
        /\ runs[op.run].of \subseteq Tickets
    BY <2>3, Types DEF Typed, RunType
  <2>5. ASSUME NEW t \in Owned(op.run)  PROVE tickets'[t].marker = op.run
    <3>1. t \in Tickets /\ tickets'[t] = OutcomeOn(tickets[t], op.run)
      BY <2>1, <2>4 DEF Owned
    <3> QED  BY <2>3, <2>4, <3>1, OutcomeDoes
  <2> QED  BY <2>1, <2>2, <2>5 DEF CallbackInv, Marked, Owned
<1>6. CASE ApplyOutcomeFails /\ op' # NoOp
  <2>1. op'.failed /\ op'.at = "addenda"
    BY <1>1, <1>6 DEF OpType, ApplyOutcomeFails
  <2> QED  BY <2>1 DEF CallbackInv
<1>7. CASE SettleAddenda \/ SettleAddendaFails
  <2>1. op.kind = "callback" /\ op.at = "addenda" /\ op' = [op EXCEPT !.at = "commit"]
    BY <1>7 DEF SettleAddenda, SettleAddendaFails
  <2>2. /\ op'.kind = "callback" /\ op'.at = "commit" /\ op'.run = op.run
        /\ op'.failed = op.failed
    BY <1>1, <2>1 DEF OpType
  <2>3. op.run \in Runs /\ runs[op.run].st = "ended"  BY <2>1, CallbackOfRun
  <2>4. ~op.failed => Marked(op.run)'
    BY <2>1, <2>3, OwnedLasts DEF CallbackInv
  <2>5. op.run \notin hist'.unsettled => NoClaim(op.run)'
    <3>1. CASE SettleAddenda
      <4>1. \A t \in runs[op.run].of \cap Tickets : ~InFlight(tickets', t, op.run)
        BY <2>3, <3>1, SettleAddendaMoves
      <4>2. \A t \in Tickets : InFlight(tickets', t, op.run) => t \in runs[op.run].of
        BY <2>3, <3>1 DEF ClaimInv, InFlight, SettleAddenda
      <4> QED  BY <2>2, <4>1, <4>2 DEF NoClaim, InFlight
    <3>2. CASE SettleAddendaFails
      BY <2>3, <3>2, SettleAddendaFailsMoves
    <3> QED  BY <1>7, <3>1, <3>2
  <2> QED  BY <2>2, <2>4, <2>5 DEF CallbackInv
<1>8. CASE op' = op /\ op = NoOp
  BY <1>8, NoOpIsIdle DEF CallbackInv
<1>9. op' = NoOp \/ op'.kind = "effect" \/ UNCHANGED vars
      \/ (\E r \in Runs, outcome \in {"completed", "failed"} :
             EndRun(r, outcome) \/ ReplayCallback(r))
      \/ ApplyOutcome \/ (ApplyOutcomeFails /\ op' # NoOp)
      \/ SettleAddenda \/ SettleAddendaFails
      \/ (op' = op /\ op = NoOp)
  BY CallCases
<1> QED  BY <1>2, <1>3, <1>4, <1>5, <1>6, <1>7, <1>8, <1>9

LEMMA ClosedLasts ==
  ASSUME Typed, Typed', Fits, Moves, CallbackInv, ClosedInv  PROVE ClosedInv'
<1>1. ASSUME NEW r \in Runs, runs'[r].st = "closed"
      PROVE  /\ Marked(r)' /\ \A t \in Owned(r)' : rail'[t] # r
             /\ r \notin hist'.unsettled => NoClaim(r)'
  <2>1. hist.unsettled \subseteq hist'.unsettled  BY DEF Moves, HistoryGrows
  <2>2. CASE runs[r].st = "closed"
    <3>1. \A t \in Owned(r)' : rail[t] # r /\ t \in Tickets
      BY <2>2, OwnedLasts DEF ClosedInv
    <3>2. \A t \in Owned(r)' : rail'[t] # r
      BY <2>2, <3>1, NoneIsNoRun DEF Moves, OwnersMove
    <3> QED  BY <2>1, <2>2, <3>2, OwnedLasts DEF ClosedInv
  <2>3. CASE runs[r].st # "closed"
    <3>1. /\ op.kind = "callback" /\ op.at = "commit" /\ op.run = r /\ ~op.failed
          /\ \A t \in Tickets : owner[t] = r /\ t \in runs[r].of => rail'[t] # r
      BY <1>1, <2>3 DEF Moves, RunsMove
    <3>2. Marked(r) /\ (r \notin hist.unsettled => NoClaim(r)) /\ runs[r].st = "ended"
      BY <3>1, CallbackOfRun DEF CallbackInv
    <3>3. \A t \in Owned(r)' : rail'[t] # r
      BY <3>1, <3>2, OwnedLasts DEF Owned
    <3> QED  BY <2>1, <3>2, <3>3, OwnedLasts
  <2> QED  BY <2>2, <2>3
<1> QED  BY <1>1 DEF ClosedInv

-----------------------------------------------------------------------------
(* Jira is told of what happened to the tickets.  A ticket that an effect  *)
(* has selected is on review and waits for the write, or has been moved.   *)
AtMark(d) == op.kind = "effect" /\ op.run = d /\ op.at = "mark"
AtEnd(d) == op.kind = "effect" /\ op.run = d /\ op.at = "complete"
Touched(d) == hist.moved[d] \cup hist.edited[d]
Waits(d, t) == tickets[t].status = "on_review" /\ ~delivery[d].written /\ ~AtMark(d)

MovedBy(d) ==
  /\ ~delivery[d].selected => delivery[d].applied = {}
  /\ Decided(d) => \A t \in delivery[d].applied : t \in Touched(d) \/ Waits(d, t)
  /\ delivery[d].st = "completed" \/ AtEnd(d) =>
       \A t \in delivery[d].applied : <<d, t, delivery[d].target>> \in outbox

Moved == JiraFollowsTickets /\ \A d \in Isolated : MovedBy(d)

(* What Jira has been told of the tickets of deliveries.                   *)
NothingTold ==
  /\ outbox \subseteq outbox'
  /\ \A d \in Isolated : \A t \in Tickets : \A target \in {"todo", "done"} :
       <<d, t, target>> \in outbox' => <<d, t, target>> \in outbox

(* A step that leaves alone the decisions that were taken.                 *)
Calm ==
  /\ \A d \in Isolated : /\ Decided(d)' => delivery'[d] = delivery[d]
                         /\ delivery'[d].applied = delivery[d].applied
                         /\ delivery'[d].selected = delivery[d].selected
  /\ op'.kind = "effect" /\ op'.at \in {"mark", "complete"} => op' = op
  /\ NothingTold

LEMMA CalmCases ==
  ASSUME Typed, Fits, [Next]_vars
  PROVE  \/ \E d \in Isolated, target \in {"todo", "done"} : Decide(d, target)
         \/ Select \/ WriteTickets \/ MarkWritten \/ HandToJira \/ CompleteEffect
         \/ Calm
<1>1. op \in OpType /\ \A d \in Isolated : delivery[d] \in DeliveryType
  BY OpTyped, Types DEF Typed
<1>2. ASSUME UNCHANGED <<delivery, outbox>>,
             op'.kind = "effect" /\ op'.at \in {"mark", "complete"} => op' = op
      PROVE  Calm
  BY <1>2 DEF Calm, NothingTold
<1>3. CASE Callbacks
  <2>1. CASE \E handed \in BOOLEAN : CommitCallback(handed)
    <3>1. PICK handed \in BOOLEAN : CommitCallback(handed)  BY <2>1
    <3>2. UNCHANGED delivery /\ op' = NoOp  BY <3>1 DEF CommitCallback
    <3>3. Owned(op.run) \subseteq Tickets
      <4>1. op.run \in Runs  BY <3>1, CallbackOfRun DEF CommitCallback
      <4> QED  BY <4>1, Types DEF Typed, RunType, Owned
    <3>4. PICK told \in SUBSET Tickets, action \in {"review", "outcome"} :
            /\ outbox \subseteq outbox'
            /\ outbox' \subseteq outbox \cup {<<op.run, t, action>> : t \in told}
      <4>1. CASE runs[op.run].outcome = "completed"
        BY <3>1, <3>3, <4>1 DEF CommitCallback
      <4>2. CASE runs[op.run].outcome # "completed"
        BY <3>1, <3>3, <4>2 DEF CommitCallback
      <4> QED  BY <4>1, <4>2
    <3>5. NothingTold  BY <3>4 DEF NothingTold
    <3> QED  BY <3>2, <3>5, NoOpIsIdle DEF Calm
  <2>2. CASE ApplyOutcome \/ ApplyOutcomeFails \/ SettleAddenda
             \/ SettleAddendaFails \/ RollBackCallback
    <3>1. UNCHANGED <<delivery, outbox>> /\ (op' = NoOp \/ op'.kind = "callback")
      BY <1>1, <2>2 DEF OpType, ApplyOutcome, ApplyOutcomeFails, SettleAddenda,
                        SettleAddendaFails, RollBackCallback
    <3> QED  BY <1>2, <3>1, NoOpIsIdle
  <2> QED  BY <1>3, <2>1, <2>2 DEF Callbacks
<1>4. CASE EffectFails  BY <1>2, <1>4, NoOpIsIdle DEF EffectFails
<1>5. ASSUME NEW d \in Isolated, ReplayEffect(d)  PROVE Calm
  <2>1. op'.at \in {"jira", "select"}  BY <1>5 DEF ReplayEffect, Effect
  <2> QED  BY <1>2, <1>5, <2>1 DEF ReplayEffect
<1>6. CASE Crash \/ OpenAdmission
  BY <1>2, <1>6, NoOpIsIdle DEF Crash, OpenAdmission
<1>7. CASE Restart
  <2>1. UNCHANGED <<op, outbox>>  BY <1>7 DEF Restart
  <2>2. ASSUME NEW d \in Isolated
        PROVE  /\ Decided(d)' => delivery'[d] = delivery[d]
               /\ delivery'[d].applied = delivery[d].applied
               /\ delivery'[d].selected = delivery[d].selected
    <3>1. CASE delivery[d].st = "building"
      <4>1. delivery'[d] = [delivery[d] EXCEPT !.st = "open"]  BY <1>7, <3>1 DEF Restart
      <4> QED  BY <1>1, <4>1, StateOnly DEF Decided
    <3>2. CASE delivery[d].st # "building"
      <4>1. delivery'[d] = delivery[d]  BY <1>7, <3>2 DEF Restart
      <4> QED  BY <4>1
    <3> QED  BY <3>1, <3>2
  <2> QED  BY <2>1, <2>2 DEF Calm, NothingTold
<1>8. ASSUME NEW d \in Isolated, OpenDelivery(d)  PROVE Calm
  <2>1. /\ op' = op /\ op = NoOp /\ outbox' = outbox
        /\ delivery' = [delivery EXCEPT ![d].st = "open"]
    BY <1>8 DEF OpenDelivery, Free
  <2>2. /\ delivery' = [delivery EXCEPT ![d] = [delivery[d] EXCEPT !.st = "open"]]
        /\ delivery \in [Isolated -> DeliveryType]
    BY <2>1, Types DEF Typed
  <2>3. /\ delivery'[d] = [delivery[d] EXCEPT !.st = "open"]
        /\ \A e \in Isolated \ {d} : delivery'[e] = delivery[e]
    BY <2>2
  <2>4. /\ delivery'[d].st = "open" /\ delivery'[d].applied = delivery[d].applied
        /\ delivery'[d].selected = delivery[d].selected
    BY <1>1, <2>3, StateOnly
  <2>5. ~Decided(d)'  BY <2>4 DEF Decided
  <2> QED  BY <2>1, <2>3, <2>4, <2>5 DEF Calm, NothingTold
<1>9. ASSUME NEW r \in Isolated, NEW pred \in Isolated \cup {None}, StartIsolated(r, pred)
      PROVE  Calm
  <2>1. op' = op /\ outbox' = outbox  BY <1>9 DEF StartIsolated
  <2>2. ASSUME NEW d \in Isolated
        PROVE  /\ Decided(d)' => delivery'[d] = delivery[d]
               /\ delivery'[d].applied = delivery[d].applied
               /\ delivery'[d].selected = delivery[d].selected
    <3>1. CASE d = r
      <4> DEFINE snapshot == {t \in runs[r].of : Claimable(r, t)}
      <4>1. delivery'[d] = [delivery[d] EXCEPT !.st = "building", !.pred = pred,
                              !.of = runs[r].of, !.snapshot = snapshot]
        BY <1>9, <3>1 DEF StartIsolated
      <4> HIDE DEF snapshot
      <4>2. /\ delivery'[d].st = "building" /\ delivery'[d].applied = delivery[d].applied
            /\ delivery'[d].selected = delivery[d].selected
        BY <1>1, <4>1 DEF DeliveryType
      <4> QED  BY <4>2 DEF Decided
    <3>2. CASE d # r /\ d = pred
      <4>1. delivery'[d] = [delivery[d] EXCEPT !.st = "superseded"]
        BY <1>9, <3>2 DEF StartIsolated
      <4> QED  BY <1>1, <4>1, StateOnly DEF Decided
    <3>3. CASE d # r /\ d # pred
      <4>1. delivery'[d] = delivery[d]  BY <1>9, <3>3 DEF StartIsolated
      <4> QED  BY <4>1
    <3> QED  BY <3>1, <3>2, <3>3
  <2> QED  BY <2>1, <2>2 DEF Calm, NothingTold
<1>10. ASSUME NEW r \in Runs, RefuseIsolated(r)  PROVE Calm
  <2>1. op' = op /\ outbox' = outbox  BY <1>10 DEF RefuseIsolated
  <2>2. ASSUME NEW d \in Isolated
        PROVE  /\ Decided(d)' => delivery'[d] = delivery[d]
               /\ delivery'[d].applied = delivery[d].applied
               /\ delivery'[d].selected = delivery[d].selected
    <3>1. CASE d = r
      <4>1. delivery'[d] = [delivery[d] EXCEPT !.st = "abandoned"]
        BY <1>10, <3>1 DEF RefuseIsolated
      <4> QED  BY <1>1, <4>1, StateOnly DEF Decided
    <3>2. CASE d # r /\ d = delivery[r].pred
      <4>1. delivery'[d] = [delivery[d] EXCEPT !.st = "open"]
        BY <1>10, <3>2 DEF RefuseIsolated
      <4> QED  BY <1>1, <4>1, StateOnly DEF Decided
    <3>3. CASE d # r /\ d # delivery[r].pred
      <4>1. delivery'[d] = delivery[d]  BY <1>10, <3>3 DEF RefuseIsolated
      <4> QED  BY <4>1
    <3> QED  BY <3>1, <3>2, <3>3
  <2> QED  BY <2>1, <2>2 DEF Calm, NothingTold
<1>11. ASSUME NEW r \in Runs, NEW outcome \in {"completed", "failed"},
              EndRun(r, outcome) \/ ReplayCallback(r)
       PROVE  Calm
  <2>1. UNCHANGED <<delivery, outbox>> /\ op'.kind = "callback"
    BY <1>11 DEF EndRun, ReplayCallback, CallBack
  <2> QED  BY <1>2, <2>1
<1>12. CASE UNCHANGED vars  BY <1>2, <1>12
<1>13. ASSUME NEW r \in Runs, NEW ts, LaunchJob(r, ts) \/ CheckLaunch(r, ts)  PROVE Calm
  BY <1>2, <1>13 DEF LaunchJob, CheckLaunch
<1>14. ASSUME NEW r \in Runs,
              StartShared(r) \/ RefuseShared(r) \/ ClaimJobAddenda(r) \/ AdmitLoop(r)
       PROVE  Calm
  BY <1>2, <1>14 DEF StartShared, RefuseShared, ClaimJobAddenda, AdmitLoop
<1>15. ASSUME NEW r \in Runs, NEW t, AgentStarts(r, t)  PROVE Calm
  BY <1>2, <1>15 DEF AgentStarts
<1>16. ASSUME NEW t, NEW s, EditTicket(t, s) \/ ReopenAddendum(t)  PROVE Calm
  BY <1>2, <1>16 DEF EditTicket, ReopenAddendum
<1> QED
  BY <1>3, <1>4, <1>5, <1>6, <1>7, <1>8, <1>9, <1>10, <1>11, <1>12, <1>13, <1>14,
     <1>15, <1>16 DEF Next, EffectSteps

LEMMA JiraLasts ==
  ASSUME Typed, Moves, NothingTold, JiraFollowsTickets  PROVE JiraFollowsTickets'
BY DEF JiraFollowsTickets, NothingTold, Moves, HistoryGrows

(* A decision that is left alone: what it has selected waits, or somebody  *)
(* has moved it and is remembered.                                         *)
LEMMA CalmMoved ==
  ASSUME Typed, Fits, Fits', Moves, NEW d \in Isolated, MovedBy(d),
         ~delivery'[d].selected => delivery'[d].applied = {},
         Decided(d)' => delivery'[d] = delivery[d],
         op'.kind = "effect" /\ op'.run = d /\ op'.at \in {"mark", "complete"} => op' = op,
         outbox \subseteq outbox'
  PROVE  MovedBy(d)'
<1>1. delivery[d] \in DeliveryType  BY Types DEF Typed
<1>2. Touched(d) \subseteq Touched(d)'  BY DEF Moves, HistoryGrows, Touched
<1>3. ASSUME Decided(d)', NEW t \in delivery'[d].applied
      PROVE  t \in Touched(d)' \/ Waits(d, t)'
  <2>1. delivery'[d] = delivery[d] /\ Decided(d) /\ t \in Tickets
    BY <1>1, <1>3 DEF Decided, DeliveryType
  <2>2. CASE t \in Touched(d)  BY <1>2, <2>2
  <2>3. CASE Waits(d, t) /\ tickets'[t].status = "on_review"
    <3>1. ~AtMark(d)'  BY <2>3 DEF AtMark, Waits
    <3> QED  BY <2>1, <2>3, <3>1 DEF Waits
  <2>4. CASE Waits(d, t) /\ tickets'[t].status # "on_review"
    <3>1. delivery[d].st = "pending" /\ delivery[d].selected
      BY <1>3, <2>1, <2>4 DEF Fits, DeliveryInv, Decided, Waits, MovedBy
    <3> QED  BY <2>1, <2>4, <3>1 DEF Waits, Touched, Moves, TicketsMove
  <2> QED  BY <2>1, <2>2, <2>3, <2>4, <1>3 DEF MovedBy
<1>4. ASSUME delivery'[d].st = "completed" \/ AtEnd(d)', NEW t \in delivery'[d].applied
      PROVE  <<d, t, delivery'[d].target>> \in outbox'
  <2>1. CASE delivery'[d].st = "completed"
    <3>1. delivery'[d] = delivery[d]  BY <2>1 DEF Decided
    <3> QED  BY <1>4, <2>1, <3>1 DEF MovedBy
  <2>2. CASE AtEnd(d)' /\ delivery'[d].st # "completed"
    <3>1. AtEnd(d) /\ delivery[d].st = "pending"
      BY <2>2, EffectOfDelivery DEF AtEnd
    <3>2. Decided(d)'
      <4>1. op' # NoOp  BY <2>2, NoOpIsIdle DEF AtEnd
      <4> QED  BY <2>2, <4>1 DEF AtEnd, Fits, CallInv, Decided
    <3> QED  BY <1>4, <3>1, <3>2 DEF MovedBy
  <2> QED  BY <1>4, <2>1, <2>2
<1> QED  BY <1>3, <1>4 DEF MovedBy

LEMMA MovedLasts ==
  ASSUME Typed, Typed', Fits, Fits', Moves, Moved, [Next]_vars  PROVE Moved'
<1>1. op \in OpType /\ \A d \in Isolated : delivery[d] \in DeliveryType
  BY OpTyped, Types DEF Typed
<1>2. CASE Calm
  <2>1. ASSUME NEW d \in Isolated  PROVE MovedBy(d)'
    BY <1>2, <2>1, CalmMoved DEF Calm, NothingTold, Moved, MovedBy
  <2> QED  BY <1>2, <2>1, JiraLasts DEF Calm, Moved
<1>3. ASSUME NEW d \in Isolated, NEW target \in {"todo", "done"}, Decide(d, target)
      PROVE  Moved'
  <2>1. /\ ~delivery'[d].selected /\ delivery'[d].applied = {}
        /\ \A e \in Isolated \ {d} : delivery'[e] = delivery[e]
    BY <1>3, DecideFits
  <2>2. UNCHANGED outbox /\ op'.kind = "effect" /\ op'.at \in {"jira", "select"}
    BY <1>3 DEF Decide, Effect
  <2>3. MovedBy(d)'
    BY <2>1, <2>2 DEF MovedBy
  <2>4. ASSUME NEW e \in Isolated, e # d  PROVE MovedBy(e)'
    BY <2>1, <2>2, <2>4, CalmMoved DEF Moved, MovedBy
  <2>5. JiraFollowsTickets'  BY <2>2, JiraLasts DEF Moved, NothingTold
  <2> QED  BY <2>3, <2>4, <2>5 DEF Moved
<1>4. ASSUME EffectSteps
      PROVE  /\ op.run \in Isolated /\ delivery[op.run].st = "pending"
             /\ delivery[op.run] \in DeliveryType /\ MovedBy(op.run)
             /\ op.at \in {"select", "write", "mark"} <=> ~delivery[op.run].written
             /\ op.at \in {"write", "mark"} => delivery[op.run].selected
  <2>1. op.kind = "effect"
    BY <1>4 DEF EffectSteps, Select, WriteTickets, MarkWritten, HandToJira,
                CompleteEffect, EffectFails
  <2> QED  BY <1>1, <2>1, EffectOfDelivery DEF Moved
<1>5. CASE Select
  <2>0. PICK d \in Isolated : d = op.run  BY <1>4, <1>5 DEF EffectSteps
  <2>1. d \in Isolated /\ MovedBy(d) /\ delivery[d].st = "pending" /\ ~delivery[d].written
    BY <2>0, <1>4, <1>5 DEF EffectSteps, Select
  <2>2. /\ op'.kind = "effect" /\ op'.run = d /\ op'.at = "write"
        /\ delivery'[d].st = "pending" /\ delivery'[d].selected /\ ~delivery'[d].written
        /\ IF delivery[d].selected THEN delivery'[d].applied = delivery[d].applied
             ELSE delivery'[d].applied = Selectable(d)
        /\ \A e \in Isolated \ {d} : delivery'[e] = delivery[e]
    BY <2>0, <1>5, <2>1, SelectFits
  <2>3. UNCHANGED <<outbox, tickets, hist>>  BY <2>0, <1>5 DEF Select
  <2>4. ASSUME NEW t \in delivery'[d].applied  PROVE t \in Touched(d)' \/ Waits(d, t)'
    BY <2>0, <2>1, <2>2, <2>3 DEF MovedBy, Decided, Touched, Waits, AtMark, Selectable
  <2>5. MovedBy(d)'  BY <2>0, <2>2, <2>4 DEF MovedBy, AtEnd
  <2>6. ASSUME NEW e \in Isolated, e # d  PROVE MovedBy(e)'
    BY <2>0, <2>2, <2>3, <2>6, CalmMoved DEF Moved, MovedBy
  <2>7. JiraFollowsTickets'  BY <2>0, <2>3, JiraLasts DEF Moved, NothingTold
  <2> QED  BY <2>0, <2>5, <2>6, <2>7 DEF Moved
<1>6. CASE WriteTickets
  <2>0. PICK d \in Isolated : d = op.run  BY <1>4, <1>6 DEF EffectSteps
  <2>1. d \in Isolated /\ MovedBy(d) /\ delivery[d].st = "pending" /\ delivery[d].selected
        /\ ~delivery[d].written /\ delivery[d].target \in {"todo", "done"}
    BY <2>0, <1>4, <1>6 DEF EffectSteps, WriteTickets, Fits, DeliveryInv, Decided, DeliveryType
  <2>2. UNCHANGED <<outbox, delivery>> /\ op' = [op EXCEPT !.at = "mark"] /\ op.at = "write"
    BY <2>0, <1>6 DEF WriteTickets
  <2>3. op'.kind = op.kind /\ op'.run = d /\ op'.at = "mark"
    BY <2>0, <1>1, <2>2 DEF OpType
  <2>4. \A t \in delivery[d].applied : tickets[t].status = "on_review" => t \in Touched(d)'
    BY <2>0, <1>6, <2>1, WriteTicketsMoves DEF Touched
  <2>5. Touched(d) \subseteq Touched(d)'
    BY <2>0, <2>1, <2>3 DEF Moves, HistoryGrows, Touched
  <2>6. \A t \in delivery[d].applied : t \in Touched(d)'
    BY <2>0, <2>1, <2>4, <2>5 DEF MovedBy, Decided, Waits
  <2>7. MovedBy(d)'  BY <2>0, <2>1, <2>2, <2>3, <2>6 DEF MovedBy, AtEnd
  <2>8. ASSUME NEW e \in Isolated, e # d  PROVE MovedBy(e)'
    BY <2>0, <2>2, <2>3, <2>8, CalmMoved DEF Moved, MovedBy
  <2>9. JiraFollowsTickets'  BY <2>0, <2>2, JiraLasts DEF Moved, NothingTold
  <2> QED  BY <2>0, <2>7, <2>8, <2>9 DEF Moved
<1>7. CASE MarkWritten
  <2>0. PICK d \in Isolated : d = op.run  BY <1>4, <1>7 DEF EffectSteps
  <2>1. d \in Isolated /\ MovedBy(d) /\ delivery[d].st = "pending" /\ op.at = "mark"
        /\ op.kind = "effect" /\ delivery[d] \in DeliveryType
    BY <2>0, <1>4, <1>7 DEF EffectSteps, MarkWritten
  <2>2. /\ op'.kind = "effect" /\ op'.run = d /\ op'.at = "jira"
        /\ delivery'[d] = [delivery[d] EXCEPT !.written = TRUE]
        /\ \A e \in Isolated \ {d} : delivery'[e] = delivery[e]
    BY <2>0, <1>7, MarkWrittenFits
  <2>3. /\ delivery'[d].applied = delivery[d].applied
        /\ delivery'[d].selected = delivery[d].selected
        /\ delivery'[d].st = "pending"
    BY <2>0, <2>1, <2>2 DEF DeliveryType
  <2>4. UNCHANGED <<outbox, tickets, hist>>  BY <2>0, <1>7 DEF MarkWritten
  <2>5. \A t \in delivery[d].applied : t \in Touched(d)
    BY <2>0, <2>1 DEF MovedBy, Decided, Waits, AtMark
  <2>6. MovedBy(d)'  BY <2>0, <2>1, <2>2, <2>3, <2>4, <2>5 DEF MovedBy, AtEnd, Touched
  <2>7. ASSUME NEW e \in Isolated, e # d  PROVE MovedBy(e)'
    BY <2>0, <2>2, <2>4, <2>7, CalmMoved DEF Moved, MovedBy
  <2>8. JiraFollowsTickets'  BY <2>0, <2>4, JiraLasts DEF Moved, NothingTold
  <2> QED  BY <2>0, <2>6, <2>7, <2>8 DEF Moved
<1>8. CASE HandToJira
  <2>0. PICK d \in Isolated : d = op.run  BY <1>4, <1>8 DEF EffectSteps
  <2> DEFINE told == {<<d, t, delivery[d].target>> : t \in delivery[d].applied}
  <2>1. d \in Isolated /\ MovedBy(d) /\ delivery[d].st = "pending" /\ op.at = "jira"
        /\ delivery[d].written /\ delivery[d].selected
    BY <2>0, <1>4, <1>8 DEF EffectSteps, HandToJira, Fits, DeliveryInv
  <2>2. UNCHANGED <<delivery, tickets, hist>> /\ op' = [op EXCEPT !.at = "complete"]
        /\ outbox' = outbox \cup told
    BY <2>0, <1>8 DEF HandToJira
  <2>3. op'.kind = op.kind /\ op'.run = d /\ op'.at = "complete"
    BY <2>0, <1>1, <2>2 DEF OpType
  <2>4. \A t \in delivery[d].applied : t \in Touched(d)
    BY <2>0, <2>1 DEF MovedBy, Decided, Waits
  <2>5. MovedBy(d)'
    BY <2>0, <2>1, <2>2, <2>4 DEF MovedBy, Touched
  <2>6. ASSUME NEW e \in Isolated, e # d  PROVE MovedBy(e)'
    BY <2>0, <2>2, <2>3, <2>6, CalmMoved DEF Moved, MovedBy
  <2>7. JiraFollowsTickets'
    BY <2>0, <2>2, <2>4 DEF Moved, JiraFollowsTickets, Touched
  <2> QED  BY <2>0, <2>5, <2>6, <2>7 DEF Moved
<1>9. CASE CompleteEffect
  <2>0. PICK d \in Isolated : d = op.run  BY <1>4, <1>9 DEF EffectSteps
  <2>1. d \in Isolated /\ MovedBy(d) /\ delivery[d].st = "pending" /\ AtEnd(d)
        /\ delivery[d].written /\ delivery[d] \in DeliveryType
    BY <2>0, <1>4, <1>9 DEF EffectSteps, CompleteEffect, AtEnd
  <2>2. /\ op' = NoOp
        /\ delivery'[d] = [delivery[d] EXCEPT !.st = "completed"]
        /\ \A e \in Isolated \ {d} : delivery'[e] = delivery[e]
    BY <2>0, <1>9, CompleteFits
  <2>3. /\ delivery'[d].applied = delivery[d].applied
        /\ delivery'[d].selected = delivery[d].selected
        /\ delivery'[d].target = delivery[d].target
    BY <2>0, <2>1, <2>2, StateOnly
  <2>4. UNCHANGED <<outbox, tickets, hist>>  BY <2>0, <1>9 DEF CompleteEffect
  <2>5. \A t \in delivery[d].applied : t \in Touched(d)
    BY <2>0, <2>1 DEF MovedBy, Decided, Waits
  <2>6. MovedBy(d)'  BY <2>0, <2>1, <2>3, <2>4, <2>5 DEF MovedBy, Touched
  <2>7. ASSUME NEW e \in Isolated, e # d  PROVE MovedBy(e)'
    BY <2>0, <2>2, <2>4, <2>7, CalmMoved, NoOpIsIdle DEF Moved, MovedBy
  <2>8. JiraFollowsTickets'  BY <2>0, <2>4, JiraLasts DEF Moved, NothingTold
  <2> QED  BY <2>0, <2>6, <2>7, <2>8 DEF Moved
<1> QED  BY <1>2, <1>3, <1>5, <1>6, <1>7, <1>8, <1>9, CalmCases

-----------------------------------------------------------------------------
(* As long as the ticket file never fails.  The callback of a run that the *)
(* open project knows to have ended has marked its tickets; an effect that *)
(* is not written runs before anything else is admitted, so that nobody    *)
(* takes a ticket from it; what it found on review leaves review.          *)
Heard(d) ==
  runs[d].st = "ended" /\ (server = "up" \/ d \in tried) =>
    Marked(d) \/ (op.kind = "callback" /\ op.run = d /\ op.at = "tickets")

Awaited(d) ==
  delivery[d].st = "pending" /\ ~delivery[d].written =>
    /\ server # "up" \/ (op.kind = "effect" /\ op.run = d)
    /\ \A t \in delivery[d].applied : owner[t] = delivery[d].owners[t]

Carried(d) ==
  Decided(d) =>
    /\ \A t \in Tickets : owner[t] = d => delivery[d].owners[t] = d
    /\ delivery[d].target = "done" => Marked(d)

LeavesReview(d) ==
  Decided(d) /\ delivery[d].target = "done" /\ left.edits = MaxEdits
    /\ delivery[d].selected =>
      \A t \in Owned(d) : tickets[t].status = "on_review" =>
        t \in delivery[d].applied /\ ~delivery[d].written /\ ~AtMark(d)

Whole ==
  left.store = MaxStoreFails =>
    \A d \in Isolated : Heard(d) /\ Awaited(d) /\ Carried(d) /\ LeavesReview(d)

(* What happens between the end of a run and the end of its callback.      *)
Steady ==
  /\ UNCHANGED <<server, tried>>
  /\ \A d \in Isolated : runs'[d].st = "ended" => runs[d].st = "ended"
  /\ op.kind = "callback" /\ op.at = "tickets" => op' = op

LEMMA HeardCases ==
  ASSUME Typed, Fits, [Next]_vars
  PROVE  \/ Restart \/ Crash \/ OpenAdmission \/ ApplyOutcome \/ ApplyOutcomeFails
         \/ \E r \in Runs, outcome \in {"completed", "failed"} :
              EndRun(r, outcome) \/ ReplayCallback(r)
         \/ Steady
<1>0. runs \in [Runs -> RunType]  BY Types DEF Typed
<1>1. CASE Callbacks
  <2>1. CASE \E handed \in BOOLEAN : CommitCallback(handed)
    <3>1. /\ runs' = [runs EXCEPT ![op.run] = [runs[op.run] EXCEPT !.st = "closed"]]
          /\ UNCHANGED <<server, tried>> /\ op.at = "commit"
      BY <2>1 DEF CommitCallback
    <3>2. op.run \in Runs  BY <2>1, CallbackOfRun DEF CommitCallback
    <3>3. \A d \in Isolated : runs'[d].st = "ended" => runs[d].st = "ended"
      BY <1>0, <3>1, <3>2 DEF RunType
    <3> QED  BY <3>1, <3>3 DEF Steady
  <2>2. CASE SettleAddenda \/ SettleAddendaFails \/ RollBackCallback
    BY <2>2 DEF SettleAddenda, SettleAddendaFails, RollBackCallback, Steady
  <2> QED  BY <1>1, <2>1, <2>2 DEF Callbacks
<1>2. CASE EffectSteps
  BY <1>2 DEF EffectSteps, Select, WriteTickets, MarkWritten, HandToJira, CompleteEffect,
              EffectFails, Steady
<1>3. ASSUME op = NoOp, UNCHANGED <<server, tried>>, NEW r \in Runs, NEW new \in RunType,
             runs' = [runs EXCEPT ![r] = new], new.st # "ended"
      PROVE  Steady
  <2>1. \A d \in Isolated : runs'[d].st = "ended" => runs[d].st = "ended"
    BY <1>0, <1>3
  <2> QED  BY <1>3, <2>1, NoOpIsIdle DEF Steady
<1>4. ASSUME op = NoOp, UNCHANGED <<server, tried, runs>>  PROVE Steady
  BY <1>4, NoOpIsIdle DEF Steady
<1>5. ASSUME op = NoOp, UNCHANGED <<server, tried>>, NEW r \in Runs, NEW st \in RunStates,
             runs' = [runs EXCEPT ![r].st = st], st # "ended"
      PROVE  Steady
  <2>1. [runs[r] EXCEPT !.st = st] \in RunType /\ [runs[r] EXCEPT !.st = st].st = st
    BY <1>0, <1>5 DEF RunType
  <2> QED  BY <1>3, <1>5, <2>1
<1>6. ASSUME NEW r \in Runs, NEW ts \in SUBSET Tickets, LaunchJob(r, ts) \/ CheckLaunch(r, ts)
      PROVE  Steady
  <2>1. PICK st \in {"running", "checked"} :
          runs' = [runs EXCEPT ![r] = [runs[r] EXCEPT !.st = st, !.of = ts]]
    BY <1>6 DEF LaunchJob, CheckLaunch
  <2>2. op = NoOp /\ UNCHANGED <<server, tried>>
    BY <1>6 DEF LaunchJob, CheckLaunch, Admits
  <2> DEFINE new == [runs[r] EXCEPT !.st = st, !.of = ts]
  <2>3. new \in RunType /\ new.st # "ended"
    BY <1>0, <1>6, <2>1, ZenonT(60) DEF RunType, RunStates
  <2>4. runs' = [runs EXCEPT ![r] = new]  BY <2>1
  <2> HIDE DEF new
  <2> QED  BY <1>3, <2>2, <2>3, <2>4
<1>7. ASSUME NEW r \in Runs, StartShared(r) \/ RefuseShared(r) \/ AdmitLoop(r) \/ RefuseIsolated(r)
      PROVE  Steady
  <2>1. /\ \E st \in RunStates \ {"ended"} : runs' = [runs EXCEPT ![r].st = st]
        /\ op = NoOp /\ UNCHANGED <<server, tried>>
    BY <1>7 DEF StartShared, RefuseShared, AdmitLoop, RefuseIsolated, Admits, Free, RunStates
  <2> QED  BY <1>5, <2>1
<1>8. ASSUME NEW r \in Isolated, NEW pred, StartIsolated(r, pred)  PROVE Steady
  <2>1. /\ runs' = [runs EXCEPT ![r].st = "launching"]
        /\ op = NoOp /\ UNCHANGED <<server, tried>>
    BY <1>8 DEF StartIsolated, Admits
  <2> QED  BY <1>5, <1>8, <2>1 DEF RunStates
<1>9. ASSUME NEW r \in Runs, NEW t, ClaimJobAddenda(r) \/ AgentStarts(r, t)  PROVE Steady
  BY <1>4, <1>9 DEF ClaimJobAddenda, AgentStarts, Free
<1>10. ASSUME NEW t, NEW s, EditTicket(t, s) \/ ReopenAddendum(t)  PROVE Steady
  BY <1>4, <1>10 DEF EditTicket, ReopenAddendum, Free
<1>11. ASSUME NEW d \in Isolated, NEW target,
              OpenDelivery(d) \/ ReplayEffect(d) \/ Decide(d, target)
       PROVE  Steady
  BY <1>4, <1>11 DEF OpenDelivery, ReplayEffect, Decide, Free, Admits
<1>12. CASE UNCHANGED vars  BY <1>12 DEF Steady
<1> QED
  BY <1>1, <1>2, <1>6, <1>7, <1>8, <1>9, <1>10, <1>11, <1>12
     DEF Next, LaunchSets, Callbacks

LEMMA HeardLasts ==
  ASSUME Typed, Fits, Moves, [Next]_vars,
         left'.store = MaxStoreFails, NEW d \in Isolated, Heard(d)
  PROVE  Heard(d)'
<1> SUFFICES ASSUME runs'[d].st = "ended", server' = "up" \/ d \in tried'
             PROVE  \/ Marked(d)'
                    \/ op'.kind = "callback" /\ op'.run = d /\ op'.at = "tickets"
  BY DEF Heard
<1>1. ASSUME runs[d].st = "ended", Marked(d)  PROVE Marked(d)'
  BY <1>1, OwnedLasts
<1>2. CASE Restart
  BY <1>2 DEF Restart, Fits, CallInv
<1>3. CASE Crash  BY <1>3 DEF Crash
<1>4. CASE OpenAdmission
  <2>1. runs[d].st = "ended" /\ d \in tried /\ op = NoOp
    BY <1>4 DEF OpenAdmission, Free
  <2> QED  BY <1>1, <2>1, NoOpIsIdle DEF Heard
<1>5. CASE ApplyOutcome
  <2>1. /\ op.kind = "callback" /\ op.at = "tickets" /\ UNCHANGED <<runs, owner, server, tried>>
        /\ tickets' = [t \in Tickets |-> IF t \in Owned(op.run)
                         THEN OutcomeOn(tickets[t], op.run) ELSE tickets[t]]
    BY <1>5 DEF ApplyOutcome
  <2>2. CASE op.run = d
    <3>1. ASSUME NEW t \in Owned(d)'  PROVE tickets'[t].marker = d
      <4>1. t \in Owned(d) /\ t \in Tickets
        BY <2>1, OwnedLasts
      <4>2. tickets'[t] = OutcomeOn(tickets[t], d) /\ tickets[t] \in TicketType
        BY <2>1, <2>2, <4>1, Types DEF Typed
      <4> QED  BY <4>2, OutcomeDoes
    <3> QED  BY <3>1 DEF Marked
  <2>3. CASE op.run # d  BY <1>1, <2>1, <2>3 DEF Heard
  <2> QED  BY <2>2, <2>3
<1>6. CASE ApplyOutcomeFails
  BY <1>6, SpendDoes DEF ApplyOutcomeFails, Typed
<1>7. ASSUME NEW r \in Runs, NEW outcome \in {"completed", "failed"},
             EndRun(r, outcome) \/ ReplayCallback(r)
      PROVE  \/ Marked(d)'
             \/ op'.kind = "callback" /\ op'.run = d /\ op'.at = "tickets"
  <2>1. /\ op'.kind = "callback" /\ op'.run = r /\ op'.at = "tickets"
        /\ op = NoOp /\ server' = server /\ tried' \subseteq tried \cup {r}
    BY <1>7 DEF EndRun, ReplayCallback, CallBack, Free
  <2>2. ASSUME d # r  PROVE runs[d].st = "ended"
    <3>1. CASE EndRun(r, outcome)
      <4>1. runs' = [runs EXCEPT ![r] = [runs[r] EXCEPT !.st = "ended", !.outcome = outcome]]
        BY <3>1 DEF EndRun
      <4> QED  BY <2>2, <4>1, Types DEF Typed
    <3>2. CASE ReplayCallback(r)  BY <3>2 DEF ReplayCallback
    <3> QED  BY <1>7, <3>1, <3>2
  <2> QED  BY <1>1, <2>1, <2>2, NoOpIsIdle DEF Heard
<1>8. CASE Steady
  BY <1>1, <1>8 DEF Steady, Heard
<1> QED  BY <1>2, <1>3, <1>4, <1>5, <1>6, <1>7, <1>8, HeardCases

(* A running effect goes on, fails, or dies with the server.               *)
LEMMA EffectCases ==
  ASSUME Typed, Fits, [Next]_vars
  PROVE  /\ op.kind = "effect" => EffectSteps \/ server' = "down" \/ UNCHANGED vars
         /\ server' = "up" => server = "up" \/ OpenAdmission
<1>1. ASSUME op.kind = "effect"  PROVE EffectSteps \/ server' = "down" \/ UNCHANGED vars
  <2>1. op # NoOp  BY <1>1, NoOpIsIdle
  <2> QED
    BY <1>1, <2>1, EffectOfDelivery
       DEF Next, Callbacks, ApplyOutcome, ApplyOutcomeFails, SettleAddenda,
           SettleAddendaFails, RollBackCallback, CommitCallback, LaunchJob, CheckLaunch,
           StartIsolated, StartShared, RefuseShared, ClaimJobAddenda, AdmitLoop,
           RefuseIsolated, ReplayCallback, EndRun, EditTicket, ReopenAddendum,
           AgentStarts, OpenDelivery, ReplayEffect, Decide, Crash, Restart,
           OpenAdmission, Free, Admits
<1>2. server' = "up" => server = "up" \/ OpenAdmission
  BY HeardCases
     DEF Restart, Crash, ApplyOutcome, ApplyOutcomeFails, EndRun, ReplayCallback, Steady
<1> QED  BY <1>1, <1>2

(* The steps of an effect, one after the other.                            *)
LEMMA EffectSame ==
  ASSUME Typed, Fits, Select \/ WriteTickets \/ MarkWritten \/ HandToJira \/ CompleteEffect
  PROVE  /\ op.kind = "effect" /\ op.run \in Isolated /\ UNCHANGED <<owner, server, runs>>
         /\ \A e \in Isolated \ {op.run} : delivery'[e] = delivery[e]
         /\ op'.kind = "effect" => op'.run = op.run
<1>1. op.kind = "effect" /\ UNCHANGED <<owner, server, runs>>
  BY DEF Select, WriteTickets, MarkWritten, HandToJira, CompleteEffect
<1>2. op.run \in Isolated /\ op \in OpType  BY <1>1, EffectOfDelivery, OpTyped
<1>3. CASE Select  BY <1>1, <1>2, <1>3, SelectFits
<1>4. CASE MarkWritten  BY <1>1, <1>2, <1>4, MarkWrittenFits
<1>5. CASE CompleteEffect  BY <1>1, <1>2, <1>5, CompleteFits, NoOpIsIdle
<1>6. CASE WriteTickets \/ HandToJira
  BY <1>1, <1>2, <1>6 DEF WriteTickets, HandToJira, OpType
<1> QED  BY <1>3, <1>4, <1>5, <1>6

LEMMA AwaitedLasts ==
  ASSUME Typed, Fits, Moves, [Next]_vars, left'.store = MaxStoreFails,
         NEW d \in Isolated, Awaited(d)
  PROVE  Awaited(d)'
<1> SUFFICES ASSUME delivery'[d].st = "pending", ~delivery'[d].written
             PROVE  /\ server' # "up" \/ (op'.kind = "effect" /\ op'.run = d)
                    /\ \A t \in delivery'[d].applied : owner'[t] = delivery'[d].owners[t]
  BY DEF Awaited
<1>0. op \in OpType /\ delivery[d] \in DeliveryType  BY OpTyped, Types DEF Typed
<1>1. ASSUME op # NoOp \/ server # "up"  PROVE \A t \in Tickets : owner'[t] = owner[t]
  BY <1>1 DEF Moves, OwnersMove
<1>2. ASSUME NEW e \in Isolated, NEW target \in {"todo", "done"}, Decide(e, target)
      PROVE  /\ op'.kind = "effect" /\ op'.run = d
             /\ \A t \in delivery'[d].applied : owner'[t] = delivery'[d].owners[t]
  <2>1. /\ op = NoOp /\ server = "up" /\ op'.kind = "effect" /\ op'.run = e
    BY <1>2 DEF Decide, Effect, Admits
  <2>2. CASE e = d  BY <1>2, <2>1, <2>2, DecideFits
  <2>3. CASE e # d
    <3>1. delivery'[d] = delivery[d]  BY <1>2, <2>3, DecideFits
    <3> QED  BY <2>1, <3>1, NoOpIsIdle DEF Awaited
  <2> QED  BY <2>2, <2>3
<1>3. CASE Select \/ WriteTickets \/ MarkWritten \/ HandToJira \/ CompleteEffect
  <2>1. op.kind = "effect" /\ UNCHANGED <<owner, server>>  BY <1>3, EffectSame
  <2>2. CASE op.run # d
    <3>1. delivery'[d] = delivery[d]  BY <1>3, <2>2, EffectSame
    <3> QED  BY <2>1, <2>2, <3>1 DEF Awaited
  <2>3. CASE op.run = d /\ Select
    <3>1. /\ op'.kind = "effect" /\ op'.run = d
          /\ delivery'[d].owners = delivery[d].owners
          /\ delivery'[d].written = delivery[d].written
          /\ delivery'[d].applied \in {delivery[d].applied, Selectable(d)}
      BY <2>3, SelectFits
    <3>2. delivery[d].st = "pending"  BY <2>1, <2>3, EffectOfDelivery
    <3> QED  BY <2>1, <3>1, <3>2 DEF Awaited, Selectable
  <2>4. CASE op.run = d /\ WriteTickets
    <3>1. UNCHANGED <<owner, delivery>> /\ op'.kind = "effect" /\ op'.run = d
      BY <1>0, <2>1, <2>4 DEF WriteTickets, OpType
    <3> QED  BY <3>1 DEF Awaited
  <2>5. CASE op.run = d /\ MarkWritten
    <3>1. delivery'[d].written  BY <1>0, <2>5, MarkWrittenFits DEF DeliveryType
    <3> QED  BY <3>1
  <2>6. CASE op.run = d /\ HandToJira
    <3>1. op.at = "jira" /\ delivery' = delivery  BY <2>6 DEF HandToJira
    <3> QED  BY <2>1, <2>6, <3>1, EffectOfDelivery
  <2>7. CASE op.run = d /\ CompleteEffect
    <3>1. delivery'[d].st = "completed"  BY <1>0, <2>7, CompleteFits, StateOnly
    <3> QED  BY <3>1
  <2> QED  BY <1>3, <2>2, <2>3, <2>4, <2>5, <2>6, <2>7
<1>4. CASE Calm /\ ~(Select \/ WriteTickets \/ MarkWritten \/ HandToJira \/ CompleteEffect)
  <2>1. delivery'[d] = delivery[d]  BY <1>4 DEF Calm, Decided
  <2>2. delivery[d].applied \subseteq Tickets  BY <1>0 DEF DeliveryType
  <2>3. CASE server # "up"
    <3>1. ~OpenAdmission  BY <2>1 DEF OpenAdmission
    <3> QED  BY <1>1, <2>1, <2>2, <2>3, <3>1, EffectCases DEF Awaited
  <2>4. CASE op.kind = "effect" /\ op.run = d
    <3>1. op # NoOp  BY <2>4, NoOpIsIdle
    <3>2. ~EffectFails
      <4>1. ASSUME EffectFails  PROVE op.at = "jira"
        BY <4>1, SpendDoes DEF EffectFails, Typed
      <4> QED  BY <2>1, <2>4, <4>1, EffectOfDelivery
    <3>3. server' = "down" \/ UNCHANGED vars
      BY <1>4, <2>4, <3>2, EffectCases DEF EffectSteps
    <3> QED  BY <1>1, <2>1, <2>2, <2>4, <3>1, <3>3 DEF Awaited
  <2> QED  BY <2>1, <2>3, <2>4 DEF Awaited
<1> QED  BY <1>2, <1>3, <1>4, CalmCases

(* A decision that was taken keeps its owners and its target.              *)
LEMMA DecisionStays ==
  ASSUME Typed, Fits, [Next]_vars, NEW d \in Isolated, Decided(d)'
  PROVE  \/ \E target \in {"todo", "done"} : Decide(d, target)
         \/ /\ Decided(d) /\ delivery'[d].owners = delivery[d].owners
            /\ delivery'[d].target = delivery[d].target
<1>1. delivery[d] \in DeliveryType  BY Types DEF Typed
<1>2. CASE Calm  BY <1>2 DEF Calm, Decided
<1>3. ASSUME NEW e \in Isolated, NEW target \in {"todo", "done"}, Decide(e, target), e # d
      PROVE  delivery'[d] = delivery[d]
  BY <1>3, DecideFits
<1>4. CASE Select \/ WriteTickets \/ MarkWritten \/ HandToJira \/ CompleteEffect
  <2>1. op.kind = "effect"  BY <1>4, EffectSame
  <2>2. CASE op.run # d
    <3>1. delivery'[d] = delivery[d]  BY <1>4, <2>2, EffectSame
    <3> QED  BY <3>1 DEF Decided
  <2>3. CASE op.run = d
    <3>1. Decided(d)  BY <2>1, <2>3, EffectOfDelivery DEF Decided
    <3>2. CASE Select  BY <2>3, <3>1, <3>2, SelectFits
    <3>3. CASE MarkWritten
      BY <1>1, <2>3, <3>1, <3>3, MarkWrittenFits DEF DeliveryType
    <3>4. CASE CompleteEffect  BY <1>1, <2>3, <3>1, <3>4, CompleteFits, StateOnly
    <3>5. CASE WriteTickets \/ HandToJira
      BY <3>1, <3>5 DEF WriteTickets, HandToJira
    <3> QED  BY <1>4, <3>2, <3>3, <3>4, <3>5
  <2> QED  BY <2>2, <2>3
<1> QED  BY <1>2, <1>3, <1>4, CalmCases DEF Decided

LEMMA CarriedLasts ==
  ASSUME Typed, Fits, ClosedInv, Moves, [Next]_vars, NEW d \in Isolated, Heard(d),
         Carried(d)
  PROVE  Carried(d)'
<1> SUFFICES ASSUME Decided(d)'
             PROVE  /\ \A t \in Tickets : owner'[t] = d => delivery'[d].owners[t] = d
                    /\ delivery'[d].target = "done" => Marked(d)'
  BY DEF Carried
<1>1. ASSUME NEW target \in {"todo", "done"}, Decide(d, target)
      PROVE  /\ \A t \in Tickets : owner'[t] = d => delivery'[d].owners[t] = d
             /\ delivery'[d].target = "done" => Marked(d)'
  <2>1. /\ op = NoOp /\ server = "up" /\ UNCHANGED <<owner, runs, tickets>>
        /\ target = "done" => runs[d].outcome = "completed"
    BY <1>1 DEF Decide, Admits
  <2>2. delivery'[d].owners = owner /\ delivery'[d].target = target
    BY <1>1, DecideFits
  <2>3. ASSUME target = "done"  PROVE Marked(d)
    <3>1. runs[d].st \in {"ended", "closed"}
      BY <2>1, <2>3 DEF Fits, RunInv
    <3>2. CASE runs[d].st = "ended"
      BY <2>1, <3>2, NoOpIsIdle DEF Heard
    <3>3. CASE runs[d].st = "closed"
      BY <3>3 DEF ClosedInv
    <3> QED  BY <3>1, <3>2, <3>3
  <2> QED  BY <2>1, <2>2, <2>3 DEF Marked, Owned
<1>2. CASE /\ Decided(d) /\ delivery'[d].owners = delivery[d].owners
           /\ delivery'[d].target = delivery[d].target
  <2>1. runs[d].st \in {"ended", "closed", "refused"}
    BY <1>2, DecidedRun DEF Decided
  <2>2. \A t \in Tickets : owner'[t] = d => owner[t] = d
    BY <2>1 DEF Moves, OwnersMove
  <2>3. ASSUME delivery[d].target = "done"  PROVE Marked(d)'
    <3>1. runs[d].st \in {"ended", "closed"}
      BY <1>2, <2>3 DEF Fits, DeliveryInv, RunInv
    <3> QED  BY <1>2, <2>3, <3>1, OwnedLasts DEF Carried
  <2> QED  BY <1>2, <2>2, <2>3 DEF Carried
<1> QED  BY <1>1, <1>2, DecisionStays

(* A ticket of a merged delivery comes back to review only by an edit.     *)
LEMMA NotBackOnReview ==
  ASSUME Typed, Fits, Moves, NEW d \in Isolated, runs[d].st \in {"ended", "closed"},
         Marked(d), left'.edits = MaxEdits, NEW t \in Owned(d)',
         tickets'[t].status = "on_review"
  PROVE  t \in Owned(d) /\ tickets[t].status = "on_review"
<1>1. t \in Owned(d) /\ t \in Tickets  BY OwnedLasts
<1>2. ~(Outcome(t) /\ tickets[t].marker # op.run)
  BY <1>1 DEF Outcome, Owned, Marked
<1> QED  BY <1>1, <1>2 DEF Moves, TicketsMove

LEMMA LeavesReviewLasts ==
  ASSUME Typed, Fits, Moves, [Next]_vars, NEW d \in Isolated, Carried(d), LeavesReview(d)
  PROVE  LeavesReview(d)'
<1> SUFFICES ASSUME Decided(d)', delivery'[d].target = "done", left'.edits = MaxEdits,
                    delivery'[d].selected,
                    NEW t \in Owned(d)', tickets'[t].status = "on_review"
             PROVE  t \in delivery'[d].applied /\ ~delivery'[d].written /\ ~AtMark(d)'
  BY DEF LeavesReview
<1>1. /\ \A target \in {"todo", "done"} : ~Decide(d, target)
  BY DecideFits
<1>2. /\ Decided(d) /\ delivery[d].target = "done" /\ left.edits = MaxEdits
  BY <1>1, DecisionStays DEF Moves, LeftShrinks
<1>3. runs[d].st \in {"ended", "closed"} /\ Marked(d)
  BY <1>2 DEF Fits, DeliveryInv, RunInv, Carried
<1>4. t \in Owned(d) /\ tickets[t].status = "on_review"
  BY <1>2, <1>3, NotBackOnReview
<1>5. /\ delivery[d].selected =>
           t \in delivery[d].applied /\ ~delivery[d].written /\ ~AtMark(d)
  BY <1>2, <1>4 DEF LeavesReview
<1>6. delivery[d] \in DeliveryType /\ op \in OpType  BY OpTyped, Types DEF Typed
<1>7. CASE Calm  BY <1>5, <1>7 DEF Calm, AtMark
<1>8. ASSUME NEW e \in Isolated, NEW target \in {"todo", "done"}, Decide(e, target), e # d
      PROVE  t \in delivery'[d].applied /\ ~delivery'[d].written /\ ~AtMark(d)'
  <2>1. delivery'[d] = delivery[d] /\ op'.at # "mark"
    BY <1>8, DecideFits DEF Decide, Effect
  <2> QED  BY <1>5, <2>1 DEF AtMark
<1>9. CASE Select \/ WriteTickets \/ MarkWritten \/ HandToJira \/ CompleteEffect
  <2>1. op.kind = "effect"  BY <1>9, EffectSame
  <2>2. CASE op.run # d
    <3>1. delivery'[d] = delivery[d] /\ ~AtMark(d)'
      BY <1>9, <2>2, EffectSame DEF AtMark
    <3> QED  BY <1>5, <3>1
  <2>3. CASE op.run = d /\ Select
    <3>1. /\ ~AtMark(d)' /\ delivery'[d].written = delivery[d].written
          /\ IF delivery[d].selected THEN delivery'[d].applied = delivery[d].applied
               ELSE delivery'[d].applied = Selectable(d)
      BY <2>3, SelectFits DEF AtMark
    <3>2. CASE delivery[d].selected  BY <1>5, <3>1, <3>2
    <3>3. CASE ~delivery[d].selected
      <4>1. t \in Tickets /\ owner[t] = d /\ t \in runs[d].of
        BY <1>4, Types DEF Typed, RunType, Owned
      <4>2. delivery[d].owners[t] = d  BY <1>2, <4>1 DEF Carried
      <4>3. delivery[d].of = runs[d].of /\ ~delivery[d].written
        BY <1>2, <3>3 DEF Fits, DeliveryInv, Decided
      <4>4. d # None  BY NoneIsNoRun
      <4> QED  BY <1>4, <3>1, <3>3, <4>1, <4>2, <4>3, <4>4 DEF Selectable
    <3> QED  BY <3>2, <3>3
  <2>4. CASE op.run = d /\ WriteTickets
    <3>1. UNCHANGED delivery  BY <2>4 DEF WriteTickets
    <3>2. t \in delivery[d].applied  BY <1>5, <3>1
    <3>3. delivery[op.run].target \in {"todo", "done"} /\ op.run \in Isolated
      BY <1>2, <2>4
    <3> QED  BY <1>4, <2>4, <3>2, <3>3, WriteTicketsMoves
  <2>5. CASE op.run = d /\ MarkWritten
    <3>1. op.at = "mark" /\ delivery[d].selected
      BY <2>1, <2>5, EffectOfDelivery DEF MarkWritten
    <3> QED  BY <1>5, <2>1, <2>5, <3>1 DEF AtMark
  <2>6. CASE op.run = d /\ HandToJira
    <3>1. op.at = "jira" /\ UNCHANGED delivery  BY <2>6 DEF HandToJira
    <3>2. delivery[d].written  BY <2>1, <2>6, <3>1, EffectOfDelivery
    <3> QED  BY <1>5, <3>1, <3>2
  <2>7. CASE op.run = d /\ CompleteEffect
    <3>1. op.at = "complete"  BY <2>7 DEF CompleteEffect
    <3>2. delivery[d].written  BY <2>1, <2>7, <3>1, EffectOfDelivery
    <3> QED  BY <1>5, <3>2 DEF Fits, DeliveryInv
  <2> QED  BY <1>9, <2>2, <2>3, <2>4, <2>5, <2>6, <2>7
<1> QED  BY <1>1, <1>7, <1>8, <1>9, CalmCases

LEMMA WholeLasts ==
  ASSUME Typed, Fits, ClosedInv, Moves, Whole, [Next]_vars  PROVE Whole'
<1> SUFFICES ASSUME left'.store = MaxStoreFails, NEW d \in Isolated
             PROVE  Heard(d)' /\ Awaited(d)' /\ Carried(d)' /\ LeavesReview(d)'
  BY DEF Whole
<1>1. Heard(d) /\ Awaited(d) /\ Carried(d) /\ LeavesReview(d)
  BY DEF Whole, Moves, LeftShrinks
<1> QED  BY <1>1, HeardLasts, AwaitedLasts, CarriedLasts, LeavesReviewLasts

-----------------------------------------------------------------------------
(* The inductive invariant.                                                *)
Inv == Typed /\ Fits /\ Settled /\ Moved /\ Whole

LEMMA InitInv == Init => Inv
<1> SUFFICES ASSUME Init  PROVE Inv
  OBVIOUS
<1>1. /\ op = NoOp /\ server = "up" /\ tried = {} /\ outbox = {} /\ tracked = {}
      /\ owner = [t \in Tickets |-> None] /\ rail = [t \in Tickets |-> None]
  BY DEF Init
<1>2. /\ runs \in [Runs -> RunType]
      /\ \A r \in Runs : runs[r].st = "none" /\ runs[r].of = {} /\ runs[r].outcome = "none"
  BY DEF Init, RunType, RunStates
<1>3. /\ delivery \in [Isolated -> DeliveryType]
      /\ \A d \in Isolated : /\ delivery[d].st = "none" /\ delivery[d].applied = {}
                             /\ ~delivery[d].selected /\ ~delivery[d].written
  BY DEF Init, DeliveryType, DeliveryStates
<1>4. /\ tickets \in [Tickets -> TicketType]
      /\ \A t \in Tickets : tickets[t].addendum = "open"
  BY DEF Init, TicketType, Statuses
<1>5. /\ HistType /\ hist.twice = {}
      /\ \A r \in Runs : hist.applied[r] = {}
  BY DEF Init, HistType
<1>6. LeftType
  BY BoundsAssumption DEF Init, LeftType
<1>7. NoOp \in OpType  BY DEF NoOp, OpType
<1>8. TypeOK
  BY <1>1, <1>2, <1>3, <1>4, <1>7 DEF TypeOK, RunType, DeliveryType, TicketType, OpType
<1>9. Fits
  BY <1>1, <1>2, <1>3 DEF Fits, CallInv, RunInv, NoneWaits, DeliveryInv, Decided, PredInv
<1>10. Settled
  BY <1>1, <1>2, <1>4, <1>5, NoOpIsIdle
     DEF Settled, ClaimInv, InFlight, OnceInv, OutcomeOnce, CallbackInv, ClosedInv
<1>11. Moved
  BY <1>1, <1>3, NoOpIsIdle DEF Moved, JiraFollowsTickets, MovedBy, Decided, AtEnd
<1>12. Whole
  BY <1>2, <1>3 DEF Whole, Heard, Awaited, Carried, LeavesReview, Decided
<1> QED  BY <1>5, <1>6, <1>8, <1>9, <1>10, <1>11, <1>12 DEF Inv, Typed

LEMMA NextInv == Inv /\ [Next]_vars => Inv'
<1> SUFFICES ASSUME Inv, [Next]_vars  PROVE Inv'
  OBVIOUS
<1>1. Typed' /\ Moves /\ Fits'  BY StepMoves DEF Inv
<1>2. ClaimInv' /\ OnceInv' /\ ClosedInv'
  BY <1>1, ClaimLasts, OnceLasts, ClosedLasts DEF Inv, Settled
<1>3. CallbackInv'  BY <1>1, <1>2, CallbackLasts DEF Inv, Settled
<1>4. Moved'  BY <1>1, MovedLasts DEF Inv
<1>5. Whole'  BY <1>1, WholeLasts DEF Inv, Settled
<1> QED  BY <1>1, <1>2, <1>3, <1>4, <1>5 DEF Inv, Settled

LEMMA InvAlways == Spec => []Inv
BY InitInv, NextInv, PTL DEF Spec

-----------------------------------------------------------------------------
(* The state is well formed; the outcome of a run changes a ticket once,   *)
(* however often its callback is replayed over crashes and failures; and   *)
(* Jira is told only of tickets the effect moved, or somebody else moved   *)
(* after they were selected.                                               *)
THEOREM ConsistentAlways == Spec => []Consistent
<1>1. Inv => Consistent
  BY DEF Inv, Typed, Settled, OnceInv, Moved, Consistent
<1> QED  BY <1>1, InvAlways, PTL

(* A run whose callback is checkpointed has left nothing behind: each      *)
(* ticket it still owns is marked and off its rail, and none of its        *)
(* addenda is in flight unless their settlement failed.                    *)
THEOREM SettledCompletelyAlways == Spec => []SettledCompletely
<1>1. Inv => SettledCompletely
  BY DEF Inv, Settled, ClosedInv, Marked, NoClaim, InFlight, SettledCompletely
<1> QED  BY <1>1, InvAlways, PTL

(* A completed effect has done what its decision asked for: the tickets it *)
(* selected were moved and Jira told, and, where neither the ticket file   *)
(* failed nor a status was edited, no ticket of a merged delivery is left  *)
(* on review.                                                              *)
THEOREM DecisionTakesEffectAlways == Spec => []DecisionTakesEffect
<1>1. ASSUME Inv  PROVE SelectedAreMoved
  BY <1>1 DEF Inv, Fits, DeliveryInv, Moved, MovedBy, Decided, Waits, Touched,
              SelectedAreMoved
<1>2. ASSUME Inv, left.store = MaxStoreFails  PROVE ReachesDone
  <2> SUFFICES ASSUME NEW d \in Isolated, delivery[d].st = "completed",
                      delivery[d].target = "done", left.edits = MaxEdits,
                      NEW t \in Owned(d), tickets[t].status = "on_review"
               PROVE  FALSE
    BY DEF ReachesDone
  <2>1. LeavesReview(d) /\ Fits  BY <1>2 DEF Inv, Whole
  <2> QED  BY <2>1 DEF LeavesReview, Fits, DeliveryInv, Decided
<1>3. Inv => DecisionTakesEffect
  BY <1>1, <1>2 DEF DecisionTakesEffect, MergedReachesDone
<1> QED  BY <1>3, InvAlways, PTL

(* Only the write of an effect moves tickets for a delivery.               *)
LEMMA OnlyWritesMove ==
  ASSUME Typed, Fits, [Next]_vars  PROVE hist'.moved = hist.moved \/ WriteTickets
<1>1. HistType  BY DEF Typed
<1>2. CASE ApplyOutcome
  <2> DEFINE now == {t \in Tickets : tickets'[t] # tickets[t]}
             ts == {t \in now : tickets'[t].status # tickets[t].status}
             h == Edited(ts)
  <2>1. hist' = [h EXCEPT !.applied[op.run] = @ \cup now,
                          !.twice = @ \cup (now \cap hist.applied[op.run])]
    BY <1>2 DEF ApplyOutcome
  <2>2. h.moved = hist.moved /\ h \in [applied : [Runs -> SUBSET Tickets],
           twice : SUBSET Tickets, moved : [Isolated -> SUBSET Tickets],
           edited : [Isolated -> SUBSET Tickets], unsettled : SUBSET Runs]
    BY <1>1, EditedDoes
  <2> HIDE DEF h, now
  <2> QED  BY <2>1, <2>2
<1>3. ASSUME NEW t \in Tickets, NEW s, EditTicket(t, s)  PROVE hist'.moved = hist.moved
  BY <1>1, <1>3, EditedDoes DEF EditTicket
<1>4. CASE SettleAddendaFails
  BY <1>1, <1>4 DEF SettleAddendaFails, HistType
<1>5. CASE UNCHANGED hist  BY <1>5
<1> QED
  BY <1>2, <1>3, <1>4, <1>5
     DEF Next, Callbacks, EffectSteps, ApplyOutcomeFails, SettleAddenda,
         RollBackCallback, CommitCallback, LaunchJob, CheckLaunch, StartIsolated,
         StartShared, RefuseShared, ClaimJobAddenda, AdmitLoop, RefuseIsolated,
         ReplayCallback, EndRun, ReopenAddendum, AgentStarts, OpenDelivery,
         ReplayEffect, Decide, Select, MarkWritten, HandToJira, CompleteEffect,
         EffectFails, Crash, Restart, OpenAdmission

(* As long as the ticket file does not fail, an effect moves a ticket only *)
(* for the run that owned it when the decision was taken, across crashes   *)
(* and replays between the selection and the write.                        *)
THEOREM EffectOfItsIterationAlways == Spec => EffectOfItsIteration
<1>1. ASSUME Inv, [Next]_vars, left.store = MaxStoreFails  PROVE OfItsIteration
  <2> SUFFICES ASSUME NEW d \in Isolated, NEW t \in hist'.moved[d] \ hist.moved[d]
               PROVE  owner[t] = delivery[d].owners[t]
    BY DEF OfItsIteration
  <2>1. Typed /\ Fits /\ Awaited(d)  BY <1>1 DEF Inv, Whole
  <2>2. WriteTickets  BY <1>1, <2>1, OnlyWritesMove
  <2>3. op.kind = "effect" /\ op.at = "write"  BY <2>2 DEF WriteTickets
  <2>4. /\ op.run \in Isolated /\ delivery[op.run].st = "pending"
        /\ ~delivery[op.run].written
    BY <2>1, <2>3, EffectOfDelivery
  <2>5. delivery[op.run].target \in {"todo", "done"}
    BY <2>1, <2>4, Types DEF Typed, Fits, DeliveryInv, Decided, DeliveryType
  <2>6. t \in Tickets
    <3>1. Typed'  BY <1>1, StepMoves, <2>1
    <3> QED  BY <3>1 DEF Typed, HistType
  <2>7. d = op.run /\ t \in delivery[d].applied
    BY <2>1, <2>2, <2>4, <2>5, <2>6, WriteTicketsMoves
  <2> QED  BY <2>1, <2>4, <2>7 DEF Awaited
<1>2. Inv /\ [Next]_vars => [left.store = MaxStoreFails => OfItsIteration]_vars
  BY <1>1
<1> QED  BY <1>2, InvAlways, PTL DEF Spec, EffectOfItsIteration
=============================================================================
