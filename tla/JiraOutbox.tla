----------------------------- MODULE JiraOutbox -----------------------------
(***************************************************************************)
(* The synchronisation of one project's tickets with Jira                  *)
(* (server/jira/jira-sync-manager.ts over server/jira/jira-db.ts).         *)
(*                                                                         *)
(* What is to be written to Jira is a row of an outbox that survives the   *)
(* server.  A drain claims the oldest live row of every issue and executes *)
(* the claimed rows concurrently; each is a few requests, whose answers    *)
(* may be refusals, may come late or never.  Meanwhile a poll reads the    *)
(* issues back into the ticket file, except the tickets that had a live    *)
(* row when it began.                                                      *)
(*                                                                         *)
(* A step is what runs between two awaits, or what Jira does on a request. *)
(* A request that timed out or whose sender died is not executed later.    *)
(***************************************************************************)
EXTENDS Naturals, Sequences, FiniteSets, FiniteSetsExt

CONSTANTS
  Ticket,        \* the tickets of the project
  Imported,      \* those that came from Jira and are linked to their issue
  Status,        \* the statuses of the workflow
  New,           \* the status of a new ticket and of a new issue
  Edge,          \* the transitions of the workflow, pairs of statuses
  Changes,       \* the sets of fields that one edit of a ticket can change
  MaxAttempts,   \* MAX_OUTBOX_ATTEMPTS
  MaxOps,        \* bound on the rows of the outbox
  MaxEvents,     \* bound on failed, refused and lost requests, retries
                 \* by hand, deaths of the server, moves of people in Jira,
                 \* expired tokens and polls, taken together
  MaxLoad        \* bound on the rows and these events taken together

\* The fields that are written back; the description goes as the title does.
Field == {"summary", "labels", "priority"}

ASSUME JiraAssumption ==
  /\ IsFiniteSet(Ticket) /\ New \in Status /\ Edge \subseteq Status \X Status
  /\ Changes \subseteq SUBSET Field
  /\ MaxAttempts \in Nat \ {0, 1} /\ MaxOps \in Nat /\ MaxEvents \in Nat
  /\ MaxLoad \in Nat

VARIABLES
  box,           \* jira_outbox
  own,           \* jira_links: the issue of a ticket, 0 for none
  twins,         \* jira_links: its issues that the poll gave another ticket
  cache,         \* the status in the ticket file
  highWater,     \* highWaterMs
  stored,        \* the stored token
  paused,        \* authPaused
  drain,         \* the token of the running drain, 0 for none (drainPromise)
  work,          \* where the execution of each claimed row stands
  poll,          \* the running poll
  issues,        \* Jira: how many issues were created for a ticket
  status,        \* Jira: the status of the ticket's issue
  updated,       \* Jira: when it changed last
  text,          \* Jira: the edit that each field of an issue shows
  posted,        \* Jira: how often the comment of a row was posted
  token,         \* Jira: the token it accepts
  newest,        \* the row of the last transition made on an issue
  dropped,       \* the newest priority left out because Jira refused it
  overtaken,     \* the fields of which an edit was put behind a newer one
  events, crashes

db == <<box, own, twins, cache, highWater, stored>>
memory == <<paused, drain, work, poll>>
jira == <<issues, status, updated, text, posted, token, newest, dropped>>
bounds == <<events, crashes>>
vars == <<db, memory, jira, overtaken, bounds>>

Ops == 1..MaxOps
Kinds == {"create", "comment", "transition", "update"}
Live == {"pending", "inflight"}
Idle == [at |-> "none"]
NoPoll == [at |-> "none"]

\* Of each field the edit it has, named by the row made for it; 0 for none.
Edits == [Field -> 0..MaxOps]
Blank == [f \in Field |-> 0]

Row(t, k, s, e) == [ticket |-> t, kind |-> k, to |-> s, edits |-> e,
                    state |-> "pending", attempts |-> 0, due |-> TRUE]

Rows == [ticket : Ticket, kind : Kinds, to : Status, edits : Edits,
         state : Live \cup {"done", "dead", "superseded"},
         attempts : Nat, due : BOOLEAN]

TypeOK ==
  /\ box \in Seq(Rows) /\ Len(box) <= MaxOps
  /\ own \in [Ticket -> Nat] /\ twins \in [Ticket -> SUBSET Nat]
  /\ cache \in [Ticket -> Status] /\ highWater \in Nat
  /\ stored \in Nat /\ paused \in BOOLEAN /\ drain \in Nat
  /\ \A o \in Ops : work[o].at \in {"none", "read", "got", "write", "rest", "acked"}
  /\ poll.at \in {"none", "sent", "got"}
  /\ issues \in [Ticket -> Nat] /\ status \in [Ticket -> Status]
  /\ updated \in [Ticket -> Nat] /\ text \in [Ticket -> Edits]
  /\ posted \in [Ops -> Nat] /\ token \in Nat
  /\ newest \in [Ticket -> 0..MaxOps] /\ dropped \in [Ticket -> 0..MaxOps]
  /\ overtaken \subseteq Ticket \X Field

Init ==
  /\ box = <<>> /\ highWater = 0 /\ stored = 1 /\ token = 1
  /\ own = [t \in Ticket |-> IF t \in Imported THEN 1 ELSE 0]
  /\ issues = own /\ updated = own
  /\ twins = [t \in Ticket |-> {}]
  /\ cache = [t \in Ticket |-> New] /\ status = [t \in Ticket |-> New]
  /\ paused = FALSE /\ drain = 0 /\ poll = NoPoll
  /\ work = [o \in Ops |-> Idle]
  /\ text = [t \in Ticket |-> Blank] /\ posted = [o \in Ops |-> 0]
  /\ newest = [t \in Ticket |-> 0] /\ dropped = newest /\ overtaken = {}
  /\ events = 0 /\ crashes = 0

\* One of the bounded events.
Event == /\ events < MaxEvents /\ Len(box) + events < MaxLoad
         /\ events' = events + 1

\* There is room for n more rows.
Room(n) == Len(box) + n <= MaxOps /\ Len(box) + n + events <= MaxLoad

-----------------------------------------------------------------------------
(* The outbox, server/jira/jira-db.ts                                      *)

\* The rows of a ticket have its issue for key, a creation one of its own.
SameIssue(b, i, j) ==
  b[i].ticket = b[j].ticket /\ (b[i].kind = "create") = (b[j].kind = "create")

Superseded(b, i) ==
  /\ b[i].kind = "transition" /\ b[i].state \in {"dead", "pending"}
  /\ \E j \in DOMAIN b : /\ j > i /\ b[j].ticket = b[i].ticket
                         /\ b[j].kind = "transition"
                         /\ b[i].state = "dead" \/ b[j].state = "done"

(* Mutant of Reconcile: failed transitions are never retired.              *)
ReconcileNothing(b) == b

\* reconcileSupersededTransitions
Reconcile(b) ==
  [i \in DOMAIN b |->
     IF Superseded(b, i) THEN [b[i] EXCEPT !.state = "superseded"] ELSE b[i]]

\* The rows claimDrainable selects.
Claimable(b) ==
  {i \in DOMAIN b :
     /\ b[i].state = "pending" /\ b[i].due
     /\ \A j \in DOMAIN b : j # i /\ SameIssue(b, i, j)
          => b[j].state # "inflight" /\ (j < i => b[j].state # "pending")}

\* enqueueMany and the enqueuers' broadcastOutboxState, which reconciles.
Enqueue(rows) ==
  /\ Room(Len(rows))
  /\ box' = Reconcile(box \o rows)

\* The edits that wait for the end of an undo window or of a backoff.
Held(t) == {i \in DOMAIN box : /\ box[i].ticket = t /\ box[i].kind = "update"
                               /\ box[i].state = "pending" /\ ~box[i].due}

\* The newest edit of a field for which there is a row.
Latest(t, f) ==
  Max({0} \cup {box[i].edits[f] : i \in {i \in DOMAIN box : box[i].ticket = t}})

\* The fields of a row about to be sent in which a later edit came before it.
Behind(t, e) == {t} \X {f \in Field : 0 < e[f] /\ e[f] < Latest(t, f)}

\* A new edit of the fields in c.
Edited(c) == [f \in Field |-> IF f \in c THEN Len(box) + 1 ELSE 0]

(* Mutant of Merged: the rows folded into the new one lose their fields.   *)
MergedNothing(t, c) == Edited(c)

\* The payload of the new row: of the other fields the last value held.
Merged(t, c) ==
  [f \in Field |->
     LET carriers == {i \in Held(t) : box[i].edits[f] # 0}
     IN IF f \in c THEN Len(box) + 1
        ELSE IF carriers = {} THEN 0 ELSE box[Max(carriers)].edits[f]]

\* enqueueHeldUpdate
Folded(t, e) ==
  Append([i \in DOMAIN box |->
            IF i \in Held(t) THEN [box[i] EXCEPT !.state = "superseded"]
            ELSE box[i]],
         [Row(t, "update", New, e) EXCEPT !.due = FALSE])

-----------------------------------------------------------------------------
(* What the rest of the server enqueues                                    *)

\* onRailLaunch, moveSpecToStatus
Move(t, s) ==
  /\ own[t] # 0
  /\ Enqueue(<<Row(t, "transition", s, Blank)>>)
  /\ cache' = [cache EXCEPT ![t] = s]
  /\ UNCHANGED <<own, twins, highWater, stored, memory, jira, overtaken, bounds>>

\* onRailReview, onJobOutcome, discardSpec, with the ticket they follow or set
Report(t, s) ==
  /\ own[t] # 0
  /\ Enqueue(<<Row(t, "comment", s, Blank), Row(t, "transition", s, Blank)>>)
  /\ cache' = [cache EXCEPT ![t] = s]
  /\ UNCHANGED <<own, twins, highWater, stored, memory, jira, overtaken, bounds>>

\* onSpecEdited, enqueueSpecUpdate.  An edit of the labels alone can be undone
\* for a while: it is held.
Edit(t) ==
  /\ own[t] # 0
  /\ \E c \in Changes \ {{}} :
       \/ /\ c = {"labels"} /\ Room(1)
          /\ box' = Reconcile(Folded(t, Merged(t, c)))
          /\ overtaken' = overtaken \cup Behind(t, Merged(t, c))
       \/ /\ c # {"labels"}
          /\ Enqueue(<<Row(t, "update", New, Edited(c))>>)
          /\ overtaken' = overtaken
  /\ UNCHANGED <<own, twins, cache, highWater, stored, memory, jira, bounds>>

\* enqueuePromote, whose key is that of the ticket's settlement
Promote(t) ==
  /\ own[t] = 0
  /\ \A i \in DOMAIN box : box[i].ticket # t
  /\ Enqueue(<<Row(t, "create", New, Blank)>>)
  /\ UNCHANGED <<own, twins, cache, highWater, stored, memory, jira, overtaken, bounds>>

\* retryOutbox, by the user
RetryDead(i) ==
  LET b == Reconcile(box) IN
  /\ box[i].state = "dead" /\ Event
  /\ box' = IF b[i].state = "dead"
            THEN [b EXCEPT ![i].state = "pending", ![i].due = TRUE] ELSE b
  /\ overtaken' = overtaken \cup Behind(box[i].ticket, box[i].edits)
  /\ UNCHANGED <<own, twins, cache, highWater, stored, memory, jira, crashes>>

\* The time a row waits for has come.
Elapse(i) ==
  /\ box[i].state = "pending" /\ ~box[i].due
  /\ box' = [box EXCEPT ![i].due = TRUE]
  /\ UNCHANGED <<own, twins, cache, highWater, stored, memory, jira, overtaken, bounds>>

-----------------------------------------------------------------------------
(* The drain                                                               *)

\* The first request of a row's execution.  A creation searches for an issue
\* of an earlier attempt, unless this is the first.
Begun(row) ==
  [at |-> IF row.kind \in {"comment", "transition"}
             \/ (row.kind = "create" /\ row.attempts > 0) THEN "read" ELSE "write",
   hop |-> row.to, visited |-> {}]

\* A pass of drainUntilBlocked: reconcile, claim, and start what was claimed.
Pass(rows, t) ==
  LET b == Reconcile(rows)
      batch == Claimable(b)
  IN /\ box' = [i \in DOMAIN b |->
                  IF i \in batch THEN [b[i] EXCEPT !.state = "inflight"] ELSE b[i]]
     /\ work' = [o \in Ops |-> IF o \in batch THEN Begun(b[o]) ELSE Idle]
     /\ drain' = IF batch = {} THEN 0 ELSE t

\* drainOnce, by the timer, an enqueuer or the new token
StartDrain ==
  /\ drain = 0 /\ ~paused
  /\ Pass(box, stored)
  /\ UNCHANGED <<own, twins, cache, highWater, stored, paused, poll, jira, overtaken, bounds>>

\* A row has been executed; with the last of its batch the next pass begins.
Executed(o, rows) ==
  IF \E x \in Ops \ {o} : work[x] # Idle
  THEN box' = rows /\ work' = [work EXCEPT ![o] = Idle] /\ drain' = drain
  ELSE IF paused'
  THEN box' = rows /\ work' = [work EXCEPT ![o] = Idle] /\ drain' = 0
  ELSE Pass(rows, drain)

\* markOutboxDone, markOutboxDead, markOutboxRetry
Mark(o, s) == Executed(o, [box EXCEPT ![o].state = s])
Retry(o) == Executed(o, [box EXCEPT ![o].state = "pending", ![o].due = FALSE,
                                    ![o].attempts = @ + 1])
RetryOrDead(o) ==
  IF box[o].attempts + 1 >= MaxAttempts THEN Mark(o, "dead") ELSE Retry(o)

\* insertLinkWithId: both columns of jira_links are unique.
Linked(o) ==
  LET t == box[o].ticket
      c == work[o].hop
  IN IF own[t] = 0 /\ c \notin twins[t]
     THEN Mark(o, "done") /\ own' = [own EXCEPT ![t] = c]
     ELSE RetryOrDead(o) /\ own' = own

Send(o, s) ==
  /\ work' = [work EXCEPT ![o] = [@ EXCEPT !.at = "write", !.hop = s]]
  /\ UNCHANGED <<box, drain>>

\* walkToCategory on the status read: there already, a direct transition, a
\* step to a status not visited yet, or no path.
Walk(o) ==
  LET w == work[o]
      s == w.hop
      to == box[o].to
      steps == {x \in Status \ (w.visited \cup {s}) : <<s, x>> \in Edge}
  IN IF s = to /\ w.visited = {} THEN Mark(o, "done")
     ELSE IF <<s, to>> \in Edge THEN Send(o, to)
     ELSE IF steps = {} THEN Mark(o, "dead")
     ELSE \E x \in steps :
            /\ work' = [work EXCEPT ![o] =
                 [at |-> "write", hop |-> x, visited |-> w.visited \cup {s, x}]]
            /\ UNCHANGED <<box, drain>>

(* Mutant of CommentRead: the marker of an earlier attempt is not looked   *)
(* for.                                                                    *)
CommentUnread(o) == Send(o, New)

\* executeComment: posted unless a comment has the marker
CommentRead(o) == IF work[o].hop > 0 THEN Mark(o, "done") ELSE Send(o, New)

\* createLinkedIssue: found by its marker, or to be created
Searched(o) ==
  IF work[o].hop > 0 THEN Linked(o) ELSE Send(o, New) /\ own' = own

\* The answer to a read arrives.
Got(o) ==
  /\ work[o].at = "got" /\ paused' = paused
  /\ CASE box[o].kind = "transition" -> Walk(o) /\ own' = own
       [] box[o].kind = "comment" -> CommentRead(o) /\ own' = own
       [] box[o].kind = "create" -> Searched(o)
  /\ UNCHANGED <<twins, cache, highWater, stored, poll, jira, overtaken, bounds>>

\* The answer to a write arrives.
Acked(o) ==
  /\ work[o].at = "acked" /\ paused' = paused
  /\ CASE box[o].kind = "create" -> Linked(o)
       [] box[o].kind = "transition" /\ work[o].hop # box[o].to ->
            /\ work' = [work EXCEPT ![o].at = "read"]
            /\ UNCHANGED <<box, own, drain>>
       [] OTHER -> Mark(o, "done") /\ own' = own
  /\ UNCHANGED <<twins, cache, highWater, stored, poll, jira, overtaken, bounds>>

\* executeUpdate: on a 400 an update that has more than a priority is sent
\* again without it.
PriorityRefused(o) ==
  /\ work[o].at = "write" /\ box[o].kind = "update" /\ drain = token /\ Event
  /\ box[o].edits["priority"] # 0
  /\ \E f \in Field \ {"priority"} : box[o].edits[f] # 0
  /\ work' = [work EXCEPT ![o].at = "rest"]
  /\ UNCHANGED <<db, paused, drain, poll, jira, overtaken, crashes>>

\* handleHardError: a refusal (403, 400) is final.
Refused(o) ==
  /\ work[o].at \in {"read", "write", "rest"} /\ drain = token /\ Event
  /\ paused' = paused /\ Mark(o, "dead")
  /\ UNCHANGED <<own, twins, cache, highWater, stored, poll, jira, overtaken, crashes>>

\* No answer before the timeout, whether or not Jira executed the request; or
\* an error of the server, or too many requests.
Unanswered(o) ==
  /\ work[o].at # "none" /\ Event
  /\ paused' = paused /\ RetryOrDead(o)
  /\ UNCHANGED <<own, twins, cache, highWater, stored, poll, jira, overtaken, crashes>>

\* onAuth401: the row is parked whatever its attempts.
Unauthorized(o) ==
  /\ work[o].at \in {"read", "write", "rest"} /\ drain # token
  /\ paused' = TRUE
  /\ Retry(o)
  /\ UNCHANGED <<own, twins, cache, highWater, stored, poll, jira, overtaken, bounds>>

\* connect with a new token: authPaused is cleared; resumeAfterReauth drains.
Reauthenticate ==
  /\ paused \/ stored # token
  /\ stored' = token /\ paused' = FALSE
  /\ UNCHANGED <<box, own, twins, cache, highWater, drain, work, poll, jira, overtaken, bounds>>

-----------------------------------------------------------------------------
(* The poll                                                                *)

\* frozenLocalIds
Frozen ==
  {t \in Ticket : own[t] # 0 /\ \E i \in DOMAIN box :
     /\ box[i].ticket = t /\ box[i].state \in Live
     /\ box[i].kind \in {"transition", "update"}}

StartPoll ==
  /\ poll = NoPoll /\ ~paused /\ Event
  /\ poll' = [at |-> "sent", frozen |-> Frozen, since |-> highWater, token |-> stored]
  /\ UNCHANGED <<db, paused, drain, work, jira, overtaken, crashes>>

\* Jira executes the search; the two minutes of overlap may have passed.
Search ==
  /\ poll.at = "sent" /\ poll.token = token
  /\ LET found == {t \in Ticket : issues[t] > 0 /\ updated[t] >= poll.since}
     IN poll' = [at |-> "got", frozen |-> poll.frozen,
                 seen |-> [t \in found |-> [status |-> status[t],
                             updated |-> updated[t], copies |-> 1..issues[t]]]]
  /\ UNCHANGED <<db, paused, drain, work, jira, overtaken, bounds>>

\* upsertIssuesIntoStore: an issue without a link becomes a ticket of its own.
Upsert ==
  /\ poll.at = "got"
  /\ LET seen == poll.seen
         taken == {t \in DOMAIN seen : own[t] # 0 /\ t \notin poll.frozen}
         free == {t \in DOMAIN seen : ~(own[t] # 0 /\ t \in poll.frozen)}
     IN /\ cache' = [t \in Ticket |-> IF t \in taken THEN seen[t].status ELSE cache[t]]
        /\ twins' = [t \in Ticket |-> IF t \in DOMAIN seen
                       THEN twins[t] \cup (seen[t].copies \ {own[t]}) ELSE twins[t]]
        /\ highWater' = Max({highWater} \cup {seen[t].updated : t \in free})
  /\ poll' = NoPoll
  /\ UNCHANGED <<box, own, stored, paused, drain, work, jira, overtaken, bounds>>

PollFails ==
  /\ poll.at \in {"sent", "got"} /\ Event
  /\ poll' = NoPoll
  /\ UNCHANGED <<db, paused, drain, work, jira, overtaken, crashes>>

PollUnauthorized ==
  /\ poll.at = "sent" /\ poll.token # token
  /\ paused' = TRUE /\ poll' = NoPoll
  /\ UNCHANGED <<db, drain, work, jira, overtaken, bounds>>

-----------------------------------------------------------------------------
(* Jira and the people who use it                                          *)

Touch(t) == updated' = [updated EXCEPT ![t] = 1 + Max({updated[u] : u \in Ticket})]

\* A read: the status, whether the comment is there, or the newest issue that
\* has the marker (0 for none).
Read(o) ==
  LET t == box[o].ticket IN
  CASE box[o].kind = "transition" -> status[t]
    [] box[o].kind = "comment" -> posted[o]
    [] OTHER -> issues[t]

Reads(o) ==
  /\ work[o].at = "read" /\ drain = token
  /\ work' = [work EXCEPT ![o] = [@ EXCEPT !.at = "got", !.hop = Read(o)]]
  /\ UNCHANGED <<db, paused, drain, poll, jira, overtaken, bounds>>

Writes(o) ==
  LET t == box[o].ticket
      k == box[o].kind
      w == work[o]
      sent == IF w.at = "rest" THEN [box[o].edits EXCEPT !["priority"] = 0]
              ELSE box[o].edits
  IN
  /\ w.at \in {"write", "rest"} /\ drain = token
  /\ k = "transition" => <<status[t], w.hop>> \in Edge
  /\ status' = [status EXCEPT ![t] = IF k = "transition" THEN w.hop ELSE @]
  /\ newest' = [newest EXCEPT ![t] = IF k = "transition" THEN o ELSE @]
  /\ issues' = [issues EXCEPT ![t] = IF k = "create" THEN @ + 1 ELSE @]
  /\ posted' = [posted EXCEPT ![o] = IF k = "comment" THEN @ + 1 ELSE @]
  /\ text' = [text EXCEPT ![t] =
       [f \in Field |-> IF sent[f] # 0 THEN sent[f] ELSE @[f]]]
  /\ dropped' = [dropped EXCEPT ![t] =
       IF w.at = "rest" THEN Max({@, box[o].edits["priority"]}) ELSE @]
  /\ Touch(t)
  /\ work' = [work EXCEPT ![o] =
       [@ EXCEPT !.at = "acked", !.hop = IF k = "create" THEN issues[t] + 1 ELSE w.hop]]
  /\ UNCHANGED <<db, paused, drain, poll, token, overtaken, bounds>>

\* A transition that the status of the issue no longer has: 400.
Rejects(o) ==
  /\ box[o].kind = "transition" /\ work[o].at = "write" /\ drain = token
  /\ <<status[box[o].ticket], work[o].hop>> \notin Edge
  /\ paused' = paused /\ Mark(o, "dead")
  /\ UNCHANGED <<own, twins, cache, highWater, stored, poll, jira, overtaken, bounds>>

PersonMoves(t, s) ==
  /\ Event /\ issues[t] > 0 /\ <<status[t], s>> \in Edge
  /\ status' = [status EXCEPT ![t] = s]
  /\ Touch(t)
  /\ UNCHANGED <<db, memory, issues, text, posted, token, newest, dropped,
                 overtaken, crashes>>

Revoke ==
  /\ Event
  /\ token' = token + 1
  /\ UNCHANGED <<db, memory, issues, status, updated, text, posted, newest,
                 dropped, overtaken, crashes>>

-----------------------------------------------------------------------------
(* Death and restart                                                       *)

(* Mutant of Restarted: the rows a dead drain had claimed stay claimed.    *)
RestartedClaimed(b) == b

\* start: resetInflight
Restarted(b) ==
  [i \in DOMAIN b |->
     IF b[i].state = "inflight" THEN [b[i] EXCEPT !.state = "pending"] ELSE b[i]]

Crash ==
  /\ Event /\ crashes' = crashes + 1
  /\ box' = Restarted(box)
  /\ paused' = FALSE /\ drain' = 0 /\ poll' = NoPoll
  /\ work' = [o \in Ops |-> Idle]
  /\ UNCHANGED <<own, twins, cache, highWater, stored, jira, overtaken>>

-----------------------------------------------------------------------------
Answer(o) ==
  Got(o) \/ Acked(o) \/ Reads(o) \/ Writes(o) \/ Rejects(o) \/ Unauthorized(o)

Next ==
  \/ \E t \in Ticket :
       \/ \E s \in Status : Move(t, s) \/ Report(t, s) \/ PersonMoves(t, s)
       \/ Edit(t) \/ Promote(t)
  \/ \E i \in DOMAIN box : RetryDead(i) \/ Elapse(i)
  \/ \E o \in DOMAIN box :
       Answer(o) \/ PriorityRefused(o) \/ Refused(o) \/ Unanswered(o)
  \/ StartDrain \/ Reauthenticate
  \/ StartPoll \/ Search \/ Upsert \/ PollFails \/ PollUnauthorized
  \/ Revoke \/ Crash

Spec == Init /\ [][Next]_vars

\* The timers tick, time passes, Jira answers once it has ceased to fail, and
\* the user enters a new token when told that the old one has expired.  As a
\* drain waits for its whole batch, an answer to some row is enough.
Fairness ==
  /\ WF_vars(StartDrain) /\ WF_vars(Reauthenticate)
  /\ WF_vars(\E i \in DOMAIN box : Elapse(i))
  /\ WF_vars(\E o \in DOMAIN box : Answer(o))

FairSpec == Spec /\ Fairness

-----------------------------------------------------------------------------
\* The outbox and the drain agree: what is in flight is being executed, one
\* row of an issue at a time (claimDrainable).
Exclusive ==
  \A i \in DOMAIN box :
    /\ (box[i].state = "inflight") <=> (work[i] # Idle)
    /\ box[i].state = "inflight" =>
         /\ drain # 0
         /\ \A j \in DOMAIN box \ {i} :
              SameIssue(box, i, j) => box[j].state # "inflight"

\* The edit e of a field, or a newer one, is what Jira shows, or in a row that
\* will be sent or that the user is shown as failed; only a priority may be in
\* neither, once Jira refused it or a newer one.
Kept(t, f, e) ==
  \/ text[t][f] >= e
  \/ f = "priority" /\ dropped[t] >= e
  \/ \E j \in DOMAIN box : /\ box[j].ticket = t /\ box[j].edits[f] >= e
                           /\ box[j].state \in Live \cup {"dead"}

\* No edit of a ticket is forgotten, nor undone by an older one, as long as no
\* retry by hand and no fold of a row in backoff puts an edit of the field
\* behind a newer one (enqueueHeldUpdate, executeUpdate).
EditsKept ==
  \A i \in DOMAIN box : \A f \in Field :
    LET t == box[i].ticket
    IN <<t, f>> \in overtaken \/ Kept(t, f, box[i].edits[f])

\* The outbox, its drain and the fields in Jira agree.
Consistent == TypeOK /\ Exclusive /\ EditsKept

\* A comment is posted once, whatever answers are lost, however often the row
\* is retried and the server dies; an issue is created once for a ticket,
\* except that a death during the first attempt may cost a second one.
SentOnce ==
  /\ \A o \in Ops : posted[o] <= 1
  /\ \A t \in Ticket : issues[t] <= 1 + crashes

\* Jira never goes back from a newer intention to an older one: transitions
\* are made in the order of their rows, whatever fails or is retried by hand
\* (reconcileSupersededTransitions, retryDeadOutbox).
NewestWins == [][\A t \in Ticket : newest'[t] >= newest[t]]_vars

\* The outbox always runs empty again: every row comes to an end that the
\* user can see, done, dead or superseded, and none waits for ever for a
\* token, for an earlier row or for a drain that is gone.
RunsEmpty == []<>(\A i \in DOMAIN box : box[i].state \notin Live)

-----------------------------------------------------------------------------
(* What the comments of the code promise and the code does not keep: see   *)
(* the known departures in the README.                                     *)

\* Jira ends with the last edit of each field: none is written after a newer
\* one (onSpecEdited).
LastEditStays ==
  \A i \in DOMAIN box : \A f \in Field :
    Kept(box[i].ticket, f, box[i].edits[f])

\* A retry never risks a second issue (createLinkedIssue).
IssueOnce == \A t \in Ticket : issues[t] <= 1

\* An issue made for a ticket never becomes a second ticket (createLinkedIssue
\* links it to the same id).
NoTwin == \A t \in Ticket : twins[t] = {}

\* The poll never reverts a status that is still to be written to Jira
\* (upsertIssuesIntoStore).
NeverReverted ==
  [][poll.at = "got" /\ poll' = NoPoll =>
       \A t \in Ticket : cache'[t] # cache[t] => t \notin Frozen]_vars

\* A change that a poll left out for a frozen ticket is read by a later one:
\* the file and Jira agree, or will after a row or a poll still to come.
NothingStale ==
  \A t \in Ticket : own[t] # 0 /\ cache[t] # status[t] =>
    \/ updated[t] >= highWater
    \/ t \in Frozen
    \/ \E i \in DOMAIN box : /\ box[i].ticket = t /\ box[i].kind = "transition"
                             /\ box[i].state = "dead"

\* The user is asked for a new token only if the stored one is refused
\* (resumeAfterReauth).
AskedInNeed == paused => stored # token
=============================================================================
