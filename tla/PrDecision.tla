------------------------------ MODULE PrDecision ------------------------------
(***************************************************************************)
(* The decision on one delivery: what the buttons of the review card do     *)
(* (modules/delivery/adapters/decisions).  A request claims the lease of    *)
(* the row, works on GitHub and on the repository through commands that     *)
(* fail or whose answer is lost, and settles the row only if it still owns  *)
(* the lease.  All requests but a local merge take the repository lock      *)
(* before they look at the row; a local merge claims first.                 *)
(*                                                                          *)
(* One action is the code between two awaits.  The delivery has one branch  *)
(* and one verified commit; of a pull request the model keeps its state,    *)
(* whether head and base are still the recorded ones, and how much of the   *)
(* branch it holds.                                                         *)
(***************************************************************************)
EXTENDS Naturals, Sequences

CONSTANTS
  Request,      \* the requests a user makes of this delivery
  None,         \* no request
  Pr,           \* the numbers of the pull requests the branch may ever have
  NoPr,         \* no pull request recorded
  MaxLapses,    \* leases that grow older than half an hour
  MaxCrashes,   \* deaths of the server
  MaxFaults,    \* commands that fail or whose answer is lost, failed writes
  MaxMoves      \* steps of people on GitHub

ASSUME DecisionAssumption ==
  /\ None \notin Request
  /\ Pr \subseteq Nat /\ NoPr \notin Pr
  /\ {MaxLapses, MaxCrashes, MaxFaults, MaxMoves} \subseteq Nat

VARIABLES
  row,      \* the row of the delivery, with its lease
  lapsed,   \* the lease is older than half an hour
  line,     \* the requests in the repository lock, its holder first
  req,      \* what each request is doing
  remote,   \* what the branch on the remote holds
  pr,       \* the pull requests on GitHub
  local,    \* the integration branch holds the verified commit
  left      \* what may still go wrong

vars == <<row, lapsed, line, req, remote, pr, local, left>>

Action == {"create-pr", "publish", "discard", "dismiss", "poll-merge",
           "reopen", "merge-local", "acknowledge-no-changes"}
Terminal == {"merged", "discarded", "completed"}
Decision == Terminal \cup {"on_review", "pr_draft", "pr_ready", "pr_closed",
                           "pr_failed", "no_changes"}
(* Of the branch: the commit was never there; it is the head; it is there   *)
(* under later commits of somebody else.                                    *)
Content == {"old", "exact", "beyond"}

Open == {"draft", "ready"}
Holds(p) == IF pr[p].state \in Open THEN remote ELSE pr[p].content
(* An open request must have the verified commit as its head; a closed or   *)
(* merged one must contain it.                                              *)
Includes(o) == IF o.state \in Open THEN o.content = "exact"
                                   ELSE o.content # "old"
Observed(p) == [pr[p] EXCEPT !.content = Holds(p)]

Spend(kind) == left[kind] > 0 /\ left' = [left EXCEPT ![kind] = @ - 1]

-----------------------------------------------------------------------------
(* Which actions the row allows.                                            *)
ActionAllowed(a, r) ==
  \/ /\ a = "create-pr"
     /\ \/ r.decision = "on_review"
        \/ r.decision = "pr_failed" /\ r.outcome = "retryable"
        \/ r.decision = "pr_draft" /\ r.url = NoPr
  \/ a = "publish" /\ r.decision = "pr_draft" /\ r.url # NoPr
  \/ a = "discard" /\ r.decision \notin Terminal
  \/ a = "dismiss" /\ r.cont /\ r.decision \notin {"merged", "discarded"}
  \/ /\ a = "poll-merge"
     /\ r.decision \in {"pr_draft", "pr_ready", "pr_closed"} /\ r.url # NoPr
  \/ a = "reopen" /\ r.decision = "pr_closed" /\ r.url # NoPr
  \/ /\ a = "merge-local"
     /\ r.decision \in {"on_review", "pr_failed", "pr_draft"} /\ r.url = NoPr
  \/ /\ a = "acknowledge-no-changes"
     /\ r.decision = "no_changes" /\ ~r.cont

(* What a request will write, from the row r it claimed; effect is the      *)
(* status that the effect of a final decision is to give the tickets.       *)
Keep(r) == r
Reroute(r) == [r EXCEPT !.decision = "on_review", !.outcome = "ready",
                        !.url = NoPr, !.cont = FALSE]
Merged(r) == [r EXCEPT !.decision = "merged", !.outcome = "delivered",
                       !.effect = "done"]
Closed(r) == [r EXCEPT !.decision = "pr_closed", !.outcome = "delivered"]
InReview(r, o) ==
  [r EXCEPT !.decision = IF o.state = "ready" THEN "pr_ready" ELSE "pr_draft",
            !.outcome = "delivered"]
Failed(r, outcome) == [r EXCEPT !.decision = "pr_failed", !.outcome = outcome]
Discarded(r, warn) ==
  [r EXCEPT !.decision = "discarded", !.outcome = "none", !.warn = warn,
            !.effect = IF r.cont THEN @ ELSE "todo"]
Completed(r) == [r EXCEPT !.decision = "completed", !.effect = "done"]

(* Mutant: a merged pull request is taken for the delivery.                 *)
ConcludedAsMerged(r, o) ==
  IF o.state = "merged" THEN Merged(r)
  ELSE IF ~o.exact \/ ~Includes(o) THEN Reroute(r) ELSE Closed(r)
(* What every action makes of an observation that is not an open, exact     *)
(* pull request.                                                            *)
Concluded(r, o) ==
  IF ~o.exact \/ ~Includes(o) THEN Reroute(r)
  ELSE IF o.state = "merged" THEN Merged(r) ELSE Closed(r)
Conclusive(o) == ~o.exact \/ o.state \notin Open

(* Poll: an open request heals a row that was closed.                       *)
Polled(r, o) ==
  IF Conclusive(o) THEN Concluded(r, o)
  ELSE IF ~Includes(o) THEN Failed(r, "retryable")
  ELSE IF r.decision = "pr_closed" THEN InReview(r, o) ELSE Keep(r)
(* Publish, after it marked the request as ready for review.                *)
Published(r, o) ==
  IF Conclusive(o) THEN Concluded(r, o)
  ELSE IF ~Includes(o) THEN Failed(r, "retryable")
  ELSE IF o.state = "draft" THEN Keep(r) ELSE InReview(r, o)
(* Reopen, after it reopened the request.                                   *)
Reopened(r, o) ==
  IF ~o.exact \/ ~Includes(o) THEN Reroute(r)
  ELSE IF o.state = "merged" THEN Merged(r)
  ELSE IF o.state = "closed" THEN Keep(r) ELSE InReview(r, o)
(* The push of a follow-up to a request that exists.                        *)
Pushed(r, o) ==
  IF Conclusive(o) THEN Concluded(r, o)
  ELSE IF Includes(o) THEN InReview(r, o) ELSE Failed(r, "retryable")

-----------------------------------------------------------------------------
Fresh(decision) ==
  [decision |-> decision, outcome |-> "ready", url |-> NoPr, cont |-> FALSE,
   warn |-> FALSE, effect |-> "none", token |-> None]
FollowUp(p) == [Fresh("pr_failed") EXCEPT !.outcome = "retryable",
                                          !.url = p, !.cont = TRUE]
NoRequest == [phase |-> "new", action |-> "discard", seen |-> Fresh("on_review"),
              plan |-> Fresh("on_review")]

NoPrs == [p \in Pr |-> [state |-> "none", exact |-> TRUE,
                        content |-> "old", reopened |-> FALSE]]

(* The run has settled: a result to review, a run without changes, or a     *)
(* follow-up to an open pull request, without changes too or with a push    *)
(* that went through or failed.                                             *)
Init ==
  /\ \/ /\ row \in {Fresh("on_review"), Fresh("no_changes")}
        /\ pr = NoPrs /\ remote = "old"
     \/ \E first \in {p \in Pr : \A o \in Pr : p <= o},
           state \in Open, there \in {"old", "exact"} :
          /\ row \in IF there = "exact"
                     THEN {InReview(FollowUp(first), [state |-> state])}
                     ELSE {FollowUp(first), [FollowUp(first) EXCEPT
                             !.decision = "no_changes", !.outcome = "ready"]}
          /\ pr = [NoPrs EXCEPT ![first].state = state]
          /\ remote = there
  /\ lapsed = FALSE
  /\ line = << >>
  /\ req = [q \in Request |-> NoRequest]
  /\ local = FALSE
  /\ left = [lapses |-> MaxLapses, crashes |-> MaxCrashes,
             faults |-> MaxFaults, moves |-> MaxMoves]

HoldsLock(q) == line # << >> /\ Head(line) = q
Goto(q, phase) == req' = [req EXCEPT ![q].phase = phase]
Settle(q, plan) == req' = [req EXCEPT ![q].phase = "settle", ![q].plan = plan]

(* The route: a local merge goes to the row at once, any other action gets  *)
(* in line for the repository lock.  The client sends the decision its card *)
(* shows.                                                                   *)
Arrive(q, a) ==
  /\ req[q].phase = "new"
  /\ ActionAllowed(a, row)
  /\ req' = [req EXCEPT ![q].phase = "claim", ![q].action = a,
                        ![q].seen = row]
  /\ line' = IF a = "merge-local" THEN line ELSE Append(line, q)
  /\ UNCHANGED <<row, lapsed, remote, pr, local, left>>

(* The lease is free, or taken more than half an hour ago.                  *)
Claimable == row.token = None \/ lapsed
FirstPhase(a, r) ==
  CASE a = "merge-local" -> "lock"
    [] a = "create-pr" -> IF r.decision = "pr_failed" /\ r.url # NoPr
                          THEN "observe" ELSE "push"
    [] a \in {"publish", "poll-merge", "reopen"} -> "observe"
    [] a \in {"discard", "dismiss"} ->
         IF r.url # NoPr /\ ~r.cont THEN "act" ELSE "settle"
    [] OTHER -> "settle"
FirstPlan(a, r) ==
  IF a \in {"discard", "dismiss"} THEN Discarded(r, FALSE)
  ELSE IF a = "acknowledge-no-changes" THEN Completed(r) ELSE Keep(r)

(* The request is stale if the decision moved on; otherwise it claims the   *)
(* lease and works from the row it claimed.  If it cannot read that row, it *)
(* ends with the lease taken: nothing that would give it back runs yet.     *)
Claim(q) ==
  LET a == req[q].action
      claimed == [row EXCEPT !.token = q]
  IN  /\ req[q].phase = "claim"
      /\ a = "merge-local" \/ HoldsLock(q)
      /\ IF /\ row.decision = req[q].seen.decision
            /\ ActionAllowed(a, row)
            /\ Claimable
         THEN /\ row' = claimed
              /\ lapsed' = FALSE
              /\ \/ /\ req' = [req EXCEPT ![q].phase = FirstPhase(a, row),
                                          ![q].seen = claimed,
                                          ![q].plan = FirstPlan(a, claimed)]
                    /\ line' = IF a = "merge-local" THEN Append(line, q) ELSE line
                    /\ UNCHANGED left
                 \/ /\ Spend("faults")
                    /\ Goto(q, "lost")
                    /\ line' = IF a = "merge-local" THEN line ELSE Tail(line)
         ELSE /\ Goto(q, "done")
              /\ line' = IF a = "merge-local" THEN line ELSE Tail(line)
              /\ UNCHANGED <<row, lapsed, left>>
      /\ UNCHANGED <<remote, pr, local>>

-----------------------------------------------------------------------------
(* GitHub.  One request may be open for a head and a base; a request that   *)
(* brings nothing new to the base is refused.                               *)
OpenPrs == {p \in Pr : pr[p].state \in Open /\ pr[p].exact}
Unused == {p \in Pr : pr[p].state = "none"}
NextNumber == {p \in Unused : \A u \in Unused : p <= u}
NothingNew ==
  \E p \in Pr : pr[p].state = "merged" /\ pr[p].exact /\ pr[p].content = remote
Conclude(p, state) ==
  pr' = [pr EXCEPT ![p].state = state, ![p].content = remote]

(* `gh pr view`, before anything is changed: it settles the request or      *)
(* shows that there is something to do.                                     *)
ActsOn(a, o) ==
  /\ o.exact
  /\ CASE a = "publish" -> o.state = "draft" /\ Includes(o)
       [] a = "reopen" -> o.state = "closed" /\ Includes(o)
       [] a = "create-pr" -> o.state \in Open /\ o.content = "old"
       [] OTHER -> FALSE
Seen(a, r, o) ==
  CASE a = "publish" -> Published(r, o)
    [] a = "reopen" -> Reopened(r, o)
    [] a = "poll-merge" -> Polled(r, o)
    [] OTHER -> IF ~Conclusive(o) /\ o.content = "beyond"
                THEN Failed(r, "blocked") ELSE Pushed(r, o)
(* Without an answer, a retry records that it can be tried again.           *)
Unanswered(a, r) == IF a = "create-pr" THEN Failed(r, "retryable") ELSE Keep(r)

Observe(q) ==
  LET a == req[q].action
      r == req[q].seen
      o == Observed(r.url)
  IN  /\ req[q].phase = "observe"
      /\ \/ /\ UNCHANGED left
            /\ IF ActsOn(a, o)
               THEN Goto(q, IF a = "create-pr" THEN "push" ELSE "act")
               ELSE Settle(q, Seen(a, r, o))
         \/ Spend("faults") /\ Settle(q, Unanswered(a, r))
      /\ UNCHANGED <<row, lapsed, line, remote, pr, local>>

(* `gh pr ready` and `gh pr reopen` may be refused, or done with the answer *)
(* lost; either way the request is observed again.                          *)
MayReopen(p) == pr[p].state = "closed" /\ OpenPrs = {}
Change(q) ==
  LET p == req[q].seen.url
  IN  /\ req[q].phase = "act"
      /\ \/ /\ req[q].action = "publish"
            /\ pr' = IF pr[p].state = "draft"
                     THEN [pr EXCEPT ![p].state = "ready"] ELSE pr
            /\ UNCHANGED left
         \/ /\ req[q].action = "reopen"
            /\ \/ /\ MayReopen(p)
                  /\ \E s \in Open : pr' = [pr EXCEPT ![p].state = s]
               \/ ~MayReopen(p) /\ UNCHANGED pr
            /\ UNCHANGED left
         \/ /\ req[q].action \in {"publish", "reopen"}
            /\ Spend("faults")
            /\ UNCHANGED pr
      /\ Goto(q, "confirm")
      /\ UNCHANGED <<row, lapsed, line, remote, local>>

(* Mutant: a close that fails leaves no warning.                            *)
CloseSilently(q) ==
  LET p == req[q].seen.url
  IN  /\ req[q].phase = "act"
      /\ req[q].action \in {"discard", "dismiss"}
      /\ \/ pr[p].state \in Open /\ Conclude(p, "closed") /\ UNCHANGED left
         \/ Spend("faults") /\ UNCHANGED pr
      /\ Settle(q, Discarded(req[q].seen, FALSE))
      /\ UNCHANGED <<row, lapsed, line, remote, local>>
(* `gh pr close`: a failure, or an answer that is lost, leaves a warning.   *)
Close(q) ==
  LET p == req[q].seen.url
      plan(warn) == Discarded(req[q].seen, warn)
  IN  /\ req[q].phase = "act"
      /\ req[q].action \in {"discard", "dismiss"}
      /\ \/ pr[p].state \in Open /\ Conclude(p, "closed") /\ UNCHANGED left
            /\ Settle(q, plan(FALSE))
         \/ pr[p].state = "closed" /\ UNCHANGED <<pr, left>>
            /\ Settle(q, plan(FALSE))
         \/ pr[p].state = "merged" /\ UNCHANGED <<pr, left>>
            /\ Settle(q, plan(TRUE))
         \/ /\ Spend("faults")
            /\ \/ UNCHANGED pr
               \/ pr[p].state \in Open /\ Conclude(p, "closed")
            /\ Settle(q, plan(TRUE))
      /\ UNCHANGED <<row, lapsed, line, remote, local>>

(* The push of the verified commit, never forced: of a new delivery, which  *)
(* goes on to its pull request, or of a follow-up.  A rejected or lost push *)
(* leaves the work local; a new delivery may also fail to be assembled.     *)
Degraded(r) == [r EXCEPT !.decision = "pr_draft", !.outcome = "retryable",
                         !.url = NoPr]
FollowsUp(q) == req[q].seen.decision = "pr_failed" /\ req[q].seen.url # NoPr
PushFailed(q) == IF FollowsUp(q) THEN Failed(req[q].seen, "retryable")
                                 ELSE Degraded(req[q].seen)
PushBranch(q) ==
  /\ req[q].phase = "push"
  /\ \/ /\ remote # "beyond"
        /\ remote' = "exact"
        /\ Goto(q, IF FollowsUp(q) THEN "confirm" ELSE "create")
        /\ UNCHANGED left
     \/ remote = "beyond" /\ UNCHANGED <<remote, left>>
        /\ Settle(q, PushFailed(q))
     \/ /\ Spend("faults")
        /\ remote' \in {remote, IF remote = "old" THEN "exact" ELSE remote}
        /\ Settle(q, PushFailed(q))
     \/ /\ ~FollowsUp(q)
        /\ Spend("faults")
        /\ \E outcome \in {"retryable", "blocked"} :
             Settle(q, Failed(req[q].seen, outcome))
        /\ UNCHANGED remote
  /\ UNCHANGED <<row, lapsed, line, pr, local>>

Linked(r, p, state) ==
  [InReview(r, [state |-> state]) EXCEPT !.url = p]
(* `gh pr create --draft`.  Without a URL in its answer the request is      *)
(* looked up by its exact head and base.                                    *)
CreateDraft(q) ==
  LET refused == OpenPrs # {} \/ NothingNew \/ Unused = {}
  IN  /\ req[q].phase = "create"
      /\ \/ /\ ~refused
            /\ \E p \in NextNumber :
                 /\ pr' = [pr EXCEPT ![p].state = "draft"]
                 /\ \/ UNCHANGED left
                       /\ Settle(q, Linked(req[q].seen, p, "draft"))
                    \/ Spend("faults") /\ Goto(q, "lookup")
         \/ refused /\ UNCHANGED <<pr, left>> /\ Goto(q, "lookup")
         \/ Spend("faults") /\ UNCHANGED pr /\ Goto(q, "lookup")
      /\ UNCHANGED <<row, lapsed, line, remote, local>>
FindExactOpenPr(q) ==
  /\ req[q].phase = "lookup"
  /\ \/ /\ UNCHANGED left
        /\ \/ \E p \in OpenPrs :
                Settle(q, Linked(req[q].seen, p, pr[p].state))
           \/ OpenPrs = {} /\ Settle(q, Degraded(req[q].seen))
     \/ Spend("faults") /\ Settle(q, Degraded(req[q].seen))
  /\ UNCHANGED <<row, lapsed, line, remote, pr, local>>

(* The request is observed again after it, or its branch, was changed.      *)
Confirmed(a, r, o) ==
  CASE a = "publish" -> Published(r, o)
    [] a = "reopen" -> Reopened(r, o)
    [] OTHER -> Pushed(r, o)
Confirm(q) ==
  LET a == req[q].action
      r == req[q].seen
  IN  /\ req[q].phase = "confirm"
      /\ \/ UNCHANGED left /\ Settle(q, Confirmed(a, r, Observed(r.url)))
         \/ Spend("faults") /\ Settle(q, Unanswered(a, r))
      /\ UNCHANGED <<row, lapsed, line, remote, pr, local>>

(* Mutant: a local merge does not wait for the lock.                        *)
AdvanceUnlocked(q) ==
  /\ req[q].phase = "lock"
  /\ local' = TRUE
  /\ Settle(q, Merged(req[q].seen))
  /\ UNCHANGED <<row, lapsed, line, remote, pr, left>>
(* The local merge, under the lock, of the commit of the row it claimed:    *)
(* assembled aside, then fast-forwarded.  The user's checkout may be in the *)
(* way, or the assembly fail; or the branch advances and then cannot be     *)
(* verified, because somebody moves the checkout meanwhile.                 *)
Advance(q) ==
  LET r == req[q].seen
  IN  /\ req[q].phase = "lock"
      /\ HoldsLock(q)
      /\ \/ local' = TRUE /\ Settle(q, Merged(r)) /\ UNCHANGED left
         \/ /\ Spend("faults")
            /\ \/ Settle(q, Keep(r)) /\ local' \in {local, TRUE}
               \/ Settle(q, [r EXCEPT !.outcome = "blocked"]) /\ UNCHANGED local
      /\ UNCHANGED <<row, lapsed, line, remote, pr>>

(* Mutant: the row is written without the claim.                            *)
TransitionsAnyway(q) == req[q].plan # req[q].seen
(* The transition of a claimed decision, with its effect on the tickets:    *)
(* only of the decision that was claimed, and under the lease it claimed.   *)
(* The database may refuse the write.                                       *)
Transitions(q) == row.decision = req[q].seen.decision /\ row.token = q
SettleDecision(q) ==
  /\ req[q].phase = "settle"
  /\ \/ row' = (IF Transitions(q) THEN req[q].plan ELSE row) /\ UNCHANGED left
     \/ Spend("faults") /\ UNCHANGED row
  /\ Goto(q, IF req[q].action = "merge-local" THEN "unlock" ELSE "release")
  /\ UNCHANGED <<lapsed, line, remote, pr, local>>

(* A local merge gives the lock back before its lease.                      *)
Unlock(q) ==
  /\ req[q].phase = "unlock"
  /\ line' = Tail(line)
  /\ Goto(q, "release")
  /\ UNCHANGED <<row, lapsed, remote, pr, local, left>>
(* Mutant: only a request that settled the row gives back its lease.        *)
ReleaseIfSettled(q) ==
  /\ req[q].phase = "release"
  /\ row' = IF row.token = q /\ row.decision # req[q].seen.decision
            THEN [row EXCEPT !.token = None] ELSE row
  /\ lapsed' = (lapsed /\ row'.token # None)
  /\ line' = IF req[q].action = "merge-local" THEN line ELSE Tail(line)
  /\ Goto(q, "done")
  /\ UNCHANGED <<remote, pr, local, left>>
(* Whatever happened, a request gives back the lease, if it is its own.  An *)
(* error of that last write is swallowed, and the lease stays.              *)
Release(q) ==
  /\ req[q].phase = "release"
  /\ \/ /\ row' = IF row.token = q THEN [row EXCEPT !.token = None] ELSE row
        /\ lapsed' = (lapsed /\ row.token # q)
        /\ Goto(q, "done")
        /\ UNCHANGED left
     \/ /\ row.token = q /\ Spend("faults")
        /\ Goto(q, "lost")
        /\ UNCHANGED <<row, lapsed>>
  /\ line' = IF req[q].action = "merge-local" THEN line ELSE Tail(line)
  /\ UNCHANGED <<remote, pr, local>>

-----------------------------------------------------------------------------
(* Commands are bounded, but many, and a local merge waits for the lock:    *)
(* half an hour may pass.                                                   *)
Lapse ==
  /\ row.token # None /\ ~lapsed
  /\ Spend("lapses")
  /\ lapsed' = TRUE
  /\ UNCHANGED <<row, line, req, remote, pr, local>>

(* Half an hour does pass over a lease that nobody will give back.          *)
Expire ==
  /\ \E q \in Request : row.token = q /\ req[q].phase = "lost"
  /\ ~lapsed
  /\ lapsed' = TRUE
  /\ UNCHANGED <<row, line, req, remote, pr, local, left>>

(* The server dies and starts again: it forgets requests, lock and leases.  *)
Restart ==
  /\ Spend("crashes")
  /\ row' = [row EXCEPT !.token = None]
  /\ lapsed' = FALSE
  /\ line' = << >>
  /\ req' = [q \in Request |-> IF req[q].phase = "new" THEN req[q]
                               ELSE [req[q] EXCEPT !.phase = "done"]]
  /\ UNCHANGED <<remote, pr, local>>

(* People on GitHub: they take a draft out of draft, merge, close, reopen,  *)
(* change the base of a request, or push to its branch.                     *)
People ==
  /\ Spend("moves")
  /\ \/ /\ \E p \in Pr :
             \/ pr[p].state = "draft" /\ pr' = [pr EXCEPT ![p].state = "ready"]
             \/ pr[p].state = "ready" /\ Conclude(p, "merged")
             \/ pr[p].state \in Open /\ Conclude(p, "closed")
             \/ /\ MayReopen(p)
                /\ pr' = [pr EXCEPT ![p].state = "ready", ![p].reopened = TRUE]
             \/ pr[p].state \in Open /\ pr' = [pr EXCEPT ![p].exact = FALSE]
        /\ UNCHANGED remote
     \/ remote = "exact" /\ remote' = "beyond" /\ UNCHANGED pr
  /\ UNCHANGED <<row, lapsed, line, req, local>>

Step(q) ==
  \/ Claim(q) \/ Observe(q) \/ Change(q) \/ Close(q) \/ PushBranch(q)
  \/ CreateDraft(q) \/ FindExactOpenPr(q) \/ Confirm(q) \/ Advance(q)
  \/ SettleDecision(q) \/ Unlock(q) \/ Release(q)
Next ==
  \/ \E q \in Request : Step(q) \/ \E a \in Action : Arrive(q, a)
  \/ Lapse \/ Expire \/ Restart \/ People

Spec == Init /\ [][Next]_vars
(* Commands have a time limit and promises settle: a request goes on.  Time *)
(* passes over a lease that was left behind.                                *)
FairSpec == Spec /\ WF_vars(Expire) /\ \A q \in Request : WF_vars(Step(q))

-----------------------------------------------------------------------------
Row == [decision : Decision, url : Pr \cup {NoPr}, cont : BOOLEAN,
        outcome : {"ready", "retryable", "blocked", "delivered", "none"},
        warn : BOOLEAN, effect : {"none", "todo", "done"},
        token : Request \cup {None}]
Phase == {"new", "claim", "observe", "act", "push", "create", "lookup",
          "confirm", "lock", "settle", "unlock", "release", "done", "lost"}
TypeOK ==
  /\ row \in Row
  /\ lapsed \in BOOLEAN
  /\ line \in Seq(Request)
  /\ req \in [Request -> [phase : Phase, action : Action,
                          seen : Row, plan : Row]]
  /\ remote \in Content
  /\ pr \in [Pr -> [state : {"none", "closed", "merged"} \cup Open,
                    exact : BOOLEAN, content : Content, reopened : BOOLEAN]]
  /\ local \in BOOLEAN
  /\ left \in [{"lapses", "crashes", "faults", "moves"} -> Nat]

(* Two requests are never at work on the delivery together, although a      *)
(* lease can be taken from a request that is still running.                 *)
AtWork(q) ==
  req[q].phase \in Phase \ {"new", "claim", "lock", "release", "done", "lost"}
OneAtWork == \A q, s \in Request : AtWork(q) /\ AtWork(s) => q = s

(* A delivery is merged only if its verified commit is: in the integration  *)
(* branch here, or by a pull request of the recorded head into the recorded *)
(* base.  What becomes of the tickets is said by TicketOutcomes.            *)
MergedIsMerged ==
  row.decision = "merged" =>
    \/ local
    \/ \E p \in Pr : /\ pr[p].state = "merged" /\ pr[p].exact
                     /\ pr[p].content # "old"

(* A delivery that was discarded without a warning has left no pull request *)
(* of its own open under the URL it recorded, unless a person reopened it.  *)
DiscardedIsClosed ==
  /\ row.decision = "discarded" /\ ~row.warn /\ ~row.cont /\ row.url # NoPr
  => pr[row.url].state \notin Open \/ pr[row.url].reopened

(* A decision that is final stays, also when a request that lost its lease  *)
(* comes back.                                                              *)
FinalStays == [][row.decision \in Terminal => row'.decision = row.decision]_vars

(* A local merge is for a delivery without a pull request ("merging under   *)
(* an open PR would leave it dangling").                                    *)
NoDanglingPr == row.decision = "merged" /\ row.url = NoPr => OpenPrs = {}

(* A request that has the lease gives it back or loses it to another one,   *)
(* unless the database refuses that very write or the read after the claim  *)
(* (dispatch.ts:50 and :69).  Even then the row does not stay blocked: the  *)
(* lease is there to be claimed again and again.                            *)
LeaseGivenBack ==
  /\ \A q \in Request : row.token = q ~> row.token # q \/ req[q].phase = "lost"
  /\ []<>Claimable

(* The state is well formed, and a discard leaves nothing open unsaid.      *)
Consistent == TypeOK /\ DiscardedIsClosed
=============================================================================
