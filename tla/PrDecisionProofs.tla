---------------------------- MODULE PrDecisionProofs ----------------------------
(***************************************************************************)
(* What holds of the decision on a delivery for any number of requests,    *)
(* pull requests, expired leases, crashes, failed commands and people.     *)
(***************************************************************************)
EXTENDS PrDecision, TLAPS

(* A request in one of these phases has claimed the row and works on it.   *)
Working == Phase \ {"new", "claim", "lock", "release", "done", "lost"}

(* It is then the holder of the repository lock, and stays it until the    *)
(* step that gives the lock back.                                          *)
Holder(q) ==
  \/ req[q].phase \in Working
  \/ req[q].phase = "release" /\ req[q].action # "merge-local"

HolderIsFirst == \A q \in Request : Holder(q) => HoldsLock(q)

(* What is claimed is not final, what is observed has a pull request, and  *)
(* only a local merge gives back the lock before the lease.                *)
ClaimsOpenRow ==
  \A q \in Request :
    /\ req[q].phase \in Working \cup {"lock"} => req[q].seen.decision \notin Terminal
    /\ req[q].phase \in {"observe", "act", "confirm"} => req[q].seen.url \in Pr
    /\ req[q].phase = "unlock" => req[q].action = "merge-local"

(* A follow-up is never completed, so no action is allowed on a final row. *)
Uncompleted(r) == r.cont => r.decision # "completed"
FollowUpsOpen ==
  /\ Uncompleted(row)
  /\ \A q \in Request : req[q].phase = "settle" => Uncompleted(req[q].plan)

(* The work is in the integration branch, or a pull request with it merged. *)
Delivered ==
  \/ local
  \/ \E p \in Pr : /\ pr[p].state = "merged" /\ pr[p].exact
                   /\ pr[p].content # "old"

MergesAreTrue ==
  /\ row.decision = "merged" => Delivered
  /\ \A q \in Request :
       req[q].phase = "settle" /\ req[q].plan.decision = "merged" => Delivered

Inv == TypeOK /\ HolderIsFirst /\ ClaimsOpenRow /\ FollowUpsOpen /\ MergesAreTrue

-----------------------------------------------------------------------------
(* What an observation makes of a row is a row; it is never completed, and *)
(* merged only if the pull request is, with the work of this delivery.     *)
LEMMA PlanOfObservation ==
  ASSUME NEW r \in Row, r.decision \notin Terminal, NEW o, NEW a \in Action
  PROVE  \A plan \in {Seen(a, r, o), Confirmed(a, r, o), Unanswered(a, r)} :
           /\ plan \in Row
           /\ Uncompleted(plan)
           /\ plan.decision = "merged" =>
                o.state = "merged" /\ o.exact /\ Includes(o)
<1> DEFINE Good(plan) == /\ plan \in Row
                         /\ Uncompleted(plan)
                         /\ plan.decision = "merged" =>
                              o.state = "merged" /\ o.exact /\ Includes(o)
<1>1. Good(Reroute(r))
  BY DEF Reroute, Row, Decision, Terminal, Uncompleted
<1>2. Good(Closed(r)) /\ Good(InReview(r, o)) /\ Good(Keep(r))
  BY DEF Closed, InReview, Keep, Row, Decision, Terminal, Uncompleted
<1>3. Good(Failed(r, "retryable")) /\ Good(Failed(r, "blocked"))
  BY DEF Failed, Row, Decision, Terminal, Uncompleted
<1>4. ASSUME o.state = "merged", o.exact, Includes(o) PROVE Good(Merged(r))
  BY <1>4 DEF Merged, Row, Decision, Terminal, Uncompleted
<1>5. ~(~o.exact \/ ~Includes(o)) => o.exact /\ Includes(o)
  OBVIOUS
<1>6. Good(Concluded(r, o))
  <2>1. CASE ~o.exact \/ ~Includes(o)  BY <2>1, <1>1 DEF Concluded
  <2>2. CASE o.exact /\ Includes(o) /\ o.state = "merged"
    <3>1. Concluded(r, o) = Merged(r)  BY <2>2 DEF Concluded
    <3> QED  BY <3>1, <2>2, <1>4
  <2>3. CASE o.exact /\ Includes(o) /\ o.state # "merged"
    <3>1. Concluded(r, o) = Closed(r)  BY <2>3 DEF Concluded
    <3> QED  BY <3>1, <1>2
  <2> QED  BY <2>1, <2>2, <2>3
<1>7. Good(Reopened(r, o))
  <2>1. CASE ~o.exact \/ ~Includes(o)  BY <2>1, <1>1 DEF Reopened
  <2>2. CASE o.exact /\ Includes(o) /\ o.state = "merged"
    <3>1. Reopened(r, o) = Merged(r)  BY <2>2 DEF Reopened
    <3> QED  BY <3>1, <2>2, <1>4
  <2>3. CASE o.exact /\ Includes(o) /\ o.state # "merged"
    <3>1. Reopened(r, o) \in {Keep(r), InReview(r, o)}  BY <2>3 DEF Reopened
    <3> QED  BY <3>1, <1>2
  <2> QED  BY <2>1, <2>2, <2>3
<1>8. Good(Published(r, o)) /\ Good(Polled(r, o)) /\ Good(Pushed(r, o))
  <2>1. {Published(r, o), Polled(r, o), Pushed(r, o)} \subseteq
          {Concluded(r, o), Failed(r, "retryable"), Keep(r), InReview(r, o)}
    BY DEF Published, Polled, Pushed
  <2> HIDE DEF Good
  <2> QED  BY <2>1, <1>2, <1>3, <1>6
<1>9. {Seen(a, r, o), Confirmed(a, r, o), Unanswered(a, r)} \subseteq
        {Published(r, o), Reopened(r, o), Polled(r, o), Pushed(r, o),
         Failed(r, "retryable"), Failed(r, "blocked"), Keep(r)}
  BY DEF Seen, Confirmed, Unanswered
<1> HIDE DEF Good
<1>10. \A plan \in {Seen(a, r, o), Confirmed(a, r, o), Unanswered(a, r)} : Good(plan)
  BY <1>2, <1>3, <1>7, <1>8, <1>9
<1> QED  BY <1>10 DEF Good

-----------------------------------------------------------------------------
(* The state without the row, the line and the requests.                   *)
World ==
  /\ lapsed \in BOOLEAN
  /\ remote \in Content
  /\ pr \in [Pr -> [state : {"none", "closed", "merged"} \cup Open,
                    exact : BOOLEAN, content : Content, reopened : BOOLEAN]]
  /\ local \in BOOLEAN
  /\ left \in [{"lapses", "crashes", "faults", "moves"} -> Nat]

(* What is delivered stays delivered if no merged request is changed.      *)
Lasts == /\ local => local'
         /\ \A p \in Pr : pr[p].state = "merged" => pr'[p] = pr[p]

LEMMA DeliveredLasts == ASSUME Lasts, Delivered PROVE Delivered'
  BY DEF Lasts, Delivered

LEMMA SpendType ==
  ASSUME World, NEW k \in {"lapses", "crashes", "faults", "moves"}, Spend(k)
  PROVE  left' \in [{"lapses", "crashes", "faults", "moves"} -> Nat]
  BY DEF World, Spend

(* A pull request of which one step changes the state, to anything, or the *)
(* base keeps its type, and what is merged lasts if it was not merged.     *)
LEMMA PrStep ==
  ASSUME World, UNCHANGED local, NEW p \in Pr, pr[p].state # "merged",
         NEW s \in {"none", "closed", "merged"} \cup Open, NEW c \in Content,
         NEW e \in BOOLEAN, NEW r \in BOOLEAN,
         pr' = [pr EXCEPT ![p] = [state |-> s, exact |-> e, content |-> c,
                                  reopened |-> r]]
  PROVE  Lasts /\ pr' \in [Pr -> [state : {"none", "closed", "merged"} \cup Open,
                    exact : BOOLEAN, content : Content, reopened : BOOLEAN]]
  BY DEF World, Lasts

(* A request that holds the lock works on: it changes the world and its    *)
(* plan, and leaves the row and the line alone.                            *)
LEMMA WorkKeepsInv ==
  ASSUME Inv, World', Lasts, UNCHANGED <<row, line>>,
         NEW q \in Request, HoldsLock(q),
         req[q].phase \in Working \cup {"lock"},
         NEW phase \in Working \ {"unlock"}, NEW plan \in Row,
         phase \in {"observe", "act", "confirm"} => req[q].seen.url \in Pr,
         phase = "settle" => /\ Uncompleted(plan)
                             /\ plan.decision = "merged" => Delivered',
         req' = [req EXCEPT ![q].phase = phase, ![q].plan = plan]
  PROVE  Inv'
<1>1. TypeOK'
  <2>1. req' \in [Request -> [phase : Phase, action : Action,
                              seen : Row, plan : Row]]
    BY DEF Inv, TypeOK, Working
  <2> QED  BY <2>1 DEF Inv, TypeOK, World
<1>2. /\ req'[q].phase = phase /\ req'[q].plan = plan
      /\ req'[q].seen = req[q].seen
      /\ \A s \in Request \ {q} : req'[s] = req[s]
  BY DEF Inv, TypeOK
<1>3. HolderIsFirst'
  BY <1>2 DEF Inv, HolderIsFirst, Holder, HoldsLock
<1>4. ClaimsOpenRow'
  BY <1>2 DEF Inv, ClaimsOpenRow
<1>5. FollowUpsOpen'
  BY <1>2 DEF Inv, FollowUpsOpen, Uncompleted
<1>6. MergesAreTrue'
  BY <1>2, DeliveredLasts DEF Inv, MergesAreTrue
<1> QED  BY <1>1, <1>3, <1>4, <1>5, <1>6 DEF Inv

(* The two ways the code's steps are written.                              *)
LEMMA SettleKeepsInv ==
  ASSUME Inv, World', Lasts, UNCHANGED <<row, line>>,
         NEW q \in Request, HoldsLock(q),
         req[q].phase \in Working \cup {"lock"},
         NEW plan \in Row, Settle(q, plan), Uncompleted(plan),
         plan.decision = "merged" => Delivered'
  PROVE  Inv'
<1>1. "settle" \in Working \ {"unlock"}  BY DEF Working, Phase
<1> QED  BY <1>1, WorkKeepsInv DEF Settle

LEMMA GotoKeepsInv ==
  ASSUME Inv, World', Lasts, UNCHANGED <<row, line>>,
         NEW q \in Request, HoldsLock(q),
         req[q].phase \in Working \cup {"lock"},
         NEW phase \in Working \ {"unlock", "settle"}, Goto(q, phase),
         phase \in {"observe", "act", "confirm"} => req[q].seen.url \in Pr
  PROVE  Inv'
<1>1. req[q].plan \in Row  BY DEF Inv, TypeOK
<1>2. req' = [req EXCEPT ![q].phase = phase, ![q].plan = req[q].plan]
  BY DEF Goto, Inv, TypeOK
<1> QED  BY <1>1, <1>2, WorkKeepsInv

(* What a request at work knows.                                           *)
LEMMA AtWorkFacts ==
  ASSUME Inv, NEW q \in Request, req[q].phase \in Working
  PROVE  /\ HoldsLock(q)
         /\ req[q].seen \in Row /\ req[q].seen.decision \notin Terminal
         /\ req[q].action \in Action
         /\ req[q].phase \in {"observe", "act", "confirm"} => req[q].seen.url \in Pr
  BY DEF Inv, TypeOK, HolderIsFirst, Holder, ClaimsOpenRow

LEMMA StillWorld == ASSUME Inv, UNCHANGED <<lapsed, remote, pr, local, left>>
                    PROVE  World' /\ Lasts
  BY DEF Inv, TypeOK, World, Lasts
LEMMA FaultOnly ==
  ASSUME Inv, UNCHANGED <<lapsed, remote, pr, local>>, Spend("faults")
  PROVE  World' /\ Lasts
<1>1. World  BY DEF Inv, TypeOK, World
<1>2. left' \in [{"lapses", "crashes", "faults", "moves"} -> Nat]
  BY <1>1, SpendType
<1> QED  BY <1>1, <1>2 DEF World, Lasts
LEMMA InvWorld == Inv => World  BY DEF Inv, TypeOK, World

(* A step that moves one request to a phase without work, and may end its  *)
(* turn at the lock.                                                       *)
LEMMA PhaseOnly ==
  ASSUME Inv, NEW q \in Request, NEW phase \in Phase, Goto(q, phase)
  PROVE  /\ req' \in [Request -> [phase : Phase, action : Action,
                                  seen : Row, plan : Row]]
         /\ req'[q].phase = phase /\ req'[q].action = req[q].action
         /\ req'[q].seen = req[q].seen
         /\ \A s \in Request \ {q} : req'[s] = req[s]
  BY DEF Inv, TypeOK, Goto

(* When the holder leaves the line, no other request was at work.          *)
LEMMA LeaveKeepsInv ==
  ASSUME Inv, World', UNCHANGED <<pr, local>>,
         NEW q \in Request, NEW phase \in {"release", "done", "lost"},
         Goto(q, phase),
         NEW t \in Request \cup {None},
         row' = row \/ row' = [row EXCEPT !.token = t],
         \/ HoldsLock(q) /\ line' = Tail(line)
            /\ (phase = "release" => req[q].action = "merge-local")
         \/ line' = line /\ phase # "release"
  PROVE  Inv'
<1>1. /\ req' \in [Request -> [phase : Phase, action : Action,
                               seen : Row, plan : Row]]
      /\ req'[q].phase = phase /\ req'[q].action = req[q].action
      /\ \A s \in Request \ {q} : req'[s] = req[s]
  <2>1. phase \in Phase  BY DEF Phase
  <2> QED  BY <2>1, PhaseOnly
<1>2. row' \in Row /\ row'.decision = row.decision /\ row'.cont = row.cont
  BY DEF Inv, TypeOK, Row
<1>3. line' \in Seq(Request)
  <2>1. line \in Seq(Request)  BY DEF Inv, TypeOK
  <2>2. line # << >> => Tail(line) \in Seq(Request)  BY <2>1
  <2> QED  BY <2>1, <2>2 DEF HoldsLock
<1>4. TypeOK'
  BY <1>1, <1>2, <1>3 DEF TypeOK, World
<1>5. ~Holder(q)'
  BY <1>1 DEF Holder, Working
<1>6. HolderIsFirst'
  <2>1. CASE HoldsLock(q)
    <3>1. \A s \in Request \ {q} : ~Holder(s)
      BY <2>1 DEF Inv, HolderIsFirst, HoldsLock
    <3> QED  BY <3>1, <1>1, <1>5 DEF HolderIsFirst, Holder
  <2>2. CASE line' = line
    BY <2>2, <1>1, <1>5 DEF Inv, HolderIsFirst, Holder, HoldsLock
  <2> QED  BY <2>1, <2>2
<1>7. ClaimsOpenRow'
  BY <1>1 DEF Inv, ClaimsOpenRow, Working
<1>8. FollowUpsOpen' /\ MergesAreTrue'
  BY <1>1, <1>2 DEF Inv, FollowUpsOpen, MergesAreTrue, Uncompleted, Delivered
<1> QED  BY <1>4, <1>6, <1>7, <1>8 DEF Inv

-----------------------------------------------------------------------------
(* A follow-up that changed nothing.                                       *)
Idle(p) == [FollowUp(p) EXCEPT !.decision = "no_changes", !.outcome = "ready"]

LEMMA InitInv == Init => Inv
<1> SUFFICES ASSUME Init PROVE Inv  OBVIOUS
<1> USE DecisionAssumption
<1>1. row \in Row /\ row.decision \notin Terminal /\ Uncompleted(row)
      /\ row.token = None
  <2>1. Fresh("on_review") \in Row /\ Fresh("no_changes") \in Row
    BY DEF Fresh, Row, Decision, Terminal
  <2>2. ASSUME NEW p \in Pr, NEW state \in Open
        PROVE /\ FollowUp(p) \in Row
              /\ InReview(FollowUp(p), [state |-> state]) \in Row
              /\ FollowUp(p).decision = "pr_failed"
              /\ FollowUp(p).token = None
              /\ InReview(FollowUp(p), [state |-> state]).token = None
              /\ InReview(FollowUp(p), [state |-> state]).decision
                   \in {"pr_ready", "pr_draft"}
              /\ Idle(p) \in Row
              /\ Idle(p).decision = "no_changes" /\ Idle(p).token = None
    BY DEF FollowUp, InReview, Idle, Fresh, Row, Decision, Terminal
  <2>3. CASE row \in {Fresh("on_review"), Fresh("no_changes")}
    <3>1. CASE row = Fresh("on_review")
      BY <3>1, <2>1 DEF Fresh, Terminal, Uncompleted
    <3>2. CASE row = Fresh("no_changes")
      BY <3>2, <2>1 DEF Fresh, Terminal, Uncompleted
    <3> QED  BY <2>3, <3>1, <3>2
  <2>4. CASE \E first \in Pr, state \in Open :
               row \in {InReview(FollowUp(first), [state |-> state]),
                        FollowUp(first), Idle(first)}
    BY <2>2, <2>4 DEF Terminal, Uncompleted
  <2> QED  BY <2>3, <2>4 DEF Init, Idle
<1>2. pr \in [Pr -> [state : {"none", "closed", "merged"} \cup Open,
                     exact : BOOLEAN, content : Content, reopened : BOOLEAN]]
      /\ remote \in Content
  <2>1. NoPrs \in [Pr -> [state : {"none", "closed", "merged"} \cup Open,
                    exact : BOOLEAN, content : Content, reopened : BOOLEAN]]
    BY DEF NoPrs, Content, Open
  <2>2. ASSUME NEW p \in Pr, NEW state \in Open
        PROVE  [NoPrs EXCEPT ![p].state = state] \in
                 [Pr -> [state : {"none", "closed", "merged"} \cup Open,
                    exact : BOOLEAN, content : Content, reopened : BOOLEAN]]
    BY <2>1
  <2>3. /\ remote \in {"old", "exact"}
        /\ \/ pr = NoPrs
           \/ \E p \in Pr, state \in Open : pr = [NoPrs EXCEPT ![p].state = state]
    <3>1. CASE row \in {Fresh("on_review"), Fresh("no_changes")}
               /\ pr = NoPrs /\ remote = "old"
      BY <3>1
    <3>2. CASE \E first \in Pr, state \in Open, there \in {"old", "exact"} :
                 /\ pr = [NoPrs EXCEPT ![first].state = state]
                 /\ remote = there
      BY <3>2
    <3> QED  BY <3>1, <3>2 DEF Init
  <2>4. remote \in Content  BY <2>3 DEF Content
  <2>5. CASE pr = NoPrs  BY <2>1, <2>4, <2>5
  <2>6. CASE \E p \in Pr, state \in Open : pr = [NoPrs EXCEPT ![p].state = state]
    BY <2>2, <2>4, <2>6
  <2> QED  BY <2>3, <2>5, <2>6
<1>3. NoRequest \in [phase : Phase, action : Action, seen : Row, plan : Row]
      /\ NoRequest.phase = "new"
  BY DEF NoRequest, Fresh, Row, Decision, Terminal, Phase, Action
<1>4. req = [q \in Request |-> NoRequest]  BY DEF Init
<1>5. TypeOK
  <2>1. req \in [Request -> [phase : Phase, action : Action,
                             seen : Row, plan : Row]]  BY <1>3, <1>4
  <2>2. left \in [{"lapses", "crashes", "faults", "moves"} -> Nat]
    <3>1. left = [lapses |-> MaxLapses, crashes |-> MaxCrashes,
                  faults |-> MaxFaults, moves |-> MaxMoves]
      BY DEF Init
    <3>2. {MaxLapses, MaxCrashes, MaxFaults, MaxMoves} \subseteq Nat
      BY DEF DecisionAssumption
    <3> QED  BY ONLY <3>1, <3>2
  <2>3. lapsed \in BOOLEAN /\ local \in BOOLEAN /\ line \in Seq(Request)
    <3>1. lapsed = FALSE /\ local = FALSE /\ line = << >>  BY DEF Init
    <3>2. << >> \in Seq(Request)  OBVIOUS
    <3> QED  BY <3>1, <3>2
  <2> QED  BY <1>1, <1>2, <2>1, <2>2, <2>3 DEF TypeOK
<1>6. \A q \in Request : req[q].phase = "new"  BY <1>3, <1>4
<1>7. HolderIsFirst /\ ClaimsOpenRow
  BY <1>6 DEF HolderIsFirst, Holder, Working, ClaimsOpenRow
<1>8. FollowUpsOpen /\ MergesAreTrue
  BY <1>1, <1>6 DEF FollowUpsOpen, MergesAreTrue, Terminal
<1> QED  BY <1>5, <1>7, <1>8 DEF Inv

LEMMA ArriveKeepsInv ==
  ASSUME Inv, NEW q \in Request, NEW a \in Action, Arrive(q, a)
  PROVE  Inv'
<1>1. /\ req' \in [Request -> [phase : Phase, action : Action,
                               seen : Row, plan : Row]]
      /\ req'[q].phase = "claim"
      /\ \A s \in Request \ {q} : req'[s] = req[s]
  <2>1. "claim" \in Phase  BY DEF Phase
  <2>2. /\ req \in [Request -> [phase : Phase, action : Action,
                                seen : Row, plan : Row]]
        /\ row \in Row
    BY DEF Inv, TypeOK
  <2>3. req' = [req EXCEPT ![q].phase = "claim", ![q].action = a,
                           ![q].seen = row]
    BY DEF Arrive
  <2> QED  BY <2>1, <2>2, <2>3
<1>2. line' \in Seq(Request) /\ (line # << >> => line' # << >> /\ Head(line') = Head(line))
  BY DEF Inv, TypeOK, Arrive
<1>3. TypeOK'
  BY <1>1, <1>2 DEF Inv, TypeOK, Arrive
<1>4. HolderIsFirst'
  BY <1>1, <1>2 DEF Inv, HolderIsFirst, Holder, Working, HoldsLock
<1>5. ClaimsOpenRow'
  BY <1>1 DEF Inv, ClaimsOpenRow, Working
<1>6. FollowUpsOpen'
  BY <1>1 DEF Inv, FollowUpsOpen, Arrive, Uncompleted
<1>7. MergesAreTrue'
  BY <1>1 DEF Inv, MergesAreTrue, Arrive, Delivered
<1> QED  BY <1>3, <1>4, <1>5, <1>6, <1>7 DEF Inv

(* No action is allowed on a row that is final.                            *)
LEMMA AllowedIsOpen ==
  ASSUME NEW r \in Row, Uncompleted(r), NEW a \in Action, ActionAllowed(a, r)
  PROVE  /\ r.decision \notin Terminal
         /\ a \in {"publish", "poll-merge", "reopen"} => r.url # NoPr
         /\ a = "acknowledge-no-changes" => ~r.cont
  BY DEF Row, Uncompleted, Terminal, ActionAllowed

LEMMA FirstPlanFacts ==
  ASSUME NEW r \in Row, NEW a \in Action, r.decision \notin Terminal,
         a = "acknowledge-no-changes" => ~r.cont
  PROVE  /\ FirstPlan(a, r) \in Row
         /\ Uncompleted(FirstPlan(a, r))
         /\ FirstPlan(a, r).decision # "merged"
<1>1. Discarded(r, FALSE) \in Row /\ Discarded(r, FALSE).decision = "discarded"
  BY DEF Discarded, Row, Decision, Terminal
<1>2. /\ Completed(r) \in Row /\ Completed(r).decision = "completed"
      /\ Completed(r).cont = r.cont
  BY DEF Completed, Row, Decision, Terminal
<1> QED  BY <1>1, <1>2 DEF FirstPlan, Keep, Uncompleted, Terminal

LEMMA ClaimKeepsInv ==
  ASSUME Inv, NEW q \in Request, Claim(q)
  PROVE  Inv'
<1> DEFINE a == req[q].action
           claimed == [row EXCEPT !.token = q]
           wins == /\ row.decision = req[q].seen.decision
                   /\ ActionAllowed(a, row)
                   /\ Claimable
<1>1. /\ a \in Action /\ row \in Row /\ Uncompleted(row)
      /\ line \in Seq(Request)
  BY DEF Inv, TypeOK, FollowUpsOpen
<1>2. /\ req[q].phase = "claim" /\ (a = "merge-local" \/ HoldsLock(q))
      /\ UNCHANGED <<remote, pr, local>>
  BY DEF Claim
<1>3. CASE ~wins
  <2>1. /\ Goto(q, "done")
        /\ line' = IF a = "merge-local" THEN line ELSE Tail(line)
        /\ UNCHANGED <<row, lapsed, left>>
    BY <1>3 DEF Claim
  <2>2. World'  BY <1>2, <2>1, StillWorld
  <2> QED  BY <1>2, <2>1, <2>2, LeaveKeepsInv
<1>4. CASE wins /\ Goto(q, "lost") /\ Spend("faults")
           /\ line' = IF a = "merge-local" THEN line ELSE Tail(line)
  <2>1. row' = claimed /\ lapsed' = FALSE  BY <1>4 DEF Claim
  <2>2. World'
    <3>1. World /\ left' \in [{"lapses", "crashes", "faults", "moves"} -> Nat]
      BY <1>4, InvWorld, SpendType
    <3> QED  BY <1>2, <2>1, <3>1 DEF World
  <2> QED  BY <1>2, <1>4, <2>1, <2>2, LeaveKeepsInv
<1>5. CASE /\ wins /\ UNCHANGED left
           /\ req' = [req EXCEPT ![q].phase = FirstPhase(a, row),
                                 ![q].seen = claimed,
                                 ![q].plan = FirstPlan(a, claimed)]
           /\ line' = IF a = "merge-local" THEN Append(line, q) ELSE line
  <2>1. /\ row' = claimed /\ lapsed' = FALSE
        /\ req' = [req EXCEPT ![q].phase = FirstPhase(a, row),
                              ![q].seen = claimed,
                              ![q].plan = FirstPlan(a, claimed)]
        /\ line' = IF a = "merge-local" THEN Append(line, q) ELSE line
    BY <1>5 DEF Claim
  <2>2. /\ row.decision \notin Terminal
        /\ a \in {"publish", "poll-merge", "reopen"} => row.url # NoPr
        /\ a = "acknowledge-no-changes" => ~row.cont
    BY <1>1, <1>5, AllowedIsOpen
  <2>3. /\ claimed \in Row /\ claimed.decision = row.decision
        /\ claimed.url = row.url /\ claimed.cont = row.cont
    BY <1>1 DEF Row
  <2>4. /\ FirstPlan(a, claimed) \in Row /\ Uncompleted(FirstPlan(a, claimed))
        /\ FirstPlan(a, claimed).decision # "merged"
    <3> HIDE DEF claimed, a
    <3> QED  BY <1>1, <2>2, <2>3, FirstPlanFacts
  <2>5. /\ FirstPhase(a, row) \in {"lock", "observe", "push", "act", "settle"}
        /\ FirstPhase(a, row) = "lock" <=> a = "merge-local"
        /\ FirstPhase(a, row) \in {"observe", "act"} => row.url # NoPr
    BY <1>1, <2>2 DEF FirstPhase, Action
  <2> HIDE DEF claimed, a
  <2>6. /\ req' \in [Request -> [phase : Phase, action : Action,
                                 seen : Row, plan : Row]]
        /\ req'[q].phase = FirstPhase(a, row) /\ req'[q].seen = claimed
        /\ req'[q].plan = FirstPlan(a, claimed)
        /\ \A s \in Request \ {q} : req'[s] = req[s]
    <3>1. FirstPhase(a, row) \in Phase  BY <2>5 DEF Phase
    <3> QED  BY <3>1, <2>1, <2>3, <2>4 DEF Inv, TypeOK
  <2>7. /\ line' \in Seq(Request)
        /\ line # << >> => line' # << >> /\ Head(line') = Head(line)
    BY <1>1, <2>1
  <2>8. TypeOK'
    BY <1>2, <1>5, <2>1, <2>3, <2>6, <2>7 DEF Inv, TypeOK
  <2>9. HolderIsFirst'
    <3>1. ASSUME Holder(q)' PROVE HoldsLock(q)'
      BY <3>1, <1>2, <2>1, <2>5, <2>6, <2>7 DEF Holder, Working, HoldsLock
    <3>2. ASSUME NEW s \in Request \ {q}, Holder(s)' PROVE HoldsLock(s)'
      BY <3>2, <2>6, <2>7 DEF Inv, HolderIsFirst, Holder, HoldsLock
    <3> QED  BY <3>1, <3>2 DEF HolderIsFirst
  <2>10. ClaimsOpenRow'
    <3>1. row.url \in Pr \cup {NoPr}  BY <1>1 DEF Row
    <3> QED  BY <3>1, <2>2, <2>3, <2>5, <2>6 DEF Inv, ClaimsOpenRow
  <2>11. FollowUpsOpen'
    BY <1>1, <2>1, <2>3, <2>4, <2>6 DEF Inv, FollowUpsOpen, Uncompleted
  <2>12. MergesAreTrue'
    BY <1>2, <2>1, <2>2, <2>3, <2>4, <2>6
       DEF Inv, MergesAreTrue, Delivered, Terminal
  <2> QED  BY <2>8, <2>9, <2>10, <2>11, <2>12 DEF Inv
<1> QED  BY <1>3, <1>4, <1>5 DEF Claim

-----------------------------------------------------------------------------
(* A merged request that is exact and holds the commit is the delivery.    *)
LEMMA ObservedMerged ==
  ASSUME Inv, NEW p \in Pr, Observed(p).state = "merged", Observed(p).exact,
         Includes(Observed(p))
  PROVE  Delivered
<1>1. pr[p] \in [state : {"none", "closed", "merged"} \cup Open,
                 exact : BOOLEAN, content : Content, reopened : BOOLEAN]
  BY DEF Inv, TypeOK
<1>2. /\ Observed(p).state = pr[p].state /\ Observed(p).exact = pr[p].exact
      /\ Observed(p).content = Holds(p)
  BY <1>1 DEF Observed
<1>3. pr[p].state = "merged" /\ pr[p].exact /\ pr[p].content # "old"
  BY <1>2 DEF Includes, Holds, Open
<1> QED  BY <1>3 DEF Delivered

LEMMA ObserveKeepsInv ==
  ASSUME Inv, NEW q \in Request, Observe(q) PROVE Inv'
<1> DEFINE a == req[q].action
           r == req[q].seen
           o == Observed(r.url)
<1>1. req[q].phase = "observe" /\ "observe" \in Working
  BY DEF Observe, Working, Phase
<1>2. /\ HoldsLock(q) /\ r \in Row /\ r.decision \notin Terminal
      /\ a \in Action /\ r.url \in Pr
  BY <1>1, AtWorkFacts
<1>3. UNCHANGED <<row, lapsed, line, remote, pr, local>>
  BY DEF Observe
<1>4. ASSUME NEW plan \in {Seen(a, r, o), Unanswered(a, r)}
      PROVE  /\ plan \in Row /\ Uncompleted(plan)
             /\ plan.decision = "merged" => Delivered
  BY <1>2, PlanOfObservation, ObservedMerged
<1>5. CASE UNCHANGED left
  <2>1. World' /\ Lasts  BY <1>3, <1>5, StillWorld
  <2>2. CASE Goto(q, "push") \/ Goto(q, "act")
    <3>1. {"push", "act"} \subseteq Working \ {"unlock", "settle"}
      BY DEF Working, Phase
    <3> QED  BY <1>1, <1>2, <1>3, <2>1, <2>2, <3>1, GotoKeepsInv
  <2>3. CASE Settle(q, Seen(a, r, o)) \/ Settle(q, Unanswered(a, r))
    BY <1>1, <1>2, <1>3, <1>4, <2>1, <2>3, SettleKeepsInv, DeliveredLasts
  <2>4. \/ Goto(q, "push") \/ Goto(q, "act")
        \/ Settle(q, Seen(a, r, o)) \/ Settle(q, Unanswered(a, r))
    BY DEF Observe
  <2> QED  BY <2>2, <2>3, <2>4
<1>6. CASE Spend("faults") /\ Settle(q, Unanswered(a, r))
  <2>1. World' /\ Lasts  BY <1>3, <1>6, FaultOnly
  <2> QED
    BY <1>1, <1>2, <1>3, <1>4, <1>6, <2>1, SettleKeepsInv, DeliveredLasts
<1> QED  BY <1>5, <1>6 DEF Observe

LEMMA ConfirmKeepsInv ==
  ASSUME Inv, NEW q \in Request, Confirm(q) PROVE Inv'
<1> DEFINE a == req[q].action
           r == req[q].seen
           o == Observed(r.url)
<1>1. req[q].phase = "confirm" /\ "confirm" \in Working
  BY DEF Confirm, Working, Phase
<1>2. /\ HoldsLock(q) /\ r \in Row /\ r.decision \notin Terminal
      /\ a \in Action /\ r.url \in Pr
  BY <1>1, AtWorkFacts
<1>3. UNCHANGED <<row, lapsed, line, remote, pr, local>>
  BY DEF Confirm
<1>4. ASSUME NEW plan \in {Confirmed(a, r, o), Unanswered(a, r)}
      PROVE  /\ plan \in Row /\ Uncompleted(plan)
             /\ plan.decision = "merged" => Delivered
  BY <1>2, PlanOfObservation, ObservedMerged
<1>5. World' /\ Lasts  BY <1>3, StillWorld, FaultOnly DEF Confirm
<1>6. Settle(q, Confirmed(a, r, o)) \/ Settle(q, Unanswered(a, r))
  BY DEF Confirm
<1> QED  BY <1>1, <1>2, <1>3, <1>4, <1>5, <1>6, SettleKeepsInv, DeliveredLasts

(* A request of which somebody changes one pull request that is not merged *)
(* leaves the rest of the world well formed.                               *)
LEMMA PrWorld ==
  ASSUME Inv, Lasts, UNCHANGED <<lapsed, remote, local>>,
         pr' \in [Pr -> [state : {"none", "closed", "merged"} \cup Open,
                    exact : BOOLEAN, content : Content, reopened : BOOLEAN]],
         \/ UNCHANGED left
         \/ \E k \in {"lapses", "crashes", "faults", "moves"} : Spend(k)
  PROVE  World'
<1>1. World  BY InvWorld
<1>2. left' \in [{"lapses", "crashes", "faults", "moves"} -> Nat]
  BY <1>1, SpendType DEF World
<1> QED  BY <1>1, <1>2 DEF World

(* The changes of a single field or two that the actions make.             *)
LEMMA PrChange ==
  ASSUME Inv, UNCHANGED local, NEW p \in Pr, pr[p].state # "merged",
         \/ \E s \in Open \cup {"closed"} : pr' = [pr EXCEPT ![p].state = s]
         \/ \E s \in {"merged", "closed"} : Conclude(p, s)
         \/ pr' = [pr EXCEPT ![p].state = "ready", ![p].reopened = TRUE]
         \/ pr' = [pr EXCEPT ![p].exact = FALSE]
  PROVE  Lasts /\ pr' \in [Pr -> [state : {"none", "closed", "merged"} \cup Open,
                    exact : BOOLEAN, content : Content, reopened : BOOLEAN]]
<1> DEFINE Record == [state : {"none", "closed", "merged"} \cup Open,
                      exact : BOOLEAN, content : Content, reopened : BOOLEAN]
<1>1. pr \in [Pr -> Record] /\ remote \in Content  BY DEF Inv, TypeOK
<1>2. pr[p] \in Record  BY <1>1
<1>3. ASSUME NEW s \in Open \cup {"closed"}, pr' = [pr EXCEPT ![p].state = s]
      PROVE  pr' \in [Pr -> Record] /\ Lasts
  BY <1>1, <1>2, <1>3 DEF Lasts
<1>4. ASSUME NEW s \in {"merged", "closed"}, Conclude(p, s)
      PROVE  pr' \in [Pr -> Record] /\ Lasts
  BY <1>1, <1>2, <1>4 DEF Lasts, Conclude
<1>5. CASE pr' = [pr EXCEPT ![p].state = "ready", ![p].reopened = TRUE]
  BY <1>1, <1>2, <1>5 DEF Lasts, Open
<1>6. CASE pr' = [pr EXCEPT ![p].exact = FALSE]
  BY <1>1, <1>2, <1>6 DEF Lasts
<1> QED  BY <1>3, <1>4, <1>5, <1>6

LEMMA SamePr == ASSUME Inv, UNCHANGED <<pr, local>>
                PROVE  Lasts /\ pr' \in [Pr -> [state : {"none", "closed", "merged"} \cup Open,
                    exact : BOOLEAN, content : Content, reopened : BOOLEAN]]
  BY DEF Inv, TypeOK, Lasts

LEMMA ChangeKeepsInv ==
  ASSUME Inv, NEW q \in Request, Change(q) PROVE Inv'
<1> DEFINE p == req[q].seen.url
<1>1. req[q].phase = "act" /\ "act" \in Working
  BY DEF Change, Working, Phase
<1>2. HoldsLock(q) /\ p \in Pr  BY <1>1, AtWorkFacts
<1>3. UNCHANGED <<row, lapsed, line, remote, local>> /\ Goto(q, "confirm")
  BY DEF Change
<1>4. \/ UNCHANGED pr
      \/ /\ pr[p].state # "merged"
         /\ \E s \in Open \cup {"closed"} : pr' = [pr EXCEPT ![p].state = s]
  BY DEF Change, MayReopen, Open
<1>5. Lasts /\ pr' \in [Pr -> [state : {"none", "closed", "merged"} \cup Open,
                    exact : BOOLEAN, content : Content, reopened : BOOLEAN]]
  <2> HIDE DEF p
  <2> QED  BY <1>2, <1>3, <1>4, PrChange, SamePr
<1>6. World'  BY <1>3, <1>5, PrWorld DEF Change
<1>7. "confirm" \in Working \ {"unlock", "settle"}  BY DEF Working, Phase
<1> QED  BY <1>1, <1>2, <1>3, <1>5, <1>6, <1>7, GotoKeepsInv

LEMMA CloseKeepsInv ==
  ASSUME Inv, NEW q \in Request, Close(q) PROVE Inv'
<1> DEFINE p == req[q].seen.url
           plan(w) == Discarded(req[q].seen, w)
<1>1. req[q].phase = "act" /\ "act" \in Working
  BY DEF Close, Working, Phase
<1>2. HoldsLock(q) /\ p \in Pr /\ req[q].seen \in Row  BY <1>1, AtWorkFacts
<1>3. UNCHANGED <<row, lapsed, line, remote, local>>
  BY DEF Close
<1>4. \/ UNCHANGED pr
      \/ pr[p].state \in Open /\ Conclude(p, "closed")
  BY DEF Close
<1>5. Lasts /\ pr' \in [Pr -> [state : {"none", "closed", "merged"} \cup Open,
                    exact : BOOLEAN, content : Content, reopened : BOOLEAN]]
  <2>1. "merged" \notin Open  BY DEF Open
  <2> HIDE DEF p
  <2> QED  BY <1>2, <1>3, <1>4, <2>1, PrChange, SamePr
<1>6. World'  BY <1>3, <1>5, PrWorld DEF Close
<1>7. Settle(q, plan(TRUE)) \/ Settle(q, plan(FALSE))  BY DEF Close
<1>8. ASSUME NEW w \in BOOLEAN
      PROVE  plan(w) \in Row /\ Uncompleted(plan(w)) /\ plan(w).decision # "merged"
  BY <1>2 DEF Discarded, Row, Decision, Terminal, Uncompleted
<1> HIDE DEF plan
<1> QED  BY <1>1, <1>2, <1>3, <1>5, <1>6, <1>7, <1>8, SettleKeepsInv

-----------------------------------------------------------------------------
(* The plans of a push, of a new request and of a local merge that failed. *)
LEMMA DegradedPlans ==
  ASSUME NEW r \in Row, r.decision \notin Terminal
  PROVE  \A plan \in {Degraded(r), Failed(r, "retryable"), Failed(r, "blocked"),
                      Keep(r), [r EXCEPT !.outcome = "blocked"]} :
           plan \in Row /\ Uncompleted(plan) /\ plan.decision # "merged"
<1>1. Degraded(r) \in Row /\ Degraded(r).decision = "pr_draft"
  BY DEF Degraded, Row, Decision, Terminal
<1>2. /\ Failed(r, "retryable") \in Row /\ Failed(r, "blocked") \in Row
      /\ Failed(r, "retryable").decision = "pr_failed"
      /\ Failed(r, "blocked").decision = "pr_failed"
  BY DEF Failed, Row, Decision, Terminal
<1>3. /\ [r EXCEPT !.outcome = "blocked"] \in Row
      /\ [r EXCEPT !.outcome = "blocked"].decision = r.decision
      /\ Keep(r) = r
  BY DEF Row, Keep
<1> QED  BY <1>1, <1>2, <1>3 DEF Uncompleted, Terminal

LEMMA PushKeepsInv ==
  ASSUME Inv, NEW q \in Request, PushBranch(q) PROVE Inv'
<1> DEFINE r == req[q].seen
<1>1. req[q].phase = "push" /\ "push" \in Working
  BY DEF PushBranch, Working, Phase
<1>2. HoldsLock(q) /\ r \in Row /\ r.decision \notin Terminal
  BY <1>1, AtWorkFacts
<1>3. UNCHANGED <<row, lapsed, line, pr, local>>  BY DEF PushBranch
<1>4. World' /\ Lasts
  <2>1. World  BY InvWorld
  <2>2. remote' \in Content  BY <2>1 DEF PushBranch, World, Content
  <2>3. left' \in [{"lapses", "crashes", "faults", "moves"} -> Nat]
    <3>1. UNCHANGED left \/ Spend("faults")  BY DEF PushBranch
    <3> QED  BY <3>1, <2>1, SpendType DEF World
  <2> QED  BY <1>3, <2>1, <2>2, <2>3 DEF World, Lasts
<1>5. CASE Goto(q, IF FollowsUp(q) THEN "confirm" ELSE "create")
  <2>1. {"confirm", "create"} \subseteq Working \ {"unlock", "settle"}
    BY DEF Working, Phase
  <2>2. FollowsUp(q) => r.url \in Pr  BY <1>2 DEF FollowsUp, Row
  <2>3. CASE FollowsUp(q)
    <3>1. Goto(q, "confirm")  BY <1>5, <2>3
    <3> QED  BY <3>1, <1>1, <1>2, <1>3, <1>4, <2>1, <2>2, <2>3, GotoKeepsInv
  <2>4. CASE ~FollowsUp(q)
    <3>1. Goto(q, "create")  BY <1>5, <2>4
    <3> QED  BY <3>1, <1>1, <1>2, <1>3, <1>4, <2>1, GotoKeepsInv
  <2> QED  BY <2>3, <2>4
<1>6. CASE \E plan \in {Degraded(r), Failed(r, "retryable"), Failed(r, "blocked")} :
             Settle(q, plan)
  BY <1>1, <1>2, <1>3, <1>4, <1>6, DegradedPlans, SettleKeepsInv
<1>7. PushFailed(q) \in {Degraded(r), Failed(r, "retryable")}
  BY DEF PushFailed
<1> QED  BY <1>5, <1>6, <1>7 DEF PushBranch

LEMMA LinkedPlan ==
  ASSUME NEW r \in Row, NEW p \in Pr, NEW state
  PROVE  /\ Linked(r, p, state) \in Row
         /\ Linked(r, p, state).decision \in {"pr_ready", "pr_draft"}
  BY DEF Linked, InReview, Row, Decision, Terminal

LEMMA CreateKeepsInv ==
  ASSUME Inv, NEW q \in Request, CreateDraft(q) PROVE Inv'
<1> DEFINE r == req[q].seen
<1>1. req[q].phase = "create" /\ "create" \in Working
  BY DEF CreateDraft, Working, Phase
<1>2. HoldsLock(q) /\ r \in Row /\ r.decision \notin Terminal
  BY <1>1, AtWorkFacts
<1>3. UNCHANGED <<row, lapsed, line, remote, local>>  BY DEF CreateDraft
<1>4. \/ UNCHANGED pr
      \/ \E p \in Pr, s \in Open \cup {"closed"} :
           pr[p].state # "merged" /\ pr' = [pr EXCEPT ![p].state = s]
  BY DEF CreateDraft, NextNumber, Unused, Open
<1>5. Lasts /\ pr' \in [Pr -> [state : {"none", "closed", "merged"} \cup Open,
                    exact : BOOLEAN, content : Content, reopened : BOOLEAN]]
  BY <1>3, <1>4, PrChange, SamePr
<1>6. World'  BY <1>3, <1>5, PrWorld DEF CreateDraft
<1>7. CASE Goto(q, "lookup")
  <2>1. "lookup" \in Working \ {"unlock", "settle"}  BY DEF Working, Phase
  <2> QED  BY <1>1, <1>2, <1>3, <1>5, <1>6, <1>7, <2>1, GotoKeepsInv
<1>8. CASE \E p \in Pr : Settle(q, Linked(r, p, "draft"))
  <2>1. PICK p \in Pr : Settle(q, Linked(r, p, "draft"))  BY <1>8
  <2>2. /\ Linked(r, p, "draft") \in Row
        /\ Uncompleted(Linked(r, p, "draft"))
        /\ Linked(r, p, "draft").decision # "merged"
    BY <1>2, LinkedPlan DEF Uncompleted
  <2> QED  BY <1>1, <1>2, <1>3, <1>5, <1>6, <2>1, <2>2, SettleKeepsInv
<1> QED  BY <1>7, <1>8 DEF CreateDraft, NextNumber, Unused

LEMMA LookupKeepsInv ==
  ASSUME Inv, NEW q \in Request, FindExactOpenPr(q) PROVE Inv'
<1> DEFINE r == req[q].seen
<1>1. req[q].phase = "lookup" /\ "lookup" \in Working
  BY DEF FindExactOpenPr, Working, Phase
<1>2. HoldsLock(q) /\ r \in Row /\ r.decision \notin Terminal
  BY <1>1, AtWorkFacts
<1>3. UNCHANGED <<row, lapsed, line, remote, pr, local>>
  BY DEF FindExactOpenPr
<1>4. World' /\ Lasts  BY <1>3, StillWorld, FaultOnly DEF FindExactOpenPr
<1>5. \/ Settle(q, Degraded(r))
      \/ \E p \in Pr : Settle(q, Linked(r, p, pr[p].state))
  BY DEF FindExactOpenPr, OpenPrs
<1>6. CASE Settle(q, Degraded(r))
  BY <1>1, <1>2, <1>3, <1>4, <1>6, DegradedPlans, SettleKeepsInv
<1>7. CASE \E p \in Pr : Settle(q, Linked(r, p, pr[p].state))
  <2>1. PICK p \in Pr : Settle(q, Linked(r, p, pr[p].state))  BY <1>7
  <2>2. /\ Linked(r, p, pr[p].state) \in Row
        /\ Uncompleted(Linked(r, p, pr[p].state))
        /\ Linked(r, p, pr[p].state).decision # "merged"
    BY <1>2, LinkedPlan DEF Uncompleted
  <2> QED  BY <1>1, <1>2, <1>3, <1>4, <2>1, <2>2, SettleKeepsInv
<1> QED  BY <1>5, <1>6, <1>7

LEMMA AdvanceKeepsInv ==
  ASSUME Inv, NEW q \in Request, Advance(q) PROVE Inv'
<1> DEFINE r == req[q].seen
<1>1. req[q].phase = "lock" /\ HoldsLock(q)  BY DEF Advance
<1>2. r \in Row /\ r.decision \notin Terminal
  BY <1>1 DEF Inv, TypeOK, ClaimsOpenRow
<1>3. UNCHANGED <<row, lapsed, line, remote, pr>>  BY DEF Advance
<1>4. CASE local' = TRUE /\ Settle(q, Merged(r)) /\ UNCHANGED left
  <2>1. World' /\ Lasts /\ Delivered'
    BY <1>3, <1>4, InvWorld DEF World, Lasts, Delivered
  <2>2. Merged(r) \in Row /\ Uncompleted(Merged(r))
    BY <1>2 DEF Merged, Row, Decision, Terminal, Uncompleted
  <2> QED  BY <1>1, <1>3, <1>4, <2>1, <2>2, SettleKeepsInv
<1>5. CASE /\ Spend("faults") /\ local' \in {local, TRUE}
           /\ \/ Settle(q, Keep(r))
              \/ Settle(q, [r EXCEPT !.outcome = "blocked"])
  <2>1. World' /\ Lasts
    <3>1. World /\ left' \in [{"lapses", "crashes", "faults", "moves"} -> Nat]
      BY <1>5, InvWorld, SpendType
    <3> QED  BY <1>3, <1>5, <3>1 DEF World, Lasts
  <2> QED  BY <1>1, <1>2, <1>3, <1>5, <2>1, DegradedPlans, SettleKeepsInv
<1> QED  BY <1>4, <1>5 DEF Advance

-----------------------------------------------------------------------------
(* What a settled request writes: its plan, or nothing.                    *)
LEMMA SettledRow ==
  ASSUME Inv, NEW q \in Request, SettleDecision(q)
  PROVE  /\ row' \in {row, req[q].plan}
         /\ row' # row => row.decision \notin Terminal
<1>1. req[q].phase = "settle" /\ "settle" \in Working
  BY DEF SettleDecision, Working, Phase
<1>2. req[q].seen.decision \notin Terminal  BY <1>1, AtWorkFacts
<1> QED  BY <1>2 DEF SettleDecision, Transitions

LEMMA SettleDecisionKeepsInv ==
  ASSUME Inv, NEW q \in Request, SettleDecision(q) PROVE Inv'
<1>1. req[q].phase = "settle" /\ "settle" \in Working
      /\ {"unlock", "release"} \subseteq Phase
  BY DEF SettleDecision, Working, Phase
<1>2. HoldsLock(q)  BY <1>1, AtWorkFacts
<1>3. UNCHANGED <<lapsed, line, remote, pr, local>> /\ World'
  <2>1. UNCHANGED <<lapsed, line, remote, pr, local>>  BY DEF SettleDecision
  <2>2. World /\ left' \in [{"lapses", "crashes", "faults", "moves"} -> Nat]
    <3>1. UNCHANGED left \/ Spend("faults")  BY DEF SettleDecision
    <3> QED  BY <3>1, InvWorld, SpendType DEF World
  <2> QED  BY <2>1, <2>2 DEF World
<1>4. PICK phase \in {"unlock", "release"} :
        /\ Goto(q, phase)
        /\ phase = "unlock" <=> req[q].action = "merge-local"
  BY DEF SettleDecision
<1>5. /\ req' \in [Request -> [phase : Phase, action : Action,
                               seen : Row, plan : Row]]
      /\ req'[q].phase = phase /\ req'[q].action = req[q].action
      /\ req'[q].seen = req[q].seen
      /\ \A s \in Request \ {q} : req'[s] = req[s]
  BY <1>1, <1>4, PhaseOnly
<1>6. row' \in {row, req[q].plan}  BY SettledRow
<1>7. /\ row' \in Row /\ Uncompleted(row')
      /\ row'.decision = "merged" => Delivered
  BY <1>1, <1>6 DEF Inv, TypeOK, FollowUpsOpen, MergesAreTrue
<1>8. TypeOK'
  BY <1>3, <1>5, <1>7 DEF Inv, TypeOK, World
<1>9. HolderIsFirst'
  BY <1>2, <1>3, <1>5 DEF Inv, HolderIsFirst, Holder, HoldsLock
<1>10. ClaimsOpenRow'
  BY <1>1, <1>4, <1>5 DEF Inv, ClaimsOpenRow
<1>11. FollowUpsOpen'
  BY <1>5, <1>7 DEF Inv, FollowUpsOpen, Uncompleted
<1>12. MergesAreTrue'
  BY <1>3, <1>5, <1>7 DEF Inv, MergesAreTrue, Delivered
<1> QED  BY <1>8, <1>9, <1>10, <1>11, <1>12 DEF Inv

LEMMA UnlockKeepsInv ==
  ASSUME Inv, NEW q \in Request, Unlock(q) PROVE Inv'
<1>1. req[q].phase = "unlock" /\ "unlock" \in Working
  BY DEF Unlock, Working, Phase
<1>2. HoldsLock(q) /\ req[q].action = "merge-local"
  BY <1>1, AtWorkFacts DEF Inv, ClaimsOpenRow
<1>3. World'  BY StillWorld DEF Unlock
<1> QED  BY <1>2, <1>3, LeaveKeepsInv DEF Unlock

LEMMA ReleaseKeepsInv ==
  ASSUME Inv, NEW q \in Request, Release(q) PROVE Inv'
<1>1. req[q].phase = "release" /\ UNCHANGED <<remote, pr, local>>
  BY DEF Release
<1>2. PICK phase \in {"done", "lost"} : Goto(q, phase)  BY DEF Release
<1>3. row' = row \/ row' = [row EXCEPT !.token = None]  BY DEF Release
<1>4. World'
  <2>1. World  BY InvWorld
  <2>2. left' \in [{"lapses", "crashes", "faults", "moves"} -> Nat]
    <3>1. UNCHANGED left \/ Spend("faults")  BY DEF Release
    <3> QED  BY <3>1, <2>1, SpendType DEF World
  <2>3. lapsed' \in BOOLEAN  BY <2>1 DEF Release, World
  <2> QED  BY <1>1, <2>1, <2>2, <2>3 DEF World
<1>5. CASE req[q].action = "merge-local"
  <2>1. line' = line  BY <1>5 DEF Release
  <2> QED  BY <1>1, <1>2, <1>3, <1>4, <2>1, LeaveKeepsInv
<1>6. CASE req[q].action # "merge-local"
  <2>1. HoldsLock(q)  BY <1>1, <1>6 DEF Inv, HolderIsFirst, Holder
  <2>2. line' = Tail(line)  BY <1>6 DEF Release
  <2> QED  BY <1>1, <1>2, <1>3, <1>4, <2>1, <2>2, LeaveKeepsInv
<1> QED  BY <1>5, <1>6

LEMMA ExpireKeepsInv == ASSUME Inv, Expire PROVE Inv'
<1>1. World'  BY InvWorld DEF Expire, World
<1>2. TypeOK'  BY <1>1 DEF Inv, TypeOK, World, Expire
<1> QED  BY <1>2 DEF Inv, Expire, HolderIsFirst, Holder, HoldsLock, ClaimsOpenRow,
               FollowUpsOpen, MergesAreTrue, Uncompleted, Delivered

LEMMA LapseKeepsInv == ASSUME Inv, Lapse PROVE Inv'
<1>1. World'  
  <2>1. World  BY InvWorld
  <2> QED  BY <2>1, SpendType DEF Lapse, World
<1>2. TypeOK'  BY <1>1 DEF Inv, TypeOK, World, Lapse
<1> QED  BY <1>2 DEF Inv, Lapse, HolderIsFirst, Holder, HoldsLock, ClaimsOpenRow,
               FollowUpsOpen, MergesAreTrue, Uncompleted, Delivered

LEMMA RestartKeepsInv == ASSUME Inv, Restart PROVE Inv'
<1>1. \A q \in Request : req'[q].phase \in {"new", "done"}
  BY DEF Inv, TypeOK, Restart
<1>2. req' \in [Request -> [phase : Phase, action : Action,
                            seen : Row, plan : Row]]
  BY DEF Inv, TypeOK, Restart, Phase
<1>3. row' \in Row /\ row'.decision = row.decision /\ row'.cont = row.cont
  BY DEF Inv, TypeOK, Restart, Row
<1>4. left' \in [{"lapses", "crashes", "faults", "moves"} -> Nat]
  BY InvWorld, SpendType DEF Restart
<1>5. line' \in Seq(Request)
  <2>1. line' = << >>  BY DEF Restart
  <2>2. << >> \in Seq(Request)  OBVIOUS
  <2> QED  BY <2>1, <2>2
<1>6. TypeOK'
  BY <1>2, <1>3, <1>4, <1>5 DEF Inv, TypeOK, Restart
<1>7. HolderIsFirst' /\ ClaimsOpenRow'
  BY <1>1 DEF HolderIsFirst, Holder, ClaimsOpenRow, Working
<1>8. FollowUpsOpen' /\ MergesAreTrue'
  BY <1>1, <1>3 DEF Inv, FollowUpsOpen, MergesAreTrue, Uncompleted, Delivered, Restart
<1> QED  BY <1>6, <1>7, <1>8 DEF Inv

LEMMA PeopleKeepsInv == ASSUME Inv, People PROVE Inv'
<1>1. UNCHANGED <<row, lapsed, line, req, local>> /\ Spend("moves")
  BY DEF People
<1>2. Lasts /\ pr' \in [Pr -> [state : {"none", "closed", "merged"} \cup Open,
                    exact : BOOLEAN, content : Content, reopened : BOOLEAN]]
  <2>1. CASE UNCHANGED pr  BY <1>1, <2>1, SamePr
  <2>2. CASE \E p \in Pr :
               \/ pr[p].state = "draft" /\ pr' = [pr EXCEPT ![p].state = "ready"]
               \/ pr[p].state = "ready" /\ Conclude(p, "merged")
               \/ pr[p].state \in Open /\ Conclude(p, "closed")
               \/ /\ MayReopen(p)
                  /\ pr' = [pr EXCEPT ![p].state = "ready", ![p].reopened = TRUE]
               \/ pr[p].state \in Open /\ pr' = [pr EXCEPT ![p].exact = FALSE]
    <3>1. PICK p \in Pr :
               \/ pr[p].state = "draft" /\ pr' = [pr EXCEPT ![p].state = "ready"]
               \/ pr[p].state = "ready" /\ Conclude(p, "merged")
               \/ pr[p].state \in Open /\ Conclude(p, "closed")
               \/ /\ MayReopen(p)
                  /\ pr' = [pr EXCEPT ![p].state = "ready", ![p].reopened = TRUE]
               \/ pr[p].state \in Open /\ pr' = [pr EXCEPT ![p].exact = FALSE]
      BY <2>2
    <3>2. pr[p].state # "merged" /\ "ready" \in Open
      BY <3>1 DEF Open, MayReopen
    <3> QED  BY <1>1, <3>1, <3>2, PrChange
  <2> QED  BY <2>1, <2>2 DEF People
<1>3. remote' \in Content  BY DEF People, Inv, TypeOK, Content
<1>4. left' \in [{"lapses", "crashes", "faults", "moves"} -> Nat]
  BY <1>1, InvWorld, SpendType
<1>5. TypeOK'  BY <1>1, <1>2, <1>3, <1>4 DEF Inv, TypeOK
<1>6. MergesAreTrue'
  BY <1>1, <1>2, DeliveredLasts DEF Inv, MergesAreTrue
<1> QED  BY <1>1, <1>5, <1>6
         DEF Inv, HolderIsFirst, Holder, HoldsLock, ClaimsOpenRow,
             FollowUpsOpen, Uncompleted

-----------------------------------------------------------------------------
LEMMA StepKeepsInv == Inv /\ [Next]_vars => Inv'
<1> SUFFICES ASSUME Inv, [Next]_vars PROVE Inv'  OBVIOUS
<1>1. CASE UNCHANGED vars
  BY <1>1 DEF vars, Inv, TypeOK, HolderIsFirst, Holder, HoldsLock, ClaimsOpenRow,
              FollowUpsOpen, MergesAreTrue, Uncompleted, Delivered
<1>2. ASSUME NEW q \in Request, Step(q) PROVE Inv'
  BY <1>2, ClaimKeepsInv, ObserveKeepsInv, ChangeKeepsInv, CloseKeepsInv,
     PushKeepsInv, CreateKeepsInv, LookupKeepsInv, ConfirmKeepsInv,
     AdvanceKeepsInv, SettleDecisionKeepsInv, UnlockKeepsInv, ReleaseKeepsInv
     DEF Step
<1>3. ASSUME NEW q \in Request, NEW a \in Action, Arrive(q, a) PROVE Inv'
  BY <1>3, ArriveKeepsInv
<1>4. CASE Lapse \/ Expire \/ Restart \/ People
  BY <1>4, LapseKeepsInv, ExpireKeepsInv, RestartKeepsInv, PeopleKeepsInv
<1> QED  BY <1>1, <1>2, <1>3, <1>4 DEF Next

THEOREM Invariance == Spec => []Inv
  BY InitInv, StepKeepsInv, PTL DEF Spec

(* Two requests never work on the delivery together: each of them holds    *)
(* the repository lock, whatever became of the leases.                     *)
THEOREM OneAtWorkAlways == Spec => []OneAtWork
<1>1. Inv => OneAtWork
  BY DEF Inv, HolderIsFirst, Holder, HoldsLock, Working, OneAtWork, AtWork
<1> QED  BY <1>1, Invariance, PTL

(* A delivery is merged only if its verified commit is, through any number *)
(* of crashes, failed commands, lost answers and people on GitHub.         *)
THEOREM MergedIsMergedAlways == Spec => []MergedIsMerged
<1>1. Inv => MergedIsMerged
  BY DEF Inv, MergesAreTrue, Delivered, MergedIsMerged
<1> QED  BY <1>1, Invariance, PTL

(* The decision of a row that is final is not written again: what a        *)
(* request claimed was not final, and it writes only over what it claimed. *)
LEMMA StepKeepsFinal ==
  Inv /\ [Next]_vars => (row.decision \in Terminal => row'.decision = row.decision)
<1> SUFFICES ASSUME Inv, [Next]_vars, row.decision \in Terminal
             PROVE  row'.decision = row.decision
  OBVIOUS
<1>1. row \in Row  BY DEF Inv, TypeOK
<1>2. CASE UNCHANGED vars  BY <1>2 DEF vars
<1>3. ASSUME NEW q \in Request, Step(q) PROVE row'.decision = row.decision
  <2>1. CASE SettleDecision(q)
    BY <2>1, SettledRow
  <2>2. CASE Claim(q)
    <3>1. row' = row \/ row' = [row EXCEPT !.token = q]  BY <2>2 DEF Claim
    <3> QED  BY <1>1, <3>1 DEF Row
  <2>3. CASE Release(q)
    <3>1. row' = row \/ row' = [row EXCEPT !.token = None]  BY <2>3 DEF Release
    <3> QED  BY <1>1, <3>1 DEF Row
  <2>4. CASE \/ Observe(q) \/ Change(q) \/ Close(q) \/ PushBranch(q)
             \/ CreateDraft(q) \/ FindExactOpenPr(q) \/ Confirm(q)
             \/ Advance(q) \/ Unlock(q)
    BY <2>4 DEF Observe, Change, Close, PushBranch, CreateDraft,
                FindExactOpenPr, Confirm, Advance, Unlock
  <2> QED  BY <1>3, <2>1, <2>2, <2>3, <2>4 DEF Step
<1>4. CASE \E q \in Request, a \in Action : Arrive(q, a)
  BY <1>4 DEF Arrive
<1>5. CASE Lapse \/ Expire \/ People  BY <1>5 DEF Lapse, Expire, People
<1>6. CASE Restart
  <2>1. row' = [row EXCEPT !.token = None]  BY <1>6 DEF Restart
  <2> QED  BY <1>1, <2>1 DEF Row
<1> QED  BY <1>2, <1>3, <1>4, <1>5, <1>6 DEF Next

THEOREM FinalStaysAlways == Spec => FinalStays
<1>1. Inv /\ [Next]_vars => [row.decision \in Terminal => row'.decision = row.decision]_vars
  BY StepKeepsFinal
<1> QED  BY <1>1, Invariance, PTL DEF Spec, FinalStays

-----------------------------------------------------------------------------
(* A discard leaves no pull request open unsaid.  What a row or a request  *)
(* links to exists, and a row that is discarded without a warning has its  *)
(* pull request closed; while a request other than a local merge is at     *)
(* work, nobody else writes the decision, so it never reopens the pull     *)
(* request of a row that somebody else discarded meanwhile.                *)
Exists(r, g) == r.url # NoPr => g[r.url].state # "none"
Off(o) == o.state \notin Open \/ o.reopened
ClosedOff(r, g) ==
  r.decision = "discarded" /\ ~r.warn /\ ~r.cont /\ r.url # NoPr => Off(g[r.url])
Quiet(r, g) == Exists(r, g) /\ ClosedOff(r, g)

Links ==
  /\ Quiet(row, pr)
  /\ \A q \in Request :
       /\ req[q].phase \in Working \cup {"lock"} => Exists(req[q].seen, pr)
       /\ req[q].phase = "settle" => Quiet(req[q].plan, pr)
       /\ req[q].phase = "lock" => req[q].action = "merge-local"
       /\ req[q].phase \in Working /\ req[q].action # "merge-local"
            => row.decision = req[q].seen.decision

(* A pull request stays, and one that is closed is only reopened by people. *)
Stays ==
  \A p \in Pr : pr[p].state # "none" =>
    pr'[p].state # "none" /\ (Off(pr[p]) => Off(pr'[p]))

LEMMA QuietLasts ==
  ASSUME Stays, NEW r \in Row
  PROVE  (Exists(r, pr) => Exists(r, pr')) /\ (Quiet(r, pr) => Quiet(r, pr'))
  BY DEF Stays, Row, Quiet, Exists, ClosedOff

LEMMA SamePrStays == ASSUME UNCHANGED pr PROVE Stays
  BY DEF Stays

(* A request at work changes its phase and its plan.                       *)
LEMMA WorkKeepsLinks ==
  ASSUME Inv, Links, Stays, UNCHANGED row,
         NEW q \in Request, req[q].phase \in Working \cup {"lock"},
         NEW phase \in Working, NEW plan \in Row,
         phase = "settle" => Quiet(plan, pr'),
         req' = [req EXCEPT ![q].phase = phase, ![q].plan = plan]
  PROVE  Links'
<1>1. /\ req'[q].phase = phase /\ req'[q].plan = plan
      /\ req'[q].seen = req[q].seen /\ req'[q].action = req[q].action
      /\ \A s \in Request \ {q} : req'[s] = req[s]
  BY DEF Inv, TypeOK
<1>2. row \in Row /\ \A s \in Request : req[s].seen \in Row /\ req[s].plan \in Row
  BY DEF Inv, TypeOK
<1>3. Quiet(row, pr')  BY <1>2, QuietLasts DEF Links
<1>4. phase # "lock"  BY DEF Working
<1>5. ASSUME NEW s \in Request
      PROVE  /\ (req[s].phase \in Working \cup {"lock"} => Exists(req[s].seen, pr))'
             /\ (req[s].phase = "settle" => Quiet(req[s].plan, pr))'
             /\ (req[s].phase = "lock" => req[s].action = "merge-local")'
             /\ (req[s].phase \in Working /\ req[s].action # "merge-local"
                   => row.decision = req[s].seen.decision)'
  <2>1. CASE s = q
    <3>1. Exists(req[q].seen, pr) => Exists(req[q].seen, pr')
      BY <1>2, QuietLasts
    <3> QED  BY <2>1, <3>1, <1>1, <1>4 DEF Links
  <2>2. CASE s # q
    <3>1. /\ Exists(req[s].seen, pr) => Exists(req[s].seen, pr')
          /\ Quiet(req[s].plan, pr) => Quiet(req[s].plan, pr')
      BY <1>2, QuietLasts
    <3> QED  BY <2>2, <3>1, <1>1 DEF Links
  <2> QED  BY <2>1, <2>2
<1> QED  BY <1>3, <1>5 DEF Links

LEMMA SettleKeepsLinks ==
  ASSUME Inv, Links, Stays, UNCHANGED row,
         NEW q \in Request, req[q].phase \in Working \cup {"lock"},
         NEW plan \in Row, Settle(q, plan), Quiet(plan, pr')
  PROVE  Links'
<1>1. "settle" \in Working  BY DEF Working, Phase
<1> QED  BY <1>1, WorkKeepsLinks DEF Settle

LEMMA GotoKeepsLinks ==
  ASSUME Inv, Links, Stays, UNCHANGED row,
         NEW q \in Request, req[q].phase \in Working \cup {"lock"},
         NEW phase \in Working \ {"settle"}, Goto(q, phase)
  PROVE  Links'
<1>1. req[q].plan \in Row  BY DEF Inv, TypeOK
<1>2. req' = [req EXCEPT ![q].phase = phase, ![q].plan = req[q].plan]
  BY DEF Goto, Inv, TypeOK
<1> QED  BY <1>1, <1>2, WorkKeepsLinks

(* Plans other than a discard link to nothing new.                         *)
LEMMA PlanLinks ==
  ASSUME NEW r \in Row, r.decision \notin Terminal, NEW o, NEW a \in Action
  PROVE  \A plan \in {Seen(a, r, o), Confirmed(a, r, o), Unanswered(a, r), Keep(r),
                      Degraded(r), Failed(r, "retryable"), Failed(r, "blocked"),
                      Merged(r), [r EXCEPT !.outcome = "blocked"]} :
           plan.url \in {r.url, NoPr} /\ plan.decision # "discarded"
<1> DEFINE Good(plan) == plan.url \in {r.url, NoPr} /\ plan.decision # "discarded"
<1>1. Good(Reroute(r))
  BY DEF Reroute, Row
<1>2. Good(Closed(r)) /\ Good(InReview(r, o)) /\ Good(Keep(r))
  BY DEF Closed, InReview, Keep, Row, Terminal
<1>3. /\ Good(Failed(r, "retryable")) /\ Good(Failed(r, "blocked"))
      /\ Good(Degraded(r)) /\ Good(Merged(r)) /\ Good([r EXCEPT !.outcome = "blocked"])
  BY DEF Failed, Degraded, Merged, Row, Terminal
<1> HIDE DEF Good
<1>4. Good(Concluded(r, o))
  BY <1>1, <1>2, <1>3 DEF Concluded
<1>5. Good(Reopened(r, o))
  BY <1>1, <1>2, <1>3 DEF Reopened
<1>6. Good(Published(r, o))
  BY <1>2, <1>3, <1>4 DEF Published
<1>7. Good(Polled(r, o))
  BY <1>2, <1>3, <1>4 DEF Polled
<1>8. Good(Pushed(r, o))
  BY <1>2, <1>3, <1>4 DEF Pushed
<1>9. Good(Seen(a, r, o))
  <2>1. CASE a \in {"publish", "reopen", "poll-merge"}
    BY <2>1, <1>5, <1>6, <1>7 DEF Seen
  <2>2. CASE a \notin {"publish", "reopen", "poll-merge"}
    BY <2>2, <1>3, <1>8 DEF Seen
  <2> QED  BY <2>1, <2>2
<1>10. Good(Confirmed(a, r, o)) /\ Good(Unanswered(a, r))
  <2>1. CASE a \in {"publish", "reopen"}
    BY <2>1, <1>5, <1>6, <1>2 DEF Confirmed, Unanswered
  <2>2. CASE a \notin {"publish", "reopen"}
    BY <2>2, <1>3, <1>2, <1>8 DEF Confirmed, Unanswered
  <2> QED  BY <2>1, <2>2
<1>11. \A plan \in {Seen(a, r, o), Confirmed(a, r, o), Unanswered(a, r), Keep(r),
                    Degraded(r), Failed(r, "retryable"), Failed(r, "blocked"),
                    Merged(r), [r EXCEPT !.outcome = "blocked"]} : Good(plan)
  BY <1>2, <1>3, <1>9, <1>10
<1> QED  BY <1>11 DEF Good

LEMMA PlanQuiet ==
  ASSUME NEW r, Exists(r, pr'), NEW plan, plan.url \in {r.url, NoPr},
         plan.decision # "discarded"
  PROVE  Quiet(plan, pr')
  BY DEF Quiet, Exists, ClosedOff

LEMMA InitLinks == Init => Links
<1> SUFFICES ASSUME Init PROVE Links  OBVIOUS
<1> USE DecisionAssumption
<1>1. \A q \in Request : req[q].phase = "new"  BY DEF Init, NoRequest
<1>2. Quiet(row, pr)
  <2>1. CASE row \in {Fresh("on_review"), Fresh("no_changes")}
    BY <2>1 DEF Fresh, Quiet, Exists, ClosedOff
  <2>2. CASE \E first \in Pr, state \in Open :
               /\ row \in {InReview(FollowUp(first), [state |-> state]),
                           FollowUp(first), Idle(first)}
               /\ pr = [NoPrs EXCEPT ![first].state = state]
    <3>1. PICK first \in Pr, state \in Open :
               /\ row \in {InReview(FollowUp(first), [state |-> state]),
                           FollowUp(first), Idle(first)}
               /\ pr = [NoPrs EXCEPT ![first].state = state]
      BY <2>2
    <3>2. row.url = first /\ row.decision # "discarded"
      BY <3>1 DEF FollowUp, InReview, Idle, Fresh
    <3>3. pr[first].state = state /\ state # "none"
      BY <3>1 DEF NoPrs, Open
    <3> QED  BY <3>2, <3>3 DEF Quiet, Exists, ClosedOff
  <2> QED  BY <2>1, <2>2 DEF Init, Idle
<1> QED  BY <1>1, <1>2 DEF Links, Working

LEMMA ArriveKeepsLinks ==
  ASSUME Inv, Links, NEW q \in Request, NEW a \in Action, Arrive(q, a)
  PROVE  Links'
<1>1. req'[q].phase = "claim" /\ \A s \in Request \ {q} : req'[s] = req[s]
  BY DEF Inv, TypeOK, Arrive
<1>2. UNCHANGED <<row, pr>>  BY DEF Arrive
<1> QED  BY <1>1, <1>2 DEF Links, Working

(* What a claim plans at once is a discard only of a row without a pull    *)
(* request, or of a follow-up.                                             *)
LEMMA FirstPlanQuiet ==
  ASSUME NEW r \in Row, Exists(r, pr), NEW a \in Action, r.decision \notin Terminal,
         FirstPhase(a, r) = "settle"
  PROVE  Quiet(FirstPlan(a, r), pr)
<1>1. CASE a \in {"discard", "dismiss"}
  <2>1. r.url = NoPr \/ r.cont  BY <1>1 DEF FirstPhase
  <2>2. /\ FirstPlan(a, r) = Discarded(r, FALSE)
        /\ Discarded(r, FALSE).url = r.url /\ Discarded(r, FALSE).cont = r.cont
    BY <1>1 DEF FirstPlan, Discarded, Row
  <2> QED  BY <2>1, <2>2 DEF Quiet, Exists, ClosedOff
<1>2. CASE a = "acknowledge-no-changes"
  <2>1. /\ FirstPlan(a, r) = Completed(r)
        /\ Completed(r).url = r.url /\ Completed(r).decision = "completed"
    BY <1>2 DEF FirstPlan, Completed, Row
  <2> QED  BY <2>1 DEF Quiet, Exists, ClosedOff
<1>3. CASE a \notin {"discard", "dismiss", "acknowledge-no-changes"}
  <2>1. FirstPlan(a, r) = r  BY <1>3 DEF FirstPlan, Keep
  <2> QED  BY <2>1 DEF Quiet, Exists, ClosedOff, Terminal
<1> QED  BY <1>1, <1>2, <1>3

(* The other steps leave the row its decision and end the turn of requests. *)
LEMMA LeaveKeepsLinks ==
  ASSUME Inv, Links, Stays, NEW t, row' = row \/ row' = [row EXCEPT !.token = t],
         \A s \in Request : req'[s] = req[s] \/ req'[s].phase \in {"release", "done", "lost"}
  PROVE  Links'
<1>1. row \in Row /\ \A s \in Request : req[s].seen \in Row /\ req[s].plan \in Row
  BY DEF Inv, TypeOK
<1>2. /\ row'.decision = row.decision /\ row'.url = row.url
      /\ row'.warn = row.warn /\ row'.cont = row.cont
  BY <1>1 DEF Row
<1>3. Quiet(row, pr')  BY <1>1, QuietLasts DEF Links
<1>4. Quiet(row', pr')  BY <1>2, <1>3 DEF Quiet, Exists, ClosedOff
<1>5. {"release", "done", "lost"} \cap (Working \cup {"lock", "settle"}) = {}
  BY DEF Working
<1>6. ASSUME NEW s \in Request
      PROVE  /\ req'[s].phase \in Working \cup {"lock"} => Exists(req'[s].seen, pr')
             /\ req'[s].phase = "settle" => Quiet(req'[s].plan, pr')
             /\ req'[s].phase = "lock" => req'[s].action = "merge-local"
             /\ req'[s].phase \in Working /\ req'[s].action # "merge-local"
                  => row'.decision = req'[s].seen.decision
  <2>1. CASE req'[s] = req[s]
    <3>1. /\ Exists(req[s].seen, pr) => Exists(req[s].seen, pr')
          /\ Quiet(req[s].plan, pr) => Quiet(req[s].plan, pr')
      BY <1>1, QuietLasts
    <3> QED  BY <2>1, <3>1, <1>2 DEF Links
  <2>2. CASE req'[s].phase \in {"release", "done", "lost"}
    BY <2>2, <1>5
  <2> QED  BY <2>1, <2>2
<1> QED  BY <1>4, <1>6 DEF Links

LEMMA ClaimKeepsLinks ==
  ASSUME Inv, Links, NEW q \in Request, Claim(q)
  PROVE  Links'
<1> DEFINE a == req[q].action
           claimed == [row EXCEPT !.token = q]
<1>1. UNCHANGED pr /\ row \in Row /\ a \in Action
  BY DEF Claim, Inv, TypeOK
<1>2. CASE /\ ActionAllowed(a, row)
           /\ row' = claimed
           /\ req' = [req EXCEPT ![q].phase = FirstPhase(a, row),
                                 ![q].seen = claimed,
                                 ![q].plan = FirstPlan(a, claimed)]
  <2>1. /\ req'[q].phase = FirstPhase(a, row) /\ req'[q].seen = claimed
        /\ req'[q].plan = FirstPlan(a, claimed) /\ req'[q].action = a
        /\ \A s \in Request \ {q} : req'[s] = req[s]
    BY <1>2 DEF Inv, TypeOK
  <2>2. /\ claimed \in Row /\ claimed.decision = row.decision
        /\ claimed.url = row.url /\ claimed.cont = row.cont /\ claimed.warn = row.warn
    BY <1>1 DEF Row
  <2>3. row.decision \notin Terminal
    BY <1>1, <1>2, AllowedIsOpen DEF Inv, FollowUpsOpen
  <2>4. Exists(claimed, pr) /\ Quiet(claimed, pr)
    BY <2>2 DEF Links, Quiet, Exists, ClosedOff
  <2>5. FirstPhase(a, claimed) = FirstPhase(a, row)
    BY <2>2 DEF FirstPhase
  <2>6. FirstPhase(a, row) = "settle" => Quiet(FirstPlan(a, claimed), pr)
    BY <1>1, <2>2, <2>3, <2>4, <2>5, FirstPlanQuiet
  <2>7. FirstPhase(a, row) = "lock" => a = "merge-local"
    BY DEF FirstPhase
  <2> HIDE DEF claimed
  <2> QED  BY <1>1, <1>2, <2>1, <2>2, <2>4, <2>6, <2>7 DEF Links
<1>3. CASE /\ UNCHANGED row \/ row' = claimed
           /\ Goto(q, "done") \/ Goto(q, "lost")
  <2>1. \A s \in Request : \/ req'[s] = req[s]
                            \/ req'[s].phase \in {"release", "done", "lost"}
    BY <1>3 DEF Goto, Inv, TypeOK
  <2> QED  BY <1>1, <1>3, <2>1, SamePrStays, LeaveKeepsLinks
<1> QED  BY <1>2, <1>3 DEF Claim

(* What a request at work has claimed exists.                              *)
LEMMA AtWorkLinks ==
  ASSUME Inv, Links, NEW q \in Request, req[q].phase \in Working \cup {"lock"}
  PROVE  /\ req[q].seen \in Row /\ req[q].seen.decision \notin Terminal
         /\ Exists(req[q].seen, pr) /\ req[q].action \in Action
  BY DEF Inv, TypeOK, ClaimsOpenRow, Links

LEMMA ObserveKeepsLinks ==
  ASSUME Inv, Links, NEW q \in Request, Observe(q) \/ Confirm(q) PROVE Links'
<1> DEFINE r == req[q].seen
           a == req[q].action
<1>1. req[q].phase \in Working /\ UNCHANGED <<row, pr>>
  BY DEF Observe, Confirm, Working, Phase
<1>2. r \in Row /\ r.decision \notin Terminal /\ Exists(r, pr) /\ a \in Action
  BY <1>1, AtWorkLinks
<1>3. Stays  BY <1>1, SamePrStays
<1>4. CASE \/ \E phase \in {"push", "act"} : Goto(q, phase)
  <2>1. {"push", "act"} \subseteq Working \ {"settle"}  BY DEF Working, Phase
  <2> QED  BY <1>1, <1>3, <1>4, <2>1, GotoKeepsLinks
<1>5. CASE \E o : \E plan \in {Seen(a, r, o), Confirmed(a, r, o), Unanswered(a, r)} :
             Settle(q, plan)
  <2>1. PICK o : \E plan \in {Seen(a, r, o), Confirmed(a, r, o), Unanswered(a, r)} :
             Settle(q, plan)
    BY <1>5
  <2>2. PICK plan \in {Seen(a, r, o), Confirmed(a, r, o), Unanswered(a, r)} :
             Settle(q, plan)
    BY <2>1
  <2>3. plan \in Row  BY <1>2, PlanOfObservation
  <2>4. plan.url \in {r.url, NoPr} /\ plan.decision # "discarded"
    BY <1>2, PlanLinks
  <2>5. Exists(r, pr')  BY <1>1, <1>2
  <2>6. Quiet(plan, pr')
    BY <2>4, <2>5 DEF Quiet, Exists, ClosedOff
  <2> QED  BY <1>1, <1>3, <2>2, <2>3, <2>6, SettleKeepsLinks
<1> QED  BY <1>4, <1>5 DEF Observe, Confirm

(* A request that reopens works on a row that nobody has discarded.        *)
LEMMA ChangeKeepsLinks ==
  ASSUME Inv, Links, NEW q \in Request, Change(q) PROVE Links'
<1> DEFINE p == req[q].seen.url
<1>1. /\ req[q].phase = "act" /\ {"act", "confirm"} \subseteq Working \ {"settle"}
      /\ "settle" \in Working
  BY DEF Change, Working, Phase
<1>2. HoldsLock(q) /\ p \in Pr /\ req[q].seen.decision \notin Terminal
  BY <1>1, AtWorkFacts
<1>3. UNCHANGED row /\ Goto(q, "confirm")
  BY DEF Change
<1>4. pr \in [Pr -> [state : {"none", "closed", "merged"} \cup Open,
                     exact : BOOLEAN, content : Content, reopened : BOOLEAN]]
  BY DEF Inv, TypeOK
<1>5. row.decision # "discarded"
  <2>1. req[q].action # "merge-local"
    BY DEF Change
  <2>2. row.decision = req[q].seen.decision
    BY <1>1, <2>1 DEF Links
  <2> QED  BY <1>2, <2>2 DEF Terminal
<1>6. \A s \in Request : req[s].phase # "settle"
  BY <1>1, <1>2 DEF Inv, HolderIsFirst, Holder, HoldsLock
<1>7. \A g \in Pr : pr[g].state # "none" => pr'[g].state # "none"
  <2>1. UNCHANGED pr \/ \E s \in Open : pr' = [pr EXCEPT ![p].state = s]
    BY DEF Change, Open
  <2>2. "none" \notin Open  BY DEF Open
  <2> HIDE DEF p
  <2> QED  BY <1>2, <1>4, <2>1, <2>2
<1>8. /\ req'[q].phase = "confirm" /\ req'[q].seen = req[q].seen
      /\ req'[q].action = req[q].action
      /\ \A s \in Request \ {q} : req'[s] = req[s]
  BY <1>3 DEF Goto, Inv, TypeOK
<1>9. \A r \in Row : Exists(r, pr) => Exists(r, pr')
  BY <1>7 DEF Exists, Row
<1>10. row \in Row /\ \A s \in Request : req[s].seen \in Row
  BY DEF Inv, TypeOK
<1>11. Quiet(row, pr')
  BY <1>5, <1>9, <1>10 DEF Links, Quiet, ClosedOff
<1>12. ASSUME NEW s \in Request
       PROVE  /\ req'[s].phase \in Working \cup {"lock"} => Exists(req'[s].seen, pr')
              /\ req'[s].phase # "settle"
              /\ req'[s].phase = "lock" => req'[s].action = "merge-local"
              /\ req'[s].phase \in Working /\ req'[s].action # "merge-local"
                   => row.decision = req'[s].seen.decision
  BY <1>1, <1>6, <1>8, <1>9, <1>10 DEF Links
<1> QED  BY <1>3, <1>11, <1>12 DEF Links

LEMMA CloseKeepsLinks ==
  ASSUME Inv, Links, NEW q \in Request, Close(q) PROVE Links'
<1> DEFINE r == req[q].seen
           p == req[q].seen.url
<1>1. req[q].phase = "act" /\ "act" \in Working  BY DEF Close, Working, Phase
<1>2. /\ r \in Row /\ r.decision \notin Terminal /\ Exists(r, pr) /\ p \in Pr
  BY <1>1, AtWorkLinks, AtWorkFacts
<1>3. pr \in [Pr -> [state : {"none", "closed", "merged"} \cup Open,
                     exact : BOOLEAN, content : Content, reopened : BOOLEAN]]
  BY DEF Inv, TypeOK
<1>4. UNCHANGED row  BY DEF Close
<1>5. UNCHANGED pr \/ Conclude(p, "closed")  BY DEF Close
<1>6. Stays
  <2>1. "closed" \notin Open  BY DEF Open
  <2> HIDE DEF p
  <2> QED  BY <1>2, <1>3, <1>5, <2>1 DEF Stays, Conclude, Off
<1>7. \/ Settle(q, Discarded(r, TRUE))
      \/ Settle(q, Discarded(r, FALSE)) /\ pr'[p].state = "closed"
  <2> HIDE DEF p
  <2> QED  BY <1>2, <1>3 DEF Close, Conclude, p
<1>8. ASSUME NEW w \in BOOLEAN
      PROVE  /\ Discarded(r, w) \in Row /\ Discarded(r, w).url = p
             /\ Discarded(r, w).warn = w
  BY <1>2 DEF Discarded, Row, Decision, Terminal
<1>9. Exists(r, pr')  BY <1>2, <1>6, QuietLasts
<1>10. Quiet(Discarded(r, TRUE), pr')
  BY <1>8, <1>9 DEF Quiet, Exists, ClosedOff
<1>11. pr'[p].state = "closed" => Quiet(Discarded(r, FALSE), pr')
  BY <1>8, <1>9 DEF Quiet, Exists, ClosedOff, Off, Open
<1> QED  BY <1>1, <1>4, <1>6, <1>7, <1>8, <1>10, <1>11, SettleKeepsLinks

LEMMA PushKeepsLinks ==
  ASSUME Inv, Links, NEW q \in Request, PushBranch(q) PROVE Links'
<1> DEFINE r == req[q].seen
<1>1. req[q].phase \in Working /\ UNCHANGED <<row, pr>>
  BY DEF PushBranch, Working, Phase
<1>2. r \in Row /\ r.decision \notin Terminal /\ Exists(r, pr) /\ req[q].action \in Action
  BY <1>1, AtWorkLinks
<1>3. Stays  BY <1>1, SamePrStays
<1>4. CASE \E phase \in {"confirm", "create"} : Goto(q, phase)
  <2>1. {"confirm", "create"} \subseteq Working \ {"settle"}  BY DEF Working, Phase
  <2> QED  BY <1>1, <1>3, <1>4, <2>1, GotoKeepsLinks
<1>5. CASE \E plan \in {Degraded(r), Failed(r, "retryable"), Failed(r, "blocked")} :
             Settle(q, plan)
  <2>1. PICK plan \in {Degraded(r), Failed(r, "retryable"), Failed(r, "blocked")} :
             Settle(q, plan)
    BY <1>5
  <2>2. plan \in Row  BY <1>2, DegradedPlans
  <2>3. plan.url \in {r.url, NoPr} /\ plan.decision # "discarded"
    BY <1>2, PlanLinks
  <2>4. Quiet(plan, pr')
    BY <1>1, <1>2, <2>3 DEF Quiet, Exists, ClosedOff
  <2> QED  BY <1>1, <1>3, <2>1, <2>2, <2>4, SettleKeepsLinks
<1>6. PushFailed(q) \in {Degraded(r), Failed(r, "retryable")}
  BY DEF PushFailed
<1> QED  BY <1>4, <1>5, <1>6 DEF PushBranch

LEMMA LinkedQuiet ==
  ASSUME NEW r \in Row, NEW p \in Pr, NEW state, pr'[p].state # "none"
  PROVE  Linked(r, p, state) \in Row /\ Quiet(Linked(r, p, state), pr')
<1>1. /\ Linked(r, p, state) \in Row
      /\ Linked(r, p, state).decision \in {"pr_ready", "pr_draft"}
  BY LinkedPlan
<1>2. Linked(r, p, state).url = p  BY DEF Linked, InReview, Row
<1> QED  BY <1>1, <1>2 DEF Quiet, Exists, ClosedOff

LEMMA CreateKeepsLinks ==
  ASSUME Inv, Links, NEW q \in Request, CreateDraft(q) PROVE Links'
<1> DEFINE r == req[q].seen
<1>1. req[q].phase \in Working /\ UNCHANGED row
  BY DEF CreateDraft, Working, Phase
<1>2. r \in Row  BY <1>1, AtWorkLinks
<1>3. pr \in [Pr -> [state : {"none", "closed", "merged"} \cup Open,
                     exact : BOOLEAN, content : Content, reopened : BOOLEAN]]
  BY DEF Inv, TypeOK
<1>4. "lookup" \in Working \ {"settle"}  BY DEF Working, Phase
<1>5. CASE UNCHANGED pr /\ Goto(q, "lookup")
  BY <1>1, <1>4, <1>5, SamePrStays, GotoKeepsLinks
<1>6. CASE \E p \in Unused :
             /\ pr' = [pr EXCEPT ![p].state = "draft"]
             /\ Settle(q, Linked(r, p, "draft")) \/ Goto(q, "lookup")
  <2>1. PICK p \in Unused :
             /\ pr' = [pr EXCEPT ![p].state = "draft"]
             /\ Settle(q, Linked(r, p, "draft")) \/ Goto(q, "lookup")
    BY <1>6
  <2>2. p \in Pr /\ pr[p].state = "none"  BY DEF Unused
  <2>3. Stays /\ pr'[p].state = "draft"
    BY <1>3, <2>1, <2>2 DEF Stays
  <2>4. Linked(r, p, "draft") \in Row /\ Quiet(Linked(r, p, "draft"), pr')
    BY <1>2, <2>2, <2>3, LinkedQuiet
  <2> QED  BY <1>1, <1>4, <2>1, <2>3, <2>4, SettleKeepsLinks, GotoKeepsLinks
<1> QED  BY <1>5, <1>6 DEF CreateDraft, NextNumber

LEMMA LookupKeepsLinks ==
  ASSUME Inv, Links, NEW q \in Request, FindExactOpenPr(q) PROVE Links'
<1> DEFINE r == req[q].seen
<1>1. req[q].phase \in Working /\ UNCHANGED <<row, pr>>
  BY DEF FindExactOpenPr, Working, Phase
<1>2. r \in Row /\ r.decision \notin Terminal /\ Exists(r, pr) /\ req[q].action \in Action
  BY <1>1, AtWorkLinks
<1>3. Stays  BY <1>1, SamePrStays
<1>4. CASE Settle(q, Degraded(r))
  <2>1. Degraded(r) \in Row  BY <1>2, DegradedPlans
  <2>2. Degraded(r).url \in {r.url, NoPr} /\ Degraded(r).decision # "discarded"
    BY <1>2, PlanLinks
  <2>3. Quiet(Degraded(r), pr')
    BY <1>1, <1>2, <2>2 DEF Quiet, Exists, ClosedOff
  <2> QED  BY <1>1, <1>3, <1>4, <2>1, <2>3, SettleKeepsLinks
<1>5. CASE \E p \in OpenPrs : Settle(q, Linked(r, p, pr[p].state))
  <2>1. PICK p \in OpenPrs : Settle(q, Linked(r, p, pr[p].state))  BY <1>5
  <2>2. p \in Pr /\ pr'[p].state # "none"  BY <1>1 DEF OpenPrs, Open
  <2>3. /\ Linked(r, p, pr[p].state) \in Row
        /\ Quiet(Linked(r, p, pr[p].state), pr')
    BY <1>2, <2>2, LinkedQuiet
  <2> QED  BY <1>1, <1>3, <2>1, <2>3, SettleKeepsLinks
<1> QED  BY <1>4, <1>5 DEF FindExactOpenPr

LEMMA AdvanceKeepsLinks ==
  ASSUME Inv, Links, NEW q \in Request, Advance(q) PROVE Links'
<1> DEFINE r == req[q].seen
           plans == {Merged(r), Keep(r), [r EXCEPT !.outcome = "blocked"]}
<1>1. req[q].phase = "lock" /\ UNCHANGED <<row, pr>>
  BY DEF Advance
<1>2. r \in Row /\ r.decision \notin Terminal /\ Exists(r, pr) /\ req[q].action \in Action
  BY <1>1, AtWorkLinks
<1>3. PICK plan \in plans : Settle(q, plan)  BY DEF Advance
<1>4. plan \in Row
  <2>1. Merged(r) \in Row  BY <1>2 DEF Merged, Row, Decision, Terminal
  <2> QED  BY <1>2, <2>1, DegradedPlans
<1>5. plan.url \in {r.url, NoPr} /\ plan.decision # "discarded"
  BY <1>2, PlanLinks
<1>6. Quiet(plan, pr')
  BY <1>1, <1>2, <1>5 DEF Quiet, Exists, ClosedOff
<1> QED  BY <1>1, <1>3, <1>4, <1>6, SamePrStays, SettleKeepsLinks

-----------------------------------------------------------------------------
(* Nobody else is at work when a request settles the row.                  *)
LEMMA SettleDecisionKeepsLinks ==
  ASSUME Inv, Links, NEW q \in Request, SettleDecision(q) PROVE Links'
<1>1. req[q].phase = "settle" /\ "settle" \in Working /\ UNCHANGED pr
  BY DEF SettleDecision, Working, Phase
<1>2. PICK phase \in {"unlock", "release"} :
           /\ Goto(q, phase)
           /\ req[q].action = "merge-local" \/ phase = "release"
  BY DEF SettleDecision
<1>3. /\ req'[q].phase = phase /\ req'[q].seen = req[q].seen
      /\ req'[q].action = req[q].action
      /\ \A s \in Request \ {q} : req'[s] = req[s]
  BY <1>2 DEF Goto, Inv, TypeOK
<1>4. \A s \in Request \ {q} : req[s].phase \notin Working
  BY <1>1 DEF Inv, HolderIsFirst, Holder, HoldsLock
<1>5. Quiet(row', pr)
  BY <1>1, SettledRow DEF Links
<1>6. phase \in {"unlock", "release"} => phase # "settle" /\ phase # "lock"
  OBVIOUS
<1>7. "release" \notin Working  BY DEF Working
<1> QED  BY <1>1, <1>2, <1>3, <1>4, <1>5, <1>6, <1>7 DEF Links

LEMMA PeopleStay == ASSUME Inv, People PROVE Stays
<1>1. pr \in [Pr -> [state : {"none", "closed", "merged"} \cup Open,
                     exact : BOOLEAN, content : Content, reopened : BOOLEAN]]
  BY DEF Inv, TypeOK
<1>2. CASE UNCHANGED pr  BY <1>2, SamePrStays
<1>3. CASE \E p \in Pr :
             \/ pr[p].state = "draft" /\ pr' = [pr EXCEPT ![p].state = "ready"]
             \/ Conclude(p, "merged") \/ Conclude(p, "closed")
             \/ pr' = [pr EXCEPT ![p].state = "ready", ![p].reopened = TRUE]
             \/ pr' = [pr EXCEPT ![p].exact = FALSE]
  BY <1>1, <1>3 DEF Stays, Off, Conclude, Open
<1> QED  BY <1>2, <1>3 DEF People

LEMMA StepKeepsLinks == Inv /\ Links /\ [Next]_vars => Links'
<1> SUFFICES ASSUME Inv, Links, [Next]_vars PROVE Links'  OBVIOUS
<1>1. CASE UNCHANGED vars
  BY <1>1, SamePrStays, LeaveKeepsLinks DEF vars
<1>2. ASSUME NEW q \in Request, Step(q) PROVE Links'
  <2>1. CASE Unlock(q) \/ Release(q)
    <3>1. /\ UNCHANGED pr
          /\ row' = row \/ row' = [row EXCEPT !.token = None]
          /\ \E phase \in {"release", "done", "lost"} : Goto(q, phase)
      BY <2>1 DEF Unlock, Release
    <3>2. \A s \in Request : \/ req'[s] = req[s]
                              \/ req'[s].phase \in {"release", "done", "lost"}
      BY <3>1 DEF Goto, Inv, TypeOK
    <3>3. Stays  BY <3>1, SamePrStays
    <3> QED  BY <3>1, <3>2, <3>3, LeaveKeepsLinks
  <2> QED
    BY <1>2, <2>1, ClaimKeepsLinks, ObserveKeepsLinks, ChangeKeepsLinks,
       CloseKeepsLinks, PushKeepsLinks, CreateKeepsLinks, LookupKeepsLinks,
       AdvanceKeepsLinks, SettleDecisionKeepsLinks
       DEF Step
<1>3. ASSUME NEW q \in Request, NEW a \in Action, Arrive(q, a) PROVE Links'
  BY <1>3, ArriveKeepsLinks
<1>4. CASE Lapse \/ Expire \/ People
  <2>1. UNCHANGED <<row, req>>  BY <1>4 DEF Lapse, Expire, People
  <2>2. Stays  BY <1>4, PeopleStay, SamePrStays DEF Lapse, Expire
  <2> QED  BY <2>1, <2>2, LeaveKeepsLinks
<1>5. CASE Restart
  <2>1. UNCHANGED pr /\ row' = [row EXCEPT !.token = None]
    BY <1>5 DEF Restart
  <2>2. \A s \in Request : req'[s] = req[s] \/ req'[s].phase \in {"release", "done"}
    BY <1>5 DEF Restart, Inv, TypeOK
  <2> QED  BY <2>1, <2>2, SamePrStays, LeaveKeepsLinks
<1> QED  BY <1>1, <1>2, <1>3, <1>4, <1>5 DEF Next

(* The state is well formed, and a delivery that was discarded without a   *)
(* warning has left no pull request of its own open, whatever requests     *)
(* meet and whatever becomes of their commands.                            *)
THEOREM ConsistentAlways == Spec => []Consistent
<1>1. Init => Inv /\ Links  BY InitInv, InitLinks
<1>2. Inv /\ Links /\ [Next]_vars => (Inv /\ Links)'
  BY StepKeepsInv, StepKeepsLinks
<1>3. Inv /\ Links => Consistent
  BY DEF Inv, Links, Quiet, ClosedOff, Off, Consistent, DiscardedIsClosed
<1> QED  BY <1>1, <1>2, <1>3, PTL DEF Spec
=============================================================================
