----------------------- MODULE InteractiveSessionProofs -----------------------
(***************************************************************************)
(* What holds of a resident session for any prompts and any bounds: the    *)
(* turns are accounted for once, a session that ends well has done so, and *)
(* prompts are dealt with as PromptDelivery says.                          *)
(***************************************************************************)
EXTENDS InteractiveSession, TLAPS

USE DEF promptVars, turnVars, taskVars, endVars, envVars

(* A prompt waits exactly when it is queued, once, for the turn that       *)
(* streams or for the microtask that feeds it.                             *)
Queue ==
  /\ \A p \in Prompt : fate[p] = "queued" <=> \E i \in DOMAIN pending : pending[i] = p
  /\ \A i, j \in DOMAIN pending : pending[i] = pending[j] => i = j
  /\ pending # <<>> => awaiting \/ finalizing \/ Over \/ micro = "feed"

(* A session that has no child yet has done nothing.                       *)
Fresh ==
  child = "none" =>
    /\ turns = <<>> /\ pending = <<>> /\ ~awaiting /\ ~folded
    /\ ~disposed /\ ~finalizing /\ micro = "none" /\ refusals = 0
    /\ settled = "no" => fate[First] = "new"

(* Every turn was accepted, but for the one in flight, or that was in      *)
(* flight when the session ended.                                          *)
Accepts ==
  /\ \A i \in DOMAIN turns : i \in accepted \/ (i = Len(turns) /\ (awaiting \/ Over))
  /\ awaiting => Len(turns) \notin accepted

(* What a turn was counted for: its frame, or the one fold of a session.   *)
Counts ==
  /\ \A i \in DOMAIN turns :
       turns[i].counted <= (IF i \in accepted THEN 1 ELSE 0) + (IF folded THEN 1 ELSE 0)
  /\ refusals = 0 =>
       /\ folded => Over
       /\ \A i \in DOMAIN turns :
            /\ turns[i].counted <= 1
            /\ i \in accepted => turns[i].counted = 1
            /\ ~Over /\ i \notin accepted => turns[i].counted = 0
            /\ Over /\ i \notin accepted /\ turnEvents => turns[i].counted = 1

AllOk == \A i \in DOMAIN turns : turns[i].result = "ok"
NoneDropped == \A p \in Prompt : fate[p] # "dropped"
NoError == \A i \in accepted : turns[i].result # "error"

(* Before it is being ended a session has seen no failure; one that ends   *)
(* quietly is at rest.                                                     *)
Ending ==
  /\ reason # "none" => finalizing
  /\ signal # "none" => finalizing
  /\ eofTimer \/ disposed => finalizing
  /\ signal # "none" /\ ~disposed => asked # "none"
  /\ ~finalizing /\ ~Over =>
       /\ \A i \in DOMAIN turns : turns[i].result = IF i \in accepted THEN "ok" ELSE "none"
       /\ NoneDropped
  /\ ~checkpoint /\ reason # "crashed" /\ ~Over => NoError
  /\ settleMode = "auto" /\ ~released /\ finalizing /\ reason # "crashed" /\ ~Over =>
       AllOk /\ NoneDropped /\ pending = <<>> /\ ~awaiting

Settlement == QuietSettlement /\ SlotHeldUntilKilled /\ FailureNotMasked

Inv == TypeOK /\ Queue /\ Fresh /\ Accepts /\ Counts /\ Ending /\ Settlement

-----------------------------------------------------------------------------
(* Sequences of turns and of prompts.                                      *)
LEMMA Delivered ==
  ASSUME turns \in Seq(Turn), NEW text \in Prompt \cup {Collect}, Deliver(text)
  PROVE  /\ turns' \in Seq(Turn)
         /\ Len(turns') = Len(turns) + 1
         /\ DOMAIN turns' = DOMAIN turns \cup {Len(turns')}
         /\ Len(turns') \notin DOMAIN turns
         /\ \A i \in DOMAIN turns : turns'[i] = turns[i]
         /\ turns'[Len(turns')].result = "none"
         /\ turns'[Len(turns')].counted = 0
<1> DEFINE turn == [text |-> text, result |-> "none", counted |-> 0]
<1>1. turn \in Turn /\ turn.result = "none" /\ turn.counted = 0
  BY DEF Turn
<1>2. turns' = Append(turns, turn)
  BY DEF Deliver
<1> HIDE DEF turn
<1> QED
  BY <1>1, <1>2

LEMMA CountsAreNumbers ==
  ASSUME TypeOK PROVE \A i \in DOMAIN turns : turns[i].counted \in Nat
<1>1. \A i \in DOMAIN turns : turns[i] \in Turn
  BY DEF TypeOK
<1> QED
  BY <1>1 DEF Turn

(* One turn of a sequence counts once more.                                *)
LEMMA CountedOneMore ==
  ASSUME NEW s \in Seq(Turn), NEW t \in DOMAIN s
  PROVE  LET m == [s EXCEPT ![t].counted = @ + 1]
         IN  /\ m \in Seq(Turn) /\ Len(m) = Len(s) /\ DOMAIN m = DOMAIN s
             /\ \A i \in DOMAIN s : i # t => m[i] = s[i]
             /\ m[t].counted = s[t].counted + 1
             /\ m[t].result = s[t].result
<1> DEFINE m == [s EXCEPT ![t].counted = @ + 1]
           turn == [s[t] EXCEPT !.counted = @ + 1]
<1>1. s[t] \in Turn /\ t \in 1..Len(s)
  OBVIOUS
<1>2. turn \in Turn /\ turn.counted = s[t].counted + 1 /\ turn.result = s[t].result
  BY <1>1 DEF Turn
<1>3. m = [s EXCEPT ![t] = turn]
  OBVIOUS
<1> HIDE DEF turn, m
<1>4. m \in Seq(Turn) /\ Len(m) = Len(s) /\ DOMAIN m = DOMAIN s
  BY <1>1, <1>2, <1>3
<1>5. (\A i \in DOMAIN s : i # t => m[i] = s[i]) /\ m[t] = turn
  BY <1>1, <1>3
<1> QED
  BY <1>2, <1>4, <1>5 DEF m

(* The fold of the turn in flight.                                         *)
LEMMA Folds ==
  ASSUME TypeOK, Fold
  PROVE  /\ turns' \in Seq(Turn) /\ Len(turns') = Len(turns) /\ DOMAIN turns' = DOMAIN turns
         /\ folded' \in BOOLEAN
         /\ \A i \in DOMAIN turns : turns'[i].result = turns[i].result
         /\ \A i \in DOMAIN turns :
              turns'[i].counted = IF i = Len(turns) /\ Unfolded
                                  THEN turns[i].counted + 1 ELSE turns[i].counted
         /\ folded' <=> (folded \/ Unfolded)
<1>1. turns \in Seq(Turn) /\ (awaiting => turns # <<>>) /\ folded \in BOOLEAN
      /\ turnEvents \in BOOLEAN /\ awaiting \in BOOLEAN
  BY DEF TypeOK
<1>2. CASE Unfolded
  <2>1. Len(turns) \in DOMAIN turns
    BY <1>1, <1>2 DEF Unfolded
  <2>2. turns' = [turns EXCEPT ![Len(turns)].counted = @ + 1]
    BY <1>2 DEF Fold
  <2> DEFINE m == [turns EXCEPT ![Len(turns)].counted = @ + 1]
  <2>3. /\ m \in Seq(Turn) /\ Len(m) = Len(turns) /\ DOMAIN m = DOMAIN turns
        /\ \A i \in DOMAIN turns : i # Len(turns) => m[i] = turns[i]
        /\ m[Len(turns)].counted = turns[Len(turns)].counted + 1
        /\ m[Len(turns)].result = turns[Len(turns)].result
    BY <1>1, <2>1, CountedOneMore
  <2>4. turns' = m
    BY <2>2
  <2>5. (folded' <=> (folded \/ Unfolded)) /\ folded' \in BOOLEAN
    BY <1>1, <1>2 DEF Fold
  <2> HIDE DEF m
  <2> QED
    BY <1>1, <1>2, <2>1, <2>3, <2>4, <2>5
<1>3. CASE ~Unfolded
  <2>1. (folded' <=> (folded \/ Unfolded)) /\ folded' \in BOOLEAN /\ turns' = turns
    BY <1>1, <1>3 DEF Fold
  <2> QED
    BY <1>1, <1>3, <2>1
<1> QED
  BY <1>2, <1>3

-----------------------------------------------------------------------------
(* The shapes that the actions share.                                      *)

(* A signal is sent to a child that is there, and nothing else happens but *)
(* that a line may have been read.                                         *)
LEMMA SignalKeepsInv ==
  ASSUME Inv, TypeOK', NEW r \in {"finalized", "crashed"}, Signal(r),
         UNCHANGED <<promptVars, awaiting, accepted, folded, turns>>,
         UNCHANGED <<settleMode, checkpoint, refusals, child>>, child # "none",
         released => released', turnEvents' = turnEvents \/ ~Over,
         eofTimer' = eofTimer \/ ~eofTimer',
         r = "crashed" \/ finalizing \/ released'
  PROVE  Inv'
<1>1. /\ finalizing' /\ reason' = (IF reason = "none" THEN r ELSE reason)
      /\ signal' = (IF signal = "none" THEN "SIGTERM" ELSE signal)
      /\ asked' = (IF signal = "none" THEN r ELSE asked)
      /\ Over' = Over /\ UNCHANGED <<settled, disposed>>
  BY DEF Signal, Sigterm, Over
<1>2. Queue' /\ Fresh' /\ Accepts'
  BY <1>1 DEF Inv, Queue, Fresh, Accepts
<1>3. Counts'
  BY <1>1 DEF Inv, Counts
<1>4. Ending'
  BY <1>1 DEF Inv, TypeOK, Ending, AllOk, NoneDropped, NoError
<1>5. Settlement'
  BY <1>1 DEF Inv, Settlement, QuietSettlement, SlotHeldUntilKilled, FailureNotMasked
<1> QED
  BY <1>2, <1>3, <1>4, <1>5 DEF Inv

(* The fold counts the turn in flight, which no frame has counted.         *)
LEMMA FoldBounds ==
  ASSUME Inv, Fold, UNCHANGED accepted
  PROVE  \A i \in DOMAIN turns' :
           turns'[i].counted <= (IF i \in accepted' THEN 1 ELSE 0) + (IF folded' THEN 1 ELSE 0)
<1>1. Unfolded => Len(turns) \notin accepted /\ ~folded
  BY DEF Unfolded, Inv, Accepts
<1>2. \A i \in DOMAIN turns : turns[i].counted \in Nat
  BY CountsAreNumbers DEF Inv
<1>3. /\ DOMAIN turns' = DOMAIN turns
      /\ \A i \in DOMAIN turns :
           turns'[i].counted = IF i = Len(turns) /\ Unfolded
                               THEN turns[i].counted + 1 ELSE turns[i].counted
      /\ folded' <=> (folded \/ Unfolded)
  BY Folds DEF Inv
<1>4. ASSUME NEW i \in DOMAIN turns
      PROVE  turns'[i].counted <= (IF i \in accepted' THEN 1 ELSE 0) + (IF folded' THEN 1 ELSE 0)
  <2>1. turns[i].counted <= (IF i \in accepted THEN 1 ELSE 0) + (IF folded THEN 1 ELSE 0)
    BY DEF Inv, Counts
  <2>2. CASE i = Len(turns) /\ Unfolded
    BY <1>1, <1>2, <1>3, <2>1, <2>2
  <2>3. CASE ~(i = Len(turns) /\ Unfolded)
    BY <1>2, <1>3, <2>1, <2>3
  <2> QED
    BY <2>2, <2>3
<1> QED
  BY <1>3, <1>4

LEMMA FoldCounts ==
  ASSUME Inv, Fold, UNCHANGED <<accepted, turnEvents, refusals>>, ~Over, Over'
  PROVE  Counts'
<1>1. Unfolded => Len(turns) \notin accepted /\ turnEvents /\ ~folded
  BY DEF Unfolded, Inv, Accepts
<1>2. \A i \in DOMAIN turns : turns[i].counted \in Nat
  BY CountsAreNumbers DEF Inv
<1>3. /\ DOMAIN turns' = DOMAIN turns
      /\ \A i \in DOMAIN turns :
           turns'[i].counted = IF i = Len(turns) /\ Unfolded
                               THEN turns[i].counted + 1 ELSE turns[i].counted
      /\ folded' <=> (folded \/ Unfolded)
  BY Folds DEF Inv
<1>4. ASSUME refusals = 0, NEW i \in DOMAIN turns
      PROVE  /\ turns'[i].counted <= 1
             /\ i \in accepted => turns'[i].counted = 1
             /\ i \notin accepted /\ turnEvents => turns'[i].counted = 1
  <2>1. CASE i \in accepted
    BY <1>1, <1>2, <1>3, <1>4, <2>1 DEF Inv, Counts
  <2>2. CASE i \notin accepted
    <3>1. turns[i].counted = 0 /\ ~folded
      BY <1>4, <2>2 DEF Inv, Counts
    <3>2. i = Len(turns) /\ awaiting
      BY <2>2 DEF Inv, Accepts
    <3> QED
      BY <1>3, <2>2, <3>1, <3>2 DEF Unfolded
  <2> QED
    BY <2>1, <2>2
<1> QED
  BY <1>3, <1>4, FoldBounds DEF Counts

(* The owner is released.                                                  *)
LEMMA SettleKeepsInv ==
  ASSUME Inv, TypeOK', NEW r \in {"finalized", "crashed"}, SettleAs(r), ~Over, ~disposed',
         UNCHANGED <<settleMode, checkpoint, refusals>>, child' # "none",
         released => released', micro' \in {micro, "none"},
         child' # "alive" \/ signal' = "SIGKILL",
         reason' # "none" \/ signal' # "none" => finalizing',
         signal' # "none" => asked' # "none",
         settled' = "finalized" => reason # "crashed" /\ (finalizing \/ released')
  PROVE  Inv'
<1>1. /\ settled' # "no" /\ Over' /\ Fold /\ ~awaiting' /\ ~eofTimer'
      /\ pending' = <<>> /\ UNCHANGED <<turnEvents, accepted>>
      /\ settled' = IF reason' = "crashed" THEN "crashed" ELSE r
  BY DEF SettleAs, Over
<1>2. /\ turns' \in Seq(Turn) /\ Len(turns') = Len(turns) /\ DOMAIN turns' = DOMAIN turns
      /\ \A i \in DOMAIN turns : turns'[i].result = turns[i].result
      /\ \A i \in DOMAIN turns :
           turns'[i].counted = IF i = Len(turns) /\ Unfolded
                               THEN turns[i].counted + 1 ELSE turns[i].counted
      /\ folded' <=> (folded \/ Unfolded)
  BY <1>1, Folds DEF Inv
<1>3. \A p \in Prompt : fate'[p] = IF fate[p] = "queued" THEN "dropped" ELSE fate[p]
  BY DEF SettleAs, Fates, ToSet, Inv, Queue
<1>4. Queue'
  BY <1>1, <1>3 DEF Queue
<1>5. Fresh'
  BY DEF Fresh
<1>6. Accepts'
  BY <1>1, <1>2 DEF Inv, Accepts
<1>7. Counts'
  BY <1>1, FoldCounts
<1>8. Ending'
  BY <1>1 DEF Ending
<1>9. Settlement'
  <2>1. SlotHeldUntilKilled'
    BY DEF SlotHeldUntilKilled
  <2>2. FailureNotMasked'
    <3>1. settled' = "finalized" /\ ~checkpoint => NoError
      BY DEF Inv, Ending
    <3> QED
      BY <1>1, <1>2, <3>1 DEF FailureNotMasked, NoError, Inv, TypeOK
  <2>3. QuietSettlement'
    <3>1. ASSUME settleMode = "auto", settled' = "finalized", ~released'
          PROVE  AllOk /\ NoneDropped /\ pending = <<>>
      BY <3>1 DEF Inv, Ending
    <3> QED
      BY <1>2, <1>3, <3>1 DEF QuietSettlement, AllOk, NoneDropped, Inv, Queue
  <2> QED
    BY <2>1, <2>2, <2>3 DEF Settlement
<1> QED
  BY <1>4, <1>5, <1>6, <1>7, <1>8, <1>9 DEF Inv

(* A turn is written to the child of a session at rest.                    *)
LEMMA DeliverKeepsInv ==
  ASSUME Inv, TypeOK', NEW text \in Prompt \cup {Collect}, Deliver(text),
         ~Over, ~finalizing, ~awaiting, Queue', NoneDropped', child' # "none",
         UNCHANGED <<endVars, envVars>>
  PROVE  Inv'
<1>1. /\ awaiting' /\ ~turnEvents' /\ UNCHANGED <<accepted, folded>>
      /\ ~Over' /\ ~finalizing' /\ UNCHANGED <<settleMode, checkpoint, refusals, released>>
  BY DEF Deliver, Over
<1>2. /\ turns' \in Seq(Turn)
      /\ Len(turns') = Len(turns) + 1
      /\ DOMAIN turns' = DOMAIN turns \cup {Len(turns')}
      /\ Len(turns') \notin DOMAIN turns
      /\ \A i \in DOMAIN turns : turns'[i] = turns[i]
      /\ turns'[Len(turns')].result = "none"
      /\ turns'[Len(turns')].counted = 0
  BY Delivered DEF Inv, TypeOK
<1>3. Len(turns') \notin accepted /\ accepted \subseteq DOMAIN turns
  BY <1>2 DEF Inv, TypeOK
<1>4. Fresh'
  BY DEF Fresh
<1>5. Accepts'
  BY <1>1, <1>2, <1>3 DEF Inv, Accepts
<1>6. Counts'
  BY <1>1, <1>2, <1>3 DEF Inv, Counts
<1>7. \A i \in DOMAIN turns' : turns'[i].result = IF i \in accepted THEN "ok" ELSE "none"
  BY <1>2, <1>3 DEF Inv, Ending
<1>8. Ending'
  <2>1. NoError'
    BY <1>1, <1>2, <1>3, <1>7 DEF NoError
  <2> QED
    BY <1>1, <1>7, <2>1 DEF Inv, Ending, AllOk
<1>9. Settlement'
  BY <1>1 DEF Inv, Settlement, QuietSettlement, SlotHeldUntilKilled, FailureNotMasked, Over
<1> QED
  BY <1>4, <1>5, <1>6, <1>8, <1>9 DEF Inv

(* What changes is none of the session's turns, prompts or end.            *)
LEMMA FrameKeepsInv ==
  ASSUME Inv, TypeOK', UNCHANGED <<promptVars, awaiting, accepted, folded, turns>>,
         UNCHANGED <<finalizing, reason, signal, asked, settled, disposed>>,
         UNCHANGED <<settleMode, checkpoint, refusals, released>>,
         child = "none" <=> child' = "none", child' = "alive" => child = "alive",
         micro' = micro \/ (child # "none" /\ (pending = <<>> \/ awaiting \/ finalizing \/ Over)),
         turnEvents' = turnEvents \/ ~Over,
         eofTimer' => finalizing
  PROVE  Inv'
<1>1. Over' = Over
  BY DEF Over
<1>2. Queue' /\ Fresh' /\ Accepts'
  BY <1>1 DEF Inv, Queue, Fresh, Accepts
<1>3. Counts'
  BY <1>1 DEF Inv, Counts
<1>4. Ending'
  BY <1>1 DEF Inv, Ending, AllOk, NoneDropped, NoError
<1>5. Settlement'
  BY <1>1 DEF Inv, Settlement, QuietSettlement, SlotHeldUntilKilled, FailureNotMasked
<1> QED
  BY <1>2, <1>3, <1>4, <1>5 DEF Inv

-----------------------------------------------------------------------------
(* The queue of prompts when one is appended, fed or dealt with at once.   *)
LEMMA QueueAppends ==
  ASSUME TypeOK, Queue, NEW p \in Prompt, fate[p] = "new",
         pending' = Append(pending, p), fate' = Fates({p}, "queued"), awaiting'
  PROVE  Queue'
<1>1. /\ pending' \in Seq(Prompt) /\ Len(pending') = Len(pending) + 1
      /\ DOMAIN pending' = DOMAIN pending \cup {Len(pending')}
      /\ Len(pending') \notin DOMAIN pending
      /\ \A i \in DOMAIN pending : pending'[i] = pending[i]
      /\ pending'[Len(pending')] = p
  BY DEF TypeOK
<1>2. \A q \in Prompt : fate'[q] = IF q = p THEN "queued" ELSE fate[q]
  BY DEF Fates, TypeOK
<1>3. \A i \in DOMAIN pending : pending[i] \in Prompt /\ pending[i] # p
  <2>1. \A i \in DOMAIN pending : pending[i] \in Prompt
    BY DEF TypeOK
  <2> QED
    BY <2>1 DEF Queue
<1>4. \A i, j \in DOMAIN pending' : pending'[i] = pending'[j] => i = j
  BY <1>1, <1>3 DEF Queue
<1>5. ASSUME NEW q \in Prompt
      PROVE  fate'[q] = "queued" <=> \E i \in DOMAIN pending' : pending'[i] = q
  <2>1. CASE q = p
    BY <1>1, <1>2, <2>1
  <2>2. CASE q # p
    <3>1. fate[q] = "queued" <=> \E i \in DOMAIN pending : pending[i] = q
      BY DEF Queue
    <3> QED
      BY <1>1, <1>2, <2>2, <3>1
  <2> QED
    BY <2>1, <2>2
<1> QED
  BY <1>4, <1>5 DEF Queue

LEMMA QueueFeeds ==
  ASSUME TypeOK, Queue, pending # <<>>, NEW f \in {"delivered", "dropped"},
         pending' = Tail(pending), fate' = Fates({Head(pending)}, f),
         awaiting' \/ finalizing'
  PROVE  Queue'
<1>1. /\ pending' \in Seq(Prompt) /\ Len(pending') = Len(pending) - 1
      /\ \A i \in 1..Len(pending') : pending'[i] = pending[i + 1] /\ i + 1 \in DOMAIN pending
      /\ DOMAIN pending' = 1..Len(pending') /\ DOMAIN pending = 1..Len(pending)
      /\ Len(pending) \in Nat \ {0}
  BY DEF TypeOK
<1>2. Head(pending) = pending[1] /\ 1 \in DOMAIN pending
  BY DEF TypeOK
<1>3. \A q \in Prompt : fate'[q] = IF q = pending[1] THEN f ELSE fate[q]
  BY <1>2 DEF Fates, TypeOK
<1>4. \A i, j \in DOMAIN pending' : pending'[i] = pending'[j] => i = j
  BY <1>1 DEF Queue
<1>5. \A i \in DOMAIN pending' : pending'[i] # pending[1]
  BY <1>1, <1>2 DEF Queue
<1>6. ASSUME NEW p \in Prompt
      PROVE  fate'[p] = "queued" <=> \E i \in DOMAIN pending' : pending'[i] = p
  <2>1. ASSUME NEW i \in DOMAIN pending', pending'[i] = p PROVE fate'[p] = "queued"
    <3>1. i \in 1..Len(pending') /\ pending[i + 1] = p /\ i + 1 \in DOMAIN pending
      BY <1>1, <2>1
    <3>2. fate[p] = "queued"
      BY <3>1 DEF Queue
    <3> QED
      BY <1>3, <1>5, <2>1, <3>2
  <2>2. ASSUME fate'[p] = "queued" PROVE \E i \in DOMAIN pending' : pending'[i] = p
    <3>1. fate[p] = "queued" /\ p # pending[1]
      BY <1>3, <2>2
    <3>2. PICK i \in DOMAIN pending : pending[i] = p
      BY <3>1 DEF Queue
    <3>3. i # 1 /\ i - 1 \in 1..Len(pending') /\ (i - 1) + 1 = i
      BY <1>1, <3>1, <3>2
    <3>4. pending'[i - 1] = p
      BY <1>1, <3>2, <3>3
    <3> QED
      BY <1>1, <3>3, <3>4
  <2> QED
    BY <2>1, <2>2
<1> QED
  BY <1>4, <1>6 DEF Queue

LEMMA QueueSkips ==
  ASSUME TypeOK, Queue, NEW p \in Prompt, fate[p] = "new", NEW f \in {"delivered", "refused"},
         pending' = pending, fate' = Fates({p}, f),
         pending = <<>> \/ finalizing' \/ Over'
  PROVE  Queue'
<1>1. \A q \in Prompt : fate'[q] = IF q = p THEN f ELSE fate[q]
  BY DEF Fates, TypeOK
<1> QED
  BY <1>1 DEF Queue

(* A session at rest has no prompt that waits.                             *)
LEMMA AtRest ==
  ASSUME Inv, ~Over, ~finalizing, ~awaiting, micro # "feed"
  PROVE  pending = <<>> /\ reason = "none" /\ NoneDropped
BY DEF Inv, Queue, Ending

LEMMA FatesType ==
  ASSUME TypeOK, NEW P, NEW f \in {"refused", "queued", "delivered", "dropped"}
  PROVE  Fates(P, f) \in [Prompt -> {"new", "refused", "queued", "delivered", "dropped"}]
BY DEF TypeOK, Fates

-----------------------------------------------------------------------------
(* Types of the parts of the state that the actions share.                 *)
PromptTypes ==
  /\ pending \in Seq(Prompt)
  /\ fate \in [Prompt -> {"new", "refused", "queued", "delivered", "dropped"}]
TurnTypes ==
  /\ turns \in Seq(Turn) /\ accepted \subseteq DOMAIN turns
  /\ {awaiting, turnEvents, folded} \subseteq BOOLEAN
  /\ awaiting => turns # <<>>
TaskTypes ==
  live \in BOOLEAN /\ handoffs \in 0 .. MaxHandoffs /\ collections \in 0 .. MaxCollections
EndTypes ==
  /\ {finalizing, eofTimer, disposed} \subseteq BOOLEAN
  /\ {reason, asked} \subseteq {"none", "finalized", "crashed"}
  /\ settled \in {"no", "finalized", "crashed"}
  /\ signal \in {"none", "SIGTERM", "SIGKILL"}
OtherTypes ==
  /\ settleMode \in {"auto", "finalize"} /\ checkpoint \in BOOLEAN
  /\ {released, mute} \subseteq BOOLEAN /\ refusals \in 0 .. MaxRefusals
  /\ child \in {"none", "alive", "nopid", "closed"}
  /\ micro \in {"none", "feed", "quiesce"}

LEMMA Types ==
  TypeOK <=> PromptTypes /\ TurnTypes /\ TaskTypes /\ EndTypes /\ OtherTypes
BY DEF TypeOK, PromptTypes, TurnTypes, TaskTypes, EndTypes, OtherTypes

LEMMA TypesNext ==
  ASSUME PromptTypes', TurnTypes', TaskTypes', EndTypes', OtherTypes' PROVE TypeOK'
BY DEF TypeOK, PromptTypes, TurnTypes, TaskTypes, EndTypes, OtherTypes

LEMMA SameTypes ==
  ASSUME TypeOK
  PROVE  /\ UNCHANGED promptVars => PromptTypes'
         /\ UNCHANGED turnVars => TurnTypes'
         /\ UNCHANGED taskVars => TaskTypes'
         /\ UNCHANGED endVars => EndTypes'
         /\ UNCHANGED <<envVars, child, micro>> => OtherTypes'
BY DEF TypeOK, PromptTypes, TurnTypes, TaskTypes, EndTypes, OtherTypes

LEMMA SignalTypes ==
  ASSUME TypeOK, NEW r \in {"finalized", "crashed"}, Signal(r), eofTimer' \in BOOLEAN
  PROVE  EndTypes'
BY DEF TypeOK, EndTypes, Signal, Sigterm

LEMMA DeliverTypes ==
  ASSUME TypeOK, NEW text \in Prompt \cup {Collect}, Deliver(text)
  PROVE  TurnTypes'
<1>1. turns' \in Seq(Turn) /\ DOMAIN turns \subseteq DOMAIN turns' /\ Len(turns') = Len(turns) + 1
  BY Delivered DEF TypeOK
<1>2. turns' # <<>>
  BY <1>1 DEF TypeOK
<1>3. /\ awaiting' = TRUE /\ turnEvents' = FALSE /\ folded' = folded /\ accepted' = accepted
  BY DEF Deliver
<1>4. folded' \in BOOLEAN /\ accepted' \subseteq DOMAIN turns'
  BY <1>1, <1>3 DEF TypeOK
<1>5. {awaiting', turnEvents', folded'} \subseteq BOOLEAN
  BY <1>3, <1>4
<1> QED
  BY <1>1, <1>2, <1>4, <1>5 DEF TurnTypes

LEMMA FoldTypes ==
  ASSUME TypeOK, Fold, UNCHANGED <<turnEvents, accepted>>, awaiting' = FALSE \/ awaiting' = awaiting
  PROVE  TurnTypes'
<1>1. turns' \in Seq(Turn) /\ DOMAIN turns' = DOMAIN turns /\ folded' \in BOOLEAN
      /\ Len(turns') = Len(turns)
  BY Folds
<1>2. turns # <<>> => turns' # <<>>
  BY <1>1 DEF TypeOK
<1>3. awaiting \in BOOLEAN /\ awaiting' \in BOOLEAN /\ turnEvents' \in BOOLEAN
  BY DEF TypeOK
<1>4. awaiting' => awaiting
  OBVIOUS
<1>5. awaiting' => turns' # <<>>
  BY <1>2, <1>4 DEF TypeOK
<1>6. accepted' \subseteq DOMAIN turns'
  BY <1>1 DEF TypeOK
<1> QED
  BY <1>1, <1>3, <1>5, <1>6 DEF TurnTypes

LEMMA SettleTypes ==
  ASSUME TypeOK, NEW r \in {"finalized", "crashed"}, SettleAs(r)
  PROVE  TurnTypes' /\ PromptTypes' /\ settled' \in {"finalized", "crashed"}
<1>1. TurnTypes'
  BY FoldTypes DEF SettleAs
<1>2. fate' \in [Prompt -> {"new", "refused", "queued", "delivered", "dropped"}]
  BY FatesType DEF SettleAs
<1> QED
  BY <1>1, <1>2 DEF PromptTypes, SettleAs

-----------------------------------------------------------------------------
(* Init and the actions.                                                   *)
LEMMA InitInv == Init => Inv
<1> SUFFICES ASSUME Init PROVE Inv
  OBVIOUS
<1>1. TypeOK
  <2>1. PromptTypes
    BY DEF Init, PromptTypes
  <2>2. TurnTypes
    <3>1. /\ turns = <<>> /\ accepted = {}
          /\ awaiting = FALSE /\ turnEvents = FALSE /\ folded = FALSE
      BY DEF Init
    <3>2. <<>> \in Seq(Turn) /\ {} \subseteq DOMAIN turns
      OBVIOUS
    <3>3. awaiting \in BOOLEAN /\ turnEvents \in BOOLEAN /\ folded \in BOOLEAN
      BY <3>1
    <3>4. turns \in Seq(Turn) /\ accepted \subseteq DOMAIN turns /\ ~awaiting
      BY <3>1, <3>2
    <3> QED
      BY <3>3, <3>4 DEF TurnTypes
  <2>3. MaxHandoffs \in Nat /\ MaxCollections \in Nat /\ MaxRefusals \in Nat
    BY BoundAssumption
  <2>4. TaskTypes
    <3>1. live = FALSE /\ handoffs = 0 /\ collections = 0
      BY DEF Init
    <3>2. live \in BOOLEAN
      BY <3>1
    <3>3. handoffs \in 0..MaxHandoffs /\ collections \in 0..MaxCollections
      BY <2>3, <3>1
    <3> QED
      BY <2>3, <3>1, <3>2, <3>3 DEF TaskTypes
  <2>5. EndTypes
    BY DEF Init, EndTypes
  <2>6. OtherTypes
    <3>1. released = FALSE /\ mute = FALSE /\ refusals = 0 /\ child = "none" /\ micro = "none"
      BY DEF Init
    <3>2. settleMode \in {"auto", "finalize"} /\ checkpoint \in BOOLEAN
      BY DEF Init
    <3>3. refusals \in 0..MaxRefusals
      BY <2>3, <3>1
    <3>4. released \in BOOLEAN /\ mute \in BOOLEAN
      BY <3>1
    <3>5. child \in {"none", "alive", "nopid", "closed"} /\ micro \in {"none", "feed", "quiesce"}
      BY <3>1
    <3> QED
      BY <3>2, <3>3, <3>4, <3>5 DEF OtherTypes
  <2> QED
    BY <2>1, <2>2, <2>4, <2>5, <2>6, Types
<1>2. turns = <<>> /\ DOMAIN turns = {} /\ pending = <<>> /\ DOMAIN pending = {}
  BY DEF Init
<1>3. Queue /\ Fresh
  BY <1>2, PromptAssumption DEF Init, Queue, Fresh
<1>4. Accepts /\ Counts
  BY <1>2 DEF Init, Accepts, Counts
<1>5. Ending /\ Settlement
  BY <1>2 DEF Init, Ending, NoneDropped, NoError, Settlement, QuietSettlement,
     SlotHeldUntilKilled, FailureNotMasked
<1> QED
  BY <1>1, <1>3, <1>4, <1>5 DEF Inv

LEMMA StartKeepsInv == ASSUME Inv, Start PROVE Inv'
<1> USE DEF Inv
<1>1. /\ child = "none" /\ settled = "no" /\ turns = <<>> /\ pending = <<>> /\ ~awaiting
      /\ ~disposed /\ ~finalizing /\ ~folded /\ ~Over /\ fate[First] = "new"
      /\ micro = "none" /\ refusals = 0 /\ First \in Prompt /\ reason = "none"
      /\ UNCHANGED <<taskVars, envVars, micro>>
  BY PromptAssumption DEF Start, Fresh, Over, Ending
<1>2. TaskTypes' /\ (child' \in {"none", "alive", "nopid"} => OtherTypes')
  BY <1>1, SameTypes, Types DEF OtherTypes
<1>3. CASE /\ settled' = "crashed"
           /\ fate' = Fates({First}, "refused")
           /\ UNCHANGED <<child, pending, turnVars, finalizing, reason, signal, asked,
                          eofTimer, disposed>>
  <2>1. EndTypes' /\ TurnTypes' /\ PromptTypes'
    BY <1>3, FatesType, SameTypes, Types DEF EndTypes, PromptTypes
  <2>2. TypeOK' /\ Over'
    BY <1>1, <1>2, <1>3, <2>1, TypesNext DEF Over
  <2>3. Queue'
    BY <1>1, <1>3, <2>2, QueueSkips
  <2>4. DOMAIN turns = {}
    BY <1>1
  <2>5. Fresh' /\ Accepts' /\ Counts'
    BY <1>1, <1>3, <2>2, <2>4 DEF Fresh, Accepts, Counts
  <2>6. Ending' /\ Settlement'
    BY <1>1, <1>3, <2>2, <2>4 DEF Ending, Settlement, QuietSettlement, SlotHeldUntilKilled,
       FailureNotMasked
  <2> QED
    BY <2>2, <2>3, <2>5, <2>6
<1>4. CASE /\ child' \in {"alive", "nopid"}
           /\ Deliver(First)
           /\ fate' = Fates({First}, "delivered")
           /\ UNCHANGED <<pending, endVars>>
  <2>1. EndTypes' /\ TurnTypes' /\ PromptTypes'
    BY <1>1, <1>4, FatesType, SameTypes, DeliverTypes, Types DEF PromptTypes
  <2>2. TypeOK'
    BY <1>2, <1>4, <2>1, TypesNext
  <2>3. Queue'
    BY <1>1, <1>4, QueueSkips
  <2>4. NoneDropped'
    BY <1>1, <1>4 DEF Fates, Ending, NoneDropped
  <2> QED
    BY <1>1, <1>4, <2>2, <2>3, <2>4, DeliverKeepsInv
<1>5. CASE /\ child' = "alive" /\ Signal("crashed")
           /\ fate' = Fates({First}, "refused")
           /\ UNCHANGED <<pending, turnVars, eofTimer>>
  <2>1. EndTypes' /\ TurnTypes' /\ PromptTypes'
    BY <1>1, <1>5, FatesType, SameTypes, SignalTypes, Types DEF PromptTypes, TypeOK
  <2>2. TypeOK'
    BY <1>2, <1>5, <2>1, TypesNext
  <2>3. Queue'
    BY <1>1, <1>5, QueueSkips
  <2>4. DOMAIN turns = {} /\ accepted = {}
    BY <1>1 DEF TypeOK
  <2>5. finalizing' /\ reason' = "crashed" /\ settled' = "no" /\ disposed' = disposed
    BY <1>1, <1>5 DEF Signal
  <2>6. signal' # "none" => asked' # "none"
    BY <1>1, <1>5 DEF Signal, Sigterm, Ending
  <2>7. Fresh' /\ Accepts' /\ Counts'
    BY <1>1, <1>5, <2>4, <2>5 DEF Fresh, Accepts, Counts, Over
  <2>8. Ending' /\ Settlement'
    BY <2>5, <2>6 DEF Ending, Settlement, QuietSettlement, SlotHeldUntilKilled,
       FailureNotMasked
  <2> QED
    BY <2>2, <2>3, <2>7, <2>8
<1> QED
  BY <1>3, <1>4, <1>5 DEF Start

(* A termination, by a signal or at once.                                  *)
LEMMA TerminateKeepsInv ==
  ASSUME Inv, NEW r \in {"finalized", "crashed"}, Terminate(r), ~Over, child # "none",
         UNCHANGED <<taskVars, child, micro, settleMode, checkpoint, mute, refusals>>,
         released' \in BOOLEAN, released => released',
         r = "crashed" \/ finalizing \/ released'
  PROVE  Inv'
<1>1. TaskTypes' /\ OtherTypes'
  BY SameTypes, Types DEF Inv, OtherTypes
<1>2. CASE child = "alive" /\ Signal(r) /\ UNCHANGED <<promptVars, turnVars, eofTimer>>
  <2>1. EndTypes' /\ PromptTypes' /\ TurnTypes'
    BY <1>2, SignalTypes, SameTypes DEF Inv, TypeOK
  <2>2. TypeOK'
    BY <1>1, <2>1, TypesNext
  <2> QED
    BY <1>2, <2>2, SignalKeepsInv
<1>3. CASE child # "alive" /\ SettleNow(r)
  <2>1. /\ finalizing' = TRUE /\ reason' = (IF reason = "none" THEN r ELSE reason)
        /\ SettleAs(r) /\ UNCHANGED <<signal, asked, disposed>>
    BY <1>3 DEF SettleNow
  <2>2. eofTimer' = FALSE /\ settled' = IF reason' = "crashed" THEN "crashed" ELSE r
    BY <2>1 DEF SettleAs
  <2>3. PromptTypes' /\ TurnTypes' /\ EndTypes'
    BY <2>1, <2>2, SettleTypes, Types DEF Inv, EndTypes
  <2>4. TypeOK'
    BY <1>1, <2>3, TypesNext
  <2>5. signal' # "none" => asked' # "none"
    BY <2>1 DEF Over, Inv, Ending
  <2> QED
    BY <1>3, <2>1, <2>2, <2>4, <2>5, SettleKeepsInv DEF Over
<1> QED
  BY <1>2, <1>3 DEF Terminate

LEMMA DisposedIsEnding == ASSUME Inv, ~finalizing PROVE ~disposed
BY DEF Inv, Ending

LEMMA FinalizeKeepsInv == ASSUME Inv, Finalize PROVE Inv'
<1>1. ~Over
  <2>1. ~disposed
    BY DisposedIsEnding DEF Finalize
  <2> QED
    BY <2>1 DEF Over, Finalize
<1> QED
  BY <1>1, TerminateKeepsInv DEF Finalize, Inv, TypeOK

LEMMA AbortKeepsInv == ASSUME Inv, Abort PROVE Inv'
BY TerminateKeepsInv DEF Abort, Inv, TypeOK

LEMMA StdinErrorKeepsInv == ASSUME Inv, StdinError PROVE Inv'
<1>1. child # "none" /\ ~Over /\ UNCHANGED <<taskVars, envVars, child, micro>>
      /\ Terminate(IF finalizing THEN "finalized" ELSE "crashed")
  BY DEF StdinError
<1>2. released' \in BOOLEAN /\ released' = released
  BY <1>1 DEF Inv, TypeOK
<1>3. CASE finalizing
  BY <1>1, <1>2, <1>3, TerminateKeepsInv
<1>4. CASE ~finalizing
  BY <1>1, <1>2, <1>4, TerminateKeepsInv
<1> QED
  BY <1>3, <1>4

LEMMA SendKeepsInv == ASSUME Inv, NEW p \in Prompt, Send(p) PROVE Inv'
<1> USE DEF Inv
<1>1. /\ micro = "none" /\ child # "none" /\ fate[p] = "new"
      /\ UNCHANGED <<taskVars, envVars, child, micro>>
      /\ TaskTypes' /\ OtherTypes'
  BY SameTypes DEF Send
<1>2. CASE /\ Over \/ finalizing
           /\ fate' = Fates({p}, "refused")
           /\ UNCHANGED <<pending, turnVars, endVars>>
  <2>1. PromptTypes' /\ TurnTypes' /\ EndTypes'
    BY <1>2, FatesType, SameTypes, Types DEF PromptTypes
  <2>2. TypeOK' /\ (Over' \/ finalizing') /\ (Over' <=> Over)
    BY <1>1, <1>2, <2>1, TypesNext DEF Over
  <2>3. Queue'
    BY <1>1, <1>2, <2>2, QueueSkips
  <2>4. Fresh' /\ Accepts' /\ Counts'
    BY <1>1, <1>2, <2>2 DEF Fresh, Accepts, Counts
  <2>5. NoneDropped' <=> NoneDropped
    BY <1>1, <1>2 DEF NoneDropped, Fates, TypeOK
  <2>6. Ending' /\ Settlement'
    BY <1>1, <1>2, <2>2, <2>5 DEF Ending, AllOk, NoError, NoneDropped, Settlement,
       QuietSettlement, SlotHeldUntilKilled, FailureNotMasked
  <2> QED
    BY <2>2, <2>3, <2>4, <2>6
<1>3. CASE /\ ~Over /\ ~finalizing /\ awaiting
           /\ pending' = Append(pending, p)
           /\ fate' = Fates({p}, "queued")
           /\ UNCHANGED <<turnVars, endVars>>
  <2>1. PromptTypes' /\ TurnTypes' /\ EndTypes'
    BY <1>3, FatesType, SameTypes, Types DEF PromptTypes
  <2>2. TypeOK' /\ (Over' <=> Over) /\ ~finalizing'
    BY <1>1, <1>3, <2>1, TypesNext DEF Over
  <2>3. Queue'
    BY <1>1, <1>3, QueueAppends
  <2>4. Fresh' /\ Accepts' /\ Counts'
    BY <1>1, <1>3, <2>2 DEF Fresh, Accepts, Counts
  <2>5. NoneDropped' <=> NoneDropped
    BY <1>1, <1>3 DEF NoneDropped, Fates, TypeOK
  <2>6. Ending' /\ Settlement'
    BY <1>1, <1>3, <2>2, <2>5 DEF Ending, AllOk, NoError, Settlement,
       QuietSettlement, SlotHeldUntilKilled, FailureNotMasked, Over
  <2> QED
    BY <2>2, <2>3, <2>4, <2>6
<1>4. CASE ~Over /\ ~finalizing /\ ~awaiting
  <2>1. pending = <<>> /\ reason = "none" /\ NoneDropped
    BY <1>1, <1>4, AtRest
  <2>2. CASE Deliver(p) /\ fate' = Fates({p}, "delivered") /\ UNCHANGED <<pending, endVars>>
    <3>1. PromptTypes' /\ TurnTypes' /\ EndTypes'
      BY <2>2, FatesType, SameTypes, DeliverTypes, Types DEF PromptTypes
    <3>2. TypeOK'
      BY <1>1, <3>1, TypesNext
    <3>3. Queue' /\ NoneDropped'
      BY <1>1, <2>1, <2>2, QueueSkips DEF NoneDropped, Fates
    <3> QED
      BY <1>1, <1>4, <2>2, <3>2, <3>3, DeliverKeepsInv
  <2>3. CASE Undelivered(p)
    <3>1. /\ finalizing' = TRUE /\ reason' = "crashed"
          /\ UNCHANGED <<turnEvents, accepted, disposed>>
      BY <2>1, <2>3 DEF Undelivered
    <3>2. CASE /\ child = "alive"
               /\ Sigterm("crashed")
               /\ fate' = Fates({p}, "refused")
               /\ UNCHANGED <<pending, turns, awaiting, folded, eofTimer, settled>>
      <4>1. PromptTypes' /\ TurnTypes' /\ EndTypes'
        <5>1. PromptTypes'
          BY <3>2, FatesType DEF PromptTypes, TypeOK
        <5>2. TurnTypes'
          BY <3>1, <3>2, SameTypes
        <5>3. EndTypes'
          BY <3>1, <3>2 DEF TypeOK, EndTypes, Sigterm
        <5> QED
          BY <5>1, <5>2, <5>3
      <4>2. TypeOK' /\ (Over' <=> Over)
        BY <1>1, <3>1, <3>2, <4>1, TypesNext DEF Over
      <4>3. Queue'
        BY <1>1, <2>1, <3>2, QueueSkips
      <4>4. Fresh' /\ Accepts' /\ Counts'
        BY <1>1, <3>1, <3>2, <4>2 DEF Fresh, Accepts, Counts
      <4>5. signal' # "none" => asked' # "none"
        BY <1>4, <3>2 DEF Sigterm, Over, Ending
      <4>6. Ending' /\ Settlement'
        BY <1>1, <1>4, <3>1, <3>2, <4>2, <4>5 DEF Ending, Settlement, QuietSettlement,
           SlotHeldUntilKilled, FailureNotMasked, Over
      <4> QED
        BY <4>2, <4>3, <4>4, <4>6
    <3>3. CASE /\ child # "alive"
               /\ settled' = "crashed"
               /\ Fold
               /\ awaiting' = FALSE /\ eofTimer' = FALSE
               /\ pending' = <<>>
               /\ fate' = [Fates(ToSet(pending), "dropped") EXCEPT ![p] = "refused"]
               /\ UNCHANGED <<signal, asked>>
      <4>1. fate' = Fates({p}, "refused")
        BY <2>1, <3>3 DEF Fates, ToSet, TypeOK
      <4>2. PromptTypes' /\ TurnTypes' /\ EndTypes'
        <5>1. PromptTypes'
          BY <3>3, <4>1, FatesType DEF PromptTypes
        <5>2. TurnTypes'
          BY <3>1, <3>3, FoldTypes
        <5>3. EndTypes'
          BY <3>1, <3>3 DEF TypeOK, EndTypes
        <5> QED
          BY <5>1, <5>2, <5>3
      <4>3. TypeOK' /\ Over'
        BY <1>1, <3>3, <4>2, TypesNext DEF Over
      <4>4. Queue'
        BY <1>1, <2>1, <3>3, <4>1, <4>3, QueueSkips
      <4>5. ~Unfolded
        BY <1>4 DEF Unfolded
      <4>6. turns' = turns /\ (folded' <=> folded)
        BY <3>3, <4>5, Folds DEF Fold
      <4>7. Fresh' /\ Accepts' /\ Counts'
        BY <1>1, <1>4, <3>1, <3>3, <4>3, <4>6 DEF Fresh, Accepts, Counts
      <4>8. Ending' /\ Settlement'
        BY <1>1, <1>4, <3>1, <3>3, <4>3 DEF Ending, Settlement, QuietSettlement,
           SlotHeldUntilKilled, FailureNotMasked, Over
      <4> QED
        BY <4>3, <4>4, <4>7, <4>8
    <3> QED
      BY <2>3, <3>2, <3>3 DEF Undelivered
  <2> QED
    BY <1>1, <1>4, <2>2, <2>3 DEF Send
<1> QED
  BY <1>2, <1>3, <1>4 DEF Send

LEMMA FeedKeepsInv == ASSUME Inv, Feed PROVE Inv'
<1> USE DEF Inv
<1>1. /\ micro = "feed" /\ micro' = "none" /\ UNCHANGED <<taskVars, envVars, child>>
      /\ child # "none"
  BY DEF Feed, Fresh
<1>2. TaskTypes' /\ OtherTypes'
  BY <1>1, SameTypes, Types DEF OtherTypes
<1>3. CASE /\ Over \/ finalizing \/ awaiting \/ pending = <<>>
           /\ UNCHANGED <<promptVars, turnVars, endVars>>
  <2>1. TypeOK'
    BY <1>2, <1>3, SameTypes, TypesNext
  <2> QED
    BY <1>1, <1>3, <2>1, FrameKeepsInv DEF Ending
<1>4. CASE /\ ~(Over \/ finalizing \/ awaiting \/ pending = <<>>)
           /\ pending' = Tail(pending)
  <2>1. /\ Head(pending) \in Prompt /\ Tail(pending) \in Seq(Prompt)
        /\ NoneDropped /\ reason = "none"
    BY <1>4 DEF TypeOK, Ending
  <2>2. CASE /\ Deliver(Head(pending)) /\ fate' = Fates({Head(pending)}, "delivered")
             /\ UNCHANGED endVars
    <3>1. PromptTypes' /\ TurnTypes' /\ EndTypes'
      BY <1>4, <2>1, <2>2, FatesType, SameTypes, DeliverTypes DEF PromptTypes
    <3>2. TypeOK'
      BY <1>2, <3>1, TypesNext
    <3>3. awaiting'
      BY <2>2 DEF Deliver
    <3>4. Queue' /\ NoneDropped'
      BY <1>4, <2>1, <2>2, <3>3, QueueFeeds DEF NoneDropped, Fates
    <3> QED
      BY <1>1, <1>4, <2>1, <2>2, <3>2, <3>4, DeliverKeepsInv
  <2>3. CASE /\ fate' = Fates({Head(pending)}, "dropped") /\ Signal("crashed")
             /\ UNCHANGED <<turnVars, eofTimer>>
    <3>1. PromptTypes' /\ TurnTypes' /\ EndTypes'
      BY <1>4, <2>1, <2>3, FatesType, SameTypes, SignalTypes DEF PromptTypes, TypeOK
    <3>2. /\ finalizing' /\ reason' = "crashed" /\ UNCHANGED <<settled, disposed>>
          /\ (signal' # "none" => asked' # "none")
      BY <1>4, <2>1, <2>3 DEF Signal, Sigterm, Over, Ending
    <3>3. TypeOK' /\ ~Over'
      BY <1>2, <1>4, <3>1, <3>2, TypesNext DEF Over
    <3>4. Queue'
      BY <1>4, <2>3, <3>2, QueueFeeds
    <3>5. Fresh' /\ Accepts' /\ Counts'
      BY <1>1, <1>4, <2>3, <3>3 DEF Fresh, Accepts, Counts
    <3>6. Ending' /\ Settlement'
      BY <3>2, <3>3 DEF Ending, Settlement, QuietSettlement, SlotHeldUntilKilled,
         FailureNotMasked, Over
    <3> QED
      BY <3>3, <3>4, <3>5, <3>6
  <2> QED
    BY <1>4, <2>2, <2>3 DEF Feed
<1> QED
  BY <1>3, <1>4 DEF Feed

LEMMA QuiesceKeepsInv == ASSUME Inv, Quiesce PROVE Inv'
<1> USE DEF Inv
<1>1. /\ micro = "quiesce" /\ micro' = "none" /\ UNCHANGED <<promptVars, live, envVars, child>>
      /\ child # "none"
  BY DEF Quiesce, Fresh
<1>2. OtherTypes' /\ PromptTypes' /\ live' \in BOOLEAN
  BY <1>1, SameTypes, Types DEF OtherTypes, TaskTypes
<1>3. CASE /\ Over \/ finalizing \/ awaiting \/ pending # <<>>
           /\ UNCHANGED <<turnVars, endVars, handoffs, collections>>
  <2>1. TypeOK'
    BY <1>1, <1>2, <1>3, SameTypes, TypesNext
  <2>2. pending # <<>> => awaiting \/ finalizing \/ Over
    BY <1>1 DEF Queue
  <2> QED
    BY <1>1, <1>3, <2>1, <2>2, FrameKeepsInv DEF Ending
<1>4. CASE ~Over /\ ~finalizing /\ ~awaiting /\ pending = <<>>
  <2>1. reason = "none" /\ NoneDropped /\ AllOk
    <3>1. \A i \in DOMAIN turns : i \in accepted
      BY <1>4 DEF Accepts
    <3> QED
      BY <1>4, <3>1 DEF Ending, AllOk
  <2>2. CASE finalizing' /\ eofTimer' /\ UNCHANGED <<reason, signal, asked, settled, disposed>>
             /\ UNCHANGED <<turnVars, handoffs, collections>>
    <3>1. EndTypes' /\ TurnTypes' /\ TaskTypes'
      BY <1>1, <1>2, <2>2, SameTypes, Types DEF EndTypes
    <3>2. TypeOK' /\ ~Over'
      BY <1>2, <1>4, <2>2, <3>1, TypesNext DEF Over
    <3>3. Queue' /\ Fresh' /\ Accepts' /\ Counts'
      BY <1>1, <1>4, <2>2, <3>2 DEF Queue, Fresh, Accepts, Counts
    <3>4. Ending' /\ Settlement'
      BY <1>1, <1>4, <2>1, <2>2, <3>2 DEF Ending, AllOk, NoneDropped, NoError, Settlement,
         QuietSettlement, SlotHeldUntilKilled, FailureNotMasked, Over
    <3> QED
      BY <3>2, <3>3, <3>4
  <2>3. CASE Signal("finalized") /\ UNCHANGED <<turnVars, handoffs, collections, eofTimer>>
    <3>1. EndTypes' /\ TurnTypes' /\ TaskTypes'
      BY <1>1, <1>2, <2>3, SameTypes, SignalTypes, Types DEF TypeOK
    <3>2. /\ finalizing' /\ reason' = "finalized" /\ UNCHANGED <<settled, disposed>>
          /\ (signal' # "none" => asked' # "none")
      BY <1>4, <2>1, <2>3 DEF Signal, Sigterm, Over, Ending
    <3>3. TypeOK' /\ ~Over'
      BY <1>2, <1>4, <3>1, <3>2, TypesNext DEF Over
    <3>4. Queue' /\ Fresh' /\ Accepts' /\ Counts'
      BY <1>1, <1>4, <2>3, <3>2, <3>3 DEF Queue, Fresh, Accepts, Counts
    <3>5. NoError
      BY <2>1 DEF NoError, AllOk, TypeOK
    <3>6. Ending' /\ Settlement'
      BY <1>1, <1>4, <2>1, <2>3, <3>2, <3>3, <3>5 DEF Ending, AllOk, NoneDropped, NoError,
         Settlement, QuietSettlement, SlotHeldUntilKilled, FailureNotMasked, Over
    <3> QED
      BY <3>3, <3>4, <3>6
  <2>4. CASE MayCollect /\ handoffs' = handoffs + 1 /\ collections' = collections + 1
             /\ Deliver(Collect) /\ UNCHANGED endVars
    <3>1. EndTypes' /\ TurnTypes' /\ TaskTypes'
      BY <1>2, <2>4, SameTypes, DeliverTypes, Types, BoundAssumption DEF TaskTypes, MayCollect
    <3>2. TypeOK'
      BY <1>2, <3>1, TypesNext
    <3>3. Queue' /\ NoneDropped'
      BY <1>1, <1>4, <2>1 DEF Queue, NoneDropped
    <3> QED
      BY <1>1, <1>4, <2>4, <3>2, <3>3, DeliverKeepsInv
  <2>5. CASE Signal("crashed") /\ UNCHANGED <<turnVars, eofTimer>> /\ TaskTypes'
    <3>1. EndTypes' /\ TurnTypes'
      BY <2>5, SameTypes, SignalTypes, Types DEF TypeOK
    <3>2. TypeOK'
      BY <1>2, <2>5, <3>1, TypesNext
    <3>3. /\ finalizing' /\ reason' = "crashed" /\ UNCHANGED <<settled, disposed>>
          /\ (signal' # "none" => asked' # "none")
      BY <1>4, <2>1, <2>5 DEF Signal, Sigterm, Over, Ending
    <3>4. ~Over'
      BY <1>4, <3>3 DEF Over
    <3>5. Queue' /\ Fresh' /\ Accepts' /\ Counts'
      BY <1>1, <1>4, <2>5, <3>3, <3>4 DEF Queue, Fresh, Accepts, Counts
    <3>6. Ending' /\ Settlement'
      BY <3>3, <3>4 DEF Ending, Settlement, QuietSettlement, SlotHeldUntilKilled,
         FailureNotMasked, Over
    <3> QED
      BY <3>2, <3>5, <3>6
  <2>6. CASE WorkersDone /\ FinalizeQuiescent /\ UNCHANGED <<turnVars, handoffs, collections>>
    BY <2>2, <2>3, <2>6 DEF FinalizeQuiescent
  <2>7. CASE ~WorkersDone /\ ContinueBackgroundWork
    <3>1. CASE /\ MayCollect /\ handoffs' = handoffs + 1 /\ collections' = collections + 1
               /\ Signal("crashed") /\ UNCHANGED <<turnVars, eofTimer>>
      <4>1. TaskTypes'
        BY <1>2, <3>1, Types, BoundAssumption DEF TaskTypes, MayCollect
      <4> QED
        BY <2>5, <3>1, <4>1
    <3>2. CASE Signal("crashed") /\ UNCHANGED <<turnVars, eofTimer, handoffs, collections>>
      <4>1. TaskTypes'
        BY <1>1, <3>2, SameTypes
      <4> QED
        BY <2>5, <3>2, <4>1
    <3> QED
      BY <2>4, <2>7, <3>1, <3>2 DEF ContinueBackgroundWork
  <2> QED
    BY <1>1, <1>4, <2>6, <2>7 DEF Quiesce
<1> QED
  BY <1>3, <1>4 DEF Quiesce

(* A line of output that ends no turn.                                     *)
LEMMA LineKeepsInv ==
  ASSUME Inv, Listening, turnEvents' = TRUE, (UNCHANGED endVars) \/ FailStop, TaskTypes',
         UNCHANGED <<awaiting, accepted, folded, turns, promptVars, envVars, child, micro>>
  PROVE  Inv'
<1>1. child # "none" /\ ~Over
  BY DEF Listening
<1>2. PromptTypes' /\ OtherTypes'
  BY SameTypes DEF Inv
<1>3. TurnTypes'
  BY Types DEF TurnTypes, Inv
<1>4. CASE UNCHANGED endVars
  <2>1. TypeOK'
    BY <1>2, <1>3, <1>4, SameTypes, TypesNext DEF Inv
  <2> QED
    BY <1>1, <1>4, <2>1, FrameKeepsInv DEF Inv, Ending
<1>5. CASE FailStop
  <2>1. Signal("crashed") /\ UNCHANGED eofTimer
    BY <1>5 DEF FailStop
  <2>2. EndTypes'
    BY <2>1, SignalTypes DEF Inv, TypeOK
  <2>3. TypeOK'
    BY <1>2, <1>3, <2>2, TypesNext
  <2> QED
    BY <1>1, <2>1, <2>3, SignalKeepsInv
<1> QED
  BY <1>4, <1>5

LEMMA WorkLineKeepsInv == ASSUME Inv, WorkLine PROVE Inv'
<1>1. TaskTypes'
  BY SameTypes DEF Inv, WorkLine
<1> QED
  BY <1>1, LineKeepsInv DEF WorkLine

LEMMA TasksLineKeepsInv == ASSUME Inv, NEW tasks \in BOOLEAN, TasksLine(tasks) PROVE Inv'
<1>1. TaskTypes'
  BY BoundAssumption DEF Inv, TypeOK, TasksLine, TaskTypes
<1> QED
  BY <1>1, LineKeepsInv DEF TasksLine

(* The frame of a turn, and what ends with it.                             *)
LEMMA AnsweredShape ==
  ASSUME turns \in Seq(Turn), NEW t \in DOMAIN turns, NEW kind \in {"ok", "error"},
         turns[t].result \in {"none", kind}
  PROVE  LET a == Answered(t, kind)
         IN  /\ a \in Seq(Turn) /\ Len(a) = Len(turns) /\ DOMAIN a = DOMAIN turns
             /\ \A i \in DOMAIN turns : i # t => a[i] = turns[i]
             /\ a[t].result = kind /\ a[t].counted = turns[t].counted
<1> DEFINE turn == [turns[t] EXCEPT !.result = kind]
           a == [turns EXCEPT ![t] = turn]
<1>1. turns[t] \in Turn /\ t \in 1..Len(turns)
  OBVIOUS
<1>2. turn \in Turn /\ turn.result = kind /\ turn.counted = turns[t].counted
  BY <1>1 DEF Turn
<1>3. Answered(t, kind) = a
  BY DEF Answered
<1> HIDE DEF turn
<1>4. a \in Seq(Turn) /\ Len(a) = Len(turns) /\ DOMAIN a = DOMAIN turns
  BY <1>1, <1>2
<1>5. (\A i \in DOMAIN turns : i # t => a[i] = turns[i]) /\ a[t] = turn
  BY <1>1
<1> QED
  BY <1>2, <1>3, <1>4, <1>5

LEMMA TurnEndedShape ==
  ASSUME turns \in Seq(Turn), NEW t \in DOMAIN turns, NEW kind \in {"ok", "error"},
         turns[t].result \in {"none", kind}, TurnEnded(t, kind)
  PROVE  /\ turns' \in Seq(Turn) /\ Len(turns') = Len(turns) /\ DOMAIN turns' = DOMAIN turns
         /\ \A i \in DOMAIN turns : i # t => turns'[i] = turns[i]
         /\ turns'[t].result = kind /\ turns'[t].counted = turns[t].counted + 1
<1> DEFINE a == Answered(t, kind)
           m == [a EXCEPT ![t].counted = @ + 1]
<1>1. /\ a \in Seq(Turn) /\ Len(a) = Len(turns) /\ DOMAIN a = DOMAIN turns
      /\ \A i \in DOMAIN turns : i # t => a[i] = turns[i]
      /\ a[t].result = kind /\ a[t].counted = turns[t].counted
  BY AnsweredShape
<1>2. turns' = m
  BY DEF TurnEnded
<1> HIDE DEF a
<1>3. /\ m \in Seq(Turn) /\ Len(m) = Len(a) /\ DOMAIN m = DOMAIN a
      /\ \A i \in DOMAIN a : i # t => m[i] = a[i]
      /\ m[t].counted = a[t].counted + 1
      /\ m[t].result = a[t].result
  BY <1>1, CountedOneMore
<1> HIDE DEF m
<1> QED
  BY <1>1, <1>2, <1>3

LEMMA ResultFacts ==
  ASSUME Inv, NEW t \in DOMAIN turns, NEW kind \in {"ok", "error", "notice"}, Result(t, kind)
  PROVE  /\ child = "alive" /\ ~Over /\ awaiting /\ kind \in {"ok", "error"}
         /\ t = Len(turns) /\ t \notin accepted /\ turns[t].result \in {"none", kind}
         /\ turnEvents' = TRUE /\ UNCHANGED <<promptVars, taskVars, envVars, child>>
<1>1. child = "alive" /\ ~Over /\ awaiting /\ kind # "notice" /\ t \notin accepted
  BY DEF Result, Listening, Dropped
<1>2. turns[t].result \in {"none", kind}
  BY <1>1 DEF Result
<1>3. t = Len(turns)
  BY <1>1 DEF Inv, Accepts
<1> QED
  BY <1>1, <1>2, <1>3 DEF Result

LEMMA ResultKeepsInv ==
  ASSUME Inv, NEW t \in DOMAIN turns, NEW kind \in {"ok", "error", "notice"}, Result(t, kind)
  PROVE  Inv'
<1>1. /\ child = "alive" /\ ~Over /\ awaiting /\ kind \in {"ok", "error"}
      /\ t = Len(turns) /\ t \notin accepted /\ turns[t].result \in {"none", kind}
      /\ turnEvents' = TRUE /\ UNCHANGED <<promptVars, taskVars, envVars, child>>
  BY ResultFacts
<1>2. turns \in Seq(Turn) /\ t \in DOMAIN turns /\ accepted \subseteq DOMAIN turns
      /\ folded \in BOOLEAN /\ micro \in {"none", "feed", "quiesce"}
  BY DEF Inv, TypeOK
<1>3. PromptTypes' /\ TaskTypes' /\ (micro' \in {"none", "feed", "quiesce"} => OtherTypes')
  BY <1>1, SameTypes, Types DEF Inv, OtherTypes
<1>4. CASE turns' = Answered(t, kind) /\ FailStop /\ UNCHANGED <<awaiting, accepted, folded, micro>>
  <2>1. /\ turns' \in Seq(Turn) /\ Len(turns') = Len(turns) /\ DOMAIN turns' = DOMAIN turns
        /\ \A i \in DOMAIN turns : i # t => turns'[i] = turns[i]
        /\ turns'[t].result = kind /\ turns'[t].counted = turns[t].counted
    BY <1>1, <1>2, <1>4, AnsweredShape
  <2>2. Signal("crashed") /\ UNCHANGED eofTimer
    BY <1>4 DEF FailStop
  <2>3. EndTypes'
    BY <2>2, SignalTypes DEF Inv, TypeOK
  <2>4. TurnTypes'
    <3>1. turns' # <<>> /\ accepted' \subseteq DOMAIN turns' /\ awaiting' \in BOOLEAN
      BY <1>1, <1>2, <1>4, <2>1 DEF Inv, TypeOK
    <3> QED
      BY <1>1, <1>2, <1>4, <2>1, <3>1 DEF TurnTypes
  <2>5. TypeOK'
    BY <1>2, <1>3, <1>4, <2>3, <2>4, TypesNext
  <2>6. /\ finalizing' /\ UNCHANGED <<settled, disposed>> /\ ~Over'
        /\ (signal' # "none" => asked' # "none")
        /\ reason' = "crashed" \/ (reason' = reason /\ reason # "none" /\ finalizing)
    BY <1>1, <2>2 DEF Signal, Sigterm, Over, Inv, Ending
  <2>7. Queue' /\ Fresh'
    BY <1>1, <1>4, <2>6 DEF Inv, Queue, Fresh
  <2>8. Accepts'
    BY <1>1, <1>4, <2>1, <2>6 DEF Inv, Accepts
  <2>9. Counts'
    <3>1. \A i \in DOMAIN turns : turns'[i].counted = turns[i].counted
      BY <2>1
    <3> QED
      BY <1>1, <1>4, <2>1, <2>6, <3>1 DEF Inv, Counts
  <2>10. Ending'
    <3>1. NoError => NoError'
      BY <1>1, <1>2, <1>4, <2>1 DEF NoError
    <3> QED
      BY <1>1, <2>6, <3>1 DEF Inv, Ending, Over
  <2>11. Settlement'
    BY <2>6 DEF Settlement, QuietSettlement, SlotHeldUntilKilled, FailureNotMasked, Over
  <2> QED
    BY <2>5, <2>7, <2>8, <2>9, <2>10, <2>11 DEF Inv
<1>5. CASE TurnEnded(t, kind)
  <2>1. /\ turns' \in Seq(Turn) /\ Len(turns') = Len(turns) /\ DOMAIN turns' = DOMAIN turns
        /\ \A i \in DOMAIN turns : i # t => turns'[i] = turns[i]
        /\ turns'[t].result = kind /\ turns'[t].counted = turns[t].counted + 1
    BY <1>1, <1>2, <1>5, TurnEndedShape
  <2>2. accepted' = accepted \cup {t} /\ awaiting' = FALSE /\ UNCHANGED folded
    BY <1>5 DEF TurnEnded
  <2>3. TurnTypes'
    BY <1>1, <1>2, <2>1, <2>2 DEF TurnTypes
  <2>4. Accepts'
    BY <1>1, <2>1, <2>2 DEF Inv, Accepts
  <2>5. ASSUME ~Over' PROVE Counts'
    <3>1. \A i \in DOMAIN turns : turns[i].counted \in Nat
      BY CountsAreNumbers DEF Inv
    <3>2. ASSUME NEW i \in DOMAIN turns
          PROVE turns'[i].counted <= (IF i \in accepted' THEN 1 ELSE 0) + (IF folded' THEN 1 ELSE 0)
      <4>1. turns[i].counted <= (IF i \in accepted THEN 1 ELSE 0) + (IF folded THEN 1 ELSE 0)
        BY DEF Inv, Counts
      <4>2. CASE i = t
        BY <1>1, <1>2, <2>1, <2>2, <3>1, <4>1, <4>2
      <4>3. CASE i # t
        BY <2>1, <2>2, <4>1, <4>3
      <4> QED
        BY <4>2, <4>3
    <3>3. ASSUME refusals = 0, NEW i \in DOMAIN turns
          PROVE  turns'[i].counted = IF i \in accepted' THEN 1 ELSE 0
      <4>1. turns[i].counted = IF i \in accepted THEN 1 ELSE 0
        BY <1>1, <3>3 DEF Inv, Counts
      <4> QED
        BY <1>1, <2>1, <2>2, <4>1
    <3>4. refusals = 0 => ~folded'
      BY <1>1, <2>2 DEF Inv, Counts
    <3> QED
      BY <1>1, <2>1, <2>5, <3>2, <3>3, <3>4 DEF Counts
  <2>6. CASE kind # "error" /\ UNCHANGED endVars
             /\ micro' = IF finalizing THEN micro
                         ELSE IF pending # <<>> THEN "feed"
                         ELSE IF settleMode = "auto" THEN "quiesce" ELSE micro
    <3>1. TypeOK' /\ ~Over'
      BY <1>1, <1>2, <1>3, <2>3, <2>6, SameTypes, TypesNext DEF Over, Inv
    <3>2. Queue' /\ Fresh'
      BY <1>1, <2>6, <3>1 DEF Inv, Queue, Fresh
    <3>3. kind = "ok"
      BY <1>1, <2>6
    <3>4. Ending'
      <4>1. NoError => NoError'
        BY <1>2, <2>1, <2>2, <3>3 DEF NoError
      <4>2. ~finalizing => \A i \in DOMAIN turns' :
              turns'[i].result = IF i \in accepted' THEN "ok" ELSE "none"
        BY <1>1, <2>1, <2>2, <3>3 DEF Inv, Ending
      <4> QED
        BY <1>1, <2>6, <3>1, <4>1, <4>2 DEF Inv, Ending, NoneDropped, Over
    <3>5. Settlement'
      BY <1>1, <2>6, <3>1 DEF Settlement, QuietSettlement, SlotHeldUntilKilled,
         FailureNotMasked, Over
    <3> QED
      BY <2>4, <2>5, <3>1, <3>2, <3>4, <3>5 DEF Inv
  <2>7. CASE /\ checkpoint \/ reason' = "crashed"
             /\ finalizing' = TRUE /\ Sigterm("crashed")
             /\ reason' = "crashed" \/ reason' = IF reason = "none" THEN "crashed" ELSE reason
             /\ UNCHANGED <<eofTimer, settled, disposed, micro>>
    <3>1. EndTypes' /\ ~Over'
      BY <1>1, <2>7 DEF Inv, TypeOK, EndTypes, Sigterm, Over
    <3>2. TypeOK'
      BY <1>2, <1>3, <2>3, <2>7, <3>1, TypesNext
    <3>3. Queue' /\ Fresh'
      BY <1>1, <2>7 DEF Inv, Queue, Fresh
    <3>4. /\ (signal' # "none" => asked' # "none")
          /\ reason' = "crashed" \/ (reason' = reason /\ reason # "none" /\ finalizing)
      BY <1>1, <2>7 DEF Sigterm, Over, Inv, Ending
    <3>5. Ending'
      BY <1>1, <2>7, <3>1, <3>4 DEF Inv, Ending, Over
    <3>6. Settlement'
      BY <1>1, <2>7, <3>1 DEF Settlement, QuietSettlement, SlotHeldUntilKilled,
         FailureNotMasked, Over
    <3> QED
      BY <2>4, <2>5, <3>1, <3>2, <3>3, <3>5, <3>6 DEF Inv
  <2>8. CASE checkpoint /\ FailStop /\ UNCHANGED micro
    BY <2>7, <2>8 DEF FailStop, Signal
  <2>9. CASE /\ kind = "error"
             /\ finalizing' = TRUE /\ reason' = "crashed" /\ Sigterm("crashed")
             /\ UNCHANGED <<eofTimer, settled, disposed, micro>>
    BY <2>7, <2>9
  <2>10. \/ checkpoint /\ FailStop /\ UNCHANGED micro
         \/ /\ kind = "error"
            /\ finalizing' = TRUE /\ reason' = "crashed" /\ Sigterm("crashed")
            /\ UNCHANGED <<eofTimer, settled, disposed, micro>>
         \/ /\ kind # "error" /\ UNCHANGED endVars
            /\ micro' = IF finalizing THEN micro
                        ELSE IF pending # <<>> THEN "feed"
                        ELSE IF settleMode = "auto" THEN "quiesce" ELSE micro
         \/ turns' = Answered(t, kind) /\ FailStop /\ UNCHANGED <<awaiting, accepted, folded, micro>>
    BY DEF Result
  <2> QED
    BY <1>4, <2>6, <2>8, <2>9, <2>10
<1> QED
  BY <1>4, <1>5 DEF Result

(* Timers and events of the process.                                       *)
LEMMA EofTimeoutKeepsInv == ASSUME Inv, EofTimeout PROVE Inv'
<1>1. /\ finalizing /\ child # "none" /\ eofTimer' = FALSE /\ Signal("finalized")
      /\ UNCHANGED <<promptVars, turnVars, taskVars, envVars, child, micro>>
  BY DEF EofTimeout, Inv, Ending, Fresh
<1>2. EndTypes'
  BY <1>1, SignalTypes DEF Inv
<1>3. TypeOK'
  BY <1>1, <1>2, SameTypes, TypesNext DEF Inv
<1>4. released' = released /\ (eofTimer' = eofTimer \/ ~eofTimer')
  BY <1>1
<1> QED
  BY <1>1, <1>3, <1>4, SignalKeepsInv

LEMMA KillTimeoutKeepsInv == ASSUME Inv, KillTimeout PROVE Inv'
<1>1. /\ signal = "SIGTERM" /\ child = "alive" /\ settled = "no" /\ finalizing
      /\ signal' = "SIGKILL" /\ reason' = reason
      /\ UNCHANGED <<taskVars, envVars, child, micro, finalizing, asked, disposed>>
  BY DEF KillTimeout, Expired, Inv, Ending
<1>2. TaskTypes' /\ OtherTypes'
  BY <1>1, SameTypes DEF Inv
<1>3. CASE disposed /\ UNCHANGED <<promptVars, turnVars, eofTimer, settled>>
  <2>1. EndTypes'
    BY <1>1, <1>3 DEF Inv, TypeOK, EndTypes
  <2>2. TypeOK' /\ Over'
    BY <1>2, <1>3, <1>1, <2>1, SameTypes, TypesNext DEF Inv, Over
  <2>3. Queue' /\ Fresh' /\ Accepts' /\ Counts'
    BY <1>1, <1>3, <2>2 DEF Inv, Queue, Fresh, Accepts, Counts, Over
  <2>4. Ending' /\ Settlement'
    BY <1>1, <1>3, <2>2 DEF Inv, Ending, Settlement, QuietSettlement, SlotHeldUntilKilled,
       FailureNotMasked
  <2> QED
    BY <2>2, <2>3, <2>4 DEF Inv
<1>4. CASE ~disposed /\ SettleAs(asked)
  <2>1. asked \in {"finalized", "crashed"} /\ ~Over
    BY <1>1, <1>4 DEF Inv, Ending, TypeOK, Over
  <2>2. /\ settled' = IF reason' = "crashed" THEN "crashed" ELSE asked
        /\ eofTimer' = FALSE
    BY <1>4 DEF SettleAs
  <2>3. TurnTypes' /\ PromptTypes' /\ EndTypes'
    BY <1>1, <1>4, <2>1, <2>2, SettleTypes DEF Inv, TypeOK, EndTypes
  <2>4. TypeOK'
    BY <1>2, <2>3, TypesNext
  <2>5. settled' = "finalized" => reason # "crashed"
    BY <1>1, <2>2
  <2>6. reason' # "none" \/ signal' # "none" => finalizing'
    BY <1>1
  <2>7. released' = released
    BY <1>1
  <2> QED
    BY <1>1, <1>4, <2>1, <2>4, <2>5, <2>6, <2>7, SettleKeepsInv
<1> QED
  BY <1>3, <1>4 DEF KillTimeout

LEMMA CloseKeepsInv == ASSUME Inv, Close PROVE Inv'
<1>1. /\ child \in {"alive", "nopid"} /\ child' = "closed" /\ reason' = reason
      /\ UNCHANGED <<taskVars, envVars, micro, finalizing, signal, asked, disposed>>
  BY DEF Close
<1>2. TaskTypes' /\ OtherTypes'
  BY <1>1, SameTypes, Types DEF Inv, OtherTypes
<1>3. CASE Over /\ UNCHANGED <<promptVars, turnVars, settled>> /\ eofTimer' = FALSE
  <2>1. EndTypes'
    BY <1>1, <1>3 DEF Inv, TypeOK, EndTypes
  <2>2. TypeOK'
    BY <1>2, <1>3, <2>1, SameTypes, TypesNext DEF Inv
  <2> QED
    BY <1>1, <1>3, <2>2, FrameKeepsInv
<1>4. CASE ~Over /\ SettleAs(IF reason # "none" THEN reason
                             ELSE IF finalizing THEN "finalized" ELSE "crashed")
  <2> DEFINE r == IF reason # "none" THEN reason ELSE IF finalizing THEN "finalized" ELSE "crashed"
  <2>1. r \in {"finalized", "crashed"} /\ (r = "finalized" => finalizing /\ reason # "crashed")
    BY DEF Inv, Ending, TypeOK
  <2>2. SettleAs(r)
    BY <1>4
  <2> HIDE DEF r
  <2>3. settled' = (IF reason' = "crashed" THEN "crashed" ELSE r) /\ eofTimer' = FALSE
    BY <2>2 DEF SettleAs
  <2>4. TurnTypes' /\ PromptTypes' /\ EndTypes'
    BY <1>1, <2>1, <2>2, <2>3, SettleTypes DEF Inv, TypeOK, EndTypes
  <2>5. TypeOK'
    BY <1>2, <2>4, TypesNext
  <2>6. settled' = "finalized" => reason # "crashed" /\ finalizing
    BY <2>1, <2>3
  <2>7. /\ reason' # "none" \/ signal' # "none" => finalizing'
        /\ signal' # "none" => asked' # "none"
        /\ ~disposed'
    BY <1>1, <1>4 DEF Inv, Ending, Over
  <2>8. child' # "none" /\ child' # "alive" /\ released' = released /\ micro' = micro
    BY <1>1
  <2> QED
    BY <1>1, <1>4, <2>1, <2>2, <2>5, <2>6, <2>7, <2>8, SettleKeepsInv
<1> QED
  BY <1>3, <1>4 DEF Close

LEMMA DisposeKeepsInv == ASSUME Inv, Dispose PROVE Inv'
<1>1. /\ child # "none" /\ ~Over /\ Fold
      /\ disposed' = TRUE /\ eofTimer' = FALSE /\ finalizing' = TRUE /\ Over'
      /\ UNCHANGED <<promptVars, awaiting, turnEvents, accepted, taskVars, envVars, child, micro,
                     reason, settled>>
  BY DEF Dispose, Over
<1>2. EndTypes'
  <2>1. signal' \in {"none", "SIGTERM", "SIGKILL"} /\ asked' \in {"none", "finalized", "crashed"}
    BY DEF Dispose, Sigterm, Inv, TypeOK
  <2> QED
    BY <1>1, <2>1 DEF Inv, TypeOK, EndTypes
<1>3. TypeOK'
  BY <1>1, <1>2, FoldTypes, SameTypes, TypesNext DEF Inv
<1>4. Queue' /\ Fresh'
  BY <1>1 DEF Inv, Queue, Fresh
<1>5. Len(turns') = Len(turns) /\ DOMAIN turns' = DOMAIN turns
  BY <1>1, Folds DEF Inv
<1>6. Accepts'
  BY <1>1, <1>5 DEF Inv, Accepts
<1>7. Counts'
  BY <1>1, FoldCounts
<1>8. Ending' /\ Settlement'
  BY <1>1 DEF Ending, Settlement, QuietSettlement, SlotHeldUntilKilled, FailureNotMasked, Over
<1> QED
  BY <1>3, <1>4, <1>6, <1>7, <1>8 DEF Inv

LEMMA SnapshotRefusedKeepsInv == ASSUME Inv, SnapshotRefused PROVE Inv'
<1>1. /\ child # "none" /\ ~Over /\ Fold /\ Over' = Over
      /\ refusals < MaxRefusals /\ refusals' = refusals + 1
      /\ UNCHANGED <<promptVars, awaiting, turnEvents, accepted, taskVars, endVars, settleMode,
                     checkpoint, released, mute, child, micro>>
  BY DEF SnapshotRefused, Over
<1>2. refusals \in Nat /\ refusals' \in 0..MaxRefusals /\ refusals' # 0
  BY <1>1, BoundAssumption DEF Inv, TypeOK
<1>3. OtherTypes'
  BY <1>1, <1>2, Types DEF Inv, OtherTypes
<1>4. TypeOK'
  BY <1>1, <1>3, FoldTypes, SameTypes, TypesNext DEF Inv
<1>5. Queue' /\ Fresh'
  BY <1>1 DEF Inv, Queue, Fresh
<1>6. /\ Len(turns') = Len(turns) /\ DOMAIN turns' = DOMAIN turns
      /\ \A i \in DOMAIN turns : turns'[i].result = turns[i].result
  BY <1>1, Folds DEF Inv
<1>7. Accepts'
  BY <1>1, <1>6 DEF Inv, Accepts
<1>8. Counts'
  BY <1>1, <1>2, FoldBounds DEF Counts
<1>9. Ending'
  <2>1. AllOk' <=> AllOk
    BY <1>6 DEF AllOk
  <2>2. NoError => NoError'
    BY <1>1, <1>6 DEF NoError, Inv, TypeOK
  <2> QED
    BY <1>1, <1>6, <2>1, <2>2 DEF Inv, Ending, NoneDropped
<1>10. Settlement'
  BY <1>1 DEF Settlement, QuietSettlement, SlotHeldUntilKilled, FailureNotMasked, Over
<1> QED
  BY <1>4, <1>5, <1>7, <1>8, <1>9, <1>10 DEF Inv

LEMMA MuteKeepsInv == ASSUME Inv, Mute PROVE Inv'
<1>1. /\ child = "alive" /\ mute' = TRUE
      /\ UNCHANGED <<promptVars, turnVars, taskVars, endVars, settleMode, checkpoint, released,
                     refusals, child, micro>>
  BY DEF Mute
<1>2. OtherTypes'
  BY <1>1, Types DEF Inv, OtherTypes
<1>3. TypeOK'
  BY <1>1, <1>2, SameTypes, TypesNext DEF Inv
<1>4. eofTimer' => finalizing
  BY <1>1 DEF Inv, Ending
<1> QED
  BY <1>1, <1>3, <1>4, FrameKeepsInv

LEMMA StepKeepsInv == ASSUME Inv, [Next]_vars PROVE Inv'
<1>1. CASE Next
  BY <1>1, StartKeepsInv, FinalizeKeepsInv, AbortKeepsInv, FeedKeepsInv, QuiesceKeepsInv,
     SendKeepsInv, WorkLineKeepsInv, TasksLineKeepsInv, ResultKeepsInv, EofTimeoutKeepsInv,
     KillTimeoutKeepsInv, StdinErrorKeepsInv, CloseKeepsInv, DisposeKeepsInv,
     SnapshotRefusedKeepsInv, MuteKeepsInv DEF Next
<1>2. CASE UNCHANGED vars
  <2>1. UNCHANGED <<promptVars, turnVars, taskVars, endVars, envVars, child, micro>>
    BY <1>2 DEF vars
  <2>2. TypeOK'
    BY <2>1, SameTypes, TypesNext DEF Inv
  <2>3. eofTimer' => finalizing
    BY <2>1 DEF Inv, Ending
  <2> QED
    BY <2>1, <2>2, <2>3, FrameKeepsInv
<1> QED
  BY <1>1, <1>2

(* The state of a session is well formed whatever happens to it.           *)
THEOREM Invariance == Spec => []Inv
<1>1. Init => Inv
  BY InitInv
<1>2. Inv /\ [Next]_vars => Inv'
  BY StepKeepsInv
<1> QED
  BY <1>1, <1>2, PTL DEF Spec

(* Consistent: the state is well formed, a session that ended quietly owes *)
(* no result and no prompt, and its slot is kept until its child is killed.*)
THEOREM ConsistentAlways == Spec => []Consistent
<1>1. Inv => Consistent
  BY DEF Inv, Settlement, Consistent
<1> QED
  BY <1>1, Invariance, PTL

(* CountedOnce: a turn that reached the child is in the totals exactly     *)
(* once, but for what refused shutdowns cost.                              *)
THEOREM CountedOnceAlways == Spec => []CountedOnce
<1>1. ASSUME Inv PROVE CountedOnce
  <2>1. refusals \in Nat /\ \A i \in DOMAIN turns : turns[i].counted \in Nat
    BY <1>1, CountsAreNumbers, BoundAssumption DEF Inv, TypeOK
  <2>2. \A i \in DOMAIN turns : turns[i].counted <= 1 + refusals
    <3>1. CASE refusals = 0
      BY <1>1, <3>1 DEF Inv, Counts
    <3>2. CASE refusals # 0
      <4>1. \A i \in DOMAIN turns :
              turns[i].counted <= (IF i \in accepted THEN 1 ELSE 0) + (IF folded THEN 1 ELSE 0)
        BY <1>1 DEF Inv, Counts
      <4>2. \A i \in DOMAIN turns : turns[i].counted <= 2
        BY <2>1, <4>1
      <4> QED
        BY <2>1, <3>2, <4>2
    <3> QED
      BY <3>1, <3>2
  <2>3. ASSUME refusals = 0, Over, NEW i \in DOMAIN turns, i < Len(turns) \/ turnEvents
        PROVE  turns[i].counted = 1
    <3>1. CASE i \in accepted
      BY <1>1, <2>3, <3>1 DEF Inv, Counts
    <3>2. CASE i \notin accepted
      <4>1. i = Len(turns) /\ Len(turns) \in Nat
        BY <1>1, <3>2 DEF Inv, Accepts, TypeOK
      <4>2. turnEvents
        BY <2>3, <4>1
      <4> QED
        BY <1>1, <2>3, <3>2, <4>2 DEF Inv, Counts
    <3> QED
      BY <3>1, <3>2
  <2> QED
    BY <2>2, <2>3 DEF CountedOnce
<1> QED
  BY <1>1, Invariance, PTL

(* FailureNotMasked: a session with a turn that ended in an error does not *)
(* settle as finalized.                                                    *)
THEOREM FailureNotMaskedAlways == Spec => []FailureNotMasked
<1>1. Inv => FailureNotMasked
  BY DEF Inv, Settlement
<1> QED
  BY <1>1, Invariance, PTL

-----------------------------------------------------------------------------
(* PromptDelivery: the steps of the session as steps on its prompts.       *)
LEMMA FatesOfOne ==
  ASSUME TypeOK, NEW p \in Prompt, NEW f
  PROVE  Fates({p}, f) = [fate EXCEPT ![p] = f]
BY DEF Fates, TypeOK

LEMMA Stutters ==
  ASSUME UNCHANGED <<fate, pending, settled, disposed>>
  PROVE  UNCHANGED Delivery!vars
BY DEF Delivery!vars

LEMMA FatesOfQueue ==
  ASSUME TypeOK, Queue, NEW f
  PROVE  Fates(ToSet(pending), f) = [p \in Prompt |-> IF fate[p] = "queued" THEN f ELSE fate[p]]
<1>1. \A p \in Prompt : p \in ToSet(pending) <=> fate[p] = "queued"
  BY DEF ToSet, Queue
<1> QED
  BY <1>1 DEF Fates

LEMMA Settles ==
  ASSUME Inv, NEW r \in {"finalized", "crashed"}, SettleAs(r), ~Over, UNCHANGED disposed
  PROVE  Delivery!Next
<1>1. /\ settled = "no" /\ ~disposed /\ ~disposed'
      /\ settled' # "no" /\ pending' = <<>>
  BY DEF SettleAs, Over
<1>2. fate' = [p \in Prompt |-> IF fate[p] = "queued" THEN "dropped" ELSE fate[p]]
  BY FatesOfQueue DEF SettleAs, Inv
<1> QED
  BY <1>1, <1>2 DEF Delivery!Next, Delivery!Settle, Delivery!Settled

LEMMA TerminateImplements ==
  ASSUME Inv, NEW r \in {"finalized", "crashed"}, Terminate(r), ~Over
  PROVE  [Delivery!Next]_Delivery!vars
<1>1. CASE Signal(r) /\ UNCHANGED promptVars
  BY <1>1, Stutters DEF Signal
<1>2. CASE SettleNow(r)
  BY <1>2, Settles DEF SettleNow
<1> QED
  BY <1>1, <1>2 DEF Terminate

(* A prompt is refused, and the session settles or does not.               *)
LEMMA Refuses ==
  ASSUME Inv, NEW p \in Prompt, fate[p] = "new", fate' = Fates({p}, "refused"),
         UNCHANGED disposed,
         \/ UNCHANGED <<pending, settled>>
         \/ pending = <<>> /\ pending' = <<>> /\ settled' # "no" /\ ~disposed
  PROVE  Delivery!Next
<1>1. fate' = [fate EXCEPT ![p] = "refused"]
  BY FatesOfOne DEF Inv
<1> QED
  BY <1>1 DEF Delivery!Next, Delivery!Take, Delivery!Settled

LEMMA Delivers ==
  ASSUME Inv, NEW p \in Prompt, fate[p] = "new", fate' = Fates({p}, "delivered"),
         pending = <<>>, ~Over, UNCHANGED <<pending, settled, disposed>>
  PROVE  Delivery!Next
<1>1. fate' = [fate EXCEPT ![p] = "delivered"]
  BY FatesOfOne DEF Inv
<1> QED
  BY <1>1 DEF Delivery!Next, Delivery!Take, Over

LEMMA StartImplements == ASSUME Inv, Start PROVE [Delivery!Next]_Delivery!vars
<1>1. /\ First \in Prompt /\ fate[First] = "new" /\ pending = <<>> /\ settled = "no"
      /\ ~disposed /\ ~Over
  BY PromptAssumption DEF Start, Inv, Fresh, Over
<1>2. CASE settled' = "crashed" /\ fate' = Fates({First}, "refused") /\ UNCHANGED <<pending, disposed>>
  BY <1>1, <1>2, Refuses
<1>3. CASE fate' = Fates({First}, "delivered") /\ UNCHANGED <<pending, endVars>>
  BY <1>1, <1>3, Delivers
<1>4. CASE Signal("crashed") /\ fate' = Fates({First}, "refused") /\ UNCHANGED pending
  BY <1>1, <1>4, Refuses DEF Signal
<1> QED
  BY <1>2, <1>3, <1>4 DEF Start

LEMMA SendImplements == ASSUME Inv, NEW p \in Prompt, Send(p) PROVE [Delivery!Next]_Delivery!vars
<1>1. micro = "none" /\ fate[p] = "new"
  BY DEF Send
<1>2. CASE fate' = Fates({p}, "refused") /\ UNCHANGED <<pending, endVars>>
  BY <1>1, <1>2, Refuses
<1>3. CASE ~Over /\ pending' = Append(pending, p) /\ fate' = Fates({p}, "queued") /\ UNCHANGED endVars
  <2>1. fate' = [fate EXCEPT ![p] = "queued"]
    BY <1>3, FatesOfOne DEF Inv
  <2> QED
    BY <1>1, <1>3, <2>1 DEF Delivery!Next, Delivery!Take, Over
<1>4. CASE ~Over /\ ~finalizing /\ ~awaiting
  <2>1. pending = <<>> /\ ~disposed
    BY <1>1, <1>4, AtRest DEF Over
  <2>2. CASE fate' = Fates({p}, "delivered") /\ UNCHANGED <<pending, endVars>>
    BY <1>1, <1>4, <2>1, <2>2, Delivers
  <2>3. CASE Undelivered(p)
    <3>1. CASE fate' = Fates({p}, "refused") /\ UNCHANGED <<pending, settled, disposed>>
      BY <1>1, <3>1, Refuses
    <3>2. CASE /\ settled' = "crashed" /\ pending' = <<>> /\ UNCHANGED disposed
               /\ fate' = [Fates(ToSet(pending), "dropped") EXCEPT ![p] = "refused"]
      <4>1. fate' = Fates({p}, "refused")
        BY <2>1, <3>2 DEF Fates, ToSet, Inv, TypeOK
      <4> QED
        BY <1>1, <2>1, <3>2, <4>1, Refuses
    <3> QED
      BY <2>3, <3>1, <3>2 DEF Undelivered
  <2> QED
    BY <1>1, <1>2, <1>3, <1>4, <2>2, <2>3 DEF Send
<1> QED
  BY <1>2, <1>3, <1>4 DEF Send

LEMMA FeedImplements == ASSUME Inv, Feed PROVE [Delivery!Next]_Delivery!vars
<1>1. CASE UNCHANGED <<promptVars, endVars>>
  BY <1>1, Stutters
<1>2. CASE /\ ~Over /\ pending # <<>> /\ pending' = Tail(pending)
           /\ UNCHANGED <<settled, disposed>>
           /\ \E f \in {"delivered", "dropped"} : fate' = Fates({Head(pending)}, f)
  <2>1. PICK f \in {"delivered", "dropped"} : fate' = Fates({Head(pending)}, f)
    BY <1>2
  <2>2. Head(pending) \in Prompt
    BY <1>2 DEF Inv, TypeOK
  <2>3. fate' = [fate EXCEPT ![Head(pending)] = f]
    BY <2>1, <2>2, FatesOfOne DEF Inv
  <2> QED
    BY <1>2, <2>3 DEF Delivery!Next, Delivery!Feed, Over
<1> QED
  BY <1>1, <1>2 DEF Feed, Signal

LEMMA QuiesceImplements == ASSUME Quiesce PROVE UNCHANGED Delivery!vars
BY Stutters DEF Quiesce, FinalizeQuiescent, ContinueBackgroundWork, Signal

LEMMA LinesImplement ==
  ASSUME \/ WorkLine \/ \E tasks \in BOOLEAN : TasksLine(tasks)
         \/ \E t \in DOMAIN turns, kind \in {"ok", "error", "notice"} : Result(t, kind)
  PROVE  UNCHANGED Delivery!vars
<1>1. UNCHANGED promptVars /\ UNCHANGED <<settled, disposed>>
  BY DEF WorkLine, TasksLine, Result, FailStop, Signal
<1> QED
  BY <1>1, Stutters

LEMMA KillTimeoutImplements == ASSUME Inv, KillTimeout PROVE [Delivery!Next]_Delivery!vars
<1>1. CASE UNCHANGED <<promptVars, settled, disposed>>
  BY <1>1, Stutters
<1>2. CASE ~disposed /\ SettleAs(asked)
  <2>1. signal # "none" /\ settled = "no" /\ UNCHANGED disposed
    BY DEF KillTimeout, Expired
  <2>2. asked \in {"finalized", "crashed"} /\ ~Over
    BY <1>2, <2>1 DEF Inv, TypeOK, Ending, Over
  <2> QED
    BY <1>2, <2>1, <2>2, Settles
<1> QED
  BY <1>1, <1>2 DEF KillTimeout

LEMMA CloseImplements == ASSUME Inv, Close PROVE [Delivery!Next]_Delivery!vars
<1>1. CASE UNCHANGED <<promptVars, settled, disposed>>
  BY <1>1, Stutters
<1>2. CASE ~Over /\ SettleAs(IF reason # "none" THEN reason
                             ELSE IF finalizing THEN "finalized" ELSE "crashed")
  <2>1. (IF reason # "none" THEN reason ELSE IF finalizing THEN "finalized" ELSE "crashed")
          \in {"finalized", "crashed"}
    BY DEF Inv, TypeOK
  <2>2. UNCHANGED disposed
    BY DEF Close
  <2> QED
    BY <1>2, <2>1, <2>2, Settles
<1> QED
  BY <1>1, <1>2 DEF Close

LEMMA DisposeImplements == ASSUME Dispose PROVE Delivery!Next
BY DEF Dispose, Over, Delivery!Next, Delivery!Vanish

LEMMA StepImplements == ASSUME Inv, [Next]_vars PROVE [Delivery!Next]_Delivery!vars
<1>1. CASE Finalize
  <2>1. ~Over
    BY <1>1, DisposedIsEnding DEF Finalize, Over
  <2> QED
    BY <1>1, <2>1, TerminateImplements DEF Finalize
<1>2. CASE Abort
  BY <1>2, TerminateImplements DEF Abort
<1>3. CASE StdinError
  BY <1>3, TerminateImplements DEF StdinError
<1>4. CASE EofTimeout \/ SnapshotRefused \/ Mute
  BY <1>4, Stutters DEF EofTimeout, SnapshotRefused, Mute, Signal
<1>5. CASE UNCHANGED vars
  BY <1>5, Stutters DEF vars
<1> QED
  BY <1>1, <1>2, <1>3, <1>4, <1>5, StartImplements, SendImplements, FeedImplements,
     QuiesceImplements, LinesImplement, KillTimeoutImplements, CloseImplements, DisposeImplements
     DEF Next

(* ImplementsDelivery: every prompt is refused, or delivered in order, or  *)
(* reported, as PromptDelivery says.                                       *)
THEOREM DeliveryImplemented == Spec => ImplementsDelivery
<1>1. Init => Delivery!Init
  BY DEF Init, Delivery!Init
<1>2. Inv /\ [Next]_vars => [Delivery!Next]_Delivery!vars
  BY StepImplements
<1> QED
  BY <1>1, <1>2, Invariance, PTL DEF Spec, ImplementsDelivery, Delivery!Spec

=============================================================================
