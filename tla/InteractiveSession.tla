------------------------- MODULE InteractiveSession -------------------------
(***************************************************************************)
(* server/modules/execution/runtime/interactive-job-session.ts: one child  *)
(* that stays resident over many turns of one job.  A prompt is written to *)
(* its stdin when it is idle and queued when it streams; a `result` frame  *)
(* ends a turn.  In mode "auto" the session settles by itself when a turn  *)
(* has ended and nothing waits; in mode "finalize" a human ends it.        *)
(*                                                                         *)
(* Atomicity: a handler of the code is a step.  The microtask a result     *)
(* queues runs after the other lines of the same chunk of output (`micro`) *)
(* and before anything else.  Lines are read until the child is closed or  *)
(* the readers are (settled, disposed).                                    *)
(***************************************************************************)
EXTENDS Naturals, Sequences, SequencesExt

CONSTANTS
  Prompt,         \* the prompts of users
  First,          \* the prompt a session is started with
  Collect,        \* the control prompt that asks for background workers
  MaxHandoffs,    \* MAX_BACKGROUND_HANDOFFS
  MaxCollections, \* MAX_TOTAL_BACKGROUND_HANDOFFS
  MaxRefusals     \* bound on shutdowns that take a snapshot and are refused

ASSUME PromptAssumption == First \in Prompt /\ Collect \notin Prompt
ASSUME BoundAssumption ==
  {MaxHandoffs, MaxCollections, MaxRefusals} \subseteq Nat

VARIABLES
  settleMode, \* _settleMode: "auto" or "finalize"
  checkpoint, \* the owner is a loop, and gave a _persistTurnUsage
  child,      \* "none", "alive", "nopid" (the spawn failed) or "closed"
  pending,    \* _pending
  awaiting,   \* _streaming and _awaitingResult, which change together
  turnEvents, \* _turnEvents is not empty
  accepted,   \* _acceptedResultSignatures: the turns whose frame was accepted
  folded,     \* _inflightFolded
  live,       \* _liveBackgroundTasks is not empty
  handoffs,   \* _backgroundHandoffs
  collections,\* _totalBackgroundHandoffs
  finalizing, \* _finalizing
  reason,     \* _terminationReason
  signal,     \* the last signal sent: "none", "SIGTERM" or "SIGKILL"
  asked,      \* the reason that _killTimer was armed with
  eofTimer,   \* _eofTimer is armed
  settled,    \* "no", or the reason onSettle was called with
  disposed,   \* _disposed
  micro,      \* the microtask that is queued: "none", "feed" or "quiesce"
  turns,      \* history: the turns written to stdin, with what became of them
  fate,       \* history: what became of a prompt
  released,   \* history: a human has finalized the session
  mute,       \* the child has fallen silent for good
  refusals    \* refused shutdowns so far

promptVars == <<pending, fate>>
turnVars == <<awaiting, turnEvents, accepted, folded, turns>>
taskVars == <<live, handoffs, collections>>
endVars == <<finalizing, reason, signal, asked, eofTimer, settled, disposed>>
envVars == <<settleMode, checkpoint, released, mute, refusals>>
vars == <<promptVars, turnVars, taskVars, endVars, envVars, child, micro>>

Turn == [text : Prompt \cup {Collect}, result : {"none", "ok", "error"}, counted : Nat]

TypeOK ==
  /\ settleMode \in {"auto", "finalize"}
  /\ checkpoint \in BOOLEAN
  /\ child \in {"none", "alive", "nopid", "closed"}
  /\ pending \in Seq(Prompt)
  /\ fate \in [Prompt -> {"new", "refused", "queued", "delivered", "dropped"}]
  /\ turns \in Seq(Turn)
  /\ accepted \subseteq DOMAIN turns
  /\ {awaiting, turnEvents, folded, live} \subseteq BOOLEAN
  /\ {finalizing, eofTimer, disposed, released, mute} \subseteq BOOLEAN
  /\ handoffs \in 0 .. MaxHandoffs /\ collections \in 0 .. MaxCollections
  /\ {reason, asked} \subseteq {"none", "finalized", "crashed"}
  /\ settled \in {"no", "finalized", "crashed"}
  /\ signal \in {"none", "SIGTERM", "SIGKILL"}
  /\ micro \in {"none", "feed", "quiesce"}
  /\ refusals \in 0 .. MaxRefusals
  /\ awaiting => turns # <<>>

Init ==
  /\ settleMode \in {"auto", "finalize"}
  /\ checkpoint \in BOOLEAN
  /\ child = "none" /\ micro = "none" /\ signal = "none"
  /\ pending = <<>> /\ turns = <<>> /\ accepted = {}
  /\ fate = [p \in Prompt |-> "new"]
  /\ awaiting = FALSE /\ turnEvents = FALSE /\ folded = FALSE
  /\ live = FALSE /\ handoffs = 0 /\ collections = 0
  /\ finalizing = FALSE /\ reason = "none" /\ asked = "none" /\ eofTimer = FALSE
  /\ settled = "no" /\ disposed = FALSE
  /\ released = FALSE /\ mute = FALSE /\ refusals = 0
-----------------------------------------------------------------------------
Over == settled # "no" \/ disposed

Fates(P, f) == [p \in Prompt |-> IF p \in P THEN f ELSE fate[p]]

(* _writeTurn that succeeds: one result is armed for the turn.             *)
Deliver(text) ==
  /\ turns' = Append(turns, [text |-> text, result |-> "none", counted |-> 0])
  /\ awaiting' = TRUE
  /\ turnEvents' = FALSE
  /\ UNCHANGED <<accepted, folded>>

(* The turn in flight has usage that no result frame has counted.          *)
Unfolded == ~folded /\ awaiting /\ turnEvents

(* _foldInflightTurn.                                                      *)
Fold ==
  /\ folded' = (folded \/ Unfolded)
  /\ turns' = IF Unfolded THEN [turns EXCEPT ![Len(turns)].counted = @ + 1] ELSE turns

(* Mutant of SettleAs: what is still queued is not looked at.              *)
SettleSilently(r) ==
  /\ settled' = IF reason' = "crashed" THEN "crashed" ELSE r
  /\ Fold
  /\ awaiting' = FALSE /\ eofTimer' = FALSE
  /\ UNCHANGED <<turnEvents, accepted, pending, fate>>

(* Mutant of SettleAs: the reason of the caller is final.                  *)
SettleAsAsked(r) ==
  /\ settled' = r
  /\ Fold
  /\ awaiting' = FALSE /\ eofTimer' = FALSE
  /\ pending' = <<>>
  /\ fate' = Fates(ToSet(pending), "dropped")
  /\ UNCHANGED <<turnEvents, accepted>>

(* _settle: the prompts that were not sent are reported as such.           *)
SettleAs(r) ==
  /\ settled' = IF reason' = "crashed" THEN "crashed" ELSE r
  /\ Fold
  /\ awaiting' = FALSE /\ eofTimer' = FALSE
  /\ pending' = <<>>
  /\ fate' = Fates(ToSet(pending), "dropped")
  /\ UNCHANGED <<turnEvents, accepted>>

(* SIGTERM, once, and a timer that remembers the reason.                   *)
Sigterm(r) ==
  /\ signal' = IF signal = "none" THEN "SIGTERM" ELSE signal
  /\ asked' = IF signal = "none" THEN r ELSE asked

(* _terminateChildTree of a process.                                       *)
Signal(r) ==
  /\ finalizing' = TRUE
  /\ reason' = IF reason = "none" THEN r ELSE reason
  /\ Sigterm(r)
  /\ UNCHANGED <<settled, disposed>>

(* Without a process to wait for, the session settles in the same call.    *)
SettleNow(r) ==
  /\ finalizing' = TRUE
  /\ reason' = IF reason = "none" THEN r ELSE reason
  /\ SettleAs(r)
  /\ UNCHANGED <<signal, asked, disposed>>

Terminate(r) ==
  \/ /\ child = "alive" /\ Signal(r)
     /\ UNCHANGED <<promptVars, turnVars, eofTimer>>
  \/ child # "alive" /\ SettleNow(r)
-----------------------------------------------------------------------------
(* start: the spawn may throw, or yield a child without a process; the     *)
(* first write may fail.                                                   *)
Start ==
  /\ child = "none" /\ settled = "no"
  /\ \/ /\ settled' = "crashed"
        /\ fate' = Fates({First}, "refused")
        /\ UNCHANGED <<child, pending, turnVars, finalizing, reason, signal, asked, eofTimer, disposed>>
     \/ /\ child' \in {"alive", "nopid"}
        /\ Deliver(First)
        /\ fate' = Fates({First}, "delivered")
        /\ UNCHANGED <<pending, endVars>>
     \/ /\ child' = "alive"
        /\ Signal("crashed")
        /\ fate' = Fates({First}, "refused")
        /\ UNCHANGED <<pending, turnVars, eofTimer>>
  /\ UNCHANGED <<taskVars, envVars, micro>>

(* A failed write: refused, and the transport is gone.                     *)
Undelivered(p) ==
  /\ finalizing' = TRUE
  /\ reason' = IF reason = "none" THEN "crashed" ELSE reason
  /\ UNCHANGED <<turnEvents, accepted, disposed>>
  /\ \/ /\ child = "alive"
        /\ Sigterm("crashed")
        /\ fate' = Fates({p}, "refused")
        /\ UNCHANGED <<pending, turns, awaiting, folded, eofTimer, settled>>
     \/ /\ child # "alive"
        /\ settled' = "crashed"
        /\ Fold
        /\ awaiting' = FALSE /\ eofTimer' = FALSE
        /\ pending' = <<>>
        /\ fate' = [Fates(ToSet(pending), "dropped") EXCEPT ![p] = "refused"]
        /\ UNCHANGED <<signal, asked>>

(* send.                                                                   *)
Send(p) ==
  /\ micro = "none" /\ child # "none"
  /\ fate[p] = "new"
  /\ \/ /\ Over \/ finalizing
        /\ fate' = Fates({p}, "refused")
        /\ UNCHANGED <<pending, turnVars, endVars>>
     \/ /\ ~Over /\ ~finalizing /\ awaiting
        /\ pending' = Append(pending, p)
        /\ fate' = Fates({p}, "queued")
        /\ UNCHANGED <<turnVars, endVars>>
     \/ /\ ~Over /\ ~finalizing /\ ~awaiting
        /\ \/ Deliver(p) /\ fate' = Fates({p}, "delivered") /\ UNCHANGED <<pending, endVars>>
           \/ Undelivered(p)
  /\ UNCHANGED <<taskVars, envVars, child, micro>>

(* finalize, by a human or by the cancellation of the job.                 *)
Finalize ==
  /\ micro = "none" /\ child # "none"
  /\ ~finalizing /\ settled = "no"
  /\ released' = TRUE
  /\ Terminate("finalized")
  /\ UNCHANGED <<taskVars, child, micro, settleMode, checkpoint, mute, refusals>>

(* abort, by the timeout or the cancellation of the step the session is.   *)
Abort ==
  /\ micro = "none" /\ child # "none"
  /\ ~finalizing /\ ~Over
  /\ Terminate("crashed")
  /\ UNCHANGED <<taskVars, envVars, child, micro>>
-----------------------------------------------------------------------------
(* Lines of output.                                                        *)
Listening == child = "alive" /\ ~Over /\ ~mute

(* _failStopPersistence: a session without durable rows is stopped.        *)
FailStop == Signal("crashed") /\ UNCHANGED eofTimer

(* A frame or a line that ends no turn; its row, or its checkpoint, fails. *)
WorkLine ==
  /\ Listening
  /\ turnEvents' = TRUE
  /\ UNCHANGED endVars \/ FailStop
  /\ UNCHANGED <<awaiting, accepted, folded, turns, promptVars, taskVars, envVars, child, micro>>

(* _trackBackgroundTasks.                                                  *)
TasksLine(tasks) ==
  /\ Listening
  /\ live' = tasks
  /\ handoffs' = IF tasks THEN handoffs ELSE 0
  /\ turnEvents' = TRUE
  /\ UNCHANGED endVars \/ FailStop
  /\ UNCHANGED <<awaiting, accepted, folded, turns, promptVars, collections, envVars,
                 child, micro>>

(* Mutants of Dropped: a notice ends the turn; a frame that was accepted   *)
(* is accepted again.                                                      *)
DroppedUnlessAwaited(t, kind) == ~awaiting \/ t \in accepted
DroppedUnlessArmed(t, kind) == ~awaiting \/ kind = "notice"

(* A result frame with no turn to end, or of a notice the CLI gave itself, *)
(* or accepted before, is dropped before it leaves a row.                  *)
Dropped(t, kind) == ~awaiting \/ kind = "notice" \/ t \in accepted

(* The frame of turn t, the first time or again.                           *)
Answered(t, kind) ==
  [turns EXCEPT ![t].result = IF @ = "none" /\ kind # "notice" THEN kind ELSE @]

(* _onTurnResult: the usage in the frame is added to the totals.           *)
TurnEnded(t, kind) ==
  /\ accepted' = accepted \cup {t}
  /\ awaiting' = FALSE
  /\ turns' = [Answered(t, kind) EXCEPT ![t].counted = @ + 1]
  /\ UNCHANGED folded

(* The child answers the turn it was given, or sends an earlier frame; the *)
(* row of the frame may fail, or the checkpoint of its usage.              *)
Result(t, kind) ==
  /\ Listening
  /\ kind = "notice" \/ turns[t].result = kind \/ (t = Len(turns) /\ turns[t].result = "none")
  /\ ~Dropped(t, kind)
  /\ turnEvents' = TRUE
  /\ \/ /\ turns' = Answered(t, kind)
        /\ FailStop
        /\ UNCHANGED <<awaiting, accepted, folded, micro>>
     \/ /\ TurnEnded(t, kind)
        /\ checkpoint
        /\ FailStop
        /\ UNCHANGED micro
     \/ /\ TurnEnded(t, kind)
        /\ kind = "error"
        /\ finalizing' = TRUE /\ reason' = "crashed" /\ Sigterm("crashed")
        /\ UNCHANGED <<eofTimer, settled, disposed, micro>>
     \/ /\ TurnEnded(t, kind)
        /\ kind # "error"
        /\ micro' = IF finalizing THEN micro
                    ELSE IF pending # <<>> THEN "feed"
                    ELSE IF settleMode = "auto" THEN "quiesce" ELSE micro
        /\ UNCHANGED endVars
  /\ UNCHANGED <<promptVars, taskVars, envVars, child>>
-----------------------------------------------------------------------------
(* Microtasks.                                                             *)
Feed ==
  /\ micro = "feed"
  /\ micro' = "none"
  /\ IF Over \/ finalizing \/ awaiting \/ pending = <<>>
     THEN UNCHANGED <<promptVars, turnVars, endVars>>
     ELSE /\ pending' = Tail(pending)
          /\ \/ /\ Deliver(Head(pending))
                /\ fate' = Fates({Head(pending)}, "delivered")
                /\ UNCHANGED endVars
             \/ /\ fate' = Fates({Head(pending)}, "dropped")
                /\ Signal("crashed")
                /\ UNCHANGED <<turnVars, eofTimer>>
  /\ UNCHANGED <<taskVars, envVars, child>>

MayCollect == handoffs < MaxHandoffs /\ collections < MaxCollections

(* _continueBackgroundWork: ask again, or give up.                         *)
ContinueBackgroundWork ==
  \/ /\ MayCollect
     /\ handoffs' = handoffs + 1
     /\ collections' = collections + 1
     /\ \/ Deliver(Collect) /\ UNCHANGED endVars
        \/ Signal("crashed") /\ UNCHANGED <<turnVars, eofTimer>>
  \/ /\ ~MayCollect
     /\ Signal("crashed")
     /\ UNCHANGED <<turnVars, eofTimer, handoffs, collections>>

(* Mutant of FinalizeQuiescent: nobody watches the child after the EOF.    *)
FinalizeUnwatched ==
  /\ finalizing' = TRUE
  /\ UNCHANGED <<reason, signal, asked, eofTimer, settled, disposed>>

(* _finalizeQuiescent: the end of stdin lets the child flush and exit.     *)
FinalizeQuiescent ==
  \/ /\ finalizing' = TRUE
     /\ eofTimer' = TRUE
     /\ UNCHANGED <<reason, signal, asked, settled, disposed>>
  \/ Signal("finalized") /\ UNCHANGED eofTimer

WorkersDone == ~live

Quiesce ==
  /\ micro = "quiesce"
  /\ micro' = "none"
  /\ \/ /\ Over \/ finalizing \/ awaiting \/ pending # <<>>
        /\ UNCHANGED <<turnVars, endVars, handoffs, collections>>
     \/ /\ ~Over /\ ~finalizing /\ ~awaiting /\ pending = <<>>
        /\ IF WorkersDone
           THEN FinalizeQuiescent /\ UNCHANGED <<turnVars, handoffs, collections>>
           ELSE ContinueBackgroundWork
  /\ UNCHANGED <<promptVars, live, envVars, child>>
-----------------------------------------------------------------------------
(* Timers and events of the process.                                       *)
ZombieTimeout == settleMode = "auto" /\ Abort

EofTimeout ==
  /\ micro = "none" /\ eofTimer
  /\ eofTimer' = FALSE
  /\ Signal("finalized")
  /\ UNCHANGED <<promptVars, turnVars, taskVars, envVars, child, micro>>

Expired == micro = "none" /\ signal = "SIGTERM" /\ child = "alive" /\ settled = "no"

(* The grace of the SIGTERM is over: SIGKILL, and the owner is released.   *)
KillTimeout ==
  /\ Expired
  /\ signal' = "SIGKILL"
  /\ reason' = reason
  /\ IF disposed THEN UNCHANGED <<promptVars, turnVars, eofTimer, settled>> ELSE SettleAs(asked)
  /\ UNCHANGED <<taskVars, envVars, child, micro, finalizing, asked, disposed>>

StdinError ==
  /\ micro = "none" /\ child \in {"alive", "nopid"} /\ ~Over
  /\ Terminate(IF finalizing THEN "finalized" ELSE "crashed")
  /\ UNCHANGED <<taskVars, envVars, child, micro>>

(* The child has exited and its output is read.                            *)
Close ==
  /\ micro = "none" /\ child \in {"alive", "nopid"}
  /\ child' = "closed"
  /\ reason' = reason
  /\ IF Over
     THEN UNCHANGED <<promptVars, turnVars, settled>> /\ eofTimer' = FALSE
     ELSE SettleAs(IF reason # "none" THEN reason
                   ELSE IF finalizing THEN "finalized" ELSE "crashed")
  /\ UNCHANGED <<taskVars, envVars, micro, finalizing, signal, asked, disposed>>

(* snapshotForAbort, and dispose in the same call of the owner's shutdown. *)
Dispose ==
  /\ micro = "none" /\ child # "none" /\ ~Over
  /\ Fold
  /\ disposed' = TRUE /\ eofTimer' = FALSE /\ finalizing' = TRUE
  /\ IF child = "alive" THEN Sigterm("none") ELSE UNCHANGED <<signal, asked>>
  /\ UNCHANGED <<promptVars, awaiting, turnEvents, accepted, taskVars, envVars, child,
                 micro, reason, settled>>

(* snapshotForAbort in a shutdown that cannot stage the job and returns:   *)
(* the session goes on.                                                    *)
SnapshotRefused ==
  /\ micro = "none" /\ child # "none" /\ ~Over
  /\ refusals < MaxRefusals
  /\ refusals' = refusals + 1
  /\ Fold
  /\ UNCHANGED <<promptVars, awaiting, turnEvents, accepted, taskVars, endVars, settleMode, checkpoint,
                 released, mute, child, micro>>

Mute ==
  /\ child = "alive" /\ ~mute
  /\ mute' = TRUE
  /\ UNCHANGED <<promptVars, turnVars, taskVars, endVars, settleMode, checkpoint, released, refusals,
                 child, micro>>

Next ==
  \/ Start \/ Finalize \/ Abort \/ Feed \/ Quiesce
  \/ \E p \in Prompt : Send(p)
  \/ WorkLine \/ \E tasks \in BOOLEAN : TasksLine(tasks)
  \/ \E t \in DOMAIN turns, kind \in {"ok", "error", "notice"} : Result(t, kind)
  \/ EofTimeout \/ KillTimeout \/ StdinError \/ Close
  \/ Dispose \/ SnapshotRefused \/ Mute

Spec == Init /\ [][Next]_vars

(* The event loop runs microtasks and timers.  A child that has a turn     *)
(* answers, falls silent or exits, and one that was never there is         *)
(* reported as closed; it need not react to the end of its stdin or to any *)
(* signal.  The inactivity timer is due for a silent child only.           *)
ChildMoves ==
  /\ ~mute /\ awaiting
  /\ Mute \/ Close \/ \E t \in DOMAIN turns : t = Len(turns) /\ Result(t, "ok")

Fairness ==
  /\ WF_vars(Feed) /\ WF_vars(Quiesce)
  /\ WF_vars(EofTimeout) /\ WF_vars(KillTimeout)
  /\ WF_vars(ChildMoves)
  /\ WF_vars(child = "nopid" /\ Close)
  /\ WF_vars(mute /\ ZombieTimeout)

FairSpec == Spec /\ Fairness
-----------------------------------------------------------------------------
(* Every turn that reached the child is in the totals once: by its result  *)
(* frame or by the fold of the turn in flight, whatever ends the session,  *)
(* and whatever the child repeats ("Every turn's REAL token usage is       *)
(* summed", interactive-job-session.ts:22).  A shutdown that took a        *)
(* snapshot and was refused may cost one turn more and one less.           *)
CountedOnce ==
  /\ \A i \in DOMAIN turns : turns[i].counted <= 1 + refusals
  /\ refusals = 0 => \A i \in DOMAIN turns :
       Over /\ (i < Len(turns) \/ turnEvents) => turns[i].counted = 1

(* What the comment says, without the exception: see the known departures  *)
(* in the README.                                                          *)
CountedNeverTwice == \A i \in DOMAIN turns : turns[i].counted <= 1

(* A session that settles itself as finalized has had a result for every   *)
(* turn and left no prompt behind: neither a notice of the CLI nor a       *)
(* follow-up sent at the wrong moment ends it early.                       *)
QuietSettlement ==
  settleMode = "auto" /\ settled = "finalized" /\ ~released =>
    /\ \A i \in DOMAIN turns : turns[i].result = "ok"
    /\ \A p \in Prompt : fate[p] # "dropped"

(* A turn that ended with a provider error makes the session a crashed     *)
(* one, even when it was being finalized ("A terminal error received       *)
(* during graceful teardown overrides an earlier finalize request").  The  *)
(* loop engine looks at the error flag of the last result instead.         *)
FailureNotMasked ==
  settled = "finalized" /\ ~checkpoint => \A i \in accepted : turns[i].result # "error"

(* The slot of the job is not given away on a mere SIGTERM.                *)
SlotHeldUntilKilled == settled # "no" /\ child = "alive" => signal = "SIGKILL"

(* No session of its own accord begins to finish while the workers of its  *)
(* child are live ("never a reason to complete an automatic step").        *)
NeverQuietOverWorkers ==
  [][~finalizing /\ finalizing' /\ ~released' /\ ~disposed' /\ reason' # "crashed"
      => ~live']_vars

Delivery == INSTANCE PromptDelivery WITH
  over <- IF disposed THEN "gone" ELSE IF settled # "no" THEN "settled" ELSE "open"

(* Prompts are refused, queued, delivered in order or reported.            *)
ImplementsDelivery == Delivery!Spec

(* A session in mode auto ends, though its child answers with unfinished   *)
(* workers, hangs, ignores the end of its input or survives a signal.      *)
AutoSettles == settleMode = "auto" /\ child # "none" ~> Over

(* Whoever ends a session, in whatever mode, has its owner released or its *)
(* child killed.                                                           *)
TeardownCompletes ==
  finalizing ~> settled # "no" \/ (disposed /\ (child # "alive" \/ signal = "SIGKILL"))

(* The state is well formed, a session that ended quietly owes nothing, and *)
(* its slot is not given away over a child that was not killed.             *)
Consistent == TypeOK /\ QuietSettlement /\ SlotHeldUntilKilled

(* A session ends when it should: by itself in mode auto, but not over the  *)
(* workers of its child, and whenever it is torn down.                      *)
Ends == AutoSettles /\ TeardownCompletes /\ NeverQuietOverWorkers
=============================================================================
