--------------------------- MODULE PromptDelivery ---------------------------
(***************************************************************************)
(* What a resident session promises about the prompts a user sends to it:  *)
(* a prompt is refused at once or taken, prompts that wait are delivered   *)
(* in the order they were taken, each at most once, and a session that     *)
(* settles has told the user of every prompt it will not deliver.          *)
(* InteractiveSession implements it.                                       *)
(***************************************************************************)
EXTENDS Sequences, SequencesExt

CONSTANT Prompt

VARIABLES
  fate,    \* fate[p]: "new", "refused", "queued", "delivered" or "dropped"
  pending, \* the queued prompts, oldest first
  over     \* "open", "settled", or "gone" with the project it belongs to

vars == <<fate, pending, over>>

Init ==
  /\ fate = [p \in Prompt |-> "new"]
  /\ pending = <<>>
  /\ over = "open"

Settled == over' = "settled" /\ pending' = <<>>

(* The prompt is answered for at once; a failed delivery may end it all.   *)
Take(p) ==
  /\ fate[p] = "new"
  /\ \/ /\ over = "open" /\ pending = <<>>
        /\ fate' = [fate EXCEPT ![p] = "delivered"]
        /\ UNCHANGED <<pending, over>>
     \/ /\ over = "open"
        /\ fate' = [fate EXCEPT ![p] = "queued"]
        /\ pending' = Append(pending, p)
        /\ UNCHANGED over
     \/ /\ fate' = [fate EXCEPT ![p] = "refused"]
        /\ UNCHANGED <<pending, over>> \/ (pending = <<>> /\ Settled)

(* The oldest waiting prompt is delivered, or its delivery fails.          *)
Feed ==
  /\ over = "open" /\ pending # <<>>
  /\ \E f \in {"delivered", "dropped"} : fate' = [fate EXCEPT ![Head(pending)] = f]
  /\ pending' = Tail(pending)
  /\ UNCHANGED over

(* Nothing waits on a settled session.                                     *)
Settle ==
  /\ over = "open"
  /\ fate' = [p \in Prompt |-> IF fate[p] = "queued" THEN "dropped" ELSE fate[p]]
  /\ Settled

(* The project is removed, and its session with it.                        *)
Vanish == over = "open" /\ over' = "gone" /\ UNCHANGED <<fate, pending>>

Next == (\E p \in Prompt : Take(p)) \/ Feed \/ Settle \/ Vanish

Spec == Init /\ [][Next]_vars
=============================================================================
