---------------------------- MODULE JobLifecycle ----------------------------
(***************************************************************************)
(* What a project's queue promises about one job, whatever happens to the  *)
(* server process: it is started at most once and only after the job it    *)
(* depends on has completed (or has been deleted from the history), it     *)
(* ends at most once, it is skipped only on account of a parent that ended *)
(* badly, and its outcome is reported only once it has one.  QueueManager  *)
(* implements it.                                                          *)
(***************************************************************************)
CONSTANTS
  Job,    \* job ids
  NoJob,  \* no dependency
  Dep     \* Dep[j]: the job j depends on, or NoJob

VARIABLES
  phase,    \* phase[j]: "new", "waiting", "running", or the outcome of j
  reported, \* jobs whose outcome has been reported to the project
  archived  \* jobs that were deleted from the history after their end

vars == <<phase, reported, archived>>

Outcome == {"completed", "failed", "canceled", "zombie_terminated", "skipped"}

Ended == {j \in Job : phase[j] \in Outcome}

TypeOK ==
  /\ phase \in [Job -> {"new", "waiting", "running"} \cup Outcome]
  /\ reported \subseteq Ended
  /\ archived \subseteq Ended

Init ==
  /\ phase = [j \in Job |-> "new"]
  /\ reported = {}
  /\ archived = {}

(* The caller of enqueue has been answered.                                *)
Admit(j) ==
  /\ phase[j] = "new"
  /\ phase' = [phase EXCEPT ![j] = "waiting"]
  /\ UNCHANGED <<reported, archived>>

(* The job leaves the durable queue to be executed.                        *)
Start(j) ==
  /\ phase[j] = "waiting"
  /\ Dep[j] # NoJob => phase[Dep[j]] = "completed" \/ Dep[j] \in archived
  /\ phase' = [phase EXCEPT ![j] = "running"]
  /\ UNCHANGED <<reported, archived>>

(* A move of one job towards its end.                                      *)
MayEnd(j) ==
  \/ phase'[j] = phase[j]
  \/ phase[j] = "running" /\ phase'[j] \in Outcome \ {"skipped"}
  \/ phase[j] = "waiting" /\ phase'[j] \in {"failed", "canceled"}
  \/ /\ phase[j] = "waiting" /\ phase'[j] = "skipped"
     /\ Dep[j] # NoJob /\ phase'[Dep[j]] \in Outcome \ {"completed"}

(* Jobs end, and outcomes are reported, possibly several in one step.      *)
EndOrReport ==
  /\ phase' \in [Job -> {"new", "waiting", "running"} \cup Outcome]
  /\ \A j \in Job : MayEnd(j)
  /\ reported \subseteq reported'
  /\ \A j \in reported' : j \in Job /\ phase'[j] \in Outcome
  /\ UNCHANGED archived

Archive(j) ==
  /\ phase[j] \in Outcome
  /\ archived' = archived \cup {j}
  /\ UNCHANGED <<phase, reported>>

Next == EndOrReport \/ \E j \in Job : Admit(j) \/ Start(j) \/ Archive(j)

Spec == Init /\ [][Next]_vars
=============================================================================
