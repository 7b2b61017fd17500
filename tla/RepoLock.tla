------------------------------ MODULE RepoLock ------------------------------
(***************************************************************************)
(* src/server/repo-lock.ts: the process-local mutex over canonical Git     *)
(* common directories.  A key is locked by chaining promises: `chains`     *)
(* remembers the settlement promise of the last call on a key, a new call  *)
(* runs when that promise has settled, and the map entry is deleted when   *)
(* the promise that settles is still the last one.  withRepoLocks takes    *)
(* several keys, one inside the other, in sorted order.                    *)
(*                                                                         *)
(* A call is an element of Call and is made at most once: every call of    *)
(* the code creates promises of its own.  A rejected fn settles the chain  *)
(* as a resolved one does, so Finish stands for both.                      *)
(***************************************************************************)
EXTENDS Naturals

CONSTANTS
  Call,    \* invocations of withRepoLocks
  Key,     \* canonical common directories, named by their rank in the sort
  NoCall   \* the value of `previous` and of a missing entry of `chains`

ASSUME KeyAssumption == Key \subseteq Nat
ASSUME NoCallAssumption == NoCall \notin Call

VARIABLES
  keys,     \* keys[c]: the distinct keys call c was made with
  phase,    \* phase[c]: where call c is
  joined,   \* joined[k]: the calls that have chained a promise on k
  granted,  \* granted[k]: the calls whose fn has been entered on k
  settled,  \* settled[k]: the calls whose promise on k has settled
  chains,   \* chains[k]: the last call chained on k, or NoCall
  previous, \* previous[k][c]: the call whose promise c waits for on k
  earlier   \* history: earlier[k][c], the calls chained on k before c

vars == <<keys, phase, joined, granted, settled, chains, previous, earlier>>

Phases == {"new", "waiting", "inside", "leaving", "done"}

Types ==
  /\ keys \in [Call -> SUBSET Key]
  /\ phase \in [Call -> Phases]
  /\ joined \in [Key -> SUBSET Call]
  /\ granted \in [Key -> SUBSET Call]
  /\ settled \in [Key -> SUBSET Call]
  /\ chains \in [Key -> Call \cup {NoCall}]
  /\ previous \in [Key -> [Call -> Call \cup {NoCall}]]
  /\ earlier \in [Key -> [Call -> SUBSET Call]]

(* A promise settles only after its turn, and has a turn only once chained. *)
TypeOK ==
  /\ Types
  /\ \A k \in Key : settled[k] \subseteq granted[k] /\ granted[k] \subseteq joined[k]

Init ==
  /\ keys = [c \in Call |-> {}]
  /\ phase = [c \in Call |-> "new"]
  /\ joined = [k \in Key |-> {}]
  /\ granted = [k \in Key |-> {}]
  /\ settled = [k \in Key |-> {}]
  /\ chains = [k \in Key |-> NoCall]
  /\ previous = [k \in Key |-> [c \in Call |-> NoCall]]
  /\ earlier = [k \in Key |-> [c \in Call |-> {}]]
-----------------------------------------------------------------------------
(* withKeyLock up to its return: chain a promise behind the current last.  *)
Chain(c, k) ==
  /\ joined' = [joined EXCEPT ![k] = @ \cup {c}]
  /\ previous' = [previous EXCEPT ![k][c] = chains[k]]
  /\ chains' = [chains EXCEPT ![k] = c]
  /\ earlier' = [earlier EXCEPT ![k][c] = joined[k]]

(* Mutant: the keys are taken in the order the caller listed them.         *)
UnsortedIsNext(k, S) == k \in S

(* The key that enter(index) requests: the least of the keys after `held`. *)
IsNext(k, S) == k \in S /\ \A j \in S : k <= j

(* withRepoLocks: dedupe and sort the keys, enter(0).                      *)
Begin(c, S) ==
  /\ phase[c] = "new"
  /\ keys' = [keys EXCEPT ![c] = S]
  /\ \/ /\ S = {}
        /\ phase' = [phase EXCEPT ![c] = "inside"]
        /\ UNCHANGED <<joined, chains, previous, earlier>>
     \/ \E k \in S :
          /\ IsNext(k, S)
          /\ Chain(c, k)
          /\ phase' = [phase EXCEPT ![c] = "waiting"]
  /\ UNCHANGED <<granted, settled>>

Unrequested(c) == {k \in keys[c] : c \notin joined[k]}

(* The turn of c on k: its callback requests the next key, or runs fn.     *)
Turn(c, k) ==
  /\ c \in joined[k] \ granted[k]
  /\ previous[k][c] = NoCall \/ previous[k][c] \in settled[k]
  /\ granted' = [granted EXCEPT ![k] = @ \cup {c}]
  /\ \/ /\ Unrequested(c) = {}
        /\ phase' = [phase EXCEPT ![c] = "inside"]
        /\ UNCHANGED <<joined, chains, previous, earlier>>
     \/ \E j \in Unrequested(c) :
          /\ IsNext(j, Unrequested(c))
          /\ Chain(c, j)
          /\ UNCHANGED phase
  /\ UNCHANGED <<keys, settled>>

(* fn settles, whichever way.                                              *)
Finish(c) ==
  /\ phase[c] = "inside"
  /\ phase' = [phase EXCEPT ![c] = IF keys[c] = {} THEN "done" ELSE "leaving"]
  /\ UNCHANGED <<keys, joined, granted, settled, chains, previous, earlier>>

Held(c) == {k \in keys[c] : c \in granted[k] \ settled[k]}

(* The promise of c on its innermost key settles; then the outer ones do.  *)
Settle(c, k) ==
  /\ phase[c] = "leaving"
  /\ k \in Held(c)
  /\ \A j \in Held(c) : j <= k
  /\ settled' = [settled EXCEPT ![k] = @ \cup {c}]
  /\ phase' = [phase EXCEPT ![c] = IF Held(c) = {k} THEN "done" ELSE @]
  /\ UNCHANGED <<keys, joined, granted, chains, previous, earlier>>

(* Mutant: the cleanup deletes whatever promise the map holds.             *)
ForgetAny(c, k) ==
  /\ c \in settled[k]
  /\ chains[k] # NoCall
  /\ chains' = [chains EXCEPT ![k] = NoCall]
  /\ UNCHANGED <<keys, phase, joined, granted, settled, previous, earlier>>

(* The cleanup microtask of a settled promise: delete the map entry only   *)
(* if it is still this promise.                                            *)
Forget(c, k) ==
  /\ c \in settled[k]
  /\ chains[k] = c
  /\ chains' = [chains EXCEPT ![k] = NoCall]
  /\ UNCHANGED <<keys, phase, joined, granted, settled, previous, earlier>>

(* Every call is done: the process simply has no more work.                *)
AllDone ==
  /\ \A c \in Call : phase[c] = "done"
  /\ \A k \in Key : chains[k] = NoCall
  /\ UNCHANGED vars

Next ==
  \/ \E c \in Call, S \in SUBSET Key : Begin(c, S)
  \/ \E c \in Call, k \in Key : Turn(c, k) \/ Settle(c, k) \/ Forget(c, k)
  \/ \E c \in Call : Finish(c)
  \/ AllDone

(* The event loop runs every ready promise callback, and the functions run *)
(* under the locks settle (Git commands with time limits).                 *)
Fairness ==
  \A c \in Call :
    /\ WF_vars(Finish(c))
    /\ \A k \in Key :
         WF_vars(Turn(c, k)) /\ WF_vars(Settle(c, k)) /\ WF_vars(Forget(c, k))

Spec == Init /\ [][Next]_vars /\ Fairness
-----------------------------------------------------------------------------
(* Two functions that name a common repository, through whatever worktree  *)
(* or symlink, never run at the same time ("Process-local mutex over the   *)
(* canonical Git common directory").                                       *)
Exclusion ==
  \A c, d \in Call :
    /\ c # d
    /\ phase[c] = "inside"
    /\ phase[d] = "inside"
    => keys[c] \cap keys[d] = {}

(* A key is granted in the order in which the calls were chained on it,    *)
(* and only when every earlier call has let it go, even though the map     *)
(* entry is deleted and recreated in between.                              *)
FirstComeFirstServed ==
  \A k \in Key : \A c \in granted[k] : earlier[k][c] \subseteq settled[k]

(* A call with any set of keys, in any interleaving with the others, runs  *)
(* and releases everything: the sorted acquisition excludes a cycle.       *)
EveryCallCompletes == \A c \in Call : phase[c] # "new" ~> phase[c] = "done"
=============================================================================
