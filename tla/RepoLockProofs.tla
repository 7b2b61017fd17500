--------------------------- MODULE RepoLockProofs ---------------------------
(***************************************************************************)
(* Proofs about RepoLock for every set of calls and of keys.  KeyInv says  *)
(* that the promise chain of a key is a queue: the calls on it are totally *)
(* ordered by arrival, a call waits for the one just before it, and the    *)
(* map entry is missing only when everything on the chain has settled.     *)
(* CallInv says that a call waits on at most one key, and is inside only   *)
(* when all its keys have been granted.                                    *)
(***************************************************************************)
EXTENDS RepoLock, TLAPS

KeyInv(k) ==
  /\ settled[k] \subseteq granted[k]
  /\ granted[k] \subseteq joined[k]
  /\ \A c \in joined[k] : c \notin earlier[k][c] /\ earlier[k][c] \subseteq joined[k]
  /\ \A c, d \in joined[k] :
       c # d => c \in earlier[k][d] \/ d \in earlier[k][c]
  /\ chains[k] = NoCall => joined[k] \subseteq settled[k]
  /\ chains[k] # NoCall =>
       /\ chains[k] \in joined[k]
       /\ joined[k] \subseteq earlier[k][chains[k]] \cup {chains[k]}
  /\ \A c \in joined[k] :
       /\ previous[k][c] = NoCall => earlier[k][c] \subseteq settled[k]
       /\ previous[k][c] # NoCall =>
            /\ previous[k][c] \in joined[k]
            /\ earlier[k][c] \subseteq
                 earlier[k][previous[k][c]] \cup {previous[k][c]}
  /\ \A c \in granted[k] : earlier[k][c] \subseteq settled[k]

CallInv(c) ==
  /\ \A k \in Key :
       /\ c \in joined[k] => k \in keys[c] /\ phase[c] # "new"
       /\ c \in joined[k] \ granted[k] => phase[c] = "waiting"
       /\ c \in settled[k] => phase[c] \in {"leaving", "done"}
  /\ \A j, k \in Key :
       c \in joined[j] \ granted[j] /\ c \in joined[k] \ granted[k] => j = k
  /\ phase[c] = "inside" => \A k \in keys[c] : c \in granted[k]

IInv ==
  /\ Types
  /\ \A k \in Key : KeyInv(k)
  /\ \A c \in Call : CallInv(c)

LEMMA ChainType ==
  ASSUME Types, NEW c \in Call, NEW k \in Key, Chain(c, k)
  PROVE  /\ joined' \in [Key -> SUBSET Call]
         /\ chains' \in [Key -> Call \cup {NoCall}]
         /\ previous' \in [Key -> [Call -> Call \cup {NoCall}]]
         /\ earlier' \in [Key -> [Call -> SUBSET Call]]
<1>1. joined' \in [Key -> SUBSET Call] /\ chains' \in [Key -> Call \cup {NoCall}]
  BY DEF Types, Chain
<1>2. [previous[k] EXCEPT ![c] = chains[k]] \in [Call -> Call \cup {NoCall}]
  BY DEF Types
<1>3. previous' \in [Key -> [Call -> Call \cup {NoCall}]]
  BY <1>2 DEF Types, Chain
<1>4. [earlier[k] EXCEPT ![c] = joined[k]] \in [Call -> SUBSET Call]
  BY DEF Types
<1>5. earlier' \in [Key -> [Call -> SUBSET Call]]
  BY <1>4 DEF Types, Chain
<1> QED
  BY <1>1, <1>3, <1>5

(* Chaining a new promise keeps the chain of the key a queue.              *)
LEMMA ChainKeepsQueue ==
  ASSUME Types, NEW c \in Call, NEW k \in Key, KeyInv(k), c \notin joined[k],
         Chain(c, k), granted'[k] = granted[k], settled'[k] = settled[k]
  PROVE  KeyInv(k)'
<1>1. /\ joined'[k] = joined[k] \cup {c}
      /\ chains'[k] = c
      /\ previous'[k][c] = chains[k]
      /\ \A d \in joined[k] : previous'[k][d] = previous[k][d]
      /\ earlier'[k][c] = joined[k]
      /\ \A d \in joined[k] : earlier'[k][d] = earlier[k][d]
  BY DEF Chain, Types
<1>2. c # NoCall
  BY NoCallAssumption
<1> QED
  BY <1>1, <1>2 DEF KeyInv, Types

(* The variables of a key a step does not touch.                           *)
LEMMA KeyInvFrame ==
  ASSUME NEW k \in Key, KeyInv(k),
         joined'[k] = joined[k], granted'[k] = granted[k],
         settled'[k] = settled[k], chains'[k] = chains[k],
         previous'[k] = previous[k], earlier'[k] = earlier[k]
  PROVE  KeyInv(k)'
BY DEF KeyInv

(* The next call in line is granted: everything before it has settled.     *)
LEMMA GrantKeepsQueue ==
  ASSUME Types, NEW c \in Call, NEW k \in Key, KeyInv(k), c \in joined[k],
         previous[k][c] = NoCall \/ previous[k][c] \in settled[k],
         granted'[k] = granted[k] \cup {c},
         joined'[k] = joined[k], settled'[k] = settled[k], chains'[k] = chains[k],
         previous'[k] = previous[k], earlier'[k] = earlier[k]
  PROVE  KeyInv(k)'
<1>1. earlier[k][c] \subseteq settled[k]
  <2>1. CASE previous[k][c] = NoCall
    BY <2>1 DEF KeyInv
  <2>2. CASE previous[k][c] # NoCall
    <3>1. previous[k][c] \in settled[k] /\ previous[k][c] \in granted[k]
      BY <2>2 DEF KeyInv
    <3>2. earlier[k][previous[k][c]] \subseteq settled[k]
      BY <3>1 DEF KeyInv
    <3> QED
      BY <2>2, <3>1, <3>2 DEF KeyInv
  <2> QED
    BY <2>1, <2>2
<1> QED
  BY <1>1 DEF KeyInv

LEMMA SettleKeepsQueue ==
  ASSUME NEW c \in Call, NEW k \in Key, KeyInv(k), c \in granted[k],
         settled'[k] = settled[k] \cup {c},
         joined'[k] = joined[k], granted'[k] = granted[k], chains'[k] = chains[k],
         previous'[k] = previous[k], earlier'[k] = earlier[k]
  PROVE  KeyInv(k)'
BY DEF KeyInv

LEMMA InitIInv == Init => IInv
BY DEF Init, IInv, Types, KeyInv, CallInv, Phases

LEMMA TypeStep == Types /\ [Next]_vars => Types'
<1> SUFFICES ASSUME Types, [Next]_vars PROVE Types'
  OBVIOUS
<1> USE DEF Types, Phases
<1>1. ASSUME NEW c \in Call, NEW S \in SUBSET Key, Begin(c, S) PROVE Types'
  <2>1. keys' \in [Call -> SUBSET Key] /\ phase' \in [Call -> Phases]
    BY <1>1 DEF Begin
  <2>2. CASE UNCHANGED <<joined, chains, previous, earlier>>
    BY <1>1, <2>1, <2>2 DEF Begin
  <2>3. ASSUME NEW k \in S, Chain(c, k) PROVE Types'
    BY <1>1, <2>1, <2>3, ChainType DEF Begin
  <2> QED
    BY <1>1, <2>2, <2>3 DEF Begin
<1>2. ASSUME NEW c \in Call, NEW k \in Key, Turn(c, k) PROVE Types'
  <2>1. granted' \in [Key -> SUBSET Call] /\ keys' = keys /\ settled' = settled
    BY <1>2 DEF Turn
  <2>2. CASE UNCHANGED <<joined, chains, previous, earlier>> /\ phase' = [phase EXCEPT ![c] = "inside"]
    BY <2>1, <2>2
  <2>3. ASSUME NEW j \in Unrequested(c), Chain(c, j), phase' = phase PROVE Types'
    BY <2>1, <2>3, ChainType DEF Unrequested
  <2> QED
    BY <1>2, <2>2, <2>3 DEF Turn
<1>3. ASSUME NEW c \in Call, NEW k \in Key, Settle(c, k) PROVE Types'
  BY <1>3 DEF Settle
<1>4. ASSUME NEW c \in Call, NEW k \in Key, Forget(c, k) PROVE Types'
  BY <1>4 DEF Forget
<1>5. ASSUME NEW c \in Call, Finish(c) PROVE Types'
  BY <1>5 DEF Finish
<1>6. CASE UNCHANGED vars
  BY <1>6 DEF vars
<1> QED
  BY <1>1, <1>2, <1>3, <1>4, <1>5, <1>6 DEF Next, AllDone

(* A call that has not been chained on a key it is about to request.       *)
LEMMA BeginStep ==
  ASSUME IInv, Types', NEW c \in Call, NEW S \in SUBSET Key, Begin(c, S)
  PROVE  IInv'
<1>1. \A k \in Key : c \notin joined[k] /\ c \notin granted[k] /\ c \notin settled[k]
  BY DEF Begin, IInv, CallInv, KeyInv
<1>2. CASE UNCHANGED <<joined, chains, previous, earlier>> /\ S = {}
           /\ phase' = [phase EXCEPT ![c] = "inside"]
  BY <1>1, <1>2 DEF Begin, IInv, KeyInv, CallInv, Types
<1>3. ASSUME NEW k \in S, Chain(c, k), phase' = [phase EXCEPT ![c] = "waiting"]
      PROVE  IInv'
  <2>1. \A x \in Key \ {k} :
          /\ joined'[x] = joined[x] /\ chains'[x] = chains[x]
          /\ previous'[x] = previous[x] /\ earlier'[x] = earlier[x]
    BY <1>3 DEF Chain, IInv, Types
  <2>2. UNCHANGED <<granted, settled>>
    BY DEF Begin
  <2>3. \A x \in Key : KeyInv(x)'
    <3> SUFFICES ASSUME NEW x \in Key PROVE KeyInv(x)'
      OBVIOUS
    <3>1. CASE x = k
      BY <1>1, <1>3, <2>2, <3>1, ChainKeepsQueue DEF IInv
    <3>2. CASE x # k
      BY <2>1, <2>2, <3>2, KeyInvFrame DEF IInv
    <3> QED
      BY <3>1, <3>2
  <2>4. \A d \in Call : CallInv(d)'
    <3> SUFFICES ASSUME NEW d \in Call PROVE CallInv(d)'
      OBVIOUS
    <3>1. joined'[k] = joined[k] \cup {c}
      BY <1>3 DEF Chain, IInv, Types
    <3>2. CASE d = c
      <4>1. phase'[c] = "waiting" /\ keys'[c] = S
        BY <1>3 DEF Begin, IInv, Types
      <4>2. \A x \in Key : c \in joined'[x] <=> x = k
        BY <1>1, <2>1, <3>1
      <4>3. \A x \in Key : c \notin granted'[x] /\ c \notin settled'[x]
        BY <1>1, <2>2
      <4> QED
        BY <1>3, <3>2, <4>1, <4>2, <4>3 DEF CallInv
    <3>3. CASE d # c
      <4>1. phase'[d] = phase[d] /\ keys'[d] = keys[d]
        BY <1>3, <3>3 DEF Begin, IInv, Types
      <4>2. \A x \in Key : d \in joined'[x] <=> d \in joined[x]
        BY <2>1, <3>1, <3>3
      <4> QED
        BY <2>2, <4>1, <4>2 DEF IInv, CallInv, Types
    <3> QED
      BY <3>2, <3>3
  <2> QED
    BY <2>3, <2>4 DEF IInv
<1> QED
  BY <1>2, <1>3 DEF Begin

LEMMA TurnStep ==
  ASSUME IInv, Types', NEW c \in Call, NEW k \in Key, Turn(c, k)
  PROVE  IInv'
<1>1. /\ c \in joined[k] /\ c \notin granted[k]
      /\ granted'[k] = granted[k] \cup {c}
      /\ \A x \in Key \ {k} : granted'[x] = granted[x]
      /\ UNCHANGED <<keys, settled>>
  BY DEF Turn, IInv, Types
<1>2. /\ phase[c] = "waiting" /\ k \in keys[c]
      /\ \A j \in Key : c \in joined[j] \ granted[j] => j = k
  BY <1>1 DEF IInv, CallInv
<1>3. previous[k][c] = NoCall \/ previous[k][c] \in settled[k]
  BY DEF Turn
<1>4. CASE UNCHANGED <<joined, chains, previous, earlier>>
           /\ Unrequested(c) = {} /\ phase' = [phase EXCEPT ![c] = "inside"]
  <2>1. \A x \in Key : KeyInv(x)'
    <3> SUFFICES ASSUME NEW x \in Key PROVE KeyInv(x)'
      OBVIOUS
    <3>1. CASE x = k
      BY <1>1, <1>3, <1>4, <3>1, GrantKeepsQueue DEF IInv
    <3>2. CASE x # k
      BY <1>1, <1>4, <3>2, KeyInvFrame DEF IInv
    <3> QED
      BY <3>1, <3>2
  <2>2. \A x \in keys[c] : c \in granted'[x]
    BY <1>1, <1>2, <1>4 DEF Unrequested, IInv, Types
  <2>3. \A d \in Call : CallInv(d)'
    <3> SUFFICES ASSUME NEW d \in Call PROVE CallInv(d)'
      OBVIOUS
    <3>1. CASE d = c
      BY <1>1, <1>2, <1>4, <2>2, <3>1 DEF IInv, CallInv, Types
    <3>2. CASE d # c
      <4>1. phase'[d] = phase[d] /\ \A x \in Key : d \in granted'[x] <=> d \in granted[x]
        BY <1>1, <1>4, <3>2 DEF IInv, Types
      <4> QED
        BY <1>1, <1>4, <4>1 DEF IInv, CallInv, Types
    <3> QED
      BY <3>1, <3>2
  <2> QED
    BY <2>1, <2>3 DEF IInv
<1>5. ASSUME NEW j \in Unrequested(c), Chain(c, j), UNCHANGED phase PROVE IInv'
  <2>1. j \in Key /\ j \in keys[c] /\ c \notin joined[j] /\ j # k
    BY <1>1, <1>5 DEF Unrequested, IInv, Types
  <2>2. \A x \in Key \ {j} :
          /\ joined'[x] = joined[x] /\ chains'[x] = chains[x]
          /\ previous'[x] = previous[x] /\ earlier'[x] = earlier[x]
    BY <1>5, <2>1 DEF Chain, IInv, Types
  <2>3. joined'[j] = joined[j] \cup {c}
    BY <1>5, <2>1 DEF Chain, IInv, Types
  <2>4. \A x \in Key : KeyInv(x)'
    <3> SUFFICES ASSUME NEW x \in Key PROVE KeyInv(x)'
      OBVIOUS
    <3>1. CASE x = j
      BY <1>1, <1>5, <2>1, <3>1, ChainKeepsQueue DEF IInv
    <3>2. CASE x = k
      BY <1>1, <1>3, <2>1, <2>2, <3>2, GrantKeepsQueue DEF IInv
    <3>3. CASE x # j /\ x # k
      BY <1>1, <2>2, <3>3, KeyInvFrame DEF IInv
    <3> QED
      BY <3>1, <3>2, <3>3
  <2>5. \A d \in Call : CallInv(d)'
    <3> SUFFICES ASSUME NEW d \in Call PROVE CallInv(d)'
      OBVIOUS
    <3>1. CASE d = c
      <4>1. \A x \in Key : c \in joined'[x] \ granted'[x] => x = j
        BY <1>1, <1>2, <2>1, <2>2, <2>3
      <4> QED
        BY <1>1, <1>2, <1>5, <2>1, <2>2, <2>3, <3>1, <4>1 DEF IInv, CallInv
    <3>2. CASE d # c
      <4>1. \A x \in Key : d \in joined'[x] <=> d \in joined[x]
        BY <2>2, <2>3, <3>2
      <4>2. \A x \in Key : d \in granted'[x] <=> d \in granted[x]
        BY <1>1, <3>2
      <4> QED
        BY <1>1, <1>5, <4>1, <4>2 DEF IInv, CallInv, Types
    <3> QED
      BY <3>1, <3>2
  <2> QED
    BY <2>4, <2>5 DEF IInv
<1> QED
  BY <1>4, <1>5 DEF Turn

LEMMA SettleStep ==
  ASSUME IInv, Types', NEW c \in Call, NEW k \in Key, Settle(c, k)
  PROVE  IInv'
<1>1. /\ phase[c] = "leaving" /\ c \in granted[k]
      /\ settled'[k] = settled[k] \cup {c}
      /\ \A x \in Key \ {k} : settled'[x] = settled[x]
      /\ phase'[c] \in {"leaving", "done"}
      /\ \A d \in Call \ {c} : phase'[d] = phase[d]
      /\ UNCHANGED <<keys, joined, granted, chains, previous, earlier>>
  BY DEF Settle, Held, IInv, Types
<1>2. \A x \in Key : KeyInv(x)'
  <2> SUFFICES ASSUME NEW x \in Key PROVE KeyInv(x)'
    OBVIOUS
  <2>1. CASE x = k
    BY <1>1, <2>1, SettleKeepsQueue DEF IInv
  <2>2. CASE x # k
    BY <1>1, <2>2, KeyInvFrame DEF IInv
  <2> QED
    BY <2>1, <2>2
<1>3. \A d \in Call : CallInv(d)'
  BY <1>1 DEF IInv, CallInv
<1> QED
  BY <1>2, <1>3 DEF IInv

LEMMA ForgetStep ==
  ASSUME IInv, Types', NEW c \in Call, NEW k \in Key, Forget(c, k)
  PROVE  IInv'
<1>1. /\ c \in settled[k] /\ chains[k] = c /\ c # NoCall /\ chains'[k] = NoCall
      /\ \A x \in Key \ {k} : chains'[x] = chains[x]
      /\ UNCHANGED <<keys, phase, joined, granted, settled, previous, earlier>>
  BY NoCallAssumption DEF Forget, IInv, Types
<1>2. joined[k] \subseteq settled[k]
  BY <1>1 DEF IInv, KeyInv
<1>3. \A x \in Key : KeyInv(x)'
  BY <1>1, <1>2 DEF IInv, KeyInv
<1>4. \A d \in Call : CallInv(d)'
  BY <1>1 DEF IInv, CallInv
<1> QED
  BY <1>3, <1>4 DEF IInv

LEMMA FinishStep ==
  ASSUME IInv, Types', NEW c \in Call, Finish(c)
  PROVE  IInv'
<1>1. /\ phase[c] = "inside" /\ phase'[c] \in {"leaving", "done"}
      /\ \A d \in Call \ {c} : phase'[d] = phase[d]
      /\ UNCHANGED <<keys, joined, granted, settled, chains, previous, earlier>>
  BY DEF Finish, IInv, Types
<1>2. \A x \in Key : KeyInv(x)'
  BY <1>1 DEF IInv, KeyInv
<1>3. \A d \in Call : CallInv(d)'
  BY <1>1 DEF IInv, CallInv, Types
<1> QED
  BY <1>2, <1>3 DEF IInv

LEMMA NextIInv == IInv /\ [Next]_vars => IInv'
<1> SUFFICES ASSUME IInv, [Next]_vars PROVE IInv'
  OBVIOUS
<1>1. Types'
  BY TypeStep DEF IInv
<1>2. CASE UNCHANGED vars
  BY <1>2 DEF vars, IInv, Types, KeyInv, CallInv
<1> QED
  BY <1>1, <1>2, BeginStep, TurnStep, SettleStep, ForgetStep, FinishStep
     DEF Next, AllDone

LEMMA Invariance == Spec => []IInv
BY InitIInv, NextIInv, PTL DEF Spec

(* Every variable keeps its type and a promise its life cycle, whatever    *)
(* the calls and the keys.                                                 *)
THEOREM TypeCorrect == Spec => []TypeOK
<1>1. IInv => TypeOK
  BY DEF IInv, KeyInv, TypeOK
<1> QED
  BY <1>1, Invariance, PTL

(* Two functions that share a repository never run at the same time, for   *)
(* any number of calls over any set of repositories.                       *)
THEOREM ExclusionHolds == Spec => []Exclusion
<1>1. IInv => Exclusion
  <2> SUFFICES ASSUME IInv, NEW c \in Call, NEW d \in Call, c # d,
                      phase[c] = "inside", phase[d] = "inside",
                      NEW k \in keys[c] \cap keys[d]
               PROVE  FALSE
    BY DEF Exclusion
  <2>1. k \in Key
    BY DEF IInv, Types
  <2>2. c \in granted[k] \ settled[k] /\ d \in granted[k] \ settled[k]
    BY <2>1 DEF IInv, CallInv
  <2>3. c \in earlier[k][d] \/ d \in earlier[k][c]
    BY <2>1, <2>2 DEF IInv, KeyInv
  <2> QED
    BY <2>1, <2>2, <2>3 DEF IInv, KeyInv
<1> QED
  BY <1>1, Invariance, PTL

(* A repository is granted in arrival order: the deletion of the map entry *)
(* never lets a call overtake one that is still on the chain.              *)
THEOREM FirstComeFirstServedHolds == Spec => []FirstComeFirstServed
<1>1. IInv => FirstComeFirstServed
  BY DEF IInv, KeyInv, FirstComeFirstServed
<1> QED
  BY <1>1, Invariance, PTL
=============================================================================
