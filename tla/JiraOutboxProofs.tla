-------------------------- MODULE JiraOutboxProofs --------------------------
(***************************************************************************)
(* What holds of the outbox for every set of tickets, every workflow and   *)
(* any number of rows, attempts, failures, deaths of the server and        *)
(* tokens: the outbox and its drain agree, no edit is lost but to a newer  *)
(* one of its field, nothing is sent twice but what a death may cost, and  *)
(* Jira never goes back to an older intention.                             *)
(*                                                                         *)
(* The operators below take the outbox b, the executions w, the drain d    *)
(* and the deaths n as parameters, for within one step the code goes       *)
(* through several of each: a row is settled, the outbox reconciled, and   *)
(* the next batch claimed.                                                 *)
(***************************************************************************)
EXTENDS JiraOutbox, FiniteSetTheorems, FunctionTheorems, SequenceTheorems,
        WellFoundedInduction, TLAPS

USE JiraAssumption

(* The statuses that the issue of a row, or the request for it, can name.  *)
Hop == Status \cup Nat
Doing == [at : {"read", "got", "write", "rest", "acked"}, hop : Hop, visited : SUBSET Hop]

(* What a row keeps for ever.                                              *)
Same(r, s) == r.ticket = s.ticket /\ r.kind = s.kind /\ r.to = s.to /\ r.edits = s.edits

Is(b, i, k, t) == b[i].kind = k /\ b[i].ticket = t

RowsOK(b) == b \in Seq(Rows) /\ Len(b) <= MaxOps

(* A row is in flight alone in its issue, and after the older transitions  *)
(* of its ticket if it is one.                                             *)
OneAtATime(b) ==
  \A i, j \in DOMAIN b :
    i # j /\ b[i].state = "inflight" /\ SameIssue(b, i, j) => b[j].state # "inflight"

InOrder(b) ==
  \A i, j \in DOMAIN b :
    /\ i < j /\ b[i].ticket = b[j].ticket /\ b[j].state = "inflight"
    /\ b[i].kind = "transition" /\ b[j].kind = "transition"
    => b[i].state # "pending"

OneCreation(b) ==
  \A i, j \in DOMAIN b :
    b[i].kind = "create" /\ b[j].kind = "create" /\ b[i].ticket = b[j].ticket => i = j

OnlyUpdatesEdit(b) ==
  \A i \in DOMAIN b : /\ b[i].kind # "update" => b[i].edits = Blank
                     /\ \A f \in Field : b[i].edits[f] <= i

BoxOK(b) ==
  RowsOK(b) /\ OneAtATime(b) /\ InOrder(b) /\ OneCreation(b) /\ OnlyUpdatesEdit(b)

Engaged(b, w, d) ==
  /\ w \in [Ops -> {Idle} \cup Doing]
  /\ \A i \in Ops : w[i] # Idle <=> (i \in DOMAIN b /\ b[i].state = "inflight")
  /\ \A i \in DOMAIN b : b[i].state = "inflight" => d # 0

(* How far the execution of a row is says what it has read or sent.        *)
Progress(b, w) ==
  \A i \in DOMAIN b :
    /\ b[i].kind = "update" => w[i].at \notin {"read", "got"}
    /\ w[i].at = "rest" => b[i].kind = "update"
    /\ b[i].kind = "create" /\ w[i].at \in {"read", "got"} => b[i].attempts > 0

(* An edit, or a newer one of its field: written, stored or still to come. *)
Written(t, f, e) == text[t][f] >= e \/ (f = "priority" /\ dropped[t] >= e)

Stands(r) == r.state \in Live \cup {"dead"}

Stored(b, t, f, e) ==
  \/ Written(t, f, e)
  \/ \E j \in DOMAIN b : b[j].ticket = t /\ b[j].edits[f] >= e /\ Stands(b[j])

(* No row of the ticket has a newer edit of the field.                     *)
Foremost(b, t, f, e) ==
  \A i \in DOMAIN b : b[i].ticket = t => b[i].edits[f] <= e

(* But for the fields in over, the rows of a ticket have their edits in    *)
(* the order in which they were made, and are sent in that order:  Jira    *)
(* shows no edit that is newer than one of a row still to be sent, and a   *)
(* row is overtaken by one in flight only if it is as new.                 *)
InTurn(b, over) ==
  \A i, j \in DOMAIN b : \A f \in Field :
    /\ i < j /\ b[i].ticket = b[j].ticket /\ <<b[i].ticket, f>> \notin over
    => /\ b[j].edits[f] # 0 => b[i].edits[f] <= b[j].edits[f]
       /\ b[j].state = "inflight" /\ b[i].state = "pending" /\ b[i].edits[f] # 0
            => b[j].edits[f] <= b[i].edits[f]

Ahead(b, over) ==
  \A i \in DOMAIN b : \A f \in Field :
    b[i].state \in Live /\ b[i].edits[f] # 0 /\ <<b[i].ticket, f>> \notin over
    => text[b[i].ticket][f] <= b[i].edits[f]

NoneLost(b, over) ==
  \A i \in DOMAIN b : \A f \in Field :
    <<b[i].ticket, f>> \in over \/ Stored(b, b[i].ticket, f, b[i].edits[f])

(* What Jira shows comes from a row, and an answered row is written.       *)
Sourced(b) ==
  \A t \in Ticket : \A f \in Field :
    text[t][f] = 0 \/ \E i \in DOMAIN b : b[i].ticket = t /\ b[i].edits[f] >= text[t][f]

AckedOK(b, w) ==
  \A i \in DOMAIN b : \A f \in Field :
    w[i].at = "acked" => Written(b[i].ticket, f, b[i].edits[f])

EditsOK(b, w, over) ==
  InTurn(b, over) /\ Ahead(b, over) /\ NoneLost(b, over) /\ Sourced(b) /\ AckedOK(b, w)

NewestOK(b) ==
  \A t \in Ticket :
    /\ newest[t] # 0 => newest[t] \in DOMAIN b /\ Is(b, newest[t], "transition", t)
    /\ \A i \in DOMAIN b : Is(b, i, "transition", t) /\ b[i].state \in Live => newest[t] <= i

CommentsOK(b, w) ==
  /\ \A o \in Ops : posted[o] <= 1 /\ (posted[o] # 0 => o \in DOMAIN b)
  /\ \A i \in DOMAIN b : b[i].kind = "comment" =>
       /\ w[i].at = "write" => posted[i] = 0
       /\ w[i].at = "got" => w[i].hop = posted[i]

(* A creation that sends its request without having looked for an issue,   *)
(* or will, was never answered: each issue it made cost a death.           *)
IssuesOK(b, w, n) ==
  /\ \A t \in Ticket : issues[t] <= 1 + n
  /\ \A t \in Ticket :
       own[t] = 0 /\ (\A i \in DOMAIN b : ~Is(b, i, "create", t)) => issues[t] = 0
  /\ \A i \in DOMAIN b : b[i].kind = "create" =>
       /\ w[i].at = "write" => issues[b[i].ticket] <= n
       /\ w[i].at = "got" => w[i].hop = issues[b[i].ticket]
       /\ w[i].at = "acked" => w[i].hop \in Nat
       /\ b[i].state \in {"pending", "dead"} /\ b[i].attempts = 0
            => issues[b[i].ticket] <= n

JiraOK(b, w, n, over) ==
  EditsOK(b, w, over) /\ NewestOK(b) /\ CommentsOK(b, w) /\ IssuesOK(b, w, n)

All(b, w, d, n, over) ==
  BoxOK(b) /\ Engaged(b, w, d) /\ Progress(b, w) /\ JiraOK(b, w, n, over)

PollOK ==
  \/ poll = NoPoll
  \/ /\ poll.at = "sent" /\ poll.since \in Nat
  \/ /\ poll.at = "got" /\ DOMAIN poll.seen \subseteq Ticket
     /\ \A t \in DOMAIN poll.seen :
          /\ poll.seen[t].status \in Status /\ poll.seen[t].updated \in Nat
          /\ poll.seen[t].copies \subseteq Nat

FieldsOK == text \in [Ticket -> Edits] /\ dropped \in [Ticket -> 0..MaxOps]

World ==
  /\ own \in [Ticket -> Nat] /\ twins \in [Ticket -> SUBSET Nat]
  /\ cache \in [Ticket -> Status] /\ highWater \in Nat
  /\ stored \in Nat \ {0} /\ paused \in BOOLEAN /\ drain \in Nat
  /\ issues \in [Ticket -> Nat] /\ status \in [Ticket -> Status]
  /\ updated \in [Ticket -> Nat] /\ FieldsOK
  /\ posted \in [Ops -> Nat] /\ token \in Nat \ {0}
  /\ newest \in [Ticket -> 0..MaxOps]
  /\ overtaken \subseteq Ticket \X Field /\ crashes \in Nat
  /\ PollOK

Inv == World /\ All(box, work, drain, crashes, overtaken)

-----------------------------------------------------------------------------
(* A finite set of numbers that is not empty has a largest element: a      *)
(* smallest counterexample without one of its elements has one.            *)
LEMMA MaxOfNaturals ==
  ASSUME NEW S \in SUBSET Nat, IsFiniteSet(S), S # {}
  PROVE  Max(S) \in S /\ \A y \in S : Max(S) >= y
<1> DEFINE HasMax(A) == \E x \in A : \A y \in A : x >= y
           Bad == {n \in Nat : \E A \in SUBSET Nat :
                     IsFiniteSet(A) /\ A # {} /\ Cardinality(A) = n /\ ~HasMax(A)}
<1>1. Bad = {}
  <2> SUFFICES ASSUME Bad # {} PROVE FALSE
    OBVIOUS
  <2>1. PICK n \in Bad : \A m \in Bad : ~(<<m, n>> \in OpToRel(<, Nat))
    <3>1. Bad \subseteq Nat
      OBVIOUS
    <3> HIDE DEF Bad
    <3> QED  BY <3>1, NatLessThanWellFounded, WFMin
  <2>2. \A m \in Bad : ~(m < n)
    BY <2>1 DEF OpToRel
  <2>3. PICK A \in SUBSET Nat :
          IsFiniteSet(A) /\ A # {} /\ Cardinality(A) = n /\ ~HasMax(A)
    OBVIOUS
  <2>4. PICK x \in A : TRUE
    BY <2>3
  <2>5. /\ IsFiniteSet(A \ {x}) /\ Cardinality(A \ {x}) = n - 1
        /\ n \in Nat /\ Cardinality(A \ {x}) \in Nat
    BY <2>3, <2>4, FS_RemoveElement, FS_CardinalityType
  <2>6. CASE A \ {x} = {}
    BY <2>3, <2>4, <2>6
  <2>7. CASE A \ {x} # {}
    <3>1. HasMax(A \ {x})
      <4> SUFFICES ASSUME ~HasMax(A \ {x}) PROVE FALSE
        OBVIOUS
      <4>1. n - 1 \in Bad
        BY <2>5, <2>7
      <4> HIDE DEF Bad, HasMax
      <4> QED  BY <4>1, <2>2, <2>5
    <3>2. PICK m \in A \ {x} : \A y \in A \ {x} : m >= y
      BY <3>1
    <3>3. HasMax(A)
      <4>1. CASE x >= m
        BY <4>1, <3>2, <2>4
      <4>2. CASE m >= x
        BY <4>2, <3>2, <2>4
      <4> QED  BY <4>1, <4>2, <2>4, <3>2
    <3> QED  BY <3>3, <2>3
  <2> QED  BY <2>6, <2>7
<1>2. Cardinality(S) \in Nat
  BY FS_CardinalityType
<1>3. HasMax(S)
  BY <1>1, <1>2
<1> QED  BY <1>3 DEF Max

LEMMA MaxOfBounded ==
  ASSUME NEW n \in Nat, NEW S \in SUBSET (0..n), S # {}
  PROVE  Max(S) \in S /\ \A y \in S : Max(S) >= y
<1>1. S \in SUBSET Nat /\ \A x \in S : x <= n
  OBVIOUS
<1>2. IsFiniteSet(S)
  BY <1>1, FS_BoundedSetOfNaturals
<1> QED  BY <1>1, <1>2, MaxOfNaturals

(* The values of a function on tickets are finitely many.                  *)
LEMMA FinitelyMany ==
  ASSUME NEW S \in SUBSET Ticket, NEW f
  PROVE  IsFiniteSet({f[t] : t \in S})
<1> DEFINE g == [t \in S |-> f[t]]
           T == {f[t] : t \in S}
<1>1. IsFiniteSet(S)
  BY FS_Subset
<1>2. g \in Surjection(S, T)
  BY DEF Surjection
<1> QED  BY <1>1, <1>2, FS_Surjection

-----------------------------------------------------------------------------
(* An outbox is a function on the first of the rows.                       *)
LEMMA BoxDomain ==
  ASSUME NEW b, RowsOK(b)
  PROVE  /\ Len(b) \in Nat /\ DOMAIN b = 1..Len(b) /\ DOMAIN b \subseteq Ops
         /\ b \in [DOMAIN b -> Rows]
         /\ \A i \in DOMAIN b : b[i] \in Rows
  BY DEF RowsOK, Ops

LEMMA BoxRemade ==
  ASSUME NEW b, RowsOK(b), NEW c \in [DOMAIN b -> Rows]
  PROVE  RowsOK(c) /\ DOMAIN c = DOMAIN b /\ Len(c) = Len(b)
<1>1. DOMAIN b = 1..Len(b) /\ Len(b) \in Nat
  BY BoxDomain
<1>2. c \in Seq(Rows)
  BY <1>1
<1>3. Len(c) = Len(b)
  BY <1>1, <1>2
<1> QED  BY <1>2, <1>3 DEF RowsOK

-----------------------------------------------------------------------------
(* Rows change their state, and executions end: what must hold of each     *)
(* change for the outbox, the drain and Jira to agree afterwards.  No row  *)
(* is claimed, a transition is revived only if it is the last one, an edit *)
(* only if no later one was made, and what a row carries is still stored   *)
(* when the row is closed, both but for the fields in over.                *)
Kin(b, c) == /\ c \in [DOMAIN b -> Rows]
             /\ \A i \in DOMAIN b : Same(c[i], b[i])

Last(b, i) ==
  \A j \in DOMAIN b : j > i /\ b[j].ticket = b[i].ticket => b[j].kind # "transition"

Lawful(b, c, over) ==
  \A i \in DOMAIN b :
    /\ c[i].state = "inflight" => b[i].state = "inflight"
    /\ c[i].state = "pending" /\ c[i].kind = "transition"
         => b[i].state \in Live \/ Last(b, i)
    /\ c[i].attempts >= b[i].attempts
    /\ \A f \in Field :
         \/ b[i].edits[f] = 0 \/ <<b[i].ticket, f>> \in over
         \/ /\ Stands(b[i]) /\ ~Stands(c[i])
                => Stored(c, b[i].ticket, f, b[i].edits[f])
            /\ c[i].state \in Live /\ b[i].state \notin Live
                => Foremost(b, b[i].ticket, f, b[i].edits[f])

Unsent(c, n) ==
  \A i \in DOMAIN c :
    c[i].kind = "create" /\ c[i].state \in {"pending", "dead"} /\ c[i].attempts = 0
    => issues[c[i].ticket] <= n

Ended(c, w, v) ==
  /\ v \in [Ops -> {Idle} \cup Doing]
  /\ \A i \in Ops : /\ v[i] \in {w[i], Idle}
                    /\ v[i] # Idle <=> (i \in DOMAIN c /\ c[i].state = "inflight")

LEMMA KinRows ==
  ASSUME NEW b, NEW c, RowsOK(b), Kin(b, c)
  PROVE  /\ RowsOK(c) /\ DOMAIN c = DOMAIN b
         /\ \A i \in DOMAIN b : /\ c[i].ticket = b[i].ticket /\ c[i].kind = b[i].kind
                                /\ c[i].edits = b[i].edits
  BY BoxRemade DEF Kin, Same

LEMMA BoxEvolves ==
  ASSUME NEW b, NEW c, NEW over, BoxOK(b), Kin(b, c), Lawful(b, c, over)
  PROVE  BoxOK(c)
<1>1. /\ RowsOK(c) /\ DOMAIN c = DOMAIN b
      /\ \A i \in DOMAIN b : /\ c[i].ticket = b[i].ticket /\ c[i].kind = b[i].kind
                             /\ c[i].edits = b[i].edits
  BY KinRows DEF BoxOK
<1>2. OneAtATime(c)
  BY <1>1 DEF BoxOK, OneAtATime, SameIssue, Lawful
<1>3. InOrder(c)
  <2> SUFFICES ASSUME NEW i \in DOMAIN c, NEW j \in DOMAIN c, i < j,
                      c[i].ticket = c[j].ticket, c[j].state = "inflight",
                      c[i].kind = "transition", c[j].kind = "transition",
                      c[i].state = "pending"
               PROVE  FALSE
    BY DEF InOrder
  <2>0. i \in Nat /\ j \in Nat
    BY <1>1, BoxDomain
  <2>1. b[j].state = "inflight" /\ ~Last(b, i)
    BY <1>1, <2>0 DEF Lawful, Last
  <2>2. b[i].state \in {"pending", "inflight"}
    BY <2>1, <1>1 DEF Lawful, Live
  <2> QED  BY <1>1, <2>0, <2>1, <2>2 DEF BoxOK, InOrder, OneAtATime, SameIssue
<1>4. OneCreation(c) /\ OnlyUpdatesEdit(c)
  BY <1>1 DEF BoxOK, OneCreation, OnlyUpdatesEdit
<1> QED  BY <1>1, <1>2, <1>3, <1>4 DEF BoxOK

LEMMA EditTypes ==
  ASSUME NEW b, BoxOK(b)
  PROVE  /\ RowsOK(b) /\ DOMAIN b \subseteq Ops /\ DOMAIN b \subseteq Nat
         /\ \A i \in DOMAIN b :
              /\ b[i] \in Rows /\ b[i].ticket \in Ticket /\ b[i].edits \in Edits
              /\ \A f \in Field : /\ b[i].edits[f] \in Nat /\ b[i].edits[f] <= i
                                  /\ b[i].edits[f] # 0 => b[i].kind = "update"
  BY BoxDomain DEF BoxOK, OnlyUpdatesEdit, Rows, Edits, Blank

(* What is stored of an edit is stored of the older ones.                  *)
LEMMA StoredOlder ==
  ASSUME NEW b, BoxOK(b), FieldsOK,
         NEW t \in Ticket, NEW f \in Field, NEW e \in Nat, NEW d \in Nat, d <= e,
         Stored(b, t, f, e)
  PROVE  Stored(b, t, f, d)
<1>1. text[t][f] \in Nat /\ dropped[t] \in Nat
  BY DEF Edits, FieldsOK
<1>2. \A i \in DOMAIN b : b[i].edits[f] \in Nat
  BY EditTypes
<1> QED  BY <1>1, <1>2 DEF Stored, Written

LEMMA EditsEvolve ==
  ASSUME NEW b, NEW c, NEW w, NEW v, NEW over, BoxOK(b), BoxOK(c), Kin(b, c),
         Lawful(b, c, over), Ended(c, w, v), EditsOK(b, w, over),
         FieldsOK
  PROVE  EditsOK(c, v, over)
<1>1. /\ DOMAIN c = DOMAIN b /\ DOMAIN b \subseteq Ops /\ DOMAIN b \subseteq Nat
      /\ \A i \in DOMAIN b : /\ c[i].ticket = b[i].ticket /\ c[i].kind = b[i].kind
                             /\ c[i].edits = b[i].edits
  BY KinRows, EditTypes DEF BoxOK
<1>2. \A i \in DOMAIN b : /\ b[i].ticket \in Ticket
                          /\ \A f \in Field : /\ b[i].edits[f] \in Nat
                                              /\ b[i].edits[f] # 0 => b[i].kind = "update"
  BY EditTypes
<1>3. \A t \in Ticket : \A f \in Field : text[t][f] \in Nat
  BY DEF Edits, FieldsOK
<1>4. InTurn(c, over)
  <2> SUFFICES ASSUME NEW i \in DOMAIN b, NEW j \in DOMAIN b, NEW f \in Field, i < j,
                      b[i].ticket = b[j].ticket, <<b[i].ticket, f>> \notin over
               PROVE  /\ b[j].edits[f] # 0 => b[i].edits[f] <= b[j].edits[f]
                      /\ c[j].state = "inflight" /\ c[i].state = "pending"
                         /\ b[i].edits[f] # 0 => b[j].edits[f] <= b[i].edits[f]
    BY <1>1 DEF InTurn
  <2>1. b[j].edits[f] # 0 => b[i].edits[f] <= b[j].edits[f]
    BY DEF EditsOK, InTurn
  <2>2. ASSUME c[j].state = "inflight", c[i].state = "pending", b[i].edits[f] # 0
        PROVE  b[j].edits[f] <= b[i].edits[f]
    <3>1. b[j].state = "inflight"
      BY <2>2 DEF Lawful
    <3>2. CASE b[i].state = "pending"
      BY <2>2, <3>1, <3>2 DEF EditsOK, InTurn
    <3>3. CASE b[i].state = "inflight"
      <4>1. CASE b[j].edits[f] = 0
        BY <4>1, <1>2
      <4>2. CASE b[j].edits[f] # 0
        BY <4>2, <2>2, <3>1, <3>3, <1>1, <1>2 DEF BoxOK, OneAtATime, SameIssue
      <4> QED  BY <4>1, <4>2
    <3>4. CASE b[i].state \notin Live
      BY <3>4, <2>2 DEF Lawful, Foremost, Live
    <3> QED  BY <3>2, <3>3, <3>4 DEF Live
  <2> QED  BY <2>1, <2>2
<1>5. Ahead(c, over)
  <2> SUFFICES ASSUME NEW i \in DOMAIN b, NEW f \in Field, c[i].state \in Live,
                      b[i].edits[f] # 0, <<b[i].ticket, f>> \notin over
               PROVE  text[b[i].ticket][f] <= b[i].edits[f]
    BY <1>1 DEF Ahead
  <2>1. CASE b[i].state \in Live
    BY <2>1 DEF EditsOK, Ahead
  <2>2. CASE b[i].state \notin Live
    <3>1. Foremost(b, b[i].ticket, f, b[i].edits[f])
      BY <2>2 DEF Lawful
    <3>2. \/ text[b[i].ticket][f] = 0
          \/ \E k \in DOMAIN b : /\ b[k].ticket = b[i].ticket
                                 /\ b[k].edits[f] >= text[b[i].ticket][f]
      BY <1>2 DEF EditsOK, Sourced
    <3> QED  BY <3>1, <3>2, <1>2, <1>3 DEF Foremost
  <2> QED  BY <2>1, <2>2
<1>6. NoneLost(c, over)
  <2> SUFFICES ASSUME NEW i \in DOMAIN b, NEW f \in Field, <<b[i].ticket, f>> \notin over
               PROVE  Stored(c, b[i].ticket, f, b[i].edits[f])
    BY <1>1 DEF NoneLost
  <2>1. Stored(b, b[i].ticket, f, b[i].edits[f])
    BY DEF EditsOK, NoneLost
  <2>2. CASE Written(b[i].ticket, f, b[i].edits[f])
    BY <2>2 DEF Stored
  <2>3. ASSUME NEW j \in DOMAIN b, b[j].ticket = b[i].ticket,
               b[j].edits[f] >= b[i].edits[f], Stands(b[j])
        PROVE  Stored(c, b[i].ticket, f, b[i].edits[f])
    <3>1. CASE Stands(c[j])
      BY <2>3, <3>1, <1>1 DEF Stored
    <3>2. CASE b[j].edits[f] = 0
      <4>1. b[i].edits[f] = 0
        BY <2>3, <3>2, <1>2
      <4> QED  BY <4>1, <1>2, <1>3 DEF Stored, Written
    <3>3. CASE ~Stands(c[j]) /\ b[j].edits[f] # 0
      <4>1. Stored(c, b[i].ticket, f, b[j].edits[f])
        BY <2>3, <3>3 DEF Lawful
      <4> QED  BY <4>1, <2>3, <1>2, StoredOlder
    <3> QED  BY <3>1, <3>2, <3>3
  <2> QED  BY <2>1, <2>2, <2>3 DEF Stored
<1>7. Sourced(c)
  BY <1>1 DEF EditsOK, Sourced
<1>8. AckedOK(c, v)
  <2>1. \A i \in DOMAIN b : v[i].at = "acked" => w[i].at = "acked"
    BY <1>1 DEF Ended, Idle
  <2> QED  BY <1>1, <2>1 DEF EditsOK, AckedOK
<1> QED  BY <1>4, <1>5, <1>6, <1>7, <1>8 DEF EditsOK

LEMMA NewestEvolves ==
  ASSUME NEW b, NEW c, NEW over, BoxOK(b), Kin(b, c), Lawful(b, c, over), NewestOK(b)
  PROVE  NewestOK(c)
<1>1. /\ RowsOK(c) /\ DOMAIN c = DOMAIN b /\ DOMAIN b \subseteq Nat
      /\ \A i \in DOMAIN b : /\ c[i].ticket = b[i].ticket /\ c[i].kind = b[i].kind
                             /\ c[i].edits = b[i].edits
  BY KinRows, BoxDomain DEF BoxOK
<1> SUFFICES ASSUME NEW t \in Ticket
             PROVE  /\ newest[t] # 0 => /\ newest[t] \in DOMAIN c
                                        /\ Is(c, newest[t], "transition", t)
                    /\ \A i \in DOMAIN c :
                         Is(c, i, "transition", t) /\ c[i].state \in Live
                         => newest[t] <= i
  BY DEF NewestOK
<1>2. newest[t] # 0 => newest[t] \in DOMAIN c /\ Is(c, newest[t], "transition", t)
  BY <1>1 DEF NewestOK, Is
<1>3. ASSUME NEW i \in DOMAIN c, Is(c, i, "transition", t), c[i].state \in Live
      PROVE  newest[t] <= i
  <2>1. CASE b[i].state \in Live
    BY <1>1, <1>3, <2>1 DEF NewestOK, Is
  <2>2. CASE Last(b, i)
    BY <1>1, <1>2, <1>3, <2>2 DEF Last, Is
  <2> QED  BY <1>1, <1>3, <2>1, <2>2 DEF Lawful, Live, Is
<1> QED  BY <1>2, <1>3

LEMMA CommentsEvolve ==
  ASSUME NEW b, NEW c, NEW w, NEW v, BoxOK(b), Kin(b, c), Ended(c, w, v),
         CommentsOK(b, w)
  PROVE  CommentsOK(c, v)
<1>1. /\ DOMAIN c = DOMAIN b /\ DOMAIN b \subseteq Ops
      /\ \A i \in DOMAIN b : c[i].kind = b[i].kind
  BY KinRows, BoxDomain DEF BoxOK
<1>2. \A i \in DOMAIN c : v[i] = w[i] \/ v[i].at = "none"
  BY <1>1 DEF Ended, Idle
<1> QED  BY <1>1, <1>2 DEF CommentsOK

LEMMA IssuesEvolve ==
  ASSUME NEW b, NEW c, NEW w, NEW v, NEW n, NEW m, BoxOK(b), Kin(b, c),
         Ended(c, w, v), IssuesOK(b, w, n), Unsent(c, m),
         n \in Nat, m \in Nat, m >= n, issues \in [Ticket -> Nat]
  PROVE  IssuesOK(c, v, m)
<1>1. /\ DOMAIN c = DOMAIN b /\ DOMAIN b \subseteq Ops
      /\ \A i \in DOMAIN b : /\ c[i].ticket = b[i].ticket /\ c[i].kind = b[i].kind
                             /\ b[i].ticket \in Ticket
  BY KinRows, BoxDomain DEF BoxOK, Rows
<1>2. \A i \in DOMAIN c : v[i] = w[i] \/ v[i].at = "none"
  BY <1>1 DEF Ended, Idle
<1>3. \A t \in Ticket : issues[t] <= n => issues[t] <= m
  OBVIOUS
<1>4. \A t \in Ticket : issues[t] <= 1 + m
  BY DEF IssuesOK
<1>5. \A t \in Ticket :
        own[t] = 0 /\ (\A i \in DOMAIN c : ~Is(c, i, "create", t)) => issues[t] = 0
  BY <1>1 DEF IssuesOK, Is
<1>6. \A i \in DOMAIN c : c[i].kind = "create" =>
        /\ v[i].at = "write" => issues[c[i].ticket] <= m
        /\ v[i].at = "got" => v[i].hop = issues[c[i].ticket]
        /\ v[i].at = "acked" => v[i].hop \in Nat
  BY <1>1, <1>2, <1>3 DEF IssuesOK
<1>7. \A i \in DOMAIN c : c[i].kind = "create" =>
        (c[i].state \in {"pending", "dead"} /\ c[i].attempts = 0
           => issues[c[i].ticket] <= m)
  BY DEF Unsent
<1> QED  BY <1>4, <1>5, <1>6, <1>7 DEF IssuesOK

LEMMA Evolves ==
  ASSUME NEW b, NEW c, NEW w, NEW v, NEW d, NEW e, NEW n, NEW over, NEW m,
         All(b, w, d, n, over), Kin(b, c), Lawful(b, c, over), Unsent(c, m), Ended(c, w, v),
         \A i \in DOMAIN c : c[i].state = "inflight" => e # 0,
         n \in Nat, m \in Nat, m >= n, issues \in [Ticket -> Nat], FieldsOK
  PROVE  All(c, v, e, m, over)
<1>1. BoxOK(c) /\ RowsOK(b) /\ DOMAIN c = DOMAIN b /\ DOMAIN b \subseteq Ops
  BY BoxEvolves, KinRows, BoxDomain DEF All, BoxOK
<1>2. JiraOK(c, v, m, over)
  BY <1>1, EditsEvolve, NewestEvolves, CommentsEvolve, IssuesEvolve DEF All, JiraOK
<1>3. Engaged(c, v, e)
  BY DEF Engaged, Ended
<1>4. Progress(c, v)
  <2>1. \A i \in DOMAIN c : v[i] = w[i] \/ v[i].at = "none"
    BY <1>1 DEF Ended, Idle
  <2>2. \A i \in DOMAIN b : /\ c[i].kind = b[i].kind /\ c[i].attempts >= b[i].attempts
                            /\ c[i].attempts \in Nat /\ b[i].attempts \in Nat
    BY <1>1, BoxDomain DEF Kin, Same, Lawful, Rows
  <2> QED  BY <1>1, <2>1, <2>2 DEF All, Progress
<1> QED  BY <1>1, <1>2, <1>3, <1>4 DEF All

-----------------------------------------------------------------------------
(* Retiring the transitions that a newer one supersedes, the ones that     *)
(* failed are the last of their ticket.                                    *)
LEMMA Reconciles ==
  ASSUME NEW b, NEW w, NEW d, NEW n, NEW over, All(b, w, d, n, over), n \in Nat,
         issues \in [Ticket -> Nat], FieldsOK
  PROVE  /\ All(Reconcile(b), w, d, n, over)
         /\ DOMAIN Reconcile(b) = DOMAIN b
         /\ \A i \in DOMAIN b :
              /\ Same(Reconcile(b)[i], b[i])
              /\ Reconcile(b)[i].attempts = b[i].attempts
              /\ Reconcile(b)[i].state = "inflight" <=> b[i].state = "inflight"
              /\ b[i].kind = "transition" /\ Reconcile(b)[i].state = "dead"
                   => Last(Reconcile(b), i)
<1> DEFINE c == Reconcile(b)
<1>1. RowsOK(b) /\ DOMAIN b \subseteq Ops /\ DOMAIN c = DOMAIN b
  BY BoxDomain DEF All, BoxOK, Reconcile
<1>2. \A i \in DOMAIN b : b[i] \in Rows
  BY <1>1, BoxDomain
<1>3. ASSUME NEW i \in DOMAIN b
      PROVE  /\ c[i] \in Rows /\ Same(c[i], b[i]) /\ c[i].attempts = b[i].attempts
             /\ \/ ~Superseded(b, i) /\ c[i] = b[i]
                \/ /\ c[i].state = "superseded" /\ b[i].state \in {"dead", "pending"}
                   /\ b[i].kind = "transition"
  <2>1. CASE Superseded(b, i)
    BY <2>1, <1>2 DEF Reconcile, Superseded, Rows, Same
  <2>2. CASE ~Superseded(b, i)
    BY <2>2, <1>2 DEF Reconcile, Same
  <2> QED  BY <2>1, <2>2
<1> HIDE DEF c
<1>4. Kin(b, c)
  <2>1. c = [i \in DOMAIN b |-> c[i]]
    BY DEF c, Reconcile
  <2> QED  BY <2>1, <1>3 DEF Kin
<1>5. Lawful(b, c, over)
  <2> SUFFICES ASSUME NEW i \in DOMAIN b
               PROVE  /\ c[i].state = "inflight" => b[i].state = "inflight"
                      /\ c[i].state = "pending" => b[i].state = "pending"
                      /\ c[i].attempts >= b[i].attempts
                      /\ Stands(b[i]) /\ ~Stands(c[i]) => b[i].edits = Blank
    BY DEF Lawful, Live, Blank
  <2> QED
    BY <1>2, <1>3 DEF All, BoxOK, OnlyUpdatesEdit, Rows, Live, Stands
<1>6. Unsent(c, n)
  BY <1>1, <1>3 DEF All, JiraOK, IssuesOK, Unsent, Same
<1>7. Ended(c, w, w)
  BY <1>1, <1>3 DEF All, Engaged, Ended
<1>8. \A i \in DOMAIN c : c[i].state = "inflight" => d # 0
  BY <1>1, <1>3 DEF All, Engaged
<1>9. All(c, w, d, n, over)
  BY <1>4, <1>5, <1>6, <1>7, <1>8, Evolves
<1>10. ASSUME NEW i \in DOMAIN b, b[i].kind = "transition", c[i].state = "dead"
       PROVE  Last(c, i)
  <2>1. ~Superseded(b, i) /\ b[i].state = "dead"
    BY <1>3, <1>10
  <2>2. \A j \in DOMAIN b : c[j].ticket = b[j].ticket /\ c[j].kind = b[j].kind
    BY <1>3 DEF Same
  <2> SUFFICES ASSUME NEW j \in DOMAIN b, j > i, b[j].ticket = b[i].ticket,
                      b[j].kind = "transition"
               PROVE  FALSE
    BY <2>2, <1>1 DEF Last
  <2> QED  BY <2>1, <1>10 DEF Superseded
<1> QED  BY <1>1, <1>3, <1>9, <1>10 DEF c

-----------------------------------------------------------------------------
(* With nothing in flight, the oldest live row of every issue is claimed.  *)
Claim(b) == [i \in DOMAIN b |-> IF i \in Claimable(b)
                                THEN [b[i] EXCEPT !.state = "inflight"] ELSE b[i]]
Start(b) == [o \in Ops |-> IF o \in Claimable(b) THEN Begun(b[o]) ELSE Idle]

LEMMA Claims ==
  ASSUME NEW b, NEW w, NEW d, NEW n, NEW over, All(b, w, d, n, over), n \in Nat,
         \A i \in DOMAIN b : b[i].state # "inflight",
         issues \in [Ticket -> Nat], FieldsOK,
         NEW e, Claimable(b) # {} => e # 0
  PROVE  All(Claim(b), Start(b), e, n, over)
<1> DEFINE c == Claim(b)
           v == Start(b)
<1>1. RowsOK(b) /\ DOMAIN b \subseteq Ops /\ DOMAIN b \subseteq Nat
  BY BoxDomain DEF All, BoxOK
<1>2. \A i \in DOMAIN b : b[i] \in Rows
  BY <1>1, BoxDomain
<1>3. ASSUME NEW i \in DOMAIN b
      PROVE  /\ c[i] \in Rows /\ c[i].ticket = b[i].ticket /\ c[i].kind = b[i].kind
             /\ c[i].edits = b[i].edits /\ c[i].attempts = b[i].attempts
             /\ c[i].state = IF i \in Claimable(b) THEN "inflight" ELSE b[i].state
             /\ i \in Claimable(b) => b[i].state = "pending"
             /\ (c[i].state \in Live) = (b[i].state \in Live)
             /\ (c[i].state \in Live \cup {"dead"}) = (b[i].state \in Live \cup {"dead"})
  BY <1>2 DEF Claim, Claimable, Rows, Live
<1>4. RowsOK(c) /\ DOMAIN c = DOMAIN b
  <2>1. c \in [DOMAIN b -> Rows]
    BY <1>3 DEF Claim
  <2> QED  BY <2>1, <1>1, BoxRemade
<1>5. \A i, j \in DOMAIN b :
        i \in Claimable(b) /\ i # j /\ SameIssue(b, i, j)
          => b[j].state # "inflight" /\ (j < i => b[j].state # "pending")
  BY DEF Claimable
<1>6. \A i \in Ops : /\ v[i] = IF i \in Claimable(b) THEN Begun(b[i]) ELSE Idle
                     /\ i \in Claimable(b) => i \in DOMAIN b
  BY DEF Start, Claimable
<1>7. \A i \in Claimable(b) : Begun(b[i]) \in Doing /\ Begun(b[i]).at \in {"read", "write"}
  BY <1>2 DEF Begun, Doing, Hop, Rows, Claimable
<1>8. v \in [Ops -> {Idle} \cup Doing]
  BY <1>6, <1>7 DEF Start
<1> HIDE DEF c, v
<1>9. \A i \in DOMAIN b :
         /\ b[i].attempts \in Nat
         /\ v[i].at = IF i \notin Claimable(b) THEN "none"
                      ELSE IF \/ b[i].kind \in {"comment", "transition"}
                              \/ b[i].kind = "create" /\ b[i].attempts > 0
                      THEN "read" ELSE "write"
  <2>1. \A i \in DOMAIN b : b[i].attempts \in Nat
    BY <1>2 DEF Rows
  <2>2. ASSUME NEW i \in DOMAIN b, i \notin Claimable(b) PROVE v[i].at = "none"
    <3>1. v[i] = Idle
      BY <2>2, <1>1, <1>6
    <3> QED  BY <3>1 DEF Idle
  <2>3. ASSUME NEW i \in Claimable(b)
        PROVE  v[i].at = IF \/ b[i].kind \in {"comment", "transition"}
                            \/ b[i].kind = "create" /\ b[i].attempts > 0
                         THEN "read" ELSE "write"
    <3>1. v[i] = Begun(b[i])
      BY <2>3, <1>1, <1>6 DEF Claimable
    <3> QED  BY <3>1 DEF Begun
  <2> QED  BY <2>1, <2>2, <2>3
<1>10. BoxOK(c)
  <2>1. OneAtATime(c)
    <3> SUFFICES ASSUME NEW i \in DOMAIN c, NEW j \in DOMAIN c, i # j,
                        c[i].state = "inflight", c[j].state = "inflight",
                        SameIssue(c, i, j)
                 PROVE  FALSE
      BY DEF OneAtATime
    <3>1. SameIssue(b, i, j) /\ SameIssue(b, j, i)
      BY <1>3, <1>4 DEF SameIssue
    <3>2. i \in Claimable(b) /\ j \in Claimable(b)
      BY <1>3, <1>4
    <3>3. i < j \/ j < i
      BY <1>1, <1>4
    <3> QED  BY <3>1, <3>2, <3>3, <1>3, <1>4, <1>5
  <2>2. InOrder(c)
    <3> SUFFICES ASSUME NEW i \in DOMAIN c, NEW j \in DOMAIN c, i < j,
                        c[i].ticket = c[j].ticket, c[j].state = "inflight",
                        c[i].kind = "transition", c[j].kind = "transition",
                        c[i].state = "pending"
                 PROVE  FALSE
      BY DEF InOrder
    <3>1. SameIssue(b, j, i) /\ j \in Claimable(b) /\ b[i].state = "pending" /\ i # j
      BY <1>1, <1>3, <1>4 DEF SameIssue
    <3> QED  BY <3>1, <1>4, <1>5
  <2>3. OneCreation(c) /\ OnlyUpdatesEdit(c)
    BY <1>3, <1>4 DEF All, BoxOK, OneCreation, OnlyUpdatesEdit
  <2> QED  BY <2>1, <2>2, <2>3, <1>4 DEF BoxOK
<1>11. Engaged(c, v, e)
  <2>1. \A i \in Ops : v[i] # Idle <=> i \in Claimable(b)
    BY <1>6, <1>7 DEF Idle
  <2> QED  BY <2>1, <1>3, <1>4, <1>6, <1>8 DEF Engaged
<1>12. Progress(c, v)
  BY <1>3, <1>4, <1>9 DEF Progress
<1>13. EditsOK(c, v, over)
  <2>0. EditsOK(b, w, over) /\ BoxOK(b)
    BY DEF All, JiraOK
  <2>1. InTurn(c, over)
    <3> SUFFICES ASSUME NEW i \in DOMAIN b, NEW j \in DOMAIN b, NEW f \in Field, i < j,
                        b[i].ticket = b[j].ticket, <<b[i].ticket, f>> \notin over
                 PROVE  /\ b[j].edits[f] # 0 => b[i].edits[f] <= b[j].edits[f]
                        /\ c[j].state = "inflight" /\ c[i].state = "pending"
                           /\ b[i].edits[f] # 0 => b[j].edits[f] <= b[i].edits[f]
      BY <1>3, <1>4 DEF InTurn
    <3>1. b[j].edits[f] # 0 => b[i].edits[f] <= b[j].edits[f]
      BY <2>0 DEF EditsOK, InTurn
    <3>2. ASSUME c[j].state = "inflight", c[i].state = "pending", b[i].edits[f] # 0
          PROVE  b[j].edits[f] = 0
      <4>1. j \in Claimable(b) /\ b[i].state = "pending" /\ i # j
        BY <3>2, <1>1, <1>3
      <4>2. ~SameIssue(b, j, i)
        BY <4>1, <1>5
      <4> QED  BY <4>2, <3>2, <2>0, EditTypes DEF SameIssue
    <3>3. b[i].edits[f] \in Nat
      BY <2>0, EditTypes
    <3> QED  BY <3>1, <3>2, <3>3
  <2>2. AckedOK(c, v)
    <3>1. \A i \in DOMAIN b : v[i].at # "acked"
      BY <1>1, <1>6, <1>7 DEF Idle
    <3> QED  BY <3>1, <1>4 DEF AckedOK
  <2>3. Ahead(c, over) /\ Sourced(c)
    BY <2>0, <1>3, <1>4 DEF EditsOK, Ahead, Sourced
  <2>4. NoneLost(c, over)
    BY <2>0, <1>3, <1>4 DEF EditsOK, NoneLost, Stored, Stands
  <2> QED  BY <2>1, <2>2, <2>3, <2>4 DEF EditsOK
<1>14. NewestOK(c)
  BY <1>3, <1>4 DEF All, JiraOK, NewestOK, Is
<1>15. CommentsOK(c, v)
  <2>1. \A i \in DOMAIN b : b[i].kind = "comment" => v[i].at \in {"none", "read"}
    BY <1>9
  <2> QED  BY <2>1, <1>3, <1>4 DEF All, JiraOK, CommentsOK
<1>16. IssuesOK(c, v, n)
  <2>1. \A i \in DOMAIN b : b[i].kind = "create" =>
          /\ v[i].at \in {"none", "read", "write"}
          /\ v[i].at = "write" => b[i].state = "pending" /\ b[i].attempts = 0
    BY <1>3, <1>9
  <2>2. \A i \in DOMAIN b : c[i].state = "inflight" \/ c[i].state = b[i].state
    BY <1>3
  <2>3. \A i \in DOMAIN c : c[i].kind = "create" =>
          /\ v[i].at = "write" => issues[c[i].ticket] <= n
          /\ v[i].at \notin {"got", "acked"}
          /\ c[i].state \in {"pending", "dead"} /\ c[i].attempts = 0
               => issues[c[i].ticket] <= n
    BY <2>1, <2>2, <1>3, <1>4 DEF All, JiraOK, IssuesOK
  <2>4. \A t \in Ticket : /\ issues[t] <= 1 + n
                          /\ own[t] = 0 /\ (\A i \in DOMAIN c : ~Is(c, i, "create", t))
                               => issues[t] = 0
    BY <1>3, <1>4 DEF All, JiraOK, IssuesOK, Is
  <2> QED  BY <2>3, <2>4 DEF IssuesOK
<1> QED  BY <1>10, <1>11, <1>12, <1>13, <1>14, <1>15, <1>16 DEF All, JiraOK, c, v

-----------------------------------------------------------------------------
(* A pass claims the next batch, or ends the drain.                        *)
LEMMA PassKeeps ==
  ASSUME NEW b, NEW w, NEW d, NEW n, NEW over, All(b, w, d, n, over), n \in Nat,
         \A i \in DOMAIN b : b[i].state # "inflight",
         issues \in [Ticket -> Nat], FieldsOK,
         NEW t \in Nat \ {0}, Pass(b, t)
  PROVE  All(box', work', drain', n, over) /\ drain' \in Nat
<1> DEFINE c == Reconcile(b)
<1>1. All(c, w, d, n, over) /\ \A i \in DOMAIN c : c[i].state # "inflight"
  BY Reconciles
<1> HIDE DEF c
<1>2. /\ box' = Claim(c) /\ work' = Start(c)
      /\ drain' = IF Claimable(c) = {} THEN 0 ELSE t
  BY DEF Pass, Claim, Start, c
<1>3. Claimable(c) # {} => drain' # 0
  BY <1>2
<1>4. All(Claim(c), Start(c), drain', n, over)
  BY <1>1, <1>3, Claims
<1> QED  BY <1>2, <1>4

(* The execution of a row ends, and its new state is recorded.             *)
LEMMA ExecutedKeeps ==
  ASSUME NEW o \in Ops, NEW b, NEW n, NEW over,
         All(b, [work EXCEPT ![o] = Idle], drain, n, over), n \in Nat,
         issues \in [Ticket -> Nat], FieldsOK, drain \in Nat \ {0}, Executed(o, b),
         work \in [Ops -> {Idle} \cup Doing]
  PROVE  All(box', work', drain', n, over) /\ drain' \in Nat
<1> DEFINE v == [work EXCEPT ![o] = Idle]
<1>1. CASE box' = b /\ work' = v /\ drain' = drain
  BY <1>1
<1>2. CASE box' = b /\ work' = v /\ drain' = 0 /\ ~ \E x \in Ops \ {o} : work[x] # Idle
  <2>1. \A i \in DOMAIN b : b[i].state # "inflight"
    <3>1. \A i \in Ops : v[i] = Idle
      BY <1>2
    <3>2. DOMAIN b \subseteq Ops
      BY BoxDomain DEF All, BoxOK
    <3> QED  BY <3>1, <3>2 DEF All, Engaged
  <2>2. Engaged(b, v, 0)
    BY <2>1 DEF All, Engaged
  <2> QED  BY <1>2, <2>2 DEF All
<1>3. CASE Pass(b, drain) /\ ~ \E x \in Ops \ {o} : work[x] # Idle
  <2>1. \A i \in Ops : v[i] = Idle
    BY <1>3
  <2>2. DOMAIN b \subseteq Ops
    BY BoxDomain DEF All, BoxOK
  <2>3. \A i \in DOMAIN b : b[i].state # "inflight"
    BY <2>1, <2>2 DEF All, Engaged
  <2> QED  BY <1>3, <2>3, PassKeeps
<1> QED  BY <1>1, <1>2, <1>3 DEF Executed

(* What is recorded of a row that was executed: done only if its edits are *)
(* in Jira, and unsent only if that is so.                                 *)
LEMMA SettleKeeps ==
  ASSUME All(box, work, drain, crashes, overtaken), crashes \in Nat, drain \in Nat,
         issues \in [Ticket -> Nat], FieldsOK, NEW o \in DOMAIN box, work[o] # Idle,
         NEW r \in Rows, Same(r, box[o]), r.state \in {"pending", "dead", "done"},
         r.attempts >= box[o].attempts,
         r.state = "done" =>
           \A f \in Field : Written(box[o].ticket, f, box[o].edits[f]),
         r.kind = "create" /\ r.state # "done" /\ r.attempts = 0
           => issues[r.ticket] <= crashes,
         Executed(o, [box EXCEPT ![o] = r])
  PROVE  All(box', work', drain', crashes, overtaken) /\ drain' \in Nat
<1> DEFINE c == [box EXCEPT ![o] = r]
           v == [work EXCEPT ![o] = Idle]
<1>1. /\ RowsOK(box) /\ DOMAIN box \subseteq Ops /\ box \in [DOMAIN box -> Rows]
      /\ work \in [Ops -> {Idle} \cup Doing]
  BY BoxDomain DEF All, BoxOK, Engaged
<1>2. box[o].state = "inflight" /\ drain # 0
  BY <1>1 DEF All, Engaged
<1>3. /\ DOMAIN c = DOMAIN box /\ c \in [DOMAIN box -> Rows]
      /\ \A i \in DOMAIN box : c[i] = IF i = o THEN r ELSE box[i]
  BY <1>1
<1>4. /\ v \in [Ops -> {Idle} \cup Doing]
      /\ \A i \in Ops : v[i] = IF i = o THEN Idle ELSE work[i]
  BY <1>1
<1> HIDE DEF c, v
<1>5. Kin(box, c)
  BY <1>3 DEF Kin, Same
<1>6. Lawful(box, c, overtaken)
  <2>1. r.state \notin Live \cup {"dead"} => r.state = "done"
    BY DEF Live
  <2>2. \A i \in DOMAIN box : box[i].attempts \in Nat
    BY <1>1 DEF Rows
  <2>3. \A i \in DOMAIN box : Stands(box[i]) /\ ~Stands(c[i]) =>
          \A f \in Field : Stored(c, box[i].ticket, f, box[i].edits[f])
    BY <2>1, <1>3 DEF Stands, Stored
  <2> QED  BY <2>1, <2>2, <2>3, <1>2, <1>3 DEF Lawful, Live
<1>7. Unsent(c, crashes)
  BY <1>3 DEF All, JiraOK, IssuesOK, Unsent
<1>8. Ended(c, work, v)
  BY <1>1, <1>3, <1>4 DEF Ended, All, Engaged
<1>9. \A i \in DOMAIN c : c[i].state = "inflight" => drain # 0
  BY <1>2
<1>10. All(c, v, drain, crashes, overtaken)
  BY <1>5, <1>6, <1>7, <1>8, <1>9, Evolves
<1> QED  BY <1>1, <1>2, <1>10, ExecutedKeeps DEF c, v

LEMMA MarkKeeps ==
  ASSUME All(box, work, drain, crashes, overtaken), crashes \in Nat, drain \in Nat,
         issues \in [Ticket -> Nat], FieldsOK, NEW o \in DOMAIN box, work[o] # Idle,
         NEW s \in {"dead", "done"}, Mark(o, s),
         s = "done" => \A f \in Field : Written(box[o].ticket, f, box[o].edits[f]),
         box[o].kind = "create" /\ s = "dead" /\ box[o].attempts = 0
           => issues[box[o].ticket] <= crashes
  PROVE  All(box', work', drain', crashes, overtaken) /\ drain' \in Nat
<1> DEFINE r == [box[o] EXCEPT !.state = s]
<1>1. box[o] \in Rows /\ box \in [DOMAIN box -> Rows]
  BY BoxDomain DEF All, BoxOK
<1>2. /\ r \in Rows /\ Same(r, box[o]) /\ r.state = s
      /\ r.attempts = box[o].attempts /\ r.attempts \in Nat
      /\ r.kind = box[o].kind /\ r.ticket = box[o].ticket
  BY <1>1 DEF Rows, Same
<1>3. Executed(o, [box EXCEPT ![o] = r])
  BY DEF Mark
<1> HIDE DEF r
<1> QED  BY <1>2, <1>3, SettleKeeps

LEMMA RowWithState ==
  ASSUME NEW x \in Rows, NEW s \in Live \cup {"done", "dead", "superseded"},
         NEW y, y = [x EXCEPT !.state = s]
  PROVE  y \in Rows /\ Same(y, x) /\ y.state = s /\ y.attempts = x.attempts
  BY DEF Rows, Same

LEMMA RowWithDue ==
  ASSUME NEW x \in Rows, NEW e \in BOOLEAN, NEW y, y = [x EXCEPT !.due = e]
  PROVE  y \in Rows /\ Same(y, x) /\ y.state = x.state /\ y.attempts = x.attempts
  BY DEF Rows, Same

LEMMA RowWithAttempts ==
  ASSUME NEW x \in Rows, NEW k \in Nat, NEW y, y = [x EXCEPT !.attempts = k]
  PROVE  y \in Rows /\ Same(y, x) /\ y.state = x.state /\ y.attempts = k
  BY DEF Rows, Same

LEMMA RetryKeeps ==
  ASSUME All(box, work, drain, crashes, overtaken), crashes \in Nat, drain \in Nat,
         issues \in [Ticket -> Nat], FieldsOK, NEW o \in DOMAIN box, work[o] # Idle,
         Retry(o)
  PROVE  All(box', work', drain', crashes, overtaken) /\ drain' \in Nat
<1> DEFINE x == box[o]
           y == [x EXCEPT !.state = "pending"]
           z == [y EXCEPT !.due = FALSE]
           k == x.attempts + 1
           r == [z EXCEPT !.attempts = k]
<1>1. x \in Rows /\ box \in [DOMAIN box -> Rows]
  BY BoxDomain DEF All, BoxOK
<1>2. Executed(o, [box EXCEPT ![o] = r])
  <2>1. [box EXCEPT ![o] = r] =
          [box EXCEPT ![o].state = "pending", ![o].due = FALSE, ![o].attempts = @ + 1]
    BY <1>1 DEF Rows
  <2> QED  BY <2>1 DEF Retry
<1>3. /\ y = [x EXCEPT !.state = "pending"] /\ z = [y EXCEPT !.due = FALSE]
      /\ r = [z EXCEPT !.attempts = k] /\ k = x.attempts + 1
  OBVIOUS
<1> HIDE DEF x, y, z, k, r
<1>4. y \in Rows /\ Same(y, x) /\ y.state = "pending"
  BY <1>1, <1>3, RowWithState DEF Live
<1>5. z \in Rows /\ Same(z, y) /\ z.state = "pending"
  BY <1>3, <1>4, RowWithDue
<1>6. x.attempts \in Nat /\ k \in Nat /\ k = x.attempts + 1
  BY <1>1, <1>3 DEF Rows
<1>7. r \in Rows /\ Same(r, z) /\ r.state = "pending" /\ r.attempts = k
  <2>1. r = [z EXCEPT !.attempts = k]
    BY <1>3, Zenon
  <2> QED  BY <2>1, <1>5, <1>6, RowWithAttempts
<1>8. Same(r, x) /\ r.attempts >= x.attempts /\ r.attempts # 0
  BY <1>4, <1>5, <1>6, <1>7 DEF Same
<1> QED  BY <1>2, <1>7, <1>8, SettleKeeps DEF x

(* A row that is given up has been tried before, for more than one attempt *)
(* is made.                                                                *)
LEMMA RetryOrDeadKeeps ==
  ASSUME All(box, work, drain, crashes, overtaken), crashes \in Nat, drain \in Nat,
         issues \in [Ticket -> Nat], FieldsOK, NEW o \in DOMAIN box, work[o] # Idle,
         RetryOrDead(o)
  PROVE  All(box', work', drain', crashes, overtaken) /\ drain' \in Nat
<1>1. CASE box[o].attempts + 1 >= MaxAttempts /\ Mark(o, "dead")
  <2>1. box[o].attempts \in Nat
    BY BoxDomain DEF All, BoxOK, Rows
  <2>2. box[o].attempts # 0
    BY <1>1, <2>1
  <2> QED  BY <1>1, <2>2, MarkKeeps
<1>2. CASE Retry(o)
  BY <1>2, RetryKeeps
<1> QED  BY <1>1, <1>2 DEF RetryOrDead

-----------------------------------------------------------------------------
(* New rows wait, and a creation is the first row of its ticket.           *)
NewEdits(b, r, over) ==
  \A f \in Field :
    /\ r.edits[f] <= Len(b) + 1
    /\ \/ r.edits[f] = 0 \/ <<r.ticket, f>> \in over
       \/ Foremost(b, r.ticket, f, r.edits[f])

LEMMA AppendKeeps ==
  ASSUME NEW b, NEW w, NEW d, NEW n, NEW over, All(b, w, d, n, over), n \in Nat,
         issues \in [Ticket -> Nat], FieldsOK,
         NEW s \in Seq(Rows), Len(b) + Len(s) <= MaxOps,
         \A k \in DOMAIN s :
           /\ s[k].state = "pending"
           /\ s[k].kind # "update" => s[k].edits = Blank
           /\ s[k].kind = "update" => Len(s) = 1 /\ NewEdits(b, s[k], over)
           /\ s[k].kind = "create" =>
                /\ Len(s) = 1 /\ issues[s[k].ticket] <= n
                /\ \A i \in DOMAIN b : b[i].ticket # s[k].ticket,
         newest \in [Ticket -> 0..MaxOps]
  PROVE  All(b \o s, w, d, n, over)
<1> DEFINE c == b \o s
           m == Len(b)
<1>1. /\ RowsOK(b) /\ m \in Nat /\ DOMAIN b = 1..m /\ DOMAIN b \subseteq Ops
      /\ Len(s) \in Nat /\ DOMAIN s = 1..Len(s)
  BY BoxDomain DEF All, BoxOK
<1>2. /\ c \in Seq(Rows) /\ Len(c) = m + Len(s) /\ DOMAIN c = 1..(m + Len(s))
      /\ \A i \in DOMAIN c : c[i] = IF i <= m THEN b[i] ELSE s[i - m]
  BY <1>1, ConcatProperties DEF RowsOK
<1>3. RowsOK(c) /\ DOMAIN c \subseteq Ops /\ \A i \in DOMAIN c : c[i] \in Rows
  BY <1>2, BoxDomain DEF RowsOK
<1> HIDE DEF c, m
<1>4. \A i \in DOMAIN b : i \in DOMAIN c /\ c[i] = b[i]
  BY <1>1, <1>2
<1>5. ASSUME NEW i \in DOMAIN c, i \notin DOMAIN b
      PROVE  /\ i > m /\ i - m \in DOMAIN s /\ c[i] = s[i - m] /\ c[i].state = "pending"
             /\ w[i] = Idle /\ w[i].at = "none"
  <2>1. i > m /\ i - m \in DOMAIN s /\ c[i] = s[i - m]
    BY <1>1, <1>2, <1>5
  <2>2. w[i] = Idle
    BY <1>3, <1>5 DEF All, Engaged
  <2> QED  BY <2>1, <2>2 DEF Idle
<1>6. BoxOK(c)
  <2>1. \A i \in DOMAIN c : c[i].state = "inflight" => i \in DOMAIN b
    BY <1>5
  <2>2. OneAtATime(c)
    <3> SUFFICES ASSUME NEW i \in DOMAIN c, NEW j \in DOMAIN c, i # j,
                        c[i].state = "inflight", SameIssue(c, i, j),
                        c[j].state = "inflight"
                 PROVE  FALSE
      BY DEF OneAtATime
    <3>1. i \in DOMAIN b /\ j \in DOMAIN b
      BY <2>1
    <3> QED  BY <3>1, <1>4 DEF All, BoxOK, OneAtATime, SameIssue
  <2>3. InOrder(c)
    <3>1. \A i, j \in DOMAIN c : i < j /\ j \in DOMAIN b => i \in DOMAIN b
      BY <1>1, <1>2
    <3> QED  BY <3>1, <1>4, <2>1 DEF All, BoxOK, InOrder
  <2>4. OneCreation(c)
    <3>1. ASSUME NEW i \in DOMAIN c, NEW j \in DOMAIN c, c[i].kind = "create",
                 c[j].kind = "create", c[i].ticket = c[j].ticket, i \notin DOMAIN b
          PROVE  i = j
      <4>1. /\ c[i] = s[i - m] /\ i - m \in DOMAIN s /\ i > m
            /\ Len(s) = 1 /\ \A k \in DOMAIN b : b[k].ticket # c[i].ticket
        BY <3>1, <1>5
      <4>2. j \notin DOMAIN b
        BY <4>1, <3>1, <1>4
      <4>3. j - m \in DOMAIN s /\ j > m
        BY <4>2, <1>5
      <4> QED  BY <4>1, <4>3, <1>1, <1>2
    <3> QED  BY <3>1, <1>4 DEF All, BoxOK, OneCreation
  <2>5. OnlyUpdatesEdit(c)
    <3> SUFFICES ASSUME NEW i \in DOMAIN c, i \notin DOMAIN b
                 PROVE  /\ c[i].kind # "update" => c[i].edits = Blank
                        /\ \A f \in Field : c[i].edits[f] <= i
      BY <1>4 DEF All, BoxOK, OnlyUpdatesEdit
    <3>1. c[i] = s[i - m] /\ i - m \in DOMAIN s /\ i > m /\ i \in Nat
      BY <1>2, <1>5
    <3>2. ASSUME s[i - m].kind = "update", NEW f \in Field PROVE s[i - m].edits[f] <= i
      <4>1. s[i - m].edits[f] <= m + 1
        BY <3>1, <3>2 DEF NewEdits, m
      <4>2. c[i].edits \in Edits
        BY <1>3 DEF Rows
      <4>3. s[i - m].edits[f] \in Nat
        BY <3>1, <4>2 DEF Edits
      <4> QED  BY <4>1, <4>3, <3>1, <1>1
    <3> QED  BY <3>1, <3>2 DEF Blank
  <2> QED  BY <2>2, <2>3, <2>4, <2>5, <1>3 DEF BoxOK
<1>7. Engaged(c, w, d)
  BY <1>3, <1>4, <1>5 DEF All, Engaged
<1>8. Progress(c, w)
  BY <1>4, <1>5 DEF All, Progress
<1>9. EditsOK(c, w, over)
  <2>0. /\ EditsOK(b, w, over) /\ BoxOK(b)
        /\ \A t \in Ticket : \A f \in Field : text[t][f] \in Nat
    BY DEF All, JiraOK, FieldsOK, Edits
  <2>1. ASSUME NEW i \in DOMAIN c, i \notin DOMAIN b, NEW f \in Field,
               c[i].edits[f] # 0, <<c[i].ticket, f>> \notin over
        PROVE  Len(s) = 1 /\ Foremost(b, c[i].ticket, f, c[i].edits[f])
    <3>1. c[i] = s[i - m] /\ i - m \in DOMAIN s
      BY <2>1, <1>5
    <3>2. s[i - m].kind = "update"
      BY <3>1, <2>1 DEF Blank
    <3> QED  BY <3>1, <3>2, <2>1 DEF NewEdits
  <2>2. InTurn(c, over)
    <3> SUFFICES ASSUME NEW i \in DOMAIN c, NEW j \in DOMAIN c, NEW f \in Field, i < j,
                        c[i].ticket = c[j].ticket, <<c[i].ticket, f>> \notin over
                 PROVE  /\ c[j].edits[f] # 0 => c[i].edits[f] <= c[j].edits[f]
                        /\ c[j].state = "inflight" /\ c[i].state = "pending"
                           /\ c[i].edits[f] # 0 => c[j].edits[f] <= c[i].edits[f]
      BY DEF InTurn
    <3>1. CASE j \in DOMAIN b
      <4>1. i \in DOMAIN b
        BY <3>1, <1>1, <1>2
      <4> QED  BY <3>1, <4>1, <2>0, <1>4 DEF EditsOK, InTurn
    <3>2. CASE j \notin DOMAIN b
      <4>1. c[j].state = "pending"
        BY <3>2, <1>5
      <4>2. ASSUME c[j].edits[f] # 0 PROVE c[i].edits[f] <= c[j].edits[f]
        <5>1. Len(s) = 1 /\ Foremost(b, c[j].ticket, f, c[j].edits[f])
          BY <4>2, <3>2, <2>1
        <5>2. i \in DOMAIN b
          BY <5>1, <3>2, <1>1, <1>2
        <5> QED  BY <5>1, <5>2, <1>4 DEF Foremost
      <4> QED  BY <4>1, <4>2
    <3> QED  BY <3>1, <3>2
  <2>3. Ahead(c, over)
    <3> SUFFICES ASSUME NEW i \in DOMAIN c, NEW f \in Field, c[i].state \in Live,
                        c[i].edits[f] # 0, <<c[i].ticket, f>> \notin over
                 PROVE  text[c[i].ticket][f] <= c[i].edits[f]
      BY DEF Ahead
    <3>1. CASE i \in DOMAIN b
      BY <3>1, <2>0, <1>4 DEF EditsOK, Ahead
    <3>2. CASE i \notin DOMAIN b
      <4>1. Foremost(b, c[i].ticket, f, c[i].edits[f])
        BY <3>2, <2>1
      <4>2. c[i].ticket \in Ticket /\ c[i].edits[f] \in Nat
        BY <1>3 DEF Rows, Edits
      <4>3. \A k \in DOMAIN b : b[k].edits[f] \in Nat
        BY <2>0, EditTypes
      <4>4. \/ text[c[i].ticket][f] = 0
            \/ \E k \in DOMAIN b : /\ b[k].ticket = c[i].ticket
                                   /\ b[k].edits[f] >= text[c[i].ticket][f]
        BY <4>2, <2>0 DEF EditsOK, Sourced
      <4>5. text[c[i].ticket][f] \in Nat
        BY <4>2, <2>0
      <4> QED  BY <4>1, <4>2, <4>3, <4>4, <4>5 DEF Foremost
    <3> QED  BY <3>1, <3>2
  <2>4. NoneLost(c, over)
    <3> SUFFICES ASSUME NEW i \in DOMAIN c, NEW f \in Field, <<c[i].ticket, f>> \notin over
                 PROVE  Stored(c, c[i].ticket, f, c[i].edits[f])
      BY DEF NoneLost
    <3>1. CASE i \in DOMAIN b
      <4>1. Stored(b, b[i].ticket, f, b[i].edits[f]) /\ c[i] = b[i]
        BY <3>1, <2>0, <1>4 DEF EditsOK, NoneLost
      <4> QED  BY <4>1, <1>4 DEF Stored
    <3>2. CASE i \notin DOMAIN b
      <4>1. c[i].edits[f] \in Nat
        BY <1>3 DEF Rows, Edits
      <4> QED  BY <3>2, <4>1, <1>5 DEF Stored, Stands, Live
    <3> QED  BY <3>1, <3>2
  <2>5. Sourced(c)
    BY <2>0, <1>4 DEF EditsOK, Sourced
  <2>6. AckedOK(c, w)
    BY <2>0, <1>4, <1>5 DEF EditsOK, AckedOK
  <2> QED  BY <2>2, <2>3, <2>4, <2>5, <2>6 DEF EditsOK
<1>10. NewestOK(c)
  <2>1. \A i \in DOMAIN c \ DOMAIN b : i > m /\ i \in Nat
    BY <1>2, <1>5
  <2>2. \A t \in Ticket : newest[t] <= m /\ newest[t] \in Nat
    BY <1>1 DEF All, JiraOK, NewestOK
  <2>3. \A i \in DOMAIN c \ DOMAIN b : \A t \in Ticket : newest[t] <= i
    BY <2>1, <2>2, <1>1
  <2> QED  BY <2>3, <1>4 DEF All, JiraOK, NewestOK, Is
<1>11. CommentsOK(c, w)
  BY <1>4, <1>5 DEF All, JiraOK, CommentsOK
<1>12. IssuesOK(c, w, n)
  <2>1. ASSUME NEW i \in DOMAIN c, c[i].kind = "create"
        PROVE  /\ w[i].at = "write" => issues[c[i].ticket] <= n
               /\ w[i].at = "got" => w[i].hop = issues[c[i].ticket]
               /\ w[i].at = "acked" => w[i].hop \in Nat
               /\ c[i].state \in {"pending", "dead"} /\ c[i].attempts = 0
                    => issues[c[i].ticket] <= n
    <3>1. CASE i \in DOMAIN b
      BY <2>1, <3>1, <1>4 DEF All, JiraOK, IssuesOK
    <3>2. CASE i \notin DOMAIN b
      BY <2>1, <3>2, <1>5
    <3> QED  BY <3>1, <3>2
  <2>2. \A t \in Ticket :
          /\ issues[t] <= 1 + n
          /\ own[t] = 0 /\ (\A i \in DOMAIN c : ~Is(c, i, "create", t)) => issues[t] = 0
    BY <1>4 DEF All, JiraOK, IssuesOK, Is
  <2> QED  BY <2>1, <2>2 DEF IssuesOK
<1> QED
  BY <1>6, <1>7, <1>8, <1>9, <1>10, <1>11, <1>12 DEF All, JiraOK, c

LEMMA EnqueueKeeps ==
  ASSUME All(box, work, drain, crashes, overtaken), crashes \in Nat, issues \in [Ticket -> Nat], FieldsOK,
         newest \in [Ticket -> 0..MaxOps],
         NEW s \in Seq(Rows), Enqueue(s), UNCHANGED <<work, drain>>,
         \A k \in DOMAIN s :
           /\ s[k].state = "pending"
           /\ s[k].kind # "update" => s[k].edits = Blank
           /\ s[k].kind = "update" => Len(s) = 1 /\ NewEdits(box, s[k], overtaken)
           /\ s[k].kind = "create" =>
                /\ Len(s) = 1 /\ issues[s[k].ticket] <= crashes
                /\ \A i \in DOMAIN box : box[i].ticket # s[k].ticket
  PROVE  All(box', work', drain', crashes, overtaken)
<1>1. All(box \o s, work, drain, crashes, overtaken)
  BY AppendKeeps DEF Enqueue, Room
<1>2. All(Reconcile(box \o s), work, drain, crashes, overtaken)
  BY <1>1, Reconciles
<1> QED  BY <1>2 DEF Enqueue

(* More rows may be overtaken by an edit: less is claimed of them.         *)
LEMMA OvertakenKeeps ==
  ASSUME NEW b, NEW w, NEW d, NEW n, NEW over, NEW more,
         All(b, w, d, n, over), over \subseteq more
  PROVE  All(b, w, d, n, more)
<1>1. EditsOK(b, w, over) => EditsOK(b, w, more)
  BY DEF EditsOK, InTurn, Ahead, NoneLost
<1> QED  BY <1>1 DEF All, JiraOK

(* A row whose edits are not behind a newer one has the newest.            *)
LEMMA NotBehind ==
  ASSUME BoxOK(box), NEW t \in Ticket, NEW e \in Edits, NEW f \in Field, e[f] # 0,
         <<t, f>> \notin Behind(t, e)
  PROVE  Foremost(box, t, f, e[f])
<1> DEFINE rows == {i \in DOMAIN box : box[i].ticket = t}
           S == {0} \cup {box[i].edits[f] : i \in rows}
<1>1. /\ \A i \in rows : box[i].edits[f] \in 0..MaxOps
      /\ S \subseteq 0..MaxOps /\ 0 \in S
  BY EditTypes DEF Edits
<1>2. Latest(t, f) = Max(S)
  BY DEF Latest
<1>3. \A i \in rows : box[i].edits[f] \in S
  OBVIOUS
<1>4. S \in SUBSET (0..MaxOps) /\ S # {} /\ MaxOps \in Nat
  BY <1>1, JiraAssumption
<1> HIDE DEF S
<1>5. Max(S) \in S /\ \A y \in S : Max(S) >= y
  BY <1>4, MaxOfBounded, Zenon
<1>6. PICK m \in 0..MaxOps : m = Max(S)
  BY <1>4, <1>5, Zenon
<1>7. e[f] \in Nat /\ ~(e[f] < Latest(t, f))
  BY DEF Behind, Edits
<1>8. \A i \in rows : box[i].edits[f] <= e[f]
  BY <1>1, <1>2, <1>3, <1>5, <1>6, <1>7
<1> QED  BY <1>8 DEF Foremost

(* The row into which the held ones are folded carries what they carry.    *)
LEMMA MergedEdits ==
  ASSUME BoxOK(box), NEW t \in Ticket, NEW c \in SUBSET Field, Len(box) + 1 <= MaxOps
  PROVE  /\ Merged(t, c) \in Edits
         /\ \A f \in Field :
              /\ Merged(t, c)[f] <= Len(box) + 1
              /\ \A i \in Held(t) : box[i].edits[f] # 0 => Merged(t, c)[f] # 0
<1>1. /\ Len(box) \in Nat /\ DOMAIN box = 1..Len(box) /\ Held(t) \subseteq DOMAIN box
      /\ \A i \in DOMAIN box : \A f \in Field : /\ box[i].edits[f] \in 0..MaxOps
                                                /\ box[i].edits[f] <= i
  BY EditTypes, BoxDomain DEF BoxOK, Held, Edits
<1>2. ASSUME NEW f \in Field
      PROVE  /\ Merged(t, c)[f] \in 0..MaxOps /\ Merged(t, c)[f] <= Len(box) + 1
             /\ \A i \in Held(t) : box[i].edits[f] # 0 => Merged(t, c)[f] # 0
  <2> DEFINE carriers == {i \in Held(t) : box[i].edits[f] # 0}
  <2>1. Merged(t, c)[f] = IF f \in c THEN Len(box) + 1
                          ELSE IF carriers = {} THEN 0 ELSE box[Max(carriers)].edits[f]
    BY DEF Merged
  <2>2. CASE f \in c
    BY <2>1, <2>2, <1>1
  <2>3. CASE f \notin c /\ carriers = {}
    BY <2>1, <2>3, <1>1
  <2>4. CASE f \notin c /\ carriers # {}
    <3>1. carriers \in SUBSET (0..Len(box)) /\ Len(box) \in Nat
      BY <1>1
    <3>2. Max(carriers) \in carriers
      <4> HIDE DEF carriers
      <4> QED  BY <3>1, <2>4, MaxOfBounded
    <3>3. PICK k \in carriers : k = Max(carriers)
      BY <3>2
    <3>4. Merged(t, c)[f] = box[k].edits[f]
      BY <3>3, <2>1, <2>4
    <3>5. /\ k \in DOMAIN box /\ k \in Nat /\ k <= Len(box) /\ box[k].edits[f] # 0
          /\ box[k].edits[f] \in 0..MaxOps /\ box[k].edits[f] <= k
      BY <1>1
    <3> QED  BY <3>4, <3>5, <1>1
  <2> QED  BY <2>2, <2>3, <2>4
<1>3. Merged(t, c) = [f \in Field |-> Merged(t, c)[f]]
  BY DEF Merged
<1> QED  BY <1>2, <1>3 DEF Edits

(* A folded edit carries the edits of the rows that it retires.            *)
LEMMA FoldedKeeps ==
  ASSUME All(box, work, drain, crashes, overtaken), crashes \in Nat,
         issues \in [Ticket -> Nat], FieldsOK, newest \in [Ticket -> 0..MaxOps],
         NEW t \in Ticket, NEW fields \in SUBSET Field, Len(box) + 1 <= MaxOps
  PROVE  All(Folded(t, Merged(t, fields)), work, drain, crashes,
             overtaken \cup Behind(t, Merged(t, fields)))
<1> DEFINE m == Len(box)
           e == Merged(t, fields)
           over == overtaken \cup Behind(t, e)
           r == [Row(t, "update", New, e) EXCEPT !.due = FALSE]
           g == [i \in DOMAIN box |->
                   IF i \in Held(t) THEN [box[i] EXCEPT !.state = "superseded"] ELSE box[i]]
           b == box \o <<r>>
           c == Append(g, r)
<1>21. /\ RowsOK(box) /\ m \in Nat /\ DOMAIN box = 1..m /\ DOMAIN box \subseteq Ops
      /\ BoxOK(box) /\ \A i \in DOMAIN box : box[i] \in Rows
  BY BoxDomain DEF All, BoxOK
<1>22. /\ e \in Edits
      /\ \A f \in Field : /\ e[f] <= m + 1
                          /\ \A i \in Held(t) : box[i].edits[f] # 0 => e[f] # 0
  BY <1>21, MergedEdits
<1> HIDE DEF e
<1>23. /\ r \in Rows /\ r.ticket = t /\ r.kind = "update" /\ r.edits = e
      /\ r.state = "pending"
  BY <1>22 DEF Row, Rows, Kinds, Live
<1>4. \A f \in Field : e[f] = 0 \/ <<t, f>> \in over \/ Foremost(box, t, f, e[f])
  BY <1>21, <1>22, NotBehind
<1>5. All(box, work, drain, crashes, over)
  BY OvertakenKeeps
<1> HIDE DEF r, over
<1>6. ASSUME NEW i \in DOMAIN box
      PROVE  /\ g[i] \in Rows /\ Same(g[i], box[i]) /\ g[i].attempts = box[i].attempts
             /\ \/ g[i] = box[i]
                \/ i \in Held(t) /\ g[i].state = "superseded" /\ box[i].kind = "update"
                   /\ box[i].ticket = t
  <2>1. CASE i \in Held(t)
    <3>1. g[i] = [box[i] EXCEPT !.state = "superseded"]
      BY <2>1
    <3>2. box[i].kind = "update" /\ box[i].ticket = t
      BY <2>1 DEF Held
    <3>3. /\ g[i] \in Rows /\ Same(g[i], box[i]) /\ g[i].attempts = box[i].attempts
          /\ g[i].state = "superseded"
      <4> DEFINE x == box[i]
                 y == g[i]
      <4>1. y = [x EXCEPT !.state = "superseded"] /\ x \in Rows
        BY <3>1, <1>21
      <4> HIDE DEF x, y
      <4>2. /\ y \in Rows /\ Same(y, x) /\ y.attempts = x.attempts
            /\ y.state = "superseded"
        BY <4>1, RowWithState DEF Live
      <4> QED  BY <4>2 DEF x, y
    <3> QED  BY <2>1, <3>2, <3>3
  <2>2. CASE i \notin Held(t)
    BY <2>2, <1>21 DEF Same
  <2> QED  BY <2>1, <2>2
<1>7. g \in [DOMAIN box -> Rows]
  BY <1>6
<1>8. /\ g \in Seq(Rows) /\ Len(g) = m /\ DOMAIN g = DOMAIN box
  BY <1>21, <1>7, BoxRemade DEF RowsOK
<1> HIDE DEF g
<1>9. All(b, work, drain, crashes, over)
  <2>1. /\ <<r>> \in Seq(Rows) /\ Len(<<r>>) = 1 /\ DOMAIN <<r>> = {1} /\ <<r>>[1] = r
    BY <1>23
  <2>2. Len(box) + Len(<<r>>) <= MaxOps
    BY <1>21, <2>1
  <2>3. NewEdits(box, r, over)
    BY <1>22, <1>23, <1>4 DEF NewEdits
  <2> QED  BY <2>1, <2>2, <2>3, <1>23, <1>5, AppendKeeps
<1>10. /\ DOMAIN b = 1..(m + 1) /\ RowsOK(b)
      /\ b[m + 1] = r /\ \A i \in DOMAIN box : b[i] = box[i]
  BY <1>21, <1>23, <1>9 DEF All, BoxOK, RowsOK
<1>11. /\ c \in Seq(Rows) /\ DOMAIN c = 1..(m + 1)
      /\ c[m + 1] = r /\ \A i \in DOMAIN box : c[i] = g[i]
  BY <1>21, <1>23, <1>8
<1>12. \A i \in DOMAIN b : i = m + 1 \/ i \in DOMAIN box
  BY <1>21, <1>10
<1> HIDE DEF b, c, m
<1>13. Kin(b, c)
  <2>1. c \in [DOMAIN b -> Rows]
    <3>1. DOMAIN c = DOMAIN b /\ c \in Seq(Rows)
      BY <1>10, <1>11
    <3>2. c \in [DOMAIN c -> Rows]
      BY <3>1, LenProperties
    <3> QED  BY <3>1, <3>2
  <2> QED  BY <2>1, <1>6, <1>10, <1>11, <1>12 DEF Kin, Same
<1>14. ASSUME NEW i \in DOMAIN b
       PROVE  \/ c[i] = b[i]
              \/ /\ c[i].state = "superseded" /\ b[i].kind = "update"
                 /\ c[i].attempts = b[i].attempts /\ b[i].ticket = t
                 /\ i \in Held(t) /\ i \in DOMAIN box /\ b[i] = box[i]
  BY <1>6, <1>10, <1>11, <1>12 DEF Same
<1>15. Lawful(b, c, over)
  <2>0. \A i \in DOMAIN b : b[i].attempts \in Nat
    BY <1>10, BoxDomain DEF Rows
  <2> SUFFICES ASSUME NEW i \in DOMAIN b, c[i] # b[i]
               PROVE  /\ c[i].state = "superseded"
                      /\ c[i].attempts >= b[i].attempts
                      /\ \A f \in Field :
                           \/ b[i].edits[f] = 0 \/ <<b[i].ticket, f>> \in over
                           \/ Stored(c, b[i].ticket, f, b[i].edits[f])
    BY <2>0 DEF Lawful, Live, Stands
  <2>1. /\ c[i].state = "superseded" /\ b[i].ticket = t /\ i \in Held(t)
        /\ i \in DOMAIN box /\ b[i] = box[i] /\ c[i].attempts = b[i].attempts
    BY <1>14
  <2>2. ASSUME NEW f \in Field, b[i].edits[f] # 0, <<t, f>> \notin over
        PROVE  Stored(c, t, f, b[i].edits[f])
    <3>1. e[f] # 0 /\ Foremost(box, t, f, e[f])
      BY <2>1, <2>2, <1>22, <1>4
    <3>2. b[i].edits[f] <= e[f] /\ b[i].edits[f] \in Nat /\ e[f] \in Nat
      BY <2>1, <3>1, <1>21, <1>22, EditTypes DEF Foremost, Edits
    <3>3. m + 1 \in DOMAIN c /\ Stands(c[m + 1]) /\ c[m + 1].ticket = t
      BY <1>21, <1>23, <1>11 DEF Live, Stands, m
    <3> QED  BY <3>2, <3>3, <1>23, <1>11 DEF Stored
  <2> QED  BY <2>0, <2>1, <2>2
<1>16. Unsent(c, crashes)
  <2>1. \A i \in DOMAIN c : c[i].kind = "create" => i \in DOMAIN b /\ c[i] = b[i]
    BY <1>10, <1>11, <1>13, <1>14 DEF Kin, Same
  <2> QED  BY <2>1, <1>9 DEF Unsent, All, JiraOK, IssuesOK
<1>17. \A i \in DOMAIN c : c[i].state = "inflight" <=> b[i].state = "inflight"
  <2>1. \A i \in DOMAIN b : c[i] # b[i] => b[i].state = "pending"
    BY <1>23, <1>6, <1>10, <1>11, <1>12 DEF Held
  <2> QED  BY <2>1, <1>10, <1>11, <1>14
<1>18. Ended(c, work, work)
  BY <1>9, <1>10, <1>11, <1>17 DEF Ended, All, Engaged
<1>19. \A i \in DOMAIN c : c[i].state = "inflight" => drain # 0
  BY <1>9, <1>10, <1>11, <1>17 DEF All, Engaged
<1>20. All(c, work, drain, crashes, over)
  BY <1>9, <1>13, <1>15, <1>16, <1>18, <1>19, Evolves
<1> QED  BY <1>20 DEF c, g, r, e, m, over, Folded
-----------------------------------------------------------------------------
(* What agrees with Jira as it was agrees with it as it is, if Jira is     *)
(* left alone and links are only made.                                     *)
LEMMA JiraLeftAlone ==
  ASSUME All(box', work', drain', crashes, overtaken'), crashes' = crashes,
         UNCHANGED <<newest, text, dropped, posted, issues>>,
         \A t \in Ticket : own'[t] = own[t] \/ own'[t] # 0
  PROVE  All(box, work, drain, crashes, overtaken)'
<1>21. EditsOK(box, work, overtaken)'
  BY DEF All, JiraOK, EditsOK, InTurn, Ahead, NoneLost, Sourced, AckedOK, Stored, Written
<1>22. NewestOK(box)' /\ CommentsOK(box, work)'
  BY DEF All, JiraOK, NewestOK, CommentsOK
<1>23. IssuesOK(box, work, crashes)'
  BY DEF All, JiraOK, IssuesOK
<1> QED  BY <1>21, <1>22, <1>23 DEF All, JiraOK

LEMMA StepKeeps ==
  ASSUME World, All(box', work', drain', crashes, overtaken'), crashes' = crashes, drain' \in Nat,
         overtaken' \subseteq Ticket \X Field,
         UNCHANGED <<twins, highWater, poll, jira>>, cache' \in [Ticket -> Status],
         stored' \in Nat \ {0}, paused' \in BOOLEAN, own' \in [Ticket -> Nat],
         \A t \in Ticket : own'[t] = own[t] \/ own'[t] # 0
  PROVE  Inv'
<1>1. World'
  BY DEF World, FieldsOK, PollOK, jira
<1>2. All(box, work, drain, crashes, overtaken)'
  BY JiraLeftAlone DEF jira
<1> QED  BY <1>1, <1>2 DEF Inv

(* What the rest of the server enqueues.                                   *)
LEMMA RowIsRow ==
  ASSUME NEW t \in Ticket, NEW k \in Kinds, NEW s \in Status, NEW e \in Edits
  PROVE  /\ Row(t, k, s, e) \in Rows /\ Row(t, k, s, e).ticket = t
         /\ Row(t, k, s, e).kind = k /\ Row(t, k, s, e).edits = e
         /\ Row(t, k, s, e).state = "pending"
  BY DEF Row, Rows, Live

LEMMA BlankIsBlank == Blank \in Edits
  BY DEF Blank, Edits

LEMMA MoveKeeps ==
  ASSUME Inv, NEW t \in Ticket, NEW s \in Status, Move(t, s)
  PROVE  Inv'
<1> DEFINE r == Row(t, "transition", s, Blank)
<1>1. r \in Rows /\ r.kind = "transition" /\ r.edits = Blank /\ r.state = "pending"
  BY BlankIsBlank, RowIsRow DEF Kinds
<1>2. Enqueue(<<r>>) /\ UNCHANGED <<work, drain>>
  BY DEF Move, memory
<1> HIDE DEF r
<1>3. <<r>> \in Seq(Rows) /\ DOMAIN <<r>> = {1} /\ <<r>>[1] = r
  BY <1>1
<1>4. All(box', work', drain', crashes, overtaken)
  BY <1>1, <1>2, <1>3, EnqueueKeeps DEF Inv, World
<1> QED  BY <1>4, StepKeeps DEF Inv, World, Move, memory, bounds

LEMMA ReportKeeps ==
  ASSUME Inv, NEW t \in Ticket, NEW s \in Status, Report(t, s)
  PROVE  Inv'
<1> DEFINE r == Row(t, "comment", s, Blank)
           q == Row(t, "transition", s, Blank)
<1>1. /\ r \in Rows /\ r.kind = "comment" /\ r.edits = Blank /\ r.state = "pending"
      /\ q \in Rows /\ q.kind = "transition" /\ q.edits = Blank /\ q.state = "pending"
  BY BlankIsBlank, RowIsRow DEF Kinds
<1>2. Enqueue(<<r, q>>) /\ UNCHANGED <<work, drain>>
  BY DEF Report, memory
<1> HIDE DEF r, q
<1>3. /\ <<r, q>> \in Seq(Rows) /\ DOMAIN <<r, q>> = {1, 2}
      /\ <<r, q>>[1] = r /\ <<r, q>>[2] = q
  BY <1>1
<1>4. All(box', work', drain', crashes, overtaken)
  BY <1>1, <1>2, <1>3, EnqueueKeeps DEF Inv, World
<1> QED  BY <1>4, StepKeeps DEF Inv, World, Report, memory, bounds

LEMMA EditKeeps ==
  ASSUME Inv, NEW t \in Ticket, Edit(t)
  PROVE  Inv'
<1>1. /\ UNCHANGED <<work, drain>> /\ Len(box) \in Nat /\ BoxOK(box)
      /\ Changes \subseteq SUBSET Field
  BY BoxDomain DEF Edit, memory, Inv, All, BoxOK
<1>2. PICK c \in Changes :
        \/ /\ Room(1) /\ box' = Reconcile(Folded(t, Merged(t, c)))
           /\ overtaken' = overtaken \cup Behind(t, Merged(t, c))
        \/ /\ Enqueue(<<Row(t, "update", New, Edited(c))>>)
           /\ overtaken' = overtaken
  BY DEF Edit
<1>3. c \in SUBSET Field
  BY <1>1
<1>4. /\ All(box', work', drain', crashes, overtaken')
      /\ overtaken' \subseteq Ticket \X Field
  <2>1. CASE /\ Room(1) /\ box' = Reconcile(Folded(t, Merged(t, c)))
             /\ overtaken' = overtaken \cup Behind(t, Merged(t, c))
    <3>1. Len(box) + 1 <= MaxOps
      BY <2>1 DEF Room
    <3>2. All(Folded(t, Merged(t, c)), work, drain, crashes, overtaken')
      BY <2>1, <3>1, <1>3, FoldedKeeps DEF Inv, World
    <3>3. Behind(t, Merged(t, c)) \subseteq Ticket \X Field
      BY DEF Behind
    <3> QED  BY <1>1, <2>1, <3>2, <3>3, Reconciles DEF Inv, World
  <2>2. CASE /\ Enqueue(<<Row(t, "update", New, Edited(c))>>) /\ overtaken' = overtaken
    <3> DEFINE r == Row(t, "update", New, Edited(c))
    <3>1. Len(box) + 1 <= MaxOps
      BY <2>2, <1>1 DEF Enqueue, Room
    <3>2. Edited(c) \in Edits
      BY <1>1, <3>1 DEF Edited, Edits
    <3>3. r \in Rows /\ r.kind = "update" /\ r.state = "pending" /\ r.edits = Edited(c)
      BY <3>2, RowIsRow DEF Kinds
    <3> HIDE DEF r
    <3>4. NewEdits(box, r, overtaken)
      <4> SUFFICES ASSUME NEW f \in Field
                   PROVE  /\ Edited(c)[f] <= Len(box) + 1
                          /\ Edited(c)[f] # 0 => Foremost(box, r.ticket, f, Edited(c)[f])
        BY <3>3 DEF NewEdits
      <4>1. Edited(c)[f] = IF f \in c THEN Len(box) + 1 ELSE 0
        BY DEF Edited
      <4>2. \A i \in DOMAIN box : box[i].edits[f] <= i /\ i <= Len(box)
                                 /\ i \in Nat /\ box[i].edits[f] \in Nat
        BY <1>1, EditTypes, BoxDomain
      <4> QED  BY <4>1, <4>2, <1>1 DEF Foremost
    <3>5. <<r>> \in Seq(Rows) /\ DOMAIN <<r>> = {1} /\ <<r>>[1] = r /\ Len(<<r>>) = 1
      BY <3>3
    <3>6. Enqueue(<<r>>)
      BY <2>2 DEF r
    <3> QED  BY <1>1, <2>2, <3>3, <3>4, <3>5, <3>6, EnqueueKeeps DEF Inv, World
  <2> QED  BY <1>2, <2>1, <2>2
<1> QED  BY <1>4, StepKeeps DEF Inv, World, Edit, memory, bounds

LEMMA PromoteKeeps ==
  ASSUME Inv, NEW t \in Ticket, Promote(t)
  PROVE  Inv'
<1> DEFINE r == Row(t, "create", New, Blank)
<1>1. /\ r \in Rows /\ r.kind = "create" /\ r.edits = Blank /\ r.state = "pending"
      /\ r.ticket = t
  BY BlankIsBlank, RowIsRow DEF Kinds
<1>2. Enqueue(<<r>>) /\ UNCHANGED <<work, drain>>
  BY DEF Promote, memory
<1> HIDE DEF r
<1>3. <<r>> \in Seq(Rows) /\ DOMAIN <<r>> = {1} /\ <<r>>[1] = r /\ Len(<<r>>) = 1
  BY <1>1
<1>4. issues[t] = 0 /\ \A i \in DOMAIN box : box[i].ticket # t
  BY DEF Promote, Inv, All, JiraOK, IssuesOK, Is
<1>5. issues[t] <= crashes
  BY <1>4 DEF Inv, World
<1>6. All(box', work', drain', crashes, overtaken)
  BY <1>1, <1>2, <1>3, <1>4, <1>5, EnqueueKeeps DEF Inv, World
<1> QED  BY <1>6, StepKeeps DEF Inv, World, Promote, memory, bounds

(* A transition that is retried by hand is the last of its ticket.         *)
LEMMA RetryDeadKeeps ==
  ASSUME Inv, NEW i \in DOMAIN box, RetryDead(i)
  PROVE  Inv'
<1> DEFINE b == Reconcile(box)
           c == [b EXCEPT ![i].state = "pending", ![i].due = TRUE]
<1>1. /\ UNCHANGED <<work, drain>> /\ crashes \in Nat /\ issues \in [Ticket -> Nat]
      /\ FieldsOK /\ BoxOK(box) /\ box[i].edits \in Edits /\ box[i].ticket \in Ticket
      /\ overtaken' = overtaken \cup Behind(box[i].ticket, box[i].edits)
  BY EditTypes DEF RetryDead, memory, Inv, World, All
<1>2. overtaken' \subseteq Ticket \X Field
  BY <1>1 DEF Behind, Inv, World
<1>3. All(box, work, drain, crashes, overtaken')
  BY <1>1, OvertakenKeeps DEF Inv
<1>4. /\ All(b, work, drain, crashes, overtaken') /\ DOMAIN b = DOMAIN box
      /\ \A j \in DOMAIN box : /\ Same(b[j], box[j])
                               /\ b[j].kind = "transition" /\ b[j].state = "dead"
                                    => Last(b, j)
  BY <1>1, <1>3, Reconciles DEF Same
<1>5. /\ RowsOK(b) /\ b \in [DOMAIN b -> Rows] /\ DOMAIN b \subseteq Ops
      /\ \A j \in DOMAIN b : b[j] \in Rows
  BY <1>4, BoxDomain DEF All, BoxOK
<1>6. CASE b[i].state # "dead"
  <2>1. box' = b
    BY <1>6 DEF RetryDead
  <2>2. All(box', work', drain', crashes, overtaken')
    BY <2>1, <1>1, <1>4
  <2> QED  BY <1>2, <2>2, StepKeeps DEF Inv, World, RetryDead, memory
<1>7. CASE b[i].state = "dead"
  <2>1. box' = c
    BY <1>7 DEF RetryDead
  <2> HIDE DEF b
  <2>2. /\ c \in [DOMAIN b -> Rows] /\ DOMAIN c = DOMAIN b
        /\ \A j \in DOMAIN b : /\ Same(c[j], b[j]) /\ c[j].attempts = b[j].attempts
                               /\ j # i => c[j] = b[j]
        /\ c[i].state = "pending"
    <3> DEFINE x == b[i]
               y == [x EXCEPT !.state = "pending"]
               z == [y EXCEPT !.due = TRUE]
    <3>1. c = [b EXCEPT ![i] = z] /\ x \in Rows
      BY <1>4, <1>5 DEF Rows
    <3>2. y = [x EXCEPT !.state = "pending"]
      OBVIOUS
    <3>3. z = [y EXCEPT !.due = TRUE]
      OBVIOUS
    <3> HIDE DEF c, y, z
    <3>4. y \in Rows /\ Same(y, x) /\ y.state = "pending" /\ y.attempts = x.attempts
      <4> HIDE DEF x
      <4> QED  BY <3>1, <3>2, RowWithState DEF Live
    <3>5. z \in Rows /\ Same(z, y) /\ z.state = "pending" /\ z.attempts = x.attempts
      BY <3>3, <3>4, RowWithDue
    <3>6. Same(z, x)
      BY <3>4, <3>5 DEF Same
    <3> QED  BY <3>1, <3>5, <3>6, <1>4, <1>5 DEF Same
  <2> HIDE DEF c
  <2>3. Kin(b, c)
    BY <2>2 DEF Kin
  <2>4. Lawful(b, c, overtaken')
    <3>1. \A j \in DOMAIN b : b[j].attempts \in Nat
      BY <1>5 DEF Rows
    <3>2. c[i].kind = b[i].kind
      BY <1>4, <2>2 DEF Same
    <3>3. c[i].kind = "transition" => Last(b, i)
      BY <3>2, <1>4, <1>7
    <3>4. \A f \in Field :
            \/ b[i].edits[f] = 0 \/ <<b[i].ticket, f>> \in overtaken'
            \/ Foremost(b, b[i].ticket, f, b[i].edits[f])
      <4>1. \A f \in Field :
              \/ box[i].edits[f] = 0 \/ <<box[i].ticket, f>> \in overtaken'
              \/ Foremost(box, box[i].ticket, f, box[i].edits[f])
        BY <1>1, NotBehind
      <4> QED  BY <4>1, <1>4 DEF Foremost, Same
    <3>5. \A j \in DOMAIN b : Stands(b[j]) => Stands(c[j])
      BY <2>2 DEF Stands, Live
    <3> QED  BY <2>2, <3>1, <3>3, <3>4, <3>5, <1>4 DEF Lawful, Live
  <2>5. Unsent(c, crashes)
    BY <2>2, <1>4, <1>7 DEF All, JiraOK, IssuesOK, Unsent, Same
  <2>6. Ended(c, work, work)
    BY <1>4, <1>7, <2>2 DEF All, Engaged, Ended
  <2>7. \A j \in DOMAIN c : c[j].state = "inflight" => drain # 0
    BY <1>4, <2>2 DEF All, Engaged
  <2>8. All(c, work, drain, crashes, overtaken')
    BY <1>1, <1>4, <2>3, <2>4, <2>5, <2>6, <2>7, Evolves
  <2> QED  BY <1>1, <1>2, <2>1, <2>8, StepKeeps DEF Inv, World, RetryDead, memory
<1> QED  BY <1>6, <1>7

LEMMA ElapseKeeps ==
  ASSUME Inv, NEW i \in DOMAIN box, Elapse(i)
  PROVE  Inv'
<1> DEFINE c == [box EXCEPT ![i].due = TRUE]
<1>0. /\ UNCHANGED <<work, drain>> /\ crashes \in Nat /\ issues \in [Ticket -> Nat] /\ FieldsOK
      /\ All(box, work, drain, crashes, overtaken) /\ box' = c
  BY DEF Elapse, memory, Inv, World
<1>1. /\ RowsOK(box) /\ box \in [DOMAIN box -> Rows] /\ DOMAIN box \subseteq Ops
      /\ \A j \in DOMAIN box : box[j] \in Rows
  BY <1>0, BoxDomain DEF All, BoxOK
<1>2. /\ c \in [DOMAIN box -> Rows] /\ DOMAIN c = DOMAIN box
      /\ \A j \in DOMAIN box : /\ Same(c[j], box[j]) /\ c[j].attempts = box[j].attempts
                               /\ c[j].state = box[j].state
  <2> DEFINE x == box[i]
             y == [x EXCEPT !.due = TRUE]
  <2>1. c = [box EXCEPT ![i] = y] /\ x \in Rows
    BY <1>1
  <2>2. y = [x EXCEPT !.due = TRUE]
    OBVIOUS
  <2> HIDE DEF c, y
  <2>3. y \in Rows /\ Same(y, x) /\ y.state = x.state /\ y.attempts = x.attempts
    <3> HIDE DEF x
    <3> QED  BY <2>1, <2>2, RowWithDue
  <2> QED  BY <2>1, <2>3, <1>1 DEF Same
<1> HIDE DEF c
<1>3. Kin(box, c)
  BY <1>2 DEF Kin
<1>4. Lawful(box, c, overtaken)
  <2>1. \A j \in DOMAIN box : box[j].attempts \in Nat
    BY <1>1 DEF Rows
  <2> QED  BY <1>2, <2>1 DEF Lawful, Live, Stands
<1>5. Unsent(c, crashes)
  BY <1>0, <1>2 DEF All, JiraOK, IssuesOK, Unsent, Same
<1>6. Ended(c, work, work)
  BY <1>0, <1>2 DEF All, Engaged, Ended
<1>7. \A j \in DOMAIN c : c[j].state = "inflight" => drain # 0
  BY <1>0, <1>2 DEF All, Engaged
<1>8. All(c, work, drain, crashes, overtaken)
  BY <1>0, <1>3, <1>4, <1>5, <1>6, <1>7, Evolves
<1> QED  BY <1>0, <1>8, StepKeeps DEF Inv, World, Elapse, memory, bounds

LEMMA StartDrainKeeps ==
  ASSUME Inv, StartDrain
  PROVE  Inv'
<1>1. Pass(box, stored) /\ drain = 0
  BY DEF StartDrain
<1>2. \A i \in DOMAIN box : box[i].state # "inflight"
  BY <1>1 DEF Inv, All, Engaged
<1>3. All(box', work', drain', crashes, overtaken) /\ drain' \in Nat
  BY <1>1, <1>2, PassKeeps DEF Inv, World
<1> QED  BY <1>3, StepKeeps DEF Inv, World, StartDrain, bounds

LEMMA ReauthenticateKeeps ==
  ASSUME Inv, Reauthenticate
  PROVE  Inv'
<1>1. All(box', work', drain', crashes, overtaken)
  BY DEF Inv, Reauthenticate
<1> QED  BY <1>1, StepKeeps DEF Inv, World, Reauthenticate, jira, bounds

-----------------------------------------------------------------------------
(* The poll, people and the token leave the outbox and what it needs of    *)
(* Jira alone.                                                             *)
LEMMA AsideKeeps ==
  ASSUME Inv, World',
         UNCHANGED <<box, work, drain, own, newest, text, dropped, posted, issues,
                     overtaken, crashes>>
  PROVE  Inv'
<1>1. All(box', work', drain', crashes, overtaken)
  BY DEF Inv
<1> QED  BY <1>1, JiraLeftAlone DEF Inv

LEMMA PollKeeps ==
  ASSUME Inv, StartPoll \/ Search \/ Upsert \/ PollFails \/ PollUnauthorized
  PROVE  Inv'
<1> USE DEF db, memory, jira, bounds
<1>1. CASE StartPoll
  <2>1. World'
    BY <1>1 DEF Inv, World, StartPoll, FieldsOK, PollOK
  <2> QED  BY <1>1, <2>1, AsideKeeps DEF StartPoll
<1>2. CASE Search
  <2> DEFINE found == {t \in Ticket : issues[t] > 0 /\ updated[t] >= poll.since}
  <2>1. poll'.at = "got" /\ DOMAIN poll'.seen = found
    BY <1>2 DEF Search
  <2>2. \A t \in found :
          poll'.seen[t] = [status |-> status[t], updated |-> updated[t],
                           copies |-> 1..issues[t]]
    BY <1>2 DEF Search
  <2> HIDE DEF found
  <2>3. \A t \in found : t \in Ticket
    BY DEF found
  <2>4. PollOK'
    <3>1. \A t \in found : /\ poll'.seen[t].status \in Status
                           /\ poll'.seen[t].updated \in Nat
                           /\ poll'.seen[t].copies \subseteq Nat
      <4> SUFFICES ASSUME NEW t \in found
                   PROVE  /\ poll'.seen[t].status \in Status
                          /\ poll'.seen[t].updated \in Nat
                          /\ poll'.seen[t].copies \subseteq Nat
        OBVIOUS
      <4>1. status[t] \in Status /\ updated[t] \in Nat /\ issues[t] \in Nat
        BY <2>3 DEF Inv, World
      <4>2. /\ poll'.seen[t].status = status[t] /\ poll'.seen[t].updated = updated[t]
            /\ poll'.seen[t].copies = 1..issues[t]
        <5>1. PICK x : x = poll'.seen[t]
          OBVIOUS
        <5>2. x = [status |-> status[t], updated |-> updated[t], copies |-> 1..issues[t]]
          BY <2>2, <5>1, Zenon
        <5>3. x.status = status[t] /\ x.updated = updated[t] /\ x.copies = 1..issues[t]
          BY <5>2
        <5> QED  BY <5>1, <5>3
      <4> QED  BY <4>1, <4>2
    <3> QED  BY <2>1, <2>3, <3>1 DEF PollOK
  <2>5. World'
    BY <1>2, <2>4 DEF Inv, World, Search, FieldsOK
  <2> QED  BY <1>2, <2>5, AsideKeeps DEF Search
<1>3. CASE Upsert
  <2> DEFINE seen == poll.seen
             free == {t \in DOMAIN seen : ~(own[t] # 0 /\ t \in poll.frozen)}
             read == {seen[t].updated : t \in free}
  <2>1. /\ DOMAIN seen \subseteq Ticket
        /\ \A t \in DOMAIN seen : /\ seen[t].status \in Status
                                  /\ seen[t].updated \in Nat
                                  /\ seen[t].copies \subseteq Nat
    BY <1>3 DEF Upsert, Inv, World, PollOK, NoPoll
  <2>2. highWater' = Max({highWater} \cup read)
    BY <1>3 DEF Upsert
  <2>3. cache' \in [Ticket -> Status] /\ twins' \in [Ticket -> SUBSET Nat]
    BY <1>3, <2>1 DEF Upsert, Inv, World
  <2>4. highWater' \in Nat
    <3> DEFINE f == [t \in free |-> seen[t].updated]
    <3>1. free \in SUBSET Ticket /\ \A t \in free : f[t] = seen[t].updated
      BY <2>1
    <3>2. IsFiniteSet({f[t] : t \in free})
      <4> HIDE DEF f, free
      <4> QED  BY <3>1, FinitelyMany
    <3>3. read = {f[t] : t \in free}
      OBVIOUS
    <3>4. highWater \in Nat /\ read \in SUBSET Nat
      BY <2>1 DEF Inv, World
    <3> HIDE DEF f, free, read
    <3>5. IsFiniteSet({highWater} \cup read)
      BY <3>2, <3>3, FS_AddElement
    <3>6. {highWater} \cup read \in SUBSET Nat /\ {highWater} \cup read # {}
      BY <3>4
    <3>7. Max({highWater} \cup read) \in {highWater} \cup read
      BY <3>5, <3>6, MaxOfNaturals
    <3> QED  BY <2>2, <3>6, <3>7
  <2>5. World'
    BY <1>3, <2>3, <2>4 DEF Inv, World, Upsert, FieldsOK, PollOK
  <2> QED  BY <1>3, <2>5, AsideKeeps DEF Upsert
<1>4. CASE PollFails
  <2>1. World'
    BY <1>4 DEF Inv, World, PollFails, FieldsOK, PollOK
  <2> QED  BY <1>4, <2>1, AsideKeeps DEF PollFails
<1>5. CASE PollUnauthorized
  <2>1. World'
    BY <1>5 DEF Inv, World, PollUnauthorized, FieldsOK, PollOK
  <2> QED  BY <1>5, <2>1, AsideKeeps DEF PollUnauthorized
<1> QED  BY <1>1, <1>2, <1>3, <1>4, <1>5

LEMMA TouchType ==
  ASSUME World, NEW t \in Ticket, Touch(t)
  PROVE  updated' \in [Ticket -> Nat]
<1> DEFINE S == {updated[u] : u \in Ticket}
<1>1. IsFiniteSet(S)
  BY FinitelyMany
<1>2. S \in SUBSET Nat /\ updated[t] \in S
  BY DEF World
<1> HIDE DEF S
<1>3. Max(S) \in Nat
  BY <1>1, <1>2, MaxOfNaturals
<1>4. updated' = [updated EXCEPT ![t] = 1 + Max(S)]
  BY DEF Touch, S
<1> QED  BY <1>3, <1>4 DEF World

LEMMA PersonMovesKeeps ==
  ASSUME Inv, NEW t \in Ticket, NEW s \in Status, PersonMoves(t, s)
  PROVE  Inv'
<1>1. updated' \in [Ticket -> Nat]
  BY TouchType DEF Inv, PersonMoves
<1>2. World'
  BY <1>1 DEF Inv, World, PersonMoves, FieldsOK, PollOK, db, memory
<1> QED  BY <1>2, AsideKeeps DEF PersonMoves, db, memory

LEMMA RevokeKeeps ==
  ASSUME Inv, Revoke
  PROVE  Inv'
<1>1. World'
  BY DEF Inv, World, Revoke, FieldsOK, PollOK, db, memory
<1> QED  BY <1>1, AsideKeeps DEF Revoke, db, memory

(* A death costs what a creation had in hand, nothing else.                *)
LEMMA CrashKeeps ==
  ASSUME Inv, Crash
  PROVE  Inv'
<1> DEFINE c == Restarted(box)
           v == [o \in Ops |-> Idle]
           m == crashes + 1
<1>0. /\ crashes \in Nat /\ issues \in [Ticket -> Nat] /\ FieldsOK /\ All(box, work, drain, crashes, overtaken)
      /\ m \in Nat /\ m >= crashes
  BY DEF Inv, World
<1>1. /\ RowsOK(box) /\ DOMAIN box \subseteq Ops /\ DOMAIN c = DOMAIN box
      /\ \A j \in DOMAIN box : box[j] \in Rows
  BY <1>0, BoxDomain DEF All, BoxOK, Restarted
<1>2. ASSUME NEW j \in DOMAIN box
      PROVE  /\ c[j] \in Rows /\ Same(c[j], box[j]) /\ c[j].attempts = box[j].attempts
             /\ c[j].state = IF box[j].state = "inflight" THEN "pending" ELSE box[j].state
  <2>1. CASE box[j].state = "inflight"
    <3> DEFINE x == box[j]
               y == c[j]
    <3>1. y = [x EXCEPT !.state = "pending"] /\ x \in Rows
      BY <2>1, <1>1 DEF Restarted
    <3> HIDE DEF x, y
    <3>2. y \in Rows /\ Same(y, x) /\ y.state = "pending" /\ y.attempts = x.attempts
      BY <3>1, RowWithState DEF Live
    <3> QED  BY <2>1, <3>2 DEF x, y
  <2>2. CASE box[j].state # "inflight"
    BY <2>2, <1>1 DEF Restarted, Same
  <2> QED  BY <2>1, <2>2
<1>3. Kin(box, c)
  <2>1. c = [j \in DOMAIN box |-> c[j]]
    BY DEF Restarted
  <2> HIDE DEF c
  <2> QED  BY <1>2, <2>1 DEF Kin
<1> HIDE DEF c
<1>4. Lawful(box, c, overtaken)
  <2>1. \A j \in DOMAIN box : box[j].attempts \in Nat
    BY <1>1 DEF Rows
  <2> QED  BY <1>2, <2>1 DEF Lawful, Live, Stands
<1>5. Unsent(c, m)
  <2>1. \A j \in DOMAIN c : c[j].ticket \in Ticket
    BY <1>1, <1>2 DEF Rows
  <2>2. \A t \in Ticket : issues[t] <= m
    BY <1>0 DEF All, JiraOK, IssuesOK
  <2> QED  BY <2>1, <2>2 DEF Unsent
<1>6. Ended(c, work, v)
  BY <1>1, <1>2 DEF Ended
<1>7. All(c, v, 0, m, overtaken)
  BY <1>0, <1>1, <1>2, <1>3, <1>4, <1>5, <1>6, Evolves
<1>8. overtaken' = overtaken /\ box' = c /\ work' = v /\ drain' = 0 /\ crashes' = m
  BY DEF Crash, c
<1>9. All(box', work', drain', crashes', overtaken')
  BY <1>7, <1>8
<1>10. All(box, work, drain, crashes, overtaken)'
  <2>1. UNCHANGED <<newest, text, dropped, posted, issues, own, overtaken>>
    BY DEF Crash, jira
  <2>2. EditsOK(box, work, overtaken)'
    BY <1>9, <2>1 DEF All, JiraOK, EditsOK, InTurn, Ahead, NoneLost, Sourced, AckedOK,
                      Stored, Written
  <2>3. NewestOK(box)' /\ CommentsOK(box, work)'
    BY <1>9, <2>1 DEF All, JiraOK, NewestOK, CommentsOK
  <2>4. IssuesOK(box, work, crashes)'
    BY <1>9, <2>1 DEF All, JiraOK, IssuesOK
  <2> QED  BY <1>9, <2>2, <2>3, <2>4 DEF All, JiraOK
<1>11. World'
  <2>1. PollOK'
    BY DEF Crash, PollOK
  <2>2. UNCHANGED <<own, twins, cache, highWater, stored, jira, overtaken>> /\ paused' = FALSE
    BY DEF Crash
  <2> HIDE DEF m, v
  <2> QED  BY <1>0, <1>8, <2>1, <2>2 DEF Inv, World, FieldsOK, jira
<1> QED  BY <1>10, <1>11 DEF Inv

-----------------------------------------------------------------------------
(* An execution goes on with another request.                              *)
LEMMA DoingWithAt ==
  ASSUME NEW x \in Doing, NEW a \in {"read", "got", "write", "rest", "acked"},
         NEW y, y = [x EXCEPT !.at = a]
  PROVE  y \in Doing /\ y.at = a /\ y.hop = x.hop
  BY DEF Doing

LEMMA DoingWithHop ==
  ASSUME NEW x \in Doing, NEW h \in Hop, NEW y, y = [x EXCEPT !.hop = h]
  PROVE  y \in Doing /\ y.at = x.at /\ y.hop = h
  BY DEF Doing

LEMMA WorkKeeps ==
  ASSUME Inv, NEW o \in DOMAIN box, work[o] # Idle, NEW x \in Doing,
         work' = [work EXCEPT ![o] = x], UNCHANGED <<box, drain>>,
         x.at # "acked", box[o].kind = "update" => x.at \in {"write", "rest"},
         x.at = "rest" => box[o].kind = "update",
         box[o].kind = "comment" =>
           /\ x.at = "write" => posted[o] = 0
           /\ x.at = "got" => x.hop = posted[o],
         box[o].kind = "create" =>
           /\ x.at = "write" => issues[box[o].ticket] <= crashes
           /\ x.at = "got" => x.hop = issues[box[o].ticket]
           /\ x.at \in {"read", "got"} => box[o].attempts > 0
  PROVE  All(box', work', drain', crashes, overtaken) /\ drain' \in Nat
<1>1. /\ work \in [Ops -> {Idle} \cup Doing] /\ DOMAIN box \subseteq Ops
      /\ All(box, work, drain, crashes, overtaken)
  BY BoxDomain DEF Inv, All, BoxOK, Engaged
<1>2. /\ work' \in [Ops -> {Idle} \cup Doing]
      /\ \A i \in Ops : work'[i] = IF i = o THEN x ELSE work[i]
  BY <1>1
<1>3. x # Idle
  BY DEF Doing, Idle
<1>4. Engaged(box, work', drain) /\ Progress(box, work')
  BY <1>1, <1>2, <1>3 DEF All, Engaged, Progress
<1>5. EditsOK(box, work', overtaken) /\ CommentsOK(box, work')
  BY <1>1, <1>2 DEF All, JiraOK, EditsOK, AckedOK, CommentsOK
<1>6. IssuesOK(box, work', crashes)
  BY <1>1, <1>2 DEF All, JiraOK, IssuesOK
<1> QED  BY <1>1, <1>4, <1>5, <1>6 DEF All, JiraOK, Inv, World

LEMMA SendKeeps ==
  ASSUME Inv, NEW o \in DOMAIN box, work[o] # Idle, NEW s \in Status, Send(o, s),
         box[o].kind = "comment" => posted[o] = 0,
         box[o].kind = "create" => issues[box[o].ticket] <= crashes
  PROVE  All(box', work', drain', crashes, overtaken) /\ drain' \in Nat
<1> DEFINE x == work[o]
           y == [x EXCEPT !.at = "write"]
           z == [y EXCEPT !.hop = s]
<1>1. x \in Doing /\ s \in Hop
  BY BoxDomain DEF Inv, All, BoxOK, Engaged, Hop
<1>2. work' = [work EXCEPT ![o] = z] /\ UNCHANGED <<box, drain>>
  BY DEF Send
<1>3. y = [x EXCEPT !.at = "write"]
  OBVIOUS
<1>4. z = [y EXCEPT !.hop = s]
  OBVIOUS
<1> HIDE DEF x, y, z
<1>5. y \in Doing /\ y.at = "write"
  BY <1>1, <1>3, DoingWithAt
<1>6. z \in Doing /\ z.at = "write"
  BY <1>1, <1>4, <1>5, DoingWithHop
<1> QED  BY <1>2, <1>6, WorkKeeps

-----------------------------------------------------------------------------
(* The answers.                                                            *)
AsBefore ==
  UNCHANGED <<twins, cache, highWater, stored, poll, jira, overtaken, crashes>>

LEMMA AnswerKeeps ==
  ASSUME Inv, All(box', work', drain', crashes, overtaken) /\ drain' \in Nat, AsBefore,
         paused' \in BOOLEAN, own' \in [Ticket -> Nat],
         \A t \in Ticket : own'[t] = own[t] \/ own'[t] # 0
  PROVE  Inv'
  BY StepKeeps DEF Inv, World, AsBefore

(* A row that is no update is done without a write of any field.           *)
BlankRow(o) == \A f \in Field : Written(box[o].ticket, f, box[o].edits[f])

LEMMA BlankRowHolds ==
  ASSUME Inv, NEW o \in DOMAIN box, box[o].kind # "update"
  PROVE  BlankRow(o)
<1>1. /\ \A f \in Field : box[o].edits[f] = 0
      /\ box[o].ticket \in Ticket /\ text \in [Ticket -> Edits]
  BY EditTypes DEF Inv, World, FieldsOK, All, BoxOK, OnlyUpdatesEdit, Blank
<1>2. \A f \in Field : text[box[o].ticket][f] \in Nat
  BY <1>1 DEF Edits
<1> QED  BY <1>1, <1>2 DEF BlankRow, Written

LEMMA WalkKeeps ==
  ASSUME Inv, NEW o \in DOMAIN box, work[o] # Idle, box[o].kind = "transition", Walk(o)
  PROVE  All(box', work', drain', crashes, overtaken) /\ drain' \in Nat
<1>1. /\ box[o] \in Rows /\ BlankRow(o) /\ box[o].to \in Status
      /\ work[o] \in Doing
  BY BoxDomain, BlankRowHolds DEF Inv, All, BoxOK, OnlyUpdatesEdit, Rows, Engaged
<1>2. CASE Mark(o, "done") \/ Mark(o, "dead")
  BY <1>1, <1>2, MarkKeeps DEF Inv, World, BlankRow
<1>3. CASE Send(o, box[o].to)
  BY <1>1, <1>3, SendKeeps
<1>4. ASSUME NEW s \in Status,
             work' = [work EXCEPT ![o] = [at |-> "write", hop |-> s,
                        visited |-> work[o].visited \cup {work[o].hop, s}]],
             UNCHANGED <<box, drain>>
      PROVE  All(box', work', drain', crashes, overtaken) /\ drain' \in Nat
  <2> DEFINE x == [at |-> "write", hop |-> s,
                   visited |-> work[o].visited \cup {work[o].hop, s}]
  <2>1. x \in Doing /\ x.at = "write"
    BY <1>1 DEF Doing, Hop
  <2>2. work' = [work EXCEPT ![o] = x]
    BY <1>4
  <2> HIDE DEF x
  <2> QED  BY <1>4, <2>1, <2>2, WorkKeeps
<1> QED  BY <1>2, <1>3, <1>4 DEF Walk

LEMMA LinkedKeeps ==
  ASSUME Inv, NEW o \in DOMAIN box, work[o] # Idle, box[o].kind = "create",
         work[o].hop \in Nat, Linked(o)
  PROVE  /\ All(box', work', drain', crashes, overtaken) /\ drain' \in Nat
         /\ own' \in [Ticket -> Nat]
         /\ \A t \in Ticket : own'[t] = own[t] \/ own'[t] # 0
<1>1. box[o] \in Rows /\ BlankRow(o) /\ box[o].ticket \in Ticket
  BY BoxDomain, BlankRowHolds DEF Inv, All, BoxOK, OnlyUpdatesEdit, Rows
<1>2. CASE Mark(o, "done") /\ own' = [own EXCEPT ![box[o].ticket] = work[o].hop]
  <2>1. All(box', work', drain', crashes, overtaken) /\ drain' \in Nat
    BY <1>1, <1>2, MarkKeeps DEF Inv, World, BlankRow
  <2>2. own \in [Ticket -> Nat]
    BY DEF Inv, World
  <2>3. CASE work[o].hop # 0
    BY <2>1, <2>2, <2>3, <1>1, <1>2
  <2>4. CASE work[o].hop = 0 /\ own[box[o].ticket] = 0
    BY <2>1, <2>2, <2>4, <1>1, <1>2
  <2>5. CASE own[box[o].ticket] # 0
    BY <2>1, <2>2, <2>5, <1>2 DEF Linked
  <2> QED  BY <2>3, <2>4, <2>5
<1>3. CASE RetryOrDead(o) /\ own' = own
  BY <1>3, RetryOrDeadKeeps DEF Inv, World
<1> QED  BY <1>2, <1>3 DEF Linked

LEMMA GotKeeps ==
  ASSUME Inv, NEW o \in DOMAIN box, Got(o)
  PROVE  Inv'
<1>1. /\ work[o] # Idle /\ work[o].at = "got" /\ AsBefore /\ paused' \in BOOLEAN
      /\ own \in [Ticket -> Nat] /\ New \in Status
  BY DEF Got, Idle, AsBefore, bounds, Inv, World
<1>2. /\ box[o] \in Rows /\ box[o].kind # "update" /\ o \in Ops /\ box[o].ticket \in Ticket
      /\ BlankRow(o)
  BY <1>1, BoxDomain, BlankRowHolds DEF Inv, All, BoxOK, Progress, OnlyUpdatesEdit, Rows
<1>3. CASE box[o].kind = "transition"
  <2>1. Walk(o) /\ own' = own
    BY <1>3 DEF Got
  <2>2. All(box', work', drain', crashes, overtaken) /\ drain' \in Nat
    BY <1>1, <1>3, <2>1, WalkKeeps
  <2> QED  BY <1>1, <2>1, <2>2, AnswerKeeps
<1>4. CASE box[o].kind = "comment"
  <2>1. CommentRead(o) /\ own' = own
    BY <1>4 DEF Got
  <2>2. work[o].hop = posted[o] /\ posted[o] \in Nat
    BY <1>1, <1>2, <1>4 DEF Inv, World, All, JiraOK, CommentsOK
  <2>3. CASE Mark(o, "done")
    <3>1. All(box', work', drain', crashes, overtaken) /\ drain' \in Nat
      BY <1>1, <1>2, <2>3, MarkKeeps DEF Inv, World, BlankRow
    <3> QED  BY <1>1, <2>1, <3>1, AnswerKeeps
  <2>4. CASE Send(o, New) /\ ~(work[o].hop > 0)
    <3>1. All(box', work', drain', crashes, overtaken) /\ drain' \in Nat
      BY <1>1, <1>4, <2>2, <2>4, SendKeeps
    <3> QED  BY <1>1, <2>1, <3>1, AnswerKeeps
  <2> QED  BY <2>1, <2>3, <2>4 DEF CommentRead
<1>5. CASE box[o].kind = "create"
  <2>1. Searched(o)
    BY <1>5 DEF Got
  <2>2. /\ work[o].hop = issues[box[o].ticket] /\ issues[box[o].ticket] \in Nat
        /\ crashes \in Nat
    BY <1>1, <1>2, <1>5 DEF Inv, World, All, JiraOK, IssuesOK
  <2>3. CASE Linked(o)
    BY <1>1, <1>5, <2>2, <2>3, LinkedKeeps, AnswerKeeps
  <2>4. CASE Send(o, New) /\ own' = own /\ ~(work[o].hop > 0)
    <3>1. All(box', work', drain', crashes, overtaken) /\ drain' \in Nat
      BY <1>1, <1>5, <2>2, <2>4, SendKeeps
    <3> QED  BY <1>1, <2>4, <3>1, AnswerKeeps
  <2> QED  BY <2>1, <2>3, <2>4 DEF Searched
<1> QED  BY <1>2, <1>3, <1>4, <1>5 DEF Rows, Kinds

LEMMA AckedKeeps ==
  ASSUME Inv, NEW o \in DOMAIN box, Acked(o)
  PROVE  Inv'
<1>1. /\ work[o] # Idle /\ work[o].at = "acked" /\ AsBefore /\ paused' \in BOOLEAN
      /\ own \in [Ticket -> Nat]
  BY DEF Acked, Idle, AsBefore, bounds, Inv, World
<1>2. \A f \in Field : Written(box[o].ticket, f, box[o].edits[f])
  BY <1>1 DEF Inv, All, JiraOK, EditsOK, AckedOK
<1>3. CASE box[o].kind = "create"
  <2>1. Linked(o)
    BY <1>3 DEF Acked
  <2>2. work[o].hop \in Nat
    BY <1>1, <1>3 DEF Inv, All, JiraOK, IssuesOK
  <2> QED  BY <1>1, <1>3, <2>1, <2>2, LinkedKeeps, AnswerKeeps
<1>4. CASE box[o].kind = "transition" /\ work[o].hop # box[o].to
  <2> DEFINE x == work[o]
             y == [x EXCEPT !.at = "read"]
  <2>1. /\ work' = [work EXCEPT ![o] = y] /\ UNCHANGED <<box, drain, own>>
    BY <1>4 DEF Acked
  <2>2. x \in Doing
    BY <1>1, BoxDomain DEF Inv, All, BoxOK, Engaged
  <2>3. y = [x EXCEPT !.at = "read"]
    OBVIOUS
  <2> HIDE DEF x, y
  <2>4. y \in Doing /\ y.at = "read"
    BY <2>2, <2>3, DoingWithAt
  <2>5. All(box', work', drain', crashes, overtaken) /\ drain' \in Nat
    BY <1>1, <1>4, <2>1, <2>4, WorkKeeps
  <2> QED  BY <1>1, <2>1, <2>5, AnswerKeeps
<1>5. CASE /\ box[o].kind # "create"
           /\ ~(box[o].kind = "transition" /\ work[o].hop # box[o].to)
  <2>1. Mark(o, "done") /\ own' = own
    BY <1>5 DEF Acked
  <2>2. All(box', work', drain', crashes, overtaken) /\ drain' \in Nat
    BY <1>1, <1>2, <2>1, MarkKeeps DEF Inv, World
  <2> QED  BY <1>1, <2>1, <2>2, AnswerKeeps
<1> QED  BY <1>3, <1>4, <1>5

LEMMA FailureKeeps ==
  ASSUME Inv, NEW o \in DOMAIN box,
         Refused(o) \/ Unanswered(o) \/ Unauthorized(o) \/ Rejects(o)
  PROVE  Inv'
<1>1. /\ work[o] # Idle /\ AsBefore /\ paused' \in BOOLEAN /\ own' = own
      /\ own \in [Ticket -> Nat]
  <2>1. paused \in BOOLEAN /\ own \in [Ticket -> Nat]
    BY DEF Inv, World
  <2>2. CASE Refused(o)
    BY <2>1, <2>2 DEF Refused, Idle, AsBefore
  <2>3. CASE Unanswered(o)
    BY <2>1, <2>3 DEF Unanswered, Idle, AsBefore
  <2>4. CASE Unauthorized(o)
    BY <2>1, <2>4 DEF Unauthorized, Idle, AsBefore, bounds
  <2>5. CASE Rejects(o)
    BY <2>1, <2>5 DEF Rejects, Idle, AsBefore, bounds
  <2> QED  BY <2>1, <2>2, <2>3, <2>4, <2>5
<1>2. All(box', work', drain', crashes, overtaken) /\ drain' \in Nat
  <2>1. CASE Refused(o)
    <3>1. Mark(o, "dead") /\ work[o].at \in {"read", "write", "rest"}
      BY <2>1 DEF Refused
    <3>2. box[o].kind = "create" /\ box[o].attempts = 0 => issues[box[o].ticket] <= crashes
      BY <3>1 DEF Inv, All, Progress, JiraOK, IssuesOK
    <3> QED  BY <1>1, <3>1, <3>2, MarkKeeps DEF Inv, World
  <2>2. CASE Unanswered(o)
    BY <1>1, <2>2, RetryOrDeadKeeps DEF Unanswered, Inv, World
  <2>3. CASE Unauthorized(o)
    BY <1>1, <2>3, RetryKeeps DEF Unauthorized, Inv, World
  <2>4. CASE Rejects(o)
    BY <1>1, <2>4, MarkKeeps DEF Rejects, Inv, World
  <2> QED  BY <2>1, <2>2, <2>3, <2>4
<1> QED  BY <1>1, <1>2, AnswerKeeps

LEMMA PriorityRefusedKeeps ==
  ASSUME Inv, NEW o \in DOMAIN box, PriorityRefused(o)
  PROVE  Inv'
<1> DEFINE x == work[o]
           y == [x EXCEPT !.at = "rest"]
<1>1. /\ work' = [work EXCEPT ![o] = y] /\ UNCHANGED <<box, drain, own, paused>>
      /\ work[o] # Idle /\ box[o].kind = "update" /\ AsBefore
  BY DEF PriorityRefused, Idle, AsBefore, db
<1>2. x \in Doing
  BY <1>1, BoxDomain DEF Inv, All, BoxOK, Engaged
<1>3. y = [x EXCEPT !.at = "rest"]
  OBVIOUS
<1> HIDE DEF x, y
<1>4. y \in Doing /\ y.at = "rest"
  BY <1>2, <1>3, DoingWithAt
<1>5. All(box', work', drain', crashes, overtaken) /\ drain' \in Nat
  BY <1>1, <1>4, WorkKeeps
<1> QED  BY <1>1, <1>5, AnswerKeeps DEF Inv, World

-----------------------------------------------------------------------------
(* Jira answers a read, or does what a request asks of it.                 *)
LEMMA ReadsKeeps ==
  ASSUME Inv, NEW o \in DOMAIN box, Reads(o)
  PROVE  Inv'
<1> DEFINE x == work[o]
           y == [x EXCEPT !.at = "got"]
           z == [y EXCEPT !.hop = Read(o)]
<1>1. /\ work[o] # Idle /\ work[o].at = "read" /\ AsBefore /\ UNCHANGED <<box, drain, own>>
      /\ paused' \in BOOLEAN /\ own \in [Ticket -> Nat]
  BY DEF Reads, Idle, AsBefore, db, bounds, Inv, World
<1>2. /\ box[o] \in Rows /\ box[o].ticket \in Ticket /\ o \in Ops /\ x \in Doing
      /\ box[o].kind \in Kinds /\ box[o].kind # "update"
  BY <1>1, BoxDomain DEF Inv, All, BoxOK, Engaged, Progress, Rows
<1>3. /\ box[o].kind = "transition" => Read(o) = status[box[o].ticket]
      /\ box[o].kind = "comment" => Read(o) = posted[o]
      /\ box[o].kind = "create" => Read(o) = issues[box[o].ticket]
  BY DEF Read
<1>4. Read(o) \in Hop
  <2>1. /\ status[box[o].ticket] \in Status /\ posted[o] \in Nat
        /\ issues[box[o].ticket] \in Nat
    BY <1>2 DEF Inv, World
  <2> QED  BY <1>2, <1>3, <2>1 DEF Hop, Kinds
<1>5. work' = [work EXCEPT ![o] = z]
  BY DEF Reads
<1>6. y = [x EXCEPT !.at = "got"]
  OBVIOUS
<1>7. z = [y EXCEPT !.hop = Read(o)]
  OBVIOUS
<1> HIDE DEF x, y, z
<1>8. y \in Doing /\ y.at = "got"
  BY <1>2, <1>6, DoingWithAt
<1>9. z \in Doing /\ z.at = "got" /\ z.hop = Read(o)
  BY <1>4, <1>7, <1>8, DoingWithHop
<1>10. box[o].kind = "create" => box[o].attempts > 0
  BY <1>1 DEF Inv, All, Progress
<1>11. All(box', work', drain', crashes, overtaken) /\ drain' \in Nat
  BY <1>1, <1>2, <1>3, <1>5, <1>9, <1>10, WorkKeeps
<1> QED  BY <1>1, <1>11, AnswerKeeps

LEMMA MaxOfTwo ==
  ASSUME NEW a \in 0..MaxOps, NEW b \in 0..MaxOps
  PROVE  Max({a, b}) \in 0..MaxOps /\ Max({a, b}) >= a /\ Max({a, b}) >= b
<1>1. {a, b} \in SUBSET (0..MaxOps) /\ {a, b} # {} /\ MaxOps \in Nat
  OBVIOUS
<1> QED  BY <1>1, MaxOfBounded

(* A write puts no field behind what Jira shows, unless it is one of those *)
(* in which an edit was overtaken.                                         *)
LEMMA WritesFields ==
  ASSUME Inv, NEW o \in DOMAIN box, Writes(o)
  PROVE  /\ FieldsOK'
         /\ \A u \in Ticket : \A f \in Field :
              /\ text'[u][f] \in {text[u][f], box[o].edits[f]}
              /\ u # box[o].ticket \/ box[o].edits[f] = 0 => text'[u][f] = text[u][f]
         /\ \A u \in Ticket : dropped'[u] >= dropped[u]
         /\ \A f \in Field : Written(box[o].ticket, f, box[o].edits[f])'
<1> DEFINE t == box[o].ticket
           e == box[o].edits
           x == work[o]
           sent == IF x.at = "rest" THEN [e EXCEPT !["priority"] = 0] ELSE e
           fields == [f \in Field |-> IF sent[f] # 0 THEN sent[f] ELSE text[t][f]]
           p == IF x.at = "rest" THEN Max({dropped[t], e["priority"]}) ELSE dropped[t]
<1>1. /\ x.at \in {"write", "rest"} /\ text' = [text EXCEPT ![t] = fields]
      /\ dropped' = [dropped EXCEPT ![t] = p]
  BY DEF Writes
<1>2. /\ t \in Ticket /\ e \in Edits /\ text \in [Ticket -> Edits]
      /\ dropped \in [Ticket -> 0..MaxOps] /\ "priority" \in Field
  BY EditTypes DEF Inv, World, FieldsOK, All, Field
<1>3. \A f \in Field : sent[f] = IF x.at = "rest" /\ f = "priority" THEN 0 ELSE e[f]
  BY <1>2 DEF Edits
<1> HIDE DEF sent
<1>4. /\ fields \in Edits
      /\ \A f \in Field : /\ fields[f] = IF sent[f] # 0 THEN sent[f] ELSE text[t][f]
                          /\ fields[f] \in Nat /\ e[f] \in Nat
  <2>1. \A f \in Field : sent[f] \in 0..MaxOps /\ text[t][f] \in 0..MaxOps
    BY <1>2, <1>3 DEF Edits
  <2> QED  BY <1>2, <2>1 DEF Edits
<1>5. /\ p \in 0..MaxOps /\ p >= dropped[t]
      /\ x.at = "rest" => p >= e["priority"]
  <2>1. dropped[t] \in 0..MaxOps /\ e["priority"] \in 0..MaxOps
    BY <1>2 DEF Edits
  <2> QED  BY <2>1, MaxOfTwo
<1> HIDE DEF t, e, x, fields, p
<1>6. /\ text' \in [Ticket -> Edits] /\ dropped' \in [Ticket -> 0..MaxOps]
      /\ \A u \in Ticket : /\ text'[u] = IF u = t THEN fields ELSE text[u]
                           /\ dropped'[u] = IF u = t THEN p ELSE dropped[u]
  BY <1>1, <1>2, <1>4, <1>5
<1>7. ASSUME NEW f \in Field
      PROVE  text'[t][f] >= e[f] \/ (f = "priority" /\ dropped'[t] >= e[f])
  <2>1. CASE x.at = "rest" /\ f = "priority"
    BY <2>1, <1>2, <1>5, <1>6
  <2>2. CASE ~(x.at = "rest" /\ f = "priority")
    <3>1. sent[f] = e[f]
      BY <2>2, <1>3
    <3>2. text'[t][f] = fields[f]
      BY <1>2, <1>6
    <3> QED  BY <3>1, <3>2, <1>4
  <2> QED  BY <2>1, <2>2
<1>8. ASSUME NEW u \in Ticket, NEW f \in Field
      PROVE  /\ text'[u][f] \in {text[u][f], e[f]}
             /\ u # t \/ e[f] = 0 => text'[u][f] = text[u][f]
  BY <1>3, <1>4, <1>6
<1>9. \A u \in Ticket : dropped'[u] >= dropped[u]
  <2>1. \A u \in Ticket : dropped[u] \in Nat
    BY <1>2
  <2> QED  BY <2>1, <1>5, <1>6
<1>10. UNCHANGED box
  BY DEF Writes, db
<1> QED  BY <1>6, <1>7, <1>8, <1>9, <1>10 DEF FieldsOK, Written, t, e

LEMMA WritesEdits ==
  ASSUME Inv, NEW o \in DOMAIN box, Writes(o),
         work[o] # Idle, \A i \in DOMAIN box \ {o} : work'[i] = work[i]
  PROVE  EditsOK(box, work, overtaken)'
<1> DEFINE t == box[o].ticket
           e == box[o].edits
<1>1. UNCHANGED <<box, overtaken>>
  BY DEF Writes, db
<1>2. /\ EditsOK(box, work, overtaken) /\ BoxOK(box)
      /\ Engaged(box, work, drain) /\ box[o].state = "inflight"
      /\ \A i \in DOMAIN box : work[i] # Idle => box[i].state = "inflight"
  BY BoxDomain DEF Inv, All, JiraOK, BoxOK, Engaged
<1>3. /\ DOMAIN box \subseteq Nat /\ t \in Ticket
      /\ \A i \in DOMAIN box :
           /\ box[i].ticket \in Ticket
           /\ \A f \in Field : /\ box[i].edits[f] \in Nat
                               /\ box[i].edits[f] # 0 => box[i].kind = "update"
  BY <1>2, EditTypes
<1>4. \A u \in Ticket : /\ dropped[u] \in Nat /\ dropped'[u] \in Nat
                        /\ \A f \in Field : text[u][f] \in Nat /\ text'[u][f] \in Nat
  BY WritesFields DEF Inv, World, FieldsOK, Edits
<1>5. \A u \in Ticket : \A f \in Field :
        /\ text'[u][f] \in {text[u][f], e[f]}
        /\ u # t \/ e[f] = 0 => text'[u][f] = text[u][f]
  BY WritesFields
<1>6. \A u \in Ticket : dropped'[u] >= dropped[u]
  BY WritesFields
<1>7. ASSUME NEW i \in DOMAIN box \ {o}, box[i].ticket = t, box[i].kind = "update",
             box[i].state = "inflight", NEW f \in Field
      PROVE  e[f] = 0
  BY <1>2, <1>3, <1>7 DEF BoxOK, OneAtATime, SameIssue
<1>8. ASSUME NEW f \in Field, e[f] # 0, <<t, f>> \notin overtaken
      PROVE  text[t][f] <= e[f]
  BY <1>2, <1>8 DEF EditsOK, Ahead, Live
<1>9. InTurn(box, overtaken)'
  BY <1>1, <1>2 DEF EditsOK, InTurn
<1>10. Ahead(box, overtaken)'
  <2> SUFFICES ASSUME NEW i \in DOMAIN box, NEW f \in Field, box[i].state \in Live,
                      box[i].edits[f] # 0, <<box[i].ticket, f>> \notin overtaken
               PROVE  text'[box[i].ticket][f] <= box[i].edits[f]
    BY <1>1 DEF Ahead
  <2>1. text[box[i].ticket][f] <= box[i].edits[f]
    BY <1>2 DEF EditsOK, Ahead
  <2>2. CASE box[i].ticket # t \/ e[f] = 0
    BY <2>1, <2>2, <1>3, <1>5
  <2>3. CASE box[i].ticket = t /\ e[f] # 0
    <3>1. e[f] <= box[i].edits[f]
      <4>1. CASE i = o
        BY <4>1, <1>3
      <4>2. CASE o < i
        BY <4>2, <2>3, <1>2 DEF EditsOK, InTurn
      <4>3. CASE i < o
        <5>1. box[i].state = "pending"
          BY <4>3, <2>3, <1>3, <1>7 DEF Live
        <5> QED  BY <4>3, <5>1, <2>3, <1>2 DEF EditsOK, InTurn
      <4> QED  BY <4>1, <4>2, <4>3, <1>3
    <3> QED  BY <2>1, <2>3, <3>1, <1>3, <1>5
  <2> QED  BY <2>2, <2>3
<1>11. NoneLost(box, overtaken)'
  <2> SUFFICES ASSUME NEW i \in DOMAIN box, NEW f \in Field,
                      <<box[i].ticket, f>> \notin overtaken
               PROVE  Stored(box, box[i].ticket, f, box[i].edits[f])'
    BY <1>1 DEF NoneLost
  <2>1. Stored(box, box[i].ticket, f, box[i].edits[f])
    BY <1>2 DEF EditsOK, NoneLost
  <2>2. text'[box[i].ticket][f] >= text[box[i].ticket][f]
    <3>1. CASE box[i].ticket # t \/ e[f] = 0
      BY <3>1, <1>3, <1>4, <1>5
    <3>2. CASE box[i].ticket = t /\ e[f] # 0
      BY <3>2, <1>3, <1>4, <1>5, <1>8
    <3> QED  BY <3>1, <3>2
  <2>3. Written(box[i].ticket, f, box[i].edits[f]) =>
          Written(box[i].ticket, f, box[i].edits[f])'
    BY <2>2, <1>1, <1>3, <1>4, <1>6 DEF Written
  <2> QED  BY <2>1, <2>3, <1>1 DEF Stored, Stands
<1>12. Sourced(box)'
  <2> SUFFICES ASSUME NEW u \in Ticket, NEW f \in Field, text'[u][f] # 0
               PROVE  \E i \in DOMAIN box :
                        box[i].ticket = u /\ box[i].edits[f] >= text'[u][f]
    BY <1>1 DEF Sourced
  <2>1. CASE text'[u][f] = text[u][f]
    BY <2>1, <1>2 DEF EditsOK, Sourced
  <2>2. CASE u = t /\ text'[u][f] = e[f]
    BY <2>2, <1>3
  <2> QED  BY <2>1, <2>2, <1>5
<1>13. AckedOK(box, work)'
  <2> SUFFICES ASSUME NEW i \in DOMAIN box, NEW f \in Field, work'[i].at = "acked"
               PROVE  Written(box[i].ticket, f, box[i].edits[f])'
    BY <1>1 DEF AckedOK
  <2>1. CASE i = o
    BY <2>1, WritesFields
  <2>2. CASE i # o
    <3>1. work[i].at = "acked" /\ work[i] # Idle
      BY <2>2 DEF Idle
    <3>2. Written(box[i].ticket, f, box[i].edits[f]) /\ box[i].state = "inflight"
      BY <3>1, <1>2 DEF EditsOK, AckedOK
    <3>3. CASE box[i].edits[f] = 0
      BY <3>3, <1>1, <1>3, <1>4 DEF Written
    <3>4. CASE box[i].edits[f] # 0
      <4>1. box[i].ticket # t \/ e[f] = 0
        BY <2>2, <3>2, <3>4, <1>3, <1>7
      <4>2. text'[box[i].ticket][f] = text[box[i].ticket][f]
        BY <4>1, <1>3, <1>5
      <4> QED  BY <3>2, <4>2, <1>1, <1>3, <1>4, <1>6 DEF Written
    <3> QED  BY <3>3, <3>4
  <2> QED  BY <2>1, <2>2
<1> QED  BY <1>9, <1>10, <1>11, <1>12, <1>13 DEF EditsOK

(* A transition is newer than any made before it, a comment is the first   *)
(* of its row, and an issue is the first, or the previous one cost a death.*)
LEMMA WritesKeeps ==
  ASSUME Inv, NEW o \in DOMAIN box, Writes(o)
  PROVE  /\ Inv'
         /\ \A t \in Ticket : newest'[t] >= newest[t]
<1> DEFINE t == box[o].ticket
           k == box[o].kind
           x == work[o]
           y == [x EXCEPT !.at = "acked"]
           h == IF k = "create" THEN issues[t] + 1 ELSE x.hop
           z == [y EXCEPT !.hop = h]
<1>1. /\ x # Idle /\ x.at \in {"write", "rest"} /\ UNCHANGED <<box, drain, own>>
      /\ UNCHANGED <<twins, cache, highWater, stored, paused, poll, token, overtaken,
                     events, crashes>>
  BY DEF Writes, Idle, db, bounds
<1>2. /\ box[o] \in Rows /\ t \in Ticket /\ o \in Ops /\ x \in Doing /\ k \in Kinds
      /\ DOMAIN box \subseteq Ops
      /\ work \in [Ops -> {Idle} \cup Doing]
      /\ box[o].state = "inflight"
  BY <1>1, BoxDomain DEF Inv, All, BoxOK, Engaged, Rows
<1>3. /\ issues \in [Ticket -> Nat] /\ posted \in [Ops -> Nat] /\ crashes \in Nat
      /\ newest \in [Ticket -> 0..MaxOps] /\ status \in [Ticket -> Status]
      /\ All(box, work, drain, crashes, overtaken)
  BY DEF Inv, World
<1>4. /\ issues' = [issues EXCEPT ![t] = IF k = "create" THEN @ + 1 ELSE @]
      /\ posted' = [posted EXCEPT ![o] = IF k = "comment" THEN @ + 1 ELSE @]
      /\ newest' = [newest EXCEPT ![t] = IF k = "transition" THEN o ELSE @]
      /\ status' = [status EXCEPT ![t] = IF k = "transition" THEN x.hop ELSE @]
      /\ k = "transition" => x.hop \in Status
  BY DEF Writes
<1>5. work' = [work EXCEPT ![o] = z]
  BY DEF Writes
<1>6. y = [x EXCEPT !.at = "acked"]
  OBVIOUS
<1>7. z = [y EXCEPT !.hop = h]
  OBVIOUS
<1>8. h = IF k = "create" THEN issues[t] + 1 ELSE x.hop
  OBVIOUS
<1>9. updated' \in [Ticket -> Nat]
  BY <1>2, TouchType DEF Inv, Writes
<1> HIDE DEF x, y, z, h
<1>10. y \in Doing /\ y.at = "acked"
  BY <1>2, <1>6, DoingWithAt
<1>11. h \in Hop /\ (k = "create" => h = issues[t] + 1 /\ h \in Nat)
  BY <1>2, <1>3, <1>10, <1>8 DEF Hop, Doing
<1>12. z \in Doing /\ z.at = "acked" /\ z.hop = h /\ z # Idle
  BY <1>11, <1>7, <1>10, DoingWithHop DEF Idle
<1>13. /\ work' \in [Ops -> {Idle} \cup Doing]
       /\ \A i \in Ops : work'[i] = IF i = o THEN z ELSE work[i]
       /\ k # "update" => x.at = "write"
  <2>1. x.at = "rest" => k = "update"
    BY <1>3 DEF All, Progress, x
  <2> QED  BY <1>1, <1>2, <1>5, <1>12, <2>1
<1>14. /\ issues' \in [Ticket -> Nat] /\ posted' \in [Ops -> Nat]
       /\ newest' \in [Ticket -> 0..MaxOps] /\ FieldsOK'
       /\ status' \in [Ticket -> Status]
  BY <1>2, <1>3, <1>4, WritesFields DEF Ops
<1>15. World'
  BY <1>1, <1>9, <1>14 DEF Inv, World, PollOK
<1>16. Engaged(box, work', drain) /\ Progress(box, work')
  BY <1>2, <1>3, <1>12, <1>13, <1>1 DEF All, Engaged, Progress, x
<1>17. EditsOK(box, work, overtaken)'
  BY <1>1, <1>2, <1>13, WritesEdits DEF x
<1>18. /\ NewestOK(box)'
       /\ \A u \in Ticket : newest'[u] >= newest[u]
  <2>1. DOMAIN box \subseteq Nat
    BY <1>3, BoxDomain DEF All, BoxOK
  <2>2. CASE k # "transition"
    <3>1. newest' = newest
      BY <2>2, <1>3, <1>4
    <3> QED  BY <3>1, <1>1, <1>3 DEF All, JiraOK, NewestOK
  <2>3. CASE k = "transition"
    <3>1. \A u \in Ticket : newest'[u] = IF u = t THEN o ELSE newest[u]
      BY <2>3, <1>2, <1>3, <1>4
    <3>2. newest[t] <= o
      BY <2>3, <1>2, <1>3 DEF All, JiraOK, NewestOK, Is, Live
    <3>3. ASSUME NEW i \in DOMAIN box, Is(box, i, "transition", t), box[i].state \in Live
          PROVE  o <= i
      <4> SUFFICES ASSUME i < o PROVE FALSE
        BY <2>1
      <4>1. box[i].state # "pending"
        BY <1>2, <1>3, <2>3, <3>3 DEF All, BoxOK, InOrder, Is
      <4>2. SameIssue(box, o, i) /\ i # o
        BY <2>1, <2>3, <3>3 DEF SameIssue, Is
      <4> QED  BY <4>1, <4>2, <1>2, <1>3, <3>3 DEF All, BoxOK, OneAtATime, Live
    <3>4. Is(box, o, "transition", t) /\ o \in DOMAIN box
      BY <2>3 DEF Is
    <3>5. NewestOK(box)'
      BY <1>1, <1>3, <3>1, <3>3, <3>4 DEF All, JiraOK, NewestOK, Is
    <3> QED  BY <1>3, <3>1, <3>2, <3>5
  <2> QED  BY <2>2, <2>3
<1>19. CommentsOK(box, work)'
  <2>1. k = "comment" => posted[o] = 0
    BY <1>3, <1>13 DEF All, JiraOK, CommentsOK, x
  <2>2. \A i \in Ops : posted'[i] = IF i = o /\ k = "comment" THEN 1 ELSE posted[i]
    BY <1>2, <1>3, <1>4, <2>1
  <2>3. \A i \in Ops : posted'[i] <= 1 /\ (posted'[i] # 0 => i \in DOMAIN box)
    BY <1>3, <2>2 DEF All, JiraOK, CommentsOK
  <2>4. \A i \in DOMAIN box : box[i].kind = "comment" =>
          /\ work'[i].at = "write" => posted'[i] = 0
          /\ work'[i].at = "got" => work'[i].hop = posted'[i]
    BY <1>2, <1>3, <1>12, <1>13, <2>2 DEF All, JiraOK, CommentsOK
  <2> QED  BY <1>1, <2>3, <2>4 DEF CommentsOK
<1>20. IssuesOK(box, work, crashes)'
  <2>1. k = "create" => issues[t] <= crashes
    BY <1>3, <1>13 DEF All, JiraOK, IssuesOK, x
  <2>2. \A u \in Ticket : issues'[u] = IF u = t /\ k = "create" THEN issues[t] + 1
                                       ELSE issues[u]
    BY <1>2, <1>3, <1>4
  <2>3. \A u \in Ticket : issues'[u] <= 1 + crashes
    BY <1>2, <1>3, <2>1, <2>2 DEF All, JiraOK, IssuesOK
  <2>4. \A u \in Ticket :
          own[u] = 0 /\ (\A i \in DOMAIN box : ~Is(box, i, "create", u)) => issues'[u] = 0
    BY <1>3, <2>2 DEF All, JiraOK, IssuesOK, Is
  <2>5. \A i \in DOMAIN box : box[i].ticket \in Ticket
    BY <1>3, BoxDomain DEF All, BoxOK, Rows
  <2>6. ASSUME NEW i \in DOMAIN box, box[i].kind = "create"
        PROVE  /\ work'[i].at = "write" => issues'[box[i].ticket] <= crashes
               /\ work'[i].at = "got" => work'[i].hop = issues'[box[i].ticket]
               /\ work'[i].at = "acked" => work'[i].hop \in Nat
               /\ box[i].state \in {"pending", "dead"} /\ box[i].attempts = 0
                    => issues'[box[i].ticket] <= crashes
    <3>1. CASE i = o
      BY <3>1, <2>6, <1>2, <1>11, <1>12, <1>13
    <3>2. CASE i # o
      <4>1. issues'[box[i].ticket] = issues[box[i].ticket]
        BY <3>2, <2>2, <2>5, <2>6, <1>3 DEF All, BoxOK, OneCreation
      <4>2. work'[i] = work[i]
        BY <3>2, <1>2, <1>13
      <4> QED  BY <4>1, <4>2, <2>6, <1>3 DEF All, JiraOK, IssuesOK
    <3> QED  BY <3>1, <3>2
  <2> QED  BY <1>1, <2>3, <2>4, <2>6 DEF IssuesOK, Is
<1>21. All(box, work, drain, crashes, overtaken)'
  BY <1>1, <1>3, <1>16, <1>17, <1>18, <1>19, <1>20 DEF All, JiraOK
<1> QED  BY <1>15, <1>18, <1>21 DEF Inv

-----------------------------------------------------------------------------
LEMMA InitInv == Init => Inv
<1> SUFFICES ASSUME Init PROVE Inv
  OBVIOUS
<1>1. /\ box = <<>> /\ DOMAIN box = {} /\ box \in Seq(Rows) /\ Len(box) = 0
  BY DEF Init
<1>2. \A o \in Ops : work[o] = Idle /\ posted[o] = 0
  BY DEF Init
<1>3. World
  <2>1. own \in [Ticket -> Nat] /\ issues = own /\ updated = own
    BY DEF Init
  <2>2. /\ twins \in [Ticket -> SUBSET Nat] /\ cache \in [Ticket -> Status]
        /\ status \in [Ticket -> Status] /\ FieldsOK
        /\ posted \in [Ops -> Nat] /\ newest \in [Ticket -> 0..MaxOps]
        /\ overtaken \subseteq Ticket \X Field
    BY BlankIsBlank DEF Init, FieldsOK
  <2>3. PollOK
    BY DEF Init, PollOK
  <2>4. highWater = 0 /\ stored = 1 /\ token = 1 /\ drain = 0 /\ crashes = 0
    BY DEF Init
  <2>5. issues \in [Ticket -> Nat] /\ updated \in [Ticket -> Nat]
    BY <2>1
  <2>6. /\ highWater \in Nat /\ stored \in Nat \ {0} /\ token \in Nat \ {0}
        /\ drain \in Nat /\ crashes \in Nat
    BY <2>4
  <2>7. paused \in BOOLEAN
    BY DEF Init
  <2> QED  BY <2>1, <2>2, <2>3, <2>5, <2>6, <2>7 DEF World
<1>4. BoxOK(box) /\ Engaged(box, work, drain) /\ Progress(box, work)
  <2>1. work \in [Ops -> {Idle} \cup Doing]
    BY DEF Init
  <2> QED  BY <1>1, <1>2, <2>1 DEF BoxOK, RowsOK, OneAtATime, InOrder, OneCreation,
             OnlyUpdatesEdit, Engaged, Progress
<1>5. EditsOK(box, work, overtaken) /\ CommentsOK(box, work)
  <2>1. Sourced(box)
    BY DEF Init, Sourced, Blank
  <2> QED  BY <1>1, <1>2, <2>1 DEF EditsOK, InTurn, Ahead, NoneLost, AckedOK, CommentsOK
<1>6. NewestOK(box)
  BY <1>1 DEF NewestOK, Init
<1>7. IssuesOK(box, work, crashes)
  <2>1. crashes = 0 /\ issues = own /\ \A t \in Ticket : own[t] \in {0, 1}
    BY DEF Init
  <2> QED  BY <1>1, <2>1 DEF IssuesOK
<1> QED  BY <1>3, <1>4, <1>5, <1>6, <1>7 DEF Inv, All, JiraOK

(* A step of any action but a write leaves the transitions made alone.     *)
LEMMA NextInv ==
  ASSUME Inv, Next
  PROVE  Inv' /\ \A t \in Ticket : newest'[t] >= newest[t]
<1>0. newest' = newest => \A t \in Ticket : newest'[t] >= newest[t]
  BY DEF Inv, World
<1>1. ASSUME NEW t \in Ticket, NEW s \in Status,
             Move(t, s) \/ Report(t, s) \/ PersonMoves(t, s)
      PROVE  Inv' /\ newest' = newest
  BY <1>1, MoveKeeps, ReportKeeps, PersonMovesKeeps DEF Move, Report, PersonMoves, jira
<1>2. ASSUME NEW t \in Ticket, Edit(t) \/ Promote(t)
      PROVE  Inv' /\ newest' = newest
  BY <1>2, EditKeeps, PromoteKeeps DEF Edit, Promote, jira
<1>3. ASSUME NEW i \in DOMAIN box, RetryDead(i) \/ Elapse(i)
      PROVE  Inv' /\ newest' = newest
  BY <1>3, RetryDeadKeeps, ElapseKeeps DEF RetryDead, Elapse, jira
<1>4. ASSUME NEW o \in DOMAIN box, Got(o) \/ Acked(o) \/ Reads(o)
      PROVE  Inv' /\ newest' = newest
  BY <1>4, GotKeeps, AckedKeeps, ReadsKeeps DEF Got, Acked, Reads, jira
<1>5. ASSUME NEW o \in DOMAIN box,
             \/ PriorityRefused(o) \/ Refused(o) \/ Unanswered(o)
             \/ Unauthorized(o) \/ Rejects(o)
      PROVE  Inv' /\ newest' = newest
  BY <1>5, PriorityRefusedKeeps, FailureKeeps
  DEF PriorityRefused, Refused, Unanswered, Unauthorized, Rejects, jira
<1>6. ASSUME NEW o \in DOMAIN box, Writes(o)
      PROVE  Inv' /\ \A t \in Ticket : newest'[t] >= newest[t]
  BY <1>6, WritesKeeps
<1>7. CASE StartDrain \/ Reauthenticate \/ Revoke \/ Crash
  <2>1. Inv'
    BY <1>7, StartDrainKeeps, ReauthenticateKeeps, RevokeKeeps, CrashKeeps
  <2>2. newest' = newest
    BY <1>7 DEF StartDrain, Reauthenticate, Revoke, Crash, jira
  <2> QED  BY <2>1, <2>2, <1>0
<1>8. CASE StartPoll \/ Search \/ Upsert \/ PollFails \/ PollUnauthorized
  <2>1. newest' = newest
    BY <1>8 DEF StartPoll, Search, Upsert, PollFails, PollUnauthorized, jira
  <2> QED  BY <2>1, <1>0, <1>8, PollKeeps
<1> QED  BY <1>0, <1>1, <1>2, <1>3, <1>4, <1>5, <1>6, <1>7, <1>8 DEF Next, Answer

LEMMA InvHolds == Spec => []Inv
<1>1. Inv /\ UNCHANGED vars => Inv'
  <2> SUFFICES ASSUME Inv, UNCHANGED vars PROVE Inv'
    OBVIOUS
  <2>1. World'
    BY DEF Inv, World, FieldsOK, PollOK, vars, db, memory, jira, bounds
  <2> QED  BY <2>1, AsideKeeps DEF vars, db, memory, jira, bounds
<1>2. Inv /\ [Next]_vars => Inv'
  BY <1>1, NextInv
<1> QED  BY InitInv, <1>2, PTL DEF Spec

-----------------------------------------------------------------------------
(* For any tickets, workflow, number of rows, failures and deaths, the     *)
(* outbox and the drain agree on what is in flight, one row of an issue at *)
(* a time; and Jira shows each edit of a field or a newer one, or a row    *)
(* will bring it there or is shown as failed, whatever is folded, retired, *)
(* retried or sent again.  Two cases are excepted: a priority that Jira    *)
(* has refused, and a field of which a fold or a retry by hand has put an  *)
(* edit behind a newer one (claimDrainable, enqueueHeldUpdate,             *)
(* executeUpdate, reconcileSupersededTransitions).                         *)
THEOREM ConsistentHolds == Spec => []Consistent
<1>1. Inv => Consistent
  <2> SUFFICES ASSUME Inv PROVE Consistent
    OBVIOUS
  <2>1. /\ RowsOK(box) /\ DOMAIN box \subseteq Ops /\ All(box, work, drain, crashes, overtaken)
    BY BoxDomain DEF Inv, All, BoxOK
  <2>2. \A o \in Ops : work[o].at \in {"none", "read", "got", "write", "rest", "acked"}
    BY <2>1 DEF All, Engaged, Idle, Doing
  <2>3. poll.at \in {"none", "sent", "got"}
    BY DEF Inv, World, PollOK, NoPoll
  <2>4. TypeOK
    BY <2>1, <2>2, <2>3 DEF Inv, World, FieldsOK, TypeOK, RowsOK
  <2>5. Exclusive
    BY <2>1 DEF All, BoxOK, OneAtATime, Engaged, Exclusive
  <2>6. EditsKept
    <3>1. NoneLost(box, overtaken)
      BY <2>1 DEF All, JiraOK, EditsOK
    <3>2. \A t \in Ticket : \A f \in Field : \A e \in Nat :
            Stored(box, t, f, e) => Kept(t, f, e)
      BY DEF Stored, Written, Stands, Kept
    <3>3. \A i \in DOMAIN box : /\ box[i].ticket \in Ticket
                               /\ \A f \in Field : box[i].edits[f] \in Nat
      BY <2>1, EditTypes DEF All
    <3> QED  BY <3>1, <3>2, <3>3 DEF NoneLost, EditsKept
  <2> QED  BY <2>4, <2>5, <2>6 DEF Consistent
<1> QED  BY <1>1, InvHolds, PTL

(* However often answers are lost, rows retried and the server killed, a   *)
(* comment is posted once, and each further issue of a ticket cost a death *)
(* of the server (executeComment, createLinkedIssue).                      *)
THEOREM SentOnceHolds == Spec => []SentOnce
<1>1. Inv => SentOnce
  BY DEF Inv, All, JiraOK, CommentsOK, IssuesOK, SentOnce
<1> QED  BY <1>1, InvHolds, PTL

(* Jira never goes back from a newer intention to an older one, for any    *)
(* number of rows and of retries by hand                                   *)
(* (reconcileSupersededTransitions, retryDeadOutbox).                      *)
THEOREM NewestWinsHolds == Spec => NewestWins
<1>1. Inv /\ [Next]_vars => [\A t \in Ticket : newest'[t] >= newest[t]]_vars
  BY NextInv
<1> QED  BY <1>1, InvHolds, PTL DEF Spec, NewestWins
=============================================================================
