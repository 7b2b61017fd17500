------------------------- MODULE ProjectRegistryProofs -------------------------
(***************************************************************************)
(* What holds of the catalogue of projects and of the admission leases for *)
(* any number of projects, routes, removals, restarts and locks.           *)
(***************************************************************************)
EXTENDS ProjectRegistry, TLAPS

(* What the registry keeps in memory belongs to a row of the catalogue.    *)
Catalogued ==
  /\ contexts \subseteq rows /\ timers \subseteq rows
  /\ \A p \in Projects : failed[p] # "none" => p \in rows

(* AdmittedMeansRecovered without the barrier of the application, which a  *)
(* restart lifts.                                                          *)
Recovered ==
  \A p \in rows : p \notin closed => chain[p] = "done" /\ p \in contexts \cap open

(* A lease that is level with its project's generation was captured from   *)
(* the context that is there, and no removal was tried since.              *)
Level(r) ==
  LET p == request[r].project
  IN  p \notin closed /\ generation[p] = request[r].generation

LeasesHold ==
  \A r \in Requests : request[r].at = "held" =>
    /\ request[r].generation <= generation[request[r].project]
    /\ Level(r) =>
         /\ request[r].project \in contexts \cap open
         /\ request[r].attempt = attempts[request[r].project]

Barrier == shuttingDown => ~appOpen

Inv == /\ TypeOK /\ CatalogueAccounted /\ Catalogued
       /\ Recovered /\ LeasesHold /\ Barrier

-----------------------------------------------------------------------------
(* The outcomes of loading a set of projects, and what a load assigns.     *)
LEMMA OutcomeType ==
  ASSUME NEW ps, NEW out \in Outcomes(ps)
  PROVE  /\ DOMAIN out = ps
         /\ \A p \in ps : out[p] \in {"busy", "unopened", "broken", "late", "ok"}
BY DEF Outcomes

(* A context is registered with its handle open; a locked database leaves  *)
(* no handle, and a data directory remains of every load that opened one.  *)
LEMMA LoadLeaves ==
  ASSUME NEW ps, NEW out \in Outcomes(ps)
  PROVE  /\ Registered(out) \subseteq Opened(out) /\ Opened(out) \subseteq ps
         /\ \A p \in ps :
              /\ p \in Registered(out) <=> out[p] \in {"late", "ok"}
              /\ p \in Reaching(out, {"busy"}) <=> out[p] = "busy"
              /\ out[p] = "busy" => p \notin Opened(out)
         /\ Reaching(out, {"busy"}) \subseteq ps
         /\ \A d \in DataAfter(out) : d \subseteq data \cup ps /\ data \cup Registered(out) \subseteq d
BY OutcomeType DEF Registered, Opened, Reaching, DataAfter

(* What the failure list says of an outcome, and where its chain stands.   *)
LEMMA FailureOf ==
  /\ \A o \in {"busy", "unopened", "broken", "late", "ok"} :
       /\ Failure(o) \in {"none", "busy", "broken"}
       /\ Failure(o) = "busy" <=> o = "busy"
       /\ Failure(o) = "none" <=> o = "ok"
BY DEF Failure

LEMMA ChainOf ==
  ASSUME NEW ps \in SUBSET Projects, NEW out \in Outcomes(ps),
         NEW others \in [Projects -> Chains]
  PROVE  /\ ChainAfter(out, others) \in [Projects -> Chains]
         /\ \A p \in ps : out[p] = "late" => ChainAfter(out, others)[p] = "failed"
         /\ \A p \in Projects \ ps : ChainAfter(out, others)[p] = others[p]
<1>1. {"probe", "failed"} \subseteq Chains
  BY DEF Chains, Awaiting, Stages
<1> QED
  BY <1>1, OutcomeType DEF ChainAfter, Reaching

LEMMA BumpType ==
  ASSUME generation \in [Projects -> Nat], NEW ps \in SUBSET Projects
  PROVE  /\ Bump(generation, ps) \in [Projects -> Nat]
         /\ \A p \in ps : Bump(generation, ps)[p] = generation[p] + 1
         /\ \A p \in Projects \ ps : Bump(generation, ps)[p] = generation[p]
<1>1. \A p \in Projects :
        Bump(generation, ps)[p] = IF p \in ps THEN generation[p] + 1 ELSE generation[p]
  BY DEF Bump
<1>2. ASSUME NEW p \in Projects PROVE generation[p] \in Nat /\ generation[p] + 1 \in Nat
  OBVIOUS
<1>3. Bump(generation, ps) \in [Projects -> Nat]
  BY <1>2 DEF Bump
<1> QED
  BY <1>1, <1>3

LEMMA StagesAre ==
  /\ Awaiting = {"probe", "worktrees", "flows", "effects", "stashes"}
  /\ \A s \in Awaiting : After(s) \in Chains
<1>1. DOMAIN Stages = 1..5
  BY DEF Stages
<1>2. Awaiting = {"probe", "worktrees", "flows", "effects", "stashes"}
  BY <1>1 DEF Awaiting, Stages
<1>3. ASSUME NEW s \in Awaiting PROVE After(s) \in Chains
  <2>1. PICK j \in DOMAIN Stages : Stages[j] = s
    BY DEF Awaiting
  <2> DEFINE i == CHOOSE k \in DOMAIN Stages : Stages[k] = s
  <2>2. i \in DOMAIN Stages
    BY <2>1
  <2>3. Len(Stages) = 5
    BY DEF Stages
  <2>4. i = 5 \/ i + 1 \in DOMAIN Stages
    BY <1>1, <2>2
  <2>5. CASE i = 5
    BY <2>3, <2>5 DEF After, Chains
  <2>6. CASE i # 5
    <3>1. After(s) = Stages[i + 1]
      BY <2>3, <2>6 DEF After
    <3>2. Stages[i + 1] \in Awaiting
      BY <2>4, <2>6 DEF Awaiting
    <3> QED
      BY <3>1, <3>2 DEF Chains
  <2> QED
    BY <2>5, <2>6
<1> QED
  BY <1>2, <1>3

LEMMA ChainTypes == {"none", "probe", "done", "failed", "stopped"} \subseteq Chains
BY StagesAre DEF Chains

(* The types, group by group.                                              *)
DurableTypes ==
  ever \subseteq Projects /\ rows \subseteq ever /\ data \subseteq ever /\ leftover \subseteq rows
EnvironmentTypes ==
  locked \subseteq Projects /\ locks \in 0..MaxLocks /\ restarts \in 0..MaxRestarts
RegistryTypes ==
  /\ contexts \subseteq ever /\ open \subseteq ever
  /\ failed \in [Projects -> {"none", "busy", "broken"}] /\ timers \subseteq ever
  /\ chain \in [Projects -> Chains] /\ stopped \subseteq contexts
AdmissionTypes ==
  /\ closed \subseteq Projects /\ generation \in [Projects -> Nat]
  /\ appOpen \in BOOLEAN /\ shuttingDown \in BOOLEAN
AttemptTypes == attempts \in [Projects -> 0..MaxAttempts]
RequestTypes == request \in [Requests -> {Idle} \cup Held \cup Ended]

LEMMA TypeGroups ==
  TypeOK <=> /\ DurableTypes /\ EnvironmentTypes /\ RegistryTypes
             /\ AdmissionTypes /\ AttemptTypes /\ RequestTypes
BY DEF TypeOK, DurableTypes, EnvironmentTypes, RegistryTypes, AdmissionTypes,
       AttemptTypes, RequestTypes

LEMMA TypeGroupsNext ==
  ASSUME DurableTypes', EnvironmentTypes', RegistryTypes',
         AdmissionTypes', AttemptTypes', RequestTypes'
  PROVE  TypeOK'
BY DEF TypeOK, DurableTypes, EnvironmentTypes, RegistryTypes, AdmissionTypes,
       AttemptTypes, RequestTypes

(* A request is held with a project, a generation and an attempt.          *)
LEMMA HeldRequest ==
  ASSUME RequestTypes, NEW r \in Requests, request[r].at = "held"
  PROVE  request[r] \in Held
BY DEF RequestTypes, Idle, Held, Ended

-----------------------------------------------------------------------------
(* Leases while admission is closed, or opened, for some projects, and the *)
(* contexts and attempts of no other project change.                       *)
LEMMA LeasesSurvive ==
  ASSUME TypeOK, LeasesHold, request' = request,
         NEW ps \in SUBSET Projects,
         generation' = Bump(generation, ps),
         \A q \in Projects \ ps :
           /\ q \in closed <=> q \in closed'
           /\ q \in contexts \cap open => q \in contexts' \cap open'
           /\ attempts'[q] = attempts[q] \/ q \notin contexts
  PROVE  LeasesHold'
<1> SUFFICES ASSUME NEW r \in Requests, request[r].at = "held"
             PROVE  /\ request[r].generation <= generation'[request[r].project]
                    /\ Level(r)' =>
                         /\ request[r].project \in contexts' \cap open'
                         /\ request[r].attempt = attempts'[request[r].project]
  BY DEF LeasesHold
<1> DEFINE p == request[r].project
           g == request[r].generation
<1>1. request[r] \in Held
  BY HeldRequest, TypeGroups
<1>2. p \in Projects /\ g \in Nat
  BY <1>1 DEF Held
<1>3. /\ g <= generation[p]
      /\ Level(r) => p \in contexts \cap open /\ request[r].attempt = attempts[p]
  BY DEF LeasesHold
<1>4. generation[p] \in Nat
  BY <1>2 DEF TypeOK
<1>5. /\ p \in ps => generation'[p] = generation[p] + 1
      /\ p \notin ps => generation'[p] = generation[p]
  BY <1>2, BumpType DEF TypeOK
<1>6. g <= generation'[p]
  BY <1>2, <1>3, <1>4, <1>5
<1>7. ASSUME Level(r)' PROVE p \in contexts' \cap open' /\ request[r].attempt = attempts'[p]
  <2>1. p \notin closed' /\ generation'[p] = g
    BY <1>7 DEF Level
  <2>2. p \notin ps
    BY <2>1, <1>2, <1>3, <1>4, <1>5
  <2>3. Level(r)
    BY <2>1, <2>2, <1>2, <1>5 DEF Level
  <2> QED
    BY <2>2, <2>3, <1>2, <1>3
<1> QED
  BY <1>6, <1>7

-----------------------------------------------------------------------------
(* Init and the actions, one by one.                                       *)
LEMMA InitInv == Init => Inv
<1> SUFFICES ASSUME Init PROVE Inv
  OBVIOUS
<1> USE DEF Init
<1>1. \A r \in Requests : request[r].at = "idle"
  BY DEF Idle
<1>2. TypeOK
  <2>1. DurableTypes /\ EnvironmentTypes /\ AttemptTypes
    BY RegistryAssumption DEF DurableTypes, EnvironmentTypes, AttemptTypes
  <2>2. RegistryTypes /\ AdmissionTypes
    BY ChainTypes DEF RegistryTypes, AdmissionTypes
  <2>3. RequestTypes
    BY DEF RequestTypes
  <2> QED
    BY <2>1, <2>2, <2>3, TypeGroups
<1>3. CatalogueAccounted /\ Catalogued /\ Recovered /\ Barrier
  BY DEF CatalogueAccounted, Catalogued, Recovered, Barrier
<1>4. LeasesHold
  BY <1>1 DEF LeasesHold
<1> QED
  BY <1>2, <1>3, <1>4 DEF Inv

LEMMA AddProjectKeepsInv == ASSUME Inv, NEW p \in Projects, AddProject(p) PROVE Inv'
<1>1. PICK out \in Outcomes({p}) :
        /\ Load(out)
        /\ \/ /\ out[p] = "ok" /\ contexts' = contexts \cup {p}
              /\ rows' = rows \cup {p} /\ leftover' = leftover
           \/ /\ out[p] # "ok" /\ contexts' = contexts /\ rows' \in {rows, rows \cup {p}}
              /\ leftover' = leftover \cup (rows' \ rows)
  BY DEF AddProject
<1>2. /\ p \notin ever /\ ever' = ever \cup {p}
      /\ UNCHANGED <<failed, timers, appOpen, environment, shuttingDown, attempts, request>>
      /\ Quiesce({p})
      /\ open' = open \cup Opened(out) /\ data' \in DataAfter(out)
      /\ chain' = ChainAfter(out, chain) /\ stopped' = stopped
  BY <1>1, OutcomeType DEF AddProject, Load
<1>3. /\ closed' = closed \cup {p} /\ generation' = Bump(generation, {p})
      /\ generation' \in [Projects -> Nat]
  BY <1>2, BumpType DEF Quiesce, Inv, TypeOK
<1>4. p \notin contexts /\ p \notin rows /\ failed[p] = "none" /\ p \notin timers
  BY <1>2 DEF Inv, TypeOK, Catalogued
<1>5. /\ open' \subseteq open \cup {p} /\ open \subseteq open'
      /\ data' \subseteq data \cup {p} /\ data \subseteq data'
      /\ out[p] = "ok" => p \in data' \cap open'
  BY <1>1, <1>2, LoadLeaves
<1>6. /\ chain' \in [Projects -> Chains]
      /\ \A q \in Projects \ {p} : chain'[q] = chain[q]
  BY <1>1, <1>2, ChainOf DEF Inv, TypeOK
<1>7. TypeOK'
  <2>1. DurableTypes' /\ EnvironmentTypes'
    BY <1>1, <1>2, <1>5, TypeGroups DEF Inv, DurableTypes, EnvironmentTypes, environment
  <2>2. RegistryTypes'
    BY <1>1, <1>2, <1>5, <1>6, TypeGroups DEF Inv, RegistryTypes
  <2>3. AdmissionTypes' /\ AttemptTypes' /\ RequestTypes'
    BY <1>2, <1>3, TypeGroups DEF Inv, AdmissionTypes, AttemptTypes, RequestTypes
  <2> QED
    BY <2>1, <2>2, <2>3, TypeGroupsNext
<1>8. CatalogueAccounted'
  <2>1. \A q \in rows' : q \in contexts' \/ failed'[q] # "none" \/ q \in leftover'
    BY <1>1, <1>2, <1>4 DEF Inv, CatalogueAccounted
  <2>2. contexts' \subseteq data' \cap open'
    BY <1>1, <1>5 DEF Inv, CatalogueAccounted
  <2>3. \A q \in contexts' : failed'[q] # "none" => q \in closed' /\ chain'[q] = "failed"
    BY <1>1, <1>2, <1>3, <1>4, <1>6 DEF Inv, TypeOK, CatalogueAccounted
  <2>4. \A q \in timers' : failed'[q] = "busy" /\ q \notin contexts' \cup open'
    BY <1>1, <1>2, <1>4, <1>5 DEF Inv, CatalogueAccounted
  <2> QED
    BY <2>1, <2>2, <2>3, <2>4 DEF CatalogueAccounted
<1>9. Catalogued'
  BY <1>1, <1>2, <1>4 DEF Inv, Catalogued
<1>10. Recovered'
  BY <1>1, <1>2, <1>3, <1>5, <1>6 DEF Inv, TypeOK, Recovered
<1>11. LeasesHold'
  BY <1>1, <1>2, <1>3, <1>5, LeasesSurvive DEF Inv
<1>12. Barrier'
  BY <1>2 DEF Inv, Barrier
<1> QED
  BY <1>7, <1>8, <1>9, <1>10, <1>11, <1>12 DEF Inv

LEMMA RetryLoadKeepsInv == ASSUME Inv, NEW p \in Projects, RetryLoad(p) PROVE Inv'
<1> USE DEF Inv
<1>1. /\ p \in timers /\ failed[p] = "busy" /\ p \in rows
      /\ p \notin contexts /\ p \notin open
  BY DEF RetryLoad, CatalogueAccounted, Catalogued
<1>2. UNCHANGED <<ever, rows, appOpen, environment, shuttingDown, attempts, request, leftover>>
  BY DEF RetryLoad
<1>3. CASE UNCHANGED <<data, contexts, open, failed, chain, stopped, closed, generation>>
           /\ timers' = timers \ {p}
  <2>1. TypeOK'
    BY <1>2, <1>3 DEF TypeOK, environment
  <2>2. CatalogueAccounted' /\ Catalogued' /\ Recovered' /\ Barrier'
    BY <1>2, <1>3 DEF CatalogueAccounted, Catalogued, Recovered, Barrier
  <2>3. LeasesHold'
    BY <1>2, <1>3 DEF LeasesHold, Level
  <2> QED
    BY <2>1, <2>2, <2>3
<1>4. CASE \E out \in Outcomes({p}) : TryLoad(out)
  <2>1. PICK out \in Outcomes({p}) : TryLoad(out)
    BY <1>4
  <2>2. /\ Quiesce({p})
        /\ contexts' = contexts \cup Registered(out) /\ open' = open \cup Opened(out)
        /\ data' \in DataAfter(out)
        /\ chain' = ChainAfter(out, chain) /\ stopped' = stopped
        /\ failed' = [q \in Projects |-> IF q \in {p} THEN Failure(out[q]) ELSE failed[q]]
        /\ timers' = (timers \ {p}) \cup Reaching(out, {"busy"})
    BY <2>1, OutcomeType DEF TryLoad, Load
  <2>3. /\ Registered(out) \subseteq {p} /\ Registered(out) \subseteq Opened(out)
        /\ Opened(out) \subseteq {p} /\ Reaching(out, {"busy"}) \subseteq {p}
        /\ p \in Registered(out) <=> out[p] \in {"late", "ok"}
        /\ p \in Reaching(out, {"busy"}) <=> out[p] = "busy"
        /\ out[p] = "busy" => p \notin Opened(out) /\ p \notin Registered(out)
        /\ data' \subseteq data \cup {p} /\ data \cup Registered(out) \subseteq data'
    BY <2>2, LoadLeaves
  <2>4. /\ chain' \in [Projects -> Chains]
        /\ \A q \in Projects \ {p} : chain'[q] = chain[q]
        /\ out[p] = "late" => chain'[p] = "failed"
    BY <2>2, ChainOf DEF TypeOK
  <2>5. /\ closed' = closed \cup {p} /\ generation' = Bump(generation, {p})
        /\ generation' \in [Projects -> Nat]
    BY <2>2, BumpType DEF Quiesce, TypeOK
  <2>6. /\ failed' \in [Projects -> {"none", "busy", "broken"}]
        /\ \A q \in Projects \ {p} : failed'[q] = failed[q]
        /\ failed'[p] = "busy" <=> out[p] = "busy"
        /\ failed'[p] = "none" <=> out[p] = "ok"
    BY <2>2, OutcomeType, FailureOf DEF TypeOK
  <2>7. TypeOK'
    <3>1. DurableTypes' /\ EnvironmentTypes'
      BY <1>1, <1>2, <2>3, TypeGroups DEF DurableTypes, EnvironmentTypes, environment
    <3>2. RegistryTypes'
      BY <1>1, <1>2, <2>2, <2>3, <2>4, <2>6, TypeGroups DEF DurableTypes, RegistryTypes
    <3>3. AdmissionTypes' /\ AttemptTypes' /\ RequestTypes'
      BY <1>2, <2>5, TypeGroups DEF AdmissionTypes, AttemptTypes, RequestTypes
    <3> QED
      BY <3>1, <3>2, <3>3, TypeGroupsNext
  <2>8. Catalogued'
    BY <1>1, <1>2, <2>2, <2>3, <2>6 DEF Catalogued
  <2>9. CatalogueAccounted'
    <3>1. \A q \in rows' : q \in contexts' \/ failed'[q] # "none" \/ q \in leftover'
      BY <1>2, <2>2, <2>3, <2>6 DEF CatalogueAccounted, TypeOK
    <3>2. contexts' \subseteq data' \cap open'
      BY <2>2, <2>3 DEF CatalogueAccounted
    <3>3. \A q \in contexts' : failed'[q] # "none" => q \in closed' /\ chain'[q] = "failed"
      BY <1>1, <2>2, <2>3, <2>4, <2>5, <2>6 DEF CatalogueAccounted, TypeOK
    <3>4. \A q \in timers' : failed'[q] = "busy" /\ q \notin contexts' \cup open'
      BY <1>1, <2>2, <2>3, <2>6 DEF CatalogueAccounted, TypeOK
    <3> QED
      BY <3>1, <3>2, <3>3, <3>4 DEF CatalogueAccounted
  <2>10. Recovered'
    BY <1>2, <2>2, <2>4, <2>5 DEF TypeOK, Recovered
  <2>11. LeasesHold'
    BY <1>2, <2>2, <2>5, LeasesSurvive
  <2>12. Barrier'
    BY <1>2 DEF Barrier
  <2> QED
    BY <2>7, <2>8, <2>9, <2>10, <2>11, <2>12
<1> QED
  BY <1>3, <1>4 DEF RetryLoad

LEMMA RecoverKeepsInv == ASSUME Inv, NEW p \in Projects, Recover(p) PROVE Inv'
<1> USE DEF Inv
<1>1. /\ chain[p] \in Awaiting
      /\ UNCHANGED <<durable, contexts, open, failed, timers, stopped, appOpen,
                     environment, shuttingDown, attempts, request, leftover>>
  BY DEF Recover
<1>2. chain[p] \notin {"done", "failed"}
  BY <1>1, StagesAre
<1>3. CatalogueAccounted' /\ Catalogued' /\ Barrier'
  <2>1. ASSUME NEW q \in contexts', failed'[q] # "none"
        PROVE  q \in closed' /\ chain'[q] = "failed"
    <3>1. q # p /\ q \in closed /\ chain[q] = "failed"
      BY <1>1, <1>2, <2>1 DEF CatalogueAccounted
    <3> QED
      BY <1>1, <3>1 DEF Recover, OpenAdmission, TypeOK
  <2> QED
    BY <1>1, <2>1 DEF durable, CatalogueAccounted, Catalogued, Barrier
<1>4. DurableTypes' /\ EnvironmentTypes' /\ AttemptTypes' /\ RequestTypes'
  BY <1>1, TypeGroups DEF durable, environment, DurableTypes, EnvironmentTypes,
     AttemptTypes, RequestTypes
<1>5. CASE chain' = [chain EXCEPT ![p] = "stopped"] /\ UNCHANGED <<closed, generation>>
  <2>1. RegistryTypes' /\ AdmissionTypes'
    BY <1>1, <1>5, ChainTypes, TypeGroups DEF durable, RegistryTypes, AdmissionTypes
  <2>2. Recovered'
    BY <1>1, <1>2, <1>5 DEF durable, Recovered, TypeOK
  <2>3. LeasesHold'
    BY <1>1, <1>5 DEF LeasesHold, Level
  <2> QED
    BY <1>3, <1>4, <2>1, <2>2, <2>3, TypeGroupsNext
<1>6. CASE /\ p \in contexts
           /\ chain' = [chain EXCEPT ![p] = After(chain[p])]
           /\ IF chain'[p] = "done" THEN OpenAdmission(p) ELSE UNCHANGED <<closed, generation>>
  <2>1. chain' \in [Projects -> Chains]
    BY <1>1, <1>6, StagesAre DEF TypeOK
  <2>2. CASE chain'[p] = "done" /\ OpenAdmission(p)
    <3>1. /\ closed' = closed \ {p} /\ generation' = Bump(generation, {p})
          /\ generation' \in [Projects -> Nat]
      BY <2>2, BumpType DEF OpenAdmission, TypeOK
    <3>2. RegistryTypes' /\ AdmissionTypes'
      BY <1>1, <2>1, <3>1, TypeGroups DEF durable, RegistryTypes, AdmissionTypes
    <3>3. Recovered'
      BY <1>1, <1>6, <2>2, <3>1 DEF durable, Recovered, TypeOK, CatalogueAccounted
    <3>4. LeasesHold'
      BY <1>1, <3>1, LeasesSurvive
    <3> QED
      BY <1>3, <1>4, <3>2, <3>3, <3>4, TypeGroupsNext
  <2>3. CASE chain'[p] # "done" /\ UNCHANGED <<closed, generation>>
    <3>1. RegistryTypes' /\ AdmissionTypes'
      BY <1>1, <2>1, <2>3, TypeGroups DEF durable, RegistryTypes, AdmissionTypes
    <3>2. Recovered'
      BY <1>1, <1>2, <1>6, <2>3 DEF durable, Recovered, TypeOK
    <3>3. LeasesHold'
      BY <1>1, <2>3 DEF LeasesHold, Level
    <3> QED
      BY <1>3, <1>4, <3>1, <3>2, <3>3, TypeGroupsNext
  <2> QED
    BY <1>6, <2>2, <2>3
<1> QED
  BY <1>5, <1>6 DEF Recover, StillRegistered

LEMMA RecoveryFailsKeepsInv ==
  ASSUME Inv, NEW p \in Projects, RecoveryFails(p) PROVE Inv'
<1> USE DEF Inv
<1>1. /\ chain[p] # "done"
      /\ chain' = [chain EXCEPT ![p] = "failed"]
      /\ UNCHANGED <<durable, contexts, open, failed, timers, stopped, admission,
                     environment, shuttingDown, attempts, request, leftover>>
  BY StagesAre DEF RecoveryFails
<1>2. TypeOK'
  BY <1>1, ChainTypes DEF TypeOK, durable, admission, environment
<1>3. CatalogueAccounted' /\ Catalogued' /\ Barrier'
  BY <1>1 DEF durable, admission, TypeOK, CatalogueAccounted, Catalogued, Barrier
<1>4. Recovered' /\ LeasesHold'
  BY <1>1 DEF durable, admission, Recovered, TypeOK, LeasesHold, Level
<1> QED
  BY <1>2, <1>3, <1>4

LEMMA RemoveDeferredKeepsInv ==
  ASSUME Inv, NEW p \in Projects, RemoveDeferred(p) PROVE Inv'
<1> USE DEF Inv
<1>1. /\ attempts[p] < MaxAttempts
      /\ attempts' = [attempts EXCEPT ![p] = @ + 1]
      /\ timers' = timers \ {p}
      /\ UNCHANGED <<durable, contexts, open, failed, chain, appOpen, environment,
                     shuttingDown, request, leftover>>
      /\ \/ p \in contexts /\ Quiesce({p}) /\ stopped' = stopped \cup {p}
         \/ p \notin contexts /\ UNCHANGED <<closed, generation, stopped>>
  BY DEF RemoveDeferred
<1>2. /\ attempts' \in [Projects -> 0..MaxAttempts] /\ attempts'[p] > 0
      /\ \A q \in Projects \ {p} : attempts'[q] = attempts[q]
  BY <1>1, RegistryAssumption DEF TypeOK
<1>3. /\ closed \subseteq closed' /\ closed' \subseteq closed \cup {p}
      /\ generation' \in [Projects -> Nat]
      /\ stopped' \subseteq contexts
      /\ \E ps \in {{}, {p}} : /\ generation' = Bump(generation, ps)
                               /\ \A q \in Projects \ ps :
                                    /\ q \in closed <=> q \in closed'
                                    /\ q = p => p \notin contexts
  <2>1. CASE p \in contexts /\ Quiesce({p}) /\ stopped' = stopped \cup {p}
    BY <2>1, BumpType DEF Quiesce, TypeOK
  <2>2. CASE p \notin contexts /\ UNCHANGED <<closed, generation, stopped>>
    <3>1. Bump(generation, {}) = generation
      BY DEF Bump, TypeOK
    <3> QED
      BY <2>2, <3>1 DEF TypeOK
  <2> QED
    BY <1>1, <2>1, <2>2
<1>4. TypeOK'
  <2>1. DurableTypes' /\ EnvironmentTypes' /\ RequestTypes' /\ AttemptTypes'
    BY <1>1, <1>2, TypeGroups DEF durable, environment, DurableTypes, EnvironmentTypes,
       RequestTypes, AttemptTypes
  <2>2. RegistryTypes' /\ AdmissionTypes'
    BY <1>1, <1>3, TypeGroups DEF durable, RegistryTypes, AdmissionTypes
  <2> QED
    BY <2>1, <2>2, TypeGroupsNext
<1>5. CatalogueAccounted'
  BY <1>1, <1>3 DEF durable, CatalogueAccounted, TypeOK
<1>6. Catalogued' /\ Barrier' /\ Recovered'
  BY <1>1, <1>3 DEF durable, Catalogued, Barrier, Recovered
<1>7. LeasesHold'
  <2>1. PICK ps \in {{}, {p}} : /\ generation' = Bump(generation, ps)
                                /\ \A q \in Projects \ ps :
                                     /\ q \in closed <=> q \in closed'
                                     /\ q = p => p \notin contexts
    BY <1>3
  <2>2. ps \in SUBSET Projects
    BY <2>1
  <2>3. \A q \in Projects \ ps :
          /\ q \in closed <=> q \in closed'
          /\ q \in contexts \cap open => q \in contexts' \cap open'
          /\ attempts'[q] = attempts[q] \/ q \notin contexts
    BY <1>1, <1>2, <2>1
  <2> QED
    BY <1>1, <2>1, <2>2, <2>3, LeasesSurvive
<1> QED
  BY <1>4, <1>5, <1>6, <1>7

LEMMA RemoveKeepsInv == ASSUME Inv, NEW p \in Projects, Remove(p) PROVE Inv'
<1> USE DEF Inv
<1>1. /\ attempts[p] < MaxAttempts /\ p \in rows
      /\ attempts' = [attempts EXCEPT ![p] = @ + 1]
      /\ timers' = timers \ {p}
      /\ contexts' = contexts \ {p} /\ stopped' = stopped \ {p}
      /\ data' \in {data \ {p}, data} /\ failed' = [failed EXCEPT ![p] = "none"]
      /\ rows' \in {rows \ {p}, rows}
      /\ leftover' = (leftover \cup {p}) \cap rows'
      /\ UNCHANGED <<ever, chain, appOpen, environment, shuttingDown, request>>
      /\ \/ p \in contexts /\ Quiesce({p}) /\ open' = open \ {p}
         \/ p \notin contexts /\ UNCHANGED <<closed, generation, open>>
  BY DEF Remove
<1>2. /\ attempts' \in [Projects -> 0..MaxAttempts] /\ attempts'[p] > 0
      /\ \A q \in Projects \ {p} : attempts'[q] = attempts[q]
  BY <1>1, RegistryAssumption DEF TypeOK
<1>3. p \notin contexts => p \in closed
  BY <1>1 DEF Recovered
<1>4. /\ closed \subseteq closed' /\ closed' = closed \cup {p}
      /\ generation' \in [Projects -> Nat]
  <2>1. CASE p \in contexts /\ Quiesce({p}) /\ open' = open \ {p}
    BY <2>1, BumpType DEF Quiesce, TypeOK
  <2>2. CASE p \notin contexts /\ UNCHANGED <<closed, generation, open>>
    BY <1>3, <2>2 DEF TypeOK
  <2> QED
    BY <1>1, <2>1, <2>2
<1>5. /\ failed' \in [Projects -> {"none", "busy", "broken"}] /\ failed'[p] = "none"
      /\ \A q \in Projects \ {p} : failed'[q] = failed[q]
  BY <1>1 DEF TypeOK
<1>6. TypeOK'
  <2>1. DurableTypes' /\ EnvironmentTypes' /\ RequestTypes' /\ AttemptTypes'
    BY <1>1, <1>2, TypeGroups DEF environment, DurableTypes, EnvironmentTypes,
       RequestTypes, AttemptTypes
  <2>2. RegistryTypes' /\ AdmissionTypes'
    BY <1>1, <1>4, <1>5, TypeGroups DEF RegistryTypes, AdmissionTypes
  <2> QED
    BY <2>1, <2>2, TypeGroupsNext
<1>7. CatalogueAccounted'
  <2>1. open' \subseteq open /\ open \ {p} \subseteq open'
    BY <1>1
  <2>2. \A q \in rows' : q \in contexts' \/ failed'[q] # "none" \/ q \in leftover'
    BY <1>1, <1>5 DEF CatalogueAccounted, TypeOK
  <2>3. contexts' \subseteq data' \cap open'
    BY <1>1, <2>1 DEF CatalogueAccounted
  <2>4. \A q \in contexts' : failed'[q] # "none" => q \in closed' /\ chain'[q] = "failed"
    BY <1>1, <1>4, <1>5 DEF CatalogueAccounted, TypeOK
  <2>5. \A q \in timers' : failed'[q] = "busy" /\ q \notin contexts' \cup open'
    BY <1>1, <1>5, <2>1 DEF CatalogueAccounted, TypeOK
  <2> QED
    BY <2>2, <2>3, <2>4, <2>5 DEF CatalogueAccounted
<1>8. Catalogued'
  BY <1>1, <1>5 DEF Catalogued
<1>9. Barrier' /\ Recovered'
  BY <1>1, <1>4 DEF Barrier, Recovered
<1>10. LeasesHold'
  <2>1. CASE p \in contexts /\ Quiesce({p}) /\ open' = open \ {p}
    <3>1. generation' = Bump(generation, {p})
      BY <2>1 DEF Quiesce
    <3> QED
      BY <1>1, <1>2, <1>4, <3>1, LeasesSurvive
  <2>2. CASE p \notin contexts /\ UNCHANGED <<closed, generation, open>>
    <3>1. generation' = Bump(generation, {}) /\ {} \in SUBSET Projects
      BY <2>2 DEF Bump, TypeOK
    <3>2. \A q \in Projects \ {} :
            /\ q \in closed <=> q \in closed'
            /\ q \in contexts \cap open => q \in contexts' \cap open'
            /\ attempts'[q] = attempts[q] \/ q \notin contexts
      BY <1>1, <1>2, <2>2
    <3> QED
      BY <1>1, <3>1, <3>2, LeasesSurvive
  <2> QED
    BY <1>1, <2>1, <2>2
<1> QED
  BY <1>6, <1>7, <1>8, <1>9, <1>10

LEMMA ShutdownKeepsInv == ASSUME Inv, Shutdown PROVE Inv'
<1> USE DEF Inv
<1>1. /\ shuttingDown' = TRUE /\ appOpen' = FALSE
      /\ timers' = {} /\ stopped' = contexts
      /\ UNCHANGED <<durable, contexts, open, failed, chain, closed, generation,
                     environment, attempts, request, leftover>>
  BY DEF Shutdown
<1>2. TypeOK'
  BY <1>1 DEF TypeOK, durable, environment
<1>3. CatalogueAccounted' /\ Catalogued' /\ Barrier' /\ Recovered'
  BY <1>1 DEF durable, CatalogueAccounted, Catalogued, Barrier, Recovered
<1>4. LeasesHold'
  BY <1>1 DEF LeasesHold, Level
<1> QED
  BY <1>2, <1>3, <1>4

(* A restart forgets every lease, and loads what is in the catalogue.      *)
LEMMA RestartKeepsInv == ASSUME Inv, Restart PROVE Inv'
<1> USE DEF Inv
<1>1. PICK out \in Outcomes(rows) :
        /\ contexts' = Registered(out) /\ open' = Opened(out)
        /\ failed' = [p \in Projects |-> IF p \in rows THEN Failure(out[p]) ELSE "none"]
        /\ timers' = Reaching(out, {"busy"})
        /\ data' \in DataAfter(out)
        /\ chain' = ChainAfter(out, [p \in Projects |-> "none"])
  BY DEF Restart
<1>2. /\ restarts' = restarts + 1 /\ restarts < MaxRestarts
      /\ closed' = rows
      /\ generation' = [p \in Projects |-> IF p \in rows THEN 1 ELSE 0]
      /\ appOpen' = TRUE /\ shuttingDown' = FALSE /\ stopped' = {} /\ leftover' = {}
      /\ request' = [r \in Requests |->
           IF request[r].at = "held" THEN [at |-> "refused"] ELSE request[r]]
      /\ UNCHANGED <<ever, rows, locked, locks, attempts>>
  BY DEF Restart
<1>3. /\ \A p \in rows :
           /\ p \in Registered(out) <=> out[p] \in {"late", "ok"}
           /\ p \in timers' <=> out[p] = "busy"
           /\ out[p] = "busy" => p \notin Opened(out)
           /\ failed'[p] \in {"none", "busy", "broken"}
           /\ failed'[p] = "busy" <=> out[p] = "busy"
           /\ failed'[p] = "none" <=> out[p] = "ok"
           /\ out[p] = "late" => chain'[p] = "failed"
      /\ chain' \in [Projects -> Chains]
  <2>1. rows \subseteq Projects
    BY DEF TypeOK
  <2>2. [p \in Projects |-> "none"] \in [Projects -> Chains]
    BY ChainTypes
  <2>3. /\ chain' \in [Projects -> Chains]
        /\ \A p \in rows : out[p] = "late" => chain'[p] = "failed"
    BY <1>1, <2>1, <2>2, ChainOf
  <2>4. \A p \in rows : failed'[p] = Failure(out[p])
    BY <1>1, <2>1
  <2> QED
    BY <1>1, <2>3, <2>4, OutcomeType, FailureOf, LoadLeaves
<1>4. /\ failed' \in [Projects -> {"none", "busy", "broken"}]
      /\ contexts' \subseteq open' /\ open' \subseteq rows /\ timers' \subseteq rows
      /\ data' \subseteq data \cup rows /\ contexts' \subseteq data'
  BY <1>1, <1>3, LoadLeaves
<1>5. \A r \in Requests : request'[r] \in {Idle} \cup Ended /\ request'[r].at # "held"
  <2> SUFFICES ASSUME NEW r \in Requests
               PROVE  request'[r] \in {Idle} \cup Ended /\ request'[r].at # "held"
    OBVIOUS
  <2>1. request[r] \in {Idle} \cup Held \cup Ended
    BY DEF TypeOK
  <2>2. CASE request[r].at = "held"
    BY <1>2, <2>2 DEF Ended
  <2>3. CASE request[r].at # "held"
    <3>1. request'[r] = request[r] /\ request[r] \notin Held
      BY <1>2, <2>3 DEF Held
    <3> QED
      BY <2>1, <2>3, <3>1
  <2> QED
    BY <2>2, <2>3
<1>6. TypeOK'
  <2>1. DurableTypes' /\ EnvironmentTypes' /\ AttemptTypes'
    BY <1>2, <1>4, RegistryAssumption, TypeGroups
       DEF DurableTypes, EnvironmentTypes, AttemptTypes
  <2>2. RegistryTypes'
    BY <1>2, <1>3, <1>4, TypeGroups DEF DurableTypes, RegistryTypes
  <2>3. AdmissionTypes'
    BY <1>2, TypeGroups DEF DurableTypes, AdmissionTypes
  <2>4. RequestTypes'
    BY <1>2, <1>5 DEF RequestTypes
  <2> QED
    BY <2>1, <2>2, <2>3, <2>4, TypeGroupsNext
<1>7. CatalogueAccounted'
  <2>1. \A p \in rows' : p \in contexts' \/ failed'[p] # "none" \/ p \in leftover'
    BY <1>1, <1>2, <1>3
  <2>2. \A p \in contexts' : failed'[p] # "none" => p \in closed' /\ chain'[p] = "failed"
    BY <1>1, <1>2, <1>3, <1>4
  <2>3. \A p \in timers' : failed'[p] = "busy" /\ p \notin contexts' \cup open'
    BY <1>1, <1>3, <1>4
  <2> QED
    BY <1>4, <2>1, <2>2, <2>3 DEF CatalogueAccounted
<1>8. Catalogued'
  <2>1. \A p \in Projects : failed'[p] # "none" => p \in rows'
    BY <1>1, <1>2
  <2> QED
    BY <1>2, <1>4, <2>1 DEF Catalogued
<1>9. Recovered' /\ Barrier'
  BY <1>2 DEF Recovered, Barrier
<1>10. LeasesHold'
  BY <1>5 DEF LeasesHold
<1> QED
  BY <1>6, <1>7, <1>8, <1>9, <1>10

LEMMA CaptureKeepsInv ==
  ASSUME Inv, NEW r \in Requests, NEW p \in Projects, Capture(r, p) PROVE Inv'
<1> USE DEF Inv
<1> DEFINE lease == [at |-> "held", project |-> p, generation |-> generation[p],
                     attempt |-> attempts[p]]
<1>1. /\ p \in contexts /\ p \notin closed
      /\ request' = [request EXCEPT ![r] = lease]
      /\ UNCHANGED <<durable, registry, admission, environment, shuttingDown, attempts, leftover>>
  BY DEF Capture, Admitted
<1>2. lease \in Held
  BY DEF Held, TypeOK
<1>3. TypeOK'
  BY <1>1, <1>2 DEF TypeOK, durable, registry, admission, environment
<1>4. CatalogueAccounted' /\ Catalogued' /\ Barrier' /\ Recovered'
  BY <1>1 DEF durable, registry, admission, CatalogueAccounted, Catalogued, Barrier,
     Recovered
<1>5. LeasesHold'
  <2> SUFFICES ASSUME NEW s \in Requests, request'[s].at = "held"
               PROVE  /\ request'[s].generation <= generation'[request'[s].project]
                      /\ Level(s)' =>
                           /\ request'[s].project \in contexts' \cap open'
                           /\ request'[s].attempt = attempts'[request'[s].project]
    BY DEF LeasesHold
  <2>1. UNCHANGED <<contexts, open, closed, generation, attempts>>
    BY <1>1 DEF registry, admission
  <2>2. CASE s = r
    <3>1. request'[s] = lease
      BY <1>1, <2>2 DEF TypeOK
    <3>2. p \in contexts \cap open /\ generation[p] \in Nat
      BY <1>1 DEF CatalogueAccounted, TypeOK
    <3> QED
      BY <2>1, <3>1, <3>2
  <2>3. CASE s # r
    <3>1. request'[s] = request[s]
      BY <1>1, <2>3 DEF TypeOK
    <3> QED
      BY <2>1, <3>1 DEF LeasesHold, Level
  <2> QED
    BY <2>2, <2>3
<1> QED
  BY <1>3, <1>4, <1>5

LEMMA ContinueKeepsInv == ASSUME Inv, NEW r \in Requests, Continue(r) PROVE Inv'
<1> USE DEF Inv
<1> DEFINE end == [at |-> IF IsCurrent(request[r]) THEN "acted" ELSE "refused"]
<1>1. end \in Ended /\ request' = [request EXCEPT ![r] = end]
  BY DEF Continue, Ended
<1> HIDE DEF end
<1>2. UNCHANGED <<durable, registry, admission, environment, shuttingDown, attempts, leftover>>
  BY DEF Continue
<1>3. TypeOK'
  BY <1>1, <1>2 DEF TypeOK, durable, registry, admission, environment
<1>4. CatalogueAccounted' /\ Catalogued' /\ Barrier' /\ Recovered'
  BY <1>2 DEF durable, registry, admission, CatalogueAccounted, Catalogued, Barrier,
     Recovered
<1>5. LeasesHold'
  <2> SUFFICES ASSUME NEW s \in Requests, request'[s].at = "held"
               PROVE  s # r
    BY <1>1, <1>2 DEF LeasesHold, Level, TypeOK, registry, admission
  <2>1. end.at # "held"
    BY <1>1 DEF Ended
  <2> QED
    BY <1>1, <2>1 DEF TypeOK
<1> QED
  BY <1>3, <1>4, <1>5

LEMMA LocksKeepInv ==
  ASSUME Inv, NEW p \in Projects, Lock(p) \/ Unlock(p) PROVE Inv'
<1> USE DEF Inv
<1>1. UNCHANGED <<durable, registry, admission, restarts, shuttingDown, attempts, request, leftover>>
  BY DEF Lock, Unlock
<1>2. locked' \subseteq Projects /\ locks' \in 0..MaxLocks
  BY RegistryAssumption DEF Lock, Unlock, TypeOK
<1>3. TypeOK'
  BY <1>1, <1>2 DEF TypeOK, durable, registry, admission
<1>4. CatalogueAccounted' /\ Catalogued' /\ Barrier' /\ Recovered'
  BY <1>1 DEF durable, registry, admission, CatalogueAccounted, Catalogued, Barrier,
     Recovered
<1>5. LeasesHold'
  BY <1>1 DEF LeasesHold, Level, registry, admission
<1> QED
  BY <1>3, <1>4, <1>5

LEMMA StutterKeepsInv == ASSUME Inv, UNCHANGED vars PROVE Inv'
<1> USE DEF Inv, vars, durable, registry, admission, environment
<1>1. TypeOK'
  BY DEF TypeOK
<1>2. CatalogueAccounted' /\ Catalogued' /\ Barrier' /\ Recovered'
  BY DEF CatalogueAccounted, Catalogued, Barrier, Recovered
<1>3. LeasesHold'
  BY DEF LeasesHold, Level
<1> QED
  BY <1>1, <1>2, <1>3

LEMMA StepKeepsInv == Inv /\ [Next]_vars => Inv'
<1> SUFFICES ASSUME Inv, [Next]_vars PROVE Inv'
  OBVIOUS
<1>1. CASE UNCHANGED vars
  BY <1>1, StutterKeepsInv
<1>2. ASSUME NEW p \in Projects,
             \/ AddProject(p) \/ RetryLoad(p) \/ Recover(p) \/ RecoveryFails(p)
             \/ RemoveDeferred(p) \/ Remove(p) \/ Lock(p) \/ Unlock(p)
      PROVE  Inv'
  BY <1>2, AddProjectKeepsInv, RetryLoadKeepsInv, RecoverKeepsInv, RecoveryFailsKeepsInv,
     RemoveDeferredKeepsInv, RemoveKeepsInv, LocksKeepInv
<1>3. ASSUME NEW p \in Projects, NEW r \in Requests, Capture(r, p) PROVE Inv'
  BY <1>3, CaptureKeepsInv
<1>4. ASSUME NEW r \in Requests, Continue(r) PROVE Inv'
  BY <1>4, ContinueKeepsInv
<1>5. CASE Shutdown \/ Restart
  BY <1>5, ShutdownKeepsInv, RestartKeepsInv
<1> QED
  BY <1>1, <1>2, <1>3, <1>4, <1>5 DEF Next

-----------------------------------------------------------------------------
(* The inductive invariant holds always.                                   *)
THEOREM Invariance == Spec => []Inv
BY InitInv, StepKeepsInv, PTL DEF Spec

(* The state is well formed, the catalogue accounts for every project, and *)
(* a removed project does not come back (removeProject, _tryLoadProject).  *)
THEOREM ConsistentAlways == Spec => []Consistent
<1>1. Inv => RemovedForGood
  BY DEF Inv, TypeOK, Catalogued, RemovedForGood
<1>2. Inv => Consistent
  BY <1>1 DEF Inv, Consistent
<1> QED
  BY <1>2, Invariance, PTL

(* A project admits work only after the recovery of its own open context   *)
(* (openProjectProcessAdmission in the recovery of a context).             *)
THEOREM AdmittedMeansRecoveredAlways == Spec => []AdmittedMeansRecovered
<1>1. Inv => AdmittedMeansRecovered
  BY DEF Inv, Recovered, AdmittedMeansRecovered, Admitted
<1> QED
  BY <1>1, Invariance, PTL

(* A continuation acts on the project it captured a lease of, and on no    *)
(* removed, reloaded or closing one (assertCurrent).                       *)
THEOREM ActsOnItsOwnProjectAlways == Spec => ActsOnItsOwnProject
<1> DEFINE Acts == \A r \in Requests :
             (request[r].at = "held" /\ request'[r].at = "acted") =>
                LET p == request[r].project
                IN  /\ p \in contexts /\ p \in open
                    /\ attempts[p] = request[r].attempt
                    /\ ~shuttingDown
<1>1. ASSUME Inv, [Next]_vars, NEW r \in Requests,
             request[r].at = "held", request'[r].at = "acted"
      PROVE  IsCurrent(request[r])
  <2>1. CASE \E s \in Requests : Continue(s)
    <3>1. PICK s \in Requests : Continue(s)
      BY <2>1
    <3>2. CASE s = r
      BY <1>1, <3>1, <3>2 DEF Continue, Inv, TypeOK
    <3>3. CASE s # r
      <4>1. request'[r] = request[r]
        BY <3>1, <3>3 DEF Continue, Inv, TypeOK
      <4> QED
        BY <1>1, <4>1
    <3> QED
      BY <3>2, <3>3
  <2>2. CASE \E s \in Requests, p \in Projects : Capture(s, p)
    <3>1. PICK s \in Requests, p \in Projects : Capture(s, p)
      BY <2>2
    <3>2. s # r
      BY <1>1, <3>1 DEF Capture, Idle
    <3>3. request'[r] = request[r]
      BY <3>1, <3>2 DEF Capture, Inv, TypeOK
    <3> QED
      BY <1>1, <3>3
  <2>3. CASE Restart
    <3>1. request'[r] = [at |-> "refused"]
      BY <1>1, <2>3 DEF Restart
    <3> QED
      BY <1>1, <3>1
  <2>4. CASE UNCHANGED request
    BY <1>1, <2>4
  <2>5. \/ \E s \in Requests : Continue(s)
        \/ \E s \in Requests, p \in Projects : Capture(s, p)
        \/ Restart \/ UNCHANGED request
    <3>1. CASE UNCHANGED vars
      BY <3>1 DEF vars
    <3>2. CASE \E p \in Projects :
                 \/ AddProject(p) \/ RetryLoad(p) \/ Recover(p) \/ RecoveryFails(p)
                 \/ RemoveDeferred(p) \/ Remove(p) \/ Lock(p) \/ Unlock(p)
      BY <3>2 DEF AddProject, RetryLoad, Recover, RecoveryFails, RemoveDeferred, Remove,
         Lock, Unlock
    <3>3. CASE Shutdown
      BY <3>3 DEF Shutdown
    <3> QED
      BY <1>1, <3>1, <3>2, <3>3 DEF Next
  <2> QED
    BY <2>1, <2>2, <2>3, <2>4, <2>5
<1>2. ASSUME Inv, NEW r \in Requests, request[r].at = "held", IsCurrent(request[r])
      PROVE  /\ request[r].project \in contexts /\ request[r].project \in open
             /\ attempts[request[r].project] = request[r].attempt
             /\ ~shuttingDown
  <2>1. Level(r) /\ appOpen
    BY <1>2 DEF IsCurrent, Admitted, Level
  <2> QED
    BY <1>2, <2>1 DEF Inv, LeasesHold, Barrier
<1>3. Inv /\ [Next]_vars => [Acts]_vars
  BY <1>1, <1>2
<1> QED
  BY <1>3, Invariance, PTL DEF Spec, ActsOnItsOwnProject

=============================================================================
