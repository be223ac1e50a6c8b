-------------------------- MODULE AgentConfigMapProofs --------------------------
(***************************************************************************)
(* The generated ConfigMap for any number of requests, names and owners:   *)
(* the invariant of AgentConfigMap, and that its Create and Update are the *)
(* one Put of ConfigMapPromise.                                            *)
(***************************************************************************)
EXTENDS AgentConfigMap, TLAPS

-----------------------------------------------------------------------------
(* Facts about the constants *)

(* What a request writes is a map, under one of the names, and not NoMap.  *)
LEMMA WantedFacts ==
    ASSUME NEW r \in Requests
    PROVE  /\ nameOf[r] \in Names
           /\ wanted[r] \in Map /\ wanted[r] # NoMap
           /\ wanted[r].owner = pods[r].owner
<1>1. wanted[r] = [content |-> pods[r].content, owner |-> pods[r].owner]
  BY DEF wanted
<1>2. pods[r].content \in Contents /\ pods[r].owner \in Name
  BY PodsAssumption DEF PodInfo
<1>3. wanted[r] \in Map /\ wanted[r].owner = pods[r].owner
  BY <1>1, <1>2 DEF Map
<1>4. wanted[r].content # NoMap.content
  BY <1>1, <1>2, ContentsAssumption DEF NoMap
<1>5. wanted[r] # NoMap
  BY <1>4
<1>6. nameOf[r] \in Names
  BY DEF Names
<1> QED BY <1>3, <1>5, <1>6

-----------------------------------------------------------------------------
(* What the steps do to the maps *)

(* A writing step, seen from the variables the invariant is about.         *)
LEMMA WriteFacts ==
    ASSUME TypeOK, NEW r \in Requests, Write(r)
    PROVE  /\ store' \in [Names -> Map \cup {NoMap}]
           /\ store'[nameOf[r]] = wanted[r]
           /\ \A n \in Names : n # nameOf[r] => store'[n] = store[n]
           /\ wrote' = wrote \cup {r} /\ wrote' \subseteq Requests
           /\ last' \in [Names -> Requests \cup {NoRequest}]
           /\ last'[nameOf[r]] = r
           /\ \A n \in Names : n # nameOf[r] => last'[n] = last[n]
           /\ retired' = retired /\ removed' = removed
BY WantedFacts DEF TypeOK, Write

(* Every step leaves the maps alone, writes one, or loses one.             *)
Kept == UNCHANGED <<store, removed, wrote, last>> /\ retired \subseteq retired'

Wrote(r) == r \in Requests /\ Write(r)

Freed(n) ==
    /\ n \in Names
    /\ store' = [store EXCEPT ![n] = NoMap]
    /\ wrote' = wrote /\ last' = last /\ retired' = retired
    /\ removed \subseteq removed'
    /\ n \in removed' \/ (store[n] # NoMap /\ store[n].owner \in retired)

LEMMA StoreSteps ==
    ASSUME TypeOK, [Next]_vars
    PROVE  Kept \/ (\E r \in Requests : Wrote(r)) \/ (\E n \in Names : Freed(n))
<1>1. CASE \E r \in Requests : Handle(r)
  <2> SUFFICES ASSUME NEW r \in Requests, Handle(r)
               PROVE  Kept \/ Wrote(r)
    BY <1>1
  <2> QED BY DEF Handle, Kept, Wrote, DryRun, Create, AlreadyExists, InvalidName,
                 Update, UpdateNotFound, CallFails, ResponseLost, RefuseLost,
                 Admit, NoWrite
<1>2. CASE \E r \in Requests : Retry(r)
  BY <1>2 DEF Retry, NoWrite, Kept
<1>3. CASE \E owner \in Owners : Retire(owner)
  BY <1>3 DEF Retire, Kept
<1>4. CASE \E n \in Names : Collect(n) \/ Remove(n)
  <2> SUFFICES ASSUME NEW n \in Names, Collect(n) \/ Remove(n) PROVE Freed(n)
    BY <1>4
  <2>1. CASE Collect(n) BY <2>1 DEF Collect, Freed
  <2>2. CASE Remove(n)
    <3>1. /\ removed' = removed \cup {n}
          /\ wrote' = wrote /\ last' = last /\ retired' = retired
      BY <2>2 DEF Remove
    <3>2. store' = [store EXCEPT ![n] = NoMap]
      BY <2>2 DEF Remove
    <3>3. n \in removed' /\ removed \subseteq removed'
      BY <3>1
    <3> QED BY <3>1, <3>2, <3>3 DEF Freed
  <2> QED BY <2>1, <2>2
<1>5. CASE UNCHANGED vars
  BY <1>5 DEF vars, Kept
<1> QED BY <1>1, <1>2, <1>3, <1>4, <1>5 DEF Next, Cluster

(* What is lost stays lost.                                                *)
LEMMA LostStays ==
    ASSUME wrote \subseteq wrote', retired \subseteq retired',
           removed \subseteq removed', NEW n, Lost(n)
    PROVE  Lost(n)'
BY DEF Lost

-----------------------------------------------------------------------------
(* The invariant *)

(* No map, no writer, no answer at first.                                  *)
LEMMA InitInv == Init => IInv
<1> SUFFICES ASSUME Init PROVE IInv
  OBVIOUS
<1>1. TypeOK
  BY BoundsAssumption DEF Init, TypeOK
<1>2. StoreInv
  BY DEF Init, StoreInv
<1>3. LostInv
  BY DEF Init, LostInv
<1>4. ControlInv /\ RefusedForAReason
  BY DEF Init, ControlInv, RefusedForAReason
<1> QED BY <1>1, <1>2, <1>3, <1>4 DEF IInv

(* Every step keeps the types.                                             *)
LEMMA TypeStep == TypeOK /\ [Next]_vars => TypeOK'
<1> SUFFICES ASSUME TypeOK, [Next]_vars PROVE TypeOK'
  OBVIOUS
<1> USE BoundsAssumption
<1>1. ASSUME NEW r \in Requests, Handle(r) PROVE TypeOK'
  <2>1. ASSUME NEW next \in {"create", "update", "written", "lost",
                             "admitted", "refused"},
               Goto(r, next)
        PROVE  pc' \in [Requests -> {"create", "update", "written", "lost",
                                     "admitted", "refused"}]
    BY <2>1 DEF Goto, TypeOK
  <2>2. ASSUME Write(r)
        PROVE  /\ store' \in [Names -> Map \cup {NoMap}] /\ wrote' \subseteq Requests
               /\ last' \in [Names -> Requests \cup {NoRequest}]
               /\ retired' = retired /\ removed' = removed
    BY <2>2, WriteFacts
  <2>3. ASSUME Fault(r)
        PROVE  failed' \subseteq Requests /\ UNCHANGED <<removals, retries>>
    BY <2>3 DEF Fault, TypeOK
  <2>4. CASE DryRun(r) BY <2>1, <2>4 DEF DryRun, NoWrite, countVars, TypeOK
  <2>5. CASE Create(r) BY <2>1, <2>2, <2>5 DEF Create, countVars, TypeOK
  <2>6. CASE AlreadyExists(r)
    BY <2>1, <2>6 DEF AlreadyExists, NoWrite, countVars, TypeOK
  <2>7. CASE InvalidName(r)
    BY <2>1, <2>7 DEF InvalidName, NoWrite, countVars, TypeOK
  <2>8. CASE Update(r) BY <2>1, <2>2, <2>8 DEF Update, countVars, TypeOK
  <2>9. CASE UpdateNotFound(r)
    BY <2>1, <2>9 DEF UpdateNotFound, NoWrite, countVars, TypeOK
  <2>10. CASE CallFails(r) BY <2>1, <2>3, <2>10 DEF CallFails, NoWrite, TypeOK
  <2>11. CASE ResponseLost(r)
    BY <2>1, <2>2, <2>3, <2>11 DEF ResponseLost, TypeOK
  <2>12. CASE RefuseLost(r)
    BY <2>1, <2>12 DEF RefuseLost, NoWrite, countVars, TypeOK
  <2>13. CASE Admit(r) BY <2>1, <2>13 DEF Admit, NoWrite, countVars, TypeOK
  <2> QED BY <1>1, <2>4, <2>5, <2>6, <2>7, <2>8, <2>9, <2>10, <2>11, <2>12, <2>13
          DEF Handle
<1>2. ASSUME NEW r \in Requests, Retry(r) PROVE TypeOK'
  BY <1>2 DEF Retry, Goto, NoWrite, TypeOK
<1>3. ASSUME NEW owner \in Owners, Retire(owner) PROVE TypeOK'
  <2>1. owner \in Name
    BY PodsAssumption DEF Owners, PodInfo
  <2> QED BY <1>3, <2>1 DEF Retire, countVars, TypeOK
<1>4. ASSUME NEW n \in Names, Collect(n) PROVE TypeOK'
  BY <1>4 DEF Collect, countVars, TypeOK
<1>5. ASSUME NEW n \in Names, Remove(n) PROVE TypeOK'
  BY <1>5 DEF Remove, TypeOK
<1>6. CASE UNCHANGED vars BY <1>6 DEF vars, countVars, TypeOK
<1> QED BY <1>1, <1>2, <1>3, <1>4, <1>5, <1>6 DEF Next, Cluster

(* Every step leaves in the store only what its last writer wanted.        *)
LEMMA StoreStep ==
    ASSUME TypeOK, StoreInv, [Next]_vars
    PROVE  StoreInv'
<1> DEFINE Goal(n) == /\ last'[n] \in wrote'
                      /\ nameOf[last'[n]] = n
                      /\ store'[n] = wanted[last'[n]]
<1> SUFFICES ASSUME NEW n \in Names, store'[n] # NoMap
             PROVE  Goal(n)
  BY DEF StoreInv, Names, nameOf, wanted
<1>1. CASE Kept BY <1>1 DEF Kept, StoreInv
<1>2. ASSUME NEW r \in Requests, Wrote(r)
      PROVE  Goal(n)
  <2>1. CASE n = nameOf[r] BY <1>2, <2>1, WriteFacts DEF Wrote
  <2>2. CASE n # nameOf[r] BY <1>2, <2>2, WriteFacts DEF Wrote, StoreInv
  <2> QED BY <2>1, <2>2
<1>3. ASSUME NEW m \in Names, Freed(m)
      PROVE  Goal(n)
  BY <1>3 DEF Freed, StoreInv, TypeOK
<1> QED BY <1>1, <1>2, <1>3, StoreSteps

(* A map leaves the store only by being lost.                              *)
LEMMA LostStep ==
    ASSUME TypeOK, StoreInv, LostInv, [Next]_vars
    PROVE  LostInv'
<1> SUFFICES ASSUME NEW s \in wrote', store'[nameOf[s]] = NoMap
             PROVE  Lost(nameOf[s])'
  BY DEF LostInv, Exists, nameOf
<1>1. CASE Kept
  <2>1. s \in wrote /\ store[nameOf[s]] = NoMap
    BY <1>1 DEF Kept
  <2>2. Lost(nameOf[s])
    BY <2>1 DEF LostInv, Exists
  <2> QED BY <1>1, <2>2, LostStays DEF Kept
<1>2. ASSUME NEW r \in Requests, Wrote(r) PROVE Lost(nameOf[s])'
  <2>1. nameOf[s] # nameOf[r] /\ s # r
    BY <1>2, WriteFacts, WantedFacts DEF Wrote
  <2>2. s \in wrote /\ s \in Requests
    BY <1>2, <2>1, WriteFacts DEF Wrote
  <2>3. store[nameOf[s]] = NoMap
    BY <1>2, <2>1, <2>2, WriteFacts, WantedFacts DEF Wrote
  <2>4. Lost(nameOf[s])
    BY <2>2, <2>3 DEF LostInv, Exists
  <2>5. /\ wrote \subseteq wrote' /\ retired \subseteq retired'
        /\ removed \subseteq removed'
    BY <1>2, WriteFacts DEF Wrote
  <2> QED BY <2>4, <2>5, LostStays
<1>3. ASSUME NEW n \in Names, Freed(n) PROVE Lost(nameOf[s])'
  <2>1. s \in wrote /\ s \in Requests /\ nameOf[s] \in Names
    BY <1>3, WantedFacts DEF Freed, TypeOK
  <2>2. CASE store[nameOf[s]] = NoMap
    <3>1. Lost(nameOf[s])
      BY <2>1, <2>2 DEF LostInv, Exists
    <3> QED BY <1>3, <3>1, LostStays DEF Freed
  <2>3. CASE store[nameOf[s]] # NoMap
    <3>1. n = nameOf[s]
      BY <1>3, <2>1, <2>3 DEF Freed, TypeOK
    <3>2. CASE n \in removed'
      BY <3>1, <3>2 DEF Lost
    <3>3. CASE store[n].owner \in retired
      <4>1. PICK w \in wrote : nameOf[w] = n /\ store[n] = wanted[w]
        BY <2>3, <3>1 DEF StoreInv
      <4>2. pods[w].owner \in retired'
        BY <1>3, <3>3, <4>1, WantedFacts DEF Freed, TypeOK
      <4>3. w \in wrote'
        BY <1>3, <4>1 DEF Freed
      <4> QED BY <3>1, <4>1, <4>2, <4>3 DEF Lost
    <3> QED BY <1>3, <3>2, <3>3 DEF Freed
  <2> QED BY <2>2, <2>3
<1> QED BY <1>1, <1>2, <1>3, StoreSteps

(* A request past its write wrote, and Update follows another's write.     *)
LEMMA ControlStep ==
    ASSUME TypeOK, StoreInv, LostInv, ControlInv, RefusedForAReason, [Next]_vars
    PROVE  ControlInv' /\ RefusedForAReason'
<1>1. /\ wrote \subseteq wrote' /\ retired \subseteq retired'
      /\ removed \subseteq removed' /\ failed \subseteq failed'
  <2>1. wrote \subseteq wrote' /\ retired \subseteq retired' /\ removed \subseteq removed'
    BY StoreSteps, WriteFacts DEF Kept, Wrote, Freed
  <2>2. failed \subseteq failed'
    <3>1. ASSUME NEW r \in Requests, Handle(r) PROVE failed \subseteq failed'
      BY <3>1 DEF Handle, DryRun, Create, AlreadyExists, InvalidName, Update,
                  UpdateNotFound, CallFails, ResponseLost, RefuseLost, Admit,
                  Fault, countVars
    <3>2. CASE Cluster
      BY <3>2 DEF Cluster, Retry, Retire, Collect, Remove, countVars
    <3>3. CASE UNCHANGED vars BY <3>3 DEF vars, countVars
    <3> QED BY <3>1, <3>2, <3>3 DEF Next
  <2> QED BY <2>1, <2>2
<1> DEFINE Past(r) == /\ pc[r] \in {"written", "lost", "admitted"} /\ r \notin dryRuns =>
                            r \in wrote
                      /\ pc[r] = "update" => \E s \in wrote : nameOf[s] = nameOf[r]
                      /\ pc[r] = "lost" => r \in failed
                      /\ pc[r] \in {"update", "lost"} => r \notin dryRuns
           Reason(r) == pc[r] = "refused" =>
                            r \in failed \/ ~ValidName(r) \/ Lost(nameOf[r])
<1>2. ASSUME NEW r \in Requests PROVE Past(r) /\ Reason(r)
  BY DEF ControlInv, RefusedForAReason
<1>3. ASSUME NEW r \in Requests, pc'[r] = pc[r] PROVE Past(r)' /\ Reason(r)'
  <2>1. ValidName(r)' = ValidName(r)
    BY DEF ValidName, nameOf
  <2>2. Lost(nameOf[r]) => Lost(nameOf[r])'
    BY <1>1, LostStays DEF nameOf
  <2> QED BY <1>1, <1>2, <1>3, <2>1, <2>2 DEF nameOf, dryRuns
<1>4. ASSUME NEW r \in Requests, Handle(r)
      PROVE  /\ \A q \in Requests : q # r => pc'[q] = pc[q]
             /\ Past(r)' /\ Reason(r)'
  <2>1. ASSUME NEW next, Goto(r, next)
        PROVE  /\ \A q \in Requests : q # r => pc'[q] = pc[q]
               /\ pc'[r] = next
    BY <2>1 DEF Goto, TypeOK
  <2>2. ASSUME Write(r) PROVE r \in wrote'
    BY <2>2 DEF Write
  <2>3. CASE DryRun(r) BY <2>1, <2>3 DEF DryRun, dryRuns
  <2>4. CASE Create(r) BY <2>1, <2>2, <2>4 DEF Create
  <2>5. CASE AlreadyExists(r)
    <3>1. \E s \in wrote : nameOf[s] = nameOf[r]
      BY <2>5, WantedFacts DEF AlreadyExists, Exists, StoreInv
    <3>2. r \notin dryRuns
      BY <2>5 DEF AlreadyExists, Creates
    <3> QED BY <1>1, <2>1, <2>5, <3>1, <3>2 DEF AlreadyExists, dryRuns, nameOf
  <2>6. CASE InvalidName(r) BY <2>1, <2>6 DEF InvalidName, ValidName, nameOf
  <2>7. CASE Update(r) BY <2>1, <2>2, <2>7 DEF Update
  <2>8. CASE UpdateNotFound(r)
    <3>1. PICK s \in wrote : nameOf[s] = nameOf[r]
      BY <1>2, <2>8 DEF UpdateNotFound
    <3>2. Lost(nameOf[r])
      BY <2>8, <3>1 DEF UpdateNotFound, LostInv, Exists
    <3>3. Lost(nameOf[r])'
      BY <1>1, <3>2, LostStays DEF nameOf
    <3> QED BY <2>1, <2>8, <3>3 DEF UpdateNotFound
  <2>9. CASE CallFails(r) BY <2>1, <2>9 DEF CallFails, Fault
  <2>10. CASE ResponseLost(r)
    <3>1. r \notin dryRuns /\ r \in failed'
      BY <1>2, <2>10 DEF ResponseLost, Creates, Fault
    <3> QED BY <2>1, <2>2, <2>10, <3>1 DEF ResponseLost, dryRuns
  <2>11. CASE RefuseLost(r)
    <3>1. pc[r] = "lost" /\ pc'[r] = "refused"
      BY <2>1, <2>11 DEF RefuseLost
    <3>2. r \in failed'
      BY <1>1, <1>2, <3>1
    <3>3. \A q \in Requests : q # r => pc'[q] = pc[q]
      BY <2>1, <2>11 DEF RefuseLost
    <3> QED BY <3>1, <3>2, <3>3
  <2>12. CASE Admit(r) BY <1>1, <1>2, <2>1, <2>12 DEF Admit, dryRuns
  <2> QED BY <1>4, <2>3, <2>4, <2>5, <2>6, <2>7, <2>8, <2>9, <2>10, <2>11, <2>12
          DEF Handle
<1>5. ASSUME NEW r \in Requests, Retry(r)
      PROVE  /\ \A q \in Requests : q # r => pc'[q] = pc[q]
             /\ Past(r)' /\ Reason(r)'
  <2>1. pc'[r] = "create" /\ \A q \in Requests : q # r => pc'[q] = pc[q]
    BY <1>5 DEF Retry, Goto, TypeOK
  <2> QED BY <2>1
<1>6. (\A r \in Requests : pc'[r] = pc[r])
      \/ (\E r \in Requests : Handle(r) \/ Retry(r))
  BY DEF Next, Cluster, Retire, Collect, Remove, vars
<1>7. \A r \in Requests : Past(r)' /\ Reason(r)'
  <2>1. CASE \A r \in Requests : pc'[r] = pc[r]
    BY <1>3, <2>1
  <2>2. ASSUME NEW r \in Requests, Handle(r) \/ Retry(r)
        PROVE  \A q \in Requests : Past(q)' /\ Reason(q)'
    <3>1. Past(r)' /\ Reason(r)' /\ \A q \in Requests : q # r => pc'[q] = pc[q]
      BY <1>4, <1>5, <2>2
    <3> QED BY <1>3, <3>1
  <2> QED BY <1>6, <2>1, <2>2
<1> QED BY <1>7 DEF ControlInv, RefusedForAReason

(* Every step keeps the invariant.                                         *)
LEMMA StepInv == IInv /\ [Next]_vars => IInv'
BY TypeStep, StoreStep, LostStep, ControlStep DEF IInv

-----------------------------------------------------------------------------
(* The theorems *)

(* The invariant is inductive.                                             *)
THEOREM Invariance == Spec => []IInv
BY InitInv, StepInv, PTL DEF Spec

(* The requests, the store and the histories keep their types.             *)
THEOREM TypeCorrect == Spec => []TypeOK
<1>1. IInv => TypeOK BY DEF IInv
<1> QED BY <1>1, Invariance, PTL

(* An admitted pod's request wrote its map; the map is what the last       *)
(* writer of that name wanted, whole with its owner, or was lost to a      *)
(* deletion or a retired owner.                                            *)
THEOREM AdmittedPodsHaveTheirMap == Spec => []MapServesPod
<1>1. ASSUME IInv, NEW r \in Requests, pc[r] = "admitted", r \notin dryRuns
      PROVE  /\ r \in wrote
             /\ \/ Exists(r) /\ store[nameOf[r]] = wanted[last[nameOf[r]]]
                \/ ~Exists(r) /\ Lost(nameOf[r])
  <2>1. r \in wrote /\ nameOf[r] \in Names
    BY <1>1, WantedFacts DEF IInv, ControlInv
  <2>2. CASE Exists(r) BY <1>1, <2>1, <2>2 DEF IInv, StoreInv, Exists
  <2>3. CASE ~Exists(r) BY <1>1, <2>1, <2>3 DEF IInv, LostInv
  <2> QED BY <2>2, <2>3
<1>2. IInv => MapServesPod BY <1>1 DEF MapServesPod
<1> QED BY <1>2, Invariance, PTL

(* Racing for a name refuses no request.                                   *)
THEOREM RacesRefuseNobody == Spec => []RefusedForAReason
<1>1. IInv => RefusedForAReason BY DEF IInv
<1> QED BY <1>1, Invariance, PTL

-----------------------------------------------------------------------------
(* The refinement *)

(* Each step of Create and Update is a Put, an answer, or invisible.       *)
LEMMA StepRefines ==
    ASSUME TypeOK, ControlInv, [Next]_vars
    PROVE  [Promise!Next]_(Promise!vars)
<1> USE DEF Promise!vars
<1>0. \A r \in Requests : pc[r] \in {"create", "update", "written", "lost",
                                     "admitted", "refused"}
  BY DEF TypeOK
<1>1. ASSUME NEW r \in Requests, NEW next, Goto(r, next)
      PROVE  status' = [status EXCEPT ![r] =
                IF next \in {"admitted", "refused"} THEN next
                ELSE IF next \in {"written", "lost"} /\ r \notin dryRuns
                     THEN "written" ELSE "pending"]
  BY <1>1 DEF status, Goto, TypeOK, dryRuns
<1>2. ASSUME NEW r \in Requests, Handle(r) PROVE [Promise!Next]_(Promise!vars)
  <2>0. status[r] = IF pc[r] \in {"admitted", "refused"} THEN pc[r]
                    ELSE IF pc[r] \in {"written", "lost"} /\ r \notin dryRuns
                         THEN "written" ELSE "pending"
    BY DEF status
  <2>1. [status EXCEPT ![r] = status[r]] = status
    BY DEF status
  <2>2. CASE DryRun(r)
    BY <1>1, <2>0, <2>1, <2>2 DEF DryRun, NoWrite
  <2>3. CASE Create(r)
    <3>1. Promise!Put(r)
      BY <1>1, <2>0, <2>3 DEF Create, Creates, Write, Promise!Put, Promise!Become
    <3> QED BY <3>1 DEF Promise!Next
  <2>4. CASE AlreadyExists(r)
    BY <1>1, <2>0, <2>1, <2>4 DEF AlreadyExists, Creates, NoWrite
  <2>5. CASE InvalidName(r)
    <3>1. Promise!Refuse(r)
      BY <1>1, <2>0, <2>5 DEF InvalidName, NoWrite, Promise!Refuse, Promise!Become
    <3> QED BY <3>1 DEF Promise!Next
  <2>6. CASE Update(r)
    <3>1. r \notin dryRuns
      BY <2>6 DEF ControlInv, Update
    <3>2. Promise!Put(r)
      BY <1>1, <2>0, <2>6, <3>1 DEF Update, Write, Promise!Put, Promise!Become
    <3> QED BY <3>2 DEF Promise!Next
  <2>7. CASE UpdateNotFound(r)
    <3>1. Promise!Refuse(r)
      BY <1>1, <2>0, <2>7 DEF UpdateNotFound, NoWrite, Promise!Refuse, Promise!Become
    <3> QED BY <3>1 DEF Promise!Next
  <2>8. CASE CallFails(r)
    <3>1. Promise!Refuse(r)
      BY <1>1, <2>0, <2>8 DEF CallFails, NoWrite, Promise!Refuse, Promise!Become
    <3> QED BY <3>1 DEF Promise!Next
  <2>9. CASE ResponseLost(r)
    <3>1. r \notin dryRuns
      BY <2>9 DEF ControlInv, ResponseLost, Creates
    <3>2. Promise!Put(r)
      BY <1>1, <2>0, <2>9, <3>1
         DEF ResponseLost, Creates, Write, Promise!Put, Promise!Become
    <3> QED BY <3>2 DEF Promise!Next
  <2>10. CASE RefuseLost(r)
    <3>1. Promise!Refuse(r)
      BY <1>1, <2>0, <2>10
         DEF ControlInv, RefuseLost, NoWrite, Promise!Refuse, Promise!Become
    <3> QED BY <3>1 DEF Promise!Next
  <2>11. CASE Admit(r)
    <3>1. Promise!Admit(r)
      BY <1>1, <2>0, <2>11 DEF Admit, NoWrite, Promise!Admit, Promise!Become
    <3> QED BY <3>1 DEF Promise!Next
  <2> QED BY <1>2, <2>2, <2>3, <2>4, <2>5, <2>6, <2>7, <2>8, <2>9, <2>10, <2>11
          DEF Handle
<1>3. ASSUME NEW r \in Requests, Retry(r) PROVE [Promise!Next]_(Promise!vars)
  <2>1. status[r] = "refused"
    BY <1>3 DEF status, Retry
  <2>2. Promise!Retry(r)
    BY <1>1, <1>3, <2>1 DEF Retry, NoWrite, Promise!Retry, Promise!Become
  <2> QED BY <2>2 DEF Promise!Next
<1>4. ASSUME NEW n \in Names, Collect(n) \/ Remove(n)
      PROVE  [Promise!Next]_(Promise!vars)
  <2>1. status' = status
    BY <1>4 DEF Collect, Remove, status, dryRuns
  <2>2. Promise!Remove(n)
    BY <1>4, <2>1 DEF Collect, Remove, Promise!Remove
  <2> QED BY <2>2 DEF Promise!Next
<1>5. CASE UNCHANGED <<store, pc>>
  BY <1>5 DEF status, dryRuns
<1> QED BY <1>2, <1>3, <1>4, <1>5 DEF Next, Cluster, Retire, vars

(* The webhook's Create and Update implement the promise: every map is     *)
(* written in one step, by a pending request, before its pod is admitted.  *)
THEOREM Refinement == Spec => WritesOnceAdmitsAfter
<1>1. Init => Promise!Init
  BY DEF Init, Promise!Init, status
<1>2. IInv /\ [Next]_vars => [Promise!Next]_(Promise!vars)
  BY StepRefines DEF IInv
<1> QED BY <1>1, <1>2, Invariance, PTL DEF Spec, Promise!Spec, WritesOnceAdmitsAfter
=============================================================================
