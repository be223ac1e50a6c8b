----------------------------- MODULE WebhookProofs -----------------------------
(***************************************************************************)
(* Reviews of Secrets, ConfigMaps and custom objects, for any number of    *)
(* them, objects of any size and shape, and any order of the walk.         *)
(***************************************************************************)
EXTENDS Webhook, FiniteSetTheorems, TLAPS

-----------------------------------------------------------------------------
(* The inductive invariant *)

Pending(e) == Recognised(e) \/ Unusable(e)
Clean(o) == \A k \in DOMAIN o : ~Unusable(o[k])

(* What a mutation makes of an object while it runs.                       *)
Touched(before, o) ==
    /\ DOMAIN o \subseteq DOMAIN before
    /\ \A k \in DOMAIN before :
        /\ k \notin DOMAIN o =>
                before[k].slot = "auth" /\ ~Recognised(before[k]) /\ ~Unusable(before[k])
        /\ k \in DOMAIN o =>
                \/ o[k] = before[k]
                \/ Recognised(before[k]) /\ ~Unusable(before[k]) /\ o[k] = Resolve(before[k])

(* What is stored can be mutated again.                                    *)
GivenInv ==
    \A r \in Reviews :
        /\ Function(given[r]) /\ Function(obj[r])
        /\ \/ given[r] = review[r].object
           \/ Complete(review[r].object, given[r]) /\ Clean(review[r].object)

(* Every set of keys that has the keys still to do, and with a map or      *)
(* slice its children, has every reference that is left.                   *)
ClosedUnder(S, o) == \A k \in S \cap DOMAIN o : Children(o[k]) \subseteq S

Left(o) == {k \in DOMAIN o : Pending(o[k])}

WalkInv ==
    \A r \in Reviews : pc[r] = "mutate" =>
        /\ Touched(given[r], obj[r])
        /\ \A k \in todo[r] : obj[r][k].slot = "auth" => obj[r][k] = given[r][k]
        /\ \A S \in SUBSET DOMAIN review[r].object :
                todo[r] \subseteq S /\ ClosedUnder(S, obj[r]) => Left(obj[r]) \subseteq S

Looked(r) == review[r].kind \in {"secret", "configmap", "object"}

Controlled(r) ==
    /\ pc[r] \in {"received", "pod", "check", "client"} => obj[r] = given[r]
    /\ pc[r] \in {"pod", "check", "client", "mutate", "patched"} =>
            ~review[r].skip /\ ~BadSettings(r)
    /\ pc[r] = "pod" => review[r].kind = "pod"
    /\ pc[r] = "check" => review[r].kind \in {"secret", "configmap"}
    /\ pc[r] \in {"client", "mutate"} =>
            Looked(r) /\ (review[r].kind # "object" => References(given[r]) # {})
    /\ pc[r] = "patched" =>
            \/ review[r].kind = "pod" /\ obj[r] = given[r]
            \/ /\ Looked(r) /\ Complete(given[r], obj[r]) /\ Clean(given[r])
               /\ review[r].kind # "object" => References(given[r]) # {}
    /\ pc[r] = "unchanged" =>
            review[r].skip \/ review[r].kind = "other" \/ References(given[r]) = {}
    /\ pc[r] = "error" => r \in refused /\ (r \in unlucky \/ Defective(r))
    /\ pc[r] = "stored" \/ round[r] = 2 =>
            \/ References(given[r]) = {}
            \/ review[r].skip \/ ~Looked(r)
            \/ r \in refused /\ review[r].kind \in Ignoring

ControlInv == \A r \in Reviews : Controlled(r)

ClientInv ==
    \A r \in Reviews :
        /\ client[r] \in Steps => pc[r] = "client"
        /\ client[r] = "open" <=> pc[r] = "mutate"
        /\ client[r] = "failed" => pc[r] \in {"error", "stored", "rejected"}

IInv ==
    /\ TypeOK /\ GivenInv /\ WalkInv /\ ControlInv
    /\ ClientInv /\ AttemptsAddUp /\ VaultOnlyWhenNeeded

-----------------------------------------------------------------------------
(* Facts about reviews and entries *)

LEMMA ReviewFacts ==
    ASSUME TypeOK, NEW r \in Reviews
    PROVE  /\ review[r] \in Samples
           /\ review[r].kind \in {"pod", "secret", "configmap", "object", "other"}
           /\ review[r].account \in {"none", "bare", "secret"}
           /\ Function(review[r].object)
           /\ \A k \in DOMAIN review[r].object :
                /\ Entry(review[r].object[k])
                /\ review[r].object[k].children \subseteq DOMAIN review[r].object
           /\ IF review[r].kind = "object" THEN Tree(review[r].object)
              ELSE Flat(review[r].object)
<1>1. review[r] \in Samples
  BY DEF TypeOK
<1> QED BY <1>1, SamplesAssumption

(* What a reference is replaced by is no reference and no flaw.            *)
LEMMA ResolveFacts ==
    ASSUME NEW e, Entry(e)
    PROVE  /\ Entry(Resolve(e))
           /\ ~Recognised(Resolve(e))
           /\ Recognised(e) => ~Unusable(Resolve(e))
           /\ Resolve(e).slot = e.slot /\ Resolve(e).children = e.children
<1>1. /\ Resolve(e) \in EntryType
      /\ Resolve(e).slot = e.slot /\ Resolve(e).flaw = e.flaw
      /\ Resolve(e).children = e.children /\ Resolve(e).form = "none"
  BY DEF Entry, EntryType, Resolve
<1> QED BY <1>1 DEF Entry, Recognised, Unusable

(* The object of a review holds what was submitted, resolved or not.       *)
LEMMA GivenFacts ==
    ASSUME TypeOK, GivenInv, NEW r \in Reviews, NEW k \in DOMAIN given[r]
    PROVE  /\ k \in DOMAIN review[r].object
           /\ Entry(given[r][k])
           /\ given[r][k].slot = review[r].object[k].slot
           /\ given[r][k].children = review[r].object[k].children
           /\ Unusable(given[r][k]) => Unusable(review[r].object[k])
<1>1. k \in DOMAIN review[r].object
  BY DEF TypeOK
<1>2. Entry(review[r].object[k])
  BY <1>1, ReviewFacts
<1>3. \/ given[r][k] = review[r].object[k]
      \/ Recognised(review[r].object[k]) /\ given[r][k] = Resolve(review[r].object[k])
  BY <1>1 DEF GivenInv, Complete
<1> QED BY <1>1, <1>2, <1>3, ResolveFacts

(* Nothing is left to resolve in an object that was mutated.               *)
LEMMA CompleteFacts ==
    ASSUME NEW before, \A k \in DOMAIN before : Entry(before[k]),
           NEW o, Complete(before, o)
    PROVE  References(o) = {}
<1> SUFFICES ASSUME NEW k \in DOMAIN o PROVE ~Recognised(o[k])
  BY DEF References
<1>1. k \in DOMAIN before /\ Entry(before[k])
  BY DEF Complete
<1> QED BY <1>1, ResolveFacts DEF Complete

LEMMA GivenComplete ==
    ASSUME TypeOK, GivenInv, NEW r \in Reviews
    PROVE  References(given[r]) = {} \/ given[r] = review[r].object
<1>1. \A k \in DOMAIN review[r].object : Entry(review[r].object[k])
  BY ReviewFacts
<1> QED BY <1>1, CompleteFacts DEF GivenInv

(* Only a custom object has maps and slices, and it loses no key.          *)
LEMMA TreeFacts ==
    ASSUME TypeOK, GivenInv, NEW r \in Reviews, Touched(given[r], obj[r]),
           NEW k \in DOMAIN obj[r], Children(obj[r][k]) # {}
    PROVE  /\ review[r].kind = "object"
           /\ Children(obj[r][k]) \subseteq DOMAIN obj[r]
           /\ \A j \in DOMAIN obj[r] : obj[r][j].slot # "auth"
<1>1. /\ k \in DOMAIN given[r] /\ Entry(given[r][k])
      /\ obj[r][k].slot \in {"map", "slice"}
  BY GivenFacts DEF TypeOK, Children
<1>2. obj[r][k].slot = given[r][k].slot /\ obj[r][k].children = given[r][k].children
  BY <1>1, ResolveFacts DEF Touched
<1>3. /\ k \in DOMAIN review[r].object
      /\ obj[r][k].slot = review[r].object[k].slot
      /\ obj[r][k].children = review[r].object[k].children
  BY <1>1, <1>2, GivenFacts
<1>4. /\ review[r].kind = "object"
      /\ \A j \in DOMAIN review[r].object : review[r].object[j].slot # "auth"
  BY <1>1, <1>3, ReviewFacts DEF Flat, Tree
<1>5. DOMAIN given[r] = DOMAIN review[r].object
  BY <1>4 DEF GivenInv, Complete
<1>6. \A j \in DOMAIN given[r] : Entry(given[r][j]) /\ given[r][j].slot # "auth"
  BY <1>4, <1>5, GivenFacts
<1>7. DOMAIN obj[r] = DOMAIN given[r]
  BY <1>6 DEF Touched
<1>8. Children(obj[r][k]) \subseteq DOMAIN obj[r]
  BY <1>1, <1>3, <1>5, <1>7, ReviewFacts DEF Children
<1>9. \A j \in DOMAIN obj[r] : obj[r][j].slot # "auth"
  BY <1>6, <1>7, ResolveFacts DEF Touched
<1> QED BY <1>4, <1>8, <1>9

(* Going on with an object that is complete changes nothing in a tree.     *)
LEMMA SameFacts ==
    ASSUME TypeOK, GivenInv, NEW r \in Reviews, review[r].kind = "object",
           References(given[r]) = {}, Complete(given[r], obj[r])
    PROVE  obj[r] = given[r]
<1>1. \A k \in DOMAIN given[r] : given[r][k].slot # "auth" /\ ~Recognised(given[r][k])
  BY GivenFacts, ReviewFacts DEF Tree, References
<1>2. /\ DOMAIN obj[r] = DOMAIN given[r]
      /\ \A k \in DOMAIN given[r] : obj[r][k] = given[r][k]
  BY <1>1 DEF Complete
<1> QED BY <1>2, ZenonT(30) DEF GivenInv, Function

LEMMA StepsFacts ==
    /\ Steps = {"config", "tls", "account", "accountSecret", "token", "login"}
    /\ \A s \in Steps : failure[s] \subseteq Reasons
<1>1. Steps = {"config", "tls", "account", "accountSecret", "token", "login"}
  BY DEF Steps, failure
<1> QED BY <1>1 DEF failure, Reasons

-----------------------------------------------------------------------------
(* The Vault clients *)

(* A client's step moves it among the steps, or starts or ends it.         *)
LEMMA ClientMoves ==
    ASSUME TypeOK, NEW r \in Reviews, NEW to, Become(r, to)
    PROVE  /\ IsFiniteSet(Connecting) /\ Cardinality(Connecting) \in Nat
           /\ to \in Steps /\ client[r] \in Steps => Connecting' = Connecting
           /\ to \notin Steps /\ client[r] \notin Steps => Connecting' = Connecting
           /\ to \in Steps /\ client[r] \notin Steps =>
                    Cardinality(Connecting') = Cardinality(Connecting) + 1
           /\ to \notin Steps /\ client[r] \in Steps =>
                    Cardinality(Connecting') = Cardinality(Connecting) - 1
<1>1. IsFiniteSet(Connecting) /\ Cardinality(Connecting) \in Nat
  BY ReviewsAssumption, FS_Subset, FS_CardinalityType DEF Connecting
<1>2. Connecting' = IF to \in Steps THEN Connecting \cup {r} ELSE Connecting \ {r}
  BY DEF Connecting, Become, TypeOK, ClientTypeOK
<1>3. r \in Connecting <=> client[r] \in Steps
  BY DEF Connecting
<1>4. r \notin Connecting => Cardinality(Connecting \cup {r}) = Cardinality(Connecting) + 1
  BY <1>1, FS_AddElement
<1>5. r \in Connecting => Cardinality(Connecting \ {r}) = Cardinality(Connecting) - 1
  BY <1>1, FS_RemoveElement
<1>6. r \in Connecting => Connecting \cup {r} = Connecting
  OBVIOUS
<1>7. r \notin Connecting => Connecting \ {r} = Connecting
  OBVIOUS
<1> QED BY <1>1, <1>2, <1>3, <1>4, <1>5, <1>6, <1>7

(* The steps of newVaultClient, by what they do to the counters.           *)
LEMMA ClientStepFacts ==
    ASSUME TypeOK, NEW r \in Reviews, ClientStep(r)
    PROVE  /\ client[r] \in Steps
           /\ \E to \in Steps : Become(r, to)
           /\ UNCHANGED counters
           /\ tokens' \in {tokens, tokens \cup {r}}
<1>1. AfterTLS(r) \in Steps
  BY StepsFacts DEF AfterTLS
<1> QED
  BY <1>1, StepsFacts
     DEF ClientStep, Configure, ReadTLSSecret, ReadAccount, ReadAccountSecret,
         CreateToken, Pass

(* Whatever happens to the clients, each attempt stays accounted for.      *)
LEMMA AttemptsStep == IInv /\ [Next]_vars => AttemptsAddUp'
<1> SUFFICES ASSUME IInv, [Next]_vars PROVE AttemptsAddUp'
  OBVIOUS
<1> USE DEF IInv
<1>0. /\ attempts \in Nat /\ opened \in Nat /\ errors \in [Reasons -> Nat]
      /\ errors["config_error"] \in Nat /\ errors["kubernetes_error"] \in Nat
  BY DEF TypeOK, ClientTypeOK, Reasons
<1>1. CASE UNCHANGED clientVars
  BY <1>1 DEF clientVars, counters, AttemptsAddUp, Connecting
<1>2. ASSUME NEW r \in Reviews, Attempt(r) PROVE AttemptsAddUp'
  <2>1. "config" \in Steps /\ client[r] \notin Steps
    BY <1>2, StepsFacts DEF Attempt
  <2>2. Cardinality(Connecting') = Cardinality(Connecting) + 1
    BY <1>2, <2>1, ClientMoves DEF Attempt
  <2> QED BY <1>0, <1>2, <2>2, ClientMoves DEF Attempt, AttemptsAddUp
<1>3. ASSUME NEW r \in Reviews, ClientStep(r) PROVE AttemptsAddUp'
  <2>1. Connecting' = Connecting /\ UNCHANGED counters
    BY <1>3, ClientStepFacts, ClientMoves
  <2> QED BY <2>1 DEF counters, AttemptsAddUp
<1>4. ASSUME NEW r \in Reviews, Connect(r) PROVE AttemptsAddUp'
  <2>1. "open" \notin Steps /\ client[r] \in Steps
    BY <1>4, StepsFacts DEF Connect
  <2>2. Cardinality(Connecting') = Cardinality(Connecting) - 1
    BY <1>4, <2>1, ClientMoves DEF Connect
  <2>3. Cardinality(Connecting) \in Nat
    BY <1>4, ClientMoves DEF Connect
  <2> QED BY <1>0, <1>4, <2>2, <2>3 DEF Connect, AttemptsAddUp
<1>5. ASSUME NEW r \in Reviews, ClientFails(r) PROVE AttemptsAddUp'
  <2>1. "failed" \notin Steps /\ client[r] \in Steps
    BY <1>5, StepsFacts DEF ClientFails
  <2>2. Cardinality(Connecting') = Cardinality(Connecting) - 1
    BY <1>5, <2>1, ClientMoves DEF ClientFails
  <2>3. Cardinality(Connecting) \in Nat
    BY <1>5, ClientMoves DEF ClientFails
  <2>4. PICK reason \in Reasons : Count(reason)
    BY <1>5, <2>1, StepsFacts DEF ClientFails
  <2>5. errors'["config_error"] + errors'["kubernetes_error"]
            = errors["config_error"] + errors["kubernetes_error"] + 1
    BY <1>0, <2>4 DEF Count, Reasons
  <2>6. errors'["config_error"] \in Nat /\ errors'["kubernetes_error"] \in Nat
    BY <1>0, <2>4 DEF Count, Reasons
  <2> QED BY <1>0, <1>5, <2>2, <2>3, <2>5, <2>6 DEF ClientFails, AttemptsAddUp
<1>6. ASSUME NEW r \in Reviews, Close(r) PROVE AttemptsAddUp'
  <2>1. Connecting' = Connecting /\ UNCHANGED counters
    BY <1>6, StepsFacts, ClientMoves DEF Close, Pass
  <2> QED BY <2>1 DEF counters, AttemptsAddUp
<1>7. ASSUME NEW r \in Reviews, Reinvoke(r) PROVE AttemptsAddUp'
  <2>1. client[r] \notin Steps /\ "none" \notin Steps
    BY <1>7, StepsFacts DEF Reinvoke, ClientInv
  <2>2. Connecting' = Connecting /\ UNCHANGED counters
    BY <1>7, <2>1, ClientMoves DEF Reinvoke, Become
  <2> QED BY <2>2 DEF counters, AttemptsAddUp
<1>8. ASSUME Crash PROVE AttemptsAddUp'
  <2>1. \A r \in Reviews : client'[r] \notin Steps
    BY <1>8, StepsFacts DEF Crash, ClientCrash, Answered, ClientInv
  <2>2. Cardinality(Connecting') = 0
    BY <2>1, FS_EmptySet DEF Connecting
  <2> QED BY <1>8, <2>2 DEF Crash, ClientCrash, AttemptsAddUp, Reasons
<1> QED
  BY <1>1, <1>2, <1>3, <1>4, <1>5, <1>6, <1>7, <1>8
     DEF Next, VaultSecretsMutator, Skip, RejectSettings, Dispatch, MutatePod,
         PodRefused, NothingToDo, NeedsMutation, CheckFails, StartClient, NoClient,
         HasClient, Visit, VisitFails, Mutated, Store, vars

(* A review has a client while it mutates, and is building one before.     *)
LEMMA ClientStepInv == IInv /\ [Next]_vars => ClientInv'
<1> SUFFICES ASSUME IInv, [Next]_vars PROVE ClientInv'
  OBVIOUS
<1> USE StepsFacts DEF IInv
<1>0. ASSUME NEW r \in Reviews, NEW to, NEW next, Become(r, to), Goto(r, next),
             to \in Steps => next = "client", to = "open" <=> next = "mutate",
             to = "failed" => next = "error"
      PROVE  ClientInv'
  BY <1>0 DEF Become, Goto, ClientInv, TypeOK, ClientTypeOK
<1>1. ASSUME NEW r \in Reviews, NEW next, UNCHANGED client, Goto(r, next),
             pc[r] \notin {"client", "mutate"}, next # "mutate",
             pc[r] \in Answered => next \in {"stored", "rejected"}, pc[r] # "stored",
             pc[r] # "rejected"
      PROVE  ClientInv'
  BY <1>1 DEF Goto, ClientInv, TypeOK, Answered
<1>2. ASSUME UNCHANGED <<client, pc>> PROVE ClientInv'
  BY <1>2 DEF ClientInv
<1>3. ASSUME NEW r \in Reviews,
             \/ Skip(r) \/ RejectSettings(r) \/ MutatePod(r) \/ PodRefused(r)
             \/ NothingToDo(r) \/ NeedsMutation(r) \/ CheckFails(r) \/ Store(r)
      PROVE  ClientInv'
  BY <1>1, <1>3
     DEF Skip, RejectSettings, MutatePod, PodRefused, NothingToDo, NeedsMutation,
         CheckFails, Store, Answered, Refuse, clientVars
<1>4. ASSUME NEW r \in Reviews, Dispatch(r) PROVE ClientInv'
  <2>1. first[review[r].kind] # "mutate"
    BY ReviewFacts DEF first
  <2> QED BY <1>1, <1>4, <2>1 DEF Dispatch, clientVars, Answered
<1>5. ASSUME NEW r \in Reviews, StartClient(r) PROVE ClientInv'
  <2>1. PICK to \in Steps : Become(r, to)
    BY <1>5, ClientStepFacts DEF StartClient, Attempt
  <2>2. pc[r] = "client" /\ UNCHANGED pc
    BY <1>5 DEF StartClient
  <2> QED BY <2>1, <2>2 DEF Become, ClientInv, TypeOK, ClientTypeOK
<1>6. ASSUME NEW r \in Reviews,
             NoClient(r) \/ HasClient(r) \/ VisitFails(r) \/ Mutated(r)
      PROVE  ClientInv'
  BY <1>0, <1>6
     DEF NoClient, HasClient, VisitFails, Mutated, Refuse, ClientFails, Connect,
         Close, Pass
<1>7. ASSUME NEW r \in Reviews, Visit(r) PROVE ClientInv'
  BY <1>2, <1>7 DEF Visit, clientVars
<1>8. ASSUME NEW r \in Reviews, Reinvoke(r) PROVE ClientInv'
  BY <1>0, <1>8 DEF Reinvoke, Become
<1>9. ASSUME Crash PROVE ClientInv'
  BY <1>9 DEF Crash, ClientCrash, Answered, ClientInv
<1>10. CASE UNCHANGED vars
  BY <1>2, <1>10 DEF vars, clientVars
<1> QED
  BY <1>3, <1>4, <1>5, <1>6, <1>7, <1>8, <1>9, <1>10 DEF Next, VaultSecretsMutator

-----------------------------------------------------------------------------
(* The types *)

(* A client and the counters keep their type in any of its steps.          *)
LEMMA ClientTypeStep == IInv /\ [Next]_vars => ClientTypeOK'
<1> SUFFICES ASSUME IInv, [Next]_vars PROVE ClientTypeOK'
  OBVIOUS
<1> USE StepsFacts DEF IInv, TypeOK, ClientTypeOK
<1>1. CASE UNCHANGED clientVars
  BY <1>1 DEF clientVars, counters
<1>2. ASSUME NEW r \in Reviews, Attempt(r) \/ Connect(r) PROVE ClientTypeOK'
  BY <1>2 DEF Attempt, Connect, Become
<1>3. ASSUME NEW r \in Reviews, ClientStep(r) PROVE ClientTypeOK'
  BY <1>3, ClientStepFacts DEF Become, counters
<1>4. ASSUME NEW r \in Reviews, ClientFails(r) PROVE ClientTypeOK'
  <2>1. client' \in [Reviews -> Steps \cup {"none", "open", "closed", "failed"}]
    BY <1>4 DEF ClientFails, Become
  <2>2. PICK reason \in Reasons : Count(reason)
    BY <1>4 DEF ClientFails
  <2>3. errors' \in [Reasons -> Nat]
    BY <2>2 DEF Count
  <2>4. tokens' \subseteq Reviews /\ attempts' \in Nat /\ opened' \in Nat
    BY <1>4 DEF ClientFails
  <2> QED BY <2>1, <2>3, <2>4
<1>5. ASSUME NEW r \in Reviews, Close(r) PROVE ClientTypeOK'
  BY <1>5 DEF Close, Pass, Become, counters
<1>6. ASSUME NEW r \in Reviews, Reinvoke(r) PROVE ClientTypeOK'
  BY <1>6 DEF Reinvoke, counters
<1>7. ASSUME Crash PROVE ClientTypeOK'
  BY <1>7 DEF Crash, ClientCrash
<1> QED
  BY <1>1, <1>2, <1>3, <1>4, <1>5, <1>6, <1>7
     DEF Next, VaultSecretsMutator, Skip, RejectSettings, Dispatch, MutatePod,
         PodRefused, NothingToDo, NeedsMutation, CheckFails, StartClient, NoClient,
         HasClient, Visit, VisitFails, Mutated, Store, vars

(* What a visit makes of the object in memory.                             *)
LEMMA VisitFacts ==
    ASSUME TypeOK, NEW r \in Reviews, NEW k \in DOMAIN obj[r]
    PROVE  /\ DOMAIN Visited(obj[r], k) =
                    IF Dropped(obj[r][k]) THEN DOMAIN obj[r] \ {k} ELSE DOMAIN obj[r]
           /\ ~Dropped(obj[r][k]) =>
                    Visited(obj[r], k)[k] =
                        IF Recognised(obj[r][k]) THEN Resolve(obj[r][k]) ELSE obj[r][k]
           /\ \A j \in DOMAIN obj[r] \ {k} : Visited(obj[r], k)[j] = obj[r][j]
           /\ \A j \in DOMAIN Visited(obj[r], k) :
                /\ Entry(Visited(obj[r], k)[j])
                /\ Visited(obj[r], k)[j].slot = obj[r][j].slot
<1>1. \A j \in DOMAIN obj[r] : Entry(obj[r][j])
  BY DEF TypeOK
<1> QED BY <1>1, ResolveFacts DEF Visited, Dropped

(* The keys still to do are keys of the object.                            *)
LEMMA ObjectTypes ==
    ASSUME IInv, [Next]_vars
    PROVE  /\ Reviews = DOMAIN obj' /\ Reviews = DOMAIN todo' /\ Reviews = DOMAIN given'
           /\ \A r \in Reviews :
                /\ \A k \in DOMAIN obj'[r] : Entry(obj'[r][k])
                /\ todo'[r] \subseteq DOMAIN obj'[r]
                /\ DOMAIN obj'[r] \subseteq DOMAIN given'[r]
                /\ DOMAIN given'[r] \subseteq DOMAIN review[r].object
<1> DEFINE Typed ==
        /\ Reviews = DOMAIN obj' /\ Reviews = DOMAIN todo' /\ Reviews = DOMAIN given'
        /\ \A r \in Reviews :
            /\ \A k \in DOMAIN obj'[r] : Entry(obj'[r][k])
            /\ todo'[r] \subseteq DOMAIN obj'[r]
            /\ DOMAIN obj'[r] \subseteq DOMAIN given'[r]
            /\ DOMAIN given'[r] \subseteq DOMAIN review[r].object
<1> SUFFICES Typed
  OBVIOUS
<1> USE DEF IInv
<1>1. CASE UNCHANGED <<obj, todo, given>>
  BY <1>1 DEF TypeOK
<1>2. ASSUME NEW r \in Reviews, HasClient(r) PROVE Typed
  <2>1. Roots(r) \subseteq DOMAIN obj[r]
    <3>1. obj[r] = given[r]
      BY <1>2 DEF HasClient, ControlInv, Controlled
    <3>2. CASE review[r].kind = "object"
      <4>1. "root" \in DOMAIN review[r].object
        BY <3>2, ReviewFacts DEF Tree
      <4>2. \A k \in DOMAIN review[r].object : review[r].object[k].slot # "auth"
        BY <3>2, ReviewFacts DEF Tree
      <4>3. "root" \in DOMAIN given[r]
        BY <4>1, <4>2 DEF GivenInv, Complete
      <4> QED BY <3>1, <4>3 DEF Roots
    <3>3. CASE review[r].kind # "object"
      BY <3>3 DEF Roots
    <3> QED BY <3>2, <3>3
  <2> QED BY <1>2, <2>1 DEF HasClient, Fixed, TypeOK
<1>3. ASSUME NEW r \in Reviews, Visit(r) PROVE Typed
  <2>1. PICK k \in Ready(r) :
            /\ obj' = [obj EXCEPT ![r] = Visited(@, k)]
            /\ todo' = [todo EXCEPT ![r] = (@ \ {k}) \cup Children(obj[r][k])]
    BY <1>3 DEF Visit
  <2>2. k \in todo[r] /\ k \in DOMAIN obj[r] /\ todo[r] \subseteq DOMAIN obj[r]
    BY <2>1 DEF Ready, TypeOK
  <2>3. (todo[r] \ {k}) \cup Children(obj[r][k]) \subseteq DOMAIN Visited(obj[r], k)
    <3>1. CASE Children(obj[r][k]) = {}
      BY <2>2, <3>1, VisitFacts
    <3>2. CASE Children(obj[r][k]) # {}
      <4>1. Touched(given[r], obj[r])
        BY <1>3 DEF Visit, WalkInv
      <4>2. ~Dropped(obj[r][k])
        BY <3>2 DEF Children, Dropped
      <4>3. Children(obj[r][k]) \subseteq DOMAIN obj[r]
        BY <2>2, <3>2, <4>1, TreeFacts
      <4> QED BY <2>2, <4>2, <4>3, VisitFacts
    <3> QED BY <3>1, <3>2
  <2>4. \A j \in DOMAIN Visited(obj[r], k) : j \in DOMAIN obj[r] /\ Entry(Visited(obj[r], k)[j])
    BY <2>2, VisitFacts
  <2>5. UNCHANGED given
    BY <1>3 DEF Visit, Fixed
  <2> QED BY <2>1, <2>3, <2>4, <2>5 DEF TypeOK
<1>4. ASSUME NEW r \in Reviews, Store(r) PROVE Typed
  BY <1>4 DEF Store, NoData, TypeOK
<1>5. ASSUME NEW r \in Reviews, Reinvoke(r) PROVE Typed
  <2>1. \A k \in DOMAIN given[r] : Entry(given[r][k])
    BY GivenFacts
  <2> QED BY <1>5, <2>1 DEF Reinvoke, TypeOK
<1> QED
  BY <1>1, <1>2, <1>3, <1>4, <1>5
     DEF Next, VaultSecretsMutator, Skip, RejectSettings, Dispatch, MutatePod,
         PodRefused, NothingToDo, NeedsMutation, CheckFails, StartClient, NoClient,
         VisitFails, Mutated, Refuse, NoData, Fixed, Crash, vars

LEMMA TypeStep == IInv /\ [Next]_vars => TypeOK'
<1> SUFFICES ASSUME IInv, [Next]_vars PROVE TypeOK'
  OBVIOUS
<1> DEFINE Rest ==
        /\ pc' \in [Reviews -> {"received", "pod", "check", "client", "mutate",
                       "patched", "unchanged", "error", "stored", "rejected"}]
        /\ round' \in [Reviews -> 1..2]
        /\ wrote' \subseteq Reviews /\ unlucky' \subseteq Reviews
        /\ refused' \subseteq Reviews /\ crashes' \in 0..MaxCrashes
        /\ review' = review
<1> USE DEF IInv
<1>0. TypeOK
  OBVIOUS
<1>1. UNCHANGED vars => Rest
  BY <1>0 DEF TypeOK, vars, history
<1>2. Crash => Rest
  BY <1>0, CrashesAssumption DEF TypeOK, Crash, Fixed
<1>3. ASSUME NEW r \in Reviews, Store(r) \/ Reinvoke(r) PROVE Rest
  BY <1>0, <1>3 DEF TypeOK, Store, Reinvoke, Goto, NoData, history
<1>4. ASSUME NEW r \in Reviews,
             \/ Skip(r) \/ RejectSettings(r) \/ MutatePod(r) \/ PodRefused(r)
             \/ NothingToDo(r) \/ NeedsMutation(r) \/ CheckFails(r) \/ StartClient(r)
      PROVE  Rest
  BY <1>0, <1>4
     DEF TypeOK, Skip, RejectSettings, MutatePod, PodRefused, NothingToDo,
         NeedsMutation, CheckFails, StartClient, Refuse, Goto, NoData, Fixed, history
<1>5. ASSUME NEW r \in Reviews, Dispatch(r) PROVE Rest
  <2>1. first[review[r].kind] \in {"pod", "check", "client", "unchanged"}
    BY ReviewFacts DEF first
  <2> QED BY <1>0, <1>5, <2>1 DEF TypeOK, Dispatch, Goto, NoData, Fixed, history
<1>6. ASSUME NEW r \in Reviews,
             NoClient(r) \/ HasClient(r) \/ Visit(r) \/ VisitFails(r) \/ Mutated(r)
      PROVE  Rest
  BY <1>0, <1>6
     DEF TypeOK, NoClient, HasClient, Visit, VisitFails, Mutated, Refuse, Goto,
         NoData, Fixed, history
<1>7. Rest
  <2> HIDE DEF Rest, IInv
  <2> QED BY <1>1, <1>2, <1>3, <1>4, <1>5, <1>6 DEF Next, VaultSecretsMutator
<1>8. ClientTypeOK'
  BY ClientTypeStep
<1> QED BY <1>0, <1>7, <1>8, ObjectTypes DEF TypeOK

-----------------------------------------------------------------------------
(* The walk *)

(* When nothing is left to do, the closed set is empty and so is what is   *)
(* left.                                                                   *)
LEMMA WalkEnds ==
    ASSUME IInv, NEW r \in Reviews, Mutated(r)
    PROVE  Complete(given[r], obj[r]) /\ Clean(given[r])
<1> USE DEF IInv
<1>1. pc[r] = "mutate" /\ todo[r] = {} /\ Touched(given[r], obj[r])
  BY DEF Mutated, WalkInv
<1>2. {} \in SUBSET DOMAIN review[r].object /\ ClosedUnder({}, obj[r])
  BY DEF ClosedUnder
<1>3. Left(obj[r]) = {}
  BY <1>1, <1>2 DEF WalkInv
<1>4. \A k \in DOMAIN obj[r] : ~Recognised(obj[r][k]) /\ ~Unusable(obj[r][k])
  BY <1>3 DEF Left, Pending
<1> QED BY <1>1, <1>4 DEF Touched, Complete, Clean

(* What is stored is what was given, or what the walk made of it.          *)
LEMMA StoredIs ==
    ASSUME IInv, NEW r \in Reviews, pc[r] = "patched"
    PROVE  /\ References(obj[r]) = {} \/ review[r].kind = "pod"
           /\ References(given[r]) = {} \/ review[r].kind = "pod" => obj[r] = given[r]
           /\ \/ obj[r] = review[r].object
              \/ Complete(review[r].object, obj[r]) /\ Clean(review[r].object)
<1> USE DEF IInv
<1>1. CASE review[r].kind = "pod"
  BY <1>1 DEF ControlInv, Controlled, GivenInv, Looked
<1>2. CASE review[r].kind # "pod"
  <2>1. /\ Complete(given[r], obj[r]) /\ Clean(given[r])
        /\ review[r].kind # "object" => References(given[r]) # {}
    BY <1>2 DEF ControlInv, Controlled
  <2>2. \A k \in DOMAIN given[r] : Entry(given[r][k])
    BY GivenFacts
  <2>3. References(obj[r]) = {}
    BY <2>1, <2>2, CompleteFacts
  <2>4. References(given[r]) = {} => obj[r] = given[r]
    BY <2>1, SameFacts
  <2> QED BY <1>2, <2>1, <2>3, <2>4, GivenComplete DEF GivenInv
<1> QED BY <1>1, <1>2

LEMMA GivenStep == IInv /\ [Next]_vars => GivenInv'
<1> SUFFICES ASSUME IInv, [Next]_vars PROVE GivenInv'
  OBVIOUS
<1> USE DEF IInv
<1>1. CASE UNCHANGED <<review, obj, given>>
  BY <1>1 DEF GivenInv, Function, Complete, Clean
<1>2. ASSUME NEW r \in Reviews, Store(r) PROVE GivenInv'
  <2>1. UNCHANGED <<review, obj>>
    BY <1>2 DEF Store, NoData
  <2>2. ASSUME NEW s \in Reviews
        PROVE  /\ Function(given'[s])
               /\ \/ given'[s] = review[s].object
                  \/ Complete(review[s].object, given'[s]) /\ Clean(review[s].object)
    <3>1. CASE given'[s] = given[s]
      BY <3>1 DEF GivenInv
    <3>2. CASE given'[s] # given[s]
      <4>1. s = r /\ pc[s] = "patched" /\ given'[s] = obj[s]
        BY <1>2, <3>2 DEF Store, TypeOK
      <4> QED BY <4>1, StoredIs DEF GivenInv
    <3> QED BY <3>1, <3>2
  <2> QED BY <2>1, <2>2 DEF GivenInv
<1>3. ASSUME NEW r \in Reviews, Reinvoke(r) PROVE GivenInv'
  BY <1>3 DEF Reinvoke, GivenInv, TypeOK
<1>4. ASSUME NEW r \in Reviews, Visit(r) PROVE GivenInv'
  <2>1. PICK k \in Ready(r) : obj' = [obj EXCEPT ![r] = Visited(@, k)]
    BY <1>4 DEF Visit
  <2>2. Function(obj[r])
    BY DEF GivenInv
  <2>3. Function(Visited(obj[r], k))
    <3>1. CASE Dropped(obj[r][k])
      BY <3>1 DEF Function, Visited
    <3>2. CASE ~Dropped(obj[r][k]) /\ Recognised(obj[r][k])
      BY <2>2, <3>2 DEF Function, Visited
    <3>3. CASE ~Dropped(obj[r][k]) /\ ~Recognised(obj[r][k])
      BY <2>2, <3>3 DEF Visited
    <3> QED BY <3>1, <3>2, <3>3
  <2>4. UNCHANGED <<review, given>>
    BY <1>4 DEF Visit, Fixed
  <2> QED BY <2>1, <2>3, <2>4 DEF GivenInv, TypeOK
<1> QED
  BY <1>1, <1>2, <1>3, <1>4
     DEF Next, VaultSecretsMutator, Skip, RejectSettings, Dispatch, MutatePod,
         PodRefused, NothingToDo, NeedsMutation, CheckFails, StartClient, NoClient,
         HasClient, VisitFails, Mutated, Refuse, NoData, Fixed, Crash, vars

(* Before the walk a closed set that has the roots has every key.          *)
LEMMA WalkBegins ==
    ASSUME IInv, NEW r \in Reviews, HasClient(r),
           NEW S \in SUBSET DOMAIN review[r].object,
           Roots(r) \subseteq S, ClosedUnder(S, obj[r])
    PROVE  DOMAIN obj[r] \subseteq S
<1> USE DEF IInv
<1>1. obj[r] = given[r]
  BY DEF HasClient, ControlInv, Controlled
<1>2. CASE review[r].kind = "object"
  <2>1. Tree(review[r].object)
    BY <1>2, ReviewFacts
  <2>2. DOMAIN given[r] = DOMAIN review[r].object
    BY <2>1 DEF Tree, GivenInv, Complete
  <2>3. "root" \in S
    BY <1>2 DEF Roots
  <2>4. ASSUME NEW k \in S, review[r].object[k].slot \in {"map", "slice"}
        PROVE  review[r].object[k].children \subseteq S
    BY <1>1, <2>2, <2>4, GivenFacts DEF ClosedUnder, Children
  <2>5. S = DOMAIN review[r].object
    BY <2>1, <2>3, <2>4 DEF Tree
  <2> QED BY <1>1, <2>2, <2>5
<1>3. CASE review[r].kind # "object"
  BY <1>3 DEF Roots
<1> QED BY <1>2, <1>3

(* A visited key and its set of closed keys: the key may be left out again.*)
LEMMA WalkGoesOn ==
    ASSUME IInv, NEW r \in Reviews, pc[r] = "mutate",
           NEW k \in todo[r], ~Unusable(obj[r][k]),
           NEW S \in SUBSET DOMAIN review[r].object,
           (todo[r] \ {k}) \cup Children(obj[r][k]) \subseteq S,
           ClosedUnder(S, Visited(obj[r], k))
    PROVE  Left(Visited(obj[r], k)) \subseteq S
<1> USE DEF IInv
<1> DEFINE o == Visited(obj[r], k)
           T == S \cup {k}
<1>1. k \in DOMAIN obj[r] /\ k \in DOMAIN review[r].object /\ Entry(obj[r][k])
  BY DEF TypeOK
<1>2. T \in SUBSET DOMAIN review[r].object /\ todo[r] \subseteq T
  BY <1>1
<1>3. ASSUME NEW j \in S \cap DOMAIN obj[r], j # k PROVE Children(obj[r][j]) \subseteq S
  <2>1. j \in DOMAIN o /\ o[j] = obj[r][j]
    BY <1>1, <1>3, VisitFacts
  <2> QED BY <2>1 DEF ClosedUnder
<1>4. ClosedUnder(T, obj[r])
  BY <1>3 DEF ClosedUnder
<1>5. Left(obj[r]) \subseteq T
  BY <1>2, <1>4 DEF WalkInv
<1>6. ASSUME NEW j \in DOMAIN o, j # k, Pending(o[j]) PROVE j \in S
  <2>1. j \in DOMAIN obj[r] /\ o[j] = obj[r][j]
    BY <1>1, <1>6, VisitFacts, ZenonT(30)
  <2> QED BY <1>5, <1>6, <2>1 DEF Left
<1>7. k \in DOMAIN o => ~Pending(o[k])
  <2> SUFFICES ASSUME k \in DOMAIN o PROVE ~Pending(o[k])
    OBVIOUS
  <2>1. o[k] = IF Recognised(obj[r][k]) THEN Resolve(obj[r][k]) ELSE obj[r][k]
    BY <1>1, VisitFacts
  <2>2. CASE Recognised(obj[r][k])
    <3>1. o[k] = Resolve(obj[r][k])
      BY <2>1, <2>2
    <3>2. ~Recognised(Resolve(obj[r][k])) /\ ~Unusable(Resolve(obj[r][k]))
      BY <1>1, <2>2, ResolveFacts
    <3> HIDE DEF o
    <3> QED BY <3>1, <3>2 DEF Pending
  <2>3. CASE ~Recognised(obj[r][k])
    <3>1. o[k] = obj[r][k]
      BY <2>1, <2>3
    <3> HIDE DEF o
    <3> QED BY <2>3, <3>1 DEF Pending
  <2> QED BY <2>2, <2>3
<1> QED BY <1>6, <1>7 DEF Left

(* A visit resolves a reference as it was given, or drops a registry.      *)
LEMMA VisitTouches ==
    ASSUME IInv, NEW r \in Reviews, pc[r] = "mutate",
           NEW k \in todo[r], ~Unusable(obj[r][k])
    PROVE  Touched(given[r], Visited(obj[r], k))
<1> USE DEF IInv
<1> DEFINE o == Visited(obj[r], k)
<1>1. /\ Touched(given[r], obj[r])
      /\ obj[r][k].slot = "auth" => obj[r][k] = given[r][k]
      /\ k \in DOMAIN obj[r] /\ k \in DOMAIN given[r] /\ Entry(given[r][k])
  BY GivenFacts DEF WalkInv, TypeOK
<1>2. DOMAIN o \subseteq DOMAIN obj[r] /\ DOMAIN obj[r] \subseteq DOMAIN given[r]
  <2>1. DOMAIN o \subseteq DOMAIN obj[r]
    BY <1>1, VisitFacts
  <2> QED BY <2>1 DEF TypeOK
<1>3. \A j \in DOMAIN obj[r] \ {k} : j \in DOMAIN o /\ o[j] = obj[r][j]
  BY <1>1, VisitFacts
<1>4. ASSUME k \notin DOMAIN o
      PROVE  given[r][k].slot = "auth" /\ ~Recognised(given[r][k]) /\ ~Unusable(given[r][k])
  <2>1. Dropped(obj[r][k])
    BY <1>1, <1>4, VisitFacts
  <2> QED BY <1>1, <2>1 DEF Dropped
<1>5. ASSUME k \in DOMAIN o
      PROVE  \/ o[k] = given[r][k]
             \/ /\ Recognised(given[r][k]) /\ ~Unusable(given[r][k])
                /\ o[k] = Resolve(given[r][k])
  <2>1. o[k] = IF Recognised(obj[r][k]) THEN Resolve(obj[r][k]) ELSE obj[r][k]
    BY <1>1, <1>5, VisitFacts
  <2>2. Recognised(obj[r][k]) => obj[r][k] = given[r][k]
    BY <1>1, ResolveFacts DEF Touched
  <2> QED BY <1>1, <2>1, <2>2 DEF Touched
<1> QED
  <2> HIDE DEF o
  <2>1. Touched(given[r], o)
    BY <1>1, <1>2, <1>3, <1>4, <1>5 DEF Touched
  <2> QED BY <2>1 DEF o

LEMMA WalkStep == IInv /\ [Next]_vars => WalkInv'
<1> SUFFICES ASSUME IInv, [Next]_vars PROVE WalkInv'
  OBVIOUS
<1> DEFINE Walks(r) ==
        /\ Touched(given'[r], obj'[r])
        /\ \A k \in todo'[r] : obj'[r][k].slot = "auth" => obj'[r][k] = given'[r][k]
        /\ \A S \in SUBSET DOMAIN review'[r].object :
                todo'[r] \subseteq S /\ ClosedUnder(S, obj'[r]) => Left(obj'[r]) \subseteq S
<1> USE DEF IInv
<1>1. CASE UNCHANGED <<review, obj, todo, given>> /\ \A r \in Reviews :
                pc'[r] = "mutate" => pc[r] = "mutate"
  BY <1>1 DEF WalkInv, Touched, ClosedUnder, Left
<1>2. ASSUME NEW r \in Reviews, HasClient(r) PROVE WalkInv'
  <2>1. /\ UNCHANGED <<review, obj, given>> /\ obj[r] = given[r] /\ todo'[r] = Roots(r)
        /\ \A s \in Reviews \ {r} : pc'[s] = pc[s] /\ todo'[s] = todo[s]
    BY <1>2 DEF HasClient, Fixed, history, ControlInv, Controlled, Goto, TypeOK
  <2>2. Touched(given[r], obj[r])
    BY <2>1 DEF Touched
  <2>3. \A S \in SUBSET DOMAIN review[r].object :
            Roots(r) \subseteq S /\ ClosedUnder(S, obj[r]) => Left(obj[r]) \subseteq S
    BY <1>2, WalkBegins DEF Left
  <2>4. Walks(r)
    BY <2>1, <2>2, <2>3
  <2>5. \A s \in Reviews \ {r} : pc'[s] = "mutate" => Walks(s)
    BY <2>1 DEF WalkInv
  <2> QED BY <2>4, <2>5 DEF WalkInv
<1>3. ASSUME NEW r \in Reviews, Visit(r) PROVE WalkInv'
  <2>1. PICK k \in Ready(r) :
            /\ ~Unusable(obj[r][k])
            /\ obj' = [obj EXCEPT ![r] = Visited(@, k)]
            /\ todo' = [todo EXCEPT ![r] = (@ \ {k}) \cup Children(obj[r][k])]
    BY <1>3 DEF Visit
  <2>2. UNCHANGED <<review, given, pc>> /\ pc[r] = "mutate" /\ k \in todo[r]
    BY <1>3 DEF Visit, Fixed, Ready
  <2>3. /\ obj'[r] = Visited(obj[r], k)
        /\ todo'[r] = (todo[r] \ {k}) \cup Children(obj[r][k])
        /\ \A s \in Reviews \ {r} : obj'[s] = obj[s] /\ todo'[s] = todo[s]
    BY <2>1 DEF TypeOK
  <2>4. Touched(given[r], obj'[r])
    BY <2>1, <2>2, <2>3, VisitTouches
  <2>5. ASSUME NEW j \in todo'[r], obj'[r][j].slot = "auth"
        PROVE  obj'[r][j] = given[r][j]
    <3>1. /\ Touched(given[r], obj[r])
          /\ j \in todo[r] \ {k} \/ j \in Children(obj[r][k])
          /\ k \in DOMAIN obj[r] /\ todo[r] \subseteq DOMAIN obj[r]
      BY <2>2, <2>3 DEF WalkInv, TypeOK
    <3>2. CASE Children(obj[r][k]) # {}
      <4>1. \A i \in DOMAIN obj[r] : obj[r][i].slot # "auth"
        BY <3>1, <3>2, TreeFacts
      <4>2. j \in DOMAIN Visited(obj[r], k)
        BY <2>3, ObjectTypes
      <4>3. j \in DOMAIN obj[r] /\ Visited(obj[r], k)[j].slot = obj[r][j].slot
        BY <3>1, <4>2, VisitFacts
      <4> QED BY <2>3, <2>5, <4>1, <4>3
    <3>3. CASE Children(obj[r][k]) = {}
      <4>1. j \in todo[r] \ {k} /\ Visited(obj[r], k)[j] = obj[r][j]
        BY <3>1, <3>3, VisitFacts
      <4> QED BY <2>2, <2>3, <2>5, <4>1 DEF WalkInv
    <3> QED BY <3>2, <3>3
  <2>6. \A S \in SUBSET DOMAIN review[r].object :
            todo'[r] \subseteq S /\ ClosedUnder(S, obj'[r]) => Left(obj'[r]) \subseteq S
    BY <2>1, <2>2, <2>3, WalkGoesOn
  <2>7. Walks(r)
    BY <2>2, <2>4, <2>5, <2>6
  <2>8. \A s \in Reviews \ {r} : pc'[s] = "mutate" => Walks(s)
    BY <2>2, <2>3 DEF WalkInv
  <2> QED BY <2>7, <2>8 DEF WalkInv
<1>4. ASSUME NEW r \in Reviews, Store(r) \/ Reinvoke(r) PROVE WalkInv'
  <2>1. /\ pc'[r] # "mutate" /\ review' = review
        /\ \A s \in Reviews \ {r} : 
            pc'[s] = pc[s] /\ obj'[s] = obj[s] /\ todo'[s] = todo[s] /\ given'[s] = given[s]
    BY <1>4 DEF Store, Reinvoke, NoData, Goto, TypeOK
  <2>2. \A s \in Reviews \ {r} : pc'[s] = "mutate" => Walks(s)
    BY <2>1 DEF WalkInv
  <2> QED BY <2>1, <2>2 DEF WalkInv
<1>5. ASSUME NEW r \in Reviews, Dispatch(r) PROVE WalkInv'
  <2>1. first[review[r].kind] # "mutate"
    BY ReviewFacts DEF first
  <2> QED BY <1>1, <1>5, <2>1 DEF Dispatch, NoData, Fixed, Goto, TypeOK
<1>6. ASSUME NEW r \in Reviews,
             \/ Skip(r) \/ RejectSettings(r) \/ MutatePod(r) \/ PodRefused(r)
             \/ NothingToDo(r) \/ NeedsMutation(r) \/ CheckFails(r) \/ StartClient(r)
             \/ NoClient(r) \/ VisitFails(r) \/ Mutated(r)
      PROVE  WalkInv'
  BY <1>1, <1>6
     DEF Skip, RejectSettings, MutatePod, PodRefused, NothingToDo, NeedsMutation,
         CheckFails, StartClient, NoClient, VisitFails, Mutated, Refuse, NoData,
         Fixed, Goto, TypeOK
<1>7. ASSUME Crash PROVE WalkInv'
  BY <1>1, <1>7 DEF Crash, Fixed
<1>8. CASE UNCHANGED vars
  BY <1>1, <1>8 DEF vars
<1> QED
  BY <1>2, <1>3, <1>4, <1>5, <1>6, <1>7, <1>8 DEF Next, VaultSecretsMutator

-----------------------------------------------------------------------------
(* Where a review is *)

(* What is recognised or flawed in memory was so when it was given.        *)
LEMMA UnusableIsGiven ==
    ASSUME IInv, NEW r \in Reviews, NEW k \in DOMAIN obj[r], Unusable(obj[r][k]),
           Touched(given[r], obj[r]), pc[r] \in {"check", "mutate"}
    PROVE  Defective(r)
<1> USE DEF IInv
<1>1. k \in DOMAIN given[r] /\ Entry(given[r][k])
  BY GivenFacts DEF TypeOK
<1>2. Unusable(given[r][k])
  BY <1>1, ResolveFacts DEF Touched
<1>3. ~review[r].skip /\ review[r].kind # "pod"
  BY DEF ControlInv, Controlled, Looked
<1> QED BY <1>1, <1>2, <1>3, GivenFacts DEF Defective

LEMMA TouchedNothing == ASSUME NEW o PROVE Touched(o, o)
BY DEF Touched

LEMMA ControlStep == IInv /\ [Next]_vars => ControlInv'
<1> SUFFICES ASSUME IInv, [Next]_vars PROVE ControlInv'
  OBVIOUS
<1> USE DEF IInv
<1> DEFINE Kept(s) ==
        /\ pc'[s] = pc[s] /\ obj'[s] = obj[s] /\ given'[s] = given[s]
        /\ round'[s] = round[s]
           Grown ==
        review' = review /\ refused \subseteq refused' /\ unlucky \subseteq unlucky'
<1>0. \A r \in Reviews : Controlled(r)
  BY DEF ControlInv
<1>1. ASSUME Grown, NEW s \in Reviews, Kept(s) PROVE Controlled(s)'
  BY <1>0, <1>1 DEF Controlled, BadSettings, Looked, Defective
<1>2. ASSUME Grown, NEW r \in Reviews, Controlled(r)',
             \A s \in Reviews \ {r} : Kept(s)
      PROVE  ControlInv'
  BY <1>1, <1>2 DEF ControlInv
(* A review goes on, with everything but its place as it was.              *)
<1>3. ASSUME NEW r \in Reviews, NEW next, Goto(r, next), Fixed, obj' = obj,
             refused \subseteq refused', unlucky \subseteq unlucky',
             pc'[r] = next => Controlled(r)'
      PROVE  ControlInv'
  <2>1. pc'[r] = next /\ \A s \in Reviews \ {r} : pc'[s] = pc[s]
    BY <1>3 DEF Goto, TypeOK
  <2>2. Grown /\ \A s \in Reviews \ {r} : Kept(s)
    BY <1>3, <2>1 DEF Fixed
  <2> QED BY <1>2, <1>3, <2>1, <2>2
<1>4. ASSUME NEW r \in Reviews, Refuse(r), Fixed, unlucky \subseteq unlucky',
             r \in unlucky' \/ Defective(r), pc[r] # "stored"
      PROVE  ControlInv'
  <2>1. Goto(r, "error") /\ obj' = obj /\ refused' = refused \cup {r}
    BY <1>4 DEF Refuse
  <2>2. pc'[r] = "error" => Controlled(r)'
    BY <1>0, <1>4, <2>1 DEF Controlled, Fixed, Looked, Defective, BadSettings
  <2> QED BY <1>3, <1>4, <2>1, <2>2
<1>5. ASSUME NEW r \in Reviews,
             Skip(r) \/ Dispatch(r) \/ NothingToDo(r) \/ NeedsMutation(r)
      PROVE  ControlInv'
  <2>1. PICK next : Goto(r, next)
    BY <1>5 DEF Skip, Dispatch, NothingToDo, NeedsMutation
  <2>2. Fixed /\ NoData /\ pc'[r] = next
    BY <1>5, <2>1 DEF Skip, Dispatch, NothingToDo, NeedsMutation, Goto, TypeOK
  <2>3. CASE Skip(r)
    <3>1. Controlled(r)'
      BY <1>0, <2>2, <2>3
         DEF Skip, Goto, TypeOK, Controlled, Fixed, NoData, history
    <3> QED BY <1>3, <2>1, <2>2, <3>1 DEF NoData, history
  <2>4. CASE Dispatch(r)
    <3>1. /\ pc[r] = "received" /\ ~review[r].skip /\ ~BadSettings(r)
          /\ pc'[r] = first[review[r].kind]
      BY <2>4 DEF Dispatch, Goto, TypeOK
    <3>2. /\ pc'[r] = "pod" => review[r].kind = "pod"
          /\ pc'[r] = "check" => review[r].kind \in {"secret", "configmap"}
          /\ pc'[r] = "client" => review[r].kind = "object"
          /\ pc'[r] = "unchanged" => review[r].kind = "other"
          /\ pc'[r] \in {"pod", "check", "client", "unchanged"}
      BY <3>1, ReviewFacts DEF first
    <3>3. Controlled(r)'
      BY <1>0, <2>2, <3>1, <3>2
         DEF Controlled, Fixed, NoData, history, Looked, BadSettings
    <3> QED BY <1>3, <2>1, <2>2, <3>3 DEF NoData, history
  <2>5. CASE NothingToDo(r)
    <3>1. Controlled(r)'
      BY <1>0, <2>2, <2>5
         DEF NothingToDo, Goto, TypeOK, Controlled, Fixed, NoData, history, Looked
    <3> QED BY <1>3, <2>1, <2>2, <3>1 DEF NoData, history
  <2>6. CASE NeedsMutation(r)
    <3>1. Controlled(r)'
      BY <1>0, <2>2, <2>6
         DEF NeedsMutation, Goto, TypeOK, Controlled, Fixed, NoData, history, Looked,
             BadSettings
    <3> QED BY <1>3, <2>1, <2>2, <3>1 DEF NoData, history
  <2> QED BY <1>5, <2>3, <2>4, <2>5, <2>6
<1>6. ASSUME NEW r \in Reviews, MutatePod(r) PROVE ControlInv'
  <2>1. Goto(r, "patched") /\ Fixed /\ UNCHANGED <<obj, unlucky, refused>> /\ pc[r] = "pod"
    BY <1>6 DEF MutatePod
  <2>2. pc'[r] = "patched" => Controlled(r)'
    BY <1>0, <2>1 DEF Controlled, Fixed, Looked, BadSettings
  <2> QED BY <1>3, <2>1, <2>2
<1>7. ASSUME NEW r \in Reviews, RejectSettings(r) PROVE ControlInv'
  BY <1>4, <1>7 DEF RejectSettings, Defective
<1>8. ASSUME NEW r \in Reviews, PodRefused(r) \/ NoClient(r) PROVE ControlInv'
  BY <1>4, <1>8 DEF PodRefused, NoClient
<1>9. ASSUME NEW r \in Reviews, CheckFails(r) PROVE ControlInv'
  <2>1. PICK k \in DOMAIN obj[r] : Unusable(obj[r][k])
    BY <1>9 DEF CheckFails, Broken, Unusable
  <2>2. obj[r] = given[r] /\ pc[r] = "check"
    BY <1>0, <1>9 DEF CheckFails, Controlled
  <2>3. Defective(r)
    BY <2>1, <2>2, TouchedNothing, UnusableIsGiven
  <2> QED BY <1>4, <1>9, <2>3 DEF CheckFails
<1>10. ASSUME NEW r \in Reviews, StartClient(r) PROVE ControlInv'
  BY <1>1, <1>10 DEF StartClient, NoData, Fixed, history, ControlInv
<1>11. ASSUME NEW r \in Reviews, HasClient(r) PROVE ControlInv'
  <2>1. /\ Goto(r, "mutate") /\ Fixed /\ UNCHANGED <<obj, unlucky, refused>>
        /\ pc[r] = "client"
    BY <1>11 DEF HasClient, history
  <2>2. pc'[r] = "mutate" => Controlled(r)'
    BY <1>0, <2>1 DEF Controlled, Fixed, Looked, BadSettings
  <2> QED BY <1>3, <2>1, <2>2
<1>12. ASSUME NEW r \in Reviews, Visit(r) PROVE ControlInv'
  <2>1. PICK o : obj' = [obj EXCEPT ![r] = o]
    BY <1>12 DEF Visit
  <2>2. /\ UNCHANGED <<review, given, round, pc, unlucky, refused>> /\ pc[r] = "mutate"
        /\ \A s \in Reviews \ {r} : obj'[s] = obj[s]
    BY <1>12, <2>1 DEF Visit, Fixed, TypeOK
  <2>3. Controlled(r)'
    BY <1>0, <2>2 DEF Controlled, Looked, BadSettings
  <2> QED BY <1>2, <2>2, <2>3
<1>13. ASSUME NEW r \in Reviews, VisitFails(r) PROVE ControlInv'
  <2>1. PICK k \in Ready(r) :
            /\ Unusable(obj[r][k]) \/ Recognised(obj[r][k])
            /\ unlucky' = IF Unusable(obj[r][k]) THEN unlucky ELSE unlucky \cup {r}
    BY <1>13 DEF VisitFails
  <2>2. pc[r] = "mutate" /\ k \in DOMAIN obj[r] /\ Touched(given[r], obj[r])
    BY <1>13 DEF VisitFails, Ready, TypeOK, WalkInv
  <2>3. Unusable(obj[r][k]) => Defective(r)
    BY <2>2, UnusableIsGiven
  <2> QED BY <1>4, <1>13, <2>1, <2>2, <2>3 DEF VisitFails
<1>14. ASSUME NEW r \in Reviews, Mutated(r) PROVE ControlInv'
  <2>1. /\ Goto(r, "patched") /\ Fixed /\ UNCHANGED <<obj, unlucky, refused>>
        /\ pc[r] = "mutate"
    BY <1>14 DEF Mutated, NoData, history
  <2>2. Complete(given[r], obj[r]) /\ Clean(given[r])
    BY <1>14, WalkEnds
  <2>3. pc'[r] = "patched" => Controlled(r)'
    BY <1>0, <2>1, <2>2 DEF Controlled, Fixed, Looked, BadSettings
  <2> QED BY <1>3, <2>1, <2>3
<1>15. ASSUME NEW r \in Reviews, Store(r) PROVE ControlInv'
  <2>1. /\ UNCHANGED <<review, obj, round, unlucky, refused>>
        /\ pc'[r] = IF pc[r] = "error" /\ review[r].kind \notin Ignoring
                    THEN "rejected" ELSE "stored"
        /\ given'[r] = IF pc[r] = "patched" THEN obj[r] ELSE given[r]
        /\ \A s \in Reviews \ {r} : pc'[s] = pc[s] /\ given'[s] = given[s]
        /\ pc[r] \in {"patched", "unchanged", "error"}
    BY <1>15 DEF Store, NoData, history, Goto, TypeOK, Answered
  <2>2. \/ References(given'[r]) = {}
        \/ review[r].skip \/ ~Looked(r)
        \/ r \in refused /\ review[r].kind \in Ignoring
        \/ pc'[r] = "rejected" /\ round[r] # 2
    <3>1. CASE pc[r] = "patched"
      BY <2>1, <3>1, StoredIs DEF Looked
    <3>2. CASE pc[r] = "unchanged"
      BY <1>0, <2>1, <3>2 DEF Controlled, Looked
    <3>3. CASE pc[r] = "error"
      BY <1>0, <2>1, <3>3 DEF Controlled
    <3> QED BY <2>1, <3>1, <3>2, <3>3
  <2>3. Controlled(r)'
    BY <2>1, <2>2 DEF Controlled, Looked
  <2> QED BY <1>2, <2>1, <2>3
<1>16. ASSUME NEW r \in Reviews, Reinvoke(r) PROVE ControlInv'
  <2>1. /\ UNCHANGED <<review, given, unlucky, refused>> /\ pc[r] = "stored"
        /\ pc'[r] = "received" /\ obj'[r] = given[r]
        /\ \A s \in Reviews \ {r} : Kept(s)
    BY <1>16 DEF Reinvoke, Goto, TypeOK, history
  <2>2. Controlled(r)'
    BY <1>0, <2>1 DEF Controlled, Looked
  <2> QED BY <1>2, <2>1, <2>2
<1>17. ASSUME Crash PROVE ControlInv'
  <2>1. Fixed /\ obj' = obj /\ Grown
    BY <1>17 DEF Crash, Fixed
  <2>2. ASSUME NEW r \in Reviews PROVE Controlled(r)'
    <3>1. CASE pc'[r] = pc[r]
      BY <1>1, <2>1, <3>1 DEF Fixed
    <3>2. CASE pc'[r] # pc[r]
      <4>1. pc'[r] = "error" /\ r \in refused' /\ r \in unlucky' /\ pc[r] # "stored"
        BY <1>17, <3>2 DEF Crash, TypeOK
      <4> QED BY <1>0, <2>1, <4>1 DEF Controlled, Fixed, Looked
    <3> QED BY <3>1, <3>2
  <2> QED BY <2>2 DEF ControlInv
<1>18. CASE UNCHANGED vars
  BY <1>1, <1>18 DEF vars, history, ControlInv
<1> QED
  BY <1>5, <1>6, <1>7, <1>8, <1>9, <1>10, <1>11, <1>12, <1>13, <1>14, <1>15, <1>16,
     <1>17, <1>18
     DEF Next, VaultSecretsMutator

(* A client that is not closed belongs to an object with references: while *)
(* it lives, what was given stays.                                         *)
LEMMA VaultStep == IInv /\ [Next]_vars => VaultOnlyWhenNeeded'
<1> SUFFICES ASSUME IInv, [Next]_vars PROVE VaultOnlyWhenNeeded'
  OBVIOUS
<1> DEFINE Needed(r) ==
        client[r] \notin {"none", "closed"} /\ review[r].kind # "object" =>
            References(given[r]) # {}
<1> USE DEF IInv
<1>0. ASSUME NEW s \in Reviews, review' = review, client'[s] = client[s],
             given'[s] = given[s]
      PROVE  Needed(s)'
  BY <1>0 DEF VaultOnlyWhenNeeded
<1>1. ASSUME UNCHANGED <<review, client, given>> PROVE VaultOnlyWhenNeeded'
  BY <1>0, <1>1 DEF VaultOnlyWhenNeeded
<1>2. ASSUME NEW r \in Reviews, NEW to, Become(r, to), Fixed,
             pc[r] = "client" \/ to = "closed"
      PROVE  VaultOnlyWhenNeeded'
  <2>1. /\ review' = review /\ given' = given /\ client'[r] = to
        /\ \A s \in Reviews \ {r} : client'[s] = client[s]
    BY <1>2 DEF Fixed, Become, TypeOK, ClientTypeOK
  <2>2. pc[r] = "client" /\ review[r].kind # "object" => References(given[r]) # {}
    BY DEF ControlInv, Controlled
  <2>3. Needed(r)'
    BY <1>2, <2>1, <2>2
  <2>4. \A s \in Reviews \ {r} : Needed(s)'
    BY <1>0, <2>1
  <2> QED BY <2>3, <2>4 DEF VaultOnlyWhenNeeded
<1>3. ASSUME NEW r \in Reviews,
             \/ Skip(r) \/ RejectSettings(r) \/ Dispatch(r) \/ MutatePod(r)
             \/ PodRefused(r) \/ NothingToDo(r) \/ NeedsMutation(r) \/ CheckFails(r)
             \/ Visit(r)
      PROVE  VaultOnlyWhenNeeded'
  BY <1>1, <1>3
     DEF Skip, RejectSettings, Dispatch, MutatePod, PodRefused, NothingToDo,
         NeedsMutation, CheckFails, Visit, Fixed, clientVars
<1>4. ASSUME NEW r \in Reviews, StartClient(r) PROVE VaultOnlyWhenNeeded'
  <2>1. PICK to : Become(r, to)
    BY <1>4, ClientStepFacts DEF StartClient, Attempt
  <2> QED BY <1>2, <1>4, <2>1 DEF StartClient
<1>5. ASSUME NEW r \in Reviews,
             NoClient(r) \/ HasClient(r) \/ VisitFails(r) \/ Mutated(r)
      PROVE  VaultOnlyWhenNeeded'
  BY <1>2, <1>5
     DEF NoClient, HasClient, VisitFails, Mutated, ClientFails, Connect, Close, Pass
<1>6. ASSUME NEW r \in Reviews, Store(r) PROVE VaultOnlyWhenNeeded'
  <2>1. /\ UNCHANGED <<review, client>>
        /\ \A s \in Reviews \ {r} : given'[s] = given[s]
        /\ pc[r] = "patched" \/ given'[r] = given[r]
    BY <1>6 DEF Store, clientVars, TypeOK
  <2>2. pc[r] = "patched" => client[r] \in {"none", "closed"}
    BY StepsFacts DEF ClientInv, TypeOK, ClientTypeOK
  <2>3. Needed(r)'
    BY <1>0, <2>1, <2>2
  <2>4. \A s \in Reviews \ {r} : Needed(s)'
    BY <1>0, <2>1
  <2> QED BY <2>3, <2>4 DEF VaultOnlyWhenNeeded
<1>7. ASSUME NEW r \in Reviews, Reinvoke(r) PROVE VaultOnlyWhenNeeded'
  <2>1. /\ UNCHANGED <<review, given>> /\ client'[r] = "none"
        /\ \A s \in Reviews \ {r} : client'[s] = client[s]
    BY <1>7 DEF Reinvoke, TypeOK, ClientTypeOK
  <2>2. \A s \in Reviews \ {r} : Needed(s)'
    BY <1>0, <2>1
  <2> QED BY <2>1, <2>2 DEF VaultOnlyWhenNeeded
<1>8. ASSUME Crash PROVE VaultOnlyWhenNeeded'
  <2>1. UNCHANGED <<review, given>> /\ \A s \in Reviews :
            client'[s] = "closed" \/ client'[s] = client[s]
    BY <1>8 DEF Crash, ClientCrash, Fixed
  <2>2. ASSUME NEW s \in Reviews PROVE Needed(s)'
    BY <1>0, <2>1
  <2> QED BY <2>2 DEF VaultOnlyWhenNeeded
<1>9. CASE UNCHANGED vars
  BY <1>1, <1>9 DEF vars, clientVars
<1> QED
  BY <1>3, <1>4, <1>5, <1>6, <1>7, <1>8, <1>9 DEF Next, VaultSecretsMutator

-----------------------------------------------------------------------------
(* The theorems *)

LEMMA InitInv == Init => IInv
<1> SUFFICES ASSUME Init PROVE IInv
  OBVIOUS
<1> USE DEF Init, ClientInit
<1>1. \A r \in Reviews : review[r] \in Samples
  OBVIOUS
<1>2. TypeOK
  <2>1. "none" \in Steps \cup {"none", "open", "closed", "failed"} /\ 0 \in 0..MaxCrashes
    BY CrashesAssumption
  <2>2. \A r \in Reviews : \A k \in DOMAIN obj[r] : Entry(obj[r][k])
    BY <1>1, SamplesAssumption
  <2> QED BY <2>1, <2>2 DEF TypeOK, ClientTypeOK
<1>3. GivenInv
  BY <1>1, SamplesAssumption DEF GivenInv
<1>4. WalkInv /\ ControlInv
  BY DEF WalkInv, ControlInv, Controlled
<1>5. ClientInv /\ VaultOnlyWhenNeeded
  BY StepsFacts DEF ClientInv, VaultOnlyWhenNeeded
<1>6. AttemptsAddUp
  <2>1. Connecting = {}
    BY StepsFacts DEF Connecting
  <2> QED BY <2>1, FS_EmptySet DEF AttemptsAddUp, Reasons
<1> QED BY <1>2, <1>3, <1>4, <1>5, <1>6 DEF IInv

LEMMA Invariance == Spec => []IInv
<1>1. IInv /\ [Next]_vars => IInv'
  BY TypeStep, GivenStep, WalkStep, ControlStep, ClientStepInv, AttemptsStep, VaultStep
     DEF IInv
<1> QED BY InitInv, <1>1, PTL DEF Spec

(* Whatever the reviews are, the state of the webhook is of its type.      *)
THEOREM TypeCorrect == Spec => []TypeOK
<1>1. IInv => TypeOK
  BY DEF IInv
<1> QED BY Invariance, <1>1, PTL

(* An object of any shape is stored whole or as it came: a walk that stops *)
(* at an error leaves nothing behind, and a walk that ends forgot nothing. *)
THEOREM NothingIsStoredHalfway == Spec => []StoredIsAllOrNothing
<1>1. IInv => StoredIsAllOrNothing
  BY DEF IInv, GivenInv, StoredIsAllOrNothing
<1> QED BY Invariance, <1>1, PTL

(* A reference reaches the cluster only by the failure policy or where the *)
(* webhook was not to look.                                                *)
THEOREM NoReferenceGetsThrough == Spec => []UnresolvedOnlyIfIgnored
<1>1. ASSUME IInv PROVE UnresolvedOnlyIfIgnored
  <2> SUFFICES ASSUME NEW r \in Reviews, pc[r] = "stored", References(given[r]) # {}
               PROVE  \/ review[r].skip \/ review[r].kind \in {"pod", "other"}
                      \/ r \in refused /\ review[r].kind \in Ignoring
    BY DEF UnresolvedOnlyIfIgnored, References
  <2> QED BY <1>1, ReviewFacts DEF IInv, ControlInv, Controlled, Looked
<1> QED BY Invariance, <1>1, PTL

(* Neither the order of the walk nor the other reviews decide what becomes *)
(* of a review.                                                            *)
THEOREM TheOrderIsNoMatter == Spec => []VerdictIsDetermined
<1>1. ASSUME IInv, NEW r \in Reviews, pc[r] = "patched" PROVE ~Defective(r)
  <2>1. ~BadSettings(r) /\ (review[r].kind = "pod" \/ Clean(given[r]))
    BY <1>1 DEF IInv, ControlInv, Controlled
  <2>2. given[r] = review[r].object \/ Clean(review[r].object)
    BY <1>1 DEF IInv, GivenInv
  <2> QED BY <2>1, <2>2 DEF Defective, Clean
<1>2. IInv => VerdictIsDetermined
  BY <1>1 DEF IInv, ControlInv, Controlled, VerdictIsDetermined
<1> QED BY Invariance, <1>2, PTL

(* No Secret or ConfigMap without a reference makes the webhook log in.    *)
THEOREM NoLoginInVain == Spec => []VaultOnlyWhenNeeded
<1>1. IInv => VaultOnlyWhenNeeded
  BY DEF IInv
<1> QED BY Invariance, <1>1, PTL

(* For any number of concurrent reviews the counters account for every     *)
(* attempt.                                                                *)
THEOREM EveryAttemptIsCounted == Spec => []AttemptsAddUp
<1>1. IInv => AttemptsAddUp
  BY DEF IInv
<1> QED BY Invariance, <1>1, PTL

(* An open client belongs to a mutation that runs.                         *)
THEOREM NoClientLeaks == Spec => []ClientsAreClosed
<1>1. IInv => ClientsAreClosed
  BY DEF IInv, ClientInv, ClientsAreClosed
<1> QED BY Invariance, <1>1, PTL

(* A second call finds nothing to do, unless the first was answered with   *)
(* an error.                                                               *)
THEOREM OnceIsEnough == Spec => ReinvocationIsIdempotent
<1>1. ASSUME IInv, [Next]_vars, NEW r \in Reviews, round[r] = 2, r \notin refused
      PROVE  given'[r] = given[r]
  <2>1. ASSUME NEW s \in Reviews, Store(s) PROVE given'[r] = given[r]
    <3>1. CASE r = s /\ pc[r] = "patched"
      <4>1. References(given[r]) = {} \/ review[r].kind = "pod"
        BY <1>1, <3>1, ReviewFacts DEF IInv, ControlInv, Controlled, Looked
      <4>2. obj[r] = given[r]
        BY <1>1, <3>1, <4>1, StoredIs
      <4> QED BY <1>1, <2>1, <3>1, <4>2 DEF Store, IInv, TypeOK
    <3>2. CASE ~(r = s /\ pc[r] = "patched")
      BY <1>1, <2>1, <3>2 DEF Store, IInv, TypeOK
    <3> QED BY <3>1, <3>2
  <2>2. (\A s \in Reviews : ~Store(s)) => given' = given
    BY <1>1
       DEF Next, VaultSecretsMutator, Skip, RejectSettings, Dispatch, MutatePod,
           PodRefused, NothingToDo, NeedsMutation, CheckFails, StartClient, NoClient,
           HasClient, Visit, VisitFails, Mutated, Reinvoke, Fixed, Crash, vars
  <2> QED BY <2>1, <2>2
<1>2. IInv /\ [Next]_vars =>
        [\A r \in Reviews : round[r] = 2 /\ r \notin refused => UNCHANGED given[r]]_vars
  BY <1>1
<1> QED BY Invariance, <1>2, PTL DEF Spec, ReinvocationIsIdempotent
===============================================================================
