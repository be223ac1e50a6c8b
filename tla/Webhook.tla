------------------------------- MODULE Webhook --------------------------------
(***************************************************************************)
(* VaultSecretsMutator of pkg/webhook/webhook.go and the mutation of       *)
(* Secrets, ConfigMaps and custom objects (secret.go, configmap.go,        *)
(* object.go) on top of VaultClient: concurrent reviews, Vault failing at  *)
(* any read, a replica that stops, what the API server stores in the end.  *)
(* What becomes of a Pod is PodMutation; here it is patched or refused.    *)
(*                                                                         *)
(* An object is a function from keys to entries.  An entry is a value or,  *)
(* in a custom object, a map or a slice with its children.  What matters   *)
(* of a value is whether it refers to Vault; what a reference stands for   *)
(* holds no reference itself.                                              *)
(***************************************************************************)
EXTENDS VaultClient

CONSTANTS
    Samples,        \* the reviews the API server may send
    Ignoring,       \* the kinds whose failurePolicy is Ignore
    MaxCrashes      \* bound: crashes of the replica

(* slot is "auth" for one registry of .dockerconfigjson, "data", "binary", *)
(* "map", "slice" or "other".  form is "whole" for a value that starts     *)
(* with vault: or >>vault:, "inline" for ${vault:...} inside a text.       *)
(* writes: >>vault: generates the secret.  flaw is "encoding" where base64 *)
(* or JSON does not decode, "parts" where a docker auth has not four parts.*)
EntryType ==
    [slot : {"auth", "data", "binary", "map", "slice", "other"},
     form : {"none", "whole", "inline"}, flaw : {"none", "encoding", "parts"},
     writes : BOOLEAN, resolved : BOOLEAN, children : SUBSET STRING]

Entry(e) ==
    /\ e \in EntryType
    /\ e.slot = "auth" /\ e.flaw = "encoding" => e.form = "none"

(* A custom object is a tree of maps, slices and values, the others are    *)
(* flat.                                                                   *)
Tree(o) ==
    /\ "root" \in DOMAIN o
    /\ \A k \in DOMAIN o : o[k].slot \notin {"auth", "binary"}
    /\ \A S \in SUBSET DOMAIN o :
        /\ "root" \in S
        /\ \A k \in S : o[k].slot \in {"map", "slice"} => o[k].children \subseteq S
        => S = DOMAIN o

Flat(o) == \A k \in DOMAIN o : o[k].slot \notin {"map", "slice"}

Function(o) == o = [k \in DOMAIN o |-> o[k]]

ASSUME SamplesAssumption ==
    \A s \in Samples :
        /\ s.kind \in {"pod", "secret", "configmap", "object", "other"}
        /\ {s.skip, s.badAddress, s.badRole, s.dryRun, s.tlsSecret} \subseteq BOOLEAN
        /\ s.account \in {"none", "bare", "secret"}
        /\ Function(s.object)
        /\ \A k \in DOMAIN s.object :
            Entry(s.object[k]) /\ s.object[k].children \subseteq DOMAIN s.object
        /\ IF s.kind = "object" THEN Tree(s.object) ELSE Flat(s.object)
ASSUME ReviewsAssumption == IsFiniteSet(Reviews)
ASSUME CrashesAssumption == MaxCrashes \in Nat

VARIABLES
    pc,             \* where each review is
    obj,            \* the object in the webhook's memory
    todo,           \* keys a running mutation has yet to come to
    given,          \* cluster: the object, submitted or stored
    round,          \* 2 when the API server calls the webhook again
    wrote,          \* cluster: reviews that wrote to Vault or a ConfigMap
    unlucky,        \* history: reviews a failure outside the webhook hit
    refused,        \* history: reviews answered with an error
    crashes

history == <<wrote, unlucky, refused, crashes>>
vars == <<review, clientVars, pc, obj, todo, given, round, history>>

TypeOK ==
    /\ ClientTypeOK
    /\ review \in [Reviews -> Samples]
    /\ pc \in [Reviews -> {"received", "pod", "check", "client", "mutate",
                           "patched", "unchanged", "error", "stored", "rejected"}]
    /\ Reviews = DOMAIN obj /\ Reviews = DOMAIN todo /\ Reviews = DOMAIN given
    /\ \A r \in Reviews :
        /\ \A k \in DOMAIN obj[r] : Entry(obj[r][k])
        /\ todo[r] \subseteq DOMAIN obj[r]
        /\ DOMAIN obj[r] \subseteq DOMAIN given[r]
        /\ DOMAIN given[r] \subseteq DOMAIN review[r].object
    /\ round \in [Reviews -> 1..2]
    /\ wrote \subseteq Reviews /\ unlucky \subseteq Reviews /\ refused \subseteq Reviews
    /\ crashes \in 0..MaxCrashes

Init ==
    /\ review \in [Reviews -> Samples]
    /\ ClientInit
    /\ pc = [r \in Reviews |-> "received"]
    /\ given = [r \in Reviews |-> review[r].object]
    /\ obj = given
    /\ todo = [r \in Reviews |-> {}]
    /\ round = [r \in Reviews |-> 1]
    /\ wrote = {} /\ unlucky = {} /\ refused = {} /\ crashes = 0

Goto(r, next) == pc' = [pc EXCEPT ![r] = next]

Refuse(r) ==
    /\ Goto(r, "error")
    /\ refused' = refused \cup {r}
    /\ UNCHANGED <<obj, todo, wrote, crashes>>

NoData == UNCHANGED <<obj, todo, history>>
Fixed  == UNCHANGED <<review, given, round>>

-----------------------------------------------------------------------------
(* References and flaws *)

Recognised(e) ==
    \/ e.slot = "data" /\ e.form # "none"
    \/ e.slot \in {"auth", "binary"} /\ e.form = "whole"

(* A docker auth that does not decode is an error whatever it holds.       *)
Unusable(e) ==
    \/ e.slot = "auth" /\ e.flaw = "encoding"
    \/ Recognised(e) /\ e.flaw # "none"

(* Mutant of References: text with inline references is not looked for.    *)
ReferencesByPrefix(o) == {k \in DOMAIN o : o[k].form = "whole"}

References(o) == {k \in DOMAIN o : Recognised(o[k])}

Resolve(e) == [e EXCEPT !.form = "none", !.writes = FALSE, !.resolved = TRUE]

-----------------------------------------------------------------------------
(* VaultSecretsMutator *)

Skip(r) ==
    /\ pc[r] = "received" /\ review[r].skip
    /\ Goto(r, "unchanged")
    /\ NoData /\ Fixed /\ UNCHANGED clientVars

(* parseVaultConfig rejects the address, or the role is no good template.  *)
BadSettings(r) == review[r].badAddress \/ review[r].badRole

RejectSettings(r) ==
    /\ pc[r] = "received" /\ ~review[r].skip /\ BadSettings(r)
    /\ Refuse(r)
    /\ Fixed /\ UNCHANGED <<clientVars, unlucky>>

(* Mutant of first: a Secret goes straight to Vault.                       *)
firstIsClient ==
    [pod |-> "pod", secret |-> "client", configmap |-> "check",
     object |-> "client", other |-> "unchanged"]

first ==
    [pod |-> "pod", secret |-> "check", configmap |-> "check",
     object |-> "client", other |-> "unchanged"]

Dispatch(r) ==
    /\ pc[r] = "received" /\ ~review[r].skip /\ ~BadSettings(r)
    /\ Goto(r, first[review[r].kind])
    /\ NoData /\ Fixed /\ UNCHANGED clientVars

(* The only mutator that is told about a dry run.                          *)
MutatePod(r) ==
    /\ pc[r] = "pod"
    /\ wrote' \in {wrote, IF review[r].dryRun THEN wrote ELSE wrote \cup {r}}
    /\ Goto(r, "patched")
    /\ Fixed /\ UNCHANGED <<clientVars, obj, todo, unlucky, refused, crashes>>

PodRefused(r) ==
    /\ pc[r] = "pod"
    /\ Refuse(r)
    /\ unlucky' = unlucky \cup {r}
    /\ Fixed /\ UNCHANGED clientVars

-----------------------------------------------------------------------------
(* secretNeedsMutation, configMapNeedsMutation: in map order, until the    *)
(* first reference or the first error                                      *)

Broken(o) == {k \in DOMAIN o : o[k].slot = "auth" /\ o[k].flaw = "encoding"}

(* Mutant of NothingToDo: the early exit is gone.                          *)
NeverNothingToDo(r) ==
    /\ pc[r] = "check" /\ References(obj[r]) = {} /\ Broken(obj[r]) = {}
    /\ Goto(r, "client")
    /\ NoData /\ Fixed /\ UNCHANGED clientVars

NothingToDo(r) ==
    /\ pc[r] = "check" /\ References(obj[r]) = {} /\ Broken(obj[r]) = {}
    /\ Goto(r, "unchanged")
    /\ NoData /\ Fixed /\ UNCHANGED clientVars

NeedsMutation(r) ==
    /\ pc[r] = "check" /\ References(obj[r]) # {}
    /\ Goto(r, "client")
    /\ NoData /\ Fixed /\ UNCHANGED clientVars

CheckFails(r) ==
    /\ pc[r] = "check" /\ Broken(obj[r]) # {}
    /\ Refuse(r)
    /\ Fixed /\ UNCHANGED <<clientVars, unlucky>>

-----------------------------------------------------------------------------
(* newVaultClient *)

StartClient(r) ==
    /\ pc[r] = "client"
    /\ Attempt(r) \/ ClientStep(r)
    /\ UNCHANGED pc /\ NoData /\ Fixed

NoClient(r) ==
    /\ pc[r] = "client"
    /\ ClientFails(r)
    /\ Refuse(r)
    /\ unlucky' = unlucky \cup {r}
    /\ Fixed

Roots(r) == IF review[r].kind = "object" THEN {"root"} ELSE DOMAIN obj[r]

HasClient(r) ==
    /\ pc[r] = "client"
    /\ Connect(r)
    /\ Goto(r, "mutate")
    /\ todo' = [todo EXCEPT ![r] = Roots(r)]
    /\ Fixed /\ UNCHANGED <<obj, history>>

-----------------------------------------------------------------------------
(* mutateDockerCreds, mutateSecretData, MutateConfigMap, traverseObject    *)

(* Docker credentials come first, binary data last, the rest in any order: *)
(* Go's for maps, more than the code's for slices.                         *)
rank == [auth |-> 0, data |-> 1, map |-> 1, slice |-> 1, other |-> 1, binary |-> 2]

Ready(r) ==
    {k \in todo[r] : \A j \in todo[r] : rank[obj[r][k].slot] <= rank[obj[r][j].slot]}

(* Mutant of Children: the elements of a slice are not visited.            *)
MapChildren(e) == IF e.slot = "map" THEN e.children ELSE {}

Children(e) == IF e.slot \in {"map", "slice"} THEN e.children ELSE {}

(* The docker configuration is put together anew from the registries that  *)
(* have a reference: the others are dropped.                               *)
Dropped(e) == e.slot = "auth" /\ ~Recognised(e)

(* A Secret's values are buffered until all are read, here they are        *)
(* written at once: nobody sees the object of a mutation that failed.      *)
(* Mutant of Visited: the new docker configuration is written inside the   *)
(* loop over the old one.                                                  *)
VisitedAtOnce(o, k) ==
    IF Recognised(o[k])
    THEN [j \in {j \in DOMAIN o : j = k \/ o[j].slot # "auth"} |->
            IF j = k THEN Resolve(o[j]) ELSE o[j]]
    ELSE o

Visited(o, k) ==
    IF Dropped(o[k]) THEN [j \in DOMAIN o \ {k} |-> o[j]]
    ELSE IF Recognised(o[k]) THEN [o EXCEPT ![k] = Resolve(@)] ELSE o

(* Mutant of Visit: a map or slice is not taken off the list.              *)
VisitAgain(r) ==
    /\ pc[r] = "mutate"
    /\ \E k \in Ready(r) :
        /\ ~Unusable(obj[r][k])
        /\ obj' = [obj EXCEPT ![r] = Visited(@, k)]
        /\ todo' = [todo EXCEPT ![r] =
                        IF Children(obj[r][k]) = {} THEN @ \ {k}
                        ELSE @ \cup Children(obj[r][k])]
    /\ Fixed /\ UNCHANGED <<pc, clientVars, history>>

Visit(r) ==
    /\ pc[r] = "mutate"
    /\ \E k \in Ready(r) :
        LET e == obj[r][k] IN
        /\ ~Unusable(e)
        /\ obj' = [obj EXCEPT ![r] = Visited(@, k)]
        /\ todo' = [todo EXCEPT ![r] = (@ \ {k}) \cup Children(e)]
        /\ wrote' = IF e.writes THEN wrote \cup {r} ELSE wrote
    /\ Fixed /\ UNCHANGED <<pc, clientVars, unlucky, refused, crashes>>

(* Mutant of VisitFails: the error does not reach the caller.              *)
VisitForgives(r) ==
    /\ pc[r] = "mutate"
    /\ \E k \in Ready(r) :
        /\ Unusable(obj[r][k]) \/ Recognised(obj[r][k])
        /\ unlucky' = IF Unusable(obj[r][k]) THEN unlucky ELSE unlucky \cup {r}
    /\ Close(r) /\ Goto(r, "patched")
    /\ Fixed /\ UNCHANGED <<obj, todo, wrote, refused, crashes>>

(* Mutant of VisitFails: the client is closed only where all went well.    *)
VisitFailsOpen(r) ==
    /\ pc[r] = "mutate"
    /\ \E k \in Ready(r) :
        /\ Unusable(obj[r][k]) \/ Recognised(obj[r][k])
        /\ unlucky' = IF Unusable(obj[r][k]) THEN unlucky ELSE unlucky \cup {r}
    /\ Refuse(r)
    /\ Fixed /\ UNCHANGED clientVars

VisitFails(r) ==
    /\ pc[r] = "mutate"
    /\ \E k \in Ready(r) :
        /\ Unusable(obj[r][k]) \/ Recognised(obj[r][k])
        /\ unlucky' = IF Unusable(obj[r][k]) THEN unlucky ELSE unlucky \cup {r}
    /\ Close(r)
    /\ Refuse(r)
    /\ Fixed

Mutated(r) ==
    /\ pc[r] = "mutate" /\ todo[r] = {}
    /\ Close(r) /\ Goto(r, "patched")
    /\ NoData /\ Fixed

-----------------------------------------------------------------------------
(* The API server and the process *)

Answered == {"patched", "unchanged", "error"}

(* An error leaves no patch, and the failure policy decides.               *)
Store(r) ==
    /\ pc[r] \in Answered
    /\ Goto(r, IF pc[r] = "error" /\ review[r].kind \notin Ignoring
               THEN "rejected" ELSE "stored")
    /\ given' = IF pc[r] = "patched" THEN [given EXCEPT ![r] = obj[r]] ELSE given
    /\ NoData /\ UNCHANGED <<review, clientVars, round>>

(* Called again in the same admission, or for an update of the object.     *)
Reinvoke(r) ==
    /\ pc[r] = "stored" /\ round[r] = 1
    /\ round' = [round EXCEPT ![r] = 2]
    /\ obj' = [obj EXCEPT ![r] = given[r]]
    /\ todo' = [todo EXCEPT ![r] = {}]
    /\ client' = [client EXCEPT ![r] = "none"]
    /\ Goto(r, "received")
    /\ UNCHANGED <<review, given, counters, tokens, history>>

(* The reviews in progress get no answer, which counts as an error.        *)
Crash ==
    /\ crashes < MaxCrashes
    /\ crashes' = crashes + 1
    /\ LET lost == {r \in Reviews : pc[r] \notin Answered \cup {"stored", "rejected"}}
       IN  /\ ClientCrash(lost)
           /\ pc' = [r \in Reviews |-> IF r \in lost THEN "error" ELSE pc[r]]
           /\ unlucky' = unlucky \cup lost
           /\ refused' = refused \cup lost
    /\ Fixed /\ UNCHANGED <<obj, todo, wrote>>

-----------------------------------------------------------------------------
VaultSecretsMutator(r) ==
    \/ Skip(r) \/ RejectSettings(r) \/ Dispatch(r) \/ MutatePod(r) \/ PodRefused(r)
    \/ NothingToDo(r) \/ NeedsMutation(r) \/ CheckFails(r)
    \/ StartClient(r) \/ NoClient(r) \/ HasClient(r)
    \/ Visit(r) \/ VisitFails(r) \/ Mutated(r)

Next == Crash \/ \E r \in Reviews : VaultSecretsMutator(r) \/ Store(r) \/ Reinvoke(r)

(* Each review has a goroutine of its own, and its calls return.           *)
Spec ==
    /\ Init /\ [][Next]_vars
    /\ \A r \in Reviews : WF_vars(VaultSecretsMutator(r)) /\ WF_vars(Store(r))

-----------------------------------------------------------------------------
(* Properties *)

(* Every client that was built is closed when its review is answered, on   *)
(* whatever path.                                                          *)
ClientsAreClosed == \A r \in Reviews : client[r] = "open" => pc[r] = "mutate"

(* What is stored is the object as submitted or the object with every      *)
(* reference resolved, nested or not, and nothing else changed but docker  *)
(* registries without a reference: never an object mutated halfway.  The   *)
(* order in which Go walks the maps makes no difference.                   *)
Complete(submitted, o) ==
    /\ \A k \in DOMAIN submitted :
        IF Recognised(submitted[k]) THEN k \in DOMAIN o /\ o[k] = Resolve(submitted[k])
        ELSE IF k \in DOMAIN o THEN o[k] = submitted[k] ELSE submitted[k].slot = "auth"
    /\ DOMAIN o \subseteq DOMAIN submitted

StoredIsAllOrNothing ==
    \A r \in Reviews : pc[r] = "stored" =>
        given[r] = review[r].object \/ Complete(review[r].object, given[r])

(* An object is stored with a reference left only if nobody was to look,   *)
(* or if the webhook answered with an error and the policy is to ignore it.*)
UnresolvedOnlyIfIgnored ==
    \A r \in Reviews :
        pc[r] = "stored" /\ (\E k \in DOMAIN given[r] : Recognised(given[r][k])) =>
            \/ review[r].skip \/ review[r].kind \in {"pod", "other"}
            \/ r \in refused /\ review[r].kind \in Ignoring

(* Whether a review succeeds is decided by the object and its settings and *)
(* by what fails outside, not by the order of a walk: the check before the *)
(* client and the mutation after it agree on what is an error, and an      *)
(* object to be skipped is skipped before anything in it can be one.       *)
Defective(r) ==
    /\ ~review[r].skip
    /\ \/ BadSettings(r)
       \/ /\ review[r].kind # "pod"
          /\ \E k \in DOMAIN review[r].object : Unusable(review[r].object[k])

VerdictIsDetermined ==
    \A r \in Reviews :
        /\ pc[r] = "error" => r \in unlucky \/ Defective(r)
        /\ pc[r] = "patched" => ~Defective(r)

(* The comments in MutateSecret and MutateConfigMap: no Vault client is    *)
(* built when it is not needed, which includes an object that was mutated  *)
(* before.                                                                 *)
VaultOnlyWhenNeeded ==
    \A r \in Reviews :
        client[r] \notin {"none", "closed"} /\ review[r].kind # "object" =>
            References(given[r]) # {}

(* Calling the webhook again for what it returned changes nothing.         *)
ReinvocationIsIdempotent ==
    [][\A r \in Reviews :
        round[r] = 2 /\ r \notin refused => UNCHANGED given[r]]_vars

(* Every review is answered: the walk over the object ends.                *)
EveryReviewIsAnswered ==
    \A r \in Reviews : pc[r] = "received" ~> pc[r] \in {"stored", "rejected"}

(* The chart's apiSideEffectValue is NoneOnDryRun: a dry run leaves no     *)
(* trace outside the webhook.                                              *)
DryRunHasNoSideEffects ==
    \A r \in Reviews : review[r].dryRun => r \notin wrote \cup tokens
=============================================================================
