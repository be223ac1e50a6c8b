---------------------------- MODULE AgentConfigMap ----------------------------
(***************************************************************************)
(* The agent's generated ConfigMap, written by every admission of a pod    *)
(* that uses an agent without a configuration of its own: the Create, then *)
(* Update of MutatePod and the name and owner of getConfigMapForVaultAgent *)
(* (pkg/webhook/pod.go).  Requests run in several goroutines and replicas  *)
(* at once; calls to the API server may fail before or after they took     *)
(* effect; the garbage collector and people remove ConfigMaps.             *)
(*                                                                         *)
(* A name is the sequence of its parts between dashes, and the ConfigMap's *)
(* "-vault-agent-config" suffix is left out.                               *)
(***************************************************************************)
EXTENDS Naturals, Sequences

CONSTANTS
    Requests,       \* admissions, each of one pod
    Parts,          \* what names consist of
    Contents,       \* the agent configurations: role, path, namespace
    pods,           \* the pod of each request
    Unlucky,        \* bound: the requests a fault may hit, once each
    MaxRemovals,    \* bound: maps deleted by hand
    MaxRetries      \* bound: new attempts after a refusal

Name == Seq(Parts)

(* name is empty for most pods of a controller, owner for a pod without    *)
(* one; content is what the annotations make of vaultAgentConfig.  The     *)
(* controllers are the owner and, for a ReplicaSet, its Deployment.        *)
PodInfo == [name : Name, owner : Name, controllers : SUBSET Name,
            content : Contents, dryRun : BOOLEAN]

Map == [content : Contents, owner : Name]
NoMap == [content |-> "none", owner |-> <<>>]

NoRequest == "none"

ASSUME RequestsAssumption == NoRequest \notin Requests
ASSUME PodsAssumption == pods \in [Requests -> PodInfo]
ASSUME ContentsAssumption == "none" \notin Contents
ASSUME BoundsAssumption == MaxRemovals \in Nat /\ MaxRetries \in Nat

-----------------------------------------------------------------------------
(* getConfigMapForVaultAgent *)

(* The owner without its last part, the hash of a ReplicaSet.              *)
ControllerName(owner) ==
    IF Len(owner) > 1 THEN SubSeq(owner, 1, Len(owner) - 1) ELSE owner

nameOf ==
    [r \in Requests |->
        IF pods[r].name # <<>> THEN pods[r].name ELSE ControllerName(pods[r].owner)]

(* Mutant of wanted: the ConfigMap carries no data.                        *)
wantedWithoutData ==
    [r \in Requests |-> [content |-> "none", owner |-> pods[r].owner]]

wanted ==
    [r \in Requests |-> [content |-> pods[r].content, owner |-> pods[r].owner]]

dryRuns == {r \in Requests : pods[r].dryRun}

Names == {nameOf[r] : r \in Requests}

-----------------------------------------------------------------------------
VARIABLES
    store,          \* cluster: the generated ConfigMaps
    pc,             \* where each request is
    retired,        \* cluster: owners that are gone
    removed,        \* history: names of maps deleted by hand
    wrote,          \* history: requests that wrote a map once
    last,           \* history: the request whose write of a name was the last
    failed,         \* history: requests hit by a fault
    removals, retries     \* counters for the bounds

countVars == <<failed, removals, retries>>
vars == <<store, pc, retired, removed, wrote, last, countVars>>

TypeOK ==
    /\ store \in [Names -> Map \cup {NoMap}]
    /\ pc \in [Requests -> {"create", "update", "written", "lost",
                            "admitted", "refused"}]
    /\ retired \subseteq Name
    /\ removed \subseteq Names
    /\ wrote \subseteq Requests
    /\ last \in [Names -> Requests \cup {NoRequest}]
    /\ failed \subseteq Requests
    /\ removals \in 0..MaxRemovals
    /\ retries \in 0..MaxRetries

Init ==
    /\ store = [n \in Names |-> NoMap]
    /\ pc = [r \in Requests |-> "create"]
    /\ retired = {} /\ removed = {} /\ wrote = {}
    /\ last = [n \in Names |-> NoRequest]
    /\ failed = {} /\ removals = 0 /\ retries = 0

Goto(r, next) == pc' = [pc EXCEPT ![r] = next]

Exists(r) == store[nameOf[r]] # NoMap

Fault(r) ==
    /\ r \in Unlucky \ failed
    /\ failed' = failed \cup {r}
    /\ UNCHANGED <<removals, retries>>

(* Mutant of Write: Update changes the data and leaves the old owner.      *)
WriteData(r) ==
    /\ store' = [store EXCEPT ![nameOf[r]] =
                    IF Exists(r) THEN [@ EXCEPT !.content = pods[r].content]
                                 ELSE wanted[r]]
    /\ wrote' = wrote \cup {r}
    /\ last' = [last EXCEPT ![nameOf[r]] = r]
    /\ UNCHANGED <<retired, removed>>

Write(r) ==
    /\ store' = [store EXCEPT ![nameOf[r]] = wanted[r]]
    /\ wrote' = wrote \cup {r}
    /\ last' = [last EXCEPT ![nameOf[r]] = r]
    /\ UNCHANGED <<retired, removed>>

NoWrite == UNCHANGED <<store, retired, removed, wrote, last>>

(* The API server refuses a name that starts with a dash.                  *)
ValidName(r) == nameOf[r] # <<>>

-----------------------------------------------------------------------------
(* MutatePod *)

DryRun(r) ==
    /\ pc[r] = "create"
    /\ r \in dryRuns
    /\ Goto(r, "written")
    /\ NoWrite /\ UNCHANGED countVars

Creates(r) == pc[r] = "create" /\ r \notin dryRuns /\ ValidName(r)

Create(r) ==
    /\ Creates(r) /\ ~Exists(r)
    /\ Write(r)
    /\ Goto(r, "written")
    /\ UNCHANGED countVars

(* Mutant of AlreadyExists: the map that is there will do.                 *)
ExistingWillDo(r) ==
    /\ Creates(r) /\ Exists(r)
    /\ Goto(r, "written")
    /\ NoWrite /\ UNCHANGED countVars

(* Mutant of AlreadyExists: any error of Create refuses the pod.           *)
ExistingRefuses(r) ==
    /\ Creates(r) /\ Exists(r)
    /\ Goto(r, "refused")
    /\ NoWrite /\ UNCHANGED countVars

(* Mutant of AlreadyExists: Create is tried again and again.               *)
CreateAgain(r) ==
    /\ Creates(r) /\ Exists(r)
    /\ UNCHANGED vars

AlreadyExists(r) ==
    /\ Creates(r) /\ Exists(r)
    /\ Goto(r, "update")
    /\ NoWrite /\ UNCHANGED countVars

InvalidName(r) ==
    /\ pc[r] = "create" /\ r \notin dryRuns /\ ~ValidName(r)
    /\ Goto(r, "refused")
    /\ NoWrite /\ UNCHANGED countVars

(* Update carries no resourceVersion: the last writer wins, with its       *)
(* content and its owner.                                                  *)
Update(r) ==
    /\ pc[r] = "update" /\ Exists(r)
    /\ Write(r)
    /\ Goto(r, "written")
    /\ UNCHANGED countVars

UpdateNotFound(r) ==
    /\ pc[r] = "update" /\ ~Exists(r)
    /\ Goto(r, "refused")
    /\ NoWrite /\ UNCHANGED countVars

(* A call fails without an effect, the handler panics, the replica stops.  *)
CallFails(r) ==
    /\ pc[r] \in {"create", "update", "written"}
    /\ Fault(r)
    /\ Goto(r, "refused")
    /\ NoWrite

(* The map is written but the webhook sees an error.                       *)
ResponseLost(r) ==
    /\ \/ Creates(r) /\ ~Exists(r)
       \/ pc[r] = "update" /\ Exists(r)
    /\ Fault(r)
    /\ Write(r)
    /\ Goto(r, "lost")

RefuseLost(r) ==
    /\ pc[r] = "lost"
    /\ Goto(r, "refused")
    /\ NoWrite /\ UNCHANGED countVars

Admit(r) ==
    /\ pc[r] = "written"
    /\ Goto(r, "admitted")
    /\ NoWrite /\ UNCHANGED countVars

(* The pod's controller tries again.                                       *)
Retry(r) ==
    /\ pc[r] = "refused"
    /\ pods[r].owner \notin retired
    /\ retries < MaxRetries
    /\ retries' = retries + 1
    /\ Goto(r, "create")
    /\ NoWrite /\ UNCHANGED <<failed, removals>>

-----------------------------------------------------------------------------
(* The rest of the cluster *)

(* A controller is deleted, perhaps while a pod of its is being admitted.  *)
Retire(owner) ==
    /\ owner \notin retired
    /\ retired' = retired \cup {owner}
    /\ UNCHANGED <<store, pc, removed, wrote, last, countVars>>

(* The garbage collector removes what only a retired owner owned.          *)
Collect(n) ==
    /\ store[n] # NoMap
    /\ store[n].owner \in retired
    /\ store' = [store EXCEPT ![n] = NoMap]
    /\ UNCHANGED <<pc, retired, removed, wrote, last, countVars>>

Remove(n) ==
    /\ store[n] # NoMap
    /\ removals < MaxRemovals
    /\ removals' = removals + 1
    /\ store' = [store EXCEPT ![n] = NoMap]
    /\ removed' = removed \cup {n}
    /\ UNCHANGED <<pc, retired, wrote, last, failed, retries>>

-----------------------------------------------------------------------------
Owners == {pods[r].owner : r \in Requests} \ {<<>>}

Handle(r) ==
    \/ DryRun(r) \/ Create(r) \/ AlreadyExists(r) \/ InvalidName(r)
    \/ Update(r) \/ UpdateNotFound(r)
    \/ CallFails(r) \/ ResponseLost(r) \/ RefuseLost(r) \/ Admit(r)

Cluster ==
    \/ \E r \in Requests : Retry(r)
    \/ \E owner \in Owners : Retire(owner)
    \/ \E n \in Names : Collect(n) \/ Remove(n)

Next == (\E r \in Requests : Handle(r)) \/ Cluster

(* Each request has a goroutine of its own, and its calls return.          *)
Spec == Init /\ [][Next]_vars /\ \A r \in Requests : WF_vars(Handle(r))

-----------------------------------------------------------------------------
(* Properties *)

(* What became of the map called n that one request or another wrote: an   *)
(* owner that wrote it is gone, or it was deleted by hand.                 *)
Lost(n) ==
    \/ n \in removed
    \/ \E s \in wrote : nameOf[s] = n /\ pods[s].owner \in retired

(* The last writer wins, whole: an admitted pod's request wrote its map    *)
(* itself, and the map the pod mounts is, content and owner, what the last *)
(* request to write that name wanted, the pod's own or a later one.  It is *)
(* missing only when it was deleted or an owner of it is gone, which       *)
(* during a rolling update may be another ReplicaSet than the pod's.       *)
MapServesPod ==
    \A r \in Requests : pc[r] = "admitted" /\ r \notin dryRuns =>
        /\ r \in wrote
        /\ \/ Exists(r) /\ store[nameOf[r]] = wanted[last[nameOf[r]]]
           \/ ~Exists(r) /\ Lost(nameOf[r])

(* The race for the name refuses nobody: without a fault, a deletion or an *)
(* impossible name every request is admitted.                              *)
RefusedForAReason ==
    \A r \in Requests : pc[r] = "refused" =>
        r \in failed \/ ~ValidName(r) \/ Lost(nameOf[r])

(* Every request is answered, whatever the others do to the map meanwhile. *)
EveryRequestIsAnswered ==
    \A r \in Requests : pc[r] = "create" ~> pc[r] \in {"admitted", "refused"}

(* The comment in getConfigMapForVaultAgent: a pod without a name uses the *)
(* name of its controller.  So what is called after a controller was       *)
(* written for a pod of that controller, or for the pod of that name.      *)
MapBelongsToItsName ==
    \A n \in Names : store[n] # NoMap =>
        \E r \in wrote : /\ wanted[r] = store[n]
                         /\ n = pods[r].name \/ n \in pods[r].controllers

-----------------------------------------------------------------------------
(* The refinement: Create and Update are one Put *)

status ==
    [r \in Requests |->
        IF pc[r] \in {"admitted", "refused"} THEN pc[r]
        ELSE IF pc[r] \in {"written", "lost"} /\ r \notin dryRuns THEN "written"
        ELSE "pending"]

Promise == INSTANCE ConfigMapPromise WITH
    Requests <- Requests, Names <- Names, nameOf <- nameOf, wanted <- wanted,
    dryRuns <- dryRuns, NoMap <- NoMap, store <- store, status <- status

(* Creating and updating a map in two calls, with others in between, looks *)
(* like writing it in one step before the pod is admitted.                 *)
WritesOnceAdmitsAfter == Promise!Spec

-----------------------------------------------------------------------------
(* The inductive invariant behind MapServesPod and RefusedForAReason       *)

(* A map is the one the last request to write it wanted.                   *)
StoreInv ==
    \A n \in Names : store[n] # NoMap =>
        /\ last[n] \in wrote
        /\ nameOf[last[n]] = n
        /\ store[n] = wanted[last[n]]

(* A map that was written is there or has been lost.                       *)
LostInv == \A s \in wrote : Exists(s) \/ Lost(nameOf[s])

ControlInv ==
    \A r \in Requests :
        /\ pc[r] \in {"written", "lost", "admitted"} /\ r \notin dryRuns =>
                r \in wrote
        /\ pc[r] = "update" => \E s \in wrote : nameOf[s] = nameOf[r]
        /\ pc[r] = "lost" => r \in failed
        /\ pc[r] \in {"update", "lost"} => r \notin dryRuns

IInv == TypeOK /\ StoreInv /\ LostInv /\ ControlInv /\ RefusedForAReason
=============================================================================
