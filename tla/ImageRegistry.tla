---------------------------- MODULE ImageRegistry -----------------------------
(***************************************************************************)
(* GetImageConfig of pkg/webhook/registry.go: the configuration of a       *)
(* container's image, from the replica's cache or in two calls from the    *)
(* registry, while goroutines share the cache, images are pushed again and *)
(* replicas restart with an empty cache.                                   *)
(***************************************************************************)
EXTENDS Naturals, Sequences

CONSTANTS
    Replicas, Images,
    Requests,       \* calls of GetImageConfig, each for one container
    calls,          \* the container and the pod of each
    kinds,          \* "latest", "fixed" (a tag or a digest) or "unparsable"
    manifests,      \* manifests[i][v]: version v of image i, by platform
    operatorSecret, \* the three default_image_pull_secret settings are there
    accepts,        \* the credentials the registry accepts for an image
    Unlucky,        \* bound: the requests a call may fail for
    MaxRestarts     \* bound: restarts of a replica

(* always is PullPolicy Always, ownSecret an imagePullSecret of the pod.   *)
Call == [replica : Replicas, image : Images, always : BOOLEAN, ownSecret : BOOLEAN]

ASSUME CallsAssumption == calls \in [Requests -> Call]
ASSUME KindsAssumption == kinds \in [Images -> {"latest", "fixed", "unparsable"}]
ASSUME ManifestsAssumption ==
    /\ DOMAIN manifests = Images
    /\ \A i \in Images : manifests[i] \in Seq(Seq(STRING)) /\ Len(manifests[i]) > 0
    /\ \A i \in Images : \A v \in 1..Len(manifests[i]) :
            \A n \in 1..Len(manifests[i][v]) :
                manifests[i][v][n] \notin {"none", "error"}
ASSUME BoundsAssumption == MaxRestarts \in Nat

replicaOf == [r \in Requests |-> calls[r].replica]
imageOf   == [r \in Requests |-> calls[r].image]
versions(i) == 1..Len(manifests[i])

(* A single image counts as an index of one manifest.                      *)
configs ==
    [i \in Images |-> [v \in versions(i) |->
        {manifests[i][v][n] : n \in 1..Len(manifests[i][v])}]]

(* Mutant of IsAllowedToCache: the pull policy is not looked at.           *)
CachesAlways(r) == kinds[imageOf[r]] = "fixed"

IsAllowedToCache(r) == ~calls[r].always /\ kinds[imageOf[r]] = "fixed"

(* Mutant of containerInfo: the operator's pull secret is never used.      *)
containerInfoOfPod(r) == IF calls[r].ownSecret THEN "pod" ELSE "cloud"

containerInfo(r) ==
    IF calls[r].ownSecret THEN "pod"
    ELSE IF operatorSecret THEN "operator" ELSE "cloud"

-----------------------------------------------------------------------------
VARIABLES
    imageCache,     \* per replica: a configuration or "none" for each image
    pc,             \* "idle", "lookup", "descriptor", "config" or "done"
    descriptor,     \* the version a request was told, or 0
    answer,         \* "none", "error" or the configuration returned
    pushed,         \* registry: the version each image's name stands for
    pruned,         \* registry: versions that were removed
    born, asked,    \* history: what pushed was at start and call
    failed,         \* history: requests a call failed for
    restarts

cluster == <<pushed, pruned, born, restarts>>
vars == <<imageCache, pc, descriptor, answer, cluster, asked, failed>>

AllConfigs(i) == UNION {configs[i][v] : v \in versions(i)}

TypeOK ==
    /\ DOMAIN imageCache = Replicas
    /\ \A p \in Replicas :
        /\ DOMAIN imageCache[p] = Images
        /\ \A i \in Images : imageCache[p][i] \in {"none"} \cup AllConfigs(i)
    /\ pc \in [Requests -> {"idle", "lookup", "descriptor", "config", "done"}]
    /\ descriptor \in [Requests -> Nat]
    /\ DOMAIN answer = Requests
    /\ \A r \in Requests :
        answer[r] \in {"none", "error"} \cup AllConfigs(imageOf[r])
    /\ pushed \in [Images -> Nat]
    /\ \A i \in Images : pushed[i] \in versions(i)
    /\ pruned \subseteq Images \X Nat
    /\ born \in [Replicas -> [Images -> Nat]]
    /\ asked \in [Requests -> Nat]
    /\ failed \subseteq Requests
    /\ restarts \in 0..MaxRestarts

Init ==
    /\ imageCache = [p \in Replicas |-> [i \in Images |-> "none"]]
    /\ pc = [r \in Requests |-> "idle"]
    /\ descriptor = [r \in Requests |-> 0]
    /\ answer = [r \in Requests |-> "none"]
    /\ pushed = [i \in Images |-> 1]
    /\ born = [p \in Replicas |-> pushed]
    /\ asked = [r \in Requests |-> 0]
    /\ pruned = {} /\ failed = {} /\ restarts = 0

Cached(r) == imageCache[replicaOf[r]][imageOf[r]]
Goto(r, next) == pc' = [pc EXCEPT ![r] = next]

Return(r, result) ==
    /\ answer' = [answer EXCEPT ![r] = result]
    /\ Goto(r, "done")
    /\ UNCHANGED <<descriptor, cluster, asked>>

-----------------------------------------------------------------------------
(* GetImageConfig *)

Ask(r) ==
    /\ pc[r] = "idle"
    /\ Goto(r, "lookup")
    /\ asked' = [asked EXCEPT ![r] = pushed[imageOf[r]]]
    /\ UNCHANGED <<imageCache, descriptor, answer, cluster, failed>>

Hit(r) ==
    /\ pc[r] = "lookup"
    /\ IsAllowedToCache(r) /\ Cached(r) # "none"
    /\ Return(r, Cached(r))
    /\ UNCHANGED <<imageCache, failed>>

(* Mutant of Miss: what is in the cache is fetched again.                  *)
MissAnyway(r) ==
    /\ pc[r] = "lookup"
    /\ Goto(r, "descriptor")
    /\ UNCHANGED <<imageCache, descriptor, answer, cluster, asked, failed>>

Miss(r) ==
    /\ pc[r] = "lookup"
    /\ ~(IsAllowedToCache(r) /\ Cached(r) # "none")
    /\ Goto(r, "descriptor")
    /\ UNCHANGED <<imageCache, descriptor, answer, cluster, asked, failed>>

Authorized(r) ==
    kinds[imageOf[r]] # "unparsable" /\ containerInfo(r) \in accepts[imageOf[r]]

GetDescriptor(r) ==
    /\ pc[r] = "descriptor" /\ Authorized(r)
    /\ descriptor' = [descriptor EXCEPT ![r] = pushed[imageOf[r]]]
    /\ Goto(r, "config")
    /\ UNCHANGED <<imageCache, answer, cluster, asked, failed>>

Denied(r) ==
    /\ pc[r] = "descriptor" /\ ~Authorized(r)
    /\ Return(r, "error")
    /\ UNCHANGED <<imageCache, failed>>

manifest(r) == manifests[imageOf[r]][descriptor[r]]
Gone(r) == <<imageOf[r], descriptor[r]>> \in pruned

(* By digest: a push in between changes nothing.  Of an index, the first   *)
(* manifest is taken, whatever the platform.  Another request may have     *)
(* filled the cache since Miss; its entry is overwritten.                  *)
ConfigFile(r) ==
    /\ pc[r] = "config" /\ manifest(r) # <<>> /\ ~Gone(r)
    /\ imageCache' =
            IF IsAllowedToCache(r)
            THEN [imageCache EXCEPT ![replicaOf[r]][imageOf[r]] = Head(manifest(r))]
            ELSE imageCache
    /\ Return(r, Head(manifest(r)))
    /\ UNCHANGED failed

(* Mutant of NoManifest: the error's nil configuration is cached.          *)
NoManifestCached(r) ==
    /\ pc[r] = "config" /\ (manifest(r) = <<>> \/ Gone(r))
    /\ imageCache' = [imageCache EXCEPT ![replicaOf[r]][imageOf[r]] = "error"]
    /\ Return(r, "error")
    /\ UNCHANGED failed

NoManifest(r) ==
    /\ pc[r] = "config" /\ (manifest(r) = <<>> \/ Gone(r))
    /\ Return(r, "error")
    /\ UNCHANGED <<imageCache, failed>>

(* The pull secret cannot be read, or the registry not be reached.         *)
CallFails(r) ==
    /\ pc[r] \in {"descriptor", "config"} /\ r \in Unlucky
    /\ Return(r, "error")
    /\ failed' = failed \cup {r}
    /\ UNCHANGED imageCache

-----------------------------------------------------------------------------
(* Registry and replicas *)

Push(i) ==
    /\ pushed[i] + 1 \in versions(i)
    /\ pushed' = [pushed EXCEPT ![i] = @ + 1]
    /\ UNCHANGED <<imageCache, pc, descriptor, answer, pruned, born, restarts,
                   asked, failed>>

Prune(i) ==
    /\ \E v \in 1..(pushed[i] - 1) : pruned' = pruned \cup {<<i, v>>}
    /\ UNCHANGED <<imageCache, pc, descriptor, answer, pushed, born, restarts,
                   asked, failed>>

Working(r) == pc[r] \in {"lookup", "descriptor", "config"}

Restart(p) ==
    /\ restarts < MaxRestarts
    /\ restarts' = restarts + 1
    /\ imageCache' = [imageCache EXCEPT ![p] = [i \in Images |-> "none"]]
    /\ LET lost == {r \in Requests : replicaOf[r] = p /\ Working(r)}
       IN  /\ pc' = [r \in Requests |-> IF r \in lost THEN "done" ELSE pc[r]]
           /\ answer' = [r \in Requests |-> IF r \in lost THEN "error" ELSE answer[r]]
           /\ failed' = failed \cup lost
    /\ born' = [born EXCEPT ![p] = pushed]
    /\ UNCHANGED <<descriptor, pushed, pruned, asked>>

GetImageConfig(r) ==
    \/ Hit(r) \/ Miss(r) \/ GetDescriptor(r) \/ Denied(r)
    \/ ConfigFile(r) \/ NoManifest(r) \/ CallFails(r)

Next ==
    \/ \E r \in Requests : Ask(r) \/ GetImageConfig(r)
    \/ \E i \in Images : Push(i) \/ Prune(i)
    \/ \E p \in Replicas : Restart(p)

Spec == Init /\ [][Next]_vars

-----------------------------------------------------------------------------
(* Properties *)

(* An answer is never older than the replica that gives it, and never      *)
(* older than the call where the image may not be cached, however the      *)
(* calls, the pushes and the restarts interleave.                          *)
mayBeStale == {r \in Requests : kinds[imageOf[r]] = "fixed" /\ ~calls[r].always}

Promise == INSTANCE ImagePromise WITH
    configs <- configs, replicaOf <- replicaOf, imageOf <- imageOf,
    mayBeStale <- mayBeStale,
    pushed <- pushed, born <- born, asked <- asked, answer <- answer

AnswersAreFreshEnough == Promise!Spec

(* Requests that missed together overwrite each other's entry, but once    *)
(* the last of them is back, an image is settled in the replica: its entry *)
(* does not change and nothing is fetched for it until a restart.          *)
Fetches(r) == pc[r] \in {"descriptor", "config"} /\ IsAllowedToCache(r)

Settled(p, i) ==
    /\ imageCache[p][i] # "none"
    /\ \A r \in Requests : Fetches(r) => replicaOf[r] # p \/ imageOf[r] # i

SettledStaysSettled ==
    [][\A p \in Replicas, i \in Images :
            Settled(p, i) => \/ Settled(p, i)' /\ imageCache'[p][i] = imageCache[p][i]
                             \/ Restart(p)]_vars

(* A container is refused only for a failed call, an image nobody could    *)
(* read or that is gone, or credentials the registry does not accept.  A   *)
(* pod without a pull secret of its own has the operator's.                *)
Reason(r) ==
    LET i == imageOf[r] IN
    \/ r \in failed
    \/ kinds[i] = "unparsable"
    \/ descriptor[r] # 0 /\ (manifest(r) = <<>> \/ Gone(r))
    \/ /\ "operator" \in accepts[i] => calls[r].ownSecret \/ ~operatorSecret
       /\ "pod" \in accepts[i] => ~calls[r].ownSecret
       /\ "cloud" \in accepts[i] => calls[r].ownSecret \/ operatorSecret

RefusedForAReason == \A r \in Requests : answer[r] = "error" => Reason(r)

-----------------------------------------------------------------------------
(* The inductive invariant behind the refinement and RefusedForAReason     *)

HadSince(i, v, c) == \E w \in v..pushed[i] : c \in configs[i][w]

CacheInv ==
    \A p \in Replicas, i \in Images :
        /\ born[p][i] \in 1..pushed[i]
        /\ imageCache[p][i] # "none" => HadSince(i, born[p][i], imageCache[p][i])

RequestInv ==
    \A r \in Requests :
        /\ pc[r] = "idle" <=> asked[r] = 0
        /\ pc[r] = "done" <=> answer[r] # "none"
        /\ Working(r) => /\ asked[r] >= born[replicaOf[r]][imageOf[r]]
                         /\ asked[r] <= pushed[imageOf[r]]
        /\ pc[r] = "config" => descriptor[r] \in asked[r]..pushed[imageOf[r]]

IInv == TypeOK /\ CacheInv /\ RequestInv /\ RefusedForAReason
=============================================================================
