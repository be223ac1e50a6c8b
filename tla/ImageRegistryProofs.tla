-------------------------- MODULE ImageRegistryProofs --------------------------
(***************************************************************************)
(* GetImageConfig for any number of replicas, images, versions and calls:  *)
(* the invariant of ImageRegistry, and that cache and registry together    *)
(* keep what ImagePromise says about the age of an answer.                 *)
(***************************************************************************)
EXTENDS ImageRegistry, TLAPS

-----------------------------------------------------------------------------
(* Facts about the constants *)

(* Each call is for an image, in a replica.                                *)
LEMMA CallFacts ==
    ASSUME NEW r \in Requests
    PROVE  replicaOf[r] \in Replicas /\ imageOf[r] \in Images
BY CallsAssumption DEF Call, replicaOf, imageOf

(* The first manifest of a version is one of its configurations.           *)
LEMMA HeadFacts ==
    ASSUME NEW i \in Images, NEW v \in versions(i), manifests[i][v] # <<>>
    PROVE  /\ Head(manifests[i][v]) \in configs[i][v]
           /\ Head(manifests[i][v]) \in AllConfigs(i)
           /\ Head(manifests[i][v]) \notin {"none", "error"}
<1>1. manifests[i][v] \in Seq(STRING)
  BY ManifestsAssumption DEF versions
<1>2. /\ 1 \in 1..Len(manifests[i][v])
      /\ Head(manifests[i][v]) = manifests[i][v][1]
  BY <1>1
<1>3. Head(manifests[i][v]) \in configs[i][v]
  BY <1>2 DEF configs
<1>4. Head(manifests[i][v]) \notin {"none", "error"}
  BY <1>2, ManifestsAssumption DEF versions
<1> QED BY <1>3, <1>4 DEF AllConfigs

(* No configuration is the placeholder of an empty entry or an error.      *)
LEMMA ConfigFacts ==
    ASSUME NEW i \in Images, NEW v \in versions(i), NEW c \in configs[i][v]
    PROVE  c \notin {"none", "error"}
<1>1. PICK n \in 1..Len(manifests[i][v]) : c = manifests[i][v][n]
  BY DEF configs
<1> QED BY <1>1, ManifestsAssumption DEF versions

-----------------------------------------------------------------------------
(* The invariant *)

(* At first nothing is cached, asked or answered.                          *)
LEMMA InitInv == Init => IInv
<1> SUFFICES ASSUME Init PROVE IInv
  OBVIOUS
<1>1. \A i \in Images : 1 \in versions(i)
  BY ManifestsAssumption DEF versions
<1>2. TypeOK
  BY <1>1, BoundsAssumption DEF Init, TypeOK
<1>3. CacheInv
  BY DEF Init, CacheInv
<1>4. RequestInv
  BY DEF Init, RequestInv, Working
<1>5. RefusedForAReason
  BY DEF Init, RefusedForAReason
<1> QED BY <1>2, <1>3, <1>4, <1>5 DEF IInv

(* In its last call a request knows a version the image has had since it   *)
(* asked, and gets one of its configurations.                              *)
LEMMA DescriptorFacts ==
    ASSUME TypeOK, RequestInv, NEW r \in Requests, pc[r] = "config"
    PROVE  /\ descriptor[r] \in versions(imageOf[r])
           /\ descriptor[r] \in asked[r]..pushed[imageOf[r]]
           /\ manifest(r) # <<>> =>
                /\ Head(manifest(r)) \in configs[imageOf[r]][descriptor[r]]
                /\ Head(manifest(r)) \in AllConfigs(imageOf[r])
                /\ Head(manifest(r)) \notin {"none", "error"}
<1>1. imageOf[r] \in Images
  BY CallFacts
<1>2. /\ descriptor[r] \in asked[r]..pushed[imageOf[r]]
      /\ asked[r] \in Nat \ {0}
      /\ pushed[imageOf[r]] \in Nat /\ pushed[imageOf[r]] \in versions(imageOf[r])
  BY <1>1 DEF TypeOK, RequestInv
<1>3. Len(manifests[imageOf[r]]) \in Nat
  BY <1>1, ManifestsAssumption
<1>4. descriptor[r] \in versions(imageOf[r])
  BY <1>2, <1>3 DEF versions
<1> QED BY <1>1, <1>2, <1>4, HeadFacts DEF manifest

LEMMA TypeStep == IInv /\ [Next]_vars => TypeOK'
<1> SUFFICES ASSUME IInv, [Next]_vars PROVE TypeOK'
  OBVIOUS
<1> USE CallFacts DEF IInv
<1>1. ASSUME NEW r \in Requests, Ask(r) PROVE TypeOK'
  BY <1>1 DEF Ask, Goto, TypeOK, cluster
<1>2. ASSUME NEW r \in Requests, Hit(r) PROVE TypeOK'
  BY <1>2 DEF Hit, Return, Cached, Goto, TypeOK, cluster
<1>3. ASSUME NEW r \in Requests, Miss(r) PROVE TypeOK'
  BY <1>3 DEF Miss, Goto, TypeOK, cluster
<1>4. ASSUME NEW r \in Requests, GetDescriptor(r) PROVE TypeOK'
  BY <1>4 DEF GetDescriptor, Goto, TypeOK, cluster
<1>5. ASSUME NEW r \in Requests, Denied(r) \/ NoManifest(r) PROVE TypeOK'
  BY <1>5 DEF Denied, NoManifest, Return, Goto, TypeOK, cluster
<1>6. ASSUME NEW r \in Requests, ConfigFile(r) PROVE TypeOK'
  <2>1. Head(manifest(r)) \in AllConfigs(imageOf[r])
    BY <1>6, DescriptorFacts DEF ConfigFile
  <2> QED BY <1>6, <2>1 DEF ConfigFile, Return, Goto, TypeOK, cluster
<1>7. ASSUME NEW r \in Requests, CallFails(r) PROVE TypeOK'
  BY <1>7 DEF CallFails, Return, Goto, TypeOK, cluster
<1>8. ASSUME NEW i \in Images, Push(i) PROVE TypeOK'
  BY <1>8 DEF Push, TypeOK, versions
<1>9. ASSUME NEW i \in Images, Prune(i) PROVE TypeOK'
  BY <1>9 DEF Prune, TypeOK
<1>10. ASSUME NEW p \in Replicas, Restart(p) PROVE TypeOK'
  BY <1>10, BoundsAssumption DEF Restart, TypeOK
<1>11. CASE UNCHANGED vars
  BY <1>11 DEF vars, cluster, TypeOK
<1> QED
  BY <1>1, <1>2, <1>3, <1>4, <1>5, <1>6, <1>7, <1>8, <1>9, <1>10, <1>11
     DEF Next, GetImageConfig

(* What a replica has cached, the image has had since the replica started. *)
LEMMA CacheStep == IInv /\ [Next]_vars => CacheInv'
<1> SUFFICES ASSUME IInv, [Next]_vars PROVE CacheInv'
  OBVIOUS
<1> USE CallFacts DEF IInv
<1>1. CASE UNCHANGED <<imageCache, born, pushed>>
  BY <1>1 DEF CacheInv, HadSince
<1>2. ASSUME NEW r \in Requests, ConfigFile(r) PROVE CacheInv'
  <2>1. /\ pc[r] = "config" /\ Head(manifest(r)) \in configs[imageOf[r]][descriptor[r]]
        /\ descriptor[r] \in asked[r]..pushed[imageOf[r]]
    BY <1>2, DescriptorFacts DEF ConfigFile
  <2>2. asked[r] >= born[replicaOf[r]][imageOf[r]]
    BY <2>1 DEF RequestInv, Working
  <2>3. HadSince(imageOf[r], born[replicaOf[r]][imageOf[r]], Head(manifest(r)))
    BY <2>1, <2>2 DEF HadSince, TypeOK
  <2>4. born' = born /\ pushed' = pushed
    BY <1>2 DEF ConfigFile, Return, cluster
  <2>5. \A p \in Replicas, i \in Images :
            \/ imageCache'[p][i] = imageCache[p][i]
            \/ /\ p = replicaOf[r] /\ i = imageOf[r]
               /\ imageCache'[p][i] = Head(manifest(r))
    BY <1>2 DEF ConfigFile, TypeOK
  <2> QED BY <2>3, <2>4, <2>5 DEF CacheInv, HadSince
<1>3. ASSUME NEW i \in Images, Push(i) PROVE CacheInv'
  <2>1. /\ imageCache' = imageCache /\ born' = born
        /\ \A j \in Images : pushed[j] \in Nat /\ pushed'[j] \in Nat /\ pushed'[j] >= pushed[j]
    BY <1>3 DEF Push, TypeOK
  <2>2. \A p \in Replicas, j \in Images : born[p][j] \in Nat
    BY DEF TypeOK
  <2> QED BY <2>1, <2>2 DEF CacheInv, HadSince
<1>4. ASSUME NEW p \in Replicas, Restart(p) PROVE CacheInv'
  <2>1. /\ pushed' = pushed
        /\ \A q \in Replicas : born'[q] = IF q = p THEN pushed ELSE born[q]
        /\ \A q \in Replicas, i \in Images :
                imageCache'[q][i] = IF q = p THEN "none" ELSE imageCache[q][i]
    BY <1>4 DEF Restart, TypeOK
  <2>2. \A i \in Images : pushed[i] \in 1..pushed[i]
    BY DEF TypeOK, versions
  <2> QED BY <2>1, <2>2 DEF CacheInv, HadSince
<1> QED
  BY <1>1, <1>2, <1>3, <1>4
     DEF Next, GetImageConfig, Ask, Hit, Miss, GetDescriptor, Denied, NoManifest,
         CallFails, Prune, Return, cluster, vars

(* A request knows what it asked for, and its answer when it is back.      *)
LEMMA RequestStep == IInv /\ [Next]_vars => RequestInv'
<1> SUFFICES ASSUME IInv, [Next]_vars PROVE RequestInv'
  OBVIOUS
<1> USE CallFacts DEF IInv
<1>0. \A r \in Requests : /\ pushed[imageOf[r]] \in Nat \ {0}
                          /\ asked[r] \in Nat /\ descriptor[r] \in Nat
                          /\ born[replicaOf[r]][imageOf[r]] \in 1..pushed[imageOf[r]]
  BY DEF TypeOK, CacheInv, versions
<1>1. ASSUME NEW r \in Requests, Ask(r) PROVE RequestInv'
  BY <1>0, <1>1 DEF Ask, Goto, TypeOK, cluster, RequestInv, Working
<1>2. ASSUME NEW r \in Requests, NEW result, Return(r, result), result # "none",
             Working(r)
      PROVE  RequestInv'
  BY <1>2 DEF Return, Goto, TypeOK, cluster, RequestInv, Working
<1>3. ASSUME NEW r \in Requests, Hit(r) PROVE RequestInv'
  BY <1>2, <1>3 DEF Hit, Cached, Working
<1>4. ASSUME NEW r \in Requests, Miss(r) PROVE RequestInv'
  BY <1>4 DEF Miss, Goto, TypeOK, cluster, RequestInv, Working
<1>5. ASSUME NEW r \in Requests, GetDescriptor(r) PROVE RequestInv'
  BY <1>0, <1>5 DEF GetDescriptor, Goto, TypeOK, cluster, RequestInv, Working
<1>6. ASSUME NEW r \in Requests, Denied(r) \/ NoManifest(r) \/ CallFails(r)
      PROVE  RequestInv'
  BY <1>2, <1>6 DEF Denied, NoManifest, CallFails, Working
<1>7. ASSUME NEW r \in Requests, ConfigFile(r) PROVE RequestInv'
  <2>1. Head(manifest(r)) # "none"
    BY <1>7, DescriptorFacts DEF ConfigFile
  <2> QED BY <1>2, <1>7, <2>1 DEF ConfigFile, Working
<1>8. ASSUME NEW i \in Images, Push(i) PROVE RequestInv'
  <2>1. \A r \in Requests : /\ pushed'[imageOf[r]] \in Nat
                            /\ pushed'[imageOf[r]] >= pushed[imageOf[r]]
    BY <1>0, <1>8 DEF Push, TypeOK
  <2> QED BY <1>0, <1>8, <2>1 DEF Push, RequestInv, Working
<1>9. ASSUME NEW i \in Images, Prune(i) PROVE RequestInv'
  BY <1>9 DEF Prune, RequestInv, Working
<1>10. ASSUME NEW p \in Replicas, Restart(p) PROVE RequestInv'
  <2>1. \A r \in Requests :
            IF replicaOf[r] = p /\ Working(r)
            THEN pc'[r] = "done" /\ answer'[r] = "error"
            ELSE pc'[r] = pc[r] /\ answer'[r] = answer[r]
    BY <1>10 DEF Restart
  <2>2. \A q \in Replicas : q # p => born'[q] = born[q]
    BY <1>10 DEF Restart, TypeOK
  <2>3. UNCHANGED <<descriptor, pushed, asked>>
    BY <1>10 DEF Restart
  <2> QED BY <2>1, <2>2, <2>3 DEF RequestInv, Working
<1>11. CASE UNCHANGED vars
  BY <1>11 DEF vars, cluster, RequestInv, Working
<1> QED
  BY <1>1, <1>3, <1>4, <1>5, <1>6, <1>7, <1>8, <1>9, <1>10, <1>11
     DEF Next, GetImageConfig

(* The reason a request was refused for stays one.                         *)
LEMMA ReasonStep == IInv /\ [Next]_vars => RefusedForAReason'
<1> SUFFICES ASSUME IInv, [Next]_vars,
                    NEW s \in Requests, answer'[s] = "error"
             PROVE  Reason(s)'
  BY DEF RefusedForAReason
<1> USE CallFacts DEF IInv
<1>1. ASSUME answer[s] = "error", descriptor'[s] = descriptor[s],
             failed \subseteq failed', pruned \subseteq pruned'
      PROVE  Reason(s)'
  BY <1>1 DEF RefusedForAReason, Reason, manifest, Gone
<1>2. answer[s] = "error" => pc[s] = "done"
  BY DEF RequestInv
<1>3. ASSUME NEW r \in Requests, Ask(r) PROVE Reason(s)'
  BY <1>1, <1>3 DEF Ask, cluster
<1>4. ASSUME NEW r \in Requests, NEW result, Return(r, result),
             r = s => result # "error" \/ Reason(s)', failed \subseteq failed'
      PROVE  Reason(s)'
  BY <1>1, <1>4 DEF Return, TypeOK, cluster
<1>5. ASSUME NEW r \in Requests, Hit(r) PROVE Reason(s)'
  <2>1. Cached(r) # "error"
    BY <1>5, ConfigFacts DEF Hit, Cached, TypeOK, AllConfigs
  <2> QED BY <1>4, <1>5, <2>1 DEF Hit
<1>6. ASSUME NEW r \in Requests, Miss(r) PROVE Reason(s)'
  BY <1>1, <1>6 DEF Miss, cluster
<1>7. ASSUME NEW r \in Requests, GetDescriptor(r) PROVE Reason(s)'
  <2>1. r # s
    BY <1>2, <1>7 DEF GetDescriptor
  <2> QED BY <1>1, <1>7, <2>1 DEF GetDescriptor, cluster, TypeOK
<1>8. ASSUME NEW r \in Requests, Denied(r) PROVE Reason(s)'
  <2>1. r = s => Reason(s)'
    BY <1>8 DEF Denied, Authorized, containerInfo, Reason
  <2> QED BY <1>4, <1>8, <2>1 DEF Denied
<1>9. ASSUME NEW r \in Requests, ConfigFile(r) PROVE Reason(s)'
  <2>1. Head(manifest(r)) # "error"
    BY <1>9, DescriptorFacts DEF ConfigFile
  <2> QED BY <1>4, <1>9, <2>1 DEF ConfigFile
<1>10. ASSUME NEW r \in Requests, NoManifest(r) PROVE Reason(s)'
  <2>1. descriptor[r] # 0
    BY <1>10, DescriptorFacts DEF NoManifest, versions
  <2>2. r = s => Reason(s)'
    BY <1>10, <2>1 DEF NoManifest, Return, cluster, Reason, manifest, Gone
  <2> QED BY <1>4, <1>10, <2>2 DEF NoManifest
<1>11. ASSUME NEW r \in Requests, CallFails(r) PROVE Reason(s)'
  <2>1. r = s => Reason(s)'
    BY <1>11 DEF CallFails, Reason
  <2> QED BY <1>4, <1>11, <2>1 DEF CallFails
<1>12. ASSUME NEW i \in Images, Push(i) \/ Prune(i) PROVE Reason(s)'
  BY <1>1, <1>12 DEF Push, Prune
<1>13. ASSUME NEW p \in Replicas, Restart(p) PROVE Reason(s)'
  <2>1. CASE answer[s] = "error"
    BY <1>1, <1>13, <2>1 DEF Restart
  <2>2. CASE answer[s] # "error"
    <3>1. s \in failed'
      BY <1>13, <2>2 DEF Restart
    <3> QED BY <3>1 DEF Reason
  <2> QED BY <2>1, <2>2
<1>14. CASE UNCHANGED vars
  BY <1>1, <1>14 DEF vars, cluster
<1> QED
  BY <1>3, <1>5, <1>6, <1>7, <1>8, <1>9, <1>10, <1>11, <1>12, <1>13, <1>14
     DEF Next, GetImageConfig

LEMMA Invariance == Spec => []IInv
<1>1. IInv /\ [Next]_vars => IInv'
  BY TypeStep, CacheStep, RequestStep, ReasonStep DEF IInv
<1> QED BY <1>1, InitInv, PTL DEF Spec

(* The state of a replica's cache and of every call keeps its type.        *)
THEOREM TypeCorrect == Spec => []TypeOK
<1>1. IInv => TypeOK BY DEF IInv
<1> QED BY <1>1, Invariance, PTL

(* No container is refused without a reason, whatever the calls race with. *)
THEOREM NobodyIsRefusedForTheRace == Spec => []RefusedForAReason
<1>1. IInv => RefusedForAReason BY DEF IInv
<1> QED BY <1>1, Invariance, PTL

-----------------------------------------------------------------------------
(* The refinement *)

(* Every step of cache and registry is one the promise allows, or none.    *)
LEMMA StepRefines == IInv /\ [Next]_vars => [Promise!Next]_(Promise!vars)
<1> SUFFICES ASSUME IInv, [Next]_vars PROVE [Promise!Next]_(Promise!vars)
  OBVIOUS
<1> USE CallFacts DEF IInv, Promise!vars
<1>1. ASSUME NEW r \in Requests, Ask(r) PROVE Promise!Next
  <2>1. asked[r] = 0
    BY <1>1 DEF Ask, RequestInv
  <2> QED BY <1>1, <2>1 DEF Ask, Promise!Next, Promise!Ask, cluster
<1>2. ASSUME NEW r \in Requests, Working(r)
      PROVE  /\ asked[r] # 0 /\ answer[r] = "none"
             /\ r \in mayBeStale <=> IsAllowedToCache(r)
  BY <1>2 DEF RequestInv, Working, mayBeStale, IsAllowedToCache
<1>3. ASSUME NEW r \in Requests, Working(r), Return(r, "error") PROVE Promise!Next
  <2>1. Promise!Refuse(r)
    BY <1>2, <1>3 DEF Return, Promise!Refuse, cluster
  <2> QED BY <2>1 DEF Promise!Next
<1>4. ASSUME NEW r \in Requests, Working(r), NEW result, Return(r, result),
             NEW v \in Promise!Oldest(r)..pushed[imageOf[r]],
             result \in configs[imageOf[r]][v]
      PROVE  Promise!Next
  <2>1. Promise!Answer(r)
    BY <1>2, <1>4 DEF Return, Promise!Answer, cluster
  <2> QED BY <2>1 DEF Promise!Next
<1>5. ASSUME NEW r \in Requests, Hit(r) PROVE Promise!Next
  <2>1. Working(r) /\ r \in mayBeStale
    BY <1>2, <1>5 DEF Hit, Working
  <2>2. HadSince(imageOf[r], born[replicaOf[r]][imageOf[r]], Cached(r))
    BY <1>5 DEF Hit, Cached, CacheInv
  <2> QED BY <1>4, <1>5, <2>1, <2>2 DEF Hit, HadSince, Promise!Oldest
<1>6. ASSUME NEW r \in Requests, Miss(r) \/ GetDescriptor(r)
      PROVE  UNCHANGED Promise!vars
  BY <1>6 DEF Miss, GetDescriptor, cluster
<1>7. ASSUME NEW r \in Requests, Denied(r) \/ NoManifest(r) \/ CallFails(r)
      PROVE  Promise!Next
  BY <1>3, <1>7 DEF Denied, NoManifest, CallFails, Working
<1>8. ASSUME NEW r \in Requests, ConfigFile(r) PROVE Promise!Next
  <2>1. /\ Working(r)
        /\ Head(manifest(r)) \in configs[imageOf[r]][descriptor[r]]
        /\ descriptor[r] \in asked[r]..pushed[imageOf[r]]
    BY <1>8, DescriptorFacts DEF ConfigFile, Working
  <2>2. /\ asked[r] \in Nat /\ pushed[imageOf[r]] \in Nat
        /\ born[replicaOf[r]][imageOf[r]] \in Nat
        /\ asked[r] >= born[replicaOf[r]][imageOf[r]]
    BY <2>1 DEF TypeOK, RequestInv
  <2>3. descriptor[r] \in Promise!Oldest(r)..pushed[imageOf[r]]
    BY <2>1, <2>2 DEF Promise!Oldest
  <2> QED BY <1>4, <1>8, <2>1, <2>3 DEF ConfigFile
<1>9. ASSUME NEW i \in Images, Push(i) PROVE Promise!Next
  BY <1>9 DEF Push, Promise!Next, Promise!Push
<1>10. ASSUME NEW i \in Images, Prune(i) PROVE UNCHANGED Promise!vars
  BY <1>10 DEF Prune
<1>11. ASSUME NEW p \in Replicas, Restart(p) PROVE Promise!Next
  <2>1. \A r \in Requests : Working(r) <=> asked[r] # 0 /\ answer[r] = "none"
    BY DEF TypeOK, RequestInv, Working
  <2>2. DOMAIN answer = Requests
    BY DEF TypeOK
  <2>3. answer' = [r \in Requests |->
                    IF replicaOf[r] = p /\ asked[r] # 0 /\ answer[r] = "none"
                    THEN "error" ELSE answer[r]]
    BY <1>11, <2>1 DEF Restart
  <2>4. Promise!Restart(p)
    BY <1>11, <2>3 DEF Restart, Promise!Restart
  <2> QED BY <2>4 DEF Promise!Next
<1>12. CASE UNCHANGED vars
  BY <1>12 DEF vars, cluster
<1> QED
  BY <1>1, <1>5, <1>6, <1>7, <1>8, <1>9, <1>10, <1>11, <1>12
     DEF Next, GetImageConfig

(* No answer is older than the replica, or than the call where the image   *)
(* may not be cached, for any number of calls, replicas and versions.      *)
THEOREM Refinement == Spec => AnswersAreFreshEnough
<1>1. Init => Promise!Init
  BY DEF Init, Promise!Init
<1> QED
  BY <1>1, StepRefines, Invariance, PTL DEF Spec, Promise!Spec, AnswersAreFreshEnough

-----------------------------------------------------------------------------
(* A settled cache *)

(* Once an image is in the cache and nobody fetches it any more, its entry *)
(* stays what it is until the replica restarts.                            *)
THEOREM SettledCachesStay == Spec => SettledStaysSettled
<1> DEFINE Stays(p, i) ==
        Settled(p, i) => \/ Settled(p, i)' /\ imageCache'[p][i] = imageCache[p][i]
                         \/ Restart(p)
<1>1. IInv /\ [Next]_vars => [\A p \in Replicas, i \in Images : Stays(p, i)]_vars
  <2> SUFFICES ASSUME IInv, Next, NEW p \in Replicas, NEW i \in Images, Settled(p, i)
               PROVE  \/ Settled(p, i)' /\ imageCache'[p][i] = imageCache[p][i]
                      \/ Restart(p)
    OBVIOUS
  <2> USE CallFacts DEF IInv
  <2>1. ASSUME imageCache'[p][i] = imageCache[p][i],
               \A r \in Requests : Fetches(r)' => Fetches(r)
        PROVE  Settled(p, i)'
    BY <2>1 DEF Settled
  <2>2. ASSUME NEW r \in Requests, Ask(r) PROVE Settled(p, i)' /\ UNCHANGED imageCache
    BY <2>1, <2>2 DEF Ask, Goto, Fetches, TypeOK, IsAllowedToCache
  <2>3. ASSUME NEW r \in Requests, NEW result, Return(r, result)
        PROVE  \A s \in Requests : Fetches(s)' => Fetches(s)
    BY <2>3 DEF Return, Goto, Fetches, TypeOK, IsAllowedToCache
  <2>4. ASSUME NEW r \in Requests,
               Hit(r) \/ Denied(r) \/ NoManifest(r) \/ CallFails(r)
        PROVE  Settled(p, i)' /\ UNCHANGED imageCache
    BY <2>1, <2>3, <2>4 DEF Hit, Denied, NoManifest, CallFails
  <2>5. ASSUME NEW r \in Requests, Miss(r)
        PROVE  Settled(p, i)' /\ UNCHANGED imageCache
    <3>1. /\ UNCHANGED imageCache
          /\ \A s \in Requests : s # r => (Fetches(s)' <=> Fetches(s))
      BY <2>5 DEF Miss, Goto, Fetches, TypeOK, IsAllowedToCache
    <3>2. ~IsAllowedToCache(r)' \/ replicaOf[r] # p \/ imageOf[r] # i
      BY <2>5 DEF Miss, Settled, Cached, IsAllowedToCache
    <3> QED BY <3>1, <3>2 DEF Settled, Fetches
  <2>6. ASSUME NEW r \in Requests, GetDescriptor(r)
        PROVE  Settled(p, i)' /\ UNCHANGED imageCache
    BY <2>1, <2>6 DEF GetDescriptor, Goto, Fetches, TypeOK, IsAllowedToCache
  <2>7. ASSUME NEW r \in Requests, ConfigFile(r)
        PROVE  Settled(p, i)' /\ imageCache'[p][i] = imageCache[p][i]
    <3>1. imageCache'[p][i] = imageCache[p][i]
      BY <2>7 DEF ConfigFile, Settled, Fetches, TypeOK
    <3> QED BY <2>1, <2>3, <2>7, <3>1 DEF ConfigFile
  <2>8. ASSUME NEW j \in Images, Push(j) \/ Prune(j)
        PROVE  Settled(p, i)' /\ UNCHANGED imageCache
    BY <2>1, <2>8 DEF Push, Prune, Fetches, IsAllowedToCache
  <2>9. ASSUME NEW q \in Replicas, Restart(q), q # p
        PROVE  Settled(p, i)' /\ imageCache'[p][i] = imageCache[p][i]
    <3>1. imageCache'[p][i] = imageCache[p][i]
      BY <2>9 DEF Restart, TypeOK
    <3>2. \A s \in Requests : Fetches(s)' => Fetches(s)
      BY <2>9 DEF Restart, Fetches, IsAllowedToCache
    <3> QED BY <2>1, <3>1, <3>2
  <2> QED
    BY <2>2, <2>4, <2>5, <2>6, <2>7, <2>8, <2>9 DEF Next, GetImageConfig
<1> QED BY <1>1, Invariance, PTL DEF Spec, SettledStaysSettled
=============================================================================
