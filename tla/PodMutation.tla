----------------------------- MODULE PodMutation -----------------------------
(***************************************************************************)
(* One admission of a pod by the webhook, step by step:                    *)
(* MutatingWebhook.MutatePod and mutateContainers of pkg/webhook/pod.go,   *)
(* with every call they make to the API server or to a registry as a step  *)
(* that may succeed, find nothing, or fail, and with the cluster changing  *)
(* between two steps.  After an answer the API server may invoke the       *)
(* webhook again on the patched pod (reinvocationPolicy: IfNeeded), to     *)
(* which another webhook may have added a container.                       *)
(*                                                                         *)
(* An error or a panic leaves no patch: the API server then follows the    *)
(* failurePolicy with the pod as submitted.  "pod" is the object in the    *)
(* webhook's memory and counts as admitted only when verdict = "allowed".  *)
(***************************************************************************)
EXTENDS PodInjection

CONSTANTS
    Configs,        \* the configurations a pod's annotations may give
    Pods,           \* the pods that may be submitted
    Sidecars,       \* sequences of containers another webhook may add
    DryRuns,        \* the values of the request's dryRun flag
    Sources,        \* names of ConfigMaps and Secrets read for the environment
    Contents,       \* what a source may hold
    Clusters,       \* initial contents of all the sources
    ImageConfig,    \* what the registry says of an image
    MaxFaults,      \* bound: API server and registry calls that fail
    MaxChanges,     \* bound: changes others make to the cluster
    MaxRounds       \* bound: invocations for one pod

ContentType == [exists : BOOLEAN, refs : SUBSET Text]

ASSUME ConfigsAssumption  == Configs \subseteq Config
ASSUME PodsAssumption     == Pods \subseteq Pod
ASSUME OthersAssumption ==    \* the generated ConfigMap is the webhook's own
    \A p \in Pods : ~isPodAlreadyMutated(p) => ~\E v \in Range(p.vols) : v.from = "generated"
ASSUME SidecarsAssumption == Sidecars \subseteq Seq(Container)
ASSUME DryRunsAssumption  == DryRuns \subseteq BOOLEAN
ASSUME SourcesAssumption  == NoSource \notin Sources
ASSUME ContentsAssumption == Contents \subseteq ContentType
ASSUME ClustersAssumption == Clusters \subseteq [Sources -> Contents]
ASSUME ImageConfigAssumption ==
    ImageConfig \in [Images -> [entrypoint : Seq(Text), cmd : Seq(Text)]]
ASSUME BoundsAssumption ==
    MaxFaults \in Nat /\ MaxChanges \in Nat /\ MaxRounds \in Nat \ {0}

VARIABLES
    cfg,        \* vaultConfig
    dryRun,     \* the dryRun argument of MutatePod
    submitted,  \* the pod this invocation received
    pod,        \* the pod object being mutated in place
    sources,    \* cluster: the ConfigMaps and Secrets containers read
    generated,  \* cluster: does the generated agent ConfigMap exist
    pc,         \* where MutatePod is
    list,       \* mutateContainers works on the "init" or the "main" list
    cursor,     \* index of the container it is at
    entry,      \* index of the entry it is at in that container
    found,      \* envVars is not empty
    mutated,    \* initContainersMutated || containersMutated
    wrote,      \* this invocation wrote the generated agent ConfigMap
    verdict,    \* how this invocation ended
    unseen,     \* sources changed or skipped on an error since it began
    faults, changes, round    \* counters for the bounds

scanVars    == <<list, cursor, entry, found>>
clusterVars == <<sources, generated>>
requestVars == <<cfg, dryRun, submitted, round>>
vars == <<scanVars, clusterVars, requestVars,
          pod, pc, mutated, wrote, verdict, unseen, faults, changes>>

TypeOK ==
    /\ cfg \in Config
    /\ dryRun \in BOOLEAN
    /\ submitted \in Pod
    /\ pod \in Pod
    /\ sources \in [Sources -> ContentType]
    /\ generated \in BOOLEAN
    /\ pc \in {"received", "containers", "entries", "wrap", "template",
               "configmap", "update", "inject", "agent", "answered"}
    /\ list \in {"init", "main"}
    /\ cursor \in Nat \ {0}
    /\ entry \in Nat \ {0}
    /\ found \in BOOLEAN
    /\ mutated \in BOOLEAN
    /\ wrote \in BOOLEAN
    /\ verdict \in {"pending", "allowed", "failed", "panicked"}
    /\ unseen \subseteq Sources
    /\ faults \in 0..MaxFaults
    /\ changes \in 0..MaxChanges
    /\ round \in 1..MaxRounds

Init ==
    /\ cfg \in Configs
    /\ dryRun \in DryRuns
    /\ submitted \in Pods
    /\ pod = submitted
    /\ sources \in Clusters
    /\ generated \in BOOLEAN
    /\ pc = "received"
    /\ list = "init" /\ cursor = 1 /\ entry = 1 /\ found = FALSE
    /\ mutated = FALSE
    /\ wrote = FALSE
    /\ verdict = "pending"
    /\ unseen = {}
    /\ faults = 0 /\ changes = 0 /\ round = 1

-----------------------------------------------------------------------------
(* Helpers *)

Here      == Containers(pod, list)
Container0 == Here[cursor]            \* the container mutateContainers is at
Entry0    == Entries(Container0)[entry]

(* The source of an entry exists and holds a reference under its key.      *)
HoldsRef(e) ==
    /\ e.from \in Sources
    /\ sources[e.from].exists
    /\ \/ e.key = AllKeys /\ sources[e.from].refs # {}
       \/ e.key \in sources[e.from].refs

Fault == faults < MaxFaults /\ faults' = faults + 1

Answer(v) == pc' = "answered" /\ verdict' = v

Fail == Answer("failed") /\ UNCHANGED <<pod, mutated, scanVars>>

Panic == Answer("panicked") /\ UNCHANGED <<pod, mutated, scanVars>>

(* Mutant of Injects: the pod is marked only when a container was wrapped. *)
InjectsWhenWrapped == mutated

(* The volume-adding block of MutatePod runs.                              *)
Injects == mutated \/ cfg.CtConfigMap \/ cfg.AgentConfigMap

(* It refers to a ConfigMap the webhook generates for the agent.           *)
NeedsGenerated == (cfg.UseAgent \/ cfg.CtConfigMap) /\ ~cfg.AgentConfigMap

(* The possible outcomes of the shareProcessNamespace decision: without an *)
(* annotation it is a comparison of the API server's version.              *)
ShareOutcomes(annotation) ==
    CASE annotation = "empty" -> BOOLEAN
      [] annotation = "true"  -> {TRUE}
      [] annotation = "false" -> {FALSE}

-----------------------------------------------------------------------------
(* MutatePod: the beginning *)

AlreadyMutated ==
    /\ pc = "received"
    /\ isPodAlreadyMutated(pod)
    /\ Answer("allowed")
    /\ UNCHANGED <<scanVars, clusterVars, requestVars, pod, mutated, wrote,
                   unseen, faults, changes>>

StartMutation ==
    /\ pc = "received"
    /\ ~isPodAlreadyMutated(pod)
    /\ pc' = "containers"
    /\ UNCHANGED <<scanVars, clusterVars, requestVars, pod, mutated, wrote,
                   verdict, unseen, faults, changes>>

-----------------------------------------------------------------------------
(* mutateContainers *)

(* Mutant of NextContainer: envVars is declared outside the loop.          *)
NextContainerKeeping ==
    /\ cursor' = cursor + 1
    /\ entry' = 1
    /\ UNCHANGED <<found, list>>

NextContainer ==
    /\ cursor' = cursor + 1
    /\ entry' = 1
    /\ found' = FALSE
    /\ UNCHANGED list

EnterContainer ==
    /\ pc = "containers"
    /\ cursor <= Len(Here)
    /\ pc' = "entries"
    /\ UNCHANGED <<scanVars, clusterVars, requestVars, pod, mutated, wrote,
                   verdict, unseen, faults, changes>>

(* Mutant of NextList: indices counted from zero.                          *)
NextListFromZero ==
    /\ pc = "containers"
    /\ cursor > Len(Here)
    /\ list = "init"
    /\ list' = "main" /\ cursor' = 0
    /\ UNCHANGED <<entry, found, clusterVars, requestVars, pod, pc, mutated,
                   wrote, verdict, unseen, faults, changes>>

(* The init containers are done; on to the containers.                     *)
NextList ==
    /\ pc = "containers"
    /\ cursor > Len(Here)
    /\ list = "init"
    /\ list' = "main" /\ cursor' = 1
    /\ UNCHANGED <<entry, found, clusterVars, requestVars, pod, pc, mutated,
                   wrote, verdict, unseen, faults, changes>>

EndScan ==
    /\ pc = "containers"
    /\ cursor > Len(Here)
    /\ list = "main"
    /\ pc' = "template"
    /\ UNCHANGED <<scanVars, clusterVars, requestVars, pod, mutated, wrote,
                   verdict, unseen, faults, changes>>

(* Mutant of ReadEntry: the last entry decides, not any of them.           *)
ReadLastEntry ==
    /\ pc = "entries"
    /\ entry <= Len(Entries(Container0))
    /\ found' = (Entry0.ref \/ HoldsRef(Entry0))
    /\ entry' = entry + 1
    /\ UNCHANGED <<list, cursor, clusterVars, requestVars, pod, pc, mutated,
                   wrote, verdict, unseen, faults, changes>>

(* One entry is read: a literal, a source that exists, or NotFound, which  *)
(* counts as no reference.                                                 *)
ReadEntry ==
    /\ pc = "entries"
    /\ entry <= Len(Entries(Container0))
    /\ found' = (found \/ Entry0.ref \/ HoldsRef(Entry0))
    /\ entry' = entry + 1
    /\ UNCHANGED <<list, cursor, clusterVars, requestVars, pod, pc, mutated,
                   wrote, verdict, unseen, faults, changes>>

(* The API server fails to return a source.  An optional envFrom source is *)
(* passed over, anything else fails the request.                           *)
SkipOptional ==
    /\ pc = "entries"
    /\ entry <= Len(Entries(Container0))
    /\ Entry0.from \in Sources
    /\ Entry0.optional
    /\ Fault
    /\ unseen' = unseen \cup {Entry0.from}
    /\ entry' = entry + 1
    /\ UNCHANGED <<list, cursor, found, clusterVars, requestVars, pod, pc,
                   mutated, wrote, verdict, changes>>

LookupFails ==
    /\ pc = "entries"
    /\ entry <= Len(Entries(Container0))
    /\ Entry0.from \in Sources
    /\ ~Entry0.optional
    /\ Fault
    /\ Fail
    /\ UNCHANGED <<clusterVars, requestVars, wrote, unseen, changes>>

(* Mutant of LeaveContainer: the loop variable does not advance.           *)
LeaveAtContainer ==
    /\ pc = "entries"
    /\ entry > Len(Entries(Container0))
    /\ ~found /\ ~cfg.VaultEnvFromPath
    /\ pc' = "containers"
    /\ entry' = 1 /\ found' = FALSE
    /\ UNCHANGED <<list, cursor, clusterVars, requestVars, pod, mutated, wrote,
                   verdict, unseen, faults, changes>>

LeaveContainer ==
    /\ pc = "entries"
    /\ entry > Len(Entries(Container0))
    /\ ~found /\ ~cfg.VaultEnvFromPath
    /\ pc' = "containers"
    /\ NextContainer
    /\ UNCHANGED <<clusterVars, requestVars, pod, mutated, wrote, verdict,
                   unseen, faults, changes>>

DecideToWrap ==
    /\ pc = "entries"
    /\ entry > Len(Entries(Container0))
    /\ found \/ cfg.VaultEnvFromPath
    /\ pc' = "wrap"
    /\ mutated' = TRUE
    /\ UNCHANGED <<scanVars, clusterVars, requestVars, pod, wrote, verdict,
                   unseen, faults, changes>>

Wrapped0 ==
    wrap(Container0, originalArgs(Container0, ImageConfig[Container0.image]),
         cfg, pod.vols)

WrapContainer ==
    /\ pc = "wrap"
    /\ pod' = IF list = "init"
              THEN [pod EXCEPT !.init[cursor] = Wrapped0]
              ELSE [pod EXCEPT !.main[cursor] = Wrapped0]
    /\ pc' = "containers"
    /\ NextContainer
    /\ UNCHANGED <<clusterVars, requestVars, mutated, wrote, verdict, unseen,
                   faults, changes>>

(* The registry is asked only for a container without a command.           *)
RegistryFails ==
    /\ pc = "wrap"
    /\ Container0.command = <<>>
    /\ Fault
    /\ Fail
    /\ UNCHANGED <<clusterVars, requestVars, wrote, unseen, changes>>

-----------------------------------------------------------------------------
(* MutatePod: consul-template *)

SkipTemplate ==
    /\ pc = "template"
    /\ ~cfg.CtConfigMap
    /\ pc' = "configmap"
    /\ UNCHANGED <<scanVars, clusterVars, requestVars, pod, mutated, wrote,
                   verdict, unseen, faults, changes>>

WithTemplate(share) ==
    LET main == addSecretsVolToContainers(pod.main)
        init == IF cfg.CtOnce /\ cfg.CtInjectInInitcontainers
                THEN addSecretsVolToContainers(pod.init)
                ELSE pod.init
        ct   == <<consulTemplate(cfg, pod.vols, share)>>
    IN  [pod EXCEPT
            !.share = @ \/ share,
            !.init  = IF cfg.CtOnce THEN ct \o init ELSE init,
            !.main  = IF cfg.CtOnce THEN main ELSE ct \o main]

RunTemplate ==
    /\ pc = "template"
    /\ cfg.CtConfigMap
    /\ \E share \in ShareOutcomes(cfg.CtShareProcess) : pod' = WithTemplate(share)
    /\ pc' = "configmap"
    /\ UNCHANGED <<scanVars, clusterVars, requestVars, mutated, wrote,
                   verdict, unseen, faults, changes>>

(* Mutant of VersionUnavailable: the version is asked for in every pod     *)
(* with an agent.                                                          *)
VersionAlwaysAsked ==
    /\ \/ pc = "template" /\ cfg.CtConfigMap /\ cfg.CtShareProcess = "empty"
       \/ pc = "agent" /\ cfg.UseAgent /\ cfg.AgentShareProcess = "empty"
    /\ Fault
    /\ Panic
    /\ UNCHANGED <<clusterVars, requestVars, wrote, unseen, changes>>

(* ServerVersion's error is dropped and its nil result dereferenced.       *)
VersionUnavailable ==
    /\ \/ pc = "template" /\ cfg.CtConfigMap /\ cfg.CtShareProcess = "empty"
       \/ /\ pc = "agent" /\ cfg.AgentConfigMap /\ ~cfg.UseAgent
          /\ cfg.AgentShareProcess = "empty"
    /\ Fault
    /\ Panic
    /\ UNCHANGED <<clusterVars, requestVars, wrote, unseen, changes>>

-----------------------------------------------------------------------------
(* MutatePod: the generated ConfigMap of the agent *)

NothingToInject ==
    /\ pc = "configmap"
    /\ ~Injects
    /\ pc' = "agent"
    /\ UNCHANGED <<scanVars, clusterVars, requestVars, pod, mutated, wrote,
                   verdict, unseen, faults, changes>>

(* Mutant of NoConfigMapToWrite: a ConfigMap that is there is left alone.  *)
ConfigMapIsThere ==
    /\ pc = "configmap"
    /\ Injects
    /\ ~NeedsGenerated \/ dryRun \/ generated
    /\ pc' = "inject"
    /\ UNCHANGED <<scanVars, clusterVars, requestVars, pod, mutated, wrote,
                   verdict, unseen, faults, changes>>

NoConfigMapToWrite ==
    /\ pc = "configmap"
    /\ Injects
    /\ ~NeedsGenerated \/ dryRun
    /\ pc' = "inject"
    /\ UNCHANGED <<scanVars, clusterVars, requestVars, pod, mutated, wrote,
                   verdict, unseen, faults, changes>>

Creates == pc = "configmap" /\ Injects /\ NeedsGenerated /\ ~dryRun

CreateConfigMap ==
    /\ Creates
    /\ IF generated
       THEN pc' = "update" /\ UNCHANGED <<generated, wrote>>   \* AlreadyExists
       ELSE pc' = "inject" /\ generated' = TRUE /\ wrote' = TRUE
    /\ UNCHANGED <<scanVars, sources, requestVars, pod, mutated, verdict,
                   unseen, faults, changes>>

(* Create has failed, or it took effect and the webhook sees an error.     *)
CreateFails ==
    /\ Creates
    /\ Fault
    /\ Fail
    /\ \/ UNCHANGED <<generated, wrote>>
       \/ ~generated /\ generated' = TRUE /\ wrote' = TRUE
    /\ UNCHANGED <<sources, requestVars, unseen, changes>>

UpdateConfigMap ==
    /\ pc = "update"
    /\ generated
    /\ pc' = "inject"
    /\ wrote' = TRUE
    /\ UNCHANGED <<scanVars, clusterVars, requestVars, pod, mutated, verdict,
                   unseen, faults, changes>>

(* NotFound when it was deleted since Create found it, or another error,   *)
(* after the map was written or without an effect.                         *)
UpdateFails ==
    /\ pc = "update"
    /\ \/ ~generated /\ UNCHANGED <<faults, wrote>>
       \/ generated /\ Fault /\ wrote' \in BOOLEAN
    /\ Fail
    /\ UNCHANGED <<clusterVars, requestVars, unseen, changes>>

-----------------------------------------------------------------------------
(* MutatePod: init containers, volumes, the agent's container *)

(* Mutant of Inject: the init containers are added behind the pod's own.   *)
InjectBehind ==
    /\ pc = "inject"
    /\ ~tokenAuthMountMalformed(cfg)
    /\ pod' = [pod EXCEPT
                 !.init = @ \o getInitContainers(cfg, pod.vols, pod.main, mutated),
                 !.vols = @ \o getVolumes(cfg, @)]
    /\ pc' = "agent"
    /\ UNCHANGED <<scanVars, clusterVars, requestVars, mutated, wrote,
                   verdict, unseen, faults, changes>>

Inject ==
    /\ pc = "inject"
    /\ ~tokenAuthMountMalformed(cfg)
    /\ pod' = [pod EXCEPT
                 !.init = getInitContainers(cfg, pod.vols, pod.main, mutated) \o @,
                 !.vols = @ \o getVolumes(cfg, @)]
    /\ pc' = "agent"
    /\ UNCHANGED <<scanVars, clusterVars, requestVars, mutated, wrote,
                   verdict, unseen, faults, changes>>

InjectPanics ==
    /\ pc = "inject"
    /\ tokenAuthMountMalformed(cfg)
    /\ Panic
    /\ UNCHANGED <<clusterVars, requestVars, wrote, unseen, faults, changes>>

(* Mutant of WithAgent: the variables follow the volumes of the pod as it  *)
(* is now.                                                                 *)
WithLateAgent(share) ==
    LET main == addAgentSecretsVolToContainers(pod.main)
    IN  [pod EXCEPT
            !.share = @ \/ share,
            !.main  = <<agentSidecar(cfg, pod.vols, main, share)>> \o main]

(* containerEnvVars and containerVolMounts were computed before volumes    *)
(* were added: they follow the volumes of the pod as submitted.            *)
WithAgent(share) ==
    LET main == addAgentSecretsVolToContainers(pod.main)
    IN  [pod EXCEPT
            !.share = @ \/ share,
            !.main  = <<agentSidecar(cfg, submitted.vols, main, share)>> \o main]

Finish ==
    /\ pc = "agent"
    /\ \/ /\ ~cfg.AgentConfigMap
          /\ UNCHANGED pod
       \/ /\ cfg.AgentConfigMap /\ cfg.UseAgent
          /\ pod' = [pod EXCEPT !.main = addAgentSecretsVolToContainers(@)]
       \/ /\ cfg.AgentConfigMap /\ ~cfg.UseAgent
          /\ \E share \in ShareOutcomes(cfg.AgentShareProcess) : pod' = WithAgent(share)
    /\ Answer("allowed")
    /\ UNCHANGED <<scanVars, clusterVars, requestVars, mutated, wrote,
                   unseen, faults, changes>>

-----------------------------------------------------------------------------
(* The API server and the rest of the cluster *)

Reinvoke ==
    /\ pc = "answered" /\ verdict = "allowed"
    /\ round < MaxRounds
    /\ \E extra \in Sidecars :
        /\ pod' = [pod EXCEPT !.main = @ \o extra]
        /\ submitted' = pod'
    /\ round' = round + 1
    /\ pc' = "received" /\ verdict' = "pending"
    /\ list' = "init" /\ cursor' = 1 /\ entry' = 1 /\ found' = FALSE
    /\ mutated' = FALSE /\ wrote' = FALSE
    /\ unseen' = {}
    /\ UNCHANGED <<cfg, dryRun, clusterVars, faults, changes>>

Change == changes < MaxChanges /\ changes' = changes + 1

ChangeSource ==
    /\ pc # "answered"
    /\ Change
    /\ \E s \in Sources, content \in Contents :
        /\ content # sources[s]
        /\ sources' = [sources EXCEPT ![s] = content]
        /\ unseen' = unseen \cup {s}
    /\ UNCHANGED <<generated, scanVars, requestVars, pod, pc, mutated, wrote,
                   verdict, faults>>

(* Another admission creates the generated ConfigMap, or it is deleted.    *)
ChangeGenerated ==
    /\ pc # "answered"
    /\ Change
    /\ generated' = ~generated
    /\ UNCHANGED <<sources, scanVars, requestVars, pod, pc, mutated, wrote,
                   verdict, unseen, faults>>

-----------------------------------------------------------------------------
MutatePod ==
    \/ AlreadyMutated \/ StartMutation
    \/ EnterContainer \/ NextList \/ EndScan
    \/ ReadEntry \/ SkipOptional \/ LookupFails
    \/ LeaveContainer \/ DecideToWrap \/ WrapContainer \/ RegistryFails
    \/ SkipTemplate \/ RunTemplate \/ VersionUnavailable
    \/ NothingToInject \/ NoConfigMapToWrite
    \/ CreateConfigMap \/ CreateFails \/ UpdateConfigMap \/ UpdateFails
    \/ Inject \/ InjectPanics \/ Finish

Environment == Reinvoke \/ ChangeSource \/ ChangeGenerated

Next == MutatePod \/ Environment

(* The handler's goroutine runs to its end: every call it makes returns.   *)
Spec == Init /\ [][Next]_vars /\ WF_vars(MutatePod)

-----------------------------------------------------------------------------
(* Properties *)

Allowed == pc = "answered" /\ verdict = "allowed"

IsWrapped(c) == c.command = <<VaultEnv>>

(* An entry whose reference the webhook had no excuse not to see.          *)
Demands(e) == e.ref \/ (e.from \notin unseen /\ HoldsRef(e))

Needy == {c \in AllContainers(submitted) : \E e \in Range(Entries(c)) : Demands(e)}

WrappedIn(c, containers) ==
    \E w \in Range(containers) : w.name = c.name /\ IsWrapped(w)

Covered(needy, before, after) ==
    \A c \in Range(before) : c \in needy => WrappedIn(c, after)

(* Every container that holds a reference, in its own environment or in a  *)
(* source that stayed as it was and could be read, is started through      *)
(* vault-env in the pod the webhook allows: none reaches its application   *)
(* as a literal "vault:..." string.                                        *)
NoMissedReference ==
    Allowed /\ ~isPodAlreadyMutated(submitted) =>
        /\ Covered(Needy, submitted.init, pod.init)
        /\ Covered(Needy, submitted.main, pod.main)

(* What was submitted under the name of a container of the pod.            *)
Originals(c) == {o \in AllContainers(submitted) : o.name = c.name}

(* An entry in which the webhook may have seen a reference.                *)
MightDemand(e) == e.ref \/ e.from \in unseen \/ HoldsRef(e)

MaybeNeedy ==
    {c \in AllContainers(submitted) :
        cfg.VaultEnvFromPath \/ \E e \in Range(Entries(c)) : MightDemand(e)}

(* No container is started through vault-env, which needs a login at Vault *)
(* to start anything, for a reference of another container: envVars, which *)
(* collects over three lookups, is each container's own.                   *)
NoNeedlessWrapping ==
    Allowed =>
        \A w \in AllContainers(pod) :
            IsWrapped(w) => \E o \in Originals(w) : IsWrapped(o) \/ o \in MaybeNeedy

(* A pod the webhook changed carries the marker by which the next          *)
(* invocation recognises it: the condition that adds the volume covers     *)
(* every way of changing the pod.                                          *)
MutationIsMarked ==
    Allowed /\ pod # submitted => isPodAlreadyMutated(pod)

(* The API server accepts a pod only if its containers' names are unique.  *)
OnlyOne(name) ==
    LET order == pod.init \o pod.main
    IN  \A i, j \in DOMAIN order : order[i].name = name /\ order[j].name = name => i = j

(* new starts what the kubelet would have started for old, or vault-env    *)
(* followed by it.                                                         *)
SameEntrypoint(old, new) ==
    LET before == KubeletArgv(old, ImageConfig[old.image])
    IN  KubeletArgv(new, ImageConfig[new.image]) \in {before, <<VaultEnv>> \o before}

(* vault-env still runs what the kubelet would have run: each container of *)
(* the allowed pod has the effective command line of the one submitted     *)
(* under its name, or vault-env followed by it.                            *)
EntrypointPreserved ==
    Allowed =>
        \A old \in AllContainers(submitted), new \in AllContainers(pod) :
            old.name = new.name /\ OnlyOne(new.name) => SameEntrypoint(old, new)

(* What a container runs first is in place when it starts: before each     *)
(* container that the webhook made run vault-env, probes included, an init *)
(* container copied it into a volume both mount at /vault/.                *)
RunsVaultEnv(c) ==
    \/ IsWrapped(c)
    \/ \E k \in ProbeKinds : c.probes[k] # <<>> /\ c.probes[k][1] = VaultEnv

MadeToRunVaultEnv(c) == RunsVaultEnv(c) /\ ~\E o \in Originals(c) : RunsVaultEnv(o)

MountsVaultDir(c) == MountAt(VaultEnvVolumeName, VaultDir) \in Range(c.mounts)

Writes(c, names) == c.name \in names /\ MountsVaultDir(c)

DependenciesFirst ==
    Allowed =>
        LET order == pod.init \o pod.main
        IN  \A i \in DOMAIN order :
                MadeToRunVaultEnv(order[i]) =>
                    /\ MountsVaultDir(order[i])
                    /\ \E j \in DOMAIN pod.init :
                            j < i /\ Writes(order[j], {"copy-vault-env"})

(* A container that the webhook told to read its token from a file is      *)
(* preceded by the init container that writes the file, unless the         *)
(* operator also set VAULT_TOKEN (getInitContainers then starts no agent). *)
ReadsTokenFile(c) == \E e \in Range(c.env) : e.name = "VAULT_TOKEN_FILE"

ToldToReadToken(c) == ReadsTokenFile(c) /\ ~\E o \in Originals(c) : ReadsTokenFile(o)

TokenFileHasWriter ==
    Allowed /\ ~cfg.Token =>
        LET order == pod.init \o pod.main
        IN  \A i \in DOMAIN order :
                ToldToReadToken(order[i]) =>
                    \E j \in DOMAIN pod.init :
                        j < i /\ Writes(order[j], {"vault-agent", "copy-vault-token"})

(* The configurations for which the allowed pod is one the API server then *)
(* refuses: an agent without a place for its secrets, two agents, an agent *)
(* without a service account to mount, a token volume the pod lacks.       *)
SubmittedVolumes == {v.name : v \in Range(submitted.vols)}

Conflicting ==
    \/ /\ startsInitAgent(cfg) /\ cfg.TokenAuthMount = ""
       /\ ~cfg.CtConfigMap /\ ~cfg.AgentConfigMap
    \/ cfg.CtConfigMap /\ cfg.AgentConfigMap
    \/ /\ ~\E c \in Range(submitted.main) : mountsServiceAccount(c)
       /\ \/ startsInitAgent(cfg) /\ cfg.TokenAuthMount = ""
          \/ cfg.AgentConfigMap /\ ~cfg.UseAgent
    \/ cfg.TokenAuthMount # "" /\ "token" \notin SubmittedVolumes

(* The pod keeps clear of the names and the paths that the webhook gives   *)
(* to what it adds; a volume "vault-tls" of its own, mounted at            *)
(* /vault/tls/, it may have.                                               *)
KeepsClear(p) ==
    /\ p.main # <<>>
    /\ \A c \in AllContainers(p) :
        /\ c.name \notin {"consul-template", "vault-agent",
                          "copy-vault-token", "copy-vault-env"}
        /\ \A m \in Range(c.mounts) :
            /\ m.path \notin {VaultDir, ConfigfilePath, "/vault-env/tls/"}
            /\ m.path = "/vault/tls/" => hasTLSVolume(p.vols)
    /\ \A v \in Range(p.vols) :
        v.name \notin {"", "vault-agent-config", "ct-secrets", "ct-configmap",
                       "agent-secrets", "agent-configmap", "vault-env-tls"}

FreshPod ==
    ~isPodAlreadyMutated(submitted) /\ WellFormed(submitted) /\ KeepsClear(submitted)

(* Outside those configurations a pod that was valid is still valid after  *)
(* the webhook: no dangling mount, no name or path twice.                  *)
AllowedPodIsValid ==
    Allowed /\ Injects /\ FreshPod => (WellFormed(pod) <=> ~Conflicting)

(* What the vault-agent annotation is documented to do: a Vault Agent is   *)
(* started, in a pod the API server still accepts.  Checked for the        *)
(* annotation on its own, it does not hold (see Conflicting).              *)
VaultAgentIsStarted ==
    /\ Allowed /\ cfg.UseAgent /\ Injects
    /\ ~isPodAlreadyMutated(submitted) /\ WellFormed(submitted)
    => /\ WellFormed(pod)
       /\ \E c \in AllContainers(pod) : c.name = "vault-agent"

(* Wherever the webhook points VAULT_CACERT, that container mounts the TLS *)
(* secret's volume there: hasTLSVolume is evaluated at three places and    *)
(* they agree.                                                             *)
CacertIsMounted ==
    Allowed =>
        \A c \in AllContainers(pod) : \A e \in Range(c.env) :
            e.name = "VAULT_CACERT" =>
                \/ \E o \in Originals(c) : e \in Range(o.env)
                \/ \E m \in Range(c.mounts), v \in Range(pod.vols) :
                        m.path = e.value /\ v.name = m.vol /\ v.from = "TLSSecret"

(* A container is given SYS_PTRACE only in a pod whose process namespace   *)
(* is shared.                                                              *)
PtraceNeedsSharing ==
    Allowed =>
        \A c \in AllContainers(pod) :
            "SYS_PTRACE" \in c.caps =>
                pod.share \/ \E o \in Originals(c) : "SYS_PTRACE" \in o.caps

(* An allowed pod's generated ConfigMap was written by this very request,  *)
(* whichever of Create and Update got through; a dry run writes nothing.   *)
GeneratedIsWritten ==
    /\ Allowed /\ (\E v \in Range(pod.vols) : v.from = "generated")
       /\ ~isPodAlreadyMutated(submitted) => wrote = ~dryRun
    /\ wrote => ~dryRun

(* The write is the last call that can fail: when the API server has       *)
(* confirmed it the webhook no longer refuses the pod and so leaves no map *)
(* without one, but for a malformed token-auth-mount, which is only        *)
(* noticed afterwards.  (A write whose answer is lost refuses the pod and  *)
(* may leave the map: CreateFails, UpdateFails.)                           *)
WrittenMeansAllowed ==
    [][wrote /\ pc # "answered" /\ pc' = "answered" =>
            verdict' = "allowed" \/ tokenAuthMountMalformed(cfg)]_vars

(* Every invocation is answered.                                           *)
EveryRequestIsAnswered == pc = "received" ~> pc = "answered"

-----------------------------------------------------------------------------
(* The inductive invariant behind NoMissedReference and MutationIsMarked   *)

AtContainer == pc \in {"entries", "wrap"} => cursor <= Len(Here)

(* w is what the webhook made of container c.                              *)
Done(needy, c, w) == w.name = c.name /\ (c \in needy => IsWrapped(w))

(* Of the containers cs, now ws, those before n are done and the others    *)
(* are as submitted.                                                       *)
Scanned(needy, cs, ws, n) ==
    /\ Len(ws) = Len(cs)
    /\ \A i \in 1..Len(cs) :
        IF i < n THEN Done(needy, cs[i], ws[i]) ELSE ws[i] = cs[i]

ScanInv ==
    pc \in {"received", "containers", "entries", "wrap"} =>
        IF list = "init"
        THEN /\ Scanned(Needy, submitted.init, pod.init, cursor)
             /\ pod.main = submitted.main
        ELSE /\ Scanned(Needy, submitted.init, pod.init, Len(submitted.init) + 1)
             /\ Scanned(Needy, submitted.main, pod.main, cursor)

(* No entry read so far demanded vault-env, or found says so.              *)
ReadInv ==
    pc = "entries" =>
        \/ found
        \/ \A k \in 1..Len(Entries(Container0)) :
                k < entry => ~Demands(Entries(Container0)[k])

StartInv ==
    /\ pc = "received" => /\ pod = submitted /\ ~mutated
                          /\ list = "init" /\ cursor = 1
    /\ pc \in {"received", "containers"} => entry = 1 /\ ~found
    /\ pc = "wrap" => mutated

CoverInv ==
    \/ pc \in {"template", "configmap", "update", "inject", "agent"}
    \/ Allowed /\ ~isPodAlreadyMutated(submitted)
    => /\ Covered(Needy, submitted.init, pod.init)
       /\ Covered(Needy, submitted.main, pod.main)

(* A changed pod is marked, or is about to be.                             *)
MarkInv ==
    /\ pc \in {"containers", "entries", "wrap", "template"} /\ ~mutated =>
            pod = submitted
    /\ pc \in {"configmap", "update", "inject"} /\ ~Injects => pod = submitted
    /\ pc \in {"update", "inject"} => Injects
    /\ pc = "agent" \/ Allowed =>
            isPodAlreadyMutated(pod) \/ (pod = submitted /\ ~Injects)

IInv ==
    /\ TypeOK /\ AtContainer
    /\ StartInv /\ ScanInv /\ ReadInv /\ CoverInv /\ MarkInv
=============================================================================
