---------------------------- MODULE PodInjection ----------------------------
(***************************************************************************)
(* The pure part of pkg/webhook/pod.go: what the webhook adds to a pod,    *)
(* given the configuration parsed from the pod's annotations.  Nothing     *)
(* here reads the cluster or the registry; PodMutation.tla is the order in *)
(* which MutatePod uses these functions and everything that can fail.      *)
(*                                                                         *)
(* Data is kept to what the properties tell apart.  An environment value   *)
(* is "ref" when HasVaultPrefix or HasInlineVaultDelimiters accepts it and *)
(* any other string otherwise.  Optional annotation texts are Booleans     *)
(* ("is it set"), paths are strings that are only compared.                *)
(***************************************************************************)
EXTENDS Naturals, Sequences, Functions

CONSTANTS
    Text,          \* names, values, paths, words of a command line
    Images         \* image references

(* The images of the containers the webhook adds.                          *)
AgentImage == "vault"
EnvImage   == "vault-env"
CtImage    == "consul-template"

ASSUME ImagesAssumption == {AgentImage, EnvImage, CtImage} \subseteq Images

(* The texts the webhook itself writes into a pod.                         *)
ASSUME TextAssumption ==
    {"", "*", "none", "operator", "path", "token", "/token",
     "vault-env", "/vault/", "/vault/vault-env", "/vault/.vault-token",
     "/vault/secrets", "vault-tls", "/vault/tls/", "vault-env-tls",
     "/vault-env/tls/", "vault-agent-config", "/vault/agent/",
     "ct-secrets", "ct-configmap", "/vault/ct-config/config.hcl",
     "/home/consul-template", "agent-secrets", "agent-configmap",
     "/vault/config/config.hcl",
     "VAULT_ADDR", "VAULT_TOKEN", "VAULT_LOG_LEVEL", "VAULT_CACERT",
     "VAULT_TOKEN_FILE", "VAULT_ENV_FROM_PATH",
     "consul-template", "vault-agent", "copy-vault-token", "copy-vault-env",
     "sh", "-c", "cp token", "cp vault-env", "vault", "agent",
     "-exit-after-auth", "emptyDir", "AgentConfigMap", "CtConfigMap",
     "generated", "TLSSecret", "CHOWN", "SETFCAP", "SETGID", "SETPCAP",
     "SETUID", "IPC_LOCK", "SYS_PTRACE"} \subseteq Text

ProbeKinds == {"liveness", "readiness", "startup"}

NoSource == "none"     \* an environment variable without valueFrom
AllKeys  == "*"        \* envFrom imports every key of its source
Ref      == "ref"      \* a value holding a Vault reference

EnvVar    == [name : Text, value : Text, from : Text, key : Text]
EnvSource == [from : Text, optional : BOOLEAN]
Mount     == [vol : Text, path : Text]
Volume    == [name : Text, from : Text]

Container ==
    [name    : Text,
     image   : Images,
     command : Seq(Text),
     args    : Seq(Text),
     envFrom : Seq(EnvSource),
     env     : Seq(EnvVar),
     probes  : [ProbeKinds -> Seq(Text)],   \* <<>>: no exec probe
     mounts  : Seq(Mount),
     caps    : SUBSET Text]

Pod == [init  : Seq(Container),
        main  : Seq(Container),
        vols  : Seq(Volume),
        share : BOOLEAN]                      \* ShareProcessNamespace

ShareProcess == {"empty", "true", "false"}    \* "empty": no annotation
TokenMounts  == {"", "token:vault-token", "token"}

Config ==
    [UseAgent                 : BOOLEAN,
     AgentConfigMap           : BOOLEAN,
     AgentShareProcess        : ShareProcess,
     CtConfigMap              : BOOLEAN,
     CtOnce                   : BOOLEAN,
     CtInjectInInitcontainers : BOOLEAN,
     CtShareProcess           : ShareProcess,
     TLSSecret                : BOOLEAN,
     Token                    : BOOLEAN,
     TokenAuthMount           : TokenMounts,
     VaultEnvFromPath         : BOOLEAN,
     MutateProbes             : BOOLEAN,
     LogLevel                 : BOOLEAN]

-----------------------------------------------------------------------------
(* Names and paths the webhook uses *)

VaultEnvVolumeName == "vault-env"
VaultEnv           == "/vault/vault-env"
VaultDir           == "/vault/"
TokenFile          == "/vault/.vault-token"
ConfigfilePath     == "/vault/secrets"
ServiceAccountPath == "/var/run/secrets/kubernetes.io/serviceaccount"

Setting(name, value) ==
    [name |-> name, value |-> value, from |-> NoSource, key |-> ""]

SettingIf(set, name, value) ==
    IF set THEN <<Setting(name, value)>> ELSE <<>>

MountAt(vol, path) == [vol |-> vol, path |-> path]

NoMount == MountAt("", "")     \* the zero VolumeMount

Containers(pod, list) == IF list = "init" THEN pod.init ELSE pod.main

AddMount(containers, mount) ==
    [i \in DOMAIN containers |->
        [containers[i] EXCEPT !.mounts = Append(@, mount)]]

-----------------------------------------------------------------------------
(* What a container asks for *)

isPodAlreadyMutated(pod) ==
    \E v \in Range(pod.vols) : v.name = VaultEnvVolumeName

hasTLSVolume(vols) == \E v \in Range(vols) : v.name = "vault-tls"

(* mutateContainers looks at every envFrom source and then at every        *)
(* environment variable, in this order.                                    *)
Entry == [from : Text, key : Text, optional : BOOLEAN, ref : BOOLEAN]

EnvFromEntry(source) ==
    [from |-> source.from, key |-> AllKeys,
     optional |-> source.optional, ref |-> FALSE]

EnvEntry(var) ==
    [from |-> var.from, key |-> var.key,
     optional |-> FALSE, ref |-> var.value = Ref]

Entries(container) ==
    [i \in DOMAIN container.envFrom |-> EnvFromEntry(container.envFrom[i])]
        \o [i \in DOMAIN container.env |-> EnvEntry(container.env[i])]

(* Mutant of originalArgs: the image's CMD survives explicit arguments.     *)
argsWithCmd(container, imageConfig) ==
    IF container.command # <<>>
    THEN container.command \o container.args
    ELSE imageConfig.entrypoint \o imageConfig.cmd \o container.args

(* The command line vault-env is given to run. *)
originalArgs(container, imageConfig) ==
    IF container.command # <<>>
    THEN container.command \o container.args
    ELSE imageConfig.entrypoint
            \o (IF container.args = <<>> THEN imageConfig.cmd ELSE <<>>)
            \o container.args

-----------------------------------------------------------------------------
(* Wrapping one container with vault-env *)

(* Mutant of TLSMount: the pod's own vault-tls volume is not looked for.   *)
TLSMountUnchecked(vols) == MountAt("vault-tls", "/vault/tls/")

TLSMount(vols) ==
    IF hasTLSVolume(vols)
    THEN MountAt("vault-env-tls", "/vault-env/tls/")
    ELSE MountAt("vault-tls", "/vault/tls/")

mutateProbe(cfg, command) ==
    IF cfg.MutateProbes /\ command # <<>>
    THEN <<VaultEnv>> \o command
    ELSE command

isLogLevelSet(env) == \E e \in Range(env) : e.name = "VAULT_LOG_LEVEL"

(* The always-present connection settings are represented by VAULT_ADDR;   *)
(* the settings that are only copied when set by VAULT_ENV_FROM_PATH.      *)
wrapperEnv(cfg, env, vols) ==
    <<Setting("VAULT_ADDR", "operator")>>
        \o SettingIf(cfg.Token, "VAULT_TOKEN", "operator")
        \o SettingIf(cfg.LogLevel /\ ~isLogLevelSet(env),
                     "VAULT_LOG_LEVEL", "operator")
        \o SettingIf(cfg.TLSSecret, "VAULT_CACERT", TLSMount(vols).path)
        \o SettingIf(cfg.UseAgent \/ cfg.TokenAuthMount # "",
                     "VAULT_TOKEN_FILE", TokenFile)
        \o SettingIf(cfg.VaultEnvFromPath, "VAULT_ENV_FROM_PATH", "path")

wrapperMounts(cfg, vols) ==
    <<MountAt(VaultEnvVolumeName, VaultDir)>>
        \o (IF cfg.TLSSecret THEN <<TLSMount(vols)>> ELSE <<>>)

wrap(container, argv, cfg, vols) ==
    [container EXCEPT
        !.command = <<VaultEnv>>,
        !.args    = argv,
        !.probes  = [k \in ProbeKinds |-> mutateProbe(cfg, @[k])],
        !.mounts  = @ \o wrapperMounts(cfg, vols),
        !.env     = @ \o wrapperEnv(cfg, @, vols)]

-----------------------------------------------------------------------------
(* Containers and volumes the webhook adds to the pod *)

Injected(name, image, command, env, mounts, caps) ==
    [name |-> name, image |-> image, command |-> command, args |-> <<>>,
     envFrom |-> <<>>, env |-> env, probes |-> [k \in ProbeKinds |-> <<>>],
     mounts |-> mounts, caps |-> caps]

containerEnvVars(cfg, vols) ==
    <<Setting("VAULT_ADDR", "operator")>>
        \o SettingIf(cfg.Token, "VAULT_TOKEN", "operator")
        \o SettingIf(cfg.TLSSecret, "VAULT_CACERT", TLSMount(vols).path)

containerVolMounts(cfg, vols) ==
    <<MountAt(VaultEnvVolumeName, VaultDir)>>
        \o (IF cfg.TLSSecret THEN <<TLSMount(vols)>> ELSE <<>>)

(* getBaseSecurityContext drops every capability; the agents add some.     *)
AgentCapabilities == {"CHOWN", "SETFCAP", "SETGID", "SETPCAP", "SETUID", "IPC_LOCK"}

(* Mutant of Ptrace: the capability no longer depends on sharing.          *)
PtraceAlways(share) == {"SYS_PTRACE"}

Ptrace(share) == IF share THEN {"SYS_PTRACE"} ELSE {}

(* The first container that mounts the service account decides; the zero   *)
(* mount is returned when none does.                                       *)
mountsServiceAccount(container) ==
    \E m \in Range(container.mounts) : m.path = ServiceAccountPath

getServiceAccountMount(containers) ==
    IF \E c \in Range(containers) : mountsServiceAccount(c)
    THEN LET first == CHOOSE i \in DOMAIN containers :
                        /\ mountsServiceAccount(containers[i])
                        /\ \A j \in 1..(i - 1) : ~mountsServiceAccount(containers[j])
         IN  CHOOSE m \in Range(containers[first].mounts) : m.path = ServiceAccountPath
    ELSE NoMount

addSecretsVolToContainers(containers) ==
    AddMount(containers, MountAt("ct-secrets", ConfigfilePath))

addAgentSecretsVolToContainers(containers) ==
    AddMount(containers, MountAt("agent-secrets", ConfigfilePath))

(* getContainers: the consul-template container. *)
consulTemplate(cfg, vols, share) ==
    Injected("consul-template", CtImage, <<>>,
             containerEnvVars(cfg, vols),
             containerVolMounts(cfg, vols)
                \o << MountAt("ct-secrets", ConfigfilePath),
                      MountAt(VaultEnvVolumeName, "/home/consul-template"),
                      MountAt("ct-configmap", "/vault/ct-config/config.hcl") >>,
             Ptrace(share))

(* getAgentContainers: the long-running agent of the agent-configmap mode. *)
agentSidecar(cfg, vols, containers, share) ==
    Injected("vault-agent", AgentImage, <<>>,
             containerEnvVars(cfg, vols),
             containerVolMounts(cfg, vols)
                \o << getServiceAccountMount(containers),
                      MountAt("agent-secrets", ConfigfilePath),
                      MountAt("agent-configmap", "/vault/config/config.hcl") >>,
             AgentCapabilities \cup Ptrace(share))

(* getInitContainers, one definition per container it may append. *)
tokenCopier ==
    Injected("copy-vault-token", AgentImage, <<"sh", "-c", "cp token">>, <<>>,
             << MountAt(VaultEnvVolumeName, VaultDir),
                MountAt("token", "/token") >>, {})

(* Mutant of startsInitAgent: only consul-template starts the agent.       *)
startsTemplateAgent(cfg) == ~cfg.Token /\ cfg.CtConfigMap

startsInitAgent(cfg) == ~cfg.Token /\ (cfg.UseAgent \/ cfg.CtConfigMap)

initAgent(cfg, vols, containers) ==
    Injected("vault-agent", AgentImage, <<"vault", "agent", "-exit-after-auth">>,
             containerEnvVars(cfg, vols),
             containerVolMounts(cfg, vols)
                \o << getServiceAccountMount(containers),
                      MountAt("vault-agent-config", "/vault/agent/") >>
                \o (IF cfg.CtConfigMap THEN <<>>
                    ELSE <<MountAt("agent-secrets", ConfigfilePath)>>),
             AgentCapabilities)

envCopier ==
    Injected("copy-vault-env", EnvImage, <<"sh", "-c", "cp vault-env">>, <<>>,
             <<MountAt(VaultEnvVolumeName, VaultDir)>>, {})

getInitContainers(cfg, vols, containers, mutated) ==
    (IF cfg.TokenAuthMount # "" THEN <<tokenCopier>>
     ELSE IF startsInitAgent(cfg) THEN <<initAgent(cfg, vols, containers)>>
     ELSE <<>>)
        \o (IF mutated THEN <<envCopier>> ELSE <<>>)

(* strings.Split(TokenAuthMount, ":")[1] does not exist. *)
tokenAuthMountMalformed(cfg) == cfg.TokenAuthMount = "token"

getVolumes(cfg, vols) ==
    <<[name |-> VaultEnvVolumeName, from |-> "emptyDir"]>>
        \o (IF cfg.UseAgent \/ cfg.CtConfigMap
            THEN <<[name |-> "vault-agent-config",
                    from |-> IF cfg.AgentConfigMap THEN "AgentConfigMap"
                                                   ELSE "generated"]>>
            ELSE <<>>)
        \o (IF cfg.TLSSecret
            THEN <<[name |-> TLSMount(vols).vol, from |-> "TLSSecret"]>>
            ELSE <<>>)
        \o (IF cfg.CtConfigMap
            THEN << [name |-> "ct-secrets", from |-> "emptyDir"],
                    [name |-> "ct-configmap", from |-> "CtConfigMap"] >>
            ELSE <<>>)
        \o (IF cfg.AgentConfigMap
            THEN << [name |-> "agent-secrets", from |-> "emptyDir"],
                    [name |-> "agent-configmap", from |-> "AgentConfigMap"] >>
            ELSE <<>>)

-----------------------------------------------------------------------------
(* What the Kubernetes API server and the kubelet make of a pod *)

AllContainers(pod) == Range(pod.init) \cup Range(pod.main)

(* Pod validation: names are unique, mounts name a volume of the pod, and  *)
(* no container mounts two volumes at one path.                            *)
UniqueNames(s) == \A i, j \in DOMAIN s : s[i].name = s[j].name => i = j

WellFormed(pod) ==
    /\ UniqueNames(pod.init \o pod.main)
    /\ UniqueNames(pod.vols)
    /\ \A c \in AllContainers(pod) :
        /\ \A m \in Range(c.mounts) : \E v \in Range(pod.vols) : v.name = m.vol
        /\ \A i, j \in DOMAIN c.mounts : c.mounts[i].path = c.mounts[j].path => i = j

(* The command line the kubelet starts, from the table in the Kubernetes   *)
(* documentation of command and args.                                      *)
KubeletArgv(container, imageConfig) ==
    CASE container.command # <<>> -> container.command \o container.args
      [] container.command = <<>> /\ container.args # <<>> ->
            imageConfig.entrypoint \o container.args
      [] OTHER -> imageConfig.entrypoint \o imageConfig.cmd
=============================================================================
