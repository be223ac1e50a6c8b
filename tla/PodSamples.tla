----------------------------- MODULE PodSamples -----------------------------
(***************************************************************************)
(* Containers, pods and configurations shared by the model-checking        *)
(* modules of PodMutation.                                                 *)
(***************************************************************************)
EXTENDS PodInjection

MCText == STRING

NoProbes == [k \in ProbeKinds |-> <<>>]

Plain(name) ==
    [name |-> name, image |-> "app", command |-> <<>>, args |-> <<>>,
     envFrom |-> <<>>, env |-> <<>>, probes |-> NoProbes,
     mounts |-> <<>>, caps |-> {}]

ServiceAccount == MountAt("kube-api-access", ServiceAccountPath)
AccountVolume  == [name |-> "kube-api-access", from |-> "projected"]
TLSVolume      == [name |-> "vault-tls", from |-> "secret"]
TokenVolume    == [name |-> "token", from |-> "secret"]
MarkerVolume   == [name |-> VaultEnvVolumeName, from |-> "emptyDir"]

Literal(name) == [name |-> name, value |-> Ref, from |-> NoSource, key |-> ""]
From(name, source, key) ==
    [name |-> name, value |-> "", from |-> source, key |-> key]
Import(source, optional) == [from |-> source, optional |-> optional]

SampleImages ==
    [image \in {"app", "bare", AgentImage, EnvImage, CtImage} |->
        IF image = "bare" THEN [entrypoint |-> <<>>, cmd |-> <<"sh">>]
                          ELSE [entrypoint |-> <<"run">>, cmd |-> <<"serve">>]]

DefaultConfig ==
    [UseAgent |-> FALSE, AgentConfigMap |-> FALSE, AgentShareProcess |-> "empty",
     CtConfigMap |-> FALSE, CtOnce |-> FALSE, CtInjectInInitcontainers |-> FALSE,
     CtShareProcess |-> "empty", TLSSecret |-> FALSE, Token |-> FALSE,
     TokenAuthMount |-> "", VaultEnvFromPath |-> FALSE, MutateProbes |-> TRUE,
     LogLevel |-> TRUE]
=============================================================================
