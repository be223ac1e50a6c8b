----------------------------- MODULE MCPodShapes -----------------------------
(***************************************************************************)
(* PodMutation over every combination of the annotations that decide what  *)
(* is added to a pod, on pods whose references are all literals and in a   *)
(* cluster that neither fails nor changes.                                 *)
(***************************************************************************)
EXTENDS PodMutation, PodSamples

(* An application with a probe that runs its image's own command, an init  *)
(* container with an explicit one, and a container with settings of its    *)
(* own that the webhook also gives.                                        *)
WebApp ==
    [init |-> <<[Plain("migrate") EXCEPT
                    !.command = <<"migrate">>, !.args = <<"up">>,
                    !.env = <<Literal("DB")>>]>>,
     main |-> <<[Plain("app") EXCEPT
                    !.env = <<Literal("KEY"), Setting("VAULT_LOG_LEVEL", "debug")>>,
                    !.probes["liveness"] = <<"check">>,
                    !.mounts = <<ServiceAccount>>],
                [Plain("sidecar") EXCEPT
                    !.env = <<Setting("VAULT_CACERT", "/etc/ca")>>,
                    !.probes["startup"] = <<"check">>,
                    !.caps = {"SYS_PTRACE"}]>>,
     vols |-> <<AccountVolume, TokenVolume>>,
     share |-> FALSE]

(* Vault's own pod, provisioned by the operator: it has a vault-tls volume. *)
VaultServer ==
    [init |-> <<>>,
     main |-> <<[Plain("vault") EXCEPT
                    !.image = "bare", !.args = <<"server">>,
                    !.env = <<Literal("SEAL")>>,
                    !.mounts = <<MountAt("vault-tls", "/vault/tls/"), ServiceAccount>>]>>,
     vols |-> <<TLSVolume, AccountVolume>>,
     share |-> TRUE]

(* No reference anywhere, no service account, no entrypoint in the image,  *)
(* and a container that its author starts through vault-env.               *)
Batch ==
    [init |-> <<Plain("fetch")>>,
     main |-> <<[Plain("job") EXCEPT !.image = "bare"],
                [Plain("done") EXCEPT
                    !.command = <<VaultEnv>>, !.args = <<"report">>,
                    !.env = <<Setting("VAULT_TOKEN_FILE", "/token/file")>>]>>,
     vols |-> <<TokenVolume>>,
     share |-> FALSE]

MCPods == {WebApp, VaultServer, Batch}

(* The consul-template and agent-configmap details matter only with the    *)
(* mode they belong to.                                                    *)
TemplateModes ==
    {[CtConfigMap |-> FALSE, CtOnce |-> FALSE,
      CtInjectInInitcontainers |-> FALSE, CtShareProcess |-> "empty"]}
    \cup [CtConfigMap : {TRUE}, CtOnce : BOOLEAN,
          CtInjectInInitcontainers : BOOLEAN, CtShareProcess : ShareProcess]

AgentModes ==
    {[UseAgent |-> u, AgentConfigMap |-> FALSE, AgentShareProcess |-> "empty"] :
        u \in BOOLEAN}
    \cup [UseAgent : BOOLEAN, AgentConfigMap : {TRUE}, AgentShareProcess : ShareProcess]

MCConfigs ==
    {[UseAgent                 |-> a.UseAgent,
      AgentConfigMap           |-> a.AgentConfigMap,
      AgentShareProcess        |-> a.AgentShareProcess,
      CtConfigMap              |-> t.CtConfigMap,
      CtOnce                   |-> t.CtOnce,
      CtInjectInInitcontainers |-> t.CtInjectInInitcontainers,
      CtShareProcess           |-> t.CtShareProcess,
      TLSSecret |-> tls, Token |-> token, TokenAuthMount |-> mount,
      VaultEnvFromPath |-> path, MutateProbes |-> TRUE, LogLevel |-> TRUE] :
        a \in AgentModes, t \in TemplateModes, tls \in BOOLEAN,
        token \in BOOLEAN, mount \in {"", "token:vault-token"}, path \in BOOLEAN}

(* deployment-template.yaml with vault-agent: "true" and nothing else.     *)
AgentOnlyConfigs == {[DefaultConfig EXCEPT !.UseAgent = TRUE]}
AgentOnlyPods    == {WebApp}

MCSidecars == {<<>>, <<[Plain("mesh") EXCEPT !.env = <<Literal("CERT")>>]>>}
MCDryRuns == {FALSE}
MCSources == {}
MCContents == {}
MCClusters == {<<>>}
MCImages == DOMAIN SampleImages
=============================================================================
