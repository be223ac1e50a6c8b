---------------------------- MODULE MCPodLookups ----------------------------
(***************************************************************************)
(* PodMutation on a pod whose references live in a ConfigMap and a Secret, *)
(* in a cluster that changes and fails under it.                           *)
(***************************************************************************)
EXTENDS PodMutation, PodSamples

Service ==
    [init |-> <<[Plain("migrate") EXCEPT
                    !.command = <<"migrate">>,
                    !.envFrom = <<Import("settings", TRUE)>>]>>,
     main |-> <<[Plain("app") EXCEPT
                    !.envFrom = <<Import("settings", FALSE)>>,
                    !.env = <<From("USER", "creds", "user"), From("PW", "creds", "pw")>>,
                    !.mounts = <<ServiceAccount>>],
                Plain("proxy")>>,
     vols |-> <<AccountVolume>>,
     share |-> FALSE]

AlreadyInjected == [Service EXCEPT !.vols = Append(@, MarkerVolume)]

MCPods == {Service, AlreadyInjected}

WithAgentOnly == [DefaultConfig EXCEPT !.UseAgent = TRUE]
MCConfigs ==
    { DefaultConfig,
      WithAgentOnly,
      [WithAgentOnly EXCEPT !.TokenAuthMount = "token"],
      [DefaultConfig EXCEPT !.CtConfigMap = TRUE],
      [DefaultConfig EXCEPT !.AgentConfigMap = TRUE],
      [DefaultConfig EXCEPT !.VaultEnvFromPath = TRUE] }

MCSidecars == {<<>>, <<[Plain("mesh") EXCEPT !.envFrom = <<Import("settings", TRUE)>>]>>}
MCSources == {"settings", "creds"}
MCContents ==
    {[exists |-> FALSE, refs |-> {}]}
    \cup [exists : {TRUE}, refs : {{}, {"user"}, {"pw"}}]
MCClusters ==
    {f \in [MCSources -> MCContents] : f["settings"].refs # {"user"}}
MCImages == DOMAIN SampleImages
=============================================================================
