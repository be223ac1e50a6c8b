SPECIFICATION Spec
CONSTANTS
    Configs <- AgentOnlyConfigs
    Pods <- AgentOnlyPods
    Sidecars <- MCSidecars
    DryRuns <- MCDryRuns
    Sources <- MCSources
    Contents <- MCContents
    Clusters <- MCClusters
    Text <- MCText
    Images <- MCImages
    ImageConfig <- SampleImages
    MaxFaults = 0
    MaxChanges = 0
    MaxRounds = 2
INVARIANTS
    VaultAgentIsStarted
\* A request ends with its answer.
CHECK_DEADLOCK FALSE
