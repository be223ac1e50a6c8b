SPECIFICATION Spec
CONSTANTS
    Configs <- MCConfigs
    Pods <- MCPods
    Sidecars <- MCSidecars
    DryRuns <- MCDryRuns
    Sources <- MCSources
    Contents <- MCContents
    Clusters <- MCClusters
    Text <- MCText
    Images <- MCImages
    ImageConfig <- SampleImages
    MaxFaults = 0
    MaxChanges = 0
    MaxRounds = 2
INVARIANTS
    MutationIsMarked
    EntrypointPreserved
    DependenciesFirst
    TokenFileHasWriter
    AllowedPodIsValid
    CacertIsMounted
    PtraceNeedsSharing
\* A request ends with its answer.
CHECK_DEADLOCK FALSE
