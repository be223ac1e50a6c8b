SPECIFICATION Spec
CONSTANTS
    Configs <- MCConfigs
    Pods <- MCPods
    Sidecars <- MCSidecars
    DryRuns = {TRUE, FALSE}
    Sources <- MCSources
    Contents <- MCContents
    Clusters <- MCClusters
    Text <- MCText
    Images <- MCImages
    ImageConfig <- SampleImages
    MaxFaults = 1
    MaxChanges = 1
    MaxRounds = 2
INVARIANTS
    TypeOK
    NoMissedReference
    GeneratedIsWritten
    NoNeedlessWrapping
PROPERTIES
    WrittenMeansAllowed
    EveryRequestIsAnswered
\* A request ends with its answer.
CHECK_DEADLOCK FALSE
