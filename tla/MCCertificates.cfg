SPECIFICATION Spec
CONSTANTS
    Keys <- MCKeys
    Histories <- MCHistories
    QueueLimit = 3
    MaxRestarts = 1
INVARIANTS
    TypeOK
    ServedPairMatches
    QuietMeansCurrent
PROPERTIES
    NeverOlder
    LastPairIsServed
