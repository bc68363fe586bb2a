SPECIFICATION FairSpec
CONSTANTS
    Inst = {a}
    Values = {v}
    Specs <- AllSpecs
    InitialHashes = {NoHash, NoAnnotations}
    Holds = {FALSE, TRUE}
    Clusters <- LostKind
    UpdateInterval = 2
    MaxTime = 1
    MaxChart = 1
    MaxEdits = 3
    MaxFaults = 2
    NoObj = NoObj
    NoRelease = NoRelease
    NoHash = NoHash
    NoAnnotations = NoAnnotations
INVARIANTS
    SettledIsInstalled
PROPERTIES
    InstalledInTheEnd
    DeletionCompletes
