SPECIFICATION FairSpec
CONSTANTS
    Inst = {a}
    Values = {v, w}
    Specs <- BothFlavors
    InitialHashes = {NoHash}
    Holds = {FALSE}
    Clusters <- NoServices
    UpdateInterval = 2
    MaxTime = 3
    MaxChart = 1
    MaxEdits = 3
    MaxFaults = 0
    NoObj = NoObj
    NoRelease = NoRelease
    NoHash = NoHash
    NoAnnotations = NoAnnotations
PROPERTIES
    UpgradeBySpec
