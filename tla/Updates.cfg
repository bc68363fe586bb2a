SPECIFICATION Spec
CONSTANTS
    Inst = {a}
    Values = {v}
    Specs <- AllWindows
    InitialHashes = {NoHash}
    Holds = {FALSE}
    Clusters <- NoServices
    UpdateInterval = 2
    MaxTime = 5
    MaxChart = 3
    MaxEdits = 2
    MaxFaults = 1
    NoObj = NoObj
    NoRelease = NoRelease
    NoHash = NoHash
    NoAnnotations = NoAnnotations
PROPERTIES
    AutomaticUpdatesWait
    UpgradesKeepLicense
