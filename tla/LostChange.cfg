SPECIFICATION Spec
CONSTANTS
    Inst = {a}
    Values = {v, w}
    Specs <- NeverSpecs
    InitialHashes = {NoHash}
    Holds = {FALSE}
    Clusters <- NoServices
    UpdateInterval = 2
    MaxTime = 3
    MaxChart = 1
    MaxEdits = 2
    MaxFaults = 1
    NoObj = NoObj
    NoRelease = NoRelease
    NoHash = NoHash
    NoAnnotations = NoAnnotations
INVARIANTS
    SettledIsApplied
