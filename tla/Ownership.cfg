SPECIFICATION Spec
CONSTANTS
    Inst = {a, b}
    Values = {v}
    Specs <- AESSpecs
    InitialHashes = {NoHash}
    Holds = {FALSE}
    Clusters <- NoServices
    UpdateInterval = 1
    MaxTime = 2
    MaxChart = 1
    MaxEdits = 4
    MaxFaults = 1
    NoObj = NoObj
    NoRelease = NoRelease
    NoHash = NoHash
    NoAnnotations = NoAnnotations
INVARIANTS
    TypeOK
    NoOrphanRelease
    SoleReleaseUnlessTied
    DuplicateHasNoRelease
    NothingAnnouncedFalsely
    NeverForgotten
PROPERTIES
    UninstallOnlyDeleted
    ImplementsLifecycle
