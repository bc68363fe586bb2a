SPECIFICATION Spec
CONSTANTS
    UserSpecs <- MCUserSpecs
    FileTrees <- MCFileTrees
    NumFiles = 2
    LateSpecs <- MCLateSpecs
INVARIANTS
    TypeOK
    ChartIsReference
    FlavorIsRendered
    StoredSpecIsUsers
