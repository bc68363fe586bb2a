SPECIFICATION FairSpec
CONSTANTS
    Config = Config
    Role = Role
    Cluster = Cluster
    Pod = Pod
    Custom = Custom
    NoKind = NoKind
    Kinds = {Config, Role, Cluster, Pod, Custom}
    Ignored = {Pod, Custom}
    ClusterScoped = {Cluster}
    InitiallyKnown = {Config, Role, Cluster, Pod}
    Manifests <- MCManifests
    UpdateInterval = 1
    MaxDrift = 2
    MaxFaults = 2
INVARIANTS
    TypeOK
    OneHandlerPerKind
    ReportedIsWatched
PROPERTIES
    ComesToRest
    DriftIsRepaired
    WatchedInTheEnd
