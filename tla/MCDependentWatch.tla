--------------------------- MODULE MCDependentWatch ---------------------------
EXTENDS DependentWatch

CONSTANTS Config, Role, Cluster, Pod, Custom

\* The second chart adds a kind; kinds repeat, one document is empty, and the
\* kinds of no interest stand before the others.
MCManifests ==
    << <<Cluster, Pod, NoKind, Config, Config>>,
       <<Cluster, Custom, Config, Role>> >>
=============================================================================
