-------------------------- MODULE AmbInstProperties --------------------------
(***************************************************************************)
(* What the reconciler promises: the invariants, action properties and     *)
(* liveness properties of AmbInstReconciler.                               *)
(***************************************************************************)
EXTENDS AmbInstReconciler

\* Every variable has its type (the fields of reconcile.go's objects).
TypeOK ==
    /\ obj \in [Inst -> Object \cup {NoObj}]
    /\ release \in [Inst -> Manifest \cup {NoRelease}]
    /\ cache \in [Inst -> Nat]
    /\ repo \in 1..MaxChart /\ auth \in Presence
    /\ queue \subseteq Inst /\ delayed \subseteq Inst
    /\ job \in Job \cup {Idle}
    /\ now \in Nat /\ edits \in 0..MaxEdits /\ faults \in 0..MaxFaults

Exists(i) == obj[i] # NoObj

Installed(i) == release[i] # NoRelease

\* A Helm release never outlives its CR: while it is deployed the CR exists
\* and carries the finalizer, whatever crashes, fails or is edited between
\* the steps of an installation and of a deletion (reconcile.go:164-173,
\* reconcile_delete.go:95-105).
NoOrphanRelease == \A i \in Inst : Installed(i) => Exists(i) /\ obj[i].fin

\* Two CRs have releases at once only if they were created in the same second:
\* being the oldest is decided on a list that may lag, and once decided it is
\* never true of a younger CR as long as the oldest exists
\* (reconcile.go:254-274, reconcile_utils.go:48-75).
SoleReleaseUnlessTied ==
    \A i, j \in Inst :
        Installed(i) /\ Installed(j) => obj[i].created = obj[j].created

\* A CR that is marked as a duplicate, and from then on ignored, owns no
\* release: the mark never falls on the CR whose Ambassador is running, which
\* would then receive no updates any more (reconcile.go:243-248, 260-273).
DuplicateHasNoRelease ==
    \A i \in Inst : Exists(i) /\ IsDuplicate(obj[i].st) => ~Installed(i)

\* A status does not announce what is not there: if it names a deployed
\* release, or says Deployed, there is one, until the deletion of the CR
\* (reconcile_update.go:179-194, 245-259, 305-313).
NothingAnnouncedFalsely ==
    \A i \in Inst :
        /\ Exists(i) /\ ~obj[i].gone
        /\ \/ obj[i].st.rel # NoRelease
           \/ HasCondition(obj[i].st.conds, "Deployed", "True")
        => Installed(i)

\* Nothing calls Reconcile for i any more: it is a duplicate, or its deletion
\* waits for other finalizers only.
Retired(i) == IF obj[i].gone THEN ~obj[i].fin ELSE IsDuplicate(obj[i].st)

\* Every other CR is looked at again, whatever fails, and whoever writes it
\* between the steps of a call: its request waits in the queue or for a timer,
\* or the call is in progress (every return of Reconcile and deleteRelease).
NeverForgotten ==
    \A i \in Inst :
        Exists(i) /\ ~Retired(i) =>
            i \in queue \cup delayed \/ (job # Idle /\ job.inst = i)

\* Ambassador is uninstalled only when its CR is marked for deletion, though
\* the decision is taken on a copy that may be out of date
\* (reconcile.go:238-241, reconcile_delete.go:61).
UninstallOnlyDeleted ==
    [][\A i \in Inst :
          Installed(i) /\ ~Installed(i)' => Exists(i) /\ obj[i].gone]_vars

-----------------------------------------------------------------------------
\* The abstract specification, and how the reconciler implements it.

\* The phase of a CR: what is stored of it, and whether it has a release.
PhaseOf(i) ==
    IF ~Exists(i) THEN "absent"
    ELSE IF Installed(i) THEN IF obj[i].gone THEN "leaving" ELSE "running"
    ELSE IF IsDuplicate(obj[i].st) THEN IF obj[i].gone THEN "dropped" ELSE "refused"
    ELSE IF obj[i].gone THEN "left" ELSE "pending"

Lifecycle == INSTANCE InstallationLifecycle WITH
    phase   <- [i \in Inst |-> PhaseOf(i)],
    created <- [i \in Inst |-> Created(i)],
    clock   <- now

\* Every step of the reconciler, its users and its failures is a step of the
\* lifecycle or none: nothing is started for a CR that another precedes, or that
\* was ever refused, whatever is read, cached and retried in between
\* (reconcile.go:125-450, reconcile_update.go:133-315, reconcile_delete.go).
ImplementsLifecycle == Lifecycle!Spec

-----------------------------------------------------------------------------
\* What the operator comes to rest on, and when it may replace an Ambassador.

\* Nothing about i is pending but the next periodic check.
Settled(i) == Exists(i) /\ ~obj[i].gone /\ i \notin queue /\ (job # Idle => job.inst # i)

\* A CR that the operator has come to rest on, and has not marked as a
\* duplicate, runs what its spec says, in whatever order it was edited while
\* the operator worked on it (comp.go:15-41, reconcile_update.go:51-63).
SettledIsApplied ==
    \A i \in Inst :
        Settled(i) /\ ~IsDuplicate(obj[i].st) =>
            /\ Installed(i)
            /\ release[i].oss = obj[i].spec.oss
            /\ release[i].values = obj[i].spec.values

\* Whatever fails, a CR that the operator has come to rest on, and has not marked
\* as a duplicate, has an Ambassador, if not the one its spec asks for: a call
\* that gives up before Helm has installed one is always repeated
\* (reconcile.go:125-450, reconcile_update.go:71-81, 302-315).
SettledIsInstalled ==
    \A i \in Inst : Settled(i) /\ ~IsDuplicate(obj[i].st) => Installed(i)

Replaced(i) == Installed(i) /\ Installed(i)' /\ release'[i] # release[i]

HappilyDeployed(i) == LastType(obj[i].st) = "Deployed"

\* While the last thing that its status says of it is that it was deployed, an
\* Ambassador is replaced without a change of the spec or a migration only
\* updateInterval after the last check recorded in the status, and when the
\* window allows, whatever fails: "when Ambassador is currently happily
\* deployed, do not continue with this upgrade check if..."
\* (reconcile_update.go:65-81).
AutomaticUpdatesWait ==
    [][\A i \in Inst :
          Replaced(i) /\ HappilyDeployed(i) /\ ~job.changed /\ ~Migrating(job.seen)
          => /\ job.time >= obj[i].st.check + UpdateInterval
             /\ job.time \in job.seen.spec.window]_vars

\* ... and whatever the reason it is replaced with the "default Helm values when
\* doing upgrades or re-installations", which do not create the secret of the
\* license anew (reconcile.go:54-61, 296-304).
UpgradesKeepLicense ==
    [][\A i \in Inst : Replaced(i) /\ HappilyDeployed(i) => ~release'[i].secret]_vars

-----------------------------------------------------------------------------
\* Liveness, under Fairness.

RunsOSS(i) == Installed(i) => release[i].oss

\* An API Gateway that its status names is not replaced by the Edge Stack as
\* long as an AuthService, or as long as a RateLimitService, stays in the
\* cluster: the two are looked up at different times, in a call that others
\* interrupt (reconcile_update.go:337-363).
NoBlockedMigration ==
    \A i \in Inst, kind \in Services :
        LET InTheWay == auth[kind] = "some" /\ Exists(i) /\ ~obj[i].gone
        IN  [](/\ job = Idle /\ InTheWay
               /\ obj[i].st.rel # NoRelease /\ obj[i].st.rel.oss /\ RunsOSS(i)
               /\ []InTheWay
               => []RunsOSS(i))

NothingInTheWay == \A kind \in Services : Present(kind) = "none"

\* Nothing in the CRs speaks against the installation of i.
Sound(i) ==
    /\ Exists(i) /\ ~obj[i].gone
    /\ obj[i].spec.source = "ok" /\ obj[i].spec.params = "ok"
    /\ obj[i].hash # NoAnnotations /\ ~IsDuplicate(obj[i].st)
    /\ \A k \in Inst : Exists(k) => obj[i].created <= obj[k].created
    /\ ~Downgrading(obj[i])

\* ... and nothing in the cluster does.
Acceptable(i) == Sound(i) /\ (Migrating(obj[i]) => NothingInTheWay)

Applied(i) == /\ Installed(i)
              /\ release[i].oss = obj[i].spec.oss
              /\ release[i].values = obj[i].spec.values

\* Once users leave an acceptable CR alone Ambassador gets installed, and
\* stays so, whatever failed before: no failure is final
\* (every error return of Reconcile is retried by the queue).
InstalledInTheEnd == \A i \in Inst : <>[]Acceptable(i) => <>[]Installed(i)

\* Without failures the last spec of an acceptable CR is what runs in the
\* end, a migration from OSS to the Edge Stack included, for any order of
\* the edits and the steps of the operator (docs/using.md).
AppliedInTheEnd == \A i \in Inst : <>[]Acceptable(i) => <>[]Applied(i)

\* The deletion of a CR does not hang: it never stays marked for deletion
\* with a chart source that parses and no finalizer of somebody else, whether it
\* was being installed, was failing or was interrupted by a crash
\* (reconcile_delete.go:25-119).
DeletionCompletes ==
    \A i \in Inst :
        []<>~(/\ Exists(i) /\ obj[i].gone
              /\ obj[i].spec.source = "ok" /\ ~obj[i].held)
=============================================================================
