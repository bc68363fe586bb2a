-------------------------- MODULE AmbInstReconciler --------------------------
(***************************************************************************)
(* The reconciler of the AmbassadorInstallations of one namespace          *)
(* (pkg/controller/ambassadorinstallation: reconcile.go,                   *)
(* reconcile_update.go, reconcile_delete.go, comp.go, reconcile_utils.go), *)
(* with the users that create, edit and delete the custom resources, the   *)
(* Helm repository that publishes charts, the clock, and the failures of   *)
(* API calls, downloads and Helm operations.                               *)
(*                                                                         *)
(* One call of Reconcile is a sequence of steps, one per call it makes to  *)
(* the API server or to Helm: the users, the clock and a crash act between *)
(* any two of them.  The variable job is the local state of the call.      *)
(*                                                                         *)
(* Limits: object reads are current (the client is uncached for            *)
(* unstructured objects) while the typed list of isFirstAmbInst comes from *)
(* an informer that may lag; the resourceVersion of an object is           *)
(* represented by job.fresh; back-off delays are arbitrary; a release is   *)
(* the manifest Helm would render, represented by what determines it; a    *)
(* Helm operation that fails, for instance at the deadline of the call,    *)
(* has taken its effect or not, but did not stop half way.                 *)
(***************************************************************************)
EXTENDS Conditions, Integers, FiniteSets

CONSTANTS
    Inst,               \* names of the CRs in the namespace
    Values,             \* what else of a spec reaches the manifest
    Specs,              \* the specs users write
    InitialHashes,      \* annotations of a CR when it is created
    Holds,              \* whether a CR may have another finalizer
    Clusters,           \* what others may leave there of the kinds in Services
    UpdateInterval,     \* r.updateInterval, in ticks of the clock
    MaxTime,            \* bound: the clock stops here
    MaxChart,           \* bound: the newest chart the repository publishes
    MaxEdits,           \* bound: actions of users
    MaxFaults,          \* bound: failures and crashes
    NoObj,              \* no such object
    NoRelease,          \* no such Helm release; also DeployedRelease = nil
    NoHash,             \* annotations without a last-spec-hash
    NoAnnotations       \* no annotations at all

SpecRecord == [source  : {"ok", "badVersion", "badRepo"},  \* do spec.version
                                    \* and spec.helmRepo parse
               params  : {"ok", "bad"},     \* do enableAES and baseImage pass
               oss     : BOOLEAN,           \* spec.installOSS
               window  : SUBSET Nat,        \* times Allowed is true of: none of
                                    \* a window that does not parse, which is
                                    \* no error
               values  : Values]

\* What a rendered manifest depends on: the chart, the flavor, the values
\* and licenseKey.createSecret.
Manifest == [chart : 1..MaxChart, oss : BOOLEAN, values : Values, secret : BOOLEAN]

\* The kinds a migration looks for; others create and delete resources of a
\* kind, or the kind itself: it is mapped then, but the list is not found.
Services == {"AuthService", "RateLimitService"}

Presence == [Services -> {"none", "some", "gone"}]

Hash == Specs \cup {NoHash, NoAnnotations}

Status == [conds : Seq(Condition),              \* status.conditions
           rel   : Manifest \cup {NoRelease},   \* status.deployedRelease
           check : Nat]                         \* status.lastCheckTime, 0 = zero

Object == [spec    : Specs,
           hash    : Hash,          \* the last-spec-hash annotation
           fin     : BOOLEAN,       \* has the operator's finalizer
           held    : BOOLEAN,       \* has a finalizer of somebody else
           gone    : BOOLEAN,       \* has a deletionTimestamp
           created : Nat,           \* metadata.creationTimestamp, in seconds
           st      : Status]

Stages == {"loaded",        \* the object was read
           "recorded",      \* the hash of its spec was recorded
           "halfway",       \* no AuthService is in the way of a migration
           "checked",       \* nor is a RateLimitService: it may proceed
           "downloaded",    \* a chart was downloaded
           "installed", "updated", "reconciled",    \* the Helm operation is done
           "uninstalled",   \* the release is uninstalled
           "reported"}      \* ... and the status says so

Job == [stage   : Stages,
        inst    : Inst,
        seen    : Object,       \* ambIns, the object as read or last returned
        fresh   : BOOLEAN,      \* seen has the current resourceVersion
        st      : Status,       \* status, the copy being changed
        changed : BOOLEAN,      \* specChanged
        secret  : BOOLEAN,      \* licenseKey.createSecret
        time    : Nat,          \* now of tryInstallOrUpdate
        chart   : 0..MaxChart]  \* the chart downloaded

Idle == [stage |-> "idle"]

ASSUME BoundsAssumption ==
    /\ UpdateInterval \in Nat /\ MaxTime \in Nat /\ MaxChart \in Nat \ {0}
    /\ MaxEdits \in Nat /\ MaxFaults \in Nat

ASSUME SpecsAssumption == Specs \subseteq SpecRecord

ASSUME InitialHashesAssumption ==
    InitialHashes \subseteq {NoHash, NoAnnotations} /\ Holds \subseteq BOOLEAN

ASSUME ClustersAssumption == Clusters \subseteq Presence

ASSUME SentinelAssumption ==
    /\ NoObj \notin Object /\ NoRelease \notin Manifest
    /\ NoHash \notin Specs /\ NoAnnotations \notin Specs

VARIABLES
    obj,        \* the CRs stored in the API server
    release,    \* the release Helm has deployed for each CR
    cache,      \* creation times in the informer behind the typed list, 0 = none
    repo,       \* the newest chart the version rule allows
    auth,       \* AuthServices and RateLimitServices that are not a release's
    queue,      \* the work queue
    delayed,    \* requests of the queue that wait for a RequeueAfter
    job,        \* the Reconcile call in progress
    now,        \* the clock, in seconds
    edits, faults   \* user actions and failures so far

vars == <<obj, release, cache, repo, auth, queue, delayed, job, now, edits, faults>>

world  == <<cache, repo, auth, now, edits>>     \* what the worker never changes

-----------------------------------------------------------------------------
\* Reading specs and status.

NewStatus == [conds |-> <<>>, rel |-> NoRelease, check |-> 0]

With(st, type, status, reason) ==
    [st EXCEPT !.conds = SetCondition(@, type, status, reason, now)]

Without(st, type) == [st EXCEPT !.conds = RemoveCondition(@, type)]

LastType(st) == LastCondition(st.conds, AnyCondition).type

IsDuplicate(st) ==
    LastCondition(st.conds, ByReason("DuplicateError")).reason = "DuplicateError"

\* The status Reconcile has in hand once the CR is known to be the first.
Initialized(st) ==
    Without(With(st, "Initialized", "True", ""), "Irreconcilable")

\* "migration from AES to OSS not supported"
Downgrading(o) == o.spec.oss /\ o.st.rel # NoRelease /\ ~o.st.rel.oss

Migrating(o) == ~o.spec.oss /\ o.st.rel # NoRelease /\ o.st.rel.oss

\* Variant of HasChangedSpec: the new hash is stored before it is compared.
HasChangedSpecStoredFirst(o) == o.hash \notin {NoHash, o.hash}

\* hasChangedSpec: the hash is an encoding of the whole spec, so hashes are
\* equal when specs are.
HasChangedSpec(o) == o.hash \notin {NoHash, o.spec}

\* Variant of NotNow: the last check is not looked at.
NotNowAnyInterval ==
    /\ LastType(job.seen.st) = "Deployed"
    /\ ~Migrating(job.seen) /\ ~job.changed
    /\ job.time \notin job.seen.spec.window

\* The gate of tryInstallOrUpdate: happily deployed, and not now.
NotNow ==
    /\ LastType(job.seen.st) = "Deployed"
    /\ ~Migrating(job.seen) /\ ~job.changed
    /\ \/ job.seen.st.check # 0 /\ job.time - job.seen.st.check < UpdateInterval
       \/ job.time \notin job.seen.spec.window

Created(i) == IF obj[i] = NoObj THEN 0 ELSE obj[i].created

\* What isFirstAmbInst lists.
Listed == {k \in Inst : cache[k] # 0}

\* Variants of IsFirst: any CR of the list is the first; the list is sorted
\* the other way.
IsFirstOfAny(o) == \E k \in Listed : o.created = cache[k]

IsFirstNewest(o) == /\ \A k \in Listed : o.created >= cache[k]
                    /\ \E k \in Listed : o.created = cache[k]

\* isFirstAmbInst: as old, to the second, as the oldest CR of the list.
IsFirst(o) == /\ \A k \in Listed : o.created <= cache[k]
              /\ \E k \in Listed : o.created = cache[k]

Candidate == [chart  |-> job.chart,           oss    |-> job.seen.spec.oss,
              values |-> job.seen.spec.values, secret |-> job.secret]

-----------------------------------------------------------------------------
\* Ends of a Reconcile call and writes of its object.

At(stage) == job.stage = stage

\* A change of an object is an event that puts it in the queue.
Changed(i) == IF obj'[i] # obj[i] THEN {i} ELSE {}

\* Reconcile returned an error, or Requeue.
Requeue ==
    /\ job' = Idle /\ queue' = queue \cup {job.inst}
    /\ UNCHANGED delayed

\* Reconcile returned RequeueAfter: checkInterval.
RequeueAfter ==
    /\ job' = Idle /\ queue' = queue \cup Changed(job.inst)
    /\ delayed' = delayed \cup {job.inst}

\* Reconcile returned nothing to do.
Done ==
    /\ job' = Idle /\ queue' = queue \cup Changed(job.inst)
    /\ UNCHANGED delayed

GoTo(j) ==
    /\ job' = j /\ queue' = queue \cup Changed(job.inst)
    /\ UNCHANGED delayed

Fault == faults < MaxFaults /\ faults' = faults + 1

\* updateResourceStatus, refused by the API server when seen is out of date.
WriteStatus(st) ==
    obj' = IF job.fresh THEN [obj EXCEPT ![job.inst].st = st] ELSE obj

\* The errors of this write are ignored ("_ ="): it happens or it does not.
TryWriteStatus(st) ==
    \/ WriteStatus(st) /\ UNCHANGED faults
    \/ Fault /\ UNCHANGED obj

\* Variant of FailWith: the error is swallowed, nothing is queued.
FailWithSwallowed(st) ==
    /\ Fault /\ (WriteStatus(st) \/ UNCHANGED obj)
    /\ Done /\ UNCHANGED <<release, world>>

\* Give up with an error that the status is to show; the failure of Helm or
\* of a download that is the reason may take the write with it.
Reject(st) == TryWriteStatus(st) /\ Requeue /\ UNCHANGED <<release, world>>

FailWith(st) ==
    /\ Fault /\ (WriteStatus(st) \/ UNCHANGED obj)
    /\ Requeue /\ UNCHANGED <<release, world>>

\* A Helm operation returned an error; what it was to do is done or not.
HelmFails(st, outcome) ==
    /\ Fault /\ (WriteStatus(st) \/ UNCHANGED obj)
    /\ release' \in {release, [release EXCEPT ![job.inst] = outcome]}
    /\ Requeue /\ UNCHANGED world

-----------------------------------------------------------------------------
\* Reconcile: what it does before it knows what the CR asks for.

\* The worker takes a request and reads its CR; one that is gone is dropped.
Lookup(i) ==
    /\ job = Idle /\ i \in queue
    /\ queue' = queue \ {i}
    /\ job' = IF obj[i] = NoObj THEN Idle
              ELSE [stage |-> "loaded", inst |-> i, seen |-> obj[i],
                    fresh |-> TRUE, st |-> obj[i].st, changed |-> FALSE,
                    secret |-> FALSE, time |-> 0, chart |-> 0]
    /\ UNCHANGED <<obj, release, delayed, faults, world>>

AddFinalizer ==
    /\ At("loaded") /\ ~job.seen.gone /\ ~job.seen.fin
    /\ obj' = IF job.fresh THEN [obj EXCEPT ![job.inst].fin = TRUE] ELSE obj
    /\ Requeue
    /\ UNCHANGED <<release, faults, world>>

\* Also of a CR that is being deleted: the FIXME of reconcile.go:199.
RejectVersion ==
    /\ At("loaded") /\ (job.seen.gone \/ job.seen.fin)
    /\ job.seen.spec.source = "badVersion"
    /\ Reject(With(job.st, "Failed", "True", "ParametersError"))

\* NewHelmManager fails; the status is not told.
RejectRepo ==
    /\ At("loaded") /\ (job.seen.gone \/ job.seen.fin)
    /\ job.seen.spec.source = "badRepo"
    /\ Requeue
    /\ UNCHANGED <<obj, release, faults, world>>

Alive == /\ At("loaded") /\ ~job.seen.gone /\ job.seen.fin
         /\ job.seen.spec.source = "ok"

IgnoreDuplicate ==
    /\ Alive /\ IsDuplicate(job.seen.st)
    /\ UNCHANGED <<obj, release, faults, world>>
    /\ Done

MarkDuplicate ==
    /\ Alive /\ ~IsDuplicate(job.seen.st)
    /\ Listed # {} /\ ~IsFirst(job.seen)
    /\ WriteStatus(With(job.st, "Irreconcilable", "False", "DuplicateError"))
    /\ IF job.fresh THEN Done ELSE Requeue
    /\ UNCHANGED <<release, faults, world>>

\* Variant of RecordSpecHash: the last condition is looked up after the status
\* was given the condition Initialized.
RecordSpecHashInitializedFirst ==
    /\ Alive /\ ~IsDuplicate(job.seen.st) /\ IsFirst(job.seen)
    /\ job.seen.hash # NoAnnotations /\ job.fresh
    /\ LET o == [job.seen EXCEPT !.hash = job.seen.spec]
       IN  /\ obj' = [obj EXCEPT ![job.inst] = o]
           /\ GoTo([job EXCEPT !.stage = "recorded", !.seen = o,
                        !.st      = Initialized(job.st),
                        !.changed = HasChangedSpec(job.seen),
                        !.secret  = LastType(Initialized(job.st)) # "Deployed",
                        !.time    = now])
    /\ UNCHANGED <<release, faults, world>>

\* The deferred setLastSpecHash and the update that stores it.
RecordSpecHash ==
    /\ Alive /\ ~IsDuplicate(job.seen.st) /\ IsFirst(job.seen)
    /\ job.seen.hash # NoAnnotations
    /\ LET o == [job.seen EXCEPT !.hash = job.seen.spec]
       IN  IF job.fresh
           THEN /\ obj' = [obj EXCEPT ![job.inst] = o]
                /\ GoTo([job EXCEPT !.stage = "recorded", !.seen = o,
                             !.st      = Initialized(job.st),
                             !.changed = HasChangedSpec(job.seen),
                             !.secret  = LastType(job.seen.st) # "Deployed",
                             !.time    = now])
           ELSE UNCHANGED obj /\ Requeue
    /\ UNCHANGED <<release, faults, world>>

\* The process ends; the next one starts from the objects it lists.
Restart ==
    /\ job' = Idle /\ delayed' = {}
    /\ queue' = {i \in Inst : obj[i] # NoObj}
    /\ cache' = [i \in Inst |-> Created(i)]
    /\ UNCHANGED <<obj, release, repo, auth, now, edits>>

\* installations[0] of an empty list.
PanicNotListed ==
    /\ Alive /\ ~IsDuplicate(job.seen.st) /\ Listed = {}
    /\ Restart /\ UNCHANGED faults

\* Assignment to an entry of the nil map of annotations.
PanicNoAnnotations ==
    /\ Alive /\ ~IsDuplicate(job.seen.st) /\ IsFirst(job.seen)
    /\ job.seen.hash = NoAnnotations
    /\ Restart /\ UNCHANGED faults

RejectParameters ==
    /\ At("recorded") /\ job.seen.spec.params = "bad"
    /\ Reject(With(job.st, "Failed", "True", "ParametersError"))

\* The status is not told.
RejectDowngrade ==
    /\ At("recorded") /\ job.seen.spec.params = "ok" /\ Downgrading(job.seen)
    /\ Requeue
    /\ UNCHANGED <<obj, release, faults, world>>

-----------------------------------------------------------------------------
\* tryInstallOrUpdate.  It works on a second copy of the status, read from
\* the object that the API server returned when the hash was recorded.

Accepted == /\ At("recorded") /\ job.seen.spec.params = "ok"
            /\ ~Downgrading(job.seen)

Skip ==
    /\ Accepted /\ NotNow
    /\ UNCHANGED <<obj, release, faults, world>>
    /\ RequeueAfter

\* What a lookup of the kind finds.  The chart of the Edge Stack brings a
\* resource of either kind, the chart of the API Gateway none.
Present(kind) ==
    IF \E i \in Inst : release[i] # NoRelease /\ ~release[i].oss THEN "some"
    ELSE auth[kind]

\* canMigrate looks for the two kinds one after the other.
Looking(kind) ==
    \/ Accepted /\ ~NotNow /\ Migrating(job.seen) /\ kind = "AuthService"
    \/ At("halfway") /\ kind = "RateLimitService"

\* Variant of FindsNone: one lookup is enough.
FindsNoneOfOne(kind) ==
    /\ Looking(kind) /\ Present(kind) = "none"
    /\ UNCHANGED <<obj, release, faults, world>>
    /\ GoTo([job EXCEPT !.stage = "checked"])

FindsNone(kind) ==
    /\ Looking(kind) /\ Present(kind) = "none"
    /\ UNCHANGED <<obj, release, faults, world>>
    /\ GoTo([job EXCEPT !.stage = IF kind = "AuthService" THEN "halfway" ELSE "checked"])

\* Variant of CannotMigrate: the error of canMigrate is not returned.
CannotMigrateForgotten(kind) ==
    /\ Looking(kind) /\ Present(kind) = "some"
    /\ WriteStatus(With(job.seen.st, "Failed", "True", "UpgradePrecondError"))
    /\ Done
    /\ UNCHANGED <<release, faults, world>>

\* One exists, or the lookup fails.
CannotMigrate(kind) ==
    /\ Looking(kind)
    /\ LET st == With(job.seen.st, "Failed", "True", "UpgradePrecondError")
       IN  (Present(kind) = "some" /\ Reject(st)) \/ FailWith(st)

\* The Items of the nil list that lookupResourceList returns.
PanicNoKind(kind) ==
    /\ Looking(kind) /\ Present(kind) = "gone"
    /\ Restart /\ UNCHANGED faults

MayDownload == \/ Accepted /\ ~NotNow /\ ~Migrating(job.seen)
               \/ At("checked")

\* Variant of Download: the chart found is not kept.
DownloadNothing ==
    /\ MayDownload
    /\ UNCHANGED <<obj, release, faults, world>>
    /\ GoTo([job EXCEPT !.stage = "downloaded"])

Download ==
    /\ MayDownload
    /\ UNCHANGED <<obj, release, faults, world>>
    /\ GoTo([job EXCEPT !.stage = "downloaded", !.chart = repo])

DownloadFails ==
    /\ MayDownload
    /\ FailWith(With(job.seen.st, "Failed", "True", "DownloadError"))

SyncFails ==
    /\ At("downloaded")
    /\ FailWith(With(job.seen.st, "Irreconcilable", "True", "ReconcileError"))

Synced == [Without(job.seen.st, "Irreconcilable") EXCEPT !.check = job.time]

Unfailed == Without(Synced, "Failed")

\* Variant of Deploy: the error of Helm is not looked at.
DeployUnchecked(stage, reason) ==
    /\ \/ release' = [release EXCEPT ![job.inst] = Candidate]
       \/ UNCHANGED release
    /\ UNCHANGED <<obj, faults, world>>
    /\ GoTo([job EXCEPT
          !.stage = stage,
          !.st = [With(Unfailed, "Deployed", "True", reason) EXCEPT !.rel = Candidate]])

\* InstallRelease or UpdateRelease, up to the call of the release hook.
Deploy(stage, reason) ==
    /\ release' = [release EXCEPT ![job.inst] = Candidate]
    /\ UNCHANGED <<obj, faults, world>>
    /\ GoTo([job EXCEPT
          !.stage = stage,
          !.st = [With(Unfailed, "Deployed", "True", reason) EXCEPT !.rel = Candidate]])

Install ==
    /\ At("downloaded") /\ release[job.inst] = NoRelease
    /\ Deploy("installed", "InstallSuccessful")

InstallFails ==
    /\ At("downloaded") /\ release[job.inst] = NoRelease
    /\ HelmFails(With(Synced, "Failed", "True", "InstallError"), Candidate)

Update ==
    /\ At("downloaded") /\ release[job.inst] \notin {NoRelease, Candidate}
    /\ Deploy("updated", "UpdateSuccessful")

UpdateFails ==
    /\ At("downloaded") /\ release[job.inst] \notin {NoRelease, Candidate}
    /\ HelmFails(With(Synced, "Failed", "True", "UpdateError"), Candidate)

\* ReconcileRelease: DeployedRelease is set, the Deployed condition is not.
Reconcile ==
    /\ At("downloaded") /\ release[job.inst] = Candidate
    /\ UNCHANGED <<obj, release, faults, world>>
    /\ GoTo([job EXCEPT
          !.stage = "reconciled",
          !.st = [Without(Unfailed, "Irreconcilable") EXCEPT !.rel = Candidate]])

ReconcileFails ==
    /\ At("downloaded") /\ release[job.inst] = Candidate
    /\ FailWith(With(Unfailed, "Irreconcilable", "True", "ReconcileError"))

\* After an install or an update the error of the status write is returned...
ReportDeployed ==
    /\ job.stage \in {"installed", "updated"}
    /\ WriteStatus(job.st)
    /\ IF job.fresh THEN RequeueAfter ELSE Requeue
    /\ UNCHANGED <<release, faults, world>>

\* ... after a reconciliation it is ignored.
ReportReconciled ==
    /\ At("reconciled")
    /\ TryWriteStatus(job.st)
    /\ RequeueAfter
    /\ UNCHANGED <<release, world>>

-----------------------------------------------------------------------------
\* deleteRelease.

\* Variant of Terminating: taken by every CR with the finalizer.
TerminatingAny == At("loaded") /\ job.seen.spec.source = "ok"

Terminating == /\ At("loaded") /\ job.seen.gone
               /\ job.seen.spec.source = "ok"

Terminated ==
    /\ Terminating /\ ~job.seen.fin
    /\ UNCHANGED <<obj, release, faults, world>>
    /\ Done

DeleteFails ==
    /\ Terminating /\ job.seen.fin
    /\ \/ FailWith(With(job.st, "Failed", "True", "DownloadError"))
       \/ HelmFails(With(job.st, "Failed", "True", "UninstallError"), NoRelease)

\* Variant of Uninstall: every error passes for ErrReleaseNotFound.
UninstallUnchecked ==
    /\ Terminating /\ job.seen.fin
    /\ \/ release' = [release EXCEPT ![job.inst] = NoRelease]
       \/ UNCHANGED release
    /\ UNCHANGED <<obj, faults, world>>
    /\ GoTo([job EXCEPT !.stage = "uninstalled", !.st = Without(job.st, "Failed")])

Uninstall ==
    /\ Terminating /\ job.seen.fin
    /\ release' = [release EXCEPT ![job.inst] = NoRelease]
    /\ UNCHANGED <<obj, faults, world>>
    /\ LET st == Without(job.st, "Failed")
       IN  GoTo([job EXCEPT
              !.stage = "uninstalled",
              !.st = IF release[job.inst] = NoRelease THEN st
                     ELSE [With(st, "Deployed", "False", "UninstallSuccessful")
                             EXCEPT !.rel = NoRelease]])

ReportUninstalled ==
    /\ At("uninstalled")
    /\ WriteStatus(job.st)
    /\ IF job.fresh
       THEN GoTo([job EXCEPT !.stage = "reported", !.seen.st = job.st])
       ELSE Requeue
    /\ UNCHANGED <<release, faults, world>>

\* The API server removes an object with no finalizer left; as long as there
\* is another, waitForDeletion ends with an error.
RemoveFinalizer ==
    /\ At("reported")
    /\ obj' = IF ~job.fresh THEN obj
              ELSE IF job.seen.held THEN [obj EXCEPT ![job.inst].fin = FALSE]
              ELSE [obj EXCEPT ![job.inst] = NoObj]
    /\ IF job.fresh /\ ~job.seen.held THEN Done ELSE Requeue
    /\ UNCHANGED <<release, faults, world>>

\* Variant of CallFails: the error is logged and nil is returned.
CallFailsSilently ==
    /\ job # Idle /\ job.stage \notin {"recorded", "halfway", "checked"}
    /\ UNCHANGED <<obj, release, world>>
    /\ Fault /\ Done

\* A call whose error Reconcile just returns: the updates of the object, the
\* list of CRs, GetManagerFor, the release hook and the last status writes.
CallFails ==
    /\ job # Idle /\ job.stage \notin {"recorded", "halfway", "checked"}
    /\ Fault /\ Requeue
    /\ UNCHANGED <<obj, release, world>>

-----------------------------------------------------------------------------
\* Users, Helm repository, clock, informer, timers, crashes.

EditBy == edits < MaxEdits /\ edits' = edits + 1

\* Somebody else's write of the object: what the worker has is out of date.
Disturb(i) ==
    /\ job' = IF job # Idle /\ job.inst = i THEN [job EXCEPT !.fresh = FALSE] ELSE job
    /\ queue' = queue \cup {i}
    /\ EditBy
    /\ UNCHANGED <<release, cache, repo, auth, delayed, now, faults>>

Create(i) ==
    /\ obj[i] = NoObj
    /\ \E spec \in Specs, hash \in InitialHashes, held \in Holds :
         obj' = [obj EXCEPT ![i] =
                   [spec |-> spec, hash |-> hash, fin |-> FALSE, held |-> held,
                    gone |-> FALSE, created |-> now, st |-> NewStatus]]
    /\ Disturb(i)

Edit(i) ==
    /\ obj[i] # NoObj
    /\ \E spec \in Specs \ {obj[i].spec} : obj' = [obj EXCEPT ![i].spec = spec]
    /\ Disturb(i)

Delete(i) ==
    /\ obj[i] # NoObj /\ ~obj[i].gone
    /\ obj' = IF obj[i].fin \/ obj[i].held THEN [obj EXCEPT ![i].gone = TRUE]
              ELSE [obj EXCEPT ![i] = NoObj]
    /\ Disturb(i)

\* The other finalizer is removed.
LetGo(i) ==
    /\ obj[i] # NoObj /\ obj[i].held
    /\ obj' = IF obj[i].gone /\ ~obj[i].fin THEN [obj EXCEPT ![i] = NoObj]
              ELSE [obj EXCEPT ![i].held = FALSE]
    /\ Disturb(i)

ToggleAuth ==
    /\ auth' \in Clusters \ {auth}
    /\ EditBy
    /\ UNCHANGED <<obj, release, cache, repo, queue, delayed, job, now, faults>>

Publish ==
    /\ repo < MaxChart /\ repo' = repo + 1
    /\ UNCHANGED <<obj, release, cache, auth, queue, delayed, job, now, edits, faults>>

Tick ==
    /\ now < MaxTime /\ now' = now + 1
    /\ UNCHANGED <<obj, release, cache, repo, auth, queue, delayed, job, edits, faults>>

CacheCatchesUp ==
    /\ cache' = [i \in Inst |-> Created(i)]
    /\ UNCHANGED <<obj, release, repo, auth, queue, delayed, job, now, edits, faults>>

TimerFires(i) ==
    /\ i \in delayed
    /\ delayed' = delayed \ {i} /\ queue' = queue \cup {i}
    /\ UNCHANGED <<obj, release, job, faults, world>>

Crash == Fault /\ Restart

-----------------------------------------------------------------------------

Init ==
    /\ obj = [i \in Inst |-> NoObj]
    /\ release = [i \in Inst |-> NoRelease]
    /\ cache = [i \in Inst |-> 0]
    /\ repo = 1 /\ auth = [kind \in Services |-> "none"]
    /\ queue = {} /\ delayed = {} /\ job = Idle
    /\ now = 1 /\ edits = 0 /\ faults = 0

\* What Reconcile does when no call fails for a reason of its own.
Handle ==
    \/ AddFinalizer \/ RejectVersion \/ RejectRepo
    \/ IgnoreDuplicate \/ MarkDuplicate \/ PanicNotListed
    \/ RecordSpecHash \/ PanicNoAnnotations
    \/ RejectParameters \/ RejectDowngrade
    \/ Skip \/ Download
    \/ \E kind \in Services : FindsNone(kind) \/ CannotMigrate(kind) \/ PanicNoKind(kind)
    \/ Install \/ Update \/ Reconcile \/ ReportDeployed \/ ReportReconciled
    \/ Terminated \/ Uninstall \/ ReportUninstalled \/ RemoveFinalizer

Fail ==
    \/ DownloadFails \/ SyncFails \/ InstallFails \/ UpdateFails
    \/ ReconcileFails \/ DeleteFails \/ CallFails \/ Crash

Environment ==
    \/ \E i \in Inst : Create(i) \/ Edit(i) \/ Delete(i) \/ LetGo(i)
    \/ ToggleAuth \/ Publish \/ Tick

Next ==
    \/ \E i \in Inst : Lookup(i) \/ TimerFires(i)
    \/ CacheCatchesUp \/ Handle \/ Fail \/ Environment

Spec == Init /\ [][Next]_vars

\* The worker and the informer run; the queue is first in first out, so a
\* request in it is not passed over forever.  Users, the repository, the
\* clock and failures owe nothing.
Fairness ==
    /\ WF_vars(Handle) /\ WF_vars(CacheCatchesUp)
    /\ \A i \in Inst : SF_vars(Lookup(i)) /\ WF_vars(TimerFires(i))

FairSpec == Spec /\ Fairness
=============================================================================
