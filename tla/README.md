# TLA+ specifications of the Ambassador operator

This directory specifies the Ambassador operator (`src/`, Go, operator-sdk and
controller-runtime) in TLA+: modules that follow the code step by step, TLC
configurations that check them on small instances, and theorems that TLAPS
checks for every instance. Source references are relative to
`src/pkg/controller/ambassadorinstallation/` unless a path is given.

## 1. The system

The operator watches custom resources (CRs) of kind `AmbassadorInstallation`.
For each it installs Ambassador with Helm, upgrades it when a newer chart is
published, and uninstalls it when the CR is deleted. One worker takes requests
(names of CRs) from a work queue and calls `Reconcile` for each.

| Component | State | Operations |
|---|---|---|
| Reconciler (`reconcile.go`, `reconcile_update.go`, `reconcile_delete.go`, `reconcile_utils.go`, `comp.go`) | the CR: spec, annotation `last-spec-hash`, finalizers, creation and deletion timestamps, status (conditions, deployed release, time of the last check); the Helm release of the CR; the work queue | read the CR, add the finalizer, refuse a bad version or repository, detect duplicates, record the hash of the spec, validate parameters, refuse a migration AES to OSS, gate automatic updates, check a migration OSS to AES, download, install / update / reconcile, write the status, uninstall, remove the finalizer |
| Condition list (`src/pkg/apis/getambassador/v2/ambassadorinstallation_types.go`) | `status.conditions` | `SetCondition`, `RemoveCondition`, `LastCondition` |
| Update gate (`update_window.go`, `utils.go`, head of `tryInstallOrUpdate`) | update window, check and update intervals, time of the last check, the delayed request | `NewUpdateWindow`, `Allowed`, `getEnvDuration`, the periodic check |
| Chart downloader (`src/pkg/helm/downloader.go`, `version_rule.go`) | index of the repository, temporary directories and files | search the index, download, unpack, look the chart up, clean up (twice per call) |
| Helm values (`charts.go`, `files.go`, parts of `reconcile.go`) | maps of values, for the length of a call | merge defaults, files, `spec.helmValues`, packed values and the operator's own strings |
| Dependent watches (`controller.go`) | the kinds watched so far, in memory | release hook, predicates, events of dependents |
| Scout metrics, Helm command installer, process start, generated code | none that the operator reads back | not modelled (section 8) |

How they interact. Users write CRs at any time, also between two steps of a
`Reconcile` call. The API server refuses a write that is based on an old
`resourceVersion`. Every change of a CR is an event that puts it in the queue;
an error return puts it back; `RequeueAfter: checkInterval` puts it back later.
CRs are read uncached, while the typed list that decides which CR is the first
in its namespace comes from an informer that lags. After every Helm operation the
release hook starts watches for the kinds in the manifest; an event of a watched
dependent puts its CR in the queue. The reconciler reads the
status it wrote in earlier calls as its memory: the type of the *last* condition
decides whether updates are gated and which default values are used, and
`status.deployedRelease` decides about migrations.

What is hard: a call is a sequence of a dozen remote operations, each of which
may fail, and users, the clock, the Helm repository and a crash act between any
two of them; the outcome of one call is the input of the next through a status
whose write may have been lost.

What makes each component correct:

- reconciler: no release without a CR that has the finalizer; one owner of the
  namespace; a duplicate never owns a release; the status announces nothing
  false; only a deleted CR is uninstalled; the last spec is applied; automatic
  updates wait; deletions complete;
- condition list: one entry per type, the newest transition is the last condition;
- update gate: an opening of the window starts exactly one update;
- downloader: the newest allowed chart whatever the order of the index, a chart
  in use is on the disk, nothing is left behind, nothing foreign is removed;
- Helm values: one precedence of all sources, the flavor of the spec, and nothing
  that was filled in becomes part of the stored spec;
- dependent watches: every kind of a reported release is watched once, what others
  change is put right in the end, and the operator's own writes do not keep it busy.

## 2. Modules

| Module | Models | Builds on |
|---|---|---|
| `Conditions` | the three functions on condition lists, as operators | community modules |
| `ConditionHistory` | every history of calls on one list | `Conditions` |
| `AmbInstReconciler` | `Reconcile` and everything it calls, users, clock, repository, informer, failures, crashes | `Conditions` |
| `InstallationLifecycle` | the abstract specification: the life of CRs and their Ambassadors | |
| `AmbInstProperties` | what the reconciler promises, and how it implements the lifecycle | `AmbInstReconciler`, `InstallationLifecycle` |
| `AmbInstPromises` | what the docs promise and the code does not keep | `AmbInstProperties` |
| `UpdateGate` | periodic checks, intervals and crontab windows, in cyclic time | |
| `ChartDownload` | one download after the other: index search, disk, cleanup | |
| `DependentWatch` | the release hook, the watches and their events, with the gate and the report of the reconciler | |
| `HelmValues` | what a chart is rendered with, over several calls | |
| `MCConditionHistory`, `MCAmbInst`, `MCUpdateGate`, `MCChartDownload`, `MCDependentWatch`, `MCHelmValues` | values of the constants for TLC | |
| `ListLemmas` | facts about lists, loops written as folds, and the operators of `Conditions` and their loops | TLAPS |
| `ConditionHistoryProofs` | unique types, the loop of `LastCondition`, transitions come last, the other conditions keep their order | TLAPS |
| `AmbInstInvariants` | type correctness, ownership of releases, no request is lost, statuses are true | TLAPS |
| `AmbInstLifecycle` | the lifecycle is implemented and serves the oldest; where the operator rests an Ambassador is installed; blocked migrations wait, what rests is applied, updates wait and keep the license | TLAPS |
| `UpdateGateProofs`, `ChartDownloadProofs`, `DependentWatchProofs`, `HelmValuesProofs` | one update per opening, none missed by prompt checks; charts stay on the disk and nothing else does, the search finds the newest; kinds are watched once and none is left out; precedence of the values, and whose the stored spec is | TLAPS |

Definitions named `Variant of X` in the modules are altered forms of `X`, the way
a plausible bug would alter it. No specification uses them; they show that a
property tells the code from its near misses.

### AmbInstReconciler

The variable `job` is the local state of the call in progress (`Idle` between
calls): `job.seen` is the Go variable `ambIns`, the object as it was read or as
the last update returned it; `job.fresh` says whether its `resourceVersion` is
still current, and a user's write of the object clears it; `job.st` is the copy of the status that is being
changed; `job.changed` is `specChanged`; `job.secret` is the default value
`licenseKey.createSecret`. `job.stage` is the place in the code, and every action
runs from one remote operation to the next:

| Stage | Actions that leave it | Code |
|---|---|---|
| (idle) | `Lookup` | `lookupAmbInst`, `reconcile.go:125-161` |
| loaded | `AddFinalizer`, `RejectVersion`, `RejectRepo`, `IgnoreDuplicate`, `MarkDuplicate`, `RecordSpecHash`, `PanicNotListed`, `PanicNoAnnotations`, `Terminated`, `Uninstall`, `DeleteFails` | `reconcile.go:163-315`, `reconcile_delete.go:25-88` |
| recorded | `RejectParameters`, `RejectDowngrade`, `Skip`, `FindsNone`, `CannotMigrate`, `PanicNoKind`, `Download`, `DownloadFails` | `reconcile.go:317-450`, `reconcile_update.go:37-104`, `337-363` |
| halfway | `FindsNone`, `CannotMigrate`, `PanicNoKind` (the second lookup of `canMigrate`) | `reconcile_update.go:350-363` |
| checked | `Download`, `DownloadFails` | `reconcile_update.go:91-104` |
| downloaded | `SyncFails`, `Install`, `InstallFails`, `Update`, `UpdateFails`, `Reconcile`, `ReconcileFails` | `reconcile_update.go:107-311` |
| installed, updated, reconciled | `ReportDeployed`, `ReportReconciled` | `reconcile_update.go:179-315` |
| uninstalled, reported | `ReportUninstalled`, `RemoveFinalizer` | `reconcile_delete.go:90-141` |
| any | `CallFails`, `Crash` | the plain error returns |

Abstractions: a spec is whether its chart source (version and repository URL) and its parameters are
accepted, the flavor, the set of times at which its window is open (one that does not parse
is open at none and no error, see section 4), and one
value that stands for everything else that reaches the manifest; the hash is the
spec itself (no collisions); a manifest is the chart, flavor, values and
`createSecret` it is rendered from; messages are left out; back-off delays are
arbitrary; a Helm operation that fails, at the deadline of the call for instance,
has taken its effect or has not (`HelmFails`), but nothing in between; a finalizer
of another controller is the flag `held`. Of AuthServices and RateLimitServices the
model knows whether some exist that no release of these CRs brought (`auth`), and that the
chart of the Edge Stack brings one of each; `"gone"` is a kind whose list call
is answered with "not found". The informer may
catch up at any moment, then with the present list (`CacheCatchesUp`): a call may
find any earlier list, but two calls do not find two different lists that were both
out of date when the first one looked.

### InstallationLifecycle

A CR is absent, pending, refused (a duplicate), running, leaving (marked for
deletion while its Ambassador runs), left (marked, nothing runs) or dropped (refused
and marked: nothing ever runs). The module
says which phase may follow which, and that an Ambassador is started only for a
CR that no other CR precedes by creation time. It knows nothing of calls, copies,
caches, finalizers or retries. `OldestRun` is what it is good for: an Ambassador that runs, for
however long, is that of a CR that nothing precedes. `PhaseOf` of `AmbInstProperties` reads the phase off
`obj` and `release`; `ImplementsLifecycle` is `Lifecycle!Spec` under this mapping.
Installing maps to `Start`, also by an operation that reports a failure;
uninstalling to `Stop`; a deletion by a user to `Mark`, or to `Vanish` if no finalizer
holds the CR; everything else to a stutter.

### UpdateGate

The clock is cyclic (`phase`), and what counts is distances: `age` of the last
recorded check, `wait` until the delayed request, `aimed`, the openings ahead
that an update was already meant for (not a variable of the code; it states a
property). `slack` is what a call and its way through the queue add to
`checkInterval`. Crontab lines fire at even phases and the operator starts at an
odd one (`EvenAssumption`), since the code compares whole seconds with nanoseconds and a
prompt check never falls on the nanosecond of a firing. The settings of `AMB_CHECK_INTERVAL` and
`AMB_UPDATE_INTERVAL` include one that does not parse.

### ChartDownload

Calls follow one another; each picks a source, a rule and (from a Helm
repository) an index. `Search` is the loop of `findInRepo`, a fold over the
entries. `dir`, `cleanup` are the fields of the `Downloader`; `disk` and
`archives` are what exists in the temporary directory. An error inside
`Download` returns before the caller has registered its `Cleanup`.

### DependentWatch

`known` is what the REST mapper knows, `watches` the map of `controller.go`,
`handlers` how many watches exist per kind. `call` is the `Reconcile` call: at the
gate (`Skip`, `Apply`, `ApplyFails`), in the hook at one document (`PassOver`, `Record`,
`Watch`, `WatchFails`, `NotMapped`), at its end (`Report`, `ReportFails`). Others change and
delete dependents (`Drift`), dependents report their own status (`StatusChanges`), the
process restarts (`Crash`). Of the conditions `deployed` keeps whether there is one of type
`Deployed` and whether that of a failure is newer: a failure hides it, a successful
reconciliation removes what hides it, and only a deployment brings it. Time is the distance `age` to the last check, up to
the update interval, and it passes only while there is neither a call nor a request:
the two intervals are hours, calls that follow one another are not. An update of
a dependent passes the predicate if anything but its status and resource version
differs (`Passes`); that an API server which records field managers changes
`metadata.managedFields` with every status update is a limit of the model.

### HelmValues

A value is *who gave it*: the user, a file, another file, the defaults of new
installations or of upgrades, the operator, the base image, the OSS flavor; only for
`enableAES` it is the value itself. A tree is a function on eight leaves that lie
under six keys of the top, since `AppendFrom` merges whole keys of the top;
`packed` are keys with dots, which `GetManagerFor` gives to Helm as strings. One
action is one step of the call: `Lookup` reads the CR (`spec`, `copy`), `RecordSpecHash`
writes it back whole (`UpdateResource`), the next ones fill `copy` in and render the chart
(`GetManagerFor`), and `Reject` or `Finish` writes the filled copy once more, as a status
(`UpdateResourceStatus`). `fresh` says whether the copy's `resourceVersion` is still
current: the API server refuses a write of one that is not, and of a write to the status
subresource it takes the status only. Users edit the stored spec at any step, and `asked` is a history
variable: the spec they wrote last. `Panic` is `SetNestedField` on a value of a type
that `DeepCopyJSON` does not know.

## 3. Runs

Passing runs. The sizes are the reachable distinct states.

| Run | Instance | Shows |
|---|---|---|
| `ConditionHistory` | 17 thousand; every call the reconciler makes, 3 seconds | `UniqueConditionTypes`, `TransitionIsLast`, `OthersUntouched`, and that `LastCondition` is what the loop computes |
| `Ownership` | 585 thousand; 2 CRs, 4 user actions, 1 failure or crash, 2 seconds | `NoOrphanRelease`, `SoleReleaseUnlessTied`, `DuplicateHasNoRelease`, `NothingAnnouncedFalsely`, `NeverForgotten`, `UninstallOnlyDeleted`, and `ImplementsLifecycle`: every step is a step of `InstallationLifecycle` or none |
| `Edits` | 420 thousand; 1 CR, both flavors, 2 values, 4 user actions, 3 seconds, AuthServices and RateLimitServices that come and go | `SettledIsApplied`, `NoBlockedMigration` and, under fairness, `AppliedInTheEnd`, also across edits that interrupt a call |
| `Updates` | 1.9 million; windows that are always, sometimes and never open, 3 charts, 5 seconds, interval 2, 2 user actions, 1 failure or crash | `AutomaticUpdatesWait`, `UpgradesKeepLicense` |
| `Recovery` | 136 thousand; good and refused specs, with and without annotations and foreign finalizers, a kind that vanishes, 2 failures or crashes | `SettledIsInstalled`: nothing is left alone without an Ambassador; under fairness `InstalledInTheEnd`, `DeletionCompletes` |
| `UpdateGate` | 18 thousand; 7 windows, 4 times 3 settings of the intervals, prompt and slow calls | `OneUpdatePerOpening`, `PromptChecksMissNothing`, under fairness `UpdatesGoOn` |
| `ChartDownload` | 161 thousand; every index of up to 3 entries with versions that parse or not, every rule over 2 versions, 2 failed calls | `NewestAllowed`, `NoFalseAlarm`, `ChartIsKept`, `OnlyFailuresLeave` |
| `DependentWatch` | 61 thousand; 5 kinds, of them one cluster-scoped, two ignored and one of these new with the second chart, 2 drifts, 2 failures or crashes | `OneHandlerPerKind`, `ReportedIsWatched`, under fairness `ComesToRest`, `DriftIsRepaired`, `WatchedInTheEnd` |
| `HelmValues` | 210 thousand; 2 files with 4 contents each, 18 trees of users, every setting of base image, flavor, log level, version; between two calls any of these specs is written, during a call one of each flavor | `ChartIsReference`, `FlavorIsRendered`, and `StoredSpecIsUsers`: the two writes of a call neither take back an edit nor store what the call filled in |

Runs in which TLC refutes a statement of the docs or comments:

| Run | Statement | What happens |
|---|---|---|
| `LostChange` (`SettledIsApplied` with a failure and a window that is closed) | a changed spec is applied although it is not the time | the hash is stored before the spec is applied; when the call fails later, the retry sees no change and is gated |
| `HalfMigration` (`UpgradeBySpec`) | "simply remove the `installOSS: true` field" to go from OSS to the Edge Stack | an edit during the Helm operation makes the API server refuse the status; the next call takes the migration for pending and finds the AuthService that the Edge Stack itself brought, for good |
| `BusyLoop` (`RetriesWait`) | "if something fails, we will try again in defaultCheckInterval seconds" | the report of a deployment is lost once; the retry takes the path of a reconciliation, which never sets `Deployed`, so the gate never holds, and every status write asks for the next call |

### Bounds, and why they are enough

Two CRs suffice for ownership: the comparison is pairwise, and the theorems of
section 5 cover any number. Four user actions allow create, edit, delete and create
again in one behavior; two failures allow a failure of a retry. Three seconds
tell "before", "same second" and "later" apart, and exceed the update interval of
the configurations. Charts are only compared for equality, so two (three in
`Updates`) are enough to have an update while another waits. In `UpdateGate` the
day is two check intervals of the default, long enough for an opening to be
seen by no, one and two checks; in `ChartDownload` three entries allow a latest
entry to be replaced, kept and passed over. In `DependentWatch` the first manifest
has a repeated kind, an empty document and both sorts of kinds that are not watched before those that
are; the second one adds a kind, drops one and brings a kind that is mapped only
later. In `HelmValues` two files tell the last from the others, and one spec of each flavor,
with a tree of its own, tells an edit during a call from what the call has read (`LateSpecs`). Every bound on
an otherwise unbounded counter is a CONSTANT named `Max...`.

Deadlock is checked in every run: the informer, the clock modulo a day, or a restart
is always possible, so what it excludes here is an action of the worker that is wrongly
disabled only where nothing else can run; the liveness properties cover the rest.

### Fairness, and why the code justifies it

`AmbInstReconciler`: weak fairness of the steps of a call (`Handle`), since Go code that
is running goes on; of the informer and of the timers; strong fairness of taking
a given CR out of the queue, since the work queue is first in, first out. No
fairness of users, the repository, the clock, or of failures; failures are
bounded, that is, they stop some time. Liveness is stated for CRs that are *acceptable*
(`Acceptable`): a spec that parses, annotations present, first in the namespace, and
nothing that blocks a migration.

`UpdateGate`: time passes and a request that is due is handled.

`DependentWatch`: weak fairness of the worker and of the timer of a `RequeueAfter`.
Time passes only while the operator rests (`AtRest`), so weak fairness would owe
nothing to an operator that rests again and again: `Age` is strongly fair. That the REST mapper learns of a
kind is no fairness but a premise of the properties that need it.

## 4. Findings beyond the runs

Met while modelling, present in the model, and not given a run of their own.
Reconciler:

- Creation timestamps have a resolution of a second and are compared for equality
  (`reconcile_utils.go:74`): two CRs of the same second are both the first, and both
  install. `SoleReleaseUnlessTied` is the strongest statement that holds.
- A CR without annotations makes the operator panic on every attempt
  (`comp.go:86` writes to the nil map of `GetAnnotations`): action
  `PanicNoAnnotations`; liveness is stated for CRs with annotations only.
- A CR whose version or repository does not parse cannot be removed, as the
  `FIXME` at `reconcile.go:199` says: `RejectVersion`, `RejectRepo` precede
  `Terminating`; `DeletionCompletes` excludes them.
- A CR that is created while the cached list still shows a deleted one is marked
  as its duplicate, for good (`MarkDuplicate`, `IgnoreDuplicate`).
- After a failed call, or an edit during one, the last condition is not `Deployed`: the next
  upgrade uses the values of a new installation, creates the license secret anew, and
  no gate holds it back. `UpgradesKeepLicense` and `AutomaticUpdatesWait` are therefore
  about an Ambassador that is happily deployed, as its status says (`HappilyDeployed`), and fail
  without this premise.
- A migration from the Edge Stack to OSS, "not currently supported"
  (`docs/using.md:81`), is refused by the status (`reconcile.go:378`). When the status of the
  installation was lost, it is carried out.
- A refused migration from the Edge Stack to OSS is retried without any trace in
  the status (`RejectDowngrade`), where "any errors will be posted" (`docs/using.md:73`).
- `canMigrate` looks for AuthServices, then for RateLimitServices. What is created between its
  lookup and the Helm operation is not noticed (`NoBlockedMigration` is about services that
  stay), the lookup is not limited to the namespace, and for a kind whose list
  is "not found" the process panics (`reconcile_utils.go:110`, `PanicNoKind`).
- `http.Get` has no timeout (`downloader.go`), and the deadline of the call does not reach it:
  a server that does not answer stops the only worker.

Update gate:

- A window that does not parse never allows an update (`update_window.go:75-79`), which
  only the log tells: `NewUpdateWindow` returns no error for anything, so the refusal of such a spec
  (`reconcile.go:428-447`) is dead code and no action of the model.
- `Never` is meant to "disable all updates" (`docs/using.md:110`), but setting it is a change of
  the spec, so the gate is skipped and the newest chart is applied at once.
- `nextRunTime` "is when the reconcile loop will be run next" (`update_window.go:84`);
  the next run is later than that, a firing in the gap is seen by neither run, and a
  weekly window is missed by a week. `PromptChecksMissNothing` is about calls without delay.
- An interval in the environment that does not parse is logged as ignored and is
  zero (`utils.go:41-45`). The comments at `reconcile_update.go:26-30` say "in
  seconds", but a plain number does not parse. With a check interval of zero no periodic check takes place;
  with an update interval of zero every event updates. `OneUpdatePerOpening` and
  `UpdatesGoOn` exclude these settings.

Downloader:

- A failed download leaves its temporary directory behind until the container is
  restarted (`OnlyFailuresLeave` states the converse), and a single entry with an
  `AppVersion` that does not parse makes the search fail (`Offends`).

Dependent watches:

- A dependent that is deleted while the gate is closed is not put back before the
  gate opens, under `Never` not at all: the event asks for a call, and the call is
  skipped (`DriftIsRepaired` is about windows that are open).
- A new process watches nothing until it gets past the gate.
- A kind that is not mapped fails the hook even if it is one of the ignored kinds
  (`NotMapped`): the mapping is looked up first.

Helm values:

- The operator's strings are called "high-precedence values: they will override any
  other values" (`reconcile.go:348`), but a packed key of the spec or of a file
  overrides them (`Packed` before `Given` in `ChartIsReference`).
- The OSS repository is meant not to override "user supplied configuration"
  (`reconcile.go:400`), but only `spec.baseImage` is looked at: an
  `image.repository` in a tree of `spec.helmValues` is overridden.
- A file's `enableAES` is not compared with `installOSS`; `FlavorIsRendered` excludes it.
- A user's `licenseKey` replaces the whole default map, and with it `createSecret`.
- A file with a tree or an integer makes the process panic, unless the spec has the same key:
  `yaml.v2` gives maps and numbers of types that `SetNestedField` cannot copy (`Panics`).
- `parseRepoTag` refuses an image of a registry with a port.

## 5. Proofs

All theorems hold for every value of the constants under the named assumptions
(`BoundsAssumption`, `SpecsAssumption`, ... : bounds are numbers, specs are spec
records, the sentinels are not objects; and `EvenAssumption`, see `UpdateGate`). TLC evaluates the assumptions in the runs.

- `ConditionTypesStayUnique` (`ConditionHistoryProofs`). `SetCondition` replaces in
  place or appends, `RemoveCondition` selects: the lemmas of `ListLemmas` say
  what that does to the positions of a list, which entries the list has afterwards, and
  that `LastCondition` finds a reason if and only if an entry has it.
- `LastConditionIsTheLoop`, `TransitionBecomesLast` (`ConditionHistoryProofs`). The loop is a fold, which the
  community modules define by the `CHOOSE` of a function on sets of places. `FoldExists` says that there is
  one for every list, and `UpToInduction`, about a set of numbers and without an operator as a
  parameter, carries a fact through its rounds. The result of the loop
  is the first of the conditions with the latest time, which is how `LastCondition`
  chooses. `TransitionIsLast` compares the list after the step, where the new entry
  is the only one with its time.
- `OthersAreUntouched` (`ConditionHistoryProofs`). What a call leaves of the other conditions is stated by
  a map of the old places to the new ones that is onto and keeps the order. `SetCondition` replaces in place
  or appends, so the map is the identity; for `RemoveCondition` it moves the places behind the one
  that is removed by one (`RemoveConditionShape`: at most one place is removed).
- `TypeCorrect` (`AmbInstInvariants`). `TypeOK` is not inductive: `ReportDeployed`
  writes a status into an object, which must exist. The strengthening `TypeInv`
  adds `JobCurrent` (while `job.fresh` holds, the stored object is the one in hand:
  optimistic concurrency) and `ChartChosen`.
- `NoReleaseIsOrphaned`, `ReleasesAreSole`, `OnlyDeletionUninstalls`
  (`AmbInstInvariants`). The inductive invariant `OwnInv` is `TypeInv` with
  `ClockInv` (no CR is from the future, which makes a new CR the youngest),
  `CacheInv` (a list that shows a CR does not miss an older one; it may show
  deleted ones), `JobHolds` (a CR read with the finalizer still exists, is the
  same CR, and is still being deleted, because only the worker removes the finalizer
  and a deletion is never taken back) and `OwnersAreEligible` (whoever has a
  release, or is about to get one, has the finalizer and is among the oldest).
  None of the three theorems is inductive without them: the decision to install is
  taken several steps before the release exists.
- `NothingIsForgotten` (`AmbInstInvariants`). `PendingInv` adds to `NeverForgotten` that
  the CR of a call in progress is in the queue again if the call's copy is out of date
  (`AskedAgain`): whoever writes a CR causes an event for it. So the calls that end
  without asking for another one (`Done`) either leave a CR that is retired, or know that
  it was asked for by others.
- `DuplicatesOwnNothing`, `AnnouncementsAreTrue` (`AmbInstInvariants`). `StatusInv`,
  inductive together with `OwnInv`, speaks of the stored statuses and of the two copies
  the call has in hand: an owner (a CR with a release or about to get one) is no
  duplicate, and what a status announces is installed unless the CR is being
  deleted. `MarkDuplicate` keeps it because an owner is the first in the cached list
  (`OwnersAreEligible`) and the CR that is marked is not. What a write does to the mark
  follows from `ReasonIsFound`, `SetConditionEntries` and `RemoveConditionEntries`; that
  the mark survives `RejectVersion`, the one other write into the status of a duplicate,
  needs that it is a condition of type `Irreconcilable` only (`MarksTyped`).
- `LifecycleIsImplemented` (`AmbInstLifecycle`): `Spec => Lifecycle!Spec`. From `OwnInv`,
  `StatusInv` and `MarkInv`, every step moves at most one CR, and moves it as the lifecycle says:
  an installation, also one that fails after it took effect, is a `Start` (the CR is an
  owner, so the oldest and not refused), an uninstallation a `Stop`. `MarkInv` keeps refused and
  pending CRs apart until they are gone: the status that is written during a deletion has the mark of
  a duplicate if and only if the stored one has it.
- `LifecycleServesOldest` (`AmbInstLifecycle`): `Spec => []Lifecycle!OldestRun`. It is proved of the abstract
  specification, where it takes only that nothing is created in the past (`NoneFromTheFuture`), and
  carried over to the reconciler by `LifecycleIsImplemented`.
- `CopiesAreKept` (`AmbInstLifecycle`): `HandInv`, inductive with `OwnInv`. The status and the hash of
  the CR in hand are the stored ones (users write the spec only, and a conflict ends the call),
  the copy that is being changed differs from it by no deployment (`Amends`) until
  Helm has acted, and from the recorded hash on the decisions of the call (values, gate, lookup) agree with the
  copy they were taken on. The theorems below rest on it.
- `BlockedMigrationsWait` (`AmbInstLifecycle`). `StaysOSS` is inductive while the service stays: the API
  Gateway runs, the stored status and the copy in hand say so, and no call has got past
  the lookup of that kind or the gate with a spec that asks for the Edge Stack. It starts
  with no call in progress, which is what the property presumes.
- `RestMeansApplied` (`AmbInstLifecycle`): `Spec => [](faults = 0 => SettledIsApplied)`. `AppliedInv`: a
  hash that is recorded has been applied, unless its spec is refused or the call that recorded it is
  still at work (`Answered`); a call that finds its spec unchanged, or has acted, runs what it says
  (`CallAnswers`). A call that ends without asking for another one has either
  skipped, and then the hash answers for the spec, or reported what it deployed. The premise cannot go: `LostChange` is the
  counterexample with one failure.
- `RestMeansInstalled` (`AmbInstLifecycle`): `Spec => []SettledIsInstalled`, with any failures, which is
  what is left of `SettledIsApplied` then. `RestInv` adds that a CR with a `Deployed` condition has an
  Ambassador until its deletion (`Stands`). The calls that end and leave a CR alone are the five of
  `SettlesHow`: two of them leave or find a duplicate, `Skip` was let pass by a `Deployed` condition, and
  the two reports have a release in hand that is installed (`StatusInv`). Every other end of a call, and every failure,
  asks for another one.
- `HappilyDeployedWaits`, `HappilyDeployedKeepsLicense` (`AmbInstLifecycle`), with any failures and edits.
  `DatesInv`: a status that says `Deployed` has a time of the last check, so that the
  gate of a happily deployed Ambassador does not compare with zero. A release is replaced only by a call that
  got through the gate with the status that is still stored (`ReplacedHow`).
- `OneUpdate` (`UpdateGateProofs`). `GateInv`: an opening that an update was meant
  for is nearer than `checkInterval` minus the age of that update; so once the
  update interval is over, it has passed. `GateTyped` takes the type of `aimed` from it.
- `PromptChecksSuffice` (`UpdateGateProofs`). `PromptInv`: without delays the next check is never further
  away than `checkInterval`, it is at an odd phase, and whatever fires before it finds a
  check younger than both intervals together. The check that is the last before an
  opening is allowed by it, since the opening is nearer than `checkInterval` (not as far: the parity), so it
  either updates or came too early. It rests on `EvenAssumption`, the convention that crontab lines and check
  intervals are even (section 2), and on remainders: `FullTurn`, `SameParity`.
- `ChartsAreKept`, `NothingElseIsLeft` (`ChartDownloadProofs`). `DiskInv`: from its creation to the first
  cleanup the directory exists, and only a directory made by the call is marked
  for cleanup. `LeftInv`: apart from the directory and the file of the call in progress,
  there are no more of either than calls that failed.
- `ChartTyped`, `FoundIsNewest`, `SearchFailsForAReason` (`ChartDownloadProofs`). `FindInv` adds to
  `TypeOK` that what was found is the result of `Search`, the loop over the entries as a fold. By
  induction on the rounds the candidate is allowed, no entry before is of a newer allowed
  `AppVersion`, and, if all versions parse, none of the same `AppVersion` is newer; when
  there is no candidate and no error, no entry before was allowed.
- `WatchTyped`, `HandlersAreSingle`, `NoneIsLeftOut` (`DependentWatchProofs`). `WatchInv`: the map of watches and the
  handlers agree in every state, since a kind is recorded in the step that starts its
  watch; of the manifest in progress every document before the one in hand is
  watched or not to be; and a new process forgets both.
- `ValuesTyped`, `PrecedenceIsKept`, `FlavorIsKept`, `SpecIsUsers` (`HelmValuesProofs`).
  `ValuesInv` is `TypeOK` with `Established`, what each stage of a call has reached: up to the
  first write the copy is the spec as it was read; after
  `n` files `filled` is what `Filled` and `FilledPacked` say of `n` files, after
  `WriteToAmbIns` the copy is the spec above that, then the strings are `Given`. The
  induction over the files is the step `ReadFile`: `Filled` names the last file that has
  a key by `CHOOSE`, which is the file just read or the one it was before. `Unspoilt` adds
  that a copy that is still fresh was read from the spec that is stored: the write of the hash then stores what was there,
  an edit by a user makes the copy old, and the status writes of the filled copy leave the spec alone.

Only model-checked is all liveness (`AppliedInTheEnd`, `InstalledInTheEnd`, `DeletionCompletes`, `UpdatesGoOn`, `ComesToRest`,
`DriftIsRepaired`, `WatchedInTheEnd`): fairness is out of the prover's reach. Part of what they stand
on is proved: no request is lost, what rests is installed, and while nothing has failed it is what the spec says.

## 6. Plan

Done: all components with behaviour of their own are modelled, the reconciler
is proved to implement an abstract specification, and every invariant the runs check is
proved (`SettledIsApplied` for as long as nothing has failed). What is left is the half of the
liveness properties that says that a call can go on (no stage without a step); it is
about `ENABLED`, and the runs check it with the liveness itself.

## 7. Running

    tlc -config Ownership.cfg MCAmbInst
    tlapm AmbInstInvariants.tla

`PROJECT.json` lists every run with its module, and maps each definition to the lines it models.

## 8. Not modelled

- Helm itself: rendering, an operation that stops half way, the release store.
- Scout metrics (`scout.go`): reports that nothing reads back.
- `src/pkg/helm/installer.go`: wraps the helm command line and is called by nothing.
- `src/cmd/manager`: wiring; leader election gives the one active process that
  `AmbInstReconciler` assumes.
- The calendar of crontab lines (a line is a set of phases), SemVer (versions are
  numbers, a rule is a set), URLs, archives, image names, messages and logging.
- Values below the leaves of `HelmValues`, and files that change while a call
  reads them.
- Several CRs and edits of the spec in `DependentWatch`; the reconciler module has those.
- A call that blocks for ever: nothing can be promised of it.
