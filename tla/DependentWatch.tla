---------------------------- MODULE DependentWatch ----------------------------
(***************************************************************************)
(* The watches on what Helm installs for an AmbassadorInstallation, its    *)
(* dependents (controller.go).  The release hook, called after every Helm  *)
(* operation, goes through the documents of the manifest and starts a      *)
(* watch for each kind it meets for the first time; an event of a watch    *)
(* that the predicate passes asks for a call of Reconcile.                 *)
(*                                                                         *)
(* There is one CR here, whose spec does not change, and Reconcile is      *)
(* reduced to what the watches depend on: the gate of                      *)
(* reconcile_update.go, the Helm operation, the hook, the report.  Others  *)
(* change and delete dependents between any two steps.  Whether the REST   *)
(* mapper finds a kind that was defined while the process runs is open: it *)
(* may (Discover) or may not, but a new process finds it.  An informer     *)
(* shows no events of before its watch started.                            *)
(***************************************************************************)
EXTENDS Integers, Sequences, SequencesExt

CONSTANTS
    Kinds,              \* kinds of dependents
    Ignored,            \* defaultIgnoredResources
    ClusterScoped,      \* kinds whose resources have no namespace
    InitiallyKnown,     \* kinds that exist before anything is installed
    NoKind,             \* a document without a kind
    Manifests,          \* what the charts render, the newest at the end
    UpdateInterval,     \* r.updateInterval, in units of age
    MaxDrift,           \* bound: changes of dependents by others
    MaxFaults           \* bound: failures and crashes

ASSUME KindsAssumption ==
    /\ Ignored \cup ClusterScoped \cup InitiallyKnown \subseteq Kinds
    /\ NoKind \notin Kinds

ASSUME ManifestsAssumption ==
    /\ Manifests \in Seq(Seq(Kinds \cup {NoKind})) /\ Manifests # <<>>

ASSUME WatchBoundsAssumption ==
    UpdateInterval \in Nat /\ MaxDrift \in Nat /\ MaxFaults \in Nat

VARIABLES
    known,          \* kinds the REST mapper has
    watches,        \* the map of controller.go
    handlers,       \* how often c.Watch succeeded for each kind
    state,          \* of the dependents of each kind, compared to the manifest
    chart,          \* the chart of the release, 0 = not installed
    newest,         \* the newest chart of the repository
    deployed,       \* the condition Deployed: "no" such condition, "hidden" by
                    \* the one of a failure, which is newer, or the "last"
    age,            \* time since lastCheckTime, as far as it matters
    open,           \* does the window allow updates
    queue,          \* is there a request in the work queue
    timer,          \* does one wait for a RequeueAfter
    call,           \* the Reconcile call in progress
    drifts, faults

vars == <<known, watches, handlers, state, chart, newest, deployed, age, open,
          queue, timer, call, drifts, faults>>

watching == <<known, watches, handlers>>
status   == <<deployed, age>>
outside  == <<newest, open, drifts>>

Idle == [stage |-> "idle"]

\* A call at the gate; in the hook, at a document of the manifest; after it.
Called     == [stage |-> "called"]
Hooked(op, n) == [stage |-> "hook", op |-> op, doc |-> n]
Hooks      == UNION {{Hooked(op, n) : n \in 1..(Len(Manifests[m]) + 1)} :
                        op \in {"deploy", "reconcile"}, m \in DOMAIN Manifests}

Documents == Manifests[chart]

KindsOf(n) == IF n = 0 THEN {} ELSE ToSet(Manifests[n]) \ {NoKind}

-----------------------------------------------------------------------------
\* Which events ask for a call (DependentPredicateFuncs).

\* Variant of Passes: changes of the status of a dependent count as well.
PassesAll(event) == event \in {"update", "delete", "status"}

Passes(event) == event \in {"update", "delete"}

Shown(k, event) == handlers[k] > 0 /\ Passes(event)

Fault == faults < MaxFaults /\ faults' = faults + 1

-----------------------------------------------------------------------------
\* Reconcile, up to the hook.

Start ==
    /\ call = Idle /\ queue
    /\ call' = Called /\ queue' = FALSE
    /\ UNCHANGED <<watching, state, chart, status, outside, timer, faults>>

NotNow == deployed = "last" /\ (age < UpdateInterval \/ ~open)

\* Variant of Skip: the result does not ask for another call.
SkipForGood ==
    /\ call = Called /\ NotNow
    /\ call' = Idle
    /\ UNCHANGED <<watching, state, chart, status, outside, queue, timer, faults>>

Skip ==
    /\ call = Called /\ NotNow
    /\ call' = Idle /\ timer' = TRUE
    /\ UNCHANGED <<watching, state, chart, status, outside, queue, faults>>

\* Install, update or reconcile: Helm creates what is missing and puts right
\* what differs; its own writes are events too.
Apply ==
    /\ call = Called /\ ~NotNow
    /\ chart' = newest
    /\ state' = [k \in Kinds |-> IF k \in KindsOf(newest) THEN "fine" ELSE "none"]
    /\ queue' = (queue \/ \E k \in Kinds :
                    \/ state[k] = "changed" /\ Shown(k, "update")
                    \/ state[k] \in {"none", "deleted"} /\ k \in KindsOf(newest)
                       /\ Shown(k, "create")
                    \/ state'[k] = "none" /\ state[k] \in {"fine", "changed"}
                       /\ Shown(k, "delete"))
    /\ call' = Hooked(IF chart = newest THEN "reconcile" ELSE "deploy", 1)
    /\ UNCHANGED <<watching, status, outside, timer, faults>>

\* Any error before: the status gets the condition of a failure, unless it is
\* not told or cannot be written, and the call is repeated.
ApplyFails ==
    /\ call = Called /\ ~NotNow /\ Fault
    /\ \/ deployed = "last" /\ deployed' = "hidden"
       \/ UNCHANGED deployed
    /\ call' = Idle /\ queue' = TRUE
    /\ UNCHANGED <<watching, state, chart, age, outside, timer>>

-----------------------------------------------------------------------------
\* The release hook: what it does with one document.

InHook == call.stage = "hook" /\ call.doc <= Len(Documents)

Document == Documents[call.doc]

\* Variant of NextDocument: it reads one document too many.
NextDocumentTwice ==
    /\ call' = [call EXCEPT !.doc = @ + 2]
    /\ UNCHANGED <<state, chart, status, outside, queue, timer, faults>>

NextDocument ==
    /\ call' = [call EXCEPT !.doc = @ + 1]
    /\ UNCHANGED <<state, chart, status, outside, queue, timer, faults>>

\* Met for the first time, and mapped.
New == InHook /\ Document \in known \ watches

\* Variant of PassOver: the hook is left at a document that it need not watch.
PassOverRest ==
    /\ InHook
    /\ Document \in {NoKind} \cup watches \/ (New /\ Document \in Ignored \ ClusterScoped)
    /\ call' = [call EXCEPT !.doc = Len(Documents) + 1]
    /\ UNCHANGED <<watching, state, chart, status, outside, queue, timer, faults>>

\* No kind, a kind that has been met, or one of no interest.
PassOver ==
    /\ InHook
    /\ Document \in {NoKind} \cup watches \/ (New /\ Document \in Ignored \ ClusterScoped)
    /\ NextDocument
    /\ UNCHANGED watching

\* Not watched, but recorded.
Record ==
    /\ New /\ Document \in ClusterScoped
    /\ watches' = watches \cup {Document}
    /\ NextDocument
    /\ UNCHANGED <<known, handlers>>

Watchable(k) == k \notin Ignored \cup ClusterScoped

\* Variant of Watch: the kind is not recorded.
WatchUnrecorded ==
    /\ New /\ Watchable(Document)
    /\ handlers' = [handlers EXCEPT ![Document] = @ + 1]
    /\ NextDocument
    /\ UNCHANGED <<known, watches>>

Watch ==
    /\ New /\ Watchable(Document)
    /\ handlers' = [handlers EXCEPT ![Document] = @ + 1]
    /\ watches' = watches \cup {Document}
    /\ NextDocument
    /\ UNCHANGED known

\* Variant of WatchFails: the kind is recorded before it is watched.
WatchFailsRecorded ==
    /\ New /\ Watchable(Document) /\ Fault
    /\ watches' = watches \cup {Document}
    /\ call' = Idle /\ queue' = TRUE
    /\ UNCHANGED <<known, handlers, state, chart, status, outside, timer>>

\* The error ends the call: the status is not told what Helm did.
WatchFails ==
    /\ New /\ Watchable(Document) /\ Fault
    /\ call' = Idle /\ queue' = TRUE
    /\ UNCHANGED <<watching, state, chart, status, outside, timer>>

\* The same for a kind that is not mapped, ignored kinds included.
NotMapped ==
    /\ InHook /\ Document \notin known \cup watches \cup {NoKind}
    /\ call' = Idle /\ queue' = TRUE
    /\ UNCHANGED <<watching, state, chart, status, outside, timer, faults>>

-----------------------------------------------------------------------------
\* The report, in the status, which is an event of its own.

AfterHook == call.stage = "hook" /\ call.doc = Len(Documents) + 1

\* The conditions of failures are removed.  A reconciliation does not set the
\* condition Deployed, so only one that is there is the last again; it changes
\* nothing if there is nothing to remove and lastCheckTime is still the same
\* second.
Report ==
    /\ AfterHook
    /\ deployed' = IF call.op = "deploy" \/ deployed = "hidden" THEN "last" ELSE deployed
    /\ age' = 0
    /\ queue' \in IF age = 0 /\ call.op = "reconcile" /\ deployed # "hidden"
                  THEN {queue, TRUE} ELSE {TRUE}
    /\ call' = Idle /\ timer' = TRUE
    /\ UNCHANGED <<watching, state, chart, outside, faults>>

\* The error is returned after a deployment, and ignored otherwise.
ReportFails ==
    /\ AfterHook /\ Fault
    /\ call' = Idle
    /\ IF call.op = "deploy" THEN queue' = TRUE /\ UNCHANGED timer
       ELSE timer' = TRUE /\ UNCHANGED queue
    /\ UNCHANGED <<watching, state, chart, status, outside>>

-----------------------------------------------------------------------------
\* The rest of the world.

\* Somebody changes or deletes dependents.
Drift(k) ==
    /\ drifts < MaxDrift /\ drifts' = drifts + 1
    /\ \/ /\ state[k] = "fine" /\ state' = [state EXCEPT ![k] = "changed"]
          /\ queue' = (queue \/ Shown(k, "update"))
       \/ /\ state[k] \in {"fine", "changed"} /\ state' = [state EXCEPT ![k] = "deleted"]
          /\ queue' = (queue \/ Shown(k, "delete"))
    /\ UNCHANGED <<watching, chart, newest, status, open, timer, call, faults>>

\* The controllers of dependents report in their status all the time.
StatusChanges(k) ==
    /\ state[k] \in {"fine", "changed"}
    /\ queue' = (queue \/ Shown(k, "status"))
    /\ UNCHANGED <<watching, state, chart, status, outside, timer, call, faults>>

Publish ==
    /\ newest < Len(Manifests) /\ newest' = newest + 1
    /\ UNCHANGED <<watching, state, chart, status, open, drifts, queue, timer, call, faults>>

\* Kinds come with the charts that use them, and stay.
Existing == InitiallyKnown \cup UNION {KindsOf(n) : n \in 1..chart}

Discover ==
    /\ known # Existing /\ known' = Existing
    /\ UNCHANGED <<watches, handlers, state, chart, status, outside, queue, timer,
                   call, faults>>

\* Both intervals are longer than calls that follow each other at once, so time
\* counts while there is no call: a request whose time comes during one, or
\* behind another, has to wait for the worker in any case.
AtRest == call = Idle /\ ~queue

Age ==
    /\ AtRest /\ age < UpdateInterval /\ age' = age + 1
    /\ UNCHANGED <<watching, state, chart, deployed, outside, queue, timer, call, faults>>

TimerFires ==
    /\ AtRest /\ timer /\ timer' = FALSE /\ queue' = TRUE
    /\ UNCHANGED <<watching, state, chart, status, outside, call, faults>>

\* The map and the watches go with the process; the CR is listed.
Crash ==
    /\ Fault
    /\ watches' = {} /\ handlers' = [k \in Kinds |-> 0] /\ known' = Existing
    /\ queue' = TRUE /\ timer' = FALSE /\ call' = Idle
    /\ UNCHANGED <<state, chart, status, outside>>

-----------------------------------------------------------------------------

Init ==
    /\ known = InitiallyKnown /\ watches = {} /\ handlers = [k \in Kinds |-> 0]
    /\ state = [k \in Kinds |-> "none"] /\ chart = 0 /\ newest = 1
    /\ deployed = "no" /\ age = UpdateInterval /\ open \in BOOLEAN
    /\ queue = TRUE /\ timer = FALSE /\ call = Idle
    /\ drifts = 0 /\ faults = 0

Worker ==
    \/ Start \/ Skip \/ Apply
    \/ PassOver \/ Record \/ Watch \/ NotMapped \/ Report

Next ==
    \/ Worker
    \/ ApplyFails \/ WatchFails \/ ReportFails \/ Crash
    \/ \E k \in Kinds : Drift(k) \/ StatusChanges(k)
    \/ Publish \/ Discover \/ Age \/ TimerFires

Spec == Init /\ [][Next]_vars

\* The worker and its timer run, and time passes; neither others nor the REST
\* mapper owe anything.
Fairness == WF_vars(Worker) /\ WF_vars(TimerFires) /\ SF_vars(Age)

FairSpec == Spec /\ Fairness

-----------------------------------------------------------------------------

TypeOK ==
    /\ known \subseteq Kinds /\ watches \subseteq Kinds
    /\ handlers \in [Kinds -> Nat]
    /\ state \in [Kinds -> {"none", "fine", "changed", "deleted"}]
    /\ newest \in DOMAIN Manifests /\ chart \in 0..newest
    /\ deployed \in {"no", "hidden", "last"}
    /\ age \in 0..UpdateInterval /\ open \in BOOLEAN
    /\ queue \in BOOLEAN /\ timer \in BOOLEAN
    /\ call \in {Idle, Called} \cup Hooks
    /\ drifts \in 0..MaxDrift /\ faults \in 0..MaxFaults

\* No kind is watched twice, however often the hook meets it, is interrupted
\* by an error and starts over, and kinds of no interest are not watched: each
\* event is handled once (controller.go:94-141).
OneHandlerPerKind ==
    \A k \in Kinds : handlers[k] <= IF Watchable(k) THEN 1 ELSE 0

\* When a Helm operation is reported, every dependent that is to be watched
\* is: neither the order of the documents, nor one without a kind, nor what an
\* earlier hook has recorded leaves one out (controller.go:78-142).
ReportedIsWatched ==
    AfterHook => \A k \in KindsOf(chart) : Watchable(k) => handlers[k] > 0

\* The operator does not keep itself busy: once there is a condition Deployed,
\* the last or not, and the REST mapper knows what there is, its own writes, of
\* the status and of dependents, and the status of dependents cause no calls
\* without end (controller.go:152-200, reconcile_update.go:248-286).
ComesToRest == <>[](deployed # "no" /\ known = Existing) => []<>AtRest

\* A dependent that others change or delete is put right, whether it was
\* watched at that moment or not, provided that the window is open
\* (controller.go:164-196, reconcile_update.go:71-81).
DriftIsRepaired ==
    \A k \in Kinds :
        [](open /\ state[k] \in {"changed", "deleted"} => <>(state[k] \in {"fine", "none"}))

\* A failed watch or a new process leaves no kind unwatched for good, given a
\* window that is open and a REST mapper that knows what there is
\* (controller.go:101-141).
WatchedInTheEnd ==
    open /\ <>[](known = Existing)
    => \A k \in Kinds : <>[](k \in KindsOf(chart) /\ Watchable(k) => handlers[k] > 0)

\* "if something fails, we will try again in "defaultCheckInterval" seconds"
\* (reconcile_update.go:22-23): after the last failure the operator rests
\* between the checks, whatever the status says.
RetriesWait == <>[](known = Existing) => []<>AtRest
=============================================================================
