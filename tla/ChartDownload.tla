----------------------------- MODULE ChartDownload -----------------------------
(***************************************************************************)
(* What one Reconcile call after the other does with the chart it needs:   *)
(* the search of the index of the Helm repository for the newest chart     *)
(* that the version rule allows, the download into a temporary directory,  *)
(* the lookup of the chart in it and the cleanup (pkg/helm/downloader.go,  *)
(* version_rule.go, and the callers' defers in reconcile_update.go and     *)
(* reconcile_delete.go).                                                   *)
(*                                                                         *)
(* A version is a number; 0 is one that does not parse.  An index may list *)
(* its charts in any order: Helm sorts those it loads, except the          *)
(* unversioned ones.                                                       *)
(***************************************************************************)
EXTENDS Integers, FiniteSets, SequencesExt

CONSTANTS
    MaxVersion,     \* bound: versions are 1..MaxVersion
    Indexes,        \* the indexes the repository may serve
    Rules,          \* the versions a spec.version allows
    Sources,        \* what spec.helmRepo points to
    Debug,          \* is DEBUG set in the environment
    MaxDirs,        \* bound: temporary directories on the disk
    MaxFailures,    \* bound: calls that fail in the life of a process
    Own,            \* a directory with a chart that is not the operator's
    NoDir, NoEntry

Versions == 0..MaxVersion

Entry == [app  : Versions,      \* the AppVersion: of the Ambassador it installs
          ver  : Versions,      \* the Version: of the chart itself
          urls : BOOLEAN]       \* has a URL

Dirs == 1..MaxDirs

ASSUME BoundsAssumption ==
    MaxVersion \in Nat /\ MaxDirs \in Nat \ {0} /\ MaxFailures \in Nat

ASSUME InputsAssumption ==
    /\ Indexes \subseteq Seq(Entry) /\ Rules \subseteq SUBSET (Versions \ {0})
    /\ Sources \subseteq {"repo", "archive", "directory", "other"}
    /\ Debug \in BOOLEAN

ASSUME SentinelAssumption ==
    Own \notin Dirs /\ NoDir \notin Dirs \cup {Own} /\ NoEntry \notin Entry

VARIABLES
    stage,      \* how far the call is
    source, rule,
    index,      \* the index it downloaded
    pick,       \* the entry found in it
    dir,        \* downChartDir
    cleanup,    \* downDirCleanup
    disk,       \* directories that exist
    archives,   \* temporary files that exist
    failed      \* calls that failed in this process

vars == <<stage, source, rule, index, pick, dir, cleanup, disk, archives, failed>>

Stages == {"idle", "start", "fetched", "found", "made", "got", "unpacked",
           "ready", "used", "cleaned"}

-----------------------------------------------------------------------------
\* findInRepo.

\* Variant of Better: the Version of the chart counts first.
BetterChart(e, latest) ==
    e.ver > latest.ver \/ (e.ver = latest.ver /\ e.app > latest.app)

\* Is e preferred to the latest so far?  Both AppVersions parse here; a
\* comparison of chart Versions is an error, hence false, unless both do.
Better(e, latest) ==
    \/ e.app > latest.app
    \/ /\ e.app = latest.app
       /\ e.ver # 0 /\ latest.ver # 0 /\ e.ver > latest.ver

Allowed(e, allowed) == e.app \in allowed

\* What makes the loop return an error at e.
Offends(e, allowed) == e.app = 0 \/ (Allowed(e, allowed) /\ ~e.urls)

\* Variant of Search: the newest chart is compared before the rule is.
SearchRuleLast(idx, allowed) ==
    LET latest == FoldLeft(LAMBDA l, e : IF l = NoEntry \/ Better(e, l) THEN e ELSE l,
                           NoEntry, idx)
    IN  IF (\E e \in ToSet(idx) : Offends(e, allowed)) \/ latest = NoEntry THEN NoEntry
        ELSE IF Allowed(latest, allowed) THEN latest ELSE NoEntry

\* The loop over the entries: the latest, or NoEntry for an error.
Search(idx, allowed) ==
    IF \E e \in ToSet(idx) : Offends(e, allowed) THEN NoEntry
    ELSE FoldLeft(LAMBDA latest, e :
                      IF Allowed(e, allowed) /\ (latest = NoEntry \/ Better(e, latest))
                      THEN e ELSE latest,
                  NoEntry, idx)

-----------------------------------------------------------------------------
\* The calls.

At(s) == stage = s

Goto(s) == stage' = s

call == <<source, rule>>
local == <<dir, cleanup>>

\* An error before there is anything to clean up: the caller's deferred
\* Cleanup is registered when Download has succeeded, and not before.
Fail ==
    /\ failed' = failed + 1
    /\ Goto("idle") /\ dir' = NoDir /\ cleanup' = FALSE
    /\ index' = <<>> /\ pick' = NoEntry
    /\ UNCHANGED <<call, disk>>

\* NewHelmManager, and the beginning of Download.
Begin ==
    /\ At("idle") /\ failed < MaxFailures
    /\ source' \in Sources /\ rule' \in Rules
    /\ cleanup' = FALSE
    /\ IF source' = "directory"
       THEN dir' = Own /\ Goto("unpacked")
       ELSE dir' = NoDir /\ Goto("start")
    /\ UNCHANGED <<index, pick, disk, archives, failed>>

UnknownScheme ==
    /\ At("start") /\ source = "other"
    /\ Fail /\ UNCHANGED archives

FetchIndex ==
    /\ At("start") /\ source = "repo"
    /\ index' \in Indexes
    /\ Goto("fetched")
    /\ UNCHANGED <<call, pick, local, disk, archives, failed>>

FetchFails ==
    /\ At("start") /\ source = "repo"
    /\ Fail /\ UNCHANGED archives

Find ==
    /\ At("fetched") /\ Search(index, rule) # NoEntry
    /\ pick' = Search(index, rule)
    /\ Goto("found")
    /\ UNCHANGED <<call, index, local, disk, archives, failed>>

FindFails ==
    /\ At("fetched") /\ Search(index, rule) = NoEntry
    /\ Fail /\ UNCHANGED archives

\* downloadChartFile, up to the temporary directory.
MakeDir ==
    /\ At("found") \/ (At("start") /\ source = "archive")
    /\ \E d \in Dirs \ disk :
          dir' = d /\ disk' = disk \cup {d}
    /\ cleanup' = TRUE
    /\ Goto("made") /\ index' = <<>>
    /\ UNCHANGED <<call, pick, archives, failed>>

\* Also when the URL of the chart found does not parse.
MakeDirFails ==
    /\ At("found") \/ (At("start") /\ source = "archive")
    /\ Fail /\ UNCHANGED archives

\* downloadFile.
Get ==
    /\ At("made")
    /\ archives' = archives + 1
    /\ Goto("got")
    /\ UNCHANGED <<call, index, pick, local, disk, failed>>

\* Variant of GetFails: one file is removed for every file that may exist.
GetFailsRemoving ==
    /\ At("made")
    /\ archives' \in {archives, archives - 1}
    /\ Fail

\* The connection fails before or after the file was created; its removal is
\* not deferred yet.
GetFails ==
    /\ At("made")
    /\ archives' \in {archives, archives + 1}
    /\ Fail

Unpack ==
    /\ At("got")
    /\ archives' = archives - 1
    /\ Goto("unpacked")
    /\ UNCHANGED <<call, index, pick, local, disk, failed>>

UnpackFails ==
    /\ At("got")
    /\ archives' = archives - 1
    /\ Fail

\* lookupChart; then Download returns and the cleanups are deferred.
LookupChart ==
    /\ At("unpacked")
    /\ Goto("ready")
    /\ UNCHANGED <<call, index, pick, local, disk, archives, failed>>

LookupFails ==
    /\ At("unpacked")
    /\ Fail /\ UNCHANGED archives

\* GetManagerFor and what the caller does with the chart, until it returns.
Use ==
    /\ At("ready")
    /\ Goto("used")
    /\ UNCHANGED <<call, index, pick, local, disk, archives, failed>>

\* Variant of RemoveDir: whatever directory the chart is in.
RemoveAnyDir ==
    IF dir # NoDir /\ ~Debug THEN disk' = disk \ {dir} ELSE UNCHANGED disk

RemoveDir ==
    IF dir # NoDir /\ cleanup /\ ~Debug THEN disk' = disk \ {dir} ELSE UNCHANGED disk

\* Variant of CleanupFirst: the directory is forgotten and then removed.
CleanupForgetting ==
    /\ At("used")
    /\ dir' = NoDir
    /\ Goto("cleaned")
    /\ UNCHANGED <<call, index, pick, cleanup, disk, archives, failed>>

\* Cleanup is deferred twice, and runs twice.
CleanupFirst ==
    /\ At("used")
    /\ RemoveDir /\ dir' = NoDir
    /\ Goto("cleaned")
    /\ UNCHANGED <<call, index, pick, cleanup, archives, failed>>

CleanupAgain ==
    /\ At("cleaned")
    /\ RemoveDir /\ dir' = NoDir
    /\ Goto("idle") /\ pick' = NoEntry
    /\ UNCHANGED <<call, index, cleanup, archives, failed>>

\* The operator ends, or is ended, and starts in a new container, whose disk
\* is that of the image.
Restart ==
    /\ Goto("idle") /\ index' = <<>> /\ pick' = NoEntry
    /\ dir' = NoDir /\ cleanup' = FALSE
    /\ disk' = {Own} /\ archives' = 0 /\ failed' = 0
    /\ UNCHANGED call

Init ==
    /\ stage = "idle"
    /\ source \in Sources /\ rule \in Rules
    /\ index = <<>> /\ pick = NoEntry
    /\ dir = NoDir /\ cleanup = FALSE
    /\ disk = {Own} /\ archives = 0 /\ failed = 0

Next ==
    \/ Begin \/ UnknownScheme \/ FetchIndex \/ FetchFails \/ Find \/ FindFails
    \/ MakeDir \/ MakeDirFails \/ Get \/ GetFails \/ Unpack \/ UnpackFails
    \/ LookupChart \/ LookupFails \/ Use \/ CleanupFirst \/ CleanupAgain
    \/ Restart

Spec == Init /\ [][Next]_vars

-----------------------------------------------------------------------------

TypeOK ==
    /\ stage \in Stages /\ source \in Sources /\ rule \in Rules
    /\ index \in Indexes \cup {<<>>} /\ pick \in Entry \cup {NoEntry}
    /\ dir \in Dirs \cup {Own, NoDir} /\ cleanup \in BOOLEAN
    /\ disk \subseteq Dirs \cup {Own}
    /\ archives \in Nat /\ failed \in 0..MaxFailures

\* "the Chart with the highest `Version`" of the "valid/latest `AppVersion`"
\* (downloader.go:300-309): the chart found is allowed and no allowed chart of
\* the index is newer, in whatever order the index lists them.  Among charts
\* of one AppVersion this takes chart Versions that parse.
NewestAllowed ==
    At("found") =>
        /\ pick \in ToSet(index) /\ pick.app \in rule /\ pick.urls
        /\ \A e \in ToSet(index) : e.app \in rule => e.app <= pick.app
        /\ LET same == {e \in ToSet(index) : e.app = pick.app}
           IN  (\A e \in same : e.ver # 0) => \A e \in same : e.ver <= pick.ver

\* The search fails only when no chart is allowed, or when an entry that
\* offends is in the index (downloader.go:313-350).
NoFalseAlarm ==
    [][At("fetched") /\ failed' = failed + 1 =>
          \/ \A e \in ToSet(index) : e.app \notin rule
          \/ \E e \in ToSet(index) : Offends(e, rule)]_vars

\* A chart that is in use is on the disk, and a directory that is not the
\* operator's is never removed (downloader.go:199-213).
ChartIsKept ==
    /\ stage \in {"ready", "used"} => dir \in disk
    /\ Own \in disk

\* Nothing but a failed download leaves directories or files behind
\* (downloader.go:199, reconcile_update.go:105-108).
OnlyFailuresLeave ==
    At("idle") /\ ~Debug => /\ Cardinality(disk \ {Own}) <= failed
                            /\ archives <= failed
=============================================================================
