------------------------------ MODULE HelmValues ------------------------------
(***************************************************************************)
(* The values that a chart is rendered with (charts.go, files.go and the   *)
(* middle of Reconcile): those of the spec, the files of the operator and  *)
(* its defaults, which are trees and are merged at the top only, and the   *)
(* strings, which override single leaves of what Helm gets.                *)
(*                                                                         *)
(* A call of Reconcile works on a copy of the CR, step by step, fills it,  *)
(* and writes it back, whole or as a status.  What it fills in must not    *)
(* get into the stored spec, which the next call starts from, and a user   *)
(* may edit the spec between any two steps.  The files change between      *)
(* calls.  The tree of a source is the value it gives to each leaf; what   *)
(* is between the leaves and the top is left out.                          *)
(***************************************************************************)
EXTENDS Naturals, Sequences

CONSTANTS
    UserSpecs,      \* the specs that users write
    FileTrees,      \* what is in the files
    NumFiles,       \* how many files the operator looks for
    LateSpecs       \* bound: what users write while a call is in progress

ASSUME FilesAssumption == NumFiles \in Nat

\* The key at the top of each leaf.
Top == [createSecret |-> "licenseKey", license    |-> "licenseKey",
        repository   |-> "image",      tag        |-> "image",
        logLevel     |-> "pro",        enableAES  |-> "enableAES",
        tool         |-> "deploymentTool", replicas |-> "replicaCount"]

Leaves == DOMAIN Top

Scalar(l) == Top[l] \in {"enableAES", "deploymentTool", "replicaCount"}

\* Who gave a leaf its value; of enableAES, the value.  "text" is no boolean,
\* "number" an integer of a file.
Val == {"none", "user", "file", "otherFile", "number", "new", "upgrade", "operator",
        "base", "oss", "yes", "no", "text"}

\* Keys without dots, and keys that are a whole path: with dots, so they lead
\* to no scalar at the top.
Tree == {tree \in [plain : [Leaves -> Val], packed : [Leaves -> Val]] :
            /\ tree.plain["enableAES"] \in {"none", "yes", "no", "text"}
            /\ \A l \in Leaves : Scalar(l) => tree.packed[l] = "none"}

Nothing == [l \in Leaves |-> "none"]

Empty == [plain |-> Nothing, packed |-> Nothing]

SpecRecord == [values : Tree,
               base   : {"none", "image", "bad"},    \* spec.baseImage
               oss    : BOOLEAN,                     \* spec.installOSS
               level  : BOOLEAN,                     \* is there a spec.logLevel
               isV2   : BOOLEAN]                     \* does spec.version allow 2.0.0-ea

ASSUME TreesAssumption ==
    /\ UserSpecs \subseteq SpecRecord /\ LateSpecs \subseteq UserSpecs
    /\ FileTrees \subseteq Tree

Blank == [values |-> Empty, base |-> "none", oss |-> FALSE, level |-> FALSE, isV2 |-> FALSE]

VARIABLES
    stored,     \* the spec in the API server
    asked,      \* history: the spec that users wrote last
    files,      \* the trees in the files, Empty for one that cannot be read
    deployed,   \* is the last condition Deployed
    flavor,     \* of status.deployedRelease
    stage,      \* where the call is
    spec,       \* the spec that the call has read
    fresh,      \* is the resourceVersion of its copy of the CR still current
    read,       \* the number of files it has read
    filled,     \* helmValues, the defaults and the files
    copy,       \* spec.helmValues of its copy of the CR
    strings,    \* helmValuesStrings
    enableAES,  \* spec.enableAES of its copy
    chart       \* what the chart is rendered with

vars == <<stored, asked, files, deployed, flavor, stage, spec, fresh, read, filled,
          copy, strings, enableAES, chart>>

status == <<deployed, flavor>>

\* What the steps between the writes of a call leave alone.
inputs == <<stored, asked, files, status, spec, fresh>>

-----------------------------------------------------------------------------

Has(tree, top) == \E l \in Leaves : Top[l] = top /\ tree.plain[l] # "none"

\* Variant of AppendFrom: trees are merged leaf by leaf.
AppendFromDeep(hv, other, overwrite) ==
    LET Pick(h, o) == IF o # "none" /\ (overwrite \/ h = "none") THEN o ELSE h
    IN  [plain  |-> [l \in Leaves |-> Pick(hv.plain[l], other.plain[l])],
         packed |-> [l \in Leaves |-> Pick(hv.packed[l], other.packed[l])]]

\* Variant of AppendFrom: a key that the other has not is nil.
AppendFromMissing(hv, other, overwrite) ==
    LET Taken(o) == IF o = "none" THEN "nil" ELSE o
    IN  [hv EXCEPT !.plain = [l \in Leaves |->
                                IF overwrite THEN Taken(other.plain[l]) ELSE @[l]]]

\* Whole values are taken over, key by key of the top.
AppendFrom(hv, other, overwrite) ==
    [plain  |-> [l \in Leaves |->
                   IF Has(other, Top[l]) /\ (overwrite \/ ~Has(hv, Top[l]))
                   THEN other.plain[l] ELSE hv.plain[l]],
     packed |-> [l \in Leaves |->
                   IF other.packed[l] # "none" /\ (overwrite \/ hv.packed[l] = "none")
                   THEN other.packed[l] ELSE hv.packed[l]]]

Default(secret) ==
    [Empty EXCEPT !.plain.createSecret = secret, !.plain.tool = "operator"]

\* defaultChartValuesUpgrades, defaultChartValuesNewInstallations.
Defaults(isDeployed) == Default(IF isDeployed THEN "upgrade" ELSE "new")

\* A tree or an integer that a file brings is of a type that the copy of the
\* CR cannot hold: the process panics, unless the spec has that key.
Panics(tree, hv) ==
    \E l \in Leaves : /\ \/ hv.plain[l] \in {"file", "otherFile"} /\ ~Scalar(l)
                         \/ hv.plain[l] = "number"
                      /\ ~Has(tree, Top[l])

-----------------------------------------------------------------------------
\* The writes of a call.

\* The whole object, refused if anybody else has written it since it was read.
UpdateResource == fresh /\ stored' = [spec EXCEPT !.values = copy]

\* Variant of UpdateResourceStatus: as without the status subresource, the
\* whole object is written.
UpdateResourceStatusWhole(isDeployed, isFlavor) ==
    \/ /\ fresh /\ stored' = [spec EXCEPT !.values = copy]
       /\ deployed' = isDeployed /\ flavor' = isFlavor
    \/ UNCHANGED <<stored, status>>

\* The object with a new status: the API server takes nothing else of it.  It
\* refuses an old object; the error may go unnoticed.
UpdateResourceStatus(isDeployed, isFlavor) ==
    /\ \/ fresh /\ deployed' = isDeployed /\ flavor' = isFlavor
       \/ UNCHANGED status
    /\ UNCHANGED stored

-----------------------------------------------------------------------------
\* One call of Reconcile.

Lookup ==
    /\ stage = "idle" /\ stage' = "loaded"
    /\ spec' = stored /\ copy' = stored.values /\ fresh' = TRUE
    /\ UNCHANGED <<stored, asked, files, status, read, filled, strings, enableAES, chart>>

\* The hash of the spec is stored, with the whole object, before anything is
\* filled in.
RecordSpecHash ==
    /\ stage = "loaded" /\ UpdateResource
    /\ stage' = "filling" /\ filled' = AppendFrom(Empty, Defaults(deployed), TRUE)
    /\ UNCHANGED <<asked, files, status, spec, fresh, read, copy, strings, enableAES,
                   chart>>

ReadFile ==
    /\ stage = "filling" /\ read < NumFiles
    /\ filled' = AppendFrom(filled, files[read + 1], TRUE)
    /\ read' = read + 1
    /\ UNCHANGED <<inputs, stage, copy, strings, enableAES, chart>>

WriteToAmbIns ==
    /\ stage = "filling" /\ read = NumFiles /\ ~Panics(copy, filled)
    /\ copy' = AppendFrom(copy, filled, FALSE)
    /\ stage' = "written"
    /\ UNCHANGED <<inputs, read, filled, strings, enableAES, chart>>

\* The call ends: nothing of it is left but what it stored.
End ==
    /\ stage' = "idle" /\ spec' = Blank /\ fresh' = FALSE /\ read' = 0
    /\ filled' = Empty /\ copy' = Empty
    /\ strings' = Nothing /\ enableAES' = "none" /\ chart' = Nothing
    /\ UNCHANGED <<asked, files>>

Panic ==
    /\ stage = "filling" /\ read = NumFiles /\ Panics(copy, filled)
    /\ End /\ UNCHANGED <<stored, status>>

\* An error, a refused write, or nothing to do: at any step, the refused
\* migration from the Edge Stack to OSS and the gate included; or a crash.
GiveUp ==
    /\ stage # "idle"
    /\ End /\ UNCHANGED <<stored, status>>

\* Variant of Conflicts: only the Edge Stack is looked at.
ConflictsOneWay == spec.values.plain["enableAES"] = "yes" /\ spec.oss

\* What the user says of enableAES, if it is a boolean, against installOSS.
Conflicts ==
    \/ spec.values.plain["enableAES"] = "yes" /\ spec.oss
    \/ spec.values.plain["enableAES"] = "no" /\ ~spec.oss

\* The status gets the condition Failed, if it can be written.
Reject ==
    /\ stage = "written" /\ (Conflicts \/ spec.base = "bad")
    /\ End /\ UpdateResourceStatus(FALSE, flavor)

\* Migration from the Edge Stack to OSS is not supported.
Downgrading == spec.oss /\ flavor = "aes"

BaseImage == IF spec.base = "image"
             THEN [Nothing EXCEPT !.repository = "base", !.tag = "base"] ELSE Nothing

FlavorImage ==
    IF spec.oss /\ spec.base = "none" /\ ~spec.isV2
    THEN [BaseImage EXCEPT !.repository = "oss"] ELSE BaseImage

SetStrings ==
    /\ stage = "written" /\ ~Conflicts /\ spec.base # "bad" /\ ~Downgrading
    /\ strings' = IF spec.level THEN [FlavorImage EXCEPT !.logLevel = "operator"]
                  ELSE FlavorImage
    /\ enableAES' = IF spec.oss THEN "no" ELSE "none"
    /\ stage' = "ready"
    /\ UNCHANGED <<inputs, read, filled, copy, chart>>

\* Packed keys join the strings; the others go to the spec, which the strings
\* override leaf by leaf.
GetManagerFor ==
    /\ stage = "ready"
    /\ strings' = [l \in Leaves |-> IF copy.packed[l] # "none" THEN copy.packed[l]
                                    ELSE strings[l]]
    /\ chart' = [l \in Leaves |->
                   IF strings'[l] # "none" THEN strings'[l]
                   ELSE IF copy.plain[l] = "none" /\ l = "enableAES" THEN enableAES
                   ELSE copy.plain[l]]
    /\ stage' = "rendered"
    /\ UNCHANGED <<inputs, read, filled, copy, enableAES>>

\* The rest of tryInstallOrUpdate: a release is deployed or reconciled, or the
\* status tells why not.
Finish ==
    /\ stage = "rendered" /\ End
    /\ LET rendered == IF spec.oss THEN "oss" ELSE "aes"
       IN  \/ \E now \in {deployed, TRUE} : UpdateResourceStatus(now, rendered)
           \/ UpdateResourceStatus(FALSE, flavor)

-----------------------------------------------------------------------------
\* The rest of the world.

Edit ==
    /\ stored' \in UserSpecs /\ (stage = "idle" \/ stored' \in LateSpecs)
    /\ asked' = stored' /\ fresh' = FALSE
    /\ UNCHANGED <<files, status, stage, spec, read, filled, copy, strings, enableAES,
                   chart>>

\* The files are mounted: what they hold may change.
ChangeFile ==
    /\ stage = "idle"
    /\ \E n \in 1..NumFiles, tree \in FileTrees : files' = [files EXCEPT ![n] = tree]
    /\ UNCHANGED <<stored, asked, status, stage, spec, fresh, read, filled, copy, strings,
                   enableAES, chart>>

Init ==
    /\ stored \in [values : {Empty}, base : {"none"}, oss : BOOLEAN,
                   level : {FALSE}, isV2 : {FALSE}]
    /\ asked = stored
    /\ files = [n \in 1..NumFiles |-> Empty]
    /\ deployed = FALSE /\ flavor = "none"
    /\ stage = "idle" /\ spec = Blank /\ fresh = FALSE /\ read = 0
    /\ filled = Empty /\ copy = Empty
    /\ strings = Nothing /\ enableAES = "none" /\ chart = Nothing

Next ==
    \/ Lookup \/ RecordSpecHash \/ ReadFile \/ WriteToAmbIns \/ Panic \/ Reject
    \/ SetStrings \/ GetManagerFor \/ Finish \/ GiveUp
    \/ Edit \/ ChangeFile

Spec == Init /\ [][Next]_vars

-----------------------------------------------------------------------------

TypeOK ==
    /\ stored \in SpecRecord /\ asked \in SpecRecord
    /\ files \in [1..NumFiles -> Tree]
    /\ deployed \in BOOLEAN /\ flavor \in {"none", "oss", "aes"}
    /\ stage \in {"idle", "loaded", "filling", "written", "ready", "rendered"}
    /\ spec \in SpecRecord /\ fresh \in BOOLEAN
    /\ read \in 0..NumFiles
    /\ filled \in Tree /\ copy \in Tree
    /\ strings \in [Leaves -> Val] /\ chart \in [Leaves -> Val] /\ enableAES \in Val

Last(S) == CHOOSE m \in S : \A k \in S : k <= m

\* What the first n files and the defaults say of a leaf: the last that has
\* its key of the top says everything about that key.
Filled(l, n) ==
    LET Having == {m \in 1..n : Has(files[m], Top[l])}
    IN  IF Having = {} THEN Defaults(deployed).plain[l] ELSE files[Last(Having)].plain[l]

FilledPacked(l, n) ==
    LET Having == {m \in 1..n : files[m].packed[l] # "none"}
    IN  IF Having = {} THEN "none" ELSE files[Last(Having)].packed[l]

Plain(l) == IF Has(spec.values, Top[l]) THEN spec.values.plain[l]
            ELSE Filled(l, NumFiles)

Packed(l) == IF spec.values.packed[l] # "none" THEN spec.values.packed[l]
             ELSE FilledPacked(l, NumFiles)

\* What the operator says of a leaf, above any tree.
Given(l) ==
    CASE l \in {"repository", "tag"} /\ spec.base = "image"  -> "base"
      [] l = "repository" /\ spec.base = "none" /\ spec.oss /\ ~spec.isV2 -> "oss"
      [] l = "logLevel" /\ spec.level -> "operator"
      [] OTHER -> "none"

\* The chart gets of each leaf what the first of these says of it: a packed
\* key of the spec, a packed key of the last file that has it, the operator,
\* the tree of the spec, the last file that has the key at the top of the
\* leaf, the defaults (reconcile.go:293-425, charts.go:55-151).
ChartIsReference ==
    stage = "rendered" =>
        \A l \in Leaves :
            chart[l] = IF Packed(l) # "none" THEN Packed(l)
                       ELSE IF Given(l) # "none" THEN Given(l)
                       ELSE IF l = "enableAES" /\ Plain(l) = "none" /\ spec.oss THEN "no"
                       ELSE Plain(l)

\* The flavor that is rendered, and recorded as deployed, is the one the spec
\* asks for, as long as no file has its own enableAES and the spec does not
\* give a text for it: "spec.helmValues.enableAES should not conflict with the
\* spec.installOSS field" (docs/using.md:149, reconcile.go:317-346, 386-420).
FlavorIsRendered ==
    /\ stage = "rendered"
    /\ spec.values.plain["enableAES"] # "text"
    /\ \A n \in 1..NumFiles : ~Has(files[n], "enableAES")
    => (chart["enableAES"] = "no" <=> spec.oss)

\* The stored spec is what users wrote last.  The calls write the CR as well:
\* they neither take back an edit made since they read it, nor store what they
\* fill in, which would outlive the file or the default it comes from
\* (reconcile.go:286-315, 453-460).
StoredSpecIsUsers == stored = asked
=============================================================================
