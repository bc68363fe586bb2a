--------------------------- MODULE HelmValuesProofs ---------------------------
(***************************************************************************)
(* The precedence of values, for any number of files, whatever they and    *)
(* the spec hold: each step of a call keeps what the steps before it have  *)
(* established of the leaves (Established).  And what the calls write      *)
(* leaves the spec to the users, who may edit it between any two steps: as *)
(* long as a copy is fresh, the stored spec is the one the call has read,  *)
(* and only before it fills its copy in does it write it whole (Unspoilt). *)
(***************************************************************************)
EXTENDS HelmValues, TLAPS

\* What holds of the leaves at each stage of a call.
Established ==
    /\ stage \in {"idle", "loaded"} => read = 0
    /\ stage = "loaded" => copy = spec.values
    /\ stage = "filling" =>
          /\ copy = spec.values
          /\ filled = [plain  |-> [l \in Leaves |-> Filled(l, read)],
                       packed |-> [l \in Leaves |-> FilledPacked(l, read)]]
    /\ stage \in {"written", "ready"} =>
          copy = [plain  |-> [l \in Leaves |-> Plain(l)],
                  packed |-> [l \in Leaves |-> Packed(l)]]
    /\ stage = "ready" =>
          /\ ~Conflicts
          /\ strings = [l \in Leaves |-> Given(l)]
          /\ enableAES = IF spec.oss THEN "no" ELSE "none"
    /\ stage = "rendered" => ~Conflicts

ValuesInv == TypeOK /\ Established /\ ChartIsReference

Unspoilt == stored = asked /\ (fresh => stored = spec)

-----------------------------------------------------------------------------

LEMMA LeavesAre ==
    Leaves = {"createSecret", "license", "repository", "tag", "logLevel",
              "enableAES", "tool", "replicas"}
BY DEF Leaves, Top

LEMMA EmptyTypes ==
    Empty \in Tree /\ Nothing \in [Leaves -> Val] /\ {"none", "no"} \subseteq Val
BY LeavesAre DEF Empty, Nothing, Tree, Val, Scalar

LEMMA AppendType ==
    ASSUME NEW hv \in Tree, NEW other \in Tree, NEW overwrite \in BOOLEAN
    PROVE  AppendFrom(hv, other, overwrite) \in Tree
BY LeavesAre DEF AppendFrom, Tree

LEMMA DefaultsType ==
    ASSUME NEW isDeployed \in BOOLEAN
    PROVE  Defaults(isDeployed) \in Tree
BY LeavesAre DEF Defaults, Default, Empty, Nothing, Tree, Val, Scalar, Top

LEMMA ImageType ==
    ASSUME spec \in SpecRecord
    PROVE  /\ FlavorImage \in [Leaves -> Val]
           /\ [FlavorImage EXCEPT !.logLevel = "operator"] \in [Leaves -> Val]
BY LeavesAre DEF FlavorImage, BaseImage, Nothing, Val

-----------------------------------------------------------------------------
\* One lemma per step of a call.

LEMMA LookupKeeps ==
    ASSUME ValuesInv, Lookup
    PROVE  ValuesInv'
<1>1. stored \in SpecRecord /\ stored.values \in Tree
  BY DEF ValuesInv, TypeOK, SpecRecord
<1>2. TypeOK'
  BY <1>1 DEF Lookup, ValuesInv, TypeOK, status
<1>3. /\ stage' = "loaded" /\ copy' = spec'.values /\ UNCHANGED read
  BY DEF Lookup
<1>4. read = 0
  BY DEF Lookup, ValuesInv, Established
<1>. QED
  BY <1>2, <1>3, <1>4 DEF ValuesInv, Established, ChartIsReference

LEMMA RecordSpecHashKeeps ==
    ASSUME ValuesInv, RecordSpecHash
    PROVE  ValuesInv'
<1>. DEFINE d == Defaults(deployed)
<1>1. d \in Tree /\ Empty \in Tree
  BY DefaultsType, EmptyTypes DEF ValuesInv, TypeOK
<1>2. TypeOK'
  <2>1. filled' \in Tree
    BY <1>1, AppendType DEF RecordSpecHash
  <2>2. stored' \in SpecRecord
    BY DEF RecordSpecHash, UpdateResource, ValuesInv, TypeOK, SpecRecord
  <2>. QED
    BY <2>1, <2>2 DEF RecordSpecHash, ValuesInv, TypeOK, status
<1>3. \A l \in Leaves : ~Has(d, Top[l]) => d.plain[l] = "none"
  BY DEF Has
<1>4. \A l \in Leaves : d.packed[l] = "none"
  BY LeavesAre DEF Defaults, Default, Empty, Nothing
<1>5. filled' = [plain  |-> [l \in Leaves |-> d.plain[l]],
                 packed |-> [l \in Leaves |-> "none"]]
  <2>. HIDE DEF d
  <2>1. filled' = AppendFrom(Empty, d, TRUE)
    BY DEF RecordSpecHash, d
  <2>. QED
    BY <2>1, <1>3, <1>4 DEF AppendFrom, Empty, Nothing
<1>6. \A l \in Leaves : Filled(l, 0)' = d.plain[l] /\ FilledPacked(l, 0)' = "none"
  BY DEF Filled, FilledPacked, RecordSpecHash, status
<1>7. /\ copy = spec.values /\ read = 0
      /\ stage' = "filling" /\ UNCHANGED <<spec, copy, read>>
  BY DEF RecordSpecHash, ValuesInv, Established
<1>8. filled' = [plain  |-> [l \in Leaves |-> Filled(l, 0)'],
                 packed |-> [l \in Leaves |-> FilledPacked(l, 0)']]
  BY <1>5, <1>6
<1>. QED
  BY <1>2, <1>7, <1>8 DEF ValuesInv, Established, ChartIsReference

LEMMA ReadFileKeeps ==
    ASSUME ValuesInv, ReadFile
    PROVE  ValuesInv'
<1>0. PICK n \in Nat : n = read + 1
  BY FilesAssumption DEF ValuesInv, TypeOK
<1>1. n \in 1..NumFiles /\ read \in Nat /\ read' = n /\ files[n] \in Tree
  BY <1>0, FilesAssumption DEF ReadFile, ValuesInv, TypeOK
<1>2. TypeOK'
  <2>1. filled' \in Tree
    BY <1>0, <1>1, AppendType DEF ReadFile, ValuesInv, TypeOK
  <2>2. read' \in 0..NumFiles
    BY <1>1, FilesAssumption
  <2>. QED
    BY <2>1, <2>2 DEF ReadFile, ValuesInv, TypeOK, inputs, status
<1>3. ASSUME NEW S \in SUBSET (1..n), n \in S PROVE Last(S) = n
  <2>1. n \in S /\ \A k \in S : k <= n
    BY <1>1, <1>3
  <2>2. Last(S) \in S /\ \A k \in S : k <= Last(S)
    BY <2>1 DEF Last
  <2>3. Last(S) \in 1..n /\ Last(S) <= n /\ n <= Last(S)
    BY <2>1, <2>2
  <2>. QED
    BY <1>1, <2>3
<1>4. ASSUME NEW l \in Leaves
      PROVE  Filled(l, n) = IF Has(files[n], Top[l]) THEN files[n].plain[l]
                            ELSE Filled(l, read)
  <2>. DEFINE H(k) == {m \in 1..k : Has(files[m], Top[l])}
  <2>1. CASE Has(files[n], Top[l])
    BY <1>1, <1>3, <2>1 DEF Filled
  <2>2. CASE ~Has(files[n], Top[l])
    <3>1. H(n) = H(read)
      BY <1>0, <1>1, <2>2
    <3>. QED
      BY <2>2, <3>1 DEF Filled
  <2>. QED
    BY <2>1, <2>2
<1>5. ASSUME NEW l \in Leaves
      PROVE  FilledPacked(l, n) = IF files[n].packed[l] # "none" THEN files[n].packed[l]
                                  ELSE FilledPacked(l, read)
  <2>. DEFINE H(k) == {m \in 1..k : files[m].packed[l] # "none"}
  <2>1. CASE files[n].packed[l] # "none"
    BY <1>1, <1>3, <2>1 DEF FilledPacked
  <2>2. CASE files[n].packed[l] = "none"
    <3>1. H(n) = H(read)
      BY <1>0, <1>1, <2>2
    <3>. QED
      BY <2>2, <3>1 DEF FilledPacked
  <2>. QED
    BY <2>1, <2>2
<1>6. filled' = [plain  |-> [l \in Leaves |-> Filled(l, n)],
                 packed |-> [l \in Leaves |-> FilledPacked(l, n)]]
  <2>1. filled' = AppendFrom(filled, files[n], TRUE)
    BY <1>0 DEF ReadFile
  <2>2. filled = [plain  |-> [l \in Leaves |-> Filled(l, read)],
                  packed |-> [l \in Leaves |-> FilledPacked(l, read)]]
    BY DEF ReadFile, ValuesInv, Established
  <2>. QED
    BY <1>4, <1>5, <2>1, <2>2 DEF AppendFrom
<1>7. \A l \in Leaves, k \in Nat :
         Filled(l, k)' = Filled(l, k) /\ FilledPacked(l, k)' = FilledPacked(l, k)
  BY DEF Filled, FilledPacked, ReadFile, inputs, status
<1>8. filled' = [plain  |-> [l \in Leaves |-> Filled(l, n)'],
                 packed |-> [l \in Leaves |-> FilledPacked(l, n)']]
  BY <1>1, <1>6, <1>7
<1>. QED
  BY <1>1, <1>2, <1>8
     DEF ReadFile, ValuesInv, Established, ChartIsReference, inputs, status

LEMMA WriteToAmbInsKeeps ==
    ASSUME ValuesInv, WriteToAmbIns
    PROVE  ValuesInv'
<1>1. /\ copy \in Tree /\ copy = spec.values
      /\ filled = [plain  |-> [l \in Leaves |-> Filled(l, NumFiles)],
                   packed |-> [l \in Leaves |-> FilledPacked(l, NumFiles)]]
      /\ copy' = AppendFrom(copy, filled, FALSE)
  BY DEF WriteToAmbIns, ValuesInv, TypeOK, Established
<1>2. TypeOK'
  <2>1. copy' \in Tree
    BY <1>1, AppendType DEF ValuesInv, TypeOK
  <2>. QED
    BY <2>1 DEF WriteToAmbIns, ValuesInv, TypeOK, inputs, status
<1>3. copy' = [plain  |-> [l \in Leaves |-> Plain(l)],
               packed |-> [l \in Leaves |-> Packed(l)]]
  <2>1. ASSUME NEW l \in Leaves
        PROVE  Plain(l) = IF Has(filled, Top[l]) /\ ~Has(copy, Top[l])
                          THEN filled.plain[l] ELSE copy.plain[l]
    BY <1>1 DEF Plain, Has
  <2>2. ASSUME NEW l \in Leaves
        PROVE  Packed(l) = IF filled.packed[l] # "none" /\ copy.packed[l] = "none"
                           THEN filled.packed[l] ELSE copy.packed[l]
    BY <1>1 DEF Packed
  <2>. QED
    BY <1>1, <2>1, <2>2 DEF AppendFrom
<1>4. \A l \in Leaves : Plain(l)' = Plain(l) /\ Packed(l)' = Packed(l)
  BY DEF Plain, Packed, Filled, FilledPacked, WriteToAmbIns, inputs, status
<1>. QED
  BY <1>2, <1>3, <1>4 DEF WriteToAmbIns, ValuesInv, Established, ChartIsReference, inputs, status

LEMMA SetStringsKeeps ==
    ASSUME ValuesInv, SetStrings
    PROVE  ValuesInv'
<1>1. TypeOK'
  BY ImageType, EmptyTypes DEF SetStrings, ValuesInv, TypeOK, inputs, status
<1>2. strings' = [l \in Leaves |-> Given(l)]
  BY LeavesAre
     DEF SetStrings, FlavorImage, BaseImage, Nothing, Given, ValuesInv, TypeOK, SpecRecord
<1>3. \A l \in Leaves : Plain(l)' = Plain(l) /\ Packed(l)' = Packed(l) /\ Given(l)' = Given(l)
  BY DEF Plain, Packed, Filled, FilledPacked, Given, SetStrings, inputs, status
<1>4. ~Conflicts'
  BY DEF SetStrings, Conflicts, inputs, status
<1>. QED
  BY <1>1, <1>2, <1>3, <1>4
     DEF SetStrings, ValuesInv, Established, ChartIsReference, inputs, status

LEMMA GetManagerForKeeps ==
    ASSUME ValuesInv, GetManagerFor
    PROVE  ValuesInv'
<1>1. /\ copy = [plain  |-> [l \in Leaves |-> Plain(l)],
                 packed |-> [l \in Leaves |-> Packed(l)]]
      /\ strings = [l \in Leaves |-> Given(l)] /\ ~Conflicts
      /\ enableAES = IF spec.oss THEN "no" ELSE "none"
  BY DEF GetManagerFor, ValuesInv, Established
<1>2. TypeOK'
  <2>1. copy.plain \in [Leaves -> Val] /\ copy.packed \in [Leaves -> Val]
    BY DEF ValuesInv, TypeOK, Tree
  <2>2. strings' \in [Leaves -> Val]
    BY <2>1 DEF GetManagerFor, ValuesInv, TypeOK
  <2>3. chart' \in [Leaves -> Val]
    BY <2>1, <2>2 DEF GetManagerFor, ValuesInv, TypeOK
  <2>. QED
    BY <2>2, <2>3 DEF GetManagerFor, ValuesInv, TypeOK, inputs, status
<1>3. \A l \in Leaves : Plain(l)' = Plain(l) /\ Packed(l)' = Packed(l) /\ Given(l)' = Given(l)
  BY DEF Plain, Packed, Filled, FilledPacked, Given, GetManagerFor, inputs, status
<1>4. ChartIsReference'
  BY <1>1, <1>3 DEF GetManagerFor, ChartIsReference, inputs, status
<1>5. ~Conflicts'
  BY <1>1 DEF Conflicts, GetManagerFor, inputs, status
<1>. QED
  BY <1>2, <1>4, <1>5 DEF GetManagerFor, ValuesInv, Established

\* Steps that end a call, or happen between calls.
LEMMA IdleKeeps ==
    ASSUME TypeOK', stage' = "idle", read' = 0
    PROVE  ValuesInv'
BY DEF ValuesInv, Established, ChartIsReference

\* Steps of which a call sees nothing: the copy it works on stays as it is.
LEMMA OutsideKeeps ==
    ASSUME ValuesInv, TypeOK',
           UNCHANGED <<files, status, stage, spec, read, filled, copy, strings,
                       enableAES, chart>>
    PROVE  ValuesInv'
<1>1. /\ \A l \in Leaves, n \in Nat :
            Filled(l, n)' = Filled(l, n) /\ FilledPacked(l, n)' = FilledPacked(l, n)
      /\ \A l \in Leaves :
            Plain(l)' = Plain(l) /\ Packed(l)' = Packed(l) /\ Given(l)' = Given(l)
      /\ Conflicts' = Conflicts
  BY DEF Plain, Packed, Filled, FilledPacked, Given, Conflicts, status
<1>2. Established'
  <2>1. stage = "filling" =>
          filled' = [plain  |-> [l \in Leaves |-> Filled(l, read)'],
                     packed |-> [l \in Leaves |-> FilledPacked(l, read)']]
    BY <1>1, FilesAssumption DEF ValuesInv, TypeOK, Established
  <2>. QED
    BY <1>1, <2>1 DEF ValuesInv, Established
<1>3. ChartIsReference'
  BY <1>1 DEF ValuesInv, ChartIsReference
<1>. QED
  BY <1>2, <1>3 DEF ValuesInv

LEMMA StepKeeps ==
    ASSUME ValuesInv, [Next]_vars
    PROVE  ValuesInv'
<1>1. CASE Lookup \/ RecordSpecHash \/ ReadFile \/ WriteToAmbIns \/ SetStrings
           \/ GetManagerFor
  BY <1>1, LookupKeeps, RecordSpecHashKeeps, ReadFileKeeps, WriteToAmbInsKeeps,
     SetStringsKeeps, GetManagerForKeeps
<1>2. CASE Panic \/ Reject \/ Finish \/ GiveUp
  <2>1. /\ End /\ UNCHANGED stored
        /\ deployed' \in BOOLEAN /\ flavor' \in {"none", "oss", "aes"}
    BY <1>2 DEF Panic, Reject, Finish, GiveUp, UpdateResourceStatus, status, ValuesInv,
                TypeOK
  <2>2. Blank \in SpecRecord
    BY EmptyTypes DEF Blank, SpecRecord
  <2>3. /\ stored' \in SpecRecord /\ asked' \in SpecRecord /\ spec' \in SpecRecord
        /\ files' \in [1..NumFiles -> Tree] /\ read' \in 0..NumFiles
    BY <2>1, <2>2, FilesAssumption DEF End, ValuesInv, TypeOK
  <2>4. /\ filled' \in Tree /\ copy' \in Tree /\ enableAES' \in Val
        /\ strings' \in [Leaves -> Val] /\ chart' \in [Leaves -> Val]
    BY <2>1, EmptyTypes DEF End
  <2>5. TypeOK'
    BY <2>1, <2>3, <2>4 DEF End, TypeOK
  <2>. QED
    BY <2>1, <2>5, IdleKeeps DEF End
<1>3. CASE Edit
  <2>1. stored' \in SpecRecord /\ asked' \in SpecRecord
    BY <1>3, TreesAssumption DEF Edit
  <2>2. TypeOK'
    BY <1>3, <2>1 DEF Edit, ValuesInv, TypeOK, status
  <2>. QED
    BY <1>3, <2>2, OutsideKeeps DEF Edit
<1>4. CASE ChangeFile
  <2>1. files' \in [1..NumFiles -> Tree]
    BY <1>4, TreesAssumption DEF ChangeFile, ValuesInv, TypeOK
  <2>2. TypeOK'
    BY <1>4, <2>1 DEF ChangeFile, ValuesInv, TypeOK, status
  <2>. QED
    BY <1>4, <2>2, IdleKeeps DEF ChangeFile, ValuesInv, Established
<1>5. CASE UNCHANGED vars
  <2>1. TypeOK'
    BY <1>5 DEF vars, ValuesInv, TypeOK
  <2>. QED
    BY <1>5, <2>1, OutsideKeeps DEF vars, status
<1>. QED
  BY <1>1, <1>2, <1>3, <1>4, <1>5 DEF Next

\* A call writes the spec back only as it has read it, and only while nobody
\* else has written it.
LEMMA UnspoiltKept ==
    ASSUME ValuesInv, Unspoilt, [Next]_vars
    PROVE  Unspoilt'
<1>1. CASE Lookup
  BY <1>1 DEF Lookup, Unspoilt
<1>2. CASE RecordSpecHash
  <2>1. fresh /\ stored' = [spec EXCEPT !.values = copy] /\ UNCHANGED <<asked, spec, fresh>>
    BY <1>2 DEF RecordSpecHash, UpdateResource
  <2>2. copy = spec.values /\ spec \in SpecRecord
    BY <1>2 DEF RecordSpecHash, ValuesInv, TypeOK, Established
  <2>3. [spec EXCEPT !.values = copy] = spec
    BY <2>2 DEF SpecRecord
  <2>. QED
    BY <2>1, <2>3 DEF Unspoilt
<1>3. CASE ReadFile \/ WriteToAmbIns \/ SetStrings \/ GetManagerFor
  <2>1. UNCHANGED inputs
    BY <1>3 DEF ReadFile, WriteToAmbIns, SetStrings, GetManagerFor, inputs
  <2>2. UNCHANGED <<stored, asked, spec, fresh>>
    BY <2>1 DEF inputs
  <2>. QED
    BY <2>2 DEF Unspoilt
<1>4. CASE Panic \/ Reject \/ Finish \/ GiveUp
  <2>1. End /\ UNCHANGED stored
    BY <1>4 DEF Panic, Reject, Finish, GiveUp, UpdateResourceStatus
  <2>. QED
    BY <2>1 DEF End, Unspoilt
<1>5. CASE Edit
  BY <1>5 DEF Edit, Unspoilt
<1>6. CASE ChangeFile \/ UNCHANGED vars
  <2>1. UNCHANGED <<stored, asked, spec, fresh>>
    BY <1>6 DEF ChangeFile, vars
  <2>. QED
    BY <2>1 DEF Unspoilt
<1>. QED
  BY <1>1, <1>2, <1>3, <1>4, <1>5, <1>6 DEF Next

LEMMA ValuesInvHolds == Spec => []ValuesInv
<1>1. ASSUME Init PROVE ValuesInv
  <2>1. stored \in SpecRecord /\ Blank \in SpecRecord
    BY <1>1, EmptyTypes DEF Init, Blank, SpecRecord
  <2>2. TypeOK
    <3>1. files \in [1..NumFiles -> Tree]
      BY <1>1, EmptyTypes DEF Init
    <3>2. read \in 0..NumFiles
      BY <1>1, FilesAssumption DEF Init
    <3>. QED
      BY <1>1, <2>1, <3>1, <3>2, EmptyTypes DEF Init, TypeOK
  <2>. QED
    BY <1>1, <2>2 DEF Init, ValuesInv, Established, ChartIsReference
<1>2. ValuesInv /\ [Next]_vars => ValuesInv'
  BY StepKeeps
<1>. QED
  BY <1>1, <1>2, PTL DEF Spec

-----------------------------------------------------------------------------

\* Every variable keeps its type, for any trees and number of files.
THEOREM ValuesTyped == Spec => []TypeOK
<1>1. ValuesInv => TypeOK
  BY DEF ValuesInv
<1>. QED
  BY <1>1, ValuesInvHolds, PTL

\* The chart gets of each leaf what the source that comes first says of it:
\* packed keys, the operator, the spec, the last file, the defaults
\* (reconcile.go:293-425, charts.go:55-151).
THEOREM PrecedenceIsKept == Spec => []ChartIsReference
<1>1. ValuesInv => ChartIsReference
  BY DEF ValuesInv
<1>. QED
  BY <1>1, ValuesInvHolds, PTL

\* The flavor that is rendered is the one the spec asks for, as long as no file
\* has its own enableAES and the spec gives a boolean or nothing
\* (reconcile.go:317-346, 386-420).
THEOREM FlavorIsKept == Spec => []FlavorIsRendered
<1>1. ASSUME ValuesInv PROVE FlavorIsRendered
  <2>. DEFINE e == "enableAES"
  <2>1. SUFFICES ASSUME stage = "rendered", spec.values.plain[e] # "text",
                        \A n \in 1..NumFiles : ~Has(files[n], e)
                 PROVE  chart[e] = "no" <=> spec.oss
    BY DEF FlavorIsRendered
  <2>2. /\ e \in Leaves /\ Top[e] = e /\ Scalar(e)
    BY LeavesAre DEF Top, Scalar
  <2>3. spec.values \in Tree /\ \A n \in 1..NumFiles : files[n] \in Tree
    BY <1>1 DEF ValuesInv, TypeOK, SpecRecord
  <2>4. Packed(e) = "none"
    <3>1. spec.values.packed[e] = "none" /\ \A n \in 1..NumFiles : files[n].packed[e] = "none"
      BY <2>2, <2>3 DEF Tree
    <3>. QED
      BY <3>1 DEF Packed, FilledPacked
  <2>5. Given(e) = "none"
    BY DEF Given
  <2>6. Plain(e) = spec.values.plain[e]
    <3>1. Filled(e, NumFiles) = Defaults(deployed).plain[e]
      BY <2>1, <2>2 DEF Filled
    <3>2. Defaults(deployed).plain[e] = "none"
      BY LeavesAre DEF Defaults, Default, Empty, Nothing
    <3>. QED
      BY <2>2, <3>1, <3>2 DEF Plain, Has
  <2>7. spec.values.plain[e] \in {"none", "yes", "no", "text"} /\ ~Conflicts
    BY <1>1, <2>1, <2>3 DEF Tree, ValuesInv, Established
  <2>8. chart[e] = IF Plain(e) = "none" /\ spec.oss THEN "no" ELSE Plain(e)
    BY <1>1, <2>1, <2>2, <2>4, <2>5 DEF ValuesInv, ChartIsReference
  <2>9. spec.oss \in BOOLEAN
    BY <1>1 DEF ValuesInv, TypeOK, SpecRecord
  <2>. QED
    BY <2>1, <2>6, <2>7, <2>8, <2>9 DEF Conflicts
<1>. QED
  BY <1>1, ValuesInvHolds, PTL

\* The stored spec is what users wrote last: no write of a call, of the hash or
\* of a status, takes back an edit made since the call read the CR, or stores
\* what it has filled in (reconcile.go:286-315, 453-460).
THEOREM SpecIsUsers == Spec => []StoredSpecIsUsers
<1>1. Init => Unspoilt
  BY DEF Init, Unspoilt
<1>2. ValuesInv /\ Unspoilt /\ [Next]_vars => Unspoilt'
  BY UnspoiltKept
<1>3. Unspoilt => StoredSpecIsUsers
  BY DEF Unspoilt, StoredSpecIsUsers
<1>. QED
  BY <1>1, <1>2, <1>3, ValuesInvHolds, PTL DEF Spec
=============================================================================
