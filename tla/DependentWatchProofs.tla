------------------------- MODULE DependentWatchProofs -------------------------
(***************************************************************************)
(* The release hook watches every kind of dependents once, and leaves none *)
(* out that is to be watched, for all manifests, however often it is       *)
(* interrupted by errors and by new processes.                             *)
(***************************************************************************)
EXTENDS DependentWatch, SequenceTheorems, TLAPS

InHookStage == call.stage = "hook"

\* What the map records and what is watched agree, and of the manifest the
\* hook has left nothing behind it that is to be watched.
WatchInv ==
    /\ watches \subseteq Kinds
    /\ handlers = [k \in Kinds |-> IF k \in watches /\ Watchable(k) THEN 1 ELSE 0]
    /\ InHookStage =>
          /\ chart \in DOMAIN Manifests
          /\ call.doc \in 1..(Len(Documents) + 1)
          /\ \A n \in 1..(call.doc - 1) : Watchable(Documents[n]) =>
                                            Documents[n] \in watches \cup {NoKind}

TypeInv == TypeOK /\ WatchInv

-----------------------------------------------------------------------------
\* The constants: what a manifest is.

LEMMA ManifestType ==
    ASSUME NEW m \in DOMAIN Manifests
    PROVE  /\ Len(Manifests[m]) \in Nat
           /\ DOMAIN Manifests[m] = 1..Len(Manifests[m])
           /\ \A n \in 1..Len(Manifests[m]) : Manifests[m][n] \in Kinds \cup {NoKind}
<1>1. Manifests[m] \in Seq(Kinds \cup {NoKind})
  BY ManifestsAssumption, ElementOfSeq
<1>. QED
  BY <1>1

LEMMA ChartsOrdered ==
    /\ DOMAIN Manifests = 1..Len(Manifests)
    /\ Len(Manifests) \in Nat \ {0}
BY ManifestsAssumption

LEMMA HookStages ==
    /\ Idle.stage # "hook" /\ Called.stage # "hook" /\ Idle # Called
    /\ \A op, n : /\ Hooked(op, n).stage = "hook" /\ Hooked(op, n).op = op
                  /\ Hooked(op, n).doc = n
                  /\ Hooked(op, n) # Idle /\ Hooked(op, n) # Called
BY DEF Idle, Called, Hooked

\* A hook is a call at a document of some manifest or just after the last one.
LEMMA HookType ==
    ASSUME NEW op \in {"deploy", "reconcile"}, NEW m \in DOMAIN Manifests,
           NEW n \in 1..(Len(Manifests[m]) + 1)
    PROVE  Hooked(op, n) \in Hooks
<1>. DEFINE stops == {Hooked(op, k) : k \in 1..(Len(Manifests[m]) + 1)}
            all   == {{Hooked(o, k) : k \in 1..(Len(Manifests[j]) + 1)} :
                         o \in {"deploy", "reconcile"}, j \in DOMAIN Manifests}
<1>1. Hooked(op, n) \in stops
  OBVIOUS
<1>2. stops \in all
  OBVIOUS
<1>3. Hooks = UNION all
  BY DEF Hooks
<1>. HIDE DEF stops, all
<1>. QED
  BY <1>1, <1>2, <1>3

LEMMA HookIsHooked ==
    ASSUME call \in {Idle, Called} \cup Hooks, InHookStage
    PROVE  /\ call.op \in {"deploy", "reconcile"}
           /\ call = Hooked(call.op, call.doc)
           /\ call.doc \in Nat \ {0}
<1>1. call \in Hooks
  BY HookStages DEF InHookStage
<1>2. PICK op \in {"deploy", "reconcile"}, m \in DOMAIN Manifests :
         \E n \in 1..(Len(Manifests[m]) + 1) : call = Hooked(op, n)
  BY <1>1 DEF Hooks
<1>3. PICK n \in 1..(Len(Manifests[m]) + 1) : call = Hooked(op, n)
  BY <1>2
<1>4. call.op = op /\ call.doc = n
  BY <1>3, HookStages
<1>. QED
  BY <1>3, <1>4, ManifestType

-----------------------------------------------------------------------------

LEMMA InitWatch == Init => TypeInv
<1>1. SUFFICES ASSUME Init PROVE TypeInv
  OBVIOUS
<1>2. ~InHookStage
  BY <1>1, HookStages DEF Init, InHookStage
<1>3. WatchInv
  BY <1>1, <1>2 DEF Init, WatchInv
<1>4. /\ known \subseteq Kinds /\ watches \subseteq Kinds /\ handlers \in [Kinds -> Nat]
      /\ state \in [Kinds -> {"none", "fine", "changed", "deleted"}]
  BY <1>1, KindsAssumption DEF Init
<1>5. newest \in DOMAIN Manifests /\ chart \in 0..newest
  BY <1>1, ChartsOrdered DEF Init
<1>6. age \in 0..UpdateInterval /\ drifts \in 0..MaxDrift /\ faults \in 0..MaxFaults
  BY <1>1, WatchBoundsAssumption DEF Init
<1>7. /\ deployed \in {"no", "hidden", "last"} /\ open \in BOOLEAN /\ queue \in BOOLEAN /\ timer \in BOOLEAN
      /\ call \in {Idle, Called} \cup Hooks
  BY <1>1 DEF Init
<1>. QED
  BY <1>3, <1>4, <1>5, <1>6, <1>7 DEF TypeInv, TypeOK

\* A step that leaves the map and the watches alone and is in no hook
\* afterwards.
LEMMA OutOfHook ==
    ASSUME WatchInv, UNCHANGED <<watches, handlers>>, call'.stage # "hook"
    PROVE  WatchInv'
BY DEF WatchInv, InHookStage, Watchable

\* A step that leaves the map, the watches and the hook alone.
LEMMA SameHook ==
    ASSUME WatchInv, UNCHANGED <<watches, handlers, call, chart>>
    PROVE  WatchInv'
BY DEF WatchInv, InHookStage, Watchable, Documents

\* The next document, when the one in hand needs no watch or has one now.
LEMMA NextInHook ==
    ASSUME TypeInv, InHook, NextDocument, watches \subseteq watches',
           Watchable(Document) => Document \in watches' \cup {NoKind},
           watches' \subseteq Kinds,
           handlers' = [k \in Kinds |-> IF k \in watches' /\ Watchable(k) THEN 1 ELSE 0]
    PROVE  WatchInv'
<1>1. InHookStage /\ call = Hooked(call.op, call.doc)
      /\ call.op \in {"deploy", "reconcile"} /\ call.doc \in Nat \ {0}
  BY HookIsHooked DEF TypeInv, TypeOK, InHook, InHookStage
<1>2. call' = Hooked(call.op, call.doc + 1)
  BY <1>1 DEF NextDocument, Hooked
<1>3. call'.doc = call.doc + 1 /\ call'.stage = "hook"
  BY <1>2, HookStages
<1>4. chart' = chart /\ chart \in DOMAIN Manifests
  BY <1>1 DEF NextDocument, TypeInv, WatchInv
<1>5. Len(Documents) \in Nat /\ call.doc <= Len(Documents)
  BY <1>4, ManifestType DEF Documents, InHook
<1>6. ASSUME NEW n \in 1..(call'.doc - 1), Watchable(Documents[n])
      PROVE  Documents[n] \in watches' \cup {NoKind}
  <2>1. CASE n = call.doc
    BY <1>6, <2>1 DEF Document
  <2>2. CASE n # call.doc
    <3>1. n \in 1..(call.doc - 1)
      BY <1>1, <1>3, <2>2
    <3>. QED
      BY <1>1, <1>6, <3>1 DEF TypeInv, WatchInv
  <2>. QED
    BY <2>1, <2>2
<1>7. call'.doc \in 1..(Len(Documents) + 1)
  BY <1>1, <1>3, <1>5
<1>. QED
  BY <1>3, <1>4, <1>6, <1>7 DEF WatchInv, InHookStage, Watchable, Documents

LEMMA HookAdvances ==
    ASSUME TypeInv, InHook, NextDocument
    PROVE  call' \in Hooks
<1>1. InHookStage /\ call = Hooked(call.op, call.doc)
      /\ call.op \in {"deploy", "reconcile"} /\ call.doc \in Nat \ {0}
  BY HookIsHooked DEF TypeInv, TypeOK, InHook, InHookStage
<1>2. call' = Hooked(call.op, call.doc + 1)
  BY <1>1 DEF NextDocument, Hooked
<1>3. chart \in DOMAIN Manifests
  BY <1>1 DEF TypeInv, WatchInv
<1>4. Len(Documents) \in Nat /\ call.doc <= Len(Documents)
  BY <1>3, ManifestType DEF Documents, InHook
<1>. QED
  BY <1>1, <1>2, <1>3, <1>4, HookType DEF Documents

LEMMA NextWatch ==
    ASSUME TypeInv, [Next]_vars
    PROVE  WatchInv'
<1>. USE HookStages
<1>1. CASE Start \/ Skip \/ ApplyFails \/ WatchFails \/ NotMapped \/ Report \/ ReportFails
  <2>1. UNCHANGED <<watches, handlers>> /\ call' \in {Idle, Called}
    BY <1>1 DEF Start, Skip, ApplyFails, WatchFails, NotMapped, Report, ReportFails, watching
  <2>. QED
    BY <2>1, OutOfHook DEF TypeInv
<1>2. CASE Apply
  <2>1. chart' \in DOMAIN Manifests /\ UNCHANGED <<watches, handlers>>
    BY <1>2 DEF Apply, TypeInv, TypeOK, watching
  <2>2. PICK op : call' = Hooked(op, 1)
    BY <1>2 DEF Apply
  <2>3. call'.doc = 1
    BY <2>2
  <2>4. Len(Manifests[chart']) \in Nat
    BY <2>1, ManifestType
  <2>. QED
    BY <2>1, <2>3, <2>4 DEF TypeInv, WatchInv, Documents, Watchable
<1>3. CASE PassOver
  <2>1. InHook /\ NextDocument /\ UNCHANGED <<watches, handlers>>
    BY <1>3 DEF PassOver, watching
  <2>2. Watchable(Document) => Document \in watches \cup {NoKind}
    BY <1>3 DEF PassOver, Watchable
  <2>. QED
    BY <2>1, <2>2, NextInHook DEF TypeInv, WatchInv
<1>4. CASE Record
  <2>1. /\ InHook /\ NextDocument /\ UNCHANGED handlers
        /\ watches' = watches \cup {Document} /\ Document \in Kinds
        /\ ~Watchable(Document)
    BY <1>4 DEF Record, New, TypeInv, TypeOK, Watchable
  <2>2. handlers' = [k \in Kinds |-> IF k \in watches' /\ Watchable(k) THEN 1 ELSE 0]
    BY <2>1 DEF TypeInv, WatchInv
  <2>. QED
    BY <2>1, <2>2, NextInHook DEF TypeInv, WatchInv
<1>5. CASE Watch
  <2>1. /\ InHook /\ NextDocument
        /\ handlers' = [handlers EXCEPT ![Document] = @ + 1]
        /\ watches' = watches \cup {Document} /\ Document \in Kinds \ watches
        /\ Watchable(Document)
    BY <1>5 DEF Watch, New, TypeInv, TypeOK
  <2>2. handlers' = [k \in Kinds |-> IF k \in watches' /\ Watchable(k) THEN 1 ELSE 0]
    BY <2>1 DEF TypeInv, WatchInv
  <2>. QED
    BY <2>1, <2>2, NextInHook DEF TypeInv, WatchInv
<1>6. CASE \/ \E k \in Kinds : Drift(k) \/ StatusChanges(k)
           \/ Publish \/ Discover \/ Age \/ TimerFires
  <2>1. UNCHANGED <<watches, handlers, call, chart>>
    BY <1>6 DEF Drift, StatusChanges, Publish, Discover, Age, TimerFires, watching
  <2>. QED
    BY <2>1, SameHook DEF TypeInv
<1>7. CASE Crash
  BY <1>7 DEF Crash, WatchInv, InHookStage
<1>8. CASE UNCHANGED vars
  BY <1>8, SameHook DEF vars, TypeInv
<1>. QED
  BY <1>1, <1>2, <1>3, <1>4, <1>5, <1>6, <1>7, <1>8 DEF Next, Worker

-----------------------------------------------------------------------------
\* Types.

LEMMA DocumentType ==
    ASSUME TypeInv, InHook
    PROVE  Document \in Kinds \cup {NoKind}
<1>1. InHookStage /\ chart \in DOMAIN Manifests /\ call.doc \in 1..(Len(Documents) + 1)
  BY DEF InHook, InHookStage, TypeInv, WatchInv
<1>2. call.doc \in 1..Len(Documents)
  BY <1>1, ManifestType DEF InHook, Documents
<1>. QED
  BY <1>1, <1>2, ManifestType DEF Document, Documents

LEMMA KindsOfType ==
    ASSUME NEW n \in 0..Len(Manifests)
    PROVE  KindsOf(n) \subseteq Kinds
<1>1. CASE n = 0
  BY <1>1 DEF KindsOf
<1>2. CASE n # 0
  <2>1. n \in DOMAIN Manifests
    BY <1>2, ChartsOrdered
  <2>. QED
    BY <1>2, <2>1, ManifestType DEF KindsOf, ToSet
<1>. QED
  BY <1>1, <1>2

LEMMA ExistingType ==
    ASSUME TypeInv
    PROVE  Existing \subseteq Kinds
<1>1. ASSUME NEW n \in 1..chart PROVE KindsOf(n) \subseteq Kinds
  BY ChartsOrdered, KindsOfType DEF TypeInv, TypeOK
<1>. QED
  BY <1>1, KindsAssumption DEF Existing

LEMMA FaultType ==
    ASSUME TypeInv, Fault
    PROVE  faults' \in 0..MaxFaults
BY WatchBoundsAssumption DEF TypeInv, TypeOK, Fault

LEMMA NextType ==
    ASSUME TypeInv, [Next]_vars
    PROVE  TypeOK'
<1>. USE DEF TypeInv, watching, status, outside
<1>1. CASE Start \/ Skip
  BY <1>1 DEF Start, Skip, TypeOK
<1>2. CASE ApplyFails
  <2>1. deployed' \in {"no", "hidden", "last"} /\ faults' \in 0..MaxFaults
    BY <1>2, FaultType DEF ApplyFails, TypeOK
  <2>. QED
    BY <1>2, <2>1 DEF ApplyFails, TypeOK
<1>3. CASE WatchFails \/ NotMapped
  <2>1. faults' \in 0..MaxFaults
    BY <1>3, FaultType DEF WatchFails, NotMapped, TypeOK
  <2>. QED
    BY <1>3, <2>1 DEF WatchFails, NotMapped, TypeOK
<1>4. CASE ReportFails
  <2>1. faults' \in 0..MaxFaults
    BY <1>4, FaultType DEF ReportFails
  <2>2. queue' \in BOOLEAN /\ timer' \in BOOLEAN
    BY <1>4 DEF ReportFails, TypeOK
  <2>. QED
    BY <1>4, <2>1, <2>2 DEF ReportFails, TypeOK
<1>5. CASE Report
  <2>1. queue' \in BOOLEAN /\ timer' \in BOOLEAN
    <3>1. queue' \in {queue, TRUE}
      BY <1>5 DEF Report
    <3>. QED
      BY <1>5, <3>1, Zenon DEF Report, TypeOK
  <2>2. deployed' \in {"no", "hidden", "last"}
    BY <1>5 DEF Report, TypeOK
  <2>3. age' \in 0..UpdateInterval
    BY <1>5, WatchBoundsAssumption DEF Report
  <2>. QED
    BY <1>5, <2>1, <2>2, <2>3 DEF Report, TypeOK
<1>6. CASE Apply
  <2>1. newest' = newest /\ chart' = newest /\ newest \in 1..Len(Manifests)
    BY <1>6, ChartsOrdered DEF Apply, TypeOK
  <2>2. state' \in [Kinds -> {"none", "fine", "changed", "deleted"}]
    BY <1>6 DEF Apply
  <2>3. queue' \in BOOLEAN
    BY <1>6, Zenon DEF Apply, TypeOK
  <2>4. PICK op \in {"deploy", "reconcile"} : call' = Hooked(op, 1)
    BY <1>6 DEF Apply
  <2>5. newest \in DOMAIN Manifests /\ Len(Manifests[newest]) \in Nat
    BY <2>1, ChartsOrdered, ManifestType
  <2>6. call' \in Hooks
    BY <2>4, <2>5, HookType
  <2>. QED
    BY <1>6, <2>1, <2>2, <2>3, <2>5, <2>6 DEF Apply, TypeOK
<1>7. CASE PassOver \/ Record \/ Watch
  <2>1. InHook /\ NextDocument /\ watches \subseteq watches' /\ UNCHANGED known
    BY <1>7 DEF PassOver, Record, Watch, New
  <2>2. Document \in Kinds \cup {NoKind}
    BY <2>1, DocumentType
  <2>3. handlers' \in [Kinds -> Nat] /\ watches' \subseteq Kinds
    BY <1>7, <2>2 DEF PassOver, Record, Watch, New, TypeOK
  <2>4. call' \in Hooks
    BY <2>1, HookAdvances
  <2>. QED
    BY <2>1, <2>3, <2>4 DEF NextDocument, TypeOK
<1>8. ASSUME NEW k \in Kinds, Drift(k) PROVE TypeOK'
  <2>1. drifts' \in 0..MaxDrift
    BY <1>8, WatchBoundsAssumption DEF Drift, TypeOK
  <2>2. state' \in [Kinds -> {"none", "fine", "changed", "deleted"}]
    BY <1>8 DEF Drift, TypeOK
  <2>3. queue' \in BOOLEAN
    BY <1>8, Zenon DEF Drift, TypeOK
  <2>. QED
    BY <1>8, <2>1, <2>2, <2>3 DEF Drift, TypeOK
<1>9. ASSUME NEW k \in Kinds, StatusChanges(k) PROVE TypeOK'
  <2>1. queue' \in BOOLEAN
    BY <1>9, Zenon DEF StatusChanges, TypeOK
  <2>. QED
    BY <1>9, <2>1 DEF StatusChanges, TypeOK
<1>10. CASE Publish
  <2>1. newest' \in DOMAIN Manifests /\ chart' \in 0..newest'
    BY <1>10, ChartsOrdered DEF Publish, TypeOK
  <2>. QED
    BY <1>10, <2>1 DEF Publish, TypeOK
<1>11. CASE Discover
  BY <1>11, ExistingType DEF Discover, TypeOK
<1>12. CASE Age
  BY <1>12, WatchBoundsAssumption DEF Age, TypeOK
<1>13. CASE TimerFires
  BY <1>13 DEF TimerFires, TypeOK
<1>14. CASE Crash
  <2>1. faults' \in 0..MaxFaults
    BY <1>14, FaultType DEF Crash
  <2>. QED
    BY <1>14, <2>1, ExistingType DEF Crash, TypeOK
<1>15. CASE UNCHANGED vars
  BY <1>15 DEF vars, TypeOK
<1>. QED
  BY <1>1, <1>2, <1>3, <1>4, <1>5, <1>6, <1>7, <1>8, <1>9, <1>10, <1>11, <1>12,
     <1>13, <1>14, <1>15 DEF Next, Worker

LEMMA AlwaysWatching == Spec => []TypeInv
<1>1. TypeInv /\ [Next]_vars => TypeInv'
  BY NextWatch, NextType DEF TypeInv
<1>. QED
  BY InitWatch, <1>1, PTL DEF Spec

-----------------------------------------------------------------------------

\* Every variable keeps its type: the hook never reads past a manifest.
THEOREM WatchTyped == Spec => []TypeOK
<1>1. TypeInv => TypeOK
  BY DEF TypeInv
<1>. QED
  BY <1>1, AlwaysWatching, PTL

\* No kind is watched twice, and none of those that need no watch, for all
\* manifests and whatever interrupts the hook (controller.go:94-141).
THEOREM HandlersAreSingle == Spec => []OneHandlerPerKind
<1>1. TypeInv => OneHandlerPerKind
  BY DEF TypeInv, WatchInv, OneHandlerPerKind
<1>. QED
  BY <1>1, AlwaysWatching, PTL

\* The hook ends without an error only when every dependent that is to be
\* watched is, wherever in the manifest it stands (controller.go:78-142).
THEOREM NoneIsLeftOut == Spec => []ReportedIsWatched
<1>1. TypeInv => ReportedIsWatched
  <2>1. SUFFICES ASSUME TypeInv, AfterHook, NEW k \in KindsOf(chart), Watchable(k)
                 PROVE  handlers[k] > 0
    BY DEF ReportedIsWatched
  <2>2. /\ chart \in DOMAIN Manifests /\ call.doc = Len(Documents) + 1
        /\ \A n \in 1..(call.doc - 1) : Watchable(Documents[n]) =>
                                         Documents[n] \in watches \cup {NoKind}
    BY <2>1 DEF AfterHook, TypeInv, WatchInv, InHookStage
  <2>3. chart # 0 /\ DOMAIN Documents = 1..Len(Documents) /\ Len(Documents) \in Nat
    BY <2>2, ChartsOrdered, ManifestType DEF Documents
  <2>4. PICK n \in 1..Len(Documents) : Documents[n] = k
    BY <2>1, <2>3 DEF KindsOf, ToSet, Documents
  <2>5. k # NoKind
    BY <2>1, <2>3 DEF KindsOf
  <2>6. k \in watches
    BY <2>1, <2>2, <2>3, <2>4, <2>5
  <2>. QED
    BY <2>1, <2>6 DEF TypeInv, WatchInv
<1>. QED
  BY <1>1, AlwaysWatching, PTL
=============================================================================
