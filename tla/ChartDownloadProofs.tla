------------------------- MODULE ChartDownloadProofs -------------------------
(***************************************************************************)
(* The chart a call works with is on the disk as long as it does, and a    *)
(* directory that was not made for a download is never removed; what stays *)
(* on the disk was left by calls that failed.  The search of an index, of  *)
(* any length, finds the newest chart that is allowed, or fails for a      *)
(* reason.                                                                 *)
(***************************************************************************)
EXTENDS ChartDownload, ListLemmas, FiniteSetTheorems

\* From the creation of the temporary directory to the first cleanup the
\* directory of the chart exists; only such a directory is marked for cleanup.
DiskInv ==
    /\ Own \in disk
    /\ dir = Own => ~cleanup
    /\ stage \in {"made", "got", "unpacked", "ready", "used"} => dir \in disk

LEMMA InitDisk == Init => DiskInv
BY SentinelAssumption DEF Init, DiskInv

LEMMA NextDisk == DiskInv /\ [Next]_vars => DiskInv'
<1> SUFFICES ASSUME DiskInv, [Next]_vars PROVE DiskInv'
  OBVIOUS
<1> USE SentinelAssumption DEF DiskInv, At, Goto
<1>1. CASE Begin
  BY <1>1 DEF Begin
<1>2. ASSUME Fail PROVE DiskInv'
  BY <1>2 DEF Fail
<1>3. CASE UnknownScheme \/ FetchFails \/ FindFails \/ MakeDirFails
           \/ GetFails \/ UnpackFails \/ LookupFails
  BY <1>2, <1>3 DEF UnknownScheme, FetchFails, FindFails, MakeDirFails,
                    GetFails, UnpackFails, LookupFails
<1>4. CASE FetchIndex \/ Find
  BY <1>4 DEF FetchIndex, Find, local
<1>5. CASE MakeDir
  <2>1. PICK d \in Dirs \ disk : dir' = d /\ disk' = disk \cup {d}
    BY <1>5 DEF MakeDir
  <2> QED BY <2>1
<1>6. CASE Get \/ Unpack \/ LookupChart \/ Use
  BY <1>6 DEF Get, Unpack, LookupChart, Use, local
<1>7. CASE CleanupFirst \/ CleanupAgain
  BY <1>7 DEF CleanupFirst, CleanupAgain, RemoveDir
<1>8. CASE Restart
  BY <1>8 DEF Restart
<1>9. CASE UNCHANGED vars
  BY <1>9 DEF vars
<1> QED BY <1>1, <1>3, <1>4, <1>5, <1>6, <1>7, <1>8, <1>9 DEF Next

\* A chart that is in use is on the disk, and the directory a user names in
\* spec.helmRepo is not removed (downloader.go:199-213).
THEOREM ChartsAreKept == Spec => []ChartIsKept
<1>1. DiskInv => ChartIsKept
  BY DEF DiskInv, ChartIsKept
<1> QED BY InitDisk, NextDisk, <1>1, PTL DEF Spec

-----------------------------------------------------------------------------
\* What the calls leave behind.

Temporary == disk \ {Own}

\* The call has a temporary directory that it will remove.
HasDir == cleanup /\ stage \in {"made", "got", "unpacked", "ready", "used"}

\* Every directory but that of the call was left by a call that failed, and so
\* was every file but the one it is unpacking.
LeftInv ==
    /\ disk \subseteq Dirs \cup {Own} /\ Debug \in BOOLEAN
    /\ archives \in Nat /\ failed \in Nat
    /\ HasDir => dir \in Temporary
    /\ stage = "cleaned" => dir = NoDir
    /\ ~Debug => Cardinality(Temporary) <= failed + (IF HasDir THEN 1 ELSE 0)
    /\ archives <= failed + (IF stage = "got" THEN 1 ELSE 0)
    /\ stage = "got" => archives > 0

\* The temporary directories can be counted.
LEMMA Countable ==
    ASSUME disk \subseteq Dirs \cup {Own}
    PROVE  IsFiniteSet(Temporary) /\ Cardinality(Temporary) \in Nat
<1>1. IsFiniteSet(Dirs)
  BY BoundsAssumption, FS_Interval DEF Dirs
<1>2. Temporary \subseteq Dirs
  BY DEF Temporary
<1>. QED
  BY <1>1, <1>2, FS_Subset, FS_CardinalityType

LEMMA InitLeft == Init => LeftInv
<1>1. SUFFICES ASSUME Init PROVE LeftInv
  OBVIOUS
<1>2. Temporary = {}
  BY <1>1 DEF Init, Temporary
<1>3. Cardinality(Temporary) = 0
  BY <1>2, FS_EmptySet
<1>. QED
  BY <1>1, <1>3, InputsAssumption DEF Init, LeftInv, HasDir

\* A call fails: the directory it has, and the file, are left.
LEMMA FailLeaves ==
    ASSUME LeftInv, Fail, archives' \in Nat,
           archives' <= archives + (IF stage = "got" THEN 0 ELSE 1),
           stage = "got" => archives' = archives - 1
    PROVE  LeftInv'
<1>1. UNCHANGED Temporary /\ failed' = failed + 1 /\ stage' = "idle" /\ ~cleanup'
  BY DEF Fail, Goto, Temporary
<1>2. Cardinality(Temporary) \in Nat
  BY Countable DEF LeftInv
<1>. QED
  BY <1>1, <1>2 DEF LeftInv, HasDir, Fail

LEMMA NextLeft ==
    ASSUME LeftInv, [Next]_vars
    PROVE  LeftInv'
<1>. USE DEF At, Goto
<1>1. IsFiniteSet(Temporary) /\ Cardinality(Temporary) \in Nat
  BY Countable DEF LeftInv
<1>2. CASE \/ UnknownScheme \/ FetchFails \/ FindFails \/ MakeDirFails
           \/ GetFails \/ UnpackFails \/ LookupFails
  <2>1. Fail
    BY <1>2 DEF UnknownScheme, FetchFails, FindFails, MakeDirFails, GetFails,
                UnpackFails, LookupFails
  <2>2. /\ archives' \in {archives - 1, archives, archives + 1}
        /\ stage = "got" <=> archives' = archives - 1
        /\ stage = "got" => UnpackFails
    BY <1>2 DEF UnknownScheme, FetchFails, FindFails, MakeDirFails, GetFails,
                UnpackFails, LookupFails, LeftInv
  <2>. QED
    BY <2>1, <2>2, FailLeaves DEF LeftInv
<1>3. CASE Begin \/ FetchIndex \/ Find \/ Get \/ Unpack \/ LookupChart \/ Use
  <2>1. UNCHANGED <<Temporary, disk, failed>>
    BY <1>3 DEF Begin, FetchIndex, Find, Get, Unpack, LookupChart, Use, Temporary
  <2>2. /\ HasDir' => HasDir /\ dir' = dir
        /\ HasDir' <=> HasDir
        /\ stage' # "cleaned"
    BY <1>3 DEF Begin, FetchIndex, Find, Get, Unpack, LookupChart, Use, HasDir, local
  <2>3. /\ archives' = archives + (IF stage' = "got" THEN 1 ELSE 0)
                                - (IF stage = "got" THEN 1 ELSE 0)
        /\ archives' \in Nat
    BY <1>3 DEF Begin, FetchIndex, Find, Get, Unpack, LookupChart, Use, LeftInv
  <2>. QED
    BY <1>1, <2>1, <2>2, <2>3 DEF LeftInv
<1>4. CASE MakeDir
  <2>1. PICK d \in Dirs \ disk : dir' = d /\ disk' = disk \cup {d}
    BY <1>4 DEF MakeDir
  <2>2. /\ Temporary' = Temporary \cup {d} /\ d \notin Temporary
        /\ UNCHANGED <<archives, failed>> /\ HasDir' /\ ~HasDir
        /\ stage \in {"found", "start"} /\ stage' = "made"
    BY <1>4, <2>1, SentinelAssumption DEF MakeDir, Temporary, HasDir
  <2>3. Cardinality(Temporary') = Cardinality(Temporary) + 1
    BY <1>1, <2>2, FS_AddElement
  <2>. QED
    BY <1>1, <2>1, <2>2, <2>3 DEF LeftInv
<1>5. CASE CleanupFirst \/ CleanupAgain
  <2>1. /\ stage \in {"used", "cleaned"} /\ dir' = NoDir /\ ~HasDir'
        /\ UNCHANGED <<archives, failed>> /\ stage' \in {"idle", "cleaned"}
    BY <1>5 DEF CleanupFirst, CleanupAgain, HasDir
  <2>2. CASE HasDir /\ ~Debug
    <3>1. dir \in Temporary /\ dir # NoDir
      BY <2>2, SentinelAssumption DEF LeftInv, Temporary
    <3>2. disk' = disk \ {dir} /\ Temporary' = Temporary \ {dir}
      BY <1>5, <2>1, <2>2, <3>1
         DEF CleanupFirst, CleanupAgain, RemoveDir, HasDir, Temporary, LeftInv
    <3>3. Cardinality(Temporary') = Cardinality(Temporary) - 1
      BY <1>1, <3>1, <3>2, FS_RemoveElement
    <3>. QED
      BY <1>1, <2>1, <2>2, <3>2, <3>3 DEF LeftInv
  <2>3. CASE ~(HasDir /\ ~Debug)
    <3>1. UNCHANGED disk
      BY <1>5, <2>3 DEF CleanupFirst, CleanupAgain, RemoveDir, HasDir, LeftInv
    <3>2. UNCHANGED <<Temporary, disk>>
      BY <3>1 DEF Temporary
    <3>. QED
      BY <1>1, <2>1, <2>3, <3>2 DEF LeftInv
  <2>. QED
    BY <2>2, <2>3
<1>6. CASE Restart
  <2>1. Temporary' = {}
    BY <1>6 DEF Restart, Temporary
  <2>2. Cardinality(Temporary') = 0
    BY <2>1, FS_EmptySet
  <2>. QED
    BY <1>6, <2>2 DEF Restart, LeftInv, HasDir
<1>7. CASE UNCHANGED vars
  BY <1>7 DEF vars, LeftInv, HasDir, Temporary
<1>. QED
  BY <1>2, <1>3, <1>4, <1>5, <1>6, <1>7 DEF Next

\* Between two calls the disk holds no more than the failed calls left, however
\* the calls ended and though the cleanup runs twice (downloader.go:199,
\* reconcile_update.go:105-108).
THEOREM NothingElseIsLeft == Spec => []OnlyFailuresLeave
<1>1. Init => LeftInv
  BY InitLeft
<1>2. LeftInv /\ [Next]_vars => LeftInv'
  BY NextLeft
<1>3. LeftInv => OnlyFailuresLeave
  BY Countable DEF LeftInv, HasDir, OnlyFailuresLeave, At, Temporary
<1>. QED
  BY <1>1, <1>2, <1>3, PTL DEF Spec

-----------------------------------------------------------------------------
\* The search.

\* The loop of Search: latest[k] is what it has after k entries.
IsSearch(latest, idx, allowed) ==
    /\ latest[0] = NoEntry
    /\ \A k \in 1..Len(idx) :
          latest[k] = IF /\ Allowed(idx[k], allowed)
                         /\ latest[k-1] = NoEntry \/ Better(idx[k], latest[k-1])
                      THEN idx[k] ELSE latest[k-1]

\* When no entry offends, Search returns what that loop has in the end.
LEMMA SearchIsLoop ==
    ASSUME NEW idx \in Seq(Entry), NEW allowed,
           ~\E e \in ToSet(idx) : Offends(e, allowed)
    PROVE  \E latest : /\ IsSearch(latest, idx, allowed)
                       /\ Search(idx, allowed) = latest[Len(idx)]
<1>. DEFINE n == Len(idx)
            V == Entry \cup {NoEntry}
            Step(latest, e) == IF /\ Allowed(e, allowed)
                                  /\ latest = NoEntry \/ Better(e, latest)
                               THEN e ELSE latest
            G == [k \in 1..n |-> [latest \in V |-> Step(latest, idx[k])]]
            Fold(f) == f = [s \in SUBSET (1..n) |->
                              IF s = {} THEN NoEntry
                              ELSE Step(f[s \ {Max(s)}], idx[Max(s)])]
            iter == CHOOSE f : Fold(f)
<1>1. n \in Nat /\ DOMAIN idx = 1..n /\ \A k \in 1..n : idx[k] \in Entry
  OBVIOUS
<1>2. Search(idx, allowed) = iter[1..n]
  BY <1>1 DEF Search, FoldLeft, MapThenFoldSet
<1>3. G \in [1..n -> [V -> V]]
  BY <1>1
<1>4. PICK f \in [SUBSET (1..n) -> V] : Folds(f, n, NoEntry, G)
  <2>. HIDE DEF G, n
  <2>. QED
    BY <1>1, <1>3, FoldExists
<1>5. Fold(f)
  <2>1. ASSUME NEW s \in SUBSET (1..n), s # {}
        PROVE  G[Max(s)][f[s \ {Max(s)}]] = Step(f[s \ {Max(s)}], idx[Max(s)])
    <3>1. Max(s) \in 1..n
      BY <1>1, <2>1, MaxIsGreatest
    <3>2. f[s \ {Max(s)}] \in V
      BY <1>4
    <3>. QED
      BY <3>1, <3>2
  <2>. HIDE DEF G, Step, V
  <2>. QED
    BY <1>4, <2>1 DEF Folds
<1>6. Fold(iter)
  <2>. HIDE DEF Fold
  <2>. QED
    BY <1>5, Zenon
<1>7. iter[{}] = NoEntry
  <2>. HIDE DEF iter, Step
  <2>. QED
    BY <1>6
<1>8. ASSUME NEW k \in 1..n PROVE iter[1..k] = Step(iter[1..(k-1)], idx[k])
  <2>1. Max(1..k) = k /\ (1..k) \ {k} = 1..(k-1) /\ 1..k \in SUBSET (1..n) /\ 1..k # {}
    BY MaxOfInterval
  <2>. HIDE DEF iter, Step
  <2>. QED
    BY <1>6, <2>1
<1>. DEFINE latest == [k \in 0..n |-> iter[1..k]]
<1>9. latest[0] = NoEntry /\ \A k \in 1..n : latest[k] = Step(latest[k-1], idx[k])
  <2>1. 1..0 = {}
    OBVIOUS
  <2>2. \A k \in 1..n : k \in 0..n /\ k - 1 \in 0..n
    BY <1>1
  <2>3. 0 \in 0..n
    BY <1>1
  <2>. HIDE DEF iter, n, Step
  <2>. QED
    BY <1>7, <1>8, <2>1, <2>2, <2>3
<1>10. Search(idx, allowed) = latest[n]
  <2>. HIDE DEF iter
  <2>. QED
    BY <1>1, <1>2
<1>. HIDE DEF iter, latest
<1>11. IsSearch(latest, idx, allowed)
  BY <1>9 DEF IsSearch
<1>. QED
  BY <1>10, <1>11

\* x is the best of the first k entries: the newest application of those that
\* are allowed and, where the charts of it all have versions, its newest chart.
BestOf(x, idx, allowed, k) ==
    IF \A j \in 1..k : idx[j].app \notin allowed THEN x = NoEntry
    ELSE /\ \E j \in 1..k : x = idx[j] /\ idx[j].app \in allowed
         /\ \A j \in 1..k : idx[j].app \in allowed => idx[j].app <= x.app
         /\ (\A j \in 1..k : idx[j].app = x.app => idx[j].ver # 0)
            => \A j \in 1..k : idx[j].app = x.app => idx[j].ver <= x.ver

LEMMA LoopFindsBest ==
    ASSUME NEW idx \in Seq(Entry), NEW allowed, NEW latest,
           IsSearch(latest, idx, allowed)
    PROVE  BestOf(latest[Len(idx)], idx, allowed, Len(idx))
<1>. DEFINE n == Len(idx)
            T == {k \in 0..n : BestOf(latest[k], idx, allowed, k)}
<1>1. n \in Nat /\ \A k \in 1..n : idx[k] \in Entry /\ idx[k] # NoEntry
  BY SentinelAssumption
<1>2. 0 \in T
  BY <1>1 DEF IsSearch, BestOf
<1>3. ASSUME NEW m \in 0..(n-1), m \in T PROVE m + 1 \in T
  <2>. DEFINE e == idx[m+1]
              x == latest[m]
              y == latest[m+1]
  <2>1. m \in Nat /\ m + 1 \in 1..n /\ 1..(m+1) = 1..m \cup {m+1}
    BY <1>1
  <2>2. \A j \in 1..n : idx[j].app \in Nat /\ idx[j].ver \in Nat
    BY <1>1, BoundsAssumption DEF Entry, Versions
  <2>3. y = IF e.app \in allowed /\ (x = NoEntry \/ Better(e, x)) THEN e ELSE x
    BY <2>1 DEF IsSearch, Allowed
  <2>4. BestOf(x, idx, allowed, m)
    BY <1>3
  <2>. HIDE DEF x, y
  <2>5. CASE e.app \notin allowed
    <3>1. y = x /\ ((\A j \in 1..(m+1) : idx[j].app \notin allowed)
                    <=> \A j \in 1..m : idx[j].app \notin allowed)
      BY <2>1, <2>3, <2>5
    <3>2. BestOf(y, idx, allowed, m+1)
      BY <2>1, <2>4, <2>5, <3>1 DEF BestOf
    <3>. QED
      BY <1>1, <2>1, <3>2 DEF y
  <2>6. CASE e.app \in allowed /\ \A j \in 1..m : idx[j].app \notin allowed
    <3>1. x = NoEntry
      BY <2>4, <2>6 DEF BestOf
    <3>2. y = e /\ m + 1 \in 1..(m+1)
      BY <2>1, <2>3, <2>6, <3>1
    <3>. HIDE DEF e
    <3>3. BestOf(y, idx, allowed, m+1)
      BY <2>1, <2>2, <2>6, <3>2 DEF BestOf, e
    <3>. QED
      BY <1>1, <2>1, <3>3 DEF y
  <2>7. CASE e.app \in allowed /\ ~\A j \in 1..m : idx[j].app \notin allowed
    <3>1. PICK j \in 1..m : x = idx[j] /\ idx[j].app \in allowed
      BY <2>4, <2>7 DEF BestOf
    <3>2. x # NoEntry /\ x.app \in Nat /\ x.ver \in Nat /\ j \in 1..n /\ j \in 1..(m+1)
      BY <1>1, <2>1, <2>2, <3>1
    <3>3. /\ \A i \in 1..m : idx[i].app \in allowed => idx[i].app <= x.app
          /\ (\A i \in 1..m : idx[i].app = x.app => idx[i].ver # 0)
             => \A i \in 1..m : idx[i].app = x.app => idx[i].ver <= x.ver
      BY <2>4, <2>7 DEF BestOf
    <3>4. \A i \in 1..m : i \in 1..n
      BY <2>1
    <3>5. e.app \in Nat /\ e.ver \in Nat
      BY <2>1, <2>2
    <3>6. CASE Better(e, x)
      <4>1. y = e
        BY <2>3, <2>7, <3>6
      <4>2. \A i \in 1..m : idx[i].app \in allowed => idx[i].app <= e.app
        BY <2>2, <3>2, <3>3, <3>4, <3>5, <3>6 DEF Better
      <4>3. ASSUME \A i \in 1..(m+1) : idx[i].app = e.app => idx[i].ver # 0,
                   NEW i \in 1..m, idx[i].app = e.app
            PROVE  idx[i].ver <= e.ver
        <5>1. e.app = x.app /\ e.ver > x.ver
          <6>1. idx[i].app <= x.app /\ idx[i].app \in Nat
            BY <2>2, <2>7, <3>3, <3>4, <4>3
          <6>. QED
            BY <3>2, <3>5, <3>6, <4>3, <6>1 DEF Better
        <5>2. idx[i].ver <= x.ver /\ idx[i].ver \in Nat
          BY <2>1, <2>2, <3>3, <3>4, <4>3, <5>1
        <5>. QED
          BY <3>2, <3>5, <5>1, <5>2
      <4>4. BestOf(e, idx, allowed, m+1)
        <5>. DEFINE a == e
        <5>1. \A i \in 1..(m+1) : idx[i].app \in allowed => idx[i].app <= a.app
          BY <2>1, <3>5, <4>2
        <5>2. (\A i \in 1..(m+1) : idx[i].app = a.app => idx[i].ver # 0)
              => \A i \in 1..(m+1) : idx[i].app = a.app => idx[i].ver <= a.ver
          BY <2>1, <3>5, <4>3
        <5>3. \E i \in 1..(m+1) : a = idx[i] /\ idx[i].app \in allowed
          BY <2>1, <2>7
        <5>. HIDE DEF a
        <5>4. BestOf(a, idx, allowed, m+1)
          BY <5>1, <5>2, <5>3 DEF BestOf
        <5>. QED
          BY <5>4 DEF a
      <4>. QED
        BY <1>1, <2>1, <4>1, <4>4 DEF y
    <3>7. CASE ~Better(e, x)
      <4>1. y = x
        BY <2>3, <3>2, <3>7
      <4>2. e.app <= x.app
        BY <3>2, <3>5, <3>7 DEF Better
      <4>3. e.app = x.app => (e.ver = 0 \/ x.ver = 0 \/ e.ver <= x.ver)
        BY <3>2, <3>5, <3>7 DEF Better
      <4>4. ASSUME \A i \in 1..(m+1) : idx[i].app = x.app => idx[i].ver # 0,
                   NEW i \in 1..(m+1), idx[i].app = x.app
            PROVE  idx[i].ver <= x.ver
        <5>1. CASE i \in 1..m
          BY <2>1, <3>3, <4>4, <5>1
        <5>2. CASE i = m + 1
          BY <2>1, <3>1, <3>2, <4>3, <4>4, <5>2
        <5>. QED
          BY <2>1, <5>1, <5>2
      <4>5. \A i \in 1..(m+1) : idx[i].app \in allowed => idx[i].app <= x.app
        BY <2>1, <3>3, <4>2
      <4>6. BestOf(x, idx, allowed, m+1)
        BY <3>1, <3>2, <4>4, <4>5 DEF BestOf
      <4>. QED
        BY <1>1, <2>1, <4>1, <4>6 DEF y
    <3>. QED
      BY <3>6, <3>7
  <2>. QED
    BY <2>5, <2>6, <2>7
<1>4. n \in T
  <2>1. \A m \in 0..n : m \in T
    <3>. HIDE DEF T
    <3>. QED
      BY <1>1, <1>2, <1>3, UpToInduction
  <2>. HIDE DEF T
  <2>. QED
    BY <1>1, <2>1
<1>. QED
  BY <1>4

\* What the search returns, for every index and every version rule: an error
\* when an entry offends or none is allowed, the best entry otherwise.
LEMMA SearchReturnsBest ==
    ASSUME NEW idx \in Seq(Entry), NEW allowed
    PROVE  IF \E e \in ToSet(idx) : Offends(e, allowed)
           THEN Search(idx, allowed) = NoEntry
           ELSE BestOf(Search(idx, allowed), idx, allowed, Len(idx))
<1>1. CASE \E e \in ToSet(idx) : Offends(e, allowed)
  BY <1>1 DEF Search
<1>2. CASE ~\E e \in ToSet(idx) : Offends(e, allowed)
  <2>1. PICK latest : /\ IsSearch(latest, idx, allowed)
                      /\ Search(idx, allowed) = latest[Len(idx)]
    BY <1>2, SearchIsLoop
  <2>. QED
    BY <1>2, <2>1, LoopFindsBest
<1>. QED
  BY <1>1, <1>2

LEMMA EntriesOfIndex ==
    ASSUME NEW idx \in Seq(Entry)
    PROVE  \A e : e \in ToSet(idx) <=> \E j \in 1..Len(idx) : e = idx[j]
<1>1. DOMAIN idx = 1..Len(idx)
  OBVIOUS
<1>. QED
  BY <1>1 DEF ToSet

\* What a call knows: how many failed before it, and the entry it found.
FindInv ==
    /\ TypeOK
    /\ stage # "idle" => failed < MaxFailures
    /\ stage = "fetched" => index \in Indexes
    /\ stage = "found" => /\ index \in Indexes /\ pick # NoEntry
                          /\ pick = Search(index, rule)

LEMMA SearchType ==
    ASSUME NEW idx \in Seq(Entry), NEW allowed
    PROVE  Search(idx, allowed) \in Entry \cup {NoEntry}
<1>1. \A j \in 1..Len(idx) : idx[j] \in Entry
  OBVIOUS
<1>2. Search(idx, allowed) = NoEntry \/ \E j \in 1..Len(idx) : Search(idx, allowed) = idx[j]
  BY SearchReturnsBest DEF BestOf
<1>. QED
  BY <1>1, <1>2

LEMMA InitFind == Init => FindInv
<1>1. 0 \in 0..MaxFailures
  BY BoundsAssumption
<1>2. SUFFICES ASSUME Init PROVE FindInv
  OBVIOUS
<1>3. /\ stage = "idle" /\ source \in Sources /\ rule \in Rules
      /\ index \in Indexes \cup {<<>>} /\ pick \in Entry \cup {NoEntry}
      /\ dir \in Dirs \cup {Own, NoDir} /\ cleanup \in BOOLEAN
      /\ disk \subseteq Dirs \cup {Own}
  BY <1>2 DEF Init
<1>4. archives \in Nat /\ failed \in 0..MaxFailures
  BY <1>1, <1>2 DEF Init
<1>. QED
  BY <1>3, <1>4 DEF FindInv, TypeOK, Stages

LEMMA NextFind ==
    ASSUME FindInv, LeftInv', [Next]_vars
    PROVE  FindInv'
<1>0. archives' \in Nat
  BY DEF LeftInv
<1>1. MaxFailures \in Nat /\ index \in Seq(Entry)
  <2>1. index \in Indexes \/ index = <<>>
    BY DEF FindInv, TypeOK
  <2>2. <<>> \in Seq(Entry)
    OBVIOUS
  <2>3. Indexes \subseteq Seq(Entry) /\ MaxFailures \in Nat
    BY BoundsAssumption, InputsAssumption
  <2>. HIDE DEF Entry
  <2>. QED
    BY <2>1, <2>2, <2>3, Zenon
<1>. USE DEF FindInv, TypeOK, Stages, At, Goto
<1>2. CASE Begin
  BY <1>0, <1>2 DEF Begin
<1>3. CASE \/ UnknownScheme \/ FetchFails \/ FindFails \/ MakeDirFails
           \/ GetFails \/ UnpackFails \/ LookupFails
  <2>1. Fail /\ stage # "idle"
    BY <1>3 DEF UnknownScheme, FetchFails, FindFails, MakeDirFails, GetFails,
                UnpackFails, LookupFails
  <2>2. failed' \in 0..MaxFailures
    BY <1>1, <2>1 DEF Fail
  <2>. QED
    BY <1>0, <2>1, <2>2 DEF Fail, call
<1>4. CASE FetchIndex
  BY <1>0, <1>4 DEF FetchIndex, call, local
<1>5. CASE Find
  <2>1. pick' \in Entry
    BY <1>1, <1>5, SearchType DEF Find
  <2>2. UNCHANGED <<source, rule, index, dir, cleanup, disk, failed>>
    BY <1>5 DEF Find, call, local
  <2>3. stage = "fetched" /\ stage' = "found" /\ pick' # NoEntry
        /\ pick' = Search(index, rule)
    BY <1>5 DEF Find
  <2>4. Search(index, rule)' = Search(index, rule)
    BY <2>2
  <2>. QED
    BY <1>0, <2>1, <2>2, <2>3, <2>4
<1>6. CASE MakeDir
  BY <1>0, <1>6 DEF MakeDir, call
<1>7. CASE Get \/ Unpack \/ LookupChart \/ Use
  BY <1>0, <1>7 DEF Get, Unpack, LookupChart, Use, call, local
<1>8. CASE CleanupFirst \/ CleanupAgain
  BY <1>0, <1>8 DEF CleanupFirst, CleanupAgain, RemoveDir, call
<1>9. CASE Restart
  <2>1. 0 \in 0..MaxFailures
    BY <1>1
  <2>. QED
    BY <1>0, <1>9, <2>1 DEF Restart, call
<1>10. CASE UNCHANGED vars
  <2>1. UNCHANGED <<stage, source, rule, index, pick, dir, cleanup, disk, archives, failed>>
    BY <1>10 DEF vars
  <2>2. Search(index, rule)' = Search(index, rule)
    BY <2>1
  <2>. QED
    BY <2>1, <2>2
<1>. QED
  BY <1>2, <1>3, <1>4, <1>5, <1>6, <1>7, <1>8, <1>9, <1>10 DEF Next

LEMMA FindInvariant == Spec => []FindInv
BY InitFind, NextFind, InitLeft, NextLeft, PTL DEF Spec

\* Every variable keeps its type; the search gives an entry of the index or none.
THEOREM ChartTyped == Spec => []TypeOK
<1>1. FindInv => TypeOK
  BY DEF FindInv
<1>. QED
  BY <1>1, FindInvariant, PTL

\* The chart the search finds is allowed, and the newest of those allowed,
\* whatever the index, in whatever order it lists its entries, and whatever
\* versions the rule allows (downloader.go:300-350).
THEOREM FoundIsNewest == Spec => []NewestAllowed
<1>1. FindInv => NewestAllowed
  <2>. SUFFICES ASSUME FindInv, At("found")
                PROVE  /\ pick \in ToSet(index) /\ pick.app \in rule /\ pick.urls
                       /\ \A e \in ToSet(index) : e.app \in rule => e.app <= pick.app
                       /\ LET same == {e \in ToSet(index) : e.app = pick.app}
                          IN  (\A e \in same : e.ver # 0)
                              => \A e \in same : e.ver <= pick.ver
    BY DEF NewestAllowed
  <2>1. /\ index \in Seq(Entry) /\ pick # NoEntry /\ pick = Search(index, rule)
    BY InputsAssumption DEF FindInv, At
  <2>2. /\ ~\E e \in ToSet(index) : Offends(e, rule)
        /\ BestOf(pick, index, rule, Len(index))
    BY <2>1, SearchReturnsBest
  <2>3. \A e : e \in ToSet(index) <=> \E j \in 1..Len(index) : e = index[j]
    BY <2>1, EntriesOfIndex
  <2>4. \E j \in 1..Len(index) : index[j].app \in rule
    BY <2>1, <2>2 DEF BestOf
  <2>5. pick \in ToSet(index) /\ pick.app \in rule
    BY <2>2, <2>3, <2>4 DEF BestOf
  <2>6. pick.urls
    <3>1. pick \in Entry
      BY <2>1, SearchType
    <3>. QED
      BY <2>2, <2>5, <3>1 DEF Offends, Allowed
  <2>7. \A e \in ToSet(index) : e.app \in rule => e.app <= pick.app
    BY <2>2, <2>3, <2>4 DEF BestOf
  <2>8. ASSUME \A e \in ToSet(index) : e.app = pick.app => e.ver # 0
        PROVE  \A e \in ToSet(index) : e.app = pick.app => e.ver <= pick.ver
    BY <2>2, <2>3, <2>4, <2>8 DEF BestOf
  <2>. QED
    BY <2>5, <2>6, <2>7, <2>8
<1>. QED
  BY <1>1, FindInvariant, PTL

\* The search fails only when no chart is allowed or an entry offends, for
\* every index (downloader.go:313-350).
THEOREM SearchFailsForAReason == Spec => NoFalseAlarm
<1>. DEFINE A == At("fetched") /\ failed' = failed + 1 =>
                     \/ \A e \in ToSet(index) : e.app \notin rule
                     \/ \E e \in ToSet(index) : Offends(e, rule)
<1>1. FindInv /\ [Next]_vars => [A]_vars
  <2>. SUFFICES ASSUME FindInv, Next, At("fetched"), failed' = failed + 1
                PROVE  A
    BY Zenon
  <2>1. index \in Seq(Entry) /\ failed \in Nat
    BY InputsAssumption, BoundsAssumption DEF FindInv, TypeOK, At
  <2>2. FindFails
    <3>. USE DEF At, Goto
    <3>1. failed' # failed /\ stage = "fetched"
      BY <2>1
    <3>2. CASE Restart
      BY <2>1, <3>2 DEF Restart
    <3>. QED
      BY <3>1, <3>2
         DEF Next, Begin, UnknownScheme, FetchIndex, FetchFails, Find, MakeDir,
             MakeDirFails, Get, GetFails, Unpack, UnpackFails, LookupChart,
             LookupFails, Use, CleanupFirst, CleanupAgain
  <2>3. Search(index, rule) = NoEntry
    BY <2>2 DEF FindFails
  <2>4. \A j \in 1..Len(index) : index[j] # NoEntry
    BY <2>1, SentinelAssumption
  <2>5. CASE ~\E e \in ToSet(index) : Offends(e, rule)
    <3>1. BestOf(NoEntry, index, rule, Len(index))
      BY <2>1, <2>3, <2>5, SearchReturnsBest
    <3>2. \A j \in 1..Len(index) : index[j].app \notin rule
      BY <2>4, <3>1 DEF BestOf
    <3>3. \A e : e \in ToSet(index) <=> \E j \in 1..Len(index) : e = index[j]
      BY <2>1, EntriesOfIndex
    <3>. QED
      BY <3>2, <3>3
  <2>. QED
    BY <2>5
<1>. QED
  BY <1>1, FindInvariant, PTL DEF Spec, NoFalseAlarm
=============================================================================
