------------------------- MODULE AmbInstInvariants -------------------------
(***************************************************************************)
(* What always holds, for every namespace, every set of specs and every    *)
(* bound.                                                                  *)
(*                                                                         *)
(* Types.  TypeOK is not inductive as it stands: a status written to an    *)
(* object that no longer exists would have no type.  What excludes it is   *)
(* optimistic concurrency, JobCurrent: a write succeeds only on the object *)
(* the call has in hand.                                                   *)
(*                                                                         *)
(* Owners.  None of their properties is inductive: that a release belongs  *)
(* to the oldest CR follows from what the worker knows between the steps   *)
(* of a call (JobHolds), from how the cached list may lag (CacheInv) and   *)
(* from the clock (ClockInv).                                              *)
(*                                                                         *)
(* Requests and statuses.  No request is lost (PendingInv); a duplicate    *)
(* owns nothing and no status announces what is not there (StatusInv, on   *)
(* top of OwnInv).                                                         *)
(***************************************************************************)
EXTENDS AmbInstProperties, ListLemmas

\* As long as the resourceVersion in hand is current, so is the object.
JobCurrent == job # Idle /\ job.fresh => obj[job.inst] = job.seen

\* What is about to be deployed is a chart that was downloaded.
ChartChosen == job.stage = "downloaded" => job.chart \in 1..MaxChart

TypeInv == TypeOK /\ JobCurrent /\ ChartChosen

-----------------------------------------------------------------------------

\* A call in progress has the type of one.
LEMMA InCall ==
    ASSUME TypeOK, job # Idle
    PROVE  job \in Job
BY DEF TypeOK

\* An action that requires a stage is part of a call in progress.
LEMMA AtStage ==
    ASSUME TypeOK, job.stage \in Stages
    PROVE  job \in Job /\ job # Idle
<1>1. Idle.stage \notin Stages
  BY DEF Idle, Stages
<1>. QED
  BY <1>1 DEF TypeOK

\* Setting and removing conditions leaves a status a status.
LEMMA WithType ==
    ASSUME NEW st \in Status, NEW ty \in ConditionTypes,
           NEW status \in ConditionStatuses, NEW reason \in ConditionReasons,
           now \in Nat
    PROVE  With(st, ty, status, reason) \in Status
<1>1. SetCondition(st.conds, ty, status, reason, now) \in Seq(Condition)
  <2>1. st.conds \in Seq(Condition)
    BY DEF Status
  <2>. QED
    BY <2>1, SetConditionType
<1>. QED
  BY <1>1 DEF With, Status

LEMMA WithoutType ==
    ASSUME NEW st \in Status, NEW ty
    PROVE  Without(st, ty) \in Status
<1>1. RemoveCondition(st.conds, ty) \in Seq(Condition)
  <2>1. st.conds \in Seq(Condition)
    BY DEF Status
  <2>. QED
    BY <2>1, RemoveConditionType
<1>. QED
  BY <1>1 DEF Without, Status

\* The statuses a job holds.
LEMMA JobStatuses ==
    ASSUME TypeOK, job \in Job
    PROVE  /\ job.st \in Status /\ job.seen \in Object /\ job.seen.st \in Status
           /\ job.inst \in Inst /\ job.time \in Nat /\ job.fresh \in BOOLEAN
           /\ now \in Nat
BY DEF TypeOK, Job, Object

LEMMA SyncedType ==
    ASSUME TypeOK, job \in Job
    PROVE  Synced \in Status /\ Unfailed \in Status
<1>1. Without(job.seen.st, "Irreconcilable") \in Status
  BY JobStatuses, WithoutType
<1>2. Synced \in Status
  BY <1>1, JobStatuses DEF Synced, Status
<1>. QED
  BY <1>2, WithoutType DEF Unfailed

-----------------------------------------------------------------------------

\* A write of the status leaves the objects objects.
LEMMA StatusWriteType ==
    ASSUME TypeInv, job \in Job, job # Idle, NEW st \in Status,
           WriteStatus(st) \/ UNCHANGED obj
    PROVE  obj' \in [Inst -> Object \cup {NoObj}]
<1>1. CASE WriteStatus(st) /\ job.fresh
  <2>1. obj' = [obj EXCEPT ![job.inst].st = st]
    BY <1>1 DEF WriteStatus
  <2>2. obj[job.inst] \in Object
    BY <1>1, JobStatuses DEF TypeInv, JobCurrent, ChartChosen, Idle
  <2>3. [obj[job.inst] EXCEPT !.st = st] \in Object
    BY <2>2 DEF Object
  <2>. QED
    BY <2>1, <2>3 DEF TypeInv, TypeOK
<1>2. CASE ~(WriteStatus(st) /\ job.fresh)
  BY <1>2 DEF WriteStatus, TypeInv, TypeOK
<1>. QED
  BY <1>1, <1>2

\* The call ends and its request is queued again or waits.
LEMMA CallEnds ==
    ASSUME TypeOK, job \in Job, Requeue \/ RequeueAfter \/ Done
    PROVE  /\ job' = Idle
           /\ queue' \subseteq Inst /\ delayed' \subseteq Inst
BY JobStatuses DEF TypeOK, Requeue, RequeueAfter, Done, Changed

\* The call goes on.
LEMMA CallGoesOn ==
    ASSUME TypeOK, job \in Job, NEW j, GoTo(j)
    PROVE  /\ job' = j
           /\ queue' \subseteq Inst /\ delayed' \subseteq Inst
BY JobStatuses DEF TypeOK, GoTo, Changed

LEMMA FaultType ==
    ASSUME TypeOK, Fault \/ UNCHANGED faults
    PROVE  faults' \in 0..MaxFaults
BY BoundsAssumption DEF TypeOK, Fault

\* Giving up, with or without a status that says so.
LEMMA GiveUpType ==
    ASSUME TypeInv, job \in Job, job # Idle, NEW st \in Status,
           Reject(st) \/ FailWith(st)
    PROVE  TypeInv'
<1>1. /\ WriteStatus(st) \/ UNCHANGED obj
      /\ Fault \/ UNCHANGED faults
      /\ Requeue /\ UNCHANGED <<release, world>>
  BY DEF Reject, FailWith, TryWriteStatus
<1>2. obj' \in [Inst -> Object \cup {NoObj}]
  BY <1>1, StatusWriteType
<1>3. job' = Idle /\ queue' \subseteq Inst /\ delayed' \subseteq Inst
  BY <1>1, CallEnds DEF TypeInv
<1>4. faults' \in 0..MaxFaults
  BY <1>1, FaultType DEF TypeInv
<1>. QED
  BY <1>1, <1>2, <1>3, <1>4 DEF TypeInv, TypeOK, JobCurrent, ChartChosen, Idle, world

\* Giving up after a Helm operation that may have been done.
LEMMA HelmFailsType ==
    ASSUME TypeInv, job \in Job, job # Idle, NEW st \in Status,
           NEW outcome \in Manifest \cup {NoRelease}, HelmFails(st, outcome)
    PROVE  TypeInv'
<1>1. obj' \in [Inst -> Object \cup {NoObj}]
  BY StatusWriteType DEF HelmFails
<1>2. job' = Idle /\ queue' \subseteq Inst /\ delayed' \subseteq Inst
  BY CallEnds DEF HelmFails, TypeInv
<1>3. faults' \in 0..MaxFaults
  BY FaultType DEF HelmFails, TypeInv
<1>4. release' \in [Inst -> Manifest \cup {NoRelease}]
  BY DEF HelmFails, TypeInv, TypeOK
<1>. QED
  BY <1>1, <1>2, <1>3, <1>4 DEF HelmFails, TypeInv, TypeOK, JobCurrent, ChartChosen, Idle, world

-----------------------------------------------------------------------------
\* One lemma per group of actions.

\* The worker's steps before tryInstallOrUpdate that do not write an object.
LEMMA QuietEndType ==
    ASSUME TypeInv, job # Idle, Requeue \/ RequeueAfter \/ Done,
           UNCHANGED <<obj, release, world>>, Fault \/ UNCHANGED faults
    PROVE  TypeInv'
<1>1. job \in Job
  BY InCall DEF TypeInv
<1>2. job' = Idle /\ queue' \subseteq Inst /\ delayed' \subseteq Inst
  BY <1>1, CallEnds DEF TypeInv
<1>3. faults' \in 0..MaxFaults
  BY FaultType DEF TypeInv
<1>. QED
  BY <1>2, <1>3 DEF TypeInv, TypeOK, JobCurrent, ChartChosen, Idle, world

\* A step that goes on with another stage, status, chart, and touches nothing
\* the types depend on but the release.
LEMMA StepType ==
    ASSUME TypeInv, job \in Job, NEW j \in Job, GoTo(j),
           j.fresh = job.fresh, j.inst = job.inst, j.seen = job.seen, job # Idle,
           j.stage = "downloaded" => j.chart \in 1..MaxChart,
           UNCHANGED <<obj, faults, world>>,
           release' \in [Inst -> Manifest \cup {NoRelease}]
    PROVE  TypeInv'
<1>1. job' = j /\ queue' \subseteq Inst /\ delayed' \subseteq Inst
  BY CallGoesOn DEF TypeInv
<1>. QED
  BY <1>1 DEF TypeInv, TypeOK, JobCurrent, ChartChosen, Idle, world

LEMMA LookupType ==
    ASSUME TypeInv, NEW i \in Inst, Lookup(i)
    PROVE  TypeInv'
<1>1. CASE obj[i] = NoObj
  BY <1>1 DEF Lookup, TypeInv, TypeOK, JobCurrent, ChartChosen, Idle, world
<1>2. CASE obj[i] # NoObj
  <2>1. obj[i] \in Object /\ obj[i].st \in Status
    BY <1>2 DEF TypeInv, TypeOK, Object
  <2>2. job' = [stage |-> "loaded", inst |-> i, seen |-> obj[i],
                fresh |-> TRUE, st |-> obj[i].st, changed |-> FALSE,
                secret |-> FALSE, time |-> 0, chart |-> 0]
    BY <1>2 DEF Lookup
  <2>3. job' \in Job
    BY <2>1, <2>2, BoundsAssumption DEF Job, Stages
  <2>. QED
    BY <2>2, <2>3 DEF Lookup, TypeInv, TypeOK, JobCurrent, ChartChosen, Idle, world
<1>. QED
  BY <1>1, <1>2

LEMMA AddFinalizerType ==
    ASSUME TypeInv, AddFinalizer
    PROVE  TypeInv'
<1>1. job \in Job /\ job # Idle
  BY AtStage DEF AddFinalizer, At, Stages, TypeInv
<1>2. job' = Idle /\ queue' \subseteq Inst /\ delayed' \subseteq Inst
  BY <1>1, CallEnds DEF AddFinalizer, TypeInv
<1>3. obj' \in [Inst -> Object \cup {NoObj}]
  <2>1. CASE job.fresh
    <3>1. obj[job.inst] \in Object
      BY <1>1, <2>1, JobStatuses DEF TypeInv, JobCurrent, ChartChosen, Idle
    <3>2. [obj[job.inst] EXCEPT !.fin = TRUE] \in Object
      BY <3>1 DEF Object
    <3>. QED
      BY <2>1, <3>2 DEF AddFinalizer, TypeInv, TypeOK
  <2>2. CASE ~job.fresh
    BY <2>2 DEF AddFinalizer, TypeInv, TypeOK
  <2>. QED
    BY <2>1, <2>2
<1>. QED
  BY <1>2, <1>3 DEF AddFinalizer, TypeInv, TypeOK, JobCurrent, ChartChosen, Idle, world

LEMMA RejectVersionType ==
    ASSUME TypeInv, RejectVersion
    PROVE  TypeInv'
<1>1. job \in Job /\ job # Idle
  BY AtStage DEF RejectVersion, At, Stages, TypeInv
<1>2. With(job.st, "Failed", "True", "ParametersError") \in Status
  BY <1>1, WithType, JobStatuses
     DEF TypeInv, ConditionTypes, ConditionStatuses, ConditionReasons
<1>. QED
  BY <1>1, <1>2, GiveUpType DEF RejectVersion

LEMMA MarkDuplicateType ==
    ASSUME TypeInv, MarkDuplicate
    PROVE  TypeInv'
<1>. DEFINE st == With(job.st, "Irreconcilable", "False", "DuplicateError")
<1>1. job \in Job /\ job # Idle
  BY AtStage DEF MarkDuplicate, Alive, At, Stages, TypeInv
<1>2. st \in Status
  BY <1>1, WithType, JobStatuses
     DEF TypeInv, ConditionTypes, ConditionStatuses, ConditionReasons
<1>3. WriteStatus(st) /\ (Done \/ Requeue)
  BY DEF MarkDuplicate
<1>. HIDE DEF st
<1>4. obj' \in [Inst -> Object \cup {NoObj}]
  BY <1>1, <1>2, <1>3, StatusWriteType
<1>5. job' = Idle /\ queue' \subseteq Inst /\ delayed' \subseteq Inst
  BY <1>1, <1>3, CallEnds DEF TypeInv
<1>. QED
  BY <1>4, <1>5 DEF MarkDuplicate, TypeInv, TypeOK, JobCurrent, ChartChosen, Idle, world

LEMMA RecordSpecHashType ==
    ASSUME TypeInv, RecordSpecHash
    PROVE  TypeInv'
<1>1. job \in Job /\ job # Idle
  BY AtStage DEF RecordSpecHash, Alive, At, Stages, TypeInv
<1>2. CASE job.fresh
  <2>. DEFINE o == [job.seen EXCEPT !.hash = job.seen.spec]
              j == [job EXCEPT !.stage = "recorded", !.seen = o,
                             !.st      = Initialized(job.st),
                             !.changed = HasChangedSpec(job.seen),
                             !.secret  = LastType(job.seen.st) # "Deployed",
                             !.time    = now]
  <2>1. o \in Object
    BY <1>1, JobStatuses DEF Object, Hash, TypeInv
  <2>2. Initialized(job.st) \in Status
    <3>1. With(job.st, "Initialized", "True", "") \in Status
      BY <1>1, WithType, JobStatuses
         DEF TypeInv, ConditionTypes, ConditionStatuses, ConditionReasons
    <3>. QED
      BY <3>1, WithoutType DEF Initialized
  <2>3. HasChangedSpec(job.seen) \in BOOLEAN /\ now \in Nat
    BY DEF HasChangedSpec, TypeInv, TypeOK
  <2>4. obj' = [obj EXCEPT ![job.inst] = o] /\ GoTo(j)
    BY <1>2, Zenon DEF RecordSpecHash
  <2>5. j \in Job /\ j.seen = o /\ j.inst = job.inst /\ j.stage = "recorded"
    <3>. HIDE DEF o
    <3>. QED
      BY <1>1, <2>1, <2>2, <2>3 DEF Job, Stages
  <2>. HIDE DEF j, o
  <2>6. job' = j /\ queue' \subseteq Inst /\ delayed' \subseteq Inst
    BY <1>1, <2>4, CallGoesOn DEF TypeInv
  <2>7. obj' \in [Inst -> Object \cup {NoObj}] /\ obj'[job.inst] = o
    BY <1>1, <2>1, <2>4, JobStatuses DEF TypeInv, TypeOK
  <2>. QED
    BY <2>5, <2>6, <2>7 DEF RecordSpecHash, TypeInv, TypeOK, JobCurrent, ChartChosen, Idle, world
<1>3. CASE ~job.fresh
  BY <1>1, <1>3, QuietEndType DEF RecordSpecHash
<1>. QED
  BY <1>2, <1>3

LEMMA RestartType ==
    ASSUME TypeInv, Restart, Fault \/ UNCHANGED faults
    PROVE  TypeInv'
<1>1. \A i \in Inst : Created(i) \in Nat
  BY DEF Created, Object, TypeInv, TypeOK
<1>2. faults' \in 0..MaxFaults
  BY FaultType DEF TypeInv
<1>. QED
  BY <1>1, <1>2 DEF Restart, TypeInv, TypeOK, JobCurrent, ChartChosen, Idle

\* Every failure and every refusal that sets a condition.
LEMMA FailureType ==
    ASSUME TypeInv, job.stage \in Stages, NEW st \in {job.st, job.seen.st, Synced, Unfailed},
           NEW ty \in {"Failed", "Irreconcilable"}, NEW reason \in ConditionReasons,
           \/ Reject(With(st, ty, "True", reason))
           \/ FailWith(With(st, ty, "True", reason))
    PROVE  TypeInv'
<1>1. job \in Job /\ job # Idle
  BY AtStage DEF TypeInv
<1>2. st \in Status
  BY <1>1, JobStatuses, SyncedType DEF TypeInv
<1>3. With(st, ty, "True", reason) \in Status
  BY <1>1, <1>2, WithType, JobStatuses DEF TypeInv, ConditionTypes, ConditionStatuses
<1>. QED
  BY <1>1, <1>3, GiveUpType

LEMMA CandidateType ==
    ASSUME TypeInv, At("downloaded")
    PROVE  Candidate \in Manifest
BY AtStage, SpecsAssumption
   DEF Candidate, Manifest, Job, Object, SpecRecord, TypeInv, ChartChosen, At, Stages

\* A failure of Helm in an installation, an update, a deletion.
LEMMA HelmFailureType ==
    ASSUME TypeInv, job.stage \in Stages, NEW st \in {job.st, Synced},
           NEW reason \in ConditionReasons, NEW outcome \in Manifest \cup {NoRelease},
           HelmFails(With(st, "Failed", "True", reason), outcome)
    PROVE  TypeInv'
<1>1. job \in Job /\ job # Idle
  BY AtStage DEF TypeInv
<1>2. st \in Status
  BY <1>1, JobStatuses, SyncedType DEF TypeInv
<1>3. With(st, "Failed", "True", reason) \in Status
  BY <1>1, <1>2, WithType, JobStatuses DEF TypeInv, ConditionTypes, ConditionStatuses
<1>. QED
  BY <1>1, <1>3, HelmFailsType

\* A release is deployed, or found to be the one wanted.
LEMMA DeployType ==
    ASSUME TypeInv, At("downloaded"), Install \/ Update \/ Reconcile
    PROVE  TypeInv'
<1>1. job \in Job /\ job # Idle
  BY AtStage DEF At, Stages, TypeInv
<1>2. Candidate \in Manifest
  BY <1>1, SpecsAssumption
     DEF Candidate, Manifest, Job, Object, SpecRecord, TypeInv, ChartChosen, At
<1>3. Unfailed \in Status
  BY <1>1, SyncedType DEF TypeInv
<1>4. ASSUME NEW stage \in Stages \ {"downloaded"}, NEW reason \in ConditionReasons,
             Deploy(stage, reason)
      PROVE  TypeInv'
  <2>. DEFINE st == [With(Unfailed, "Deployed", "True", reason) EXCEPT !.rel = Candidate]
              j == [job EXCEPT !.stage = stage, !.st = st]
  <2>1. With(Unfailed, "Deployed", "True", reason) \in Status
    BY <1>1, <1>3, <1>4, WithType, JobStatuses
       DEF TypeInv, ConditionTypes, ConditionStatuses
  <2>2. st \in Status
    BY <1>2, <2>1 DEF Status
  <2>3. GoTo(j)
    BY <1>4, Zenon DEF Deploy
  <2>. HIDE DEF st
  <2>4. /\ j \in Job /\ j.fresh = job.fresh /\ j.inst = job.inst
        /\ j.seen = job.seen /\ j.stage # "downloaded"
    BY <1>1, <2>2 DEF Job
  <2>. HIDE DEF j
  <2>5. release' \in [Inst -> Manifest \cup {NoRelease}] /\ UNCHANGED <<obj, faults, world>>
    BY <1>2, <1>4 DEF Deploy, TypeInv, TypeOK
  <2>. QED
    BY <1>1, <2>3, <2>4, <2>5, StepType
<1>5. CASE Install \/ Update
  <2>1. \/ Deploy("installed", "InstallSuccessful")
        \/ Deploy("updated", "UpdateSuccessful")
    BY <1>5 DEF Install, Update
  <2>. QED
    BY <1>4, <2>1 DEF Stages, ConditionReasons
<1>6. CASE Reconcile
  <2>. DEFINE st == [Without(Unfailed, "Irreconcilable") EXCEPT !.rel = Candidate]
              j == [job EXCEPT !.stage = "reconciled", !.st = st]
  <2>1. st \in Status
    <3>1. Without(Unfailed, "Irreconcilable") \in Status
      BY <1>3, WithoutType
    <3>. QED
      BY <1>2, <3>1 DEF Status
  <2>2. GoTo(j)
    BY <1>6, Zenon DEF Reconcile
  <2>. HIDE DEF st
  <2>3. /\ j \in Job /\ j.fresh = job.fresh /\ j.inst = job.inst
        /\ j.seen = job.seen /\ j.stage # "downloaded"
    BY <1>1, <2>1 DEF Job, Stages
  <2>. HIDE DEF j
  <2>. QED
    BY <1>1, <1>6, <2>2, <2>3, StepType DEF Reconcile, TypeInv, TypeOK
<1>. QED
  BY <1>5, <1>6

\* canMigrate and the download go on.
LEMMA ProceedType ==
    ASSUME TypeInv, Download \/ \E kind \in Services : FindsNone(kind)
    PROVE  TypeInv'
<1>1. job \in Job /\ job # Idle
  BY AtStage DEF FindsNone, Looking, Download, MayDownload, Accepted, At, Stages, TypeInv
<1>2. ASSUME NEW kind \in Services, FindsNone(kind) PROVE TypeInv'
  <2>. DEFINE s == IF kind = "AuthService" THEN "halfway" ELSE "checked"
              j == [job EXCEPT !.stage = s]
  <2>1. /\ j \in Job /\ j.fresh = job.fresh /\ j.inst = job.inst
        /\ j.seen = job.seen /\ j.stage # "downloaded"
    BY <1>1 DEF Job, Stages
  <2>2. GoTo(j) /\ UNCHANGED <<obj, release, faults, world>>
    BY <1>2, Zenon DEF FindsNone
  <2>. HIDE DEF j
  <2>. QED
    BY <1>1, <2>1, <2>2, StepType DEF TypeInv, TypeOK
<1>3. CASE Download
  <2>. DEFINE j == [job EXCEPT !.stage = "downloaded", !.chart = repo]
  <2>1. repo \in 1..MaxChart /\ repo \in 0..MaxChart
    BY BoundsAssumption DEF TypeInv, TypeOK
  <2>2. /\ j \in Job /\ j.fresh = job.fresh /\ j.inst = job.inst
        /\ j.seen = job.seen /\ j.chart = repo
    BY <1>1, <2>1 DEF Job, Stages
  <2>3. GoTo(j)
    BY <1>3, Zenon DEF Download
  <2>. HIDE DEF j
  <2>. QED
    BY <1>1, <1>3, <2>1, <2>2, <2>3, StepType DEF Download, TypeInv, TypeOK
<1>. QED
  BY <1>2, <1>3

LEMMA ReportType ==
    ASSUME TypeInv, ReportDeployed \/ ReportReconciled
    PROVE  TypeInv'
<1>1. job \in Job /\ job # Idle
  BY AtStage DEF ReportDeployed, ReportReconciled, At, Stages, TypeInv
<1>2. /\ WriteStatus(job.st) \/ UNCHANGED obj
      /\ Requeue \/ RequeueAfter \/ Done
      /\ Fault \/ UNCHANGED faults
      /\ UNCHANGED <<release, world>>
  BY DEF ReportDeployed, ReportReconciled, TryWriteStatus
<1>3. obj' \in [Inst -> Object \cup {NoObj}]
  BY <1>1, <1>2, StatusWriteType, JobStatuses DEF TypeInv
<1>4. job' = Idle /\ queue' \subseteq Inst /\ delayed' \subseteq Inst
  BY <1>1, <1>2, CallEnds DEF TypeInv
<1>5. faults' \in 0..MaxFaults
  BY <1>2, FaultType DEF TypeInv
<1>. QED
  BY <1>2, <1>3, <1>4, <1>5 DEF TypeInv, TypeOK, JobCurrent, ChartChosen, Idle, world

LEMMA UninstallType ==
    ASSUME TypeInv, Uninstall
    PROVE  TypeInv'
<1>1. job \in Job /\ job # Idle
  BY AtStage DEF Uninstall, Terminating, At, Stages, TypeInv
<1>. DEFINE w  == Without(job.st, "Failed")
            st == IF release[job.inst] = NoRelease THEN w
                  ELSE [With(w, "Deployed", "False", "UninstallSuccessful")
                          EXCEPT !.rel = NoRelease]
            j  == [job EXCEPT !.stage = "uninstalled", !.st = st]
<1>2. w \in Status
  BY <1>1, JobStatuses, WithoutType DEF TypeInv
<1>3. With(w, "Deployed", "False", "UninstallSuccessful") \in Status
  BY <1>1, <1>2, WithType, JobStatuses
     DEF TypeInv, ConditionTypes, ConditionStatuses, ConditionReasons
<1>4. GoTo(j)
  BY Zenon DEF Uninstall
<1>. HIDE DEF w
<1>5. st \in Status
  BY <1>2, <1>3 DEF Status
<1>. HIDE DEF st
<1>6. /\ j \in Job /\ j.fresh = job.fresh /\ j.inst = job.inst
      /\ j.seen = job.seen /\ j.stage = "uninstalled"
  BY <1>1, <1>5 DEF Job, Stages
<1>. HIDE DEF j
<1>7. release' \in [Inst -> Manifest \cup {NoRelease}]
  BY DEF Uninstall, TypeInv, TypeOK
<1>. QED
  BY <1>1, <1>4, <1>6, <1>7, StepType DEF Uninstall

LEMMA ReportUninstalledType ==
    ASSUME TypeInv, ReportUninstalled
    PROVE  TypeInv'
<1>1. job \in Job /\ job # Idle
  BY AtStage DEF ReportUninstalled, At, Stages, TypeInv
<1>2. CASE job.fresh
  <2>. DEFINE j == [job EXCEPT !.stage = "reported", !.seen.st = job.st]
  <2>1. obj' = [obj EXCEPT ![job.inst].st = job.st] /\ GoTo(j)
    BY <1>2, Zenon DEF ReportUninstalled, WriteStatus
  <2>2. [job.seen EXCEPT !.st = job.st] \in Object
    BY <1>1, JobStatuses DEF Object, TypeInv
  <2>3. /\ j \in Job /\ j.stage = "reported" /\ j.inst = job.inst
        /\ j.seen = [job.seen EXCEPT !.st = job.st]
    BY <1>1, <2>2 DEF Job, Stages
  <2>. HIDE DEF j
  <2>4. job' = j /\ queue' \subseteq Inst /\ delayed' \subseteq Inst
    BY <1>1, <2>1, CallGoesOn DEF TypeInv
  <2>5. obj[job.inst] = job.seen /\ job.inst \in Inst
    BY <1>1, <1>2, JobStatuses DEF TypeInv, JobCurrent
  <2>6. obj' \in [Inst -> Object \cup {NoObj}] /\ obj'[job.inst] = j.seen
    BY <2>1, <2>2, <2>3, <2>5 DEF TypeInv, TypeOK
  <2>. QED
    BY <2>3, <2>4, <2>6
       DEF ReportUninstalled, TypeInv, TypeOK, JobCurrent, ChartChosen, world
<1>3. CASE ~job.fresh
  BY <1>1, <1>3, QuietEndType DEF ReportUninstalled, WriteStatus
<1>. QED
  BY <1>2, <1>3

LEMMA RemoveFinalizerType ==
    ASSUME TypeInv, RemoveFinalizer
    PROVE  TypeInv'
<1>1. job \in Job /\ job # Idle
  BY AtStage DEF RemoveFinalizer, At, Stages, TypeInv
<1>2. obj' \in [Inst -> Object \cup {NoObj}]
  <2>1. CASE job.fresh /\ job.seen.held
    <3>1. obj[job.inst] \in Object
      BY <1>1, <2>1, JobStatuses DEF TypeInv, JobCurrent
    <3>2. [obj[job.inst] EXCEPT !.fin = FALSE] \in Object
      BY <3>1 DEF Object
    <3>. QED
      BY <2>1, <3>2 DEF RemoveFinalizer, TypeInv, TypeOK
  <2>2. CASE ~(job.fresh /\ job.seen.held)
    BY <2>2 DEF RemoveFinalizer, TypeInv, TypeOK
  <2>. QED
    BY <2>1, <2>2
<1>3. job' = Idle /\ queue' \subseteq Inst /\ delayed' \subseteq Inst
  BY <1>1, CallEnds DEF RemoveFinalizer, TypeInv
<1>. QED
  BY <1>2, <1>3 DEF RemoveFinalizer, TypeInv, TypeOK, JobCurrent, ChartChosen, Idle, world

\* The users' writes: whatever the worker has in hand is out of date.
LEMMA DisturbType ==
    ASSUME TypeInv, NEW i \in Inst, Disturb(i),
           obj' \in [Inst -> Object \cup {NoObj}],
           \A k \in Inst \ {i} : obj'[k] = obj[k]
    PROVE  TypeInv'
<1>1. edits' \in 0..MaxEdits
  BY BoundsAssumption DEF Disturb, EditBy, TypeInv, TypeOK
<1>2. CASE job # Idle /\ job.inst = i
  <2>1. job' = [job EXCEPT !.fresh = FALSE] /\ job \in Job
    BY <1>2 DEF Disturb, TypeInv, TypeOK
  <2>2. /\ job' \in Job /\ ~job'.fresh
        /\ job'.stage = job.stage /\ job'.chart = job.chart
    BY <2>1 DEF Job
  <2>. QED
    BY <1>1, <2>2 DEF Disturb, TypeInv, TypeOK, JobCurrent, ChartChosen
<1>3. CASE ~(job # Idle /\ job.inst = i)
  <2>1. UNCHANGED job
    BY <1>3 DEF Disturb
  <2>2. job # Idle => job.inst \in Inst \ {i}
    BY <1>3 DEF TypeInv, TypeOK, Job
  <2>. QED
    BY <1>1, <2>1, <2>2 DEF Disturb, TypeInv, TypeOK, JobCurrent, ChartChosen
<1>. QED
  BY <1>2, <1>3

LEMMA UserType ==
    ASSUME TypeInv, NEW i \in Inst, Create(i) \/ Edit(i) \/ Delete(i) \/ LetGo(i)
    PROVE  TypeInv'
<1>1. CASE Create(i)
  <2>1. PICK o : /\ obj' = [obj EXCEPT ![i] = o]
                 /\ \E spec \in Specs, hash \in InitialHashes, held \in Holds :
                      o = [spec |-> spec, hash |-> hash, fin |-> FALSE, held |-> held,
                           gone |-> FALSE, created |-> now, st |-> NewStatus]
    BY <1>1 DEF Create
  <2>2. NewStatus \in Status
    BY DEF NewStatus, Status
  <2>3. o \in Object
    BY <2>1, <2>2, InitialHashesAssumption DEF Object, Hash, TypeInv, TypeOK
  <2>. QED
    BY <1>1, <2>1, <2>3, DisturbType DEF Create, TypeInv, TypeOK
<1>2. CASE Edit(i)
  <2>1. PICK spec \in Specs : obj' = [obj EXCEPT ![i].spec = spec]
    BY <1>2 DEF Edit
  <2>2. [obj[i] EXCEPT !.spec = spec] \in Object
    BY <1>2 DEF Edit, TypeInv, TypeOK, Object
  <2>. QED
    BY <1>2, <2>1, <2>2, DisturbType DEF Edit, TypeInv, TypeOK
<1>3. CASE Delete(i)
  <2>1. [obj[i] EXCEPT !.gone = TRUE] \in Object
    BY <1>3 DEF Delete, TypeInv, TypeOK, Object
  <2>. QED
    BY <1>3, <2>1, DisturbType DEF Delete, TypeInv, TypeOK
<1>4. CASE LetGo(i)
  <2>1. [obj[i] EXCEPT !.held = FALSE] \in Object
    BY <1>4 DEF LetGo, TypeInv, TypeOK, Object
  <2>. QED
    BY <1>4, <2>1, DisturbType DEF LetGo, TypeInv, TypeOK
<1>. QED
  BY <1>1, <1>2, <1>3, <1>4

\* Repository, clock, informer, timers.
LEMMA SurroundingsType ==
    ASSUME TypeInv, \/ ToggleAuth \/ Publish \/ Tick \/ CacheCatchesUp
                    \/ \E i \in Inst : TimerFires(i)
    PROVE  TypeInv'
<1>. USE DEF TypeInv, TypeOK, JobCurrent, ChartChosen
<1>1. CASE ToggleAuth
  BY <1>1, BoundsAssumption, ClustersAssumption DEF ToggleAuth, EditBy
<1>2. CASE Publish
  BY <1>2, BoundsAssumption DEF Publish
<1>3. CASE Tick
  BY <1>3 DEF Tick
<1>4. CASE CacheCatchesUp
  <2>1. \A i \in Inst : Created(i) \in Nat
    BY DEF Created, Object
  <2>. QED
    BY <1>4, <2>1 DEF CacheCatchesUp
<1>5. ASSUME NEW i \in Inst, TimerFires(i) PROVE TypeInv'
  BY <1>5 DEF TimerFires, world
<1>. QED
  BY <1>1, <1>2, <1>3, <1>4, <1>5

-----------------------------------------------------------------------------

LEMMA InitType == Init => TypeInv
<1>. SUFFICES ASSUME Init PROVE TypeInv
  OBVIOUS
<1>1. auth \in Presence
  BY DEF Init, Presence
<1>2. job = Idle /\ job.stage # "downloaded"
  BY DEF Init, Idle
<1>3. repo \in 1..MaxChart /\ edits \in 0..MaxEdits /\ faults \in 0..MaxFaults
  BY BoundsAssumption DEF Init
<1>4. /\ obj \in [Inst -> Object \cup {NoObj}]
      /\ release \in [Inst -> Manifest \cup {NoRelease}]
      /\ cache \in [Inst -> Nat] /\ now \in Nat
      /\ queue \subseteq Inst /\ delayed \subseteq Inst
  BY DEF Init
<1>. QED
  BY <1>1, <1>2, <1>3, <1>4, Zenon DEF TypeInv, TypeOK, JobCurrent, ChartChosen

LEMMA NextType ==
    ASSUME TypeInv, [Next]_vars
    PROVE  TypeInv'
<1>. USE DEF At, Stages, ConditionReasons
<1>1. CASE \E i \in Inst : Lookup(i) \/ TimerFires(i)
  BY <1>1, LookupType, SurroundingsType
<1>2. CASE CacheCatchesUp
  BY <1>2, SurroundingsType
<1>3. CASE Environment
  BY <1>3, UserType, SurroundingsType DEF Environment
<1>4. CASE Fail
  <2>1. CASE Crash
    BY <2>1, RestartType DEF Crash
  <2>2. CASE CallFails
    BY <2>2, QuietEndType DEF CallFails
  <2>3. CASE DownloadFails
    BY <2>3, FailureType DEF DownloadFails, MayDownload, Accepted
  <2>4. CASE SyncFails
    BY <2>4, FailureType DEF SyncFails
  <2>5. CASE InstallFails
    BY <2>5, CandidateType, HelmFailureType DEF InstallFails
  <2>6. CASE UpdateFails
    BY <2>6, CandidateType, HelmFailureType DEF UpdateFails
  <2>7. CASE ReconcileFails
    BY <2>7, FailureType DEF ReconcileFails
  <2>8. CASE DeleteFails
    BY <2>8, FailureType, HelmFailureType DEF DeleteFails, Terminating
  <2>. QED
    BY <1>4, <2>1, <2>2, <2>3, <2>4, <2>5, <2>6, <2>7, <2>8 DEF Fail
<1>5. CASE Handle
  <2>1. CASE AddFinalizer \/ RejectVersion \/ MarkDuplicate \/ RecordSpecHash
    BY <2>1, AddFinalizerType, RejectVersionType, MarkDuplicateType, RecordSpecHashType
  <2>2. CASE PanicNotListed \/ PanicNoAnnotations \/ \E kind \in Services : PanicNoKind(kind)
    BY <2>2, RestartType DEF PanicNotListed, PanicNoAnnotations, PanicNoKind
  <2>3. CASE IgnoreDuplicate \/ Terminated
    BY <2>3, AtStage, QuietEndType
       DEF IgnoreDuplicate, Terminated, Terminating, Alive, TypeInv
  <2>4. CASE RejectDowngrade \/ Skip \/ RejectRepo
    BY <2>4, AtStage, QuietEndType DEF RejectDowngrade, Skip, RejectRepo, Accepted, TypeInv
  <2>5. CASE RejectParameters
    BY <2>5, FailureType DEF RejectParameters
  <2>6. CASE \E kind \in Services : CannotMigrate(kind)
    BY <2>6, FailureType DEF CannotMigrate, Looking, Accepted
  <2>7. CASE Download \/ \E kind \in Services : FindsNone(kind)
    BY <2>7, ProceedType
  <2>8. CASE Install \/ Update \/ Reconcile
    BY <2>8, DeployType DEF Install, Update, Reconcile
  <2>9. CASE ReportDeployed \/ ReportReconciled
    BY <2>9, ReportType
  <2>10. CASE Uninstall \/ ReportUninstalled \/ RemoveFinalizer
    BY <2>10, UninstallType, ReportUninstalledType, RemoveFinalizerType
  <2>. QED
    BY <1>5, <2>1, <2>2, <2>3, <2>4, <2>5, <2>6, <2>7, <2>8, <2>9, <2>10 DEF Handle
<1>6. CASE UNCHANGED vars
  BY <1>6 DEF vars, TypeInv, TypeOK, JobCurrent, ChartChosen
<1>. QED
  BY <1>1, <1>2, <1>3, <1>4, <1>5, <1>6 DEF Next

\* What the worker has in hand is what is stored as long as its
\* resourceVersion is current, and every variable has its type.
THEOREM TypesAreKept == Spec => []TypeInv
<1>1. Init => TypeInv
  BY InitType
<1>2. TypeInv /\ [Next]_vars => TypeInv'
  BY NextType
<1>. QED
  BY <1>1, <1>2, PTL DEF Spec

\* Every variable of the reconciler has its type, always.
THEOREM TypeCorrect == Spec => []TypeOK
<1>1. TypeInv => TypeOK
  BY DEF TypeInv
<1>. QED
  BY <1>1, TypesAreKept, PTL

-----------------------------------------------------------------------------
\* Who owns a release.

\* The stages of a call that installs or updates.
Deploying ==
    {"recorded", "halfway", "checked", "downloaded", "installed", "updated", "reconciled"}

Undeploying == {"uninstalled", "reported"}

\* The CR i has a release, or the worker is about to give it one.
Owner(i) == \/ Installed(i)
            \/ job # Idle /\ job.inst = i /\ job.stage \in Deploying

Oldest(i) == \A j \in Inst : Exists(j) => obj[i].created <= obj[j].created

\* Time stamps are those of a clock that started at 1.
ClockInv ==
    /\ now \in Nat \ {0}
    /\ \A i \in Inst : cache[i] <= now /\ (Exists(i) => obj[i].created \in 1..now)

\* The cached list lags, but misses no CR older than one that it shows.
CacheInv ==
    \A j, k \in Inst :
        Exists(j) /\ obj[j].created < cache[k] => cache[j] = obj[j].created

\* What the worker may rely on though others act between its steps: a CR read
\* with the finalizer still exists, is the same CR and is still being deleted.
JobHolds ==
    job # Idle =>
        /\ job.stage # "loaded" => job.seen.fin
        /\ job.stage \in Undeploying => job.seen.gone /\ ~Installed(job.inst)
        /\ job.seen.fin =>
              /\ Exists(job.inst) /\ obj[job.inst].fin
              /\ obj[job.inst].created = job.seen.created
              /\ job.seen.gone => obj[job.inst].gone

\* What makes a CR eligible: it has the finalizer, and no CR is older, be it
\* in the cluster or in the cached list.
Eligible(i) == Exists(i) /\ obj[i].fin /\ Oldest(i) /\ IsFirst(obj[i])

OwnersAreEligible == \A i \in Inst : Owner(i) => Eligible(i)

OwnInv == TypeInv /\ ClockInv /\ CacheInv /\ JobHolds /\ OwnersAreEligible

-----------------------------------------------------------------------------

\* The CRs change as anybody but the worker that removes a finalizer, and the
\* user that creates a CR, may change them.
Evolve ==
    \A i \in Inst :
        /\ Exists(i)' => /\ Exists(i) /\ obj'[i].created = obj[i].created
                         /\ obj[i].gone => obj'[i].gone
        /\ Exists(i) /\ obj[i].fin => Exists(i)' /\ obj'[i].fin

\* Time stamps of CRs and of the cached list are numbers.
LEMMA Stamps ==
    ASSUME TypeOK, NEW i \in Inst
    PROVE  /\ cache[i] \in Nat /\ now \in Nat
           /\ Exists(i) => obj[i] \in Object /\ obj[i].created \in Nat
BY DEF TypeOK, Exists, Object

\* A step under which the CRs evolve keeps the invariant if it keeps JobHolds
\* and makes nobody an owner who may not be one.
LEMMA EvolutionKeeps ==
    ASSUME OwnInv, TypeInv', JobHolds', Evolve, UNCHANGED cache,
           now' \in Nat, now <= now',
           \A i \in Inst : Owner(i)' => Owner(i) \/ Eligible(i)
    PROVE  OwnInv'
<1>1. ClockInv'
  <2>1. now' \in Nat \ {0}
    BY DEF OwnInv, ClockInv
  <2>2. ASSUME NEW i \in Inst
        PROVE  cache'[i] <= now' /\ (Exists(i)' => obj'[i].created \in 1..now')
    BY <2>1, Stamps DEF OwnInv, TypeInv, ClockInv, Evolve
  <2>. QED
    BY <2>1, <2>2 DEF ClockInv, Exists
<1>2. CacheInv'
  BY DEF OwnInv, CacheInv, Evolve, Exists
<1>3. OwnersAreEligible'
  <2>1. ASSUME NEW i \in Inst, Owner(i)'
        PROVE  Eligible(i)'
    <3>1. Eligible(i)
      BY <2>1 DEF OwnInv, OwnersAreEligible
    <3>2. Exists(i)' /\ obj'[i].fin /\ obj'[i].created = obj[i].created
      BY <3>1 DEF Evolve, Eligible
    <3>3. \A j \in Inst : Exists(j)' => obj'[i].created <= obj'[j].created
      BY <3>1, <3>2 DEF Evolve, Oldest, Eligible
    <3>4. IsFirst(obj[i])'
      BY <3>1, <3>2 DEF Eligible, IsFirst, Listed
    <3>. QED
      BY <3>2, <3>3, <3>4 DEF Eligible, Oldest, Exists
  <2>. QED
    BY <2>1 DEF OwnersAreEligible, Owner, Eligible, Exists, Oldest, Installed
<1>. QED
  BY <1>1, <1>2, <1>3 DEF OwnInv

\* What JobHolds and the owners depend on when the call goes on.
LEMMA JobEvolves ==
    ASSUME OwnInv, TypeInv', Evolve, UNCHANGED <<cache, now>>,
           job # Idle, job' # Idle, job'.inst = job.inst, job.seen.fin,
           job'.seen.fin = job.seen.fin, job'.seen.gone = job.seen.gone,
           job'.seen.created = job.seen.created,
           \/ UNCHANGED release /\ job'.stage = job.stage
           \/ UNCHANGED release /\ {job.stage, job'.stage} \subseteq Deploying
           \/ /\ {job.stage, job'.stage} \subseteq Deploying
              /\ \A i \in Inst \ {job.inst} : release'[i] = release[i]
           \/ /\ job.seen.gone /\ job'.stage \in Undeploying
              /\ release' = [release EXCEPT ![job.inst] = NoRelease]
    PROVE  OwnInv'
<1>1. job.inst \in Inst /\ job \in Job
  BY InCall DEF OwnInv, TypeInv, Job
<1>2. JobHolds'
  <2>1. /\ Exists(job.inst)' /\ obj'[job.inst].fin
        /\ obj'[job.inst].created = job.seen.created
        /\ job.seen.gone => obj'[job.inst].gone
    BY <1>1 DEF OwnInv, JobHolds, Evolve
  <2>2. job'.stage \in Undeploying => job.seen.gone /\ ~Installed(job.inst)'
    BY <1>1 DEF OwnInv, JobHolds, Undeploying, Deploying, Installed, TypeInv, TypeOK
  <2>. QED
    BY <2>1, <2>2 DEF JobHolds, Exists, Installed
<1>3. ASSUME NEW i \in Inst, Owner(i)' PROVE Owner(i)
  <2>1. CASE i = job.inst
    BY <1>1, <1>3, <2>1
       DEF Owner, Installed, Deploying, Undeploying, OwnInv, TypeInv, TypeOK
  <2>2. CASE i # job.inst
    BY <1>1, <1>3, <2>2 DEF Owner, Installed, OwnInv, TypeInv, TypeOK
  <2>. QED
    BY <2>1, <2>2
<1>. QED
  BY <1>2, <1>3, EvolutionKeeps DEF OwnInv, ClockInv

\* The call ends and nobody becomes an owner.
LEMMA EndKeeps ==
    ASSUME OwnInv, TypeInv', Evolve, UNCHANGED <<cache, now, release>>, job' = Idle
    PROVE  OwnInv'
<1>1. JobHolds'
  BY DEF JobHolds
<1>2. \A i \in Inst : Owner(i)' => Owner(i)
  BY DEF Owner, Installed
<1>. QED
  BY <1>1, <1>2, EvolutionKeeps DEF OwnInv, ClockInv

\* Unchanged objects evolve, and so do those whose status is written.
LEMMA WriteEvolves ==
    ASSUME TypeInv, job \in Job, job # Idle, NEW st \in Status,
           WriteStatus(st) \/ UNCHANGED obj
    PROVE  Evolve
<1>1. CASE WriteStatus(st) /\ job.fresh
  <2>1. obj' = [obj EXCEPT ![job.inst].st = st]
    BY <1>1 DEF WriteStatus
  <2>2. obj[job.inst] \in Object
    BY <1>1, JobStatuses DEF TypeInv, JobCurrent
  <2>3. [obj[job.inst] EXCEPT !.st = st] \in Object
    BY <2>2 DEF Object
  <2>4. obj[job.inst] # NoObj /\ [obj[job.inst] EXCEPT !.st = st] # NoObj
    BY <2>2, <2>3, SentinelAssumption
  <2>. QED
    BY <2>1, <2>2, <2>4, JobStatuses DEF Evolve, Exists, Object, TypeInv, TypeOK
<1>2. CASE UNCHANGED obj
  BY <1>2 DEF Evolve, Exists
<1>. QED
  BY <1>1, <1>2 DEF WriteStatus

-----------------------------------------------------------------------------
\* One lemma per group of actions.

LEMMA LookupOwn ==
    ASSUME OwnInv, TypeInv', NEW i \in Inst, Lookup(i)
    PROVE  OwnInv'
<1>1. UNCHANGED <<obj, release, cache, now>>
  BY DEF Lookup, world
<1>2. Evolve
  BY <1>1 DEF Evolve, Exists
<1>3. CASE obj[i] = NoObj
  BY <1>1, <1>2, <1>3, EndKeeps DEF Lookup
<1>4. CASE obj[i] # NoObj
  <2>1. job'.stage = "loaded" /\ job'.inst = i /\ job'.seen = obj[i]
    BY <1>4 DEF Lookup
  <2>2. JobHolds'
    BY <1>1, <1>4, <2>1 DEF JobHolds, Exists, Undeploying
  <2>3. \A k \in Inst : Owner(k)' => Owner(k)
    BY <1>1, <2>1 DEF Owner, Installed, Deploying
  <2>. QED
    BY <1>1, <1>2, <2>2, <2>3, EvolutionKeeps DEF OwnInv, ClockInv
<1>. QED
  BY <1>3, <1>4

\* Every end of a call that writes a status or nothing.
LEMMA WriteEndOwn ==
    ASSUME OwnInv, TypeInv', job.stage \in Stages, NEW st \in Status,
           WriteStatus(st) \/ UNCHANGED obj,
           Requeue \/ RequeueAfter \/ Done, UNCHANGED <<release, world>>
    PROVE  OwnInv'
<1>1. Evolve
  BY AtStage, WriteEvolves DEF OwnInv, TypeInv
<1>2. job' = Idle
  BY DEF Requeue, RequeueAfter, Done
<1>. QED
  BY <1>1, <1>2, EndKeeps DEF world

LEMMA GiveUpOwn ==
    ASSUME OwnInv, TypeInv', job.stage \in Stages,
           NEW st \in {job.st, job.seen.st, Synced, Unfailed},
           NEW ty \in {"Failed", "Irreconcilable"}, NEW reason \in ConditionReasons,
           \/ Reject(With(st, ty, "True", reason))
           \/ FailWith(With(st, ty, "True", reason))
    PROVE  OwnInv'
<1>1. job \in Job /\ job # Idle
  BY AtStage DEF OwnInv, TypeInv
<1>2. With(st, ty, "True", reason) \in Status
  <2>1. st \in Status
    BY <1>1, JobStatuses, SyncedType DEF OwnInv, TypeInv
  <2>. QED
    BY <1>1, <2>1, WithType, JobStatuses
       DEF OwnInv, TypeInv, ConditionTypes, ConditionStatuses
<1>. DEFINE w == With(st, ty, "True", reason)
<1>3. WriteStatus(w) \/ UNCHANGED obj
  BY DEF Reject, FailWith, TryWriteStatus
<1>4. Requeue /\ UNCHANGED <<release, world>>
  BY DEF Reject, FailWith
<1>. HIDE DEF w
<1>. QED
  BY <1>2, <1>3, <1>4, WriteEndOwn DEF w

\* A failed Helm operation makes nobody an owner: the CR in hand is one, or is
\* to lose its release.
LEMMA HelmFailureOwn ==
    ASSUME OwnInv, TypeInv', job.stage \in Stages, NEW st \in {job.st, Synced},
           NEW reason \in ConditionReasons, NEW outcome,
           HelmFails(With(st, "Failed", "True", reason), outcome),
           job.stage \in Deploying \/ outcome = NoRelease
    PROVE  OwnInv'
<1>1. job \in Job /\ job # Idle /\ job.inst \in Inst
  BY AtStage, JobStatuses DEF OwnInv, TypeInv
<1>. DEFINE w == With(st, "Failed", "True", reason)
<1>2. w \in Status
  <2>1. st \in Status
    BY <1>1, JobStatuses, SyncedType DEF OwnInv, TypeInv
  <2>. QED
    BY <1>1, <2>1, WithType, JobStatuses
       DEF OwnInv, TypeInv, ConditionTypes, ConditionStatuses
<1>3. /\ WriteStatus(w) \/ UNCHANGED obj
      /\ job' = Idle /\ UNCHANGED <<cache, now>>
      /\ release' \in {release, [release EXCEPT ![job.inst] = outcome]}
  BY DEF HelmFails, Requeue, world
<1>. HIDE DEF w
<1>4. Evolve
  BY <1>1, <1>2, <1>3, WriteEvolves DEF OwnInv, TypeInv
<1>5. ASSUME NEW i \in Inst, Owner(i)' PROVE Owner(i)
  BY <1>1, <1>3, <1>5 DEF Owner, Installed, OwnInv, TypeInv, TypeOK
<1>6. JobHolds'
  BY <1>3 DEF JobHolds
<1>. QED
  BY <1>3, <1>4, <1>5, <1>6, EvolutionKeeps DEF OwnInv, ClockInv

LEMMA QuietEndOwn ==
    ASSUME OwnInv, TypeInv', Requeue \/ RequeueAfter \/ Done,
           UNCHANGED <<obj, release, world>>
    PROVE  OwnInv'
<1>1. Evolve
  BY DEF Evolve, Exists
<1>2. job' = Idle
  BY DEF Requeue, RequeueAfter, Done
<1>. QED
  BY <1>1, <1>2, EndKeeps DEF world

LEMMA AddFinalizerOwn ==
    ASSUME OwnInv, TypeInv', AddFinalizer
    PROVE  OwnInv'
<1>1. job \in Job /\ job # Idle
  BY AtStage DEF AddFinalizer, At, Stages, OwnInv, TypeInv
<1>2. Evolve
  <2>1. CASE job.fresh
    <3>1. obj[job.inst] \in Object
      BY <1>1, <2>1, JobStatuses DEF OwnInv, TypeInv, JobCurrent
    <3>2. [obj[job.inst] EXCEPT !.fin = TRUE] \in Object
      BY <3>1 DEF Object
    <3>3. obj[job.inst] # NoObj /\ [obj[job.inst] EXCEPT !.fin = TRUE] # NoObj
      BY <3>1, <3>2, SentinelAssumption
    <3>. QED
      BY <2>1, <3>1, <3>3
         DEF AddFinalizer, Evolve, Exists, Object, OwnInv, TypeInv, TypeOK
  <2>2. CASE ~job.fresh
    BY <2>2 DEF AddFinalizer, Evolve, Exists
  <2>. QED
    BY <2>1, <2>2
<1>. QED
  BY <1>2, EndKeeps DEF AddFinalizer, Requeue, world

LEMMA RestartOwn ==
    ASSUME OwnInv, TypeInv', Restart \/ (CacheCatchesUp /\ UNCHANGED job)
    PROVE  OwnInv'
<1>1. /\ UNCHANGED <<obj, release, now>>
      /\ cache' = [i \in Inst |-> Created(i)]
      /\ job' \in {job, Idle}
  BY DEF Restart, CacheCatchesUp
<1>2. \A i \in Inst : cache'[i] = IF Exists(i) THEN obj[i].created ELSE 0
  BY <1>1 DEF Created, Exists
<1>3. ClockInv'
  BY <1>1, <1>2 DEF OwnInv, ClockInv, Exists
<1>4. CacheInv'
  BY <1>1, <1>2 DEF CacheInv, Exists
<1>5. JobHolds'
  BY <1>1 DEF OwnInv, JobHolds, Exists, Installed
<1>6. OwnersAreEligible'
  <2>1. ASSUME NEW i \in Inst, Owner(i)' PROVE Eligible(i)'
    <3>1. Eligible(i)
      BY <1>1, <2>1 DEF OwnInv, OwnersAreEligible, Owner, Installed
    <3>2. obj[i].created \in 1..now
      BY <3>1 DEF Eligible, OwnInv, ClockInv
    <3>3. IsFirst(obj[i])'
      BY <1>1, <1>2, <3>1, <3>2 DEF Eligible, Oldest, IsFirst, Listed
    <3>. QED
      BY <1>1, <3>1, <3>3 DEF Eligible, Oldest, Exists
  <2>. QED
    BY <2>1 DEF OwnersAreEligible, Owner, Eligible, Exists, Oldest, Installed
<1>. QED
  BY <1>3, <1>4, <1>5, <1>6 DEF OwnInv

\* A CR that is found the first in the cached list is the oldest there is.
LEMMA FirstIsOldest ==
    ASSUME OwnInv, job \in Job, job # Idle, Alive, IsFirst(job.seen)
    PROVE  Eligible(job.inst)
<1>1. /\ job.inst \in Inst /\ Exists(job.inst) /\ obj[job.inst].fin
      /\ obj[job.inst].created = job.seen.created
  BY DEF OwnInv, JobHolds, Alive, Job
<1>2. PICK k \in Inst : job.seen.created = cache[k]
  BY DEF IsFirst, Listed
<1>3. ASSUME NEW j \in Inst, Exists(j), obj[j].created < job.seen.created
      PROVE  FALSE
  <2>1. cache[j] = obj[j].created /\ obj[j].created \in 1..now
    BY <1>2, <1>3 DEF OwnInv, CacheInv, ClockInv
  <2>2. j \in Listed
    BY <2>1 DEF Listed
  <2>3. job.seen.created <= cache[j]
    BY <2>2 DEF IsFirst
  <2>4. job.seen.created \in Nat
    BY <1>1, Stamps DEF OwnInv, TypeInv
  <2>. QED
    BY <1>3, <2>1, <2>3, <2>4 DEF OwnInv, ClockInv
<1>4. ASSUME NEW j \in Inst, Exists(j)
      PROVE  obj[job.inst].created <= obj[j].created
  BY <1>1, <1>3, <1>4, Stamps DEF OwnInv, TypeInv
<1>5. IsFirst(obj[job.inst])
  BY <1>1 DEF IsFirst
<1>. QED
  BY <1>1, <1>4, <1>5 DEF Oldest, Eligible

LEMMA RecordSpecHashOwn ==
    ASSUME OwnInv, TypeInv', RecordSpecHash
    PROVE  OwnInv'
<1>1. job \in Job /\ job # Idle
  BY AtStage DEF RecordSpecHash, Alive, At, Stages, OwnInv, TypeInv
<1>2. CASE job.fresh
  <2>. DEFINE o == [job.seen EXCEPT !.hash = job.seen.spec]
  <2>. DEFINE j == [job EXCEPT !.stage = "recorded", !.seen = o,
                             !.st      = Initialized(job.st),
                             !.changed = HasChangedSpec(job.seen),
                             !.secret  = LastType(job.seen.st) # "Deployed",
                             !.time    = now]
  <2>1. obj' = [obj EXCEPT ![job.inst] = o] /\ job' = j
    BY <1>2, Zenon DEF RecordSpecHash, GoTo
  <2>2. obj[job.inst] = job.seen /\ job.inst \in Inst /\ job.seen \in Object
    BY <1>1, <1>2, JobStatuses DEF OwnInv, TypeInv, JobCurrent
  <2>3. /\ o.fin = job.seen.fin /\ o.gone = job.seen.gone
        /\ o.created = job.seen.created /\ o \in Object
    BY <1>1, <2>2 DEF Object, Hash
  <2>. HIDE DEF o
  <2>4. j.stage = "recorded" /\ j.inst = job.inst /\ j.seen = o
    BY <1>1 DEF Job
  <2>. HIDE DEF j
  <2>5. o # NoObj
    BY <2>3, SentinelAssumption
  <2>6. /\ obj'[job.inst] = o
        /\ \A i \in Inst \ {job.inst} : obj'[i] = obj[i]
    BY <2>1, <2>2 DEF OwnInv, TypeInv, TypeOK
  <2>7. Evolve
    BY <2>2, <2>3, <2>5, <2>6, SentinelAssumption DEF Evolve, Exists
  <2>8. JobHolds'
    BY <2>1, <2>3, <2>5, <2>6, <2>4
       DEF RecordSpecHash, Alive, JobHolds, Exists, Undeploying
  <2>9. UNCHANGED <<release, cache, now>>
    BY DEF RecordSpecHash, world
  <2>10. ASSUME NEW i \in Inst, Owner(i)', ~Owner(i)
         PROVE  Eligible(i)
    <3>1. i = job.inst
      BY <2>1, <2>4, <2>9, <2>10 DEF Owner, Installed
    <3>. QED
      BY <1>1, <3>1, FirstIsOldest DEF RecordSpecHash
  <2>. QED
    BY <2>7, <2>8, <2>9, <2>10, EvolutionKeeps DEF OwnInv, ClockInv
<1>3. CASE ~job.fresh
  BY <1>1, <1>3, QuietEndOwn DEF RecordSpecHash
<1>. QED
  BY <1>2, <1>3

\* The steps of tryInstallOrUpdate that go on.
LEMMA DeployOwn ==
    ASSUME OwnInv, TypeInv',
           \/ Download \/ Install \/ Update \/ Reconcile
           \/ \E kind \in Services : FindsNone(kind)
    PROVE  OwnInv'
<1>1. job \in Job /\ job # Idle /\ job.stage \in Deploying
  BY AtStage DEF FindsNone, Looking, Download, MayDownload, Accepted, Install, Update,
     Reconcile, At, Stages, Deploying, OwnInv, TypeInv
<1>2. job.seen.fin
  BY <1>1 DEF OwnInv, JobHolds, Deploying
<1>3. /\ UNCHANGED <<obj, cache, now>>
      /\ \A i \in Inst \ {job.inst} : release'[i] = release[i]
      /\ \E s \in {"halfway", "checked", "downloaded", "installed", "updated", "reconciled"} :
            \E x, y : \/ job' = [job EXCEPT !.stage = s]
                      \/ job' = [job EXCEPT !.stage = s, !.chart = x]
                      \/ job' = [job EXCEPT !.stage = s, !.st = y]
  <2>. USE DEF GoTo, world
  <2>1. CASE \E kind \in Services : FindsNone(kind)
    BY <2>1, Zenon DEF FindsNone
  <2>2. CASE Download
    BY <2>2 DEF Download
  <2>3. CASE Reconcile
    BY <2>3, Zenon DEF Reconcile
  <2>4. ASSUME NEW stage \in {"installed", "updated"}, NEW reason, Deploy(stage, reason)
        PROVE  <1>3!1 /\ <1>3!2 /\ \E y : job' = [job EXCEPT !.stage = stage, !.st = y]
    <3>1. \E y : job' = [job EXCEPT !.stage = stage, !.st = y]
      BY <2>4, Zenon DEF Deploy
    <3>2. \A i \in Inst \ {job.inst} : release'[i] = release[i]
      BY <2>4 DEF Deploy, OwnInv, TypeInv, TypeOK
    <3>. QED
      BY <2>4, <3>1, <3>2 DEF Deploy
  <2>. QED
    BY <2>1, <2>2, <2>3, <2>4 DEF Install, Update
<1>4. /\ job'.inst = job.inst /\ job'.seen = job.seen /\ job'.stage \in Deploying
      /\ job' # Idle
  BY <1>1, <1>3 DEF Job, Deploying, Idle
<1>5. Evolve
  BY <1>3 DEF Evolve, Exists
<1>. QED
  BY <1>1, <1>2, <1>3, <1>4, <1>5, JobEvolves

LEMMA UninstallOwn ==
    ASSUME OwnInv, TypeInv', Uninstall
    PROVE  OwnInv'
<1>1. job \in Job /\ job # Idle /\ job.seen.fin /\ job.seen.gone
  BY AtStage DEF Uninstall, Terminating, At, Stages, OwnInv, TypeInv
<1>2. /\ UNCHANGED <<obj, cache, now>>
      /\ release' = [release EXCEPT ![job.inst] = NoRelease]
      /\ \E y : job' = [job EXCEPT !.stage = "uninstalled", !.st = y]
  BY Zenon DEF Uninstall, GoTo, world
<1>3. /\ job'.inst = job.inst /\ job'.seen = job.seen /\ job'.stage \in Undeploying
      /\ job' # Idle
  BY <1>1, <1>2 DEF Job, Undeploying, Idle
<1>4. Evolve
  BY <1>2 DEF Evolve, Exists
<1>. QED
  BY <1>1, <1>2, <1>3, <1>4, JobEvolves

LEMMA ReportUninstalledOwn ==
    ASSUME OwnInv, TypeInv', ReportUninstalled
    PROVE  OwnInv'
<1>1. job \in Job /\ job # Idle /\ job.stage \in Stages
  BY AtStage DEF ReportUninstalled, At, Stages, OwnInv, TypeInv
<1>2. job.st \in Status
  BY <1>1, JobStatuses DEF OwnInv, TypeInv
<1>3. CASE job.fresh
  <2>1. /\ UNCHANGED <<release, cache, now>>
        /\ job' = [job EXCEPT !.stage = "reported", !.seen.st = job.st]
        /\ WriteStatus(job.st)
    BY <1>3, Zenon DEF ReportUninstalled, GoTo, world
  <2>2. Evolve
    BY <1>1, <1>2, <2>1, WriteEvolves DEF OwnInv, TypeInv
  <2>3. /\ job'.stage = "reported" /\ job'.inst = job.inst /\ job' # Idle
        /\ job'.seen = [job.seen EXCEPT !.st = job.st]
    BY <1>1, <2>1 DEF Job, Idle
  <2>4. /\ job'.seen.fin = job.seen.fin /\ job'.seen.gone = job.seen.gone
        /\ job'.seen.created = job.seen.created
    BY <1>1, <2>3, JobStatuses DEF Object, OwnInv, TypeInv
  <2>5. job.seen.fin /\ job.seen.gone /\ ~Installed(job.inst) /\ job.inst \in Inst
    BY <1>1, JobStatuses
       DEF ReportUninstalled, At, OwnInv, JobHolds, Undeploying, TypeInv
  <2>6. release' = [release EXCEPT ![job.inst] = NoRelease]
    BY <2>1, <2>5 DEF Installed, OwnInv, TypeInv, TypeOK
  <2>. QED
    BY <1>1, <2>1, <2>2, <2>3, <2>4, <2>5, <2>6, JobEvolves DEF Undeploying
<1>4. CASE ~job.fresh
  BY <1>1, <1>2, <1>4, WriteEndOwn DEF ReportUninstalled
<1>. QED
  BY <1>3, <1>4

\* Only the CR in hand may vanish, and its release is gone by then.
LEMMA RemoveFinalizerOwn ==
    ASSUME OwnInv, TypeInv', RemoveFinalizer
    PROVE  OwnInv'
<1>1. job \in Job /\ job # Idle /\ job.inst \in Inst
  BY AtStage, JobStatuses DEF RemoveFinalizer, At, Stages, OwnInv, TypeInv
<1>2. UNCHANGED <<release, cache, now>> /\ job' = Idle
  BY DEF RemoveFinalizer, Done, Requeue, world
<1>3. ~Installed(job.inst)
  BY <1>1 DEF RemoveFinalizer, At, OwnInv, JobHolds, Undeploying
<1>4. \A i \in Inst :
          /\ Exists(i)' => Exists(i) /\ obj'[i].created = obj[i].created
          /\ i # job.inst => obj'[i] = obj[i]
  <2>1. CASE job.fresh
    <3>1. obj[job.inst] = job.seen /\ job.seen \in Object /\ job.seen # NoObj
      BY <1>1, <2>1, JobStatuses, SentinelAssumption DEF OwnInv, TypeInv, JobCurrent
    <3>2. [obj[job.inst] EXCEPT !.fin = FALSE].created = obj[job.inst].created
      BY <3>1 DEF Object
    <3>. QED
      BY <1>1, <2>1, <3>1, <3>2
         DEF RemoveFinalizer, Exists, OwnInv, TypeInv, TypeOK
  <2>2. CASE ~job.fresh
    BY <2>2 DEF RemoveFinalizer, Exists
  <2>. QED
    BY <2>1, <2>2
<1>5. ClockInv'
  BY <1>2, <1>4 DEF OwnInv, ClockInv, Exists
<1>6. CacheInv'
  BY <1>2, <1>4 DEF OwnInv, CacheInv, Exists
<1>7. JobHolds'
  BY <1>2 DEF JobHolds
<1>8. OwnersAreEligible'
  <2>1. ASSUME NEW i \in Inst, Owner(i)'
        PROVE  Eligible(i)'
    <3>1. Installed(i) /\ i # job.inst
      BY <1>2, <1>3, <2>1 DEF Owner, Installed
    <3>2. Eligible(i)
      BY <3>1 DEF OwnInv, OwnersAreEligible, Owner
    <3>. QED
      BY <1>2, <1>4, <3>1, <3>2 DEF Exists, Oldest, Eligible, IsFirst, Listed
  <2>. QED
    BY <2>1 DEF OwnersAreEligible, Owner, Eligible, Exists, Oldest, Installed
<1>. QED
  BY <1>5, <1>6, <1>7, <1>8 DEF OwnInv

\* A user's write other than the creation of a CR.
LEMMA DisturbOwn ==
    ASSUME OwnInv, TypeInv', NEW i \in Inst, Disturb(i), Evolve
    PROVE  OwnInv'
<1>1. UNCHANGED <<release, cache, now>>
  BY DEF Disturb
<1>2. job' = job \/ (job # Idle /\ job' = [job EXCEPT !.fresh = FALSE])
  BY DEF Disturb
<1>3. /\ job = Idle <=> job' = Idle
      /\ job # Idle => /\ job'.stage = job.stage /\ job'.inst = job.inst
                       /\ job'.seen = job.seen /\ job.inst \in Inst
  BY <1>2 DEF OwnInv, TypeInv, TypeOK, Job, Idle
<1>4. JobHolds'
  BY <1>1, <1>3 DEF OwnInv, JobHolds, Evolve, Exists, Installed
<1>5. \A k \in Inst : Owner(k)' => Owner(k)
  BY <1>1, <1>3 DEF Owner, Installed
<1>. QED
  BY <1>1, <1>4, <1>5, EvolutionKeeps DEF OwnInv, ClockInv

LEMMA CreateOwn ==
    ASSUME OwnInv, TypeInv', NEW i \in Inst, Create(i)
    PROVE  OwnInv'
<1>1. /\ ~Exists(i) /\ UNCHANGED <<release, cache, now>>
      /\ \E spec \in Specs, hash \in InitialHashes, held \in Holds :
            obj' = [obj EXCEPT ![i] =
                      [spec |-> spec, hash |-> hash, fin |-> FALSE, held |-> held,
                       gone |-> FALSE, created |-> now, st |-> NewStatus]]
  BY DEF Create, Disturb, Exists
<1>2. \A k \in Inst : IF k = i THEN obj'[k].created = now ELSE obj'[k] = obj[k]
  BY <1>1 DEF OwnInv, TypeInv, TypeOK
<1>3. ~Owner(i)
  BY <1>1 DEF OwnInv, OwnersAreEligible, Eligible
<1>4. job' = job \/ (job # Idle /\ job' = [job EXCEPT !.fresh = FALSE])
  BY DEF Create, Disturb
<1>5. /\ job = Idle <=> job' = Idle
      /\ job # Idle => /\ job'.stage = job.stage /\ job'.inst = job.inst
                       /\ job'.seen = job.seen /\ job.inst \in Inst
  BY <1>4 DEF OwnInv, TypeInv, TypeOK, Job, Idle
<1>6. ClockInv'
  BY <1>1, <1>2, Stamps DEF OwnInv, ClockInv, Exists, TypeInv
<1>7. CacheInv'
  <2>1. ASSUME NEW j \in Inst, NEW k \in Inst, Exists(j)', obj'[j].created < cache[k]
        PROVE  cache[j] = obj'[j].created
    <3>1. j # i
      BY <1>2, <2>1, Stamps DEF OwnInv, ClockInv, TypeInv
    <3>. QED
      BY <1>2, <2>1, <3>1 DEF OwnInv, CacheInv, Exists
  <2>. QED
    BY <1>1, <2>1 DEF CacheInv, Exists
<1>8. JobHolds'
  BY <1>1, <1>2, <1>5 DEF OwnInv, JobHolds, Exists, Installed
<1>9. OwnersAreEligible'
  <2>1. ASSUME NEW k \in Inst, Owner(k)'
        PROVE  Eligible(k)'
    <3>1. Owner(k)
      BY <1>1, <1>5, <2>1 DEF Owner, Installed
    <3>2. Eligible(k) /\ obj'[k] = obj[k]
      BY <1>2, <1>3, <3>1 DEF OwnInv, OwnersAreEligible
    <3>3. obj[k].created <= now
      BY <3>2 DEF OwnInv, ClockInv, Eligible
    <3>4. Exists(k)' /\ obj'[k].fin /\ Oldest(k)'
      BY <1>2, <3>2, <3>3 DEF Exists, Oldest, Eligible
    <3>5. IsFirst(obj[k])'
      BY <1>1, <3>2 DEF Eligible, IsFirst, Listed
    <3>. QED
      BY <3>4, <3>5 DEF Eligible
  <2>. QED
    BY <2>1 DEF OwnersAreEligible, Owner, Eligible, Exists, Oldest, Installed
<1>. QED
  BY <1>6, <1>7, <1>8, <1>9 DEF OwnInv

LEMMA UserOwn ==
    ASSUME OwnInv, TypeInv', NEW i \in Inst, Edit(i) \/ Delete(i) \/ LetGo(i)
    PROVE  OwnInv'
<1>1. Exists(i) /\ obj[i] \in Object
  BY DEF Edit, Delete, LetGo, Exists, OwnInv, TypeInv, TypeOK
<1>2. CASE Edit(i)
  <2>1. PICK spec \in Specs : obj' = [obj EXCEPT ![i].spec = spec]
    BY <1>2 DEF Edit
  <2>2. [obj[i] EXCEPT !.spec = spec] \in Object
    BY <1>1 DEF Object
  <2>3. Evolve
    BY <1>1, <2>1, <2>2, SentinelAssumption
       DEF Evolve, Exists, Object, OwnInv, TypeInv, TypeOK
  <2>. QED
    BY <1>2, <2>3, DisturbOwn DEF Edit
<1>3. CASE Delete(i)
  <2>1. [obj[i] EXCEPT !.gone = TRUE] \in Object
    BY <1>1 DEF Object
  <2>2. Evolve
    BY <1>1, <1>3, <2>1, SentinelAssumption
       DEF Delete, Evolve, Exists, Object, OwnInv, TypeInv, TypeOK
  <2>. QED
    BY <1>3, <2>2, DisturbOwn DEF Delete
<1>4. CASE LetGo(i)
  <2>1. [obj[i] EXCEPT !.held = FALSE] \in Object
    BY <1>1 DEF Object
  <2>2. Evolve
    BY <1>1, <1>4, <2>1, SentinelAssumption
       DEF LetGo, Evolve, Exists, Object, OwnInv, TypeInv, TypeOK
  <2>. QED
    BY <1>4, <2>2, DisturbOwn DEF LetGo
<1>. QED
  BY <1>2, <1>3, <1>4

\* Repository, clock and timers touch nothing the invariant is about.
LEMMA SurroundingsOwn ==
    ASSUME OwnInv, TypeInv', \/ ToggleAuth \/ Publish \/ Tick
                             \/ \E i \in Inst : TimerFires(i)
    PROVE  OwnInv'
<1>1. UNCHANGED <<obj, release, cache, job>> /\ now <= now' /\ now' \in Nat
  BY DEF ToggleAuth, Publish, Tick, TimerFires, world, OwnInv, ClockInv
<1>2. Evolve /\ JobHolds' /\ \A i \in Inst : Owner(i)' => Owner(i)
  BY <1>1 DEF Evolve, OwnInv, JobHolds, Owner, Exists, Installed
<1>. QED
  BY <1>1, <1>2, EvolutionKeeps

-----------------------------------------------------------------------------

LEMMA InitOwn == Init => OwnInv
BY InitType
   DEF Init, OwnInv, ClockInv, CacheInv, JobHolds, OwnersAreEligible, Owner, Oldest,
       Eligible, Exists, Installed

LEMMA NextOwn ==
    ASSUME OwnInv, TypeInv', [Next]_vars
    PROVE  OwnInv'
<1>. USE DEF At, Stages, ConditionReasons
<1>1. CASE \E i \in Inst : Lookup(i) \/ TimerFires(i)
  BY <1>1, LookupOwn, SurroundingsOwn
<1>2. CASE CacheCatchesUp
  BY <1>2, RestartOwn DEF CacheCatchesUp
<1>3. CASE Environment
  BY <1>3, CreateOwn, UserOwn, SurroundingsOwn DEF Environment
<1>4. CASE Fail
  <2>1. CASE Crash
    BY <2>1, RestartOwn DEF Crash
  <2>2. CASE CallFails
    BY <2>2, QuietEndOwn DEF CallFails
  <2>3. CASE DownloadFails
    BY <2>3, GiveUpOwn DEF DownloadFails, MayDownload, Accepted
  <2>4. CASE SyncFails
    BY <2>4, GiveUpOwn DEF SyncFails
  <2>5. CASE InstallFails
    BY <2>5, HelmFailureOwn DEF InstallFails, Deploying
  <2>6. CASE UpdateFails
    BY <2>6, HelmFailureOwn DEF UpdateFails, Deploying
  <2>7. CASE ReconcileFails
    BY <2>7, GiveUpOwn DEF ReconcileFails
  <2>8. CASE DeleteFails
    BY <2>8, GiveUpOwn, HelmFailureOwn DEF DeleteFails, Terminating
  <2>. QED
    BY <1>4, <2>1, <2>2, <2>3, <2>4, <2>5, <2>6, <2>7, <2>8 DEF Fail
<1>5. CASE Handle
  <2>1. CASE AddFinalizer \/ RecordSpecHash
    BY <2>1, AddFinalizerOwn, RecordSpecHashOwn
  <2>2. CASE PanicNotListed \/ PanicNoAnnotations \/ \E kind \in Services : PanicNoKind(kind)
    BY <2>2, RestartOwn DEF PanicNotListed, PanicNoAnnotations, PanicNoKind
  <2>3. CASE IgnoreDuplicate \/ Terminated \/ RejectDowngrade \/ Skip
             \/ RejectRepo
    BY <2>3, QuietEndOwn
       DEF IgnoreDuplicate, Terminated, RejectDowngrade, Skip, RejectRepo
  <2>4. CASE RejectVersion
    BY <2>4, GiveUpOwn DEF RejectVersion
  <2>5. CASE RejectParameters
    BY <2>5, GiveUpOwn DEF RejectParameters
  <2>6. CASE \E kind \in Services : CannotMigrate(kind)
    BY <2>6, GiveUpOwn DEF CannotMigrate, Looking, Accepted
  <2>7. CASE MarkDuplicate
    <3>. DEFINE st == With(job.st, "Irreconcilable", "False", "DuplicateError")
    <3>1. job.stage \in Stages /\ job \in Job
      BY <2>7, AtStage DEF MarkDuplicate, Alive, OwnInv, TypeInv
    <3>2. st \in Status
      BY <3>1, WithType, JobStatuses
         DEF OwnInv, TypeInv, ConditionTypes, ConditionStatuses
    <3>3. WriteStatus(st) /\ (Done \/ Requeue) /\ UNCHANGED <<release, world>>
      BY <2>7 DEF MarkDuplicate
    <3>. HIDE DEF st
    <3>. QED
      BY <3>1, <3>2, <3>3, WriteEndOwn
  <2>8. CASE \/ Download \/ Install \/ Update \/ Reconcile
             \/ \E kind \in Services : FindsNone(kind)
    BY <2>8, DeployOwn
  <2>9. CASE ReportDeployed \/ ReportReconciled
    <3>1. job.stage \in Stages /\ job \in Job
      BY <2>9, AtStage DEF ReportDeployed, ReportReconciled, OwnInv, TypeInv
    <3>2. /\ WriteStatus(job.st) \/ UNCHANGED obj
          /\ Requeue \/ RequeueAfter \/ Done
          /\ UNCHANGED <<release, world>>
      BY <2>9 DEF ReportDeployed, ReportReconciled, TryWriteStatus
    <3>. QED
      BY <3>1, <3>2, WriteEndOwn, JobStatuses DEF OwnInv, TypeInv
  <2>10. CASE Uninstall \/ ReportUninstalled \/ RemoveFinalizer
    BY <2>10, UninstallOwn, ReportUninstalledOwn, RemoveFinalizerOwn
  <2>. QED
    BY <1>5, <2>1, <2>2, <2>3, <2>4, <2>5, <2>6, <2>7, <2>8, <2>9, <2>10 DEF Handle
<1>6. CASE UNCHANGED vars
  <2>1. Evolve /\ JobHolds' /\ \A i \in Inst : Owner(i)' => Owner(i)
    BY <1>6 DEF vars, Evolve, OwnInv, JobHolds, Owner, Exists, Installed
  <2>. QED
    BY <1>6, <2>1, EvolutionKeeps DEF vars, OwnInv, ClockInv
<1>. QED
  BY <1>1, <1>2, <1>3, <1>4, <1>5, <1>6 DEF Next

\* Every owner of a release is the oldest CR, in every reachable state.
THEOREM OwnershipIsKept == Spec => []OwnInv
<1>1. Init => OwnInv
  BY InitOwn
<1>2. OwnInv /\ TypeInv' /\ [Next]_vars => OwnInv'
  BY NextOwn
<1>. QED
  BY <1>1, <1>2, TypesAreKept, PTL DEF Spec

\* A Helm release never outlives its CR, whatever fails or crashes between
\* the steps of an installation and of a deletion (reconcile.go:164-173,
\* reconcile_delete.go:95-105).
THEOREM NoReleaseIsOrphaned == Spec => []NoOrphanRelease
<1>1. OwnInv => NoOrphanRelease
  BY DEF OwnInv, OwnersAreEligible, Eligible, Owner, NoOrphanRelease
<1>. QED
  BY <1>1, OwnershipIsKept, PTL

\* Only CRs created in the same second can have releases at once, however the
\* cached list lags (reconcile.go:254-274, reconcile_utils.go:48-75).
THEOREM ReleasesAreSole == Spec => []SoleReleaseUnlessTied
<1>1. ASSUME OwnInv PROVE SoleReleaseUnlessTied
  <2>1. ASSUME NEW i \in Inst, NEW j \in Inst, Installed(i), Installed(j)
        PROVE  obj[i].created = obj[j].created
    <3>1. Exists(i) /\ Exists(j) /\ Oldest(i) /\ Oldest(j)
      BY <1>1, <2>1 DEF OwnInv, OwnersAreEligible, Eligible, Owner
    <3>2. obj[i].created \in Nat /\ obj[j].created \in Nat
      BY <1>1, <3>1, Stamps DEF OwnInv, TypeInv
    <3>. QED
      BY <3>1, <3>2 DEF Oldest
  <2>. QED
    BY <2>1 DEF SoleReleaseUnlessTied
<1>. QED
  BY <1>1, OwnershipIsKept, PTL

\* The releases change in these actions only.
LEMMA OnlyHelmActs ==
    ASSUME [Next]_vars
    PROVE  \/ UNCHANGED release \/ Install \/ Update \/ Uninstall
           \/ InstallFails \/ UpdateFails \/ DeleteFails
<1>. USE DEF world
<1>1. CASE Environment \/ CacheCatchesUp \/ \E i \in Inst : Lookup(i) \/ TimerFires(i)
  BY <1>1 DEF Environment, Create, Edit, Delete, LetGo, Disturb, ToggleAuth, Publish,
     Tick, CacheCatchesUp, Lookup, TimerFires
<1>2. CASE Fail
  BY <1>2 DEF Fail, DownloadFails, SyncFails, ReconcileFails, CallFails, Crash,
     Restart, FailWith
<1>3. CASE Handle
  <2>1. CASE \/ AddFinalizer \/ RejectVersion \/ RejectRepo
             \/ IgnoreDuplicate \/ MarkDuplicate \/ PanicNotListed \/ RecordSpecHash
             \/ PanicNoAnnotations
    BY <2>1 DEF AddFinalizer, RejectVersion, RejectRepo, IgnoreDuplicate, MarkDuplicate,
       PanicNotListed, RecordSpecHash, PanicNoAnnotations, Restart, Reject
  <2>2. CASE \/ RejectParameters \/ RejectDowngrade
             \/ Skip \/ Download \/ Reconcile
             \/ \E kind \in Services :
                   FindsNone(kind) \/ CannotMigrate(kind) \/ PanicNoKind(kind)
    BY <2>2 DEF RejectParameters, RejectDowngrade, Skip, FindsNone, CannotMigrate,
       PanicNoKind, Restart, Download, Reconcile, Reject, FailWith
  <2>3. CASE \/ ReportDeployed \/ ReportReconciled \/ Terminated
             \/ ReportUninstalled \/ RemoveFinalizer
    BY <2>3 DEF ReportDeployed, ReportReconciled, Terminated, ReportUninstalled,
       RemoveFinalizer
  <2>. QED
    BY <1>3, <2>1, <2>2, <2>3 DEF Handle
<1>4. CASE UNCHANGED vars
  BY <1>4 DEF vars
<1>. QED
  BY <1>1, <1>2, <1>3, <1>4 DEF Next

\* Ambassador is uninstalled in a step that finds the CR marked for deletion.
LEMMA UninstalledHow ==
    ASSUME OwnInv, [Next]_vars, NEW i \in Inst, Installed(i), ~Installed(i)'
    PROVE  Exists(i) /\ obj[i].gone
<1>2. /\ Uninstall \/ DeleteFails
      /\ release' = [release EXCEPT ![job.inst] = NoRelease]
  <2>1. ~UNCHANGED release
    BY DEF Installed
  <2>2. ASSUME Install \/ Update \/ InstallFails \/ UpdateFails PROVE FALSE
    <3>1. /\ At("downloaded")
          /\ release' \in {release, [release EXCEPT ![job.inst] = Candidate]}
      BY <2>2 DEF Install, Update, Deploy, InstallFails, UpdateFails, HelmFails
    <3>2. Candidate # NoRelease
      BY <3>1, CandidateType, SentinelAssumption DEF OwnInv
    <3>. QED
      BY <3>1, <3>2 DEF Installed, OwnInv, TypeInv, TypeOK
  <2>3. Uninstall \/ DeleteFails
    BY <2>1, <2>2, OnlyHelmActs
  <2>. QED
    BY <2>1, <2>3 DEF Uninstall, DeleteFails, FailWith, HelmFails
<1>3. job.inst = i /\ job # Idle /\ job.seen.fin /\ job.seen.gone
  <2>1. job # Idle /\ job.seen.fin /\ job.seen.gone
    BY <1>2, AtStage
       DEF Uninstall, DeleteFails, Terminating, At, Stages, OwnInv, TypeInv
  <2>. QED
    BY <1>2, <2>1 DEF Installed, OwnInv, TypeInv, TypeOK
<1>. QED
  BY <1>3 DEF OwnInv, JobHolds

\* Ambassador is uninstalled only when its CR is marked for deletion, though
\* the worker decides on a copy that may be out of date
\* (reconcile.go:238-241, reconcile_delete.go:61).
THEOREM OnlyDeletionUninstalls == Spec => UninstallOnlyDeleted
<1>1. OwnInv /\ [Next]_vars
         => [\A i \in Inst : Installed(i) /\ ~Installed(i)' => Exists(i) /\ obj[i].gone]_vars
  BY UninstalledHow
<1>. QED
  BY <1>1, OwnershipIsKept, PTL DEF Spec, UninstallOnlyDeleted

-----------------------------------------------------------------------------
\* No request is lost.

\* Somebody will call Reconcile for i, or does.
Awaited(i) == i \in queue \cup delayed \/ (job # Idle /\ job.inst = i)

\* A call that has not the current object in hand will be repeated.
AskedAgain == job # Idle /\ ~job.fresh => job.inst \in queue

PendingInv == NeverForgotten /\ AskedAgain

\* A call ends after which its CR is awaited, or need not be.
LEMMA EndPending ==
    ASSUME PendingInv, job # Idle, job' = Idle,
           queue \subseteq queue', delayed \subseteq delayed',
           \A i \in Inst : i # job.inst => obj'[i] = obj[i],
           \/ job.inst \in queue' \cup delayed'
           \/ \A i \in Inst : i = job.inst => ~Exists(i)' \/ Retired(i)'
    PROVE  PendingInv'
<1>1. ASSUME NEW i \in Inst, Exists(i)', ~Retired(i)'
      PROVE  i \in queue' \cup delayed'
  <2>1. CASE i = job.inst
    BY <1>1, <2>1
  <2>2. CASE i # job.inst
    BY <1>1, <2>2 DEF PendingInv, NeverForgotten, Exists, Retired
  <2>. QED
    BY <2>1, <2>2
<1>. QED
  BY <1>1 DEF PendingInv, NeverForgotten, AskedAgain, Exists, Retired

\* A call that asks for another one may end.
LEMMA RequeuePending ==
    ASSUME PendingInv, job # Idle, Requeue \/ RequeueAfter,
           \A i \in Inst : i # job.inst => obj'[i] = obj[i]
    PROVE  PendingInv'
BY EndPending DEF Requeue, RequeueAfter

\* A call goes on.
LEMMA GoOnPending ==
    ASSUME PendingInv, job # Idle, job' # Idle, job'.inst = job.inst, job'.fresh = job.fresh,
           queue \subseteq queue', UNCHANGED delayed,
           \A i \in Inst : i # job.inst => obj'[i] = obj[i]
    PROVE  PendingInv'
BY DEF PendingInv, NeverForgotten, AskedAgain, Exists, Retired

\* A write of the status leaves the other CRs alone.
LEMMA WriteIsLocal ==
    ASSUME TypeInv, job \in Job, job # Idle, NEW st, WriteStatus(st) \/ UNCHANGED obj
    PROVE  \A i \in Inst : i # job.inst => obj'[i] = obj[i]
BY JobStatuses DEF WriteStatus, TypeInv, TypeOK

\* A call that ends with an error, with or without a status that says so.
LEMMA GiveUpPending ==
    ASSUME TypeInv, PendingInv, job.stage \in Stages, NEW st, NEW outcome,
           Reject(st) \/ FailWith(st) \/ HelmFails(st, outcome)
    PROVE  PendingInv'
<1>1. job \in Job /\ job # Idle
  BY AtStage DEF TypeInv
<1>2. Requeue /\ (WriteStatus(st) \/ UNCHANGED obj)
  BY DEF Reject, TryWriteStatus, FailWith, HelmFails
<1>. QED
  BY <1>1, <1>2, WriteIsLocal, RequeuePending

\* The mark of a duplicate is found.
LEMMA MarkIsFound ==
    ASSUME NEW st \in Status, now \in Nat
    PROVE  IsDuplicate(With(st, "Irreconcilable", "False", "DuplicateError"))
<1>. DEFINE cs == SetCondition(st.conds, "Irreconcilable", "False", "DuplicateError", now)
<1>1. st.conds \in Seq(Condition)
  BY DEF Status
<1>2. cs \in Seq(Condition)
  BY <1>1, SetConditionType DEF ConditionTypes, ConditionStatuses, ConditionReasons
<1>3. HasReason(cs, "DuplicateError")
  BY <1>1, SetConditionReasons
<1>4. With(st, "Irreconcilable", "False", "DuplicateError").conds = cs
  BY DEF With, Status
<1>. HIDE DEF cs
<1>5. "DuplicateError" \in ConditionReasons \ {""}
  BY DEF ConditionReasons
<1>. QED
  BY <1>2, <1>3, <1>4, <1>5, ReasonIsFound DEF IsDuplicate

LEMMA MarkDuplicatePending ==
    ASSUME TypeInv, PendingInv, MarkDuplicate
    PROVE  PendingInv'
<1>. DEFINE w == With(job.st, "Irreconcilable", "False", "DuplicateError")
<1>1. job \in Job /\ job # Idle
  BY AtStage DEF MarkDuplicate, Alive, At, Stages, TypeInv
<1>2. WriteStatus(w) /\ IsDuplicate(w) /\ (IF job.fresh THEN Done ELSE Requeue)
  BY <1>1, MarkIsFound, JobStatuses DEF MarkDuplicate, TypeInv
<1>. HIDE DEF w
<1>3. \A i \in Inst : i # job.inst => obj'[i] = obj[i]
  BY <1>1, <1>2, WriteIsLocal
<1>4. CASE job.fresh
  <2>1. /\ obj[job.inst] = job.seen /\ job.seen \in Object /\ ~job.seen.gone
        /\ job.inst \in Inst
    BY <1>1, <1>4, JobStatuses DEF MarkDuplicate, Alive, TypeInv, JobCurrent
  <2>2. obj'[job.inst] = [job.seen EXCEPT !.st = w]
    BY <1>2, <1>4, <2>1 DEF WriteStatus, TypeInv, TypeOK
  <2>3. \A i \in Inst : i = job.inst => Retired(i)'
    BY <1>2, <2>1, <2>2 DEF Retired, IsDuplicate, Object
  <2>. QED
    BY <1>1, <1>2, <1>3, <1>4, <2>3, EndPending DEF Done
<1>5. CASE ~job.fresh
  BY <1>1, <1>2, <1>3, <1>5, RequeuePending
<1>. QED
  BY <1>4, <1>5

\* A duplicate is left alone, and a CR that only others hold.
LEMMA LeavePending ==
    ASSUME TypeInv, PendingInv, IgnoreDuplicate \/ Terminated
    PROVE  PendingInv'
<1>1. job \in Job /\ job # Idle /\ job.inst \in Inst
  BY AtStage, JobStatuses
     DEF IgnoreDuplicate, Alive, Terminated, Terminating, At, Stages, TypeInv
<1>2. UNCHANGED obj /\ Done
  BY DEF IgnoreDuplicate, Terminated
<1>3. CASE job.fresh
  <2>1. obj'[job.inst] = job.seen
    BY <1>1, <1>2, <1>3 DEF TypeInv, JobCurrent
  <2>2. \A i \in Inst : i = job.inst => Retired(i)'
    BY <2>1 DEF IgnoreDuplicate, Alive, Terminated, Terminating, Retired
  <2>. QED
    BY <1>1, <1>2, <2>2, EndPending DEF Done
<1>4. CASE ~job.fresh
  BY <1>1, <1>2, <1>4, EndPending DEF Done, PendingInv, AskedAgain
<1>. QED
  BY <1>3, <1>4

\* The calls that end with the write of an object other than the status.
LEMMA ObjectWritePending ==
    ASSUME TypeInv, PendingInv, AddFinalizer \/ RecordSpecHash \/ RemoveFinalizer
    PROVE  PendingInv'
<1>1. job \in Job /\ job # Idle /\ job.inst \in Inst
  BY AtStage, JobStatuses
     DEF AddFinalizer, RecordSpecHash, Alive, RemoveFinalizer, At, Stages, TypeInv
<1>2. \A i \in Inst : i # job.inst => obj'[i] = obj[i]
  BY <1>1 DEF AddFinalizer, RecordSpecHash, RemoveFinalizer, TypeInv, TypeOK
<1>3. CASE AddFinalizer
  BY <1>1, <1>2, <1>3, RequeuePending DEF AddFinalizer
<1>4. CASE RecordSpecHash /\ job.fresh
  <2>. DEFINE o == [job.seen EXCEPT !.hash = job.seen.spec]
  <2>1. job' = [job EXCEPT !.stage = "recorded", !.seen = o,
                           !.st      = Initialized(job.st),
                           !.changed = HasChangedSpec(job.seen),
                           !.secret  = LastType(job.seen.st) # "Deployed",
                           !.time    = now]
    BY <1>4, Zenon DEF RecordSpecHash, GoTo
  <2>. HIDE DEF o
  <2>2. job'.inst = job.inst /\ job'.fresh = job.fresh /\ job'.stage = "recorded"
    BY <1>1, <2>1 DEF Job
  <2>3. queue \subseteq queue' /\ UNCHANGED delayed
    BY <1>4 DEF RecordSpecHash, GoTo
  <2>. QED
    BY <1>1, <1>2, <2>2, <2>3, GoOnPending DEF Idle
<1>5. CASE RecordSpecHash /\ ~job.fresh
  BY <1>1, <1>2, <1>5, RequeuePending DEF RecordSpecHash
<1>6. CASE RemoveFinalizer /\ job.fresh /\ ~job.seen.held
  <2>1. \A i \in Inst : i = job.inst => ~Exists(i)'
    BY <1>1, <1>6 DEF RemoveFinalizer, Exists, TypeInv, TypeOK
  <2>. QED
    BY <1>1, <1>2, <1>6, <2>1, EndPending DEF RemoveFinalizer, Done
<1>7. CASE RemoveFinalizer /\ ~(job.fresh /\ ~job.seen.held)
  BY <1>1, <1>2, <1>7, RequeuePending DEF RemoveFinalizer
<1>. QED
  BY <1>3, <1>4, <1>5, <1>6, <1>7

\* The steps of a call that is not over.
LEMMA ProceedPending ==
    ASSUME TypeInv, PendingInv,
           \/ Download \/ Install \/ Update \/ Reconcile \/ Uninstall
           \/ (ReportUninstalled /\ job.fresh)
           \/ \E kind \in Services : FindsNone(kind)
    PROVE  PendingInv'
<1>1. job \in Job /\ job # Idle /\ job.inst \in Inst
  BY AtStage, JobStatuses
     DEF FindsNone, Looking, Download, MayDownload, Accepted, Install, Update, Reconcile,
         Uninstall, Terminating, ReportUninstalled, At, Stages, TypeInv
<1>2. /\ \E s \in Stages : \E x : \/ job' = [job EXCEPT !.stage = s]
                                \/ job' = [job EXCEPT !.stage = s, !.chart = x]
                                \/ job' = [job EXCEPT !.stage = s, !.st = x]
                                \/ job' = [job EXCEPT !.stage = s, !.seen.st = x]
      /\ queue \subseteq queue' /\ UNCHANGED delayed
      /\ UNCHANGED obj \/ WriteStatus(job.st)
  <2>. USE DEF GoTo, Stages
  <2>1. CASE \E kind \in Services : FindsNone(kind)
    BY <2>1, Zenon DEF FindsNone
  <2>2. CASE Download
    BY <2>2, Zenon DEF Download
  <2>3. CASE Install \/ Update
    BY <2>3, Zenon DEF Install, Update, Deploy
  <2>4. CASE Reconcile
    BY <2>4, Zenon DEF Reconcile
  <2>5. CASE Uninstall
    BY <2>5, Zenon DEF Uninstall
  <2>6. CASE ReportUninstalled /\ job.fresh
    BY <2>6, Zenon DEF ReportUninstalled
  <2>. QED
    BY <2>1, <2>2, <2>3, <2>4, <2>5, <2>6
<1>3. job'.inst = job.inst /\ job'.fresh = job.fresh /\ job' # Idle
  BY <1>1, <1>2 DEF Job, Idle, Stages
<1>4. \A i \in Inst : i # job.inst => obj'[i] = obj[i]
  BY <1>1, <1>2, WriteIsLocal
<1>. QED
  BY <1>1, <1>2, <1>3, <1>4, GoOnPending

\* Somebody else's write of a CR is an event of it.
LEMMA DisturbPending ==
    ASSUME TypeInv, PendingInv, NEW i \in Inst, Disturb(i),
           \A k \in Inst : k # i => obj'[k] = obj[k]
    PROVE  PendingInv'
<1>1. \/ job # Idle /\ job.inst = i /\ job' = [job EXCEPT !.fresh = FALSE]
      \/ job' = job
  BY DEF Disturb
<1>2. /\ job' = Idle <=> job = Idle
      /\ job # Idle => job'.inst = job.inst
      /\ job # Idle /\ job.inst # i => job'.fresh = job.fresh
  BY <1>1, InCall DEF Job, Idle, TypeInv
<1>3. queue' = queue \cup {i} /\ UNCHANGED delayed
  BY DEF Disturb
<1>4. NeverForgotten'
  <2>1. ASSUME NEW k \in Inst, Exists(k)', ~Retired(k)', k # i
        PROVE  k \in queue \cup delayed \/ (job # Idle /\ job.inst = k)
    BY <2>1 DEF PendingInv, NeverForgotten, Exists, Retired
  <2>. QED
    BY <1>2, <1>3, <2>1 DEF NeverForgotten, Exists, Retired
<1>5. AskedAgain'
  BY <1>2, <1>3 DEF PendingInv, AskedAgain
<1>. QED
  BY <1>4, <1>5 DEF PendingInv

\* The process starts again, from the list of all CRs.
LEMMA RestartPending ==
    ASSUME Restart
    PROVE  PendingInv'
BY DEF Restart, PendingInv, NeverForgotten, AskedAgain, Exists

\* The queue moves on.
LEMMA QueuePending ==
    ASSUME TypeInv, PendingInv, NEW i \in Inst, Lookup(i) \/ TimerFires(i)
    PROVE  PendingInv'
<1>1. CASE TimerFires(i)
  BY <1>1 DEF TimerFires, PendingInv, NeverForgotten, AskedAgain, Exists, Retired
<1>2. CASE Lookup(i) /\ obj[i] = NoObj
  BY <1>2 DEF Lookup, PendingInv, NeverForgotten, AskedAgain, Exists, Retired
<1>3. CASE Lookup(i) /\ obj[i] # NoObj
  <2>1. job'.inst = i /\ job'.fresh /\ job'.stage = "loaded"
    BY <1>3 DEF Lookup
  <2>. QED
    BY <1>3, <2>1 DEF Lookup, PendingInv, NeverForgotten, AskedAgain, Exists, Retired, Idle
<1>. QED
  BY <1>1, <1>2, <1>3

LEMMA NextPending ==
    ASSUME TypeInv, PendingInv, [Next]_vars
    PROVE  PendingInv'
<1>. USE DEF At, Stages
<1>1. CASE \E i \in Inst : Lookup(i) \/ TimerFires(i)
  BY <1>1, QueuePending
<1>2. CASE CacheCatchesUp \/ ToggleAuth \/ Publish \/ Tick \/ UNCHANGED vars
  BY <1>2 DEF CacheCatchesUp, ToggleAuth, Publish, Tick, vars, PendingInv, NeverForgotten,
     AskedAgain, Exists, Retired
<1>3. ASSUME NEW i \in Inst, Create(i) \/ Edit(i) \/ Delete(i) \/ LetGo(i)
      PROVE  PendingInv'
  <2>1. \A k \in Inst : k # i => obj'[k] = obj[k]
    BY <1>3 DEF Create, Edit, Delete, LetGo, TypeInv, TypeOK
  <2>. QED
    BY <1>3, <2>1, DisturbPending DEF Create, Edit, Delete, LetGo
<1>4. CASE Fail
  <2>1. CASE Crash
    BY <2>1, RestartPending DEF Crash
  <2>2. CASE CallFails
    BY <2>2, RequeuePending DEF CallFails
  <2>3. CASE DownloadFails \/ SyncFails \/ ReconcileFails
    BY <2>3, GiveUpPending DEF DownloadFails, MayDownload, Accepted, SyncFails, ReconcileFails
  <2>4. CASE InstallFails \/ UpdateFails \/ DeleteFails
    BY <2>4, GiveUpPending DEF InstallFails, UpdateFails, DeleteFails, Terminating
  <2>. QED
    BY <1>4, <2>1, <2>2, <2>3, <2>4 DEF Fail
<1>5. CASE Handle
  <2>1. CASE AddFinalizer \/ RecordSpecHash \/ RemoveFinalizer
    BY <2>1, ObjectWritePending
  <2>2. CASE RejectVersion \/ RejectParameters
             \/ \E kind \in Services : CannotMigrate(kind)
    BY <2>2, GiveUpPending
       DEF RejectVersion, RejectParameters, CannotMigrate, Looking, Accepted
  <2>3. CASE PanicNotListed \/ PanicNoAnnotations \/ \E kind \in Services : PanicNoKind(kind)
    BY <2>3, RestartPending DEF PanicNotListed, PanicNoAnnotations, PanicNoKind
  <2>4. CASE RejectRepo \/ RejectDowngrade \/ Skip
    BY <2>4, AtStage, RequeuePending DEF RejectRepo, RejectDowngrade, Skip, Accepted, TypeInv
  <2>5. CASE IgnoreDuplicate \/ Terminated \/ MarkDuplicate
    BY <2>5, LeavePending, MarkDuplicatePending
  <2>6. CASE \/ Download \/ Install \/ Update \/ Reconcile \/ Uninstall
             \/ \E kind \in Services : FindsNone(kind)
    BY <2>6, ProceedPending
  <2>7. CASE ReportDeployed \/ ReportReconciled \/ ReportUninstalled
    <3>1. job \in Job /\ job # Idle
      BY <2>7, AtStage DEF ReportDeployed, ReportReconciled, ReportUninstalled, TypeInv
    <3>2. \A i \in Inst : i # job.inst => obj'[i] = obj[i]
      BY <2>7, <3>1, WriteIsLocal
         DEF ReportDeployed, ReportReconciled, ReportUninstalled, TryWriteStatus
    <3>3. \/ Requeue \/ RequeueAfter \/ (ReportUninstalled /\ job.fresh)
      BY <2>7 DEF ReportDeployed, ReportReconciled, ReportUninstalled
    <3>. QED
      BY <3>1, <3>2, <3>3, RequeuePending, ProceedPending
  <2>. QED
    BY <1>5, <2>1, <2>2, <2>3, <2>4, <2>5, <2>6, <2>7 DEF Handle
<1>. QED
  BY <1>1, <1>2, <1>3, <1>4, <1>5 DEF Next, Environment

\* The requests that the operator relies on are never lost: those for the CRs,
\* and the one that repeats a call whose copy is out of date (every write of an
\* object by somebody else puts it in the queue, controller.go).
THEOREM AlwaysPending == Spec => []PendingInv
<1>1. Init => PendingInv
  BY DEF Init, PendingInv, NeverForgotten, AskedAgain, Exists
<1>2. TypeInv /\ PendingInv /\ [Next]_vars => PendingInv'
  BY NextPending
<1>. QED
  BY <1>1, <1>2, TypesAreKept, PTL DEF Spec

\* Every CR that is not a duplicate, nor waits for the finalizers of others
\* only, is looked at again, whatever fails, and whoever writes it between the
\* steps of a call (every return of Reconcile and deleteRelease).
THEOREM NothingIsForgotten == Spec => []NeverForgotten
<1>1. PendingInv => NeverForgotten
  BY DEF PendingInv
<1>. QED
  BY <1>1, AlwaysPending, PTL

-----------------------------------------------------------------------------
\* What a status says.

\* It names a release, or says Deployed.
Announces(st) == st.rel # NoRelease \/ HasCondition(st.conds, "Deployed", "True")

\* The mark of a duplicate is a condition of one type.
MarksTyped(st) ==
    \A k \in DOMAIN st.conds :
        st.conds[k].reason = "DuplicateError" => st.conds[k].type = "Irreconcilable"

\* A status new says no more than the status old.
SaysNoMore(new, old) ==
    /\ IsDuplicate(new) => IsDuplicate(old)
    /\ Announces(new) => Announces(old)
    /\ MarksTyped(old) => MarksTyped(new)

\* A duplicate is a status with the mark.
LEMMA DuplicateIsMarked ==
    ASSUME NEW st \in Status
    PROVE  IsDuplicate(st) <=> HasReason(st.conds, "DuplicateError")
<1>1. st.conds \in Seq(Condition) /\ "DuplicateError" \in ConditionReasons \ {""}
  BY DEF Status, ConditionReasons
<1>. QED
  BY <1>1, ReasonIsFound DEF IsDuplicate

\* Setting a condition that is no mark and no announcement says no more.
LEMMA WithSaysNoMore ==
    ASSUME NEW st \in Status, now \in Nat, NEW ty \in ConditionTypes,
           NEW status \in ConditionStatuses, NEW reason \in ConditionReasons,
           reason # "DuplicateError"
    PROVE  /\ MarksTyped(st) => MarksTyped(With(st, ty, status, reason))
           /\ IsDuplicate(With(st, ty, status, reason)) => IsDuplicate(st)
           /\ ~(ty = "Deployed" /\ status = "True")
                 => SaysNoMore(With(st, ty, status, reason), st)
<1>. DEFINE w == With(st, ty, status, reason)
<1>1. w \in Status
  BY WithType
<1>2. st.conds \in Seq(Condition)
  BY DEF Status
<1>3. /\ w.conds = SetCondition(st.conds, ty, status, reason, now)
      /\ w.rel = st.rel
  BY DEF With, Status
<1>. HIDE DEF w
<1>4. \A j \in DOMAIN w.conds :
          \/ \E k \in DOMAIN st.conds : w.conds[j] = st.conds[k]
          \/ /\ w.conds[j].type = ty /\ w.conds[j].status = status
             /\ w.conds[j].reason = reason
  BY <1>2, <1>3, SetConditionEntries
<1>5. IsDuplicate(w) => IsDuplicate(st)
  BY <1>1, <1>4, DuplicateIsMarked DEF HasReason
<1>6. MarksTyped(st) => MarksTyped(w)
  BY <1>4 DEF MarksTyped
<1>7. ~(ty = "Deployed" /\ status = "True") => (Announces(w) => Announces(st))
  BY <1>3, <1>4 DEF Announces, HasCondition
<1>. QED
  BY <1>5, <1>6, <1>7 DEF SaysNoMore, w

\* Nor does removing one.
LEMMA WithoutSaysNoMore ==
    ASSUME NEW st \in Status, NEW ty
    PROVE  SaysNoMore(Without(st, ty), st)
<1>. DEFINE w == Without(st, ty)
<1>1. w \in Status /\ st.conds \in Seq(Condition)
  BY WithoutType DEF Status
<1>2. w.conds = RemoveCondition(st.conds, ty) /\ w.rel = st.rel
  BY DEF Without, Status
<1>. HIDE DEF w
<1>3. \A j \in DOMAIN w.conds : \E k \in DOMAIN st.conds : w.conds[j] = st.conds[k]
  BY <1>1, <1>2, RemoveConditionEntries
<1>4. IsDuplicate(w) => IsDuplicate(st)
  BY <1>1, <1>3, DuplicateIsMarked DEF HasReason
<1>5. MarksTyped(st) => MarksTyped(w)
  BY <1>3 DEF MarksTyped
<1>6. Announces(w) => Announces(st)
  BY <1>2, <1>3 DEF Announces, HasCondition
<1>. QED
  BY <1>4, <1>5, <1>6 DEF SaysNoMore, w

\* What a status says does not depend on the time of the check.
LEMMA SyncedSaysNoMore ==
    ASSUME TypeOK, job \in Job
    PROVE  SaysNoMore(Synced, job.seen.st) /\ SaysNoMore(Unfailed, job.seen.st)
<1>. DEFINE w == Without(job.seen.st, "Irreconcilable")
<1>1. w \in Status /\ SaysNoMore(w, job.seen.st)
  BY JobStatuses, WithoutType, WithoutSaysNoMore
<1>2. Synced.conds = w.conds /\ Synced.rel = w.rel
  BY <1>1 DEF Synced, Status
<1>. HIDE DEF w
<1>3. SaysNoMore(Synced, job.seen.st)
  BY <1>1, <1>2 DEF SaysNoMore, IsDuplicate, Announces, MarksTyped
<1>4. SaysNoMore(Unfailed, Synced)
  BY SyncedType, WithoutSaysNoMore DEF Unfailed
<1>. QED
  BY <1>3, <1>4 DEF SaysNoMore

-----------------------------------------------------------------------------
\* What is stored and what is in hand.

\* The status of an owner is not that of a duplicate, and what it announces is
\* installed until the deletion.
StoredSays ==
    \A i \in Inst : Exists(i) =>
        /\ MarksTyped(obj[i].st)
        /\ Owner(i) => ~IsDuplicate(obj[i].st)
        /\ Announces(obj[i].st) => obj[i].gone \/ Installed(i)

\* The same of the statuses of the call.
JobSays ==
    job # Idle =>
        /\ MarksTyped(job.st) /\ MarksTyped(job.seen.st)
        /\ job.stage = "loaded" => job.st = job.seen.st
        /\ job.stage \in Deploying =>
              ~job.seen.gone /\ ~IsDuplicate(job.st) /\ ~IsDuplicate(job.seen.st)
        /\ Announces(job.st) \/ Announces(job.seen.st) =>
              job.seen.gone \/ Installed(job.inst)

StatusInv == StoredSays /\ JobSays

\* A status that the call may write.
Sayable(st) ==
    /\ MarksTyped(st)
    /\ job.fresh /\ Owner(job.inst) => ~IsDuplicate(st)
    /\ Announces(st) => job.seen.gone \/ Installed(job.inst)

\* It may write those it has in hand.
LEMMA InHandSayable ==
    ASSUME OwnInv, StatusInv, job \in Job, job # Idle
    PROVE  Sayable(job.st) /\ Sayable(job.seen.st)
<1>1. job.stage \in {"loaded"} \cup Deploying \cup Undeploying /\ job.inst \in Inst
  BY DEF Job, Stages, Deploying, Undeploying
<1>2. ASSUME job.fresh, Owner(job.inst)
      PROVE  ~IsDuplicate(job.st) /\ ~IsDuplicate(job.seen.st)
  <2>1. CASE job.stage = "loaded"
    <3>1. obj[job.inst] = job.seen /\ Exists(job.inst)
      BY <1>1, <1>2 DEF OwnInv, TypeInv, JobCurrent, OwnersAreEligible, Eligible
    <3>. QED
      BY <1>1, <1>2, <2>1, <3>1 DEF StatusInv, StoredSays, JobSays
  <2>2. CASE job.stage \in Deploying
    BY <2>2 DEF StatusInv, JobSays
  <2>3. CASE job.stage \in Undeploying
    BY <1>2, <2>3 DEF OwnInv, JobHolds, Owner, Deploying, Undeploying
  <2>. QED
    BY <1>1, <2>1, <2>2, <2>3
<1>. QED
  BY <1>2 DEF Sayable, StatusInv, JobSays

LEMMA SaysNoMoreSayable ==
    ASSUME NEW old, NEW new, Sayable(old), SaysNoMore(new, old)
    PROVE  Sayable(new)
BY DEF Sayable, SaysNoMore

\* A call ends, with or without a write of a status; what is installed stays,
\* or its CR is being deleted.
LEMMA EndSays ==
    ASSUME OwnInv, StatusInv, job \in Job, job # Idle, job' = Idle,
           NEW st \in Status, Sayable(st), WriteStatus(st) \/ UNCHANGED obj,
           \A i \in Inst : Installed(i)' => Owner(i),
           \A i \in Inst : Installed(i) => Installed(i)' \/ obj[i].gone
    PROVE  StatusInv'
<1>1. job.inst \in Inst
  BY DEF Job
<1>2. ASSUME NEW i \in Inst, Exists(i)'
      PROVE  /\ Exists(i) /\ obj'[i].gone = obj[i].gone
             /\ \/ obj'[i].st = obj[i].st
                \/ i = job.inst /\ job.fresh /\ obj'[i].st = st /\ obj[i] = job.seen
  <2>1. CASE WriteStatus(st) /\ job.fresh /\ i = job.inst
    <3>1. obj[i] = job.seen /\ obj[i] \in Object
      BY <2>1, JobStatuses DEF OwnInv, TypeInv, JobCurrent
    <3>2. obj'[i] = [obj[i] EXCEPT !.st = st]
      BY <2>1, <3>1 DEF WriteStatus, OwnInv, TypeInv, TypeOK
    <3>3. obj[i] # NoObj
      BY <3>1, SentinelAssumption
    <3>. QED
      BY <2>1, <3>1, <3>2, <3>3 DEF Object, Exists
  <2>2. CASE ~(WriteStatus(st) /\ job.fresh /\ i = job.inst)
    <3>1. obj'[i] = obj[i]
      BY <1>1, <2>2 DEF WriteStatus, OwnInv, TypeInv, TypeOK
    <3>. QED
      BY <1>2, <3>1 DEF Exists
  <2>. QED
    BY <2>1, <2>2
<1>3. ASSUME NEW i \in Inst, Exists(i)'
      PROVE  /\ MarksTyped(obj'[i].st)
             /\ Installed(i)' => ~IsDuplicate(obj'[i].st)
             /\ Announces(obj'[i].st) => obj'[i].gone \/ Installed(i)'
  BY <1>2, <1>3 DEF StatusInv, StoredSays, Sayable
<1>4. StoredSays'
  BY <1>3 DEF StoredSays, Owner, Exists, MarksTyped, IsDuplicate, Announces, Installed
<1>5. JobSays'
  BY DEF JobSays
<1>. QED
  BY <1>4, <1>5 DEF StatusInv

\* A call goes on, and the objects are what they were.
LEMMA GoOnSays ==
    ASSUME OwnInv, StatusInv, job \in Job, job # Idle, job' # Idle, job'.inst = job.inst,
           job'.seen = job.seen, job'.stage # "loaded", UNCHANGED obj,
           MarksTyped(job'.st),
           job'.stage \in Deploying =>
              job.stage \in Deploying /\ ~IsDuplicate(job'.st),
           Announces(job'.st) => job.seen.gone \/ Installed(job.inst)',
           \A i \in Inst : Installed(i)' => Owner(i),
           \A i \in Inst : Installed(i) => Installed(i)' \/ obj[i].gone,
           Announces(job.seen.st) => job.seen.gone \/ Installed(job.inst)'
    PROVE  StatusInv'
<1>1. \A i \in Inst : Owner(i)' => Owner(i)
  BY DEF Owner, Installed
<1>2. StoredSays'
  BY <1>1 DEF StatusInv, StoredSays, Exists, MarksTyped, IsDuplicate, Announces
<1>3. JobSays'
  BY DEF StatusInv, JobSays, MarksTyped, IsDuplicate, Announces
<1>. QED
  BY <1>2, <1>3 DEF StatusInv

\* The CRs keep their statuses, and at most the call ends.
LEMMA RestSays ==
    ASSUME OwnInv, StatusInv, UNCHANGED release,
           \/ job' \in {job, Idle}
           \/ job # Idle /\ job' = [job EXCEPT !.fresh = FALSE],
           \A i \in Inst : Exists(i)' =>
               Exists(i) /\ obj'[i].st = obj[i].st /\ (obj[i].gone => obj'[i].gone)
    PROVE  StatusInv'
<1>1. \/ job' = Idle
      \/ /\ job # Idle /\ job'.stage = job.stage /\ job'.inst = job.inst
         /\ job'.st = job.st /\ job'.seen = job.seen
  BY InCall DEF OwnInv, TypeInv, Job
<1>2. \A i \in Inst : Owner(i)' => Owner(i)
  BY <1>1 DEF Owner, Installed
<1>3. StoredSays'
  BY <1>2 DEF StatusInv, StoredSays, MarksTyped, IsDuplicate, Announces, Installed, Exists
<1>4. JobSays'
  BY <1>1 DEF StatusInv, JobSays, MarksTyped, IsDuplicate, Announces, Installed
<1>. QED
  BY <1>3, <1>4 DEF StatusInv

\* What a failure adds to a status may be written.
LEMMA FailureSayable ==
    ASSUME OwnInv, StatusInv, job \in Job, job # Idle,
           NEW st \in {job.st, job.seen.st, Synced, Unfailed},
           NEW ty \in {"Failed", "Irreconcilable"},
           NEW reason \in ConditionReasons \ {"DuplicateError"}
    PROVE  /\ With(st, ty, "True", reason) \in Status
           /\ Sayable(With(st, ty, "True", reason))
<1>1. TypeOK
  BY DEF OwnInv, TypeInv
<1>2. st \in Status /\ now \in Nat
  BY <1>1, JobStatuses, SyncedType
<1>3. Sayable(st)
  BY <1>1, InHandSayable, SyncedSaysNoMore, SaysNoMoreSayable
<1>4. "True" \in ConditionStatuses /\ ty \in ConditionTypes /\ ty # "Deployed"
  BY DEF ConditionStatuses, ConditionTypes
<1>5. SaysNoMore(With(st, ty, "True", reason), st)
  BY <1>2, <1>4, WithSaysNoMore
<1>. QED
  BY <1>2, <1>3, <1>4, <1>5, WithType, SaysNoMoreSayable

LEMMA GiveUpSays ==
    ASSUME OwnInv, StatusInv, job.stage \in Stages,
           NEW st \in {job.st, job.seen.st, Synced, Unfailed},
           NEW ty \in {"Failed", "Irreconcilable"},
           NEW reason \in ConditionReasons \ {"DuplicateError"},
           \/ Reject(With(st, ty, "True", reason))
           \/ FailWith(With(st, ty, "True", reason))
    PROVE  StatusInv'
<1>. DEFINE w == With(st, ty, "True", reason)
<1>1. job \in Job /\ job # Idle
  BY AtStage DEF OwnInv, TypeInv
<1>2. w \in Status /\ Sayable(w)
  BY <1>1, FailureSayable
<1>3. (WriteStatus(w) \/ UNCHANGED obj) /\ job' = Idle /\ UNCHANGED release
  BY DEF Reject, FailWith, TryWriteStatus, Requeue
<1>. HIDE DEF w
<1>. QED
  BY <1>1, <1>2, <1>3, EndSays DEF Installed, Owner

\* A failed Helm operation that had an effect installs what may be installed,
\* or uninstalls what is being deleted.
LEMMA HelmFailsSays ==
    ASSUME OwnInv, StatusInv, job.stage \in Stages, NEW st \in {job.st, Synced},
           NEW reason \in ConditionReasons \ {"DuplicateError"}, NEW outcome,
           HelmFails(With(st, "Failed", "True", reason), outcome),
           \/ job.stage \in Deploying /\ outcome # NoRelease
           \/ outcome = NoRelease /\ job.seen.fin /\ job.seen.gone
    PROVE  StatusInv'
<1>. DEFINE w == With(st, "Failed", "True", reason)
<1>1. job \in Job /\ job # Idle /\ job.inst \in Inst
  BY AtStage, JobStatuses DEF OwnInv, TypeInv
<1>2. w \in Status /\ Sayable(w)
  BY <1>1, FailureSayable
<1>3. /\ WriteStatus(w) \/ UNCHANGED obj
      /\ job' = Idle
      /\ release' \in {release, [release EXCEPT ![job.inst] = outcome]}
  BY DEF HelmFails, Requeue
<1>. HIDE DEF w
<1>4. \A i \in Inst : Installed(i)' => Owner(i)
  BY <1>1, <1>3 DEF Owner, Installed, OwnInv, TypeInv, TypeOK
<1>5. \A i \in Inst : Installed(i) => Installed(i)' \/ obj[i].gone
  BY <1>1, <1>3 DEF Installed, OwnInv, JobHolds, TypeInv, TypeOK
<1>. QED
  BY <1>1, <1>2, <1>3, <1>4, <1>5, EndSays

\* The mark does not fall on an owner: it is the first in the cached list, and
\* the CR in hand is not.
LEMMA MarkDuplicateSays ==
    ASSUME OwnInv, StatusInv, MarkDuplicate
    PROVE  StatusInv'
<1>. DEFINE w == With(job.st, "Irreconcilable", "False", "DuplicateError")
<1>1. job \in Job /\ job # Idle
  BY AtStage DEF MarkDuplicate, Alive, At, Stages, OwnInv, TypeInv
<1>2. job.st \in Status /\ now \in Nat /\ job.st.conds \in Seq(Condition)
  BY <1>1, JobStatuses DEF OwnInv, TypeInv, Status
<1>3. /\ w.conds = SetCondition(job.st.conds, "Irreconcilable", "False", "DuplicateError", now)
      /\ w.rel = job.st.rel
  BY <1>2 DEF With, Status
<1>4. w \in Status
  BY <1>2, WithType DEF ConditionTypes, ConditionStatuses, ConditionReasons
<1>5. /\ WriteStatus(w) /\ job' = Idle /\ UNCHANGED release
      /\ ~IsFirst(job.seen)
  BY DEF MarkDuplicate, Done, Requeue
<1>. HIDE DEF w
<1>6. \A j \in DOMAIN w.conds :
          \/ \E k \in DOMAIN job.st.conds : w.conds[j] = job.st.conds[k]
          \/ w.conds[j].type = "Irreconcilable"
  BY <1>2, <1>3, SetConditionEntries
     DEF ConditionTypes, ConditionStatuses, ConditionReasons
<1>7. Sayable(job.st)
  BY <1>1, InHandSayable
<1>8. ~(job.fresh /\ Owner(job.inst))
  BY <1>1, <1>5, JobStatuses
     DEF OwnInv, OwnersAreEligible, Eligible, TypeInv, JobCurrent
<1>9. Sayable(w)
  BY <1>3, <1>6, <1>7, <1>8 DEF Sayable, MarksTyped, Announces, HasCondition
<1>. QED
  BY <1>1, <1>4, <1>5, <1>9, EndSays DEF Installed, Owner

\* A call starts with what is stored.
LEMMA LookupSays ==
    ASSUME OwnInv, StatusInv, NEW i \in Inst, Lookup(i)
    PROVE  StatusInv'
<1>1. CASE obj[i] = NoObj
  BY <1>1, RestSays DEF Lookup, Exists
<1>2. CASE obj[i] # NoObj
  <2>1. /\ job'.stage = "loaded" /\ job'.inst = i /\ job'.seen = obj[i]
        /\ job'.st = obj[i].st /\ UNCHANGED <<obj, release>>
    BY <1>2 DEF Lookup
  <2>2. \A k \in Inst : Owner(k)' => Owner(k)
    BY <2>1 DEF Owner, Installed, Deploying
  <2>3. StoredSays'
    BY <2>1, <2>2 DEF StatusInv, StoredSays, MarksTyped, IsDuplicate, Announces, Installed,
       Exists
  <2>4. JobSays'
    <3>1. /\ MarksTyped(obj[i].st)
          /\ Announces(obj[i].st) => obj[i].gone \/ Installed(i)
      BY <1>2 DEF StatusInv, StoredSays, Exists
    <3>2. job'.stage \notin Deploying
      BY <2>1 DEF Deploying
    <3>3. /\ job'.st = obj[i].st /\ job'.seen.st = obj[i].st
          /\ job'.seen.gone = obj[i].gone
          /\ Installed(job.inst)' <=> Installed(i)
      BY <2>1 DEF Installed
    <3>4. MarksTyped(job.st)' /\ MarksTyped(job.seen.st)'
      BY <3>1, <3>3 DEF MarksTyped
    <3>5. Announces(job.st)' \/ Announces(job.seen.st)' =>
             job'.seen.gone \/ Installed(job.inst)'
      BY <3>1, <3>3 DEF Announces
    <3>. QED
      BY <3>2, <3>3, <3>4, <3>5 DEF JobSays
  <2>. QED
    BY <2>3, <2>4 DEF StatusInv
<1>. QED
  BY <1>1, <1>2

\* What Reconcile has in hand once the CR is known to be the first.
LEMMA InitializedSaysNoMore ==
    ASSUME NEW st \in Status, now \in Nat
    PROVE  SaysNoMore(Initialized(st), st)
<1>. DEFINE w == With(st, "Initialized", "True", "")
<1>1. w \in Status /\ SaysNoMore(w, st)
  BY WithType, WithSaysNoMore DEF ConditionTypes, ConditionStatuses, ConditionReasons
<1>2. Initialized(st) = Without(w, "Irreconcilable")
  BY DEF Initialized
<1>. HIDE DEF w
<1>3. SaysNoMore(Initialized(st), w)
  BY <1>1, <1>2, WithoutSaysNoMore
<1>. QED
  BY <1>1, <1>3 DEF SaysNoMore

LEMMA RecordSpecHashSays ==
    ASSUME OwnInv, StatusInv, RecordSpecHash
    PROVE  StatusInv'
<1>1. job \in Job /\ job # Idle
  BY AtStage DEF RecordSpecHash, Alive, At, Stages, OwnInv, TypeInv
<1>2. CASE job.fresh
  <2>. DEFINE o == [job.seen EXCEPT !.hash = job.seen.spec]
  <2>. DEFINE ini == Initialized(job.st)
  <2>. DEFINE j == [job EXCEPT !.stage = "recorded", !.seen = o,
                             !.st      = ini,
                             !.changed = HasChangedSpec(job.seen),
                             !.secret  = LastType(job.seen.st) # "Deployed",
                             !.time    = now]
  <2>1. obj' = [obj EXCEPT ![job.inst] = o] /\ job' = j
    BY <1>2, Zenon DEF RecordSpecHash, GoTo
  <2>2. /\ obj[job.inst] = job.seen /\ job.inst \in Inst /\ job.seen \in Object
        /\ job.st \in Status /\ now \in Nat
    BY <1>1, <1>2, JobStatuses DEF OwnInv, TypeInv, JobCurrent
  <2>3. o.st = job.seen.st /\ o.gone = job.seen.gone
    BY <2>2 DEF Object
  <2>4. SaysNoMore(ini, job.st)
    BY <2>2, InitializedSaysNoMore
  <2>. HIDE DEF o, ini
  <2>5. j.stage = "recorded" /\ j.inst = job.inst /\ j.seen = o /\ j.st = ini
    BY <1>1 DEF Job
  <2>. HIDE DEF j
  <2>6. /\ UNCHANGED release /\ ~job.seen.gone /\ ~IsDuplicate(job.seen.st)
        /\ job.stage = "loaded" /\ job.st = job.seen.st
    BY <1>1 DEF RecordSpecHash, Alive, At, StatusInv, JobSays
  <2>7. \A i \in Inst : i # job.inst => obj'[i] = obj[i] /\ (Owner(i)' => Owner(i))
    BY <2>1, <2>2, <2>5, <2>6 DEF OwnInv, TypeInv, TypeOK, Owner, Installed
  <2>8. obj'[job.inst] = o
    BY <2>1, <2>2 DEF OwnInv, TypeInv, TypeOK
  <2>9. Exists(job.inst)
    BY <2>2, SentinelAssumption DEF Exists
  <2>10. StoredSays'
    <3>1. ASSUME NEW i \in Inst, Exists(i)'
          PROVE  /\ MarksTyped(obj'[i].st)
                 /\ Owner(i)' => ~IsDuplicate(obj'[i].st)
                 /\ Announces(obj'[i].st) => obj'[i].gone \/ Installed(i)'
      <4>1. CASE i = job.inst
        BY <2>2, <2>3, <2>6, <2>8, <2>9, <4>1 DEF StatusInv, StoredSays, Installed
      <4>2. CASE i # job.inst
        BY <2>6, <2>7, <3>1, <4>2 DEF StatusInv, StoredSays, Installed, Exists
      <4>. QED
        BY <4>1, <4>2
    <3>. QED
      BY <3>1 DEF StoredSays, Exists, MarksTyped, IsDuplicate, Announces
  <2>11. /\ MarksTyped(ini) /\ MarksTyped(o.st)
         /\ ~o.gone /\ ~IsDuplicate(ini) /\ ~IsDuplicate(o.st)
         /\ Announces(ini) \/ Announces(o.st) => Installed(job.inst)'
    <3>1. /\ MarksTyped(job.seen.st)
          /\ Announces(job.seen.st) => Installed(job.inst)
      BY <1>1, <2>6 DEF StatusInv, JobSays
    <3>2. Installed(job.inst) => Installed(job.inst)'
      BY <2>1, <2>5, <2>6 DEF Installed
    <3>. QED
      BY <2>3, <2>4, <2>6, <3>1, <3>2 DEF SaysNoMore
  <2>12. JobSays'
    BY <2>1, <2>5, <2>11 DEF JobSays, MarksTyped, IsDuplicate, Announces, Installed
  <2>. QED
    BY <2>10, <2>12 DEF StatusInv
<1>3. CASE ~job.fresh
  BY <1>3, RestSays DEF RecordSpecHash, Requeue, Exists
<1>. QED
  BY <1>2, <1>3

\* An installation, an update, a reconciliation gives the CR a release, and
\* says so; what leads to it says nothing new.
LEMMA DeploySays ==
    ASSUME OwnInv, StatusInv,
           \/ Download \/ Install \/ Update \/ Reconcile
           \/ \E kind \in Services : FindsNone(kind)
    PROVE  StatusInv'
<1>1. job \in Job /\ job # Idle /\ job.stage \in Deploying /\ job.inst \in Inst
  BY AtStage, JobStatuses
     DEF FindsNone, Looking, Download, MayDownload, Accepted, Install, Update,
         Reconcile, At, Stages, Deploying, OwnInv, TypeInv
<1>2. /\ ~job.seen.gone /\ ~IsDuplicate(job.st) /\ ~IsDuplicate(job.seen.st)
      /\ MarksTyped(job.st) /\ MarksTyped(job.seen.st)
      /\ Announces(job.st) \/ Announces(job.seen.st) => Installed(job.inst)
  BY <1>1 DEF StatusInv, JobSays
<1>3. CASE Download \/ \E kind \in Services : FindsNone(kind)
  <2>1. /\ UNCHANGED <<obj, release>>
        /\ \E s \in {"halfway", "checked", "downloaded"} : \E x :
              \/ job' = [job EXCEPT !.stage = s]
              \/ job' = [job EXCEPT !.stage = s, !.chart = x]
    <3>1. CASE Download
      BY <3>1, Zenon DEF Download, GoTo
    <3>2. CASE \E kind \in Services : FindsNone(kind)
      BY <3>2, Zenon DEF FindsNone, GoTo
    <3>. QED
      BY <1>3, <3>1, <3>2
  <2>2. /\ job'.stage \in Deploying /\ job' # Idle /\ job'.inst = job.inst
        /\ job'.seen = job.seen /\ job'.st = job.st
    BY <1>1, <2>1 DEF Job, Deploying, Idle
  <2>. QED
    BY <1>1, <1>2, <2>1, <2>2, GoOnSays DEF Deploying, Owner, Installed
<1>4. ASSUME NEW st \in Status, SaysNoMore(st, job.seen.st) \/ MarksTyped(st),
             ~IsDuplicate(st), NEW stage \in {"installed", "updated", "reconciled"},
             job' = [job EXCEPT !.stage = stage,
                                !.st = [st EXCEPT !.rel = Candidate]],
             release' = [release EXCEPT ![job.inst] = Candidate],
             At("downloaded"), UNCHANGED obj
      PROVE  StatusInv'
  <2>1. Candidate # NoRelease
    BY <1>4, CandidateType, SentinelAssumption DEF OwnInv
  <2>2. /\ release'[job.inst] # NoRelease
        /\ \A i \in Inst \ {job.inst} : release'[i] = release[i]
    BY <1>1, <1>4, <2>1 DEF OwnInv, TypeInv, TypeOK
  <2>. DEFINE w == [st EXCEPT !.rel = Candidate]
  <2>3. w.conds = st.conds
    BY DEF Status
  <2>. HIDE DEF w
  <2>4. /\ job'.stage \in Deploying /\ job' # Idle /\ job'.inst = job.inst
        /\ job'.seen = job.seen /\ job'.st = w
    BY <1>1, <1>4 DEF Job, Deploying, Idle, w
  <2>5. MarksTyped(w) /\ ~IsDuplicate(w)
    BY <1>2, <1>4, <2>3 DEF MarksTyped, IsDuplicate, SaysNoMore
  <2>6. \A i \in Inst : /\ Installed(i)' => Owner(i)
                        /\ Installed(i) => Installed(i)'
    BY <1>1, <2>2 DEF Owner, Installed
  <2>. QED
    BY <1>1, <1>4, <2>2, <2>4, <2>5, <2>6, GoOnSays DEF Deploying, Installed
<1>5. Unfailed \in Status /\ SaysNoMore(Unfailed, job.seen.st)
  BY <1>1, SyncedType, SyncedSaysNoMore DEF OwnInv, TypeInv
<1>6. ASSUME NEW stage \in {"installed", "updated"},
             NEW reason \in {"InstallSuccessful", "UpdateSuccessful"},
             Deploy(stage, reason), At("downloaded")
      PROVE  StatusInv'
  <2>. DEFINE w == With(Unfailed, "Deployed", "True", reason)
  <2>1. /\ w \in Status
        /\ MarksTyped(Unfailed) => MarksTyped(w)
        /\ IsDuplicate(w) => IsDuplicate(Unfailed)
    BY <1>1, <1>5, WithType, WithSaysNoMore, JobStatuses
       DEF ConditionTypes, ConditionStatuses, ConditionReasons, OwnInv, TypeInv
  <2>2. /\ job' = [job EXCEPT !.stage = stage, !.st = [w EXCEPT !.rel = Candidate]]
        /\ release' = [release EXCEPT ![job.inst] = Candidate] /\ UNCHANGED obj
    BY <1>6, Zenon DEF Deploy, GoTo
  <2>. HIDE DEF w
  <2>3. MarksTyped(w) /\ ~IsDuplicate(w)
    BY <1>2, <1>5, <2>1 DEF SaysNoMore
  <2>. QED
    BY <1>4, <1>6, <2>1, <2>2, <2>3
<1>7. CASE Install \/ Update
  BY <1>6, <1>7 DEF Install, Update
<1>8. CASE Reconcile
  <2>. DEFINE w == Without(Unfailed, "Irreconcilable")
  <2>1. w \in Status /\ SaysNoMore(w, Unfailed)
    BY <1>5, WithoutType, WithoutSaysNoMore
  <2>2. /\ job' = [job EXCEPT !.stage = "reconciled", !.st = [w EXCEPT !.rel = Candidate]]
        /\ At("downloaded") /\ release[job.inst] = Candidate
        /\ UNCHANGED <<obj, release>>
    BY <1>8, Zenon DEF Reconcile, GoTo
  <2>. HIDE DEF w
  <2>3. SaysNoMore(w, job.seen.st) /\ ~IsDuplicate(w)
    BY <1>2, <1>5, <2>1 DEF SaysNoMore
  <2>4. release' = [release EXCEPT ![job.inst] = Candidate]
    BY <1>1, <2>2 DEF OwnInv, TypeInv, TypeOK
  <2>. QED
    BY <1>4, <2>1, <2>2, <2>3, <2>4
<1>. QED
  BY <1>3, <1>7, <1>8

LEMMA UninstallSays ==
    ASSUME OwnInv, StatusInv, Uninstall
    PROVE  StatusInv'
<1>1. /\ job \in Job /\ job # Idle /\ job.seen.fin /\ job.seen.gone
      /\ job.inst \in Inst /\ job.st \in Status /\ now \in Nat
  BY AtStage, JobStatuses DEF Uninstall, Terminating, At, Stages, OwnInv, TypeInv
<1>. DEFINE w == Without(job.st, "Failed")
<1>. DEFINE v == With(w, "Deployed", "False", "UninstallSuccessful")
<1>. DEFINE st == IF release[job.inst] = NoRelease THEN w ELSE [v EXCEPT !.rel = NoRelease]
<1>2. /\ UNCHANGED obj
      /\ release' = [release EXCEPT ![job.inst] = NoRelease]
      /\ job' = [job EXCEPT !.stage = "uninstalled", !.st = st]
  BY Zenon DEF Uninstall, GoTo
<1>3. MarksTyped(st)
  <2>1. w \in Status /\ MarksTyped(w)
    BY <1>1, WithoutType, WithoutSaysNoMore DEF SaysNoMore, StatusInv, JobSays
  <2>. HIDE DEF w
  <2>2. v \in Status /\ MarksTyped(v)
    BY <1>1, <2>1, WithType, WithSaysNoMore
       DEF ConditionTypes, ConditionStatuses, ConditionReasons
  <2>. HIDE DEF v
  <2>3. [v EXCEPT !.rel = NoRelease].conds = v.conds
    BY <2>2 DEF Status
  <2>. QED
    BY <2>1, <2>2, <2>3 DEF MarksTyped
<1>. HIDE DEF st
<1>4. /\ job'.stage = "uninstalled" /\ job' # Idle /\ job'.inst = job.inst
      /\ job'.seen = job.seen /\ job'.st = st
  BY <1>1, <1>2 DEF Job, Idle
<1>5. \A i \in Inst : /\ Installed(i)' => Installed(i)
                      /\ Installed(i) => Installed(i)' \/ obj[i].gone
  BY <1>1, <1>2 DEF Installed, OwnInv, JobHolds, TypeInv, TypeOK
<1>. QED
  BY <1>1, <1>2, <1>3, <1>4, <1>5, GoOnSays DEF Owner, Deploying

LEMMA ReportUninstalledSays ==
    ASSUME OwnInv, StatusInv, ReportUninstalled
    PROVE  StatusInv'
<1>1. job \in Job /\ job # Idle /\ job.inst \in Inst
  BY AtStage, JobStatuses DEF ReportUninstalled, At, Stages, OwnInv, TypeInv
<1>2. /\ job.seen.gone /\ ~Installed(job.inst) /\ UNCHANGED release
      /\ job.stage = "uninstalled"
  BY <1>1 DEF ReportUninstalled, At, OwnInv, JobHolds, Undeploying
<1>3. job.st \in Status /\ MarksTyped(job.st)
  BY <1>1, JobStatuses DEF OwnInv, TypeInv, StatusInv, JobSays
<1>4. CASE job.fresh
  <2>1. /\ job' = [job EXCEPT !.stage = "reported", !.seen.st = job.st]
        /\ obj' = [obj EXCEPT ![job.inst].st = job.st]
    BY <1>4, Zenon DEF ReportUninstalled, GoTo, WriteStatus
  <2>2. obj[job.inst] = job.seen /\ job.seen \in Object
    BY <1>1, <1>4, JobStatuses DEF OwnInv, TypeInv, JobCurrent
  <2>. DEFINE o == [job.seen EXCEPT !.st = job.st]
  <2>3. o.st = job.st /\ o.gone
    BY <1>2, <2>2 DEF Object
  <2>. HIDE DEF o
  <2>4. /\ job'.stage = "reported" /\ job'.inst = job.inst
        /\ job'.st = job.st /\ job'.seen = o
    BY <1>1, <2>1 DEF Job, o
  <2>5. obj'[job.inst] = o /\ \A i \in Inst \ {job.inst} : obj'[i] = obj[i]
    BY <1>1, <2>1, <2>2 DEF OwnInv, TypeInv, TypeOK, o
  <2>6. \A i \in Inst : /\ Owner(i)' => Owner(i) /\ i # job.inst
                        /\ Installed(i)' <=> Installed(i)
    BY <1>2, <2>4 DEF Owner, Installed, Deploying
  <2>7. ASSUME NEW i \in Inst, Exists(i)'
        PROVE  /\ MarksTyped(obj'[i].st)
               /\ Owner(i)' => ~IsDuplicate(obj'[i].st)
               /\ Announces(obj'[i].st) => obj'[i].gone \/ Installed(i)'
    <3>1. CASE i = job.inst
      BY <1>3, <2>3, <2>5, <2>6, <3>1
    <3>2. CASE i # job.inst
      BY <2>5, <2>6, <2>7, <3>2 DEF StatusInv, StoredSays, Exists
    <3>. QED
      BY <3>1, <3>2
  <2>8. StoredSays'
    BY <2>7 DEF StoredSays, Exists, MarksTyped, IsDuplicate, Announces
  <2>9. JobSays'
    BY <1>3, <2>3, <2>4 DEF JobSays, MarksTyped, IsDuplicate, Announces, Deploying
  <2>. QED
    BY <2>8, <2>9 DEF StatusInv
<1>5. CASE ~job.fresh
  BY <1>5, RestSays DEF ReportUninstalled, WriteStatus, Requeue, Exists
<1>. QED
  BY <1>4, <1>5

\* The call ends with the report of what it did.
LEMMA ReportSays ==
    ASSUME OwnInv, StatusInv, ReportDeployed \/ ReportReconciled
    PROVE  StatusInv'
<1>1. job \in Job /\ job # Idle
  BY AtStage DEF ReportDeployed, ReportReconciled, At, Stages, OwnInv, TypeInv
<1>2. job.st \in Status /\ Sayable(job.st)
  BY <1>1, JobStatuses, InHandSayable DEF OwnInv, TypeInv
<1>3. /\ WriteStatus(job.st) \/ UNCHANGED obj
      /\ job' = Idle /\ UNCHANGED release
  BY DEF ReportDeployed, ReportReconciled, TryWriteStatus, Requeue, RequeueAfter
<1>. QED
  BY <1>1, <1>2, <1>3, EndSays DEF Installed, Owner

\* The finalizer is not part of what is said.
LEMMA FinalizerSays ==
    ASSUME OwnInv, StatusInv, AddFinalizer \/ RemoveFinalizer
    PROVE  StatusInv'
<1>1. job \in Job /\ job # Idle /\ job.inst \in Inst
  BY AtStage, JobStatuses DEF AddFinalizer, RemoveFinalizer, At, Stages, OwnInv, TypeInv
<1>2. job' = Idle /\ UNCHANGED release
  BY DEF AddFinalizer, RemoveFinalizer, Done, Requeue
<1>3. ASSUME NEW i \in Inst, Exists(i)'
      PROVE  Exists(i) /\ obj'[i].st = obj[i].st /\ (obj[i].gone => obj'[i].gone)
  <2>1. CASE i = job.inst /\ job.fresh
    <3>1. obj[i] = job.seen /\ job.seen \in Object /\ job.seen # NoObj
      BY <1>1, <2>1, JobStatuses, SentinelAssumption DEF OwnInv, TypeInv, JobCurrent
    <3>2. \/ obj'[i] = NoObj
          \/ \E b \in BOOLEAN : obj'[i] = [obj[i] EXCEPT !.fin = b]
      BY <1>1, <2>1, <3>1 DEF AddFinalizer, RemoveFinalizer, OwnInv, TypeInv, TypeOK
    <3>. QED
      BY <1>3, <3>1, <3>2 DEF Exists, Object
  <2>2. CASE ~(i = job.inst /\ job.fresh)
    <3>1. obj'[i] = obj[i]
      BY <1>1, <2>2 DEF AddFinalizer, RemoveFinalizer, OwnInv, TypeInv, TypeOK
    <3>. QED
      BY <1>3, <3>1 DEF Exists
  <2>. QED
    BY <2>1, <2>2
<1>. QED
  BY <1>2, <1>3, RestSays

\* Users: a CR that is created says nothing, and nobody owned it before.
LEMMA UserSays ==
    ASSUME OwnInv, StatusInv, NEW i \in Inst, Create(i) \/ Edit(i) \/ Delete(i) \/ LetGo(i)
    PROVE  StatusInv'
<1>1. /\ UNCHANGED release
      /\ \/ job' = job
         \/ job # Idle /\ job' = [job EXCEPT !.fresh = FALSE]
  BY DEF Create, Edit, Delete, LetGo, Disturb
<1>2. CASE Create(i)
  <2>1. /\ obj[i] = NoObj
        /\ \E spec \in Specs, hash \in InitialHashes, held \in Holds :
              obj' = [obj EXCEPT ![i] =
                        [spec |-> spec, hash |-> hash, fin |-> FALSE, held |-> held,
                         gone |-> FALSE, created |-> now, st |-> NewStatus]]
    BY <1>2 DEF Create
  <2>2. obj'[i].st = NewStatus /\ \A k \in Inst \ {i} : obj'[k] = obj[k]
    BY <2>1 DEF OwnInv, TypeInv, TypeOK
  <2>3. \/ job' = Idle /\ job = Idle
        \/ /\ job # Idle /\ job'.stage = job.stage /\ job'.inst = job.inst
           /\ job'.st = job.st /\ job'.seen = job.seen
    BY <1>1, InCall DEF OwnInv, TypeInv, Job
  <2>4. ~Owner(i) /\ \A k \in Inst : Owner(k)' => Owner(k)
    BY <1>1, <2>1, <2>3 DEF Owner, Installed, OwnInv, OwnersAreEligible, Eligible, Exists
  <2>5. MarksTyped(NewStatus) /\ ~Announces(NewStatus)
    BY DEF MarksTyped, Announces, HasCondition, NewStatus
  <2>6. StoredSays'
    <3>1. ASSUME NEW k \in Inst, Exists(k)'
          PROVE  /\ MarksTyped(obj'[k].st)
                 /\ Owner(k)' => ~IsDuplicate(obj'[k].st)
                 /\ Announces(obj'[k].st) => obj'[k].gone \/ Installed(k)'
      <4>1. CASE k = i
        BY <2>2, <2>4, <2>5, <4>1
      <4>2. CASE k # i
        BY <1>1, <2>2, <2>4, <3>1, <4>2 DEF StatusInv, StoredSays, Exists, Installed
      <4>. QED
        BY <4>1, <4>2
    <3>. QED
      BY <3>1 DEF StoredSays, Exists, MarksTyped, IsDuplicate, Announces
  <2>7. JobSays'
    BY <1>1, <2>3 DEF StatusInv, JobSays, MarksTyped, IsDuplicate, Announces, Installed
  <2>. QED
    BY <2>6, <2>7 DEF StatusInv
<1>3. CASE Edit(i) \/ Delete(i) \/ LetGo(i)
  <2>1. obj[i] \in Object
    BY <1>3 DEF Edit, Delete, LetGo, OwnInv, TypeInv, TypeOK
  <2>2. \/ \E spec : obj' = [obj EXCEPT ![i].spec = spec]
        \/ obj' = [obj EXCEPT ![i].gone = TRUE]
        \/ obj' = [obj EXCEPT ![i].held = FALSE]
        \/ obj' = [obj EXCEPT ![i] = NoObj]
    BY <1>3 DEF Edit, Delete, LetGo
  <2>3. ASSUME NEW k \in Inst, Exists(k)'
        PROVE  Exists(k) /\ obj'[k].st = obj[k].st /\ (obj[k].gone => obj'[k].gone)
    <3>1. CASE k = i
      BY <1>3, <2>1, <2>2, <2>3, <3>1
         DEF Edit, Delete, LetGo, Exists, Object, OwnInv, TypeInv, TypeOK
    <3>2. CASE k # i
      <4>1. obj'[k] = obj[k]
        BY <2>2, <3>2 DEF OwnInv, TypeInv, TypeOK
      <4>. QED
        BY <2>3, <4>1 DEF Exists
    <3>. QED
      BY <3>1, <3>2
  <2>. QED
    BY <1>1, <2>3, RestSays
<1>. QED
  BY <1>2, <1>3

LEMMA NextSays ==
    ASSUME OwnInv, StatusInv, [Next]_vars
    PROVE  StatusInv'
<1>. USE DEF At, Stages, ConditionReasons
<1>1. CASE /\ UNCHANGED <<obj, release>>
           /\ job' \in {job, Idle}
  BY <1>1, RestSays DEF Exists
<1>2. CASE \E i \in Inst : Lookup(i) \/ TimerFires(i)
  BY <1>1, <1>2, LookupSays DEF TimerFires
<1>3. CASE CacheCatchesUp \/ ToggleAuth \/ Publish \/ Tick \/ UNCHANGED vars
  BY <1>1, <1>3 DEF CacheCatchesUp, ToggleAuth, Publish, Tick, vars
<1>4. CASE \E i \in Inst : Create(i) \/ Edit(i) \/ Delete(i) \/ LetGo(i)
  BY <1>4, UserSays
<1>5. CASE Fail
  <2>1. CASE Crash \/ CallFails
    BY <1>1, <2>1 DEF Crash, Restart, CallFails, Requeue
  <2>2. CASE DownloadFails
    BY <2>2, GiveUpSays DEF DownloadFails, MayDownload, Accepted
  <2>3. CASE SyncFails
    BY <2>3, GiveUpSays DEF SyncFails
  <2>4. CASE ReconcileFails
    BY <2>4, GiveUpSays DEF ReconcileFails
  <2>5. CASE InstallFails \/ UpdateFails
    <3>1. Candidate # NoRelease
      BY <2>5, CandidateType, SentinelAssumption DEF InstallFails, UpdateFails, OwnInv
    <3>. HIDE DEF Candidate
    <3>2. CASE InstallFails
      BY <3>1, <3>2, HelmFailsSays DEF InstallFails, Deploying
    <3>3. CASE UpdateFails
      BY <3>1, <3>3, HelmFailsSays DEF UpdateFails, Deploying
    <3>. QED
      BY <2>5, <3>2, <3>3
  <2>6. CASE DeleteFails
    BY <2>6, GiveUpSays, HelmFailsSays DEF DeleteFails, Terminating
  <2>. QED
    BY <1>5, <2>1, <2>2, <2>3, <2>4, <2>5, <2>6 DEF Fail
<1>6. CASE Handle
  <2>1. CASE AddFinalizer \/ RemoveFinalizer
    BY <2>1, FinalizerSays
  <2>2. CASE RecordSpecHash \/ MarkDuplicate
    BY <2>2, RecordSpecHashSays, MarkDuplicateSays
  <2>3. CASE PanicNotListed \/ PanicNoAnnotations \/ \E kind \in Services : PanicNoKind(kind)
    BY <1>1, <2>3 DEF PanicNotListed, PanicNoAnnotations, PanicNoKind, Restart
  <2>4. CASE IgnoreDuplicate \/ Terminated \/ RejectDowngrade \/ Skip \/ RejectRepo
    BY <1>1, <2>4
       DEF IgnoreDuplicate, Terminated, RejectDowngrade, Skip, RejectRepo,
           Requeue, RequeueAfter, Done
  <2>5. CASE RejectVersion
    BY <2>5, GiveUpSays DEF RejectVersion
  <2>6. CASE RejectParameters
    BY <2>6, GiveUpSays DEF RejectParameters
  <2>7. CASE \E kind \in Services : CannotMigrate(kind)
    BY <2>7, GiveUpSays DEF CannotMigrate, Looking, Accepted
  <2>8. CASE \/ Download \/ Install \/ Update \/ Reconcile
             \/ \E kind \in Services : FindsNone(kind)
    BY <2>8, DeploySays
  <2>9. CASE ReportDeployed \/ ReportReconciled
    BY <2>9, ReportSays
  <2>10. CASE Uninstall \/ ReportUninstalled
    BY <2>10, UninstallSays, ReportUninstalledSays
  <2>. QED
    BY <1>6, <2>1, <2>2, <2>3, <2>4, <2>5, <2>6, <2>7, <2>8, <2>9, <2>10 DEF Handle
<1>. QED
  BY <1>2, <1>3, <1>4, <1>5, <1>6 DEF Next, Environment

\* What is stored and what is in hand stay consistent with the releases.
THEOREM StatusesAreKept == Spec => []StatusInv
<1>1. Init => StatusInv
  BY DEF Init, StatusInv, StoredSays, JobSays, Exists
<1>2. OwnInv /\ StatusInv /\ [Next]_vars => StatusInv'
  BY NextSays
<1>. QED
  BY <1>1, <1>2, OwnershipIsKept, PTL DEF Spec

\* The mark of a duplicate never falls on the CR whose Ambassador is running,
\* though the cached list may lag and the CR in hand be out of date
\* (reconcile.go:243-248, 260-273).
THEOREM DuplicatesOwnNothing == Spec => []DuplicateHasNoRelease
<1>1. StatusInv => DuplicateHasNoRelease
  BY DEF StatusInv, StoredSays, Owner, DuplicateHasNoRelease
<1>. QED
  BY <1>1, StatusesAreKept, PTL

\* No status announces a release that is not there before the CR is being
\* deleted, whichever write of it failed (reconcile_update.go:179-194,
\* 245-259, 305-313).
THEOREM AnnouncementsAreTrue == Spec => []NothingAnnouncedFalsely
<1>1. StatusInv => NothingAnnouncedFalsely
  BY DEF StatusInv, StoredSays, Announces, NothingAnnouncedFalsely
<1>. QED
  BY <1>1, StatusesAreKept, PTL
=============================================================================
