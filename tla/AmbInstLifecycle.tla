-------------------------- MODULE AmbInstLifecycle --------------------------
(***************************************************************************)
(* What becomes of a CR, for every namespace, every set of specs and every *)
(* bound.  The copies a call has in hand stay good (HandInv).  So the      *)
(* reconciler implements InstallationLifecycle, one lemma per group of     *)
(* actions; a migration that is blocked does not happen; what runs is what *)
(* the specs say as long as nothing has failed (AppliedInv); the updates   *)
(* of an Ambassador that is happily deployed wait for their time           *)
(* (DatesInv); and the operator rests where an Ambassador is installed,    *)
(* whatever fails (RestInv).                                               *)
(***************************************************************************)
EXTENDS AmbInstInvariants

-----------------------------------------------------------------------------
\* What a call knows of the CR it has in hand.

\* The stages in which a call has not deployed anything yet, and those in which
\* it has.
Undecided == {"loaded", "recorded", "halfway", "checked", "downloaded"}

Deployed == {"installed", "updated", "reconciled"}

HasType(st, type) == \E k \in DOMAIN st.conds : st.conds[k].type = type

\* The status new differs from old by no deployment: same release, no new
\* Deployed condition, the same time of the last check or a real one.
Amends(new, old) ==
    /\ new.rel = old.rel
    /\ HasType(new, "Deployed") => HasType(old, "Deployed")
    /\ new.check = old.check \/ new.check > 0

LEMMA WithAmends ==
    ASSUME NEW st \in Status, now \in Nat, NEW ty \in ConditionTypes \ {"Deployed"},
           NEW status, NEW reason
    PROVE  Amends(With(st, ty, status, reason), st)
<1>. DEFINE w == With(st, ty, status, reason)
<1>1. st.conds \in Seq(Condition)
  BY DEF Status
<1>2. /\ w.conds = SetCondition(st.conds, ty, status, reason, now)
      /\ w.rel = st.rel /\ w.check = st.check
  BY DEF With, Status
<1>. HIDE DEF w
<1>3. \A j \in DOMAIN w.conds :
          \/ \E k \in DOMAIN st.conds : w.conds[j] = st.conds[k]
          \/ /\ w.conds[j].type = ty /\ w.conds[j].status = status
             /\ w.conds[j].reason = reason
  BY <1>1, <1>2, SetConditionEntries
<1>. QED
  BY <1>2, <1>3 DEF Amends, HasType, w

LEMMA WithoutAmends ==
    ASSUME NEW st \in Status, NEW ty
    PROVE  Amends(Without(st, ty), st)
<1>. DEFINE w == Without(st, ty)
<1>1. st.conds \in Seq(Condition)
  BY DEF Status
<1>2. /\ w.conds = RemoveCondition(st.conds, ty)
      /\ w.rel = st.rel /\ w.check = st.check
  BY DEF Without, Status
<1>. HIDE DEF w
<1>3. \A j \in DOMAIN w.conds : \E k \in DOMAIN st.conds : w.conds[j] = st.conds[k]
  BY <1>1, <1>2, RemoveConditionEntries
<1>. QED
  BY <1>2, <1>3 DEF Amends, HasType, w

LEMMA AmendsTransitive ==
    ASSUME NEW a, NEW b, NEW c, Amends(a, b), Amends(b, c)
    PROVE  Amends(a, c)
BY DEF Amends

LEMMA SyncedAmends ==
    ASSUME TypeOK, job \in Job, job.time > 0
    PROVE  Amends(Synced, job.seen.st) /\ Amends(Unfailed, job.seen.st)
<1>. DEFINE w == Without(job.seen.st, "Irreconcilable")
<1>1. w \in Status /\ Amends(w, job.seen.st)
  BY JobStatuses, WithoutType, WithoutAmends
<1>2. Synced.conds = w.conds /\ Synced.rel = w.rel /\ Synced.check > 0
  BY <1>1 DEF Synced, Status
<1>. HIDE DEF w
<1>3. Amends(Synced, job.seen.st)
  BY <1>1, <1>2 DEF Amends, HasType
<1>4. Amends(Unfailed, Synced)
  BY SyncedType, WithoutAmends DEF Unfailed
<1>. QED
  BY <1>3, <1>4, AmendsTransitive

LEMMA InitializedAmends ==
    ASSUME NEW st \in Status, now \in Nat
    PROVE  Amends(Initialized(st), st)
<1>. DEFINE w == With(st, "Initialized", "True", "")
<1>1. w \in Status /\ Amends(w, st)
  BY WithType, WithAmends DEF ConditionTypes, ConditionStatuses, ConditionReasons
<1>2. Amends(Without(w, "Irreconcilable"), w)
  BY <1>1, WithoutAmends
<1>. HIDE DEF w
<1>3. Amends(Without(w, "Irreconcilable"), st)
  BY <1>1, <1>2, AmendsTransitive
<1>. QED
  BY <1>3 DEF Initialized, w

\* What the call has in hand is the CR, but for the edits of users and the
\* finalizers; from the hash it recorded to the release it deployed it has gone
\* through the gate and the lookups with one and the same copy.
HandInv ==
    job # Idle =>
        /\ job.seen.fin => /\ obj[job.inst].st = job.seen.st
                           /\ obj[job.inst].hash = job.seen.hash
        /\ job.stage \in Undecided => Amends(job.st, job.seen.st)
        /\ job.stage \in Deploying =>
              /\ job.seen.hash = job.seen.spec /\ job.time > 0
              /\ job.secret <=> LastType(job.seen.st) # "Deployed"
        /\ job.stage \in Deploying \ {"recorded"} => job.seen.spec.params = "ok"
        /\ job.stage \in {"halfway", "checked"} => Migrating(job.seen)
        /\ job.stage = "downloaded" => ~NotNow
        /\ job.stage \in Deployed =>
              /\ job.st.rel # NoRelease /\ job.st.rel.oss = job.seen.spec.oss
              /\ job.st.check > 0

\* The steps in which a call goes on without writing the CR.
Proceeds == \/ Download \/ Install \/ Update \/ Reconcile \/ Uninstall
            \/ \E kind \in Services : FindsNone(kind)

\* What else a call may do: it ends, or it goes on with what it wrote.
LEMMA CallStep ==
    ASSUME Handle \/ Fail
    PROVE  \/ job' = Idle \/ Proceeds
           \/ (RecordSpecHash \/ ReportUninstalled) /\ job.fresh
<1>. USE DEF Requeue, RequeueAfter, Done, Restart
<1>1. \A st : Reject(st) \/ FailWith(st) => job' = Idle
  BY DEF Reject, FailWith
<1>2. \A st, o : HelmFails(st, o) => job' = Idle
  BY DEF HelmFails
<1>3. CASE Fail
  <2>1. CASE CallFails \/ Crash
    BY <2>1 DEF CallFails, Crash
  <2>. HIDE DEF Requeue, RequeueAfter, Done, Restart
  <2>. QED
    BY <1>1, <1>2, <1>3, <2>1
       DEF Fail, DownloadFails, SyncFails, InstallFails, UpdateFails,
           ReconcileFails, DeleteFails
<1>4. CASE Handle
  <2>1. CASE RejectVersion \/ RejectParameters
             \/ \E kind \in Services : CannotMigrate(kind)
    <3>. HIDE DEF Requeue, RequeueAfter, Done, Restart
    <3>. QED
      BY <1>1, <2>1 DEF RejectVersion, RejectParameters, CannotMigrate
  <2>2. CASE RecordSpecHash \/ ReportUninstalled
    BY <2>2 DEF RecordSpecHash, ReportUninstalled
  <2>3. CASE \/ AddFinalizer \/ RejectRepo \/ IgnoreDuplicate \/ MarkDuplicate
             \/ PanicNotListed \/ PanicNoAnnotations \/ RejectDowngrade \/ Skip
             \/ \E kind \in Services : PanicNoKind(kind)
             \/ ReportDeployed \/ ReportReconciled \/ Terminated \/ RemoveFinalizer
    BY <2>3
       DEF AddFinalizer, RejectRepo, IgnoreDuplicate, MarkDuplicate, PanicNotListed,
           PanicNoAnnotations, RejectDowngrade, Skip, PanicNoKind, ReportDeployed,
           ReportReconciled, Terminated, RemoveFinalizer
  <2>. QED
    BY <1>4, <2>1, <2>2, <2>3 DEF Handle, Proceeds
<1>. QED
  BY <1>3, <1>4

\* The CR k keeps all but its status; that may be written, when nobody else has
\* written the CR since it was read.
Keeps(k) ==
    /\ Exists(k) /\ obj'[k].spec = obj[k].spec /\ obj'[k].hash = obj[k].hash
    /\ obj'[k].gone = obj[k].gone

Written(k, st) ==
    obj'[k].st = obj[k].st
    \/ (k = job.inst /\ job.fresh /\ obj[k] = job.seen /\ obj'[k].st = st)

LEMMA WriteKeeps ==
    ASSUME OwnInv, job \in Job, job # Idle, NEW st \in Status,
           WriteStatus(st) \/ UNCHANGED obj, NEW k \in Inst, Exists(k)'
    PROVE  Keeps(k) /\ Written(k, st)
<1>1. job.inst \in Inst
  BY DEF Job
<1>2. CASE WriteStatus(st) /\ job.fresh /\ k = job.inst
  <2>1. obj[k] = job.seen /\ obj[k] \in Object
    BY <1>2, JobStatuses DEF OwnInv, TypeInv, JobCurrent
  <2>2. obj'[k] = [obj[k] EXCEPT !.st = st]
    BY <1>2, <2>1 DEF WriteStatus, OwnInv, TypeInv, TypeOK
  <2>3. obj[k] # NoObj
    BY <2>1, SentinelAssumption
  <2>. QED
    BY <1>2, <2>1, <2>2, <2>3 DEF Object, Exists, Keeps, Written
<1>3. CASE ~(WriteStatus(st) /\ job.fresh /\ k = job.inst)
  <2>1. obj'[k] = obj[k]
    BY <1>1, <1>3 DEF WriteStatus, OwnInv, TypeInv, TypeOK
  <2>. QED
    BY <2>1 DEF Exists, Keeps, Written
<1>. QED
  BY <1>2, <1>3

\* What a failure or a refusal writes.
LEMMA FailureAmends ==
    ASSUME OwnInv, HandInv, job \in Job, job # Idle, job.stage \in Undecided,
           NEW st \in {job.st, job.seen.st, Synced, Unfailed},
           st \in {job.st, job.seen.st} \/ job.stage \in Deploying,
           NEW ty \in {"Failed", "Irreconcilable"},
           NEW status \in ConditionStatuses, NEW reason \in ConditionReasons
    PROVE  /\ With(st, ty, status, reason) \in Status
           /\ Amends(With(st, ty, status, reason), job.seen.st)
<1>1. st \in Status /\ Amends(st, job.seen.st)
  <2>1. TypeOK /\ job.st \in Status /\ job.seen.st \in Status
    BY JobStatuses DEF OwnInv, TypeInv
  <2>2. Amends(job.st, job.seen.st) /\ Amends(job.seen.st, job.seen.st)
    BY DEF HandInv, Amends
  <2>3. job.stage \in Deploying => Amends(Synced, job.seen.st) /\ Amends(Unfailed, job.seen.st)
    BY <2>1, SyncedAmends DEF HandInv
  <2>. QED
    BY <2>1, <2>2, <2>3, SyncedType
<1>2. ty \in ConditionTypes \ {"Deployed"} /\ now \in Nat
  BY DEF ConditionTypes, OwnInv, TypeInv, TypeOK
<1>3. With(st, ty, status, reason) \in Status /\ Amends(With(st, ty, status, reason), st)
  BY <1>1, <1>2, WithType, WithAmends
<1>. QED
  BY <1>1, <1>3, AmendsTransitive

\* How a call that ends leaves the CRs.
LeavesCR(k) ==
    /\ Keeps(k)
    /\ \/ obj'[k].st = obj[k].st
       \/ /\ k = job.inst /\ job.fresh /\ obj[k] = job.seen
          /\ \/ job.stage \in Undecided /\ Amends(obj'[k].st, job.seen.st)
             \/ job.stage \in Deployed /\ obj'[k].st = job.st

LEMMA EndLeaves ==
    ASSUME OwnInv, HandInv, Handle \/ Fail, job' = Idle, NEW k \in Inst, Exists(k)'
    PROVE  LeavesCR(k)
<1>. USE DEF At, Stages, Undecided, Deploying
<1>0. UNCHANGED obj => LeavesCR(k)
  BY DEF LeavesCR, Keeps, Exists
<1>1. ASSUME NEW w \in Status, WriteStatus(w) \/ UNCHANGED obj, job.stage \in Stages,
             \/ job.stage \in Undecided /\ Amends(w, job.seen.st)
             \/ job.stage \in Deployed /\ w = job.st
      PROVE  LeavesCR(k)
  <2>1. job \in Job /\ job # Idle
    BY <1>1, AtStage DEF OwnInv, TypeInv
  <2>. QED
    BY <1>1, <2>1, WriteKeeps DEF LeavesCR, Written
<1>2. ASSUME NEW st \in {job.st, job.seen.st, Synced, Unfailed},
             st \in {job.st, job.seen.st} \/ job.stage \in Deploying,
             job.stage \in Undecided,
             NEW ty \in {"Failed", "Irreconcilable"}, NEW status \in {"True", "False"},
             NEW reason \in ConditionReasons,
             WriteStatus(With(st, ty, status, reason)) \/ UNCHANGED obj
      PROVE  LeavesCR(k)
  <2>1. job \in Job /\ job # Idle
    BY <1>2, AtStage DEF OwnInv, TypeInv
  <2>2. status \in ConditionStatuses
    BY DEF ConditionStatuses
  <2>. DEFINE w == With(st, ty, status, reason)
  <2>3. w \in Status /\ Amends(w, job.seen.st)
    BY <1>2, <2>1, <2>2, FailureAmends
  <2>. HIDE DEF w
  <2>. QED
    BY <1>1, <1>2, <2>3 DEF w
<1>3. ASSUME NEW st \in {job.st, job.seen.st, Synced, Unfailed},
             st \in {job.st, job.seen.st} \/ job.stage \in Deploying,
             job.stage \in Undecided, NEW ty \in {"Failed", "Irreconcilable"},
             NEW reason \in ConditionReasons,
             \/ Reject(With(st, ty, "True", reason))
             \/ FailWith(With(st, ty, "True", reason))
             \/ \E o : HelmFails(With(st, ty, "True", reason), o)
      PROVE  LeavesCR(k)
  <2>1. WriteStatus(With(st, ty, "True", reason)) \/ UNCHANGED obj
    BY <1>3 DEF Reject, FailWith, HelmFails, TryWriteStatus
  <2>. QED
    BY <1>2, <1>3, <2>1
<1>4. ASSUME \A i \in Inst : /\ obj'[i] # NoObj => obj[i] # NoObj
                             /\ obj'[i] # NoObj => obj'[i].spec = obj[i].spec
                             /\ obj'[i] # NoObj => obj'[i].hash = obj[i].hash
                             /\ obj'[i] # NoObj => obj'[i].gone = obj[i].gone
                             /\ obj'[i] # NoObj => obj'[i].st = obj[i].st
      PROVE  LeavesCR(k)
  BY <1>4 DEF LeavesCR, Keeps, Exists
<1>. USE DEF ConditionReasons
<1>5. CASE Fail
  <2>1. CASE CallFails \/ Crash
    BY <1>0, <2>1 DEF CallFails, Crash, Restart
  <2>2. CASE DownloadFails
    BY <1>3, <2>2 DEF DownloadFails, MayDownload, Accepted
  <2>3. CASE SyncFails
    BY <1>3, <2>3 DEF SyncFails
  <2>4. CASE ReconcileFails
    BY <1>3, <2>4 DEF ReconcileFails
  <2>5. CASE InstallFails
    BY <1>3, <2>5, Zenon DEF InstallFails
  <2>6. CASE UpdateFails
    BY <1>3, <2>6, Zenon DEF UpdateFails
  <2>7. CASE DeleteFails
    BY <1>3, <2>7 DEF DeleteFails, Terminating
  <2>. QED
    BY <1>5, <2>1, <2>2, <2>3, <2>4, <2>5, <2>6, <2>7 DEF Fail
<1>6. CASE Handle
  <2>1. CASE RejectVersion
    BY <1>3, <2>1 DEF RejectVersion
  <2>2. CASE RejectParameters
    BY <1>3, <2>2 DEF RejectParameters
  <2>3. CASE \E kind \in Services : CannotMigrate(kind)
    BY <1>3, <2>3 DEF CannotMigrate, Looking, Accepted
  <2>4. CASE MarkDuplicate
    BY <1>2, <2>4 DEF MarkDuplicate, Alive
  <2>5. CASE ReportDeployed \/ ReportReconciled
    <3>1. job.stage \in Deployed
      BY <2>5 DEF ReportDeployed, ReportReconciled, Deployed
    <3>2. job.st \in Status /\ job.stage \in Stages
      BY <3>1, AtStage, JobStatuses DEF OwnInv, TypeInv, Deployed
    <3>3. WriteStatus(job.st) \/ UNCHANGED obj
      BY <2>5 DEF ReportDeployed, ReportReconciled, TryWriteStatus
    <3>. QED
      BY <1>1, <3>1, <3>2, <3>3
  <2>6. CASE ReportUninstalled \/ RecordSpecHash
    <3>1. job \in Job /\ job # Idle
      BY <2>6, AtStage DEF ReportUninstalled, RecordSpecHash, Alive, OwnInv, TypeInv
    <3>2. ~job.fresh
      <4>1. CASE job.fresh /\ ReportUninstalled
        <5>1. job' = [job EXCEPT !.stage = "reported", !.seen.st = job.st]
          BY <4>1 DEF ReportUninstalled, GoTo
        <5>2. job'.stage = "reported"
          BY <3>1, <5>1 DEF Job
        <5>. QED
          BY <5>2 DEF Idle
      <4>2. CASE job.fresh /\ RecordSpecHash
        <5>. DEFINE o == [job.seen EXCEPT !.hash = job.seen.spec]
                    j == [job EXCEPT !.stage = "recorded", !.seen = o,
                               !.st      = Initialized(job.st),
                               !.changed = HasChangedSpec(job.seen),
                               !.secret  = LastType(job.seen.st) # "Deployed",
                               !.time    = now]
        <5>1. GoTo(j)
          BY <4>2, Zenon DEF RecordSpecHash
        <5>2. j.stage = "recorded"
          BY <3>1 DEF Job
        <5>. HIDE DEF j
        <5>. QED
          BY <5>1, <5>2 DEF Idle, GoTo
      <4>. QED
        BY <2>6, <4>1, <4>2
    <3>. QED
      BY <1>0, <2>6, <3>2 DEF ReportUninstalled, RecordSpecHash, WriteStatus
  <2>7. CASE AddFinalizer \/ RemoveFinalizer
    <3>1. job \in Job /\ job # Idle /\ job.inst \in Inst
      BY <2>7, AtStage, JobStatuses DEF AddFinalizer, RemoveFinalizer, OwnInv, TypeInv
    <3>2. job.fresh => obj[job.inst] \in Object /\ obj[job.inst] # NoObj
      BY <3>1, JobStatuses, SentinelAssumption DEF OwnInv, TypeInv, JobCurrent
    <3>3. \/ UNCHANGED obj
          \/ job.fresh /\ obj' = [obj EXCEPT ![job.inst].fin = TRUE]
          \/ job.fresh /\ obj' = [obj EXCEPT ![job.inst].fin = FALSE]
          \/ job.fresh /\ obj' = [obj EXCEPT ![job.inst] = NoObj]
      BY <2>7 DEF AddFinalizer, RemoveFinalizer
    <3>. QED
      BY <1>4, <3>1, <3>2, <3>3 DEF OwnInv, TypeInv, TypeOK, Object
  <2>8. CASE \/ RejectRepo \/ IgnoreDuplicate
             \/ PanicNotListed \/ PanicNoAnnotations \/ RejectDowngrade \/ Skip
             \/ \E kind \in Services : PanicNoKind(kind) \/ FindsNone(kind)
             \/ Terminated \/ Download \/ Install \/ Update \/ Reconcile \/ Uninstall
    BY <1>0, <2>8
       DEF RejectRepo, IgnoreDuplicate, PanicNotListed, PanicNoAnnotations,
           RejectDowngrade, Skip, PanicNoKind, FindsNone, Terminated, Download,
           Install, Update, Reconcile, Uninstall, Deploy, Restart
  <2>. QED
    BY <1>6, <2>1, <2>2, <2>3, <2>4, <2>5, <2>6, <2>7, <2>8 DEF Handle
<1>. QED
  BY <1>5, <1>6

\* A call goes on with the copy it has.
SameCall ==
    /\ job # Idle /\ job' # Idle /\ UNCHANGED obj
    /\ job'.inst = job.inst /\ job'.seen = job.seen /\ job'.fresh = job.fresh
    /\ job'.changed = job.changed /\ job'.secret = job.secret /\ job'.time = job.time

Releases(new) ==
    /\ release'[job.inst] = new
    /\ \A i \in Inst : i # job.inst => release'[i] = release[i]

Looks == /\ job'.st = job.st /\ UNCHANGED release
         /\ \E kind \in Services :
               /\ Looking(kind) /\ Present(kind) = "none"
               /\ job'.stage = IF kind = "AuthService" THEN "halfway" ELSE "checked"

Downloads == /\ MayDownload /\ job'.stage = "downloaded"
             /\ job'.st = job.st /\ UNCHANGED release

Deploys == /\ At("downloaded") /\ job'.stage \in Deployed /\ Releases(Candidate)
           /\ job'.st.rel = Candidate /\ job'.st.check = job.time

Undeploys == /\ Terminating /\ job.seen.fin /\ job'.stage = "uninstalled"
             /\ Releases(NoRelease)

LEMMA ProceedsHow ==
    ASSUME OwnInv, Proceeds
    PROVE  /\ job \in Job /\ SameCall
           /\ Looks \/ Downloads \/ Deploys \/ Undeploys
<1>1. job \in Job /\ job # Idle
  BY AtStage DEF Proceeds, FindsNone, Looking, Download, MayDownload, Accepted, Install,
                 Update, Reconcile, Uninstall, Terminating, At, Stages, OwnInv, TypeInv
<1>2. TypeOK /\ Idle.stage \notin Stages /\ job.inst \in Inst
  BY <1>1, JobStatuses DEF OwnInv, TypeInv, Idle, Stages
<1>3. ASSUME NEW kind \in Services, FindsNone(kind) PROVE SameCall /\ Looks
  <2>. DEFINE j == [job EXCEPT !.stage = IF kind = "AuthService" THEN "halfway" ELSE "checked"]
  <2>1. job' = j /\ UNCHANGED <<obj, release>>
    BY <1>3, Zenon DEF FindsNone, GoTo
  <2>2. /\ j.stage = IF kind = "AuthService" THEN "halfway" ELSE "checked"
        /\ j.st = job.st /\ j.inst = job.inst /\ j.seen = job.seen
        /\ j.fresh = job.fresh /\ j.changed = job.changed
        /\ j.secret = job.secret /\ j.time = job.time
    BY <1>1 DEF Job
  <2>3. j # Idle
    BY <1>2, <2>2 DEF Stages
  <2>. HIDE DEF j
  <2>. QED
    BY <1>1, <1>3, <2>1, <2>2, <2>3 DEF SameCall, Looks, FindsNone
<1>4. CASE Download
  <2>. DEFINE j == [job EXCEPT !.stage = "downloaded", !.chart = repo]
  <2>1. job' = j /\ UNCHANGED <<obj, release>>
    BY <1>4, Zenon DEF Download, GoTo
  <2>2. /\ j.stage = "downloaded"
        /\ j.st = job.st /\ j.inst = job.inst /\ j.seen = job.seen
        /\ j.fresh = job.fresh /\ j.changed = job.changed
        /\ j.secret = job.secret /\ j.time = job.time
    BY <1>1 DEF Job
  <2>3. j # Idle
    BY <1>2, <2>2 DEF Stages
  <2>. HIDE DEF j
  <2>. QED
    BY <1>1, <1>4, <2>1, <2>2, <2>3 DEF SameCall, Downloads, Download
<1>5. ASSUME NEW stage \in Deployed, NEW st \in Status, st.check = job.time, At("downloaded"),
             Releases(Candidate), UNCHANGED obj,
             job' = [job EXCEPT !.stage = stage, !.st = [st EXCEPT !.rel = Candidate]]
      PROVE  SameCall /\ Deploys
  <2>. DEFINE w == [st EXCEPT !.rel = Candidate]
              j == [job EXCEPT !.stage = stage, !.st = w]
  <2>1. w.rel = Candidate /\ w.check = job.time
    BY <1>5 DEF Status
  <2>. HIDE DEF w
  <2>2. /\ j.stage = stage
        /\ j.st = w /\ j.inst = job.inst /\ j.seen = job.seen
        /\ j.fresh = job.fresh /\ j.changed = job.changed
        /\ j.secret = job.secret /\ j.time = job.time
    BY <1>1 DEF Job
  <2>3. j # Idle
    BY <1>2, <2>2 DEF Stages, Deployed
  <2>4. job' = j
    BY <1>5 DEF w
  <2>. HIDE DEF j
  <2>. QED
    BY <1>1, <1>5, <2>1, <2>2, <2>3, <2>4 DEF SameCall, Deploys
<1>6. Unfailed \in Status /\ Unfailed.check = job.time
  <2>. DEFINE w == Without(job.seen.st, "Irreconcilable")
  <2>1. w \in Status
    BY <1>1, <1>2, JobStatuses, WithoutType
  <2>2. Synced \in Status /\ Synced.check = job.time
    BY <1>1, <1>2, <2>1, JobStatuses DEF Synced, Status
  <2>. QED
    BY <2>2, WithoutType DEF Unfailed, Without, Status
<1>7. CASE Install \/ Update
  <2>1. PICK stage \in Deployed, reason \in ConditionReasons : Deploy(stage, reason)
    BY <1>7 DEF Install, Update, Deployed, ConditionReasons
  <2>. DEFINE st == With(Unfailed, "Deployed", "True", reason)
  <2>2. st \in Status
    BY <1>2, <1>6, WithType DEF ConditionTypes, ConditionStatuses, TypeOK
  <2>3. st.check = job.time
    BY <1>6 DEF With, Status
  <2>4. /\ release' = [release EXCEPT ![job.inst] = Candidate] /\ UNCHANGED obj
        /\ job' = [job EXCEPT !.stage = stage, !.st = [st EXCEPT !.rel = Candidate]]
    BY <2>1, Zenon DEF Deploy, GoTo
  <2>. HIDE DEF st
  <2>5. Releases(Candidate) /\ At("downloaded")
    BY <1>2, <1>7, <2>4 DEF Releases, TypeOK, Install, Update
  <2>. QED
    BY <1>1, <1>5, <2>2, <2>3, <2>4, <2>5
<1>8. CASE Reconcile
  <2>. DEFINE st == Without(Unfailed, "Irreconcilable")
  <2>1. st \in Status /\ st.check = job.time
    BY <1>6, WithoutType DEF Without, Status
  <2>2. job' = [job EXCEPT !.stage = "reconciled", !.st = [st EXCEPT !.rel = Candidate]]
    BY <1>8, Zenon DEF Reconcile, GoTo
  <2>. HIDE DEF st
  <2>3. Releases(Candidate) /\ At("downloaded") /\ UNCHANGED obj
    BY <1>8 DEF Reconcile, Releases
  <2>. QED
    BY <1>1, <1>5, <2>1, <2>2, <2>3 DEF Deployed
<1>9. CASE Uninstall
  <2>1. PICK st : job' = [job EXCEPT !.stage = "uninstalled", !.st = st]
    BY <1>9, Zenon DEF Uninstall, GoTo
  <2>2. /\ job'.stage = "uninstalled" /\ job'.inst = job.inst /\ job'.seen = job.seen
        /\ job'.fresh = job.fresh /\ job'.changed = job.changed
        /\ job'.secret = job.secret /\ job'.time = job.time
    BY <1>1, <2>1 DEF Job
  <2>3. job' # Idle
    BY <1>2, <2>2 DEF Stages
  <2>4. Terminating /\ job.seen.fin /\ UNCHANGED obj
        /\ release' = [release EXCEPT ![job.inst] = NoRelease]
    BY <1>9 DEF Uninstall
  <2>. QED
    BY <1>1, <1>2, <2>2, <2>3, <2>4 DEF SameCall, Undeploys, Releases, TypeOK
<1>. QED
  BY <1>1, <1>3, <1>4, <1>7, <1>8, <1>9 DEF Proceeds

\* A user's edit of a CR leaves what the operator stored in it.
LEMMA UserKeeps ==
    ASSUME OwnInv, NEW i \in Inst, Edit(i) \/ Delete(i) \/ LetGo(i),
           NEW k \in Inst, Exists(k)'
    PROVE  /\ Exists(k) /\ obj'[k].st = obj[k].st /\ obj'[k].hash = obj[k].hash
           /\ obj[k].gone => obj'[k].gone
           /\ k # i => obj'[k] = obj[k]
<1>1. obj[i] \in Object
  BY DEF Edit, Delete, LetGo, OwnInv, TypeInv, TypeOK
<1>2. \/ \E spec : obj' = [obj EXCEPT ![i].spec = spec]
      \/ obj' = [obj EXCEPT ![i].gone = TRUE]
      \/ obj' = [obj EXCEPT ![i].held = FALSE]
      \/ obj' = [obj EXCEPT ![i] = NoObj]
  BY DEF Edit, Delete, LetGo
<1>3. CASE k = i
  BY <1>1, <1>2, <1>3 DEF Edit, Delete, LetGo, Exists, Object, OwnInv, TypeInv, TypeOK
<1>4. CASE k # i
  <2>1. obj'[k] = obj[k]
    BY <1>2, <1>4 DEF OwnInv, TypeInv, TypeOK
  <2>. QED
    BY <1>4, <2>1 DEF Exists
<1>. QED
  BY <1>3, <1>4

\* ... and the call as it is, but for its freshness.
LEMMA DisturbKeepsCall ==
    ASSUME OwnInv, NEW i \in Inst, Disturb(i), job' # Idle
    PROVE  /\ job # Idle /\ job'.inst = job.inst /\ job'.seen = job.seen
           /\ job'.stage = job.stage /\ job'.st = job.st /\ job'.changed = job.changed
           /\ job'.secret = job.secret /\ job'.time = job.time
<1>1. job' = job \/ (job # Idle /\ job' = [job EXCEPT !.fresh = FALSE])
  BY DEF Disturb
<1>2. job # Idle => job \in Job
  BY DEF OwnInv, TypeInv, TypeOK
<1>. QED
  BY <1>1, <1>2 DEF Job

\* A call whose copies stay as they are, while its CR keeps what it stores.
LEMMA HandStays ==
    ASSUME HandInv, job # Idle,
           job'.inst = job.inst, job'.seen = job.seen, job'.stage = job.stage,
           job'.st = job.st, job'.changed = job.changed, job'.secret = job.secret,
           job'.time = job.time,
           job.seen.fin => /\ obj'[job.inst].st = obj[job.inst].st
                           /\ obj'[job.inst].hash = obj[job.inst].hash
    PROVE  HandInv'
BY DEF HandInv, NotNow

\* The gate: what a call that deploys has passed.
LEMMA GatePassed ==
    ASSUME HandInv, job # Idle, MayDownload
    PROVE  /\ ~NotNow /\ job.seen.spec.params = "ok"
           /\ job.stage \in Deploying /\ job.stage \in Undecided
BY DEF MayDownload, Accepted, At, HandInv, Deploying, Undecided, NotNow

LEMMA ProceedHand ==
    ASSUME OwnInv, HandInv, Proceeds
    PROVE  HandInv'
<1>1. job \in Job /\ SameCall /\ (Looks \/ Downloads \/ Deploys \/ Undeploys)
  BY ProceedsHow
<1>. USE DEF SameCall
<1>2. CASE Looks
  <2>1. /\ job.stage \in Deploying /\ job.stage \in Undecided
        /\ Migrating(job.seen) /\ job.seen.spec.params = "ok"
    BY <1>1, <1>2 DEF Looks, Looking, Accepted, At, Deploying, Undecided, HandInv
  <2>2. job'.stage \in {"halfway", "checked"} /\ job'.st = job.st
    BY <1>2 DEF Looks
  <2>. QED
    BY <1>1, <2>1, <2>2 DEF HandInv, Deploying, Undecided, Deployed
<1>3. CASE Downloads
  <2>1. /\ ~NotNow /\ job.seen.spec.params = "ok"
        /\ job.stage \in Deploying /\ job.stage \in Undecided
    BY <1>1, <1>3, GatePassed DEF Downloads
  <2>2. ~NotNow'
    BY <1>1, <2>1 DEF NotNow
  <2>3. job'.stage = "downloaded" /\ job'.st = job.st
    BY <1>3 DEF Downloads
  <2>. QED
    BY <1>1, <2>1, <2>2, <2>3 DEF HandInv, Deploying, Undecided, Deployed
<1>4. CASE Deploys
  <2>1. job.stage = "downloaded" /\ Candidate \in Manifest
    BY <1>4, CandidateType DEF Deploys, At, OwnInv
  <2>2. Candidate # NoRelease /\ Candidate.oss = job.seen.spec.oss
    BY <2>1, SentinelAssumption DEF Candidate
  <2>3. job'.stage \in Deployed /\ job'.st.rel = Candidate /\ job'.st.check = job.time
    BY <1>4 DEF Deploys
  <2>. QED
    BY <1>1, <2>1, <2>2, <2>3 DEF HandInv, Deploying, Undecided, Deployed
<1>5. CASE Undeploys
  <2>1. job'.stage = "uninstalled"
    BY <1>5 DEF Undeploys
  <2>. QED
    BY <1>1, <2>1 DEF HandInv, Deploying, Undecided, Deployed
<1>. QED
  BY <1>1, <1>2, <1>3, <1>4, <1>5

\* How the hash of the spec is recorded.
Records ==
    /\ job \in Job /\ job # Idle /\ job.fresh /\ Alive /\ job' # Idle
    /\ obj[job.inst] = job.seen /\ obj[job.inst] \in Object
    /\ obj' = [obj EXCEPT ![job.inst] = job'.seen]
    /\ job'.seen = [job.seen EXCEPT !.hash = job.seen.spec]
    /\ job'.stage = "recorded" /\ job'.inst = job.inst /\ job'.fresh
    /\ job'.st = Initialized(job.st) /\ job'.changed = HasChangedSpec(job.seen)
    /\ job'.secret = (LastType(job.seen.st) # "Deployed") /\ job'.time = now
    /\ UNCHANGED release

LEMMA RecordsHow ==
    ASSUME OwnInv, RecordSpecHash, job.fresh
    PROVE  Records
<1>1. job \in Job /\ job # Idle /\ Alive
  BY AtStage DEF RecordSpecHash, Alive, At, Stages, OwnInv, TypeInv
<1>2. obj[job.inst] = job.seen /\ job.seen \in Object
  BY <1>1, JobStatuses DEF OwnInv, TypeInv, JobCurrent
<1>. DEFINE o == [job.seen EXCEPT !.hash = job.seen.spec]
            j == [job EXCEPT !.stage = "recorded", !.seen = o,
                             !.st      = Initialized(job.st),
                             !.changed = HasChangedSpec(job.seen),
                             !.secret  = LastType(job.seen.st) # "Deployed",
                             !.time    = now]
<1>3. obj' = [obj EXCEPT ![job.inst] = o] /\ GoTo(j) /\ UNCHANGED release
  BY Zenon DEF RecordSpecHash
<1>4. /\ j.stage = "recorded" /\ j.seen = o /\ j.inst = job.inst /\ j.fresh = job.fresh
      /\ j.st = Initialized(job.st) /\ j.changed = HasChangedSpec(job.seen)
      /\ j.secret = (LastType(job.seen.st) # "Deployed") /\ j.time = now
  <2>. HIDE DEF o
  <2>. QED
    BY <1>1 DEF Job
<1>5. j # Idle
  BY <1>4 DEF Idle
<1>6. job' = j
  BY <1>3 DEF GoTo
<1>. HIDE DEF j
<1>. QED
  BY <1>1, <1>2, <1>3, <1>4, <1>5, <1>6 DEF Records

LEMMA RecordHand ==
    ASSUME OwnInv, StatusInv, HandInv, Records
    PROVE  HandInv'
<1>1. job \in Job /\ job # Idle /\ job.seen \in Object /\ job.st \in Status /\ job.inst \in Inst
  BY JobStatuses DEF Records, OwnInv, TypeInv
<1>2. job'.seen.st = job.seen.st /\ job'.seen.hash = job'.seen.spec
  BY <1>1 DEF Records, Object
<1>3. obj'[job.inst] = job'.seen
  BY <1>1 DEF Records, OwnInv, TypeInv, TypeOK
<1>4. job.st = job.seen.st
  BY <1>1 DEF Records, Alive, At, StatusInv, JobSays
<1>5. Amends(Initialized(job.st), job.seen.st)
  BY <1>1, <1>4, InitializedAmends DEF OwnInv, TypeInv, TypeOK
<1>6. now > 0
  BY DEF OwnInv, ClockInv
<1>. QED
  BY <1>1, <1>2, <1>3, <1>5, <1>6 DEF Records, HandInv, Deploying, Undecided, Deployed

\* The report of an uninstallation stays in hand.
LEMMA ReportHand ==
    ASSUME OwnInv, HandInv, ReportUninstalled, job.fresh
    PROVE  HandInv'
<1>1. job \in Job /\ job # Idle /\ job.inst \in Inst /\ obj[job.inst] = job.seen
      /\ job.seen \in Object
  BY AtStage, JobStatuses DEF ReportUninstalled, At, Stages, OwnInv, TypeInv, JobCurrent
<1>2. /\ obj' = [obj EXCEPT ![job.inst].st = job.st]
      /\ job' = [job EXCEPT !.stage = "reported", !.seen.st = job.st]
  BY DEF ReportUninstalled, WriteStatus, GoTo
<1>3. /\ obj'[job.inst].st = job.st /\ obj'[job.inst].hash = obj[job.inst].hash
  BY <1>1, <1>2 DEF Object, OwnInv, TypeInv, TypeOK
<1>4. /\ job'.stage = "reported" /\ job'.inst = job.inst
      /\ job'.seen.st = job.st /\ job'.seen.hash = job.seen.hash
  BY <1>1, <1>2 DEF Job, Object
<1>. QED
  BY <1>1, <1>3, <1>4 DEF HandInv, Deploying, Undecided, Deployed

\* What a user does keeps what the call knows of its CR: one that it read with
\* the finalizer still exists.
LEMMA UserHand ==
    ASSUME OwnInv, OwnInv', HandInv, NEW i \in Inst,
           Create(i) \/ Edit(i) \/ Delete(i) \/ LetGo(i)
    PROVE  HandInv'
<1>1. Disturb(i)
  BY DEF Create, Edit, Delete, LetGo
<1>2. CASE job' = Idle
  BY <1>2 DEF HandInv
<1>3. CASE job' # Idle
  <2>1. /\ job # Idle /\ job'.inst = job.inst /\ job'.seen = job.seen
        /\ job'.stage = job.stage /\ job'.st = job.st /\ job'.changed = job.changed
        /\ job'.secret = job.secret /\ job'.time = job.time
    BY <1>1, <1>3, DisturbKeepsCall
  <2>2. ASSUME job.seen.fin
        PROVE  /\ obj'[job.inst].st = obj[job.inst].st
               /\ obj'[job.inst].hash = obj[job.inst].hash
    <3>1. job.inst \in Inst /\ Exists(job.inst) /\ obj'[job.inst] # NoObj
      BY <1>3, <2>1, <2>2, JobStatuses, InCall DEF OwnInv, TypeInv, JobHolds, Exists
    <3>2. CASE Create(i)
      <4>1. i # job.inst
        BY <3>1, <3>2 DEF Create, Exists
      <4>. QED
        BY <3>1, <3>2, <4>1 DEF Create, OwnInv, TypeInv, TypeOK
    <3>3. CASE Edit(i) \/ Delete(i) \/ LetGo(i)
      <4>1. PICK k \in Inst : k = job.inst
        BY <3>1
      <4>2. Exists(k)'
        BY <2>1, <3>1, <4>1 DEF Exists
      <4>. QED
        BY <3>3, <4>1, <4>2, UserKeeps
    <3>. QED
      BY <3>2, <3>3
  <2>. QED
    BY <2>1, <2>2, HandStays
<1>. QED
  BY <1>2, <1>3

\* Reading a CR.
LEMMA LookupHand ==
    ASSUME OwnInv, NEW i \in Inst, Lookup(i)
    PROVE  HandInv'
<1>1. CASE obj[i] = NoObj
  BY <1>1 DEF Lookup, HandInv
<1>2. CASE obj[i] # NoObj
  <2>1. /\ job'.stage = "loaded" /\ job'.inst = i /\ job'.seen = obj[i]
        /\ job'.st = obj[i].st
    BY <1>2 DEF Lookup
  <2>. QED
    BY <2>1 DEF Lookup, HandInv, Amends, Deploying, Deployed
<1>. QED
  BY <1>1, <1>2

LEMMA NextHand ==
    ASSUME OwnInv, OwnInv', StatusInv, HandInv, [Next]_vars
    PROVE  HandInv'
<1>1. CASE UNCHANGED <<job, obj>>
  BY <1>1 DEF HandInv, NotNow
<1>2. CASE \/ CacheCatchesUp \/ ToggleAuth \/ Publish \/ Tick \/ UNCHANGED vars
           \/ \E i \in Inst : TimerFires(i)
  BY <1>1, <1>2 DEF CacheCatchesUp, ToggleAuth, Publish, Tick, vars, TimerFires
<1>3. CASE \E i \in Inst : Lookup(i)
  BY <1>3, LookupHand
<1>4. CASE \E i \in Inst : Create(i) \/ Edit(i) \/ Delete(i) \/ LetGo(i)
  BY <1>4, UserHand
<1>5. CASE Handle \/ Fail
  <2>1. CASE job' = Idle
    BY <2>1 DEF HandInv
  <2>. QED
    BY <1>5, <2>1, CallStep, ProceedHand, RecordsHow, RecordHand, ReportHand
<1>. QED
  BY <1>2, <1>3, <1>4, <1>5 DEF Next, Environment

\* From the hash that it records to the release that it deploys a call goes
\* through the gate, the lookups and Helm with one copy of the CR, which differs
\* from the CR by the edits of users only (reconcile.go:276-290,
\* reconcile_update.go:133-160).
THEOREM CopiesAreKept == Spec => []HandInv
<1>1. Init => HandInv
  BY DEF Init, HandInv
<1>2. OwnInv /\ OwnInv' /\ StatusInv /\ HandInv /\ [Next]_vars => HandInv'
  BY NextHand
<1>. QED
  BY <1>1, <1>2, OwnershipIsKept, StatusesAreKept, PTL DEF Spec

-----------------------------------------------------------------------------
\* The reconciler implements the lifecycle.

LifecycleStep == [Lifecycle!Next]_(Lifecycle!vars)

\* A CR of which neither existence, deletion, duplicate mark nor release
\* changes stays in its phase.
LEMMA PhaseStays ==
    ASSUME NEW i \in Inst, Exists(i)' <=> Exists(i), Installed(i)' <=> Installed(i),
           Exists(i) => /\ obj'[i].gone = obj[i].gone
                        /\ obj'[i].created = obj[i].created
                        /\ \/ Installed(i)
                           \/ IsDuplicate(obj'[i].st) <=> IsDuplicate(obj[i].st)
    PROVE  PhaseOf(i)' = PhaseOf(i) /\ Created(i)' = Created(i)
BY DEF PhaseOf, Created, Exists, Installed, IsDuplicate

\* No CR changes its phase.
LEMMA NoPhaseMoves ==
    ASSUME UNCHANGED now,
           \A i \in Inst : PhaseOf(i)' = PhaseOf(i) /\ Created(i)' = Created(i)
    PROVE  LifecycleStep
<1>1. /\ [i \in Inst |-> PhaseOf(i)]' = [i \in Inst |-> PhaseOf(i)]
      /\ [i \in Inst |-> Created(i)]' = [i \in Inst |-> Created(i)]
  OBVIOUS
<1>. QED
  BY <1>1 DEF LifecycleStep, Lifecycle!vars

LEMMA NothingChanges ==
    ASSUME UNCHANGED <<obj, release, now>>
    PROVE  LifecycleStep
<1>1. \A i \in Inst : PhaseOf(i)' = PhaseOf(i) /\ Created(i)' = Created(i)
  BY DEF PhaseOf, Created, Exists, Installed, IsDuplicate
<1>. QED
  BY <1>1, NoPhaseMoves

\* Nobody precedes the oldest CR.
LEMMA OldestIsNotPreceded ==
    ASSUME TypeOK, NEW i \in Inst, Exists(i), Oldest(i)
    PROVE  ~Lifecycle!Preceded(i)
<1>1. ASSUME NEW j \in Inst, PhaseOf(j) # "absent", Created(j) < Created(i)
      PROVE  FALSE
  <2>1. Exists(j)
    BY <1>1 DEF PhaseOf
  <2>2. obj[i].created <= obj[j].created
    BY <2>1 DEF Oldest
  <2>. QED
    BY <1>1, <2>1, <2>2, Stamps DEF Created, Exists
<1>. QED
  BY <1>1 DEF Lifecycle!Preceded

\* One CR changes its phase, the others are left alone.
LEMMA OnePhaseMoves ==
    ASSUME NEW i \in Inst, UNCHANGED now,
           \A k \in Inst \ {i} : obj'[k] = obj[k] /\ release'[k] = release[k],
           NEW from, NEW to, PhaseOf(i) = from, PhaseOf(i)' = to
    PROVE  /\ Lifecycle!Moves(i, from, to)
           /\ [k \in Inst |-> Created(k)]' =
                 [[k \in Inst |-> Created(k)] EXCEPT ![i] = Created(i)']
<1>1. \A k \in Inst \ {i} : PhaseOf(k)' = PhaseOf(k) /\ Created(k)' = Created(k)
  BY DEF PhaseOf, Created, Exists, Installed, IsDuplicate
<1>2. [k \in Inst |-> PhaseOf(k)]' = [[k \in Inst |-> PhaseOf(k)] EXCEPT ![i] = to]
  BY <1>1
<1>. QED
  BY <1>1, <1>2 DEF Lifecycle!Moves

\* What a write of the status changes.
LEMMA WriteChanges ==
    ASSUME TypeInv, job \in Job, job # Idle, NEW st \in Status,
           WriteStatus(st) \/ UNCHANGED obj
    PROVE  /\ \A k \in Inst \ {job.inst} : obj'[k] = obj[k]
           /\ \/ obj'[job.inst] = obj[job.inst]
              \/ /\ job.fresh /\ obj[job.inst] = job.seen
                 /\ obj[job.inst] # NoObj /\ obj'[job.inst] # NoObj
                 /\ obj'[job.inst].st = st
                 /\ obj'[job.inst].gone = obj[job.inst].gone
                 /\ obj'[job.inst].created = obj[job.inst].created
<1>1. CASE WriteStatus(st) /\ job.fresh
  <2>1. obj' = [obj EXCEPT ![job.inst].st = st]
    BY <1>1 DEF WriteStatus
  <2>2. obj[job.inst] = job.seen /\ job.seen \in Object /\ job.inst \in Inst
    BY <1>1, JobStatuses DEF TypeInv, JobCurrent
  <2>. DEFINE o == [job.seen EXCEPT !.st = st]
  <2>3. o \in Object /\ o.st = st /\ o.gone = job.seen.gone /\ o.created = job.seen.created
    BY <2>2 DEF Object
  <2>4. obj' = [obj EXCEPT ![job.inst] = o]
    BY <2>1, <2>2
  <2>. HIDE DEF o
  <2>. QED
    BY <1>1, <2>2, <2>3, <2>4, SentinelAssumption DEF TypeInv, TypeOK
<1>2. CASE UNCHANGED obj
  BY <1>2
<1>. QED
  BY <1>1, <1>2 DEF WriteStatus

\* A call writes a status that is as much of a duplicate as the one before.
LEMMA WriteStutters ==
    ASSUME TypeInv, job \in Job, job # Idle, NEW st \in Status,
           WriteStatus(st) \/ UNCHANGED obj, UNCHANGED <<release, now>>,
           IsDuplicate(st) <=> IsDuplicate(job.seen.st)
    PROVE  LifecycleStep
<1>1. job.inst \in Inst
  BY DEF Job
<1>2. ASSUME NEW i \in Inst
      PROVE  PhaseOf(i)' = PhaseOf(i) /\ Created(i)' = Created(i)
  <2>1. \/ obj'[i] = obj[i]
        \/ /\ obj[i] = job.seen
           /\ obj[i] # NoObj /\ obj'[i] # NoObj
           /\ obj'[i].st = st
           /\ obj'[i].gone = obj[i].gone
           /\ obj'[i].created = obj[i].created
    BY WriteChanges
  <2>. QED
    BY <2>1 DEF PhaseOf, Created, Exists, Installed, IsDuplicate
<1>. QED
  BY <1>2, NoPhaseMoves

\* A call that installs or updates gives its CR a release or not, and writes a
\* status that is none of a duplicate, or not.
LEMMA DeployingSteps ==
    ASSUME OwnInv, StatusInv, job \in Job, job # Idle, job.stage \in Deploying,
           NEW st \in Status, ~IsDuplicate(st), WriteStatus(st) \/ UNCHANGED obj,
           UNCHANGED now,
           \/ UNCHANGED release
           \/ \E m : m # NoRelease /\ release' = [release EXCEPT ![job.inst] = m]
    PROVE  LifecycleStep
<1>1. SUFFICES ASSUME NEW i \in Inst, i = job.inst
               PROVE  LifecycleStep
  BY DEF Job
<1>2. Owner(i) /\ Exists(i) /\ Oldest(i) /\ ~IsDuplicate(obj[i].st)
  <2>1. Owner(i)
    BY <1>1 DEF Owner
  <2>. QED
    BY <1>1, <2>1 DEF OwnInv, OwnersAreEligible, Eligible, StatusInv, StoredSays
<1>3. /\ \A k \in Inst \ {i} : obj'[k] = obj[k]
      /\ obj'[i] # NoObj /\ obj'[i].gone = obj[i].gone
      /\ obj'[i].created = obj[i].created
      /\ \/ obj'[i].st = obj[i].st
         \/ obj'[i].st = st
  BY <1>1, <1>2, WriteChanges DEF Exists, OwnInv
<1>4. /\ \A k \in Inst \ {i} : release'[k] = release[k]
      /\ release'[i] = release[i] \/ release'[i] # NoRelease
  BY <1>1 DEF OwnInv, TypeInv, TypeOK
<1>5. ~Lifecycle!Preceded(i)
  BY <1>1, <1>2, OldestIsNotPreceded DEF OwnInv, TypeInv
<1>6. ~IsDuplicate(obj'[i].st)
  BY <1>2, <1>3 DEF IsDuplicate
<1>7. Created(i)' = Created(i)
  BY <1>2, <1>3 DEF Created, Exists
<1>8. CASE release[i] # NoRelease \/ release'[i] = NoRelease
  <2>1. PhaseOf(i)' = PhaseOf(i)
    BY <1>2, <1>3, <1>4, <1>6, <1>8 DEF PhaseOf, Exists, Installed, IsDuplicate
  <2>2. \A k \in Inst : PhaseOf(k)' = PhaseOf(k) /\ Created(k)' = Created(k)
    BY <1>3, <1>4, <1>7, <2>1 DEF PhaseOf, Created, Exists, Installed, IsDuplicate
  <2>. QED
    BY <2>2, NoPhaseMoves
<1>9. CASE release[i] = NoRelease /\ release'[i] # NoRelease
  <2>1. \/ PhaseOf(i) = "pending" /\ PhaseOf(i)' = "running"
        \/ PhaseOf(i) = "left" /\ PhaseOf(i)' = "leaving"
    BY <1>2, <1>3, <1>6, <1>9 DEF PhaseOf, Exists, Installed, IsDuplicate
  <2>2. /\ \/ Lifecycle!Moves(i, "pending", "running")
           \/ Lifecycle!Moves(i, "left", "leaving")
        /\ [k \in Inst |-> Created(k)]' =
              [[k \in Inst |-> Created(k)] EXCEPT ![i] = Created(i)']
    BY <1>3, <1>4, <1>6, <2>1, OnePhaseMoves
  <2>3. [k \in Inst |-> Created(k)]' = [k \in Inst |-> Created(k)]
    BY <1>7, <2>2
  <2>4. Lifecycle!Start(i)
    BY <1>5, <2>2, <2>3 DEF Lifecycle!Start
  <2>. QED
    BY <2>4 DEF LifecycleStep, Lifecycle!Next
<1>. QED
  BY <1>8, <1>9

\* A call that deletes takes the release of its CR or not, and writes a status
\* that keeps the mark or not.
LEMMA DeletionSteps ==
    ASSUME OwnInv, StatusInv, job \in Job, job # Idle, job.seen.fin, job.seen.gone,
           NEW st \in Status, WriteStatus(st) \/ UNCHANGED obj, UNCHANGED now,
           IsDuplicate(st) <=> IsDuplicate(job.seen.st),
           release' \in {release, [release EXCEPT ![job.inst] = NoRelease]}
    PROVE  LifecycleStep
<1>1. SUFFICES ASSUME NEW i \in Inst, i = job.inst
               PROVE  LifecycleStep
  BY DEF Job
<1>2. Exists(i) /\ obj[i].gone
  BY <1>1 DEF OwnInv, JobHolds
<1>3. /\ \A k \in Inst \ {i} : obj'[k] = obj[k]
      /\ obj'[i] # NoObj /\ obj'[i].gone
      /\ obj'[i].created = obj[i].created
      /\ IsDuplicate(obj'[i].st) <=> IsDuplicate(obj[i].st)
  BY <1>1, <1>2, WriteChanges DEF Exists, OwnInv, IsDuplicate
<1>4. /\ \A k \in Inst \ {i} : release'[k] = release[k]
      /\ release'[i] \in {release[i], NoRelease}
  BY <1>1 DEF OwnInv, TypeInv, TypeOK
<1>5. Created(i)' = Created(i)
  BY <1>2, <1>3 DEF Created, Exists
<1>6. CASE release'[i] = release[i]
  <2>1. PhaseOf(i)' = PhaseOf(i)
    BY <1>2, <1>3, <1>6 DEF PhaseOf, Exists, Installed, IsDuplicate
  <2>2. \A k \in Inst : PhaseOf(k)' = PhaseOf(k) /\ Created(k)' = Created(k)
    BY <1>3, <1>4, <1>5, <2>1 DEF PhaseOf, Created, Exists, Installed, IsDuplicate
  <2>. QED
    BY <2>2, NoPhaseMoves
<1>7. CASE release'[i] # release[i]
  <2>0. Installed(i) /\ ~Installed(i)' /\ ~IsDuplicate(obj[i].st)
    BY <1>2, <1>4, <1>7 DEF StatusInv, StoredSays, Owner, Installed
  <2>1. PhaseOf(i) = "leaving" /\ PhaseOf(i)' = "left"
    BY <1>2, <1>3, <2>0 DEF PhaseOf, Exists, IsDuplicate
  <2>2. /\ Lifecycle!Moves(i, "leaving", "left")
        /\ [k \in Inst |-> Created(k)]' =
              [[k \in Inst |-> Created(k)] EXCEPT ![i] = Created(i)']
    BY <1>2, <1>3, <1>4, <2>1, OnePhaseMoves
  <2>3. [k \in Inst |-> Created(k)]' = [k \in Inst |-> Created(k)]
    BY <1>2, <1>5, <2>2
  <2>4. Lifecycle!Stop(i)
    BY <2>2, <2>3 DEF Lifecycle!Stop
  <2>. QED
    BY <1>2, <2>4 DEF LifecycleStep, Lifecycle!Next
<1>. QED
  BY <1>6, <1>7

\* Conditions of other types come and go, the mark of a duplicate stays.
LEMMA WithKeepsMark ==
    ASSUME NEW st \in Status, MarksTyped(st), now \in Nat,
           NEW ty \in ConditionTypes \ {"Irreconcilable"},
           NEW status \in ConditionStatuses,
           NEW reason \in ConditionReasons \ {"DuplicateError"}
    PROVE  IsDuplicate(With(st, ty, status, reason)) <=> IsDuplicate(st)
<1>. DEFINE w == With(st, ty, status, reason)
<1>1. w \in Status /\ st.conds \in Seq(Condition)
  BY WithType DEF Status
<1>2. w.conds = SetCondition(st.conds, ty, status, reason, now)
  BY DEF With, Status
<1>3. IsDuplicate(w) => IsDuplicate(st)
  BY WithSaysNoMore
<1>. HIDE DEF w
<1>4. \A k \in DOMAIN st.conds :
          st.conds[k].type # ty => \E j \in DOMAIN w.conds : w.conds[j] = st.conds[k]
  BY <1>1, <1>2, SetConditionEntries
<1>5. HasReason(st.conds, "DuplicateError") => HasReason(w.conds, "DuplicateError")
  BY <1>4 DEF HasReason, MarksTyped
<1>6. IsDuplicate(st) => IsDuplicate(w)
  BY <1>1, <1>5, DuplicateIsMarked
<1>. QED
  BY <1>3, <1>6 DEF w

LEMMA WithoutKeepsMark ==
    ASSUME NEW st \in Status, MarksTyped(st), NEW ty, ty # "Irreconcilable"
    PROVE  IsDuplicate(Without(st, ty)) <=> IsDuplicate(st)
<1>. DEFINE w == Without(st, ty)
<1>1. w \in Status /\ st.conds \in Seq(Condition)
  BY WithoutType DEF Status
<1>2. w.conds = RemoveCondition(st.conds, ty)
  BY DEF Without, Status
<1>3. IsDuplicate(w) => IsDuplicate(st)
  BY WithoutSaysNoMore DEF SaysNoMore
<1>. HIDE DEF w
<1>4. \A k \in DOMAIN st.conds :
          st.conds[k].type # ty => \E j \in DOMAIN w.conds : w.conds[j] = st.conds[k]
  BY <1>1, <1>2, RemoveConditionKeeps
<1>5. HasReason(st.conds, "DuplicateError") => HasReason(w.conds, "DuplicateError")
  BY <1>4 DEF HasReason, MarksTyped
<1>6. IsDuplicate(st) => IsDuplicate(w)
  BY <1>1, <1>5, DuplicateIsMarked
<1>. QED
  BY <1>3, <1>6 DEF w

\* So does a failure that is reported.
LEMMA FailureKeepsMark ==
    ASSUME TypeInv, job \in Job, job # Idle, MarksTyped(job.st),
           NEW reason \in ConditionReasons \ {"DuplicateError"}
    PROVE  /\ With(job.st, "Failed", "True", reason) \in Status
           /\ IsDuplicate(With(job.st, "Failed", "True", reason)) <=> IsDuplicate(job.st)
BY WithKeepsMark, WithType, JobStatuses
   DEF TypeInv, TypeOK, ConditionTypes, ConditionStatuses

\* ... and the deletion of a release.
MarkInv ==
    job.stage = "uninstalled" => (IsDuplicate(job.st) <=> IsDuplicate(job.seen.st))

LEMMA UninstallKeepsMark ==
    ASSUME OwnInv, StatusInv, Uninstall
    PROVE  MarkInv'
<1>. DEFINE f == Without(job.st, "Failed")
            w == IF release[job.inst] = NoRelease THEN f
                 ELSE [With(f, "Deployed", "False", "UninstallSuccessful")
                         EXCEPT !.rel = NoRelease]
<1>1. job \in Job /\ job # Idle /\ job.stage = "loaded"
  BY AtStage DEF Uninstall, Terminating, At, Stages, OwnInv, TypeInv
<1>2. /\ job.st \in Status /\ MarksTyped(job.st) /\ job.st = job.seen.st /\ now \in Nat
  BY <1>1, JobStatuses DEF StatusInv, JobSays, OwnInv, TypeInv, TypeOK
<1>3. f \in Status /\ MarksTyped(f) /\ (IsDuplicate(f) <=> IsDuplicate(job.st))
  BY <1>2, WithoutType, WithoutSaysNoMore, WithoutKeepsMark DEF SaysNoMore
<1>4. job' = [job EXCEPT !.stage = "uninstalled", !.st = w]
  BY DEF Uninstall, GoTo
<1>. HIDE DEF f
<1>5. IsDuplicate(w) <=> IsDuplicate(f)
  <2>. DEFINE d == With(f, "Deployed", "False", "UninstallSuccessful")
  <2>1. d \in Status /\ (IsDuplicate(d) <=> IsDuplicate(f))
    BY <1>2, <1>3, WithType, WithKeepsMark
       DEF ConditionTypes, ConditionStatuses, ConditionReasons
  <2>2. w = f \/ w = [d EXCEPT !.rel = NoRelease]
    OBVIOUS
  <2>. HIDE DEF d, w
  <2>. QED
    BY <2>1, <2>2 DEF IsDuplicate, Status
<1>. HIDE DEF w
<1>6. job'.st = w /\ job'.seen = job.seen
  BY <1>1, <1>4 DEF Job
<1>. QED
  BY <1>2, <1>3, <1>5, <1>6 DEF MarkInv, IsDuplicate

LEMMA OthersDoNotUninstall ==
    ASSUME OwnInv, Proceeds, ~Uninstall
    PROVE  job'.stage # "uninstalled"
<1>1. job \in Job /\ job # Idle
  BY ProceedsHow DEF SameCall
<1>2. CASE Download
  BY <1>1, <1>2 DEF Download, GoTo, Job
<1>3. CASE \E kind \in Services : FindsNone(kind)
  BY <1>1, <1>3 DEF FindsNone, GoTo, Job
<1>4. CASE Install \/ Update
  BY <1>1, <1>4 DEF Install, Update, Deploy, GoTo, Job
<1>5. CASE Reconcile
  BY <1>1, <1>5 DEF Reconcile, GoTo, Job
<1>. QED
  BY <1>2, <1>3, <1>4, <1>5 DEF Proceeds

LEMMA NextMark ==
    ASSUME OwnInv, StatusInv, MarkInv, [Next]_vars
    PROVE  MarkInv'
<1>1. CASE UNCHANGED job
  BY <1>1 DEF MarkInv, IsDuplicate
<1>2. CASE \/ CacheCatchesUp \/ ToggleAuth \/ Publish \/ Tick \/ UNCHANGED vars
           \/ \E i \in Inst : TimerFires(i)
  BY <1>1, <1>2 DEF CacheCatchesUp, ToggleAuth, Publish, Tick, vars, TimerFires
<1>3. CASE \E i \in Inst : Lookup(i)
  BY <1>3 DEF Lookup, MarkInv, Idle
<1>4. CASE \E i \in Inst : Create(i) \/ Edit(i) \/ Delete(i) \/ LetGo(i)
  <2>1. job' # Idle => job'.seen = job.seen /\ job'.stage = job.stage /\ job'.st = job.st
    BY <1>4, DisturbKeepsCall DEF Create, Edit, Delete, LetGo
  <2>. QED
    BY <2>1 DEF MarkInv, IsDuplicate, Idle
<1>5. CASE Handle \/ Fail
  <2>1. CASE job' = Idle
    BY <2>1 DEF MarkInv, Idle
  <2>2. CASE Proceeds
    <3>1. CASE Uninstall
      BY <3>1, UninstallKeepsMark
    <3>2. CASE ~Uninstall
      BY <2>2, <3>2, OthersDoNotUninstall DEF MarkInv
    <3>. QED
      BY <3>1, <3>2
  <2>3. CASE RecordSpecHash /\ job.fresh
    BY <2>3, RecordsHow DEF Records, MarkInv
  <2>4. CASE ReportUninstalled /\ job.fresh
    <3>1. job \in Job
      BY <2>4, AtStage DEF ReportUninstalled, At, Stages, OwnInv, TypeInv
    <3>2. job' = [job EXCEPT !.stage = "reported", !.seen.st = job.st]
      BY <2>4 DEF ReportUninstalled, GoTo
    <3>. QED
      BY <3>1, <3>2 DEF Job, MarkInv
  <2>. QED
    BY <1>5, <2>1, <2>2, <2>3, <2>4, CallStep
<1>. QED
  BY <1>2, <1>3, <1>4, <1>5 DEF Next, Environment

\* What a call that deletes is about to write keeps the mark.
LEMMA MarksAreKept == Spec => []MarkInv
<1>1. Init => MarkInv
  BY DEF Init, MarkInv, Idle
<1>2. OwnInv /\ StatusInv /\ MarkInv /\ [Next]_vars => MarkInv'
  BY NextMark
<1>. QED
  BY <1>1, <1>2, OwnershipIsKept, StatusesAreKept, PTL DEF Spec

\* A CR moves within the lifecycle, and no other CR does.
LEMMA PhaseMoves ==
    ASSUME NEW i \in Inst, UNCHANGED now,
           \A k \in Inst \ {i} : obj'[k] = obj[k] /\ release'[k] = release[k],
           \/ PhaseOf(i)' = PhaseOf(i) /\ Created(i)' = Created(i)
           \/ /\ Created(i)' = Created(i)
              /\ <<PhaseOf(i), PhaseOf(i)'>> \in
                    {<<"pending", "refused">>, <<"running", "leaving">>,
                     <<"pending", "left">>, <<"refused", "dropped">>}
           \/ /\ PhaseOf(i) = "absent" /\ PhaseOf(i)' = "pending"
              /\ Created(i)' = now
           \/ /\ PhaseOf(i) \in {"pending", "refused", "left", "dropped"}
              /\ PhaseOf(i)' = "absent" /\ Created(i)' = 0
    PROVE  LifecycleStep
<1>. DEFINE cr == [k \in Inst |-> Created(k)]
<1>1. CASE PhaseOf(i)' = PhaseOf(i) /\ Created(i)' = Created(i)
  <2>1. \A k \in Inst : PhaseOf(k)' = PhaseOf(k) /\ Created(k)' = Created(k)
    BY <1>1 DEF PhaseOf, Created, Exists, Installed, IsDuplicate
  <2>. QED
    BY <2>1, NoPhaseMoves
<1>2. CASE /\ Created(i)' = Created(i)
           /\ <<PhaseOf(i), PhaseOf(i)'>> \in
                 {<<"pending", "refused">>, <<"running", "leaving">>,
                  <<"pending", "left">>, <<"refused", "dropped">>}
  <2>1. cr' = [cr EXCEPT ![i] = Created(i)']
    BY OnePhaseMoves
  <2>2. cr' = cr
    BY <1>2, <2>1
  <2>. HIDE DEF cr
  <2>3. \/ Lifecycle!Moves(i, "pending", "refused")
        \/ Lifecycle!Moves(i, "running", "leaving")
        \/ Lifecycle!Moves(i, "pending", "left")
        \/ Lifecycle!Moves(i, "refused", "dropped")
    BY <1>2, OnePhaseMoves
  <2>. QED
    BY <2>2, <2>3
       DEF LifecycleStep, Lifecycle!Next, Lifecycle!Refuse, Lifecycle!Mark, cr
<1>3. CASE PhaseOf(i) = "absent" /\ PhaseOf(i)' = "pending" /\ Created(i)' = now
  <2>1. Lifecycle!Moves(i, "absent", "pending") /\ cr' = [cr EXCEPT ![i] = now]
    BY <1>3, OnePhaseMoves
  <2>. QED
    BY <2>1 DEF LifecycleStep, Lifecycle!Next, Lifecycle!Create
<1>4. CASE /\ PhaseOf(i) \in {"pending", "refused", "left", "dropped"}
           /\ PhaseOf(i)' = "absent" /\ Created(i)' = 0
  <2>1. Lifecycle!Moves(i, PhaseOf(i), "absent") /\ cr' = [cr EXCEPT ![i] = 0]
    BY <1>4, OnePhaseMoves
  <2>2. \E from \in {"pending", "refused", "left", "dropped"} :
            Lifecycle!Moves(i, from, "absent")
    BY <1>4, <2>1
  <2>. QED
    BY <2>1, <2>2 DEF LifecycleStep, Lifecycle!Next, Lifecycle!Vanish
<1>. QED
  BY <1>1, <1>2, <1>3, <1>4

\* A CR without the finalizer has no release, nor does one that is not there.
LEMMA NoFinalizerNoRelease ==
    ASSUME OwnInv, NEW i \in Inst, ~Exists(i) \/ ~obj[i].fin
    PROVE  ~Installed(i)
BY DEF OwnInv, OwnersAreEligible, Eligible, Owner

\* A duplicate that is marked had no release.
LEMMA MarkDuplicateSteps ==
    ASSUME OwnInv, StatusInv, MarkDuplicate
    PROVE  LifecycleStep
<1>. DEFINE w == With(job.st, "Irreconcilable", "False", "DuplicateError")
<1>1. job \in Job /\ job # Idle
  BY AtStage DEF MarkDuplicate, Alive, At, Stages, OwnInv, TypeInv
<1>2. SUFFICES ASSUME NEW i \in Inst, i = job.inst
               PROVE  LifecycleStep
  BY <1>1 DEF Job
<1>3. w \in Status /\ IsDuplicate(w)
  BY <1>1, MarkIsFound, WithType, JobStatuses
     DEF ConditionTypes, ConditionStatuses, ConditionReasons, OwnInv, TypeInv
<1>4. /\ WriteStatus(w) /\ UNCHANGED <<release, now>>
      /\ ~IsFirst(job.seen) /\ ~job.seen.gone
  BY DEF MarkDuplicate, Alive, world
<1>. HIDE DEF w
<1>5. /\ \A k \in Inst \ {i} : obj'[k] = obj[k]
      /\ \/ obj'[i] = obj[i]
         \/ /\ job.fresh /\ obj[i] = job.seen
            /\ obj[i] # NoObj /\ obj'[i] # NoObj
            /\ obj'[i].st = w
            /\ obj'[i].gone = obj[i].gone
            /\ obj'[i].created = obj[i].created
  BY <1>1, <1>2, <1>3, <1>4, WriteChanges DEF OwnInv
<1>6. CASE obj'[i] = obj[i]
  BY <1>4, <1>5, <1>6, NothingChanges, PhaseMoves
     DEF PhaseOf, Created, Exists, Installed, IsDuplicate
<1>7. CASE obj'[i] # obj[i]
  <2>1. ~Installed(i)
    BY <1>2, <1>4, <1>5, <1>7
       DEF OwnInv, OwnersAreEligible, Eligible, Owner
  <2>2. Created(i)' = Created(i)
    BY <1>5, <1>7 DEF Created
  <2>3. PhaseOf(i)' = "refused" /\ PhaseOf(i) \in {"pending", "refused"}
    BY <1>3, <1>4, <1>5, <1>7, <2>1 DEF PhaseOf, Exists, Installed, IsDuplicate
  <2>. QED
    BY <1>4, <1>5, <2>2, <2>3, PhaseMoves
<1>. QED
  BY <1>6, <1>7

\* The finalizer, the hash and the spec do not tell the phase; without the last
\* finalizer the CR is gone, and its release is by then.
LEMMA ObjectWriteSteps ==
    ASSUME OwnInv, AddFinalizer \/ RecordSpecHash \/ RemoveFinalizer
    PROVE  LifecycleStep
<1>1. job \in Job /\ job # Idle
  BY AtStage
     DEF AddFinalizer, RecordSpecHash, Alive, RemoveFinalizer, At, Stages, OwnInv, TypeInv
<1>2. UNCHANGED <<release, now>>
  BY DEF AddFinalizer, RecordSpecHash, RemoveFinalizer, world
<1>3. CASE ~job.fresh
  BY <1>2, <1>3, NothingChanges DEF AddFinalizer, RecordSpecHash, RemoveFinalizer
<1>4. CASE job.fresh
  <2>1. SUFFICES ASSUME NEW i \in Inst, i = job.inst
                 PROVE  LifecycleStep
    BY <1>1 DEF Job
  <2>2. obj[i] = job.seen /\ job.seen \in Object /\ obj[i] # NoObj
    BY <1>1, <1>4, <2>1, JobStatuses, SentinelAssumption DEF OwnInv, TypeInv, JobCurrent
  <2>. DEFINE Kept(o) == o \in Object /\ o.st = job.seen.st /\ o.gone = job.seen.gone
                         /\ o.created = job.seen.created
  <2>3. \/ RemoveFinalizer /\ ~job.seen.held /\ obj' = [obj EXCEPT ![i] = NoObj]
        \/ \E o : Kept(o) /\ obj' = [obj EXCEPT ![i] = o]
    <3>1. CASE AddFinalizer
      <4>. DEFINE o == [job.seen EXCEPT !.fin = TRUE]
      <4>1. Kept(o)
        BY <2>2 DEF Object
      <4>2. obj' = [obj EXCEPT ![i] = o]
        BY <1>4, <2>1, <2>2, <3>1 DEF AddFinalizer
      <4>. QED
        BY <4>1, <4>2
    <3>2. CASE RecordSpecHash
      <4>. DEFINE o == [job.seen EXCEPT !.hash = job.seen.spec]
      <4>1. Kept(o)
        BY <2>2 DEF Object, Hash
      <4>2. obj' = [obj EXCEPT ![i] = o]
        BY <1>4, <2>1, <3>2, Zenon DEF RecordSpecHash
      <4>. QED
        BY <4>1, <4>2
    <3>3. CASE RemoveFinalizer
      <4>. DEFINE o == [job.seen EXCEPT !.fin = FALSE]
      <4>1. Kept(o)
        BY <2>2 DEF Object
      <4>2. CASE job.seen.held
        <5>1. obj' = [obj EXCEPT ![i] = o]
          BY <1>4, <2>1, <2>2, <3>3, <4>2 DEF RemoveFinalizer
        <5>. QED
          BY <4>1, <5>1
      <4>3. CASE ~job.seen.held
        BY <1>4, <2>1, <3>3, <4>3 DEF RemoveFinalizer
      <4>. QED
        BY <4>2, <4>3
    <3>. QED
      BY <3>1, <3>2, <3>3
  <2>4. CASE \E o : Kept(o) /\ obj' = [obj EXCEPT ![i] = o]
    <3>1. /\ \A k \in Inst \ {i} : obj'[k] = obj[k]
          /\ obj'[i] # NoObj /\ obj'[i].st = obj[i].st /\ obj'[i].gone = obj[i].gone
          /\ obj'[i].created = obj[i].created
      BY <2>2, <2>4, SentinelAssumption DEF OwnInv, TypeInv, TypeOK
    <3>2. PhaseOf(i)' = PhaseOf(i) /\ Created(i)' = Created(i)
      BY <1>2, <2>2, <3>1 DEF PhaseOf, Created, Exists, Installed, IsDuplicate
    <3>. QED
      BY <1>2, <3>1, <3>2, PhaseMoves
  <2>5. CASE RemoveFinalizer /\ ~job.seen.held /\ obj' = [obj EXCEPT ![i] = NoObj]
    <3>1. job.seen.gone /\ ~Installed(i)
      BY <1>1, <2>1, <2>5 DEF RemoveFinalizer, At, OwnInv, JobHolds, Undeploying
    <3>2. obj'[i] = NoObj /\ \A k \in Inst \ {i} : obj'[k] = obj[k]
      BY <2>5 DEF OwnInv, TypeInv, TypeOK
    <3>3. /\ PhaseOf(i) \in {"left", "dropped"} /\ PhaseOf(i)' = "absent"
          /\ Created(i)' = 0
      BY <2>2, <3>1, <3>2 DEF PhaseOf, Created, Exists, Installed
    <3>. QED
      BY <1>2, <3>2, <3>3, PhaseMoves
  <2>. QED
    BY <2>3, <2>4, <2>5
<1>. QED
  BY <1>3, <1>4

\* A status just created has no mark.
LEMMA NewIsNoDuplicate == ~IsDuplicate(NewStatus)
<1>1. NewStatus \in Status
  BY DEF NewStatus, Status
<1>2. ~HasReason(NewStatus.conds, "DuplicateError")
  BY DEF HasReason, NewStatus
<1>. QED
  BY <1>1, <1>2, DuplicateIsMarked

\* Users create CRs, mark them for deletion, and let them go.
LEMMA UserSteps ==
    ASSUME OwnInv, NEW i \in Inst, Create(i) \/ Edit(i) \/ Delete(i) \/ LetGo(i)
    PROVE  LifecycleStep
<1>1. UNCHANGED <<release, now>> /\ \A k \in Inst \ {i} : obj'[k] = obj[k]
  BY DEF Create, Edit, Delete, LetGo, Disturb, OwnInv, TypeInv, TypeOK
<1>2. CASE Create(i)
  <2>1. obj[i] = NoObj
    BY <1>2 DEF Create
  <2>2. PICK spec \in Specs, hash \in InitialHashes, held \in Holds :
            obj' = [obj EXCEPT ![i] =
                      [spec |-> spec, hash |-> hash, fin |-> FALSE, held |-> held,
                       gone |-> FALSE, created |-> now, st |-> NewStatus]]
    BY <1>2 DEF Create
  <2>. DEFINE o == [spec |-> spec, hash |-> hash, fin |-> FALSE, held |-> held,
                    gone |-> FALSE, created |-> now, st |-> NewStatus]
  <2>3. o \in Object
    BY SpecsAssumption, InitialHashesAssumption
       DEF Object, Hash, Status, NewStatus, OwnInv, ClockInv
  <2>4. o.created = now /\ ~o.gone /\ o.st = NewStatus
    OBVIOUS
  <2>5. obj' = [obj EXCEPT ![i] = o]
    BY <2>2
  <2>. HIDE DEF o
  <2>6. obj'[i] = o /\ o # NoObj /\ ~Installed(i)
    BY <2>1, <2>3, <2>5, SentinelAssumption, NoFinalizerNoRelease
       DEF Exists, OwnInv, TypeInv, TypeOK
  <2>7. ~IsDuplicate(obj'[i].st)
    BY <2>4, <2>6, NewIsNoDuplicate
  <2>8. PhaseOf(i) = "absent" /\ PhaseOf(i)' = "pending" /\ Created(i)' = now
    BY <1>1, <2>1, <2>4, <2>6, <2>7
       DEF PhaseOf, Created, Exists, Installed, IsDuplicate
  <2>. QED
    BY <1>1, <2>8, PhaseMoves
<1>3. CASE Edit(i) \/ Delete(i) \/ LetGo(i)
  <2>1. obj[i] \in Object /\ obj[i] # NoObj
    BY <1>3 DEF Edit, Delete, LetGo, OwnInv, TypeInv, TypeOK
  <2>2. \/ \E spec \in Specs : obj' = [obj EXCEPT ![i].spec = spec]
        \/ obj' = [obj EXCEPT ![i].gone = TRUE] /\ ~obj[i].gone
        \/ obj' = [obj EXCEPT ![i].held = FALSE]
        \/ obj' = [obj EXCEPT ![i] = NoObj] /\ ~obj[i].fin
    BY <1>3 DEF Edit, Delete, LetGo
  <2>3. CASE obj' = [obj EXCEPT ![i] = NoObj] /\ ~obj[i].fin
    <3>1. ~Installed(i) /\ obj'[i] = NoObj
      BY <2>3, NoFinalizerNoRelease DEF OwnInv, TypeInv, TypeOK
    <3>2. /\ PhaseOf(i) \in {"pending", "refused", "left", "dropped"}
          /\ PhaseOf(i)' = "absent"
      BY <2>1, <3>1 DEF PhaseOf, Exists, Installed
    <3>3. Created(i)' = 0
      BY <3>1 DEF Created
    <3>. QED
      BY <1>1, <3>2, <3>3, PhaseMoves
  <2>4. CASE obj' = [obj EXCEPT ![i].gone = TRUE] /\ ~obj[i].gone
    <3>1. [obj[i] EXCEPT !.gone = TRUE] \in Object
      BY <2>1 DEF Object
    <3>2. /\ obj'[i] # NoObj /\ obj'[i].gone /\ obj'[i].created = obj[i].created
          /\ obj'[i].st = obj[i].st
      BY <2>1, <2>4, <3>1, SentinelAssumption DEF Object, OwnInv, TypeInv, TypeOK
    <3>3. \/ PhaseOf(i) = "running" /\ PhaseOf(i)' = "leaving"
          \/ PhaseOf(i) = "pending" /\ PhaseOf(i)' = "left"
          \/ PhaseOf(i) = "refused" /\ PhaseOf(i)' = "dropped"
      BY <1>1, <2>1, <2>4, <3>2 DEF PhaseOf, Exists, Installed, IsDuplicate
    <3>4. Created(i)' = Created(i)
      BY <2>1, <3>2 DEF Created
    <3>. QED
      BY <1>1, <3>3, <3>4, PhaseMoves
  <2>5. CASE \/ \E spec \in Specs : obj' = [obj EXCEPT ![i].spec = spec]
             \/ obj' = [obj EXCEPT ![i].held = FALSE]
    <3>1. /\ \A spec \in Specs : [obj[i] EXCEPT !.spec = spec] \in Object
          /\ [obj[i] EXCEPT !.held = FALSE] \in Object
      BY <2>1 DEF Object
    <3>2. /\ obj'[i] # NoObj /\ obj'[i].st = obj[i].st /\ obj'[i].gone = obj[i].gone
          /\ obj'[i].created = obj[i].created
      <4>1. \/ \E spec \in Specs : obj'[i] = [obj[i] EXCEPT !.spec = spec]
            \/ obj'[i] = [obj[i] EXCEPT !.held = FALSE]
        BY <2>5 DEF OwnInv, TypeInv, TypeOK
      <4>2. obj'[i] # NoObj
        BY <3>1, <4>1, SentinelAssumption
      <4>. QED
        BY <2>1, <4>1, <4>2 DEF Object
    <3>3. PhaseOf(i)' = PhaseOf(i) /\ Created(i)' = Created(i)
      BY <1>1, <2>1, <3>2 DEF PhaseOf, Created, Exists, Installed, IsDuplicate
    <3>. QED
      BY <1>1, <3>3, PhaseMoves
  <2>. QED
    BY <2>2, <2>3, <2>4, <2>5
<1>. QED
  BY <1>2, <1>3

\* What a failure adds to the status of a CR that is to be installed is not the
\* mark of a duplicate.
LEMMA FailureIsNoDuplicate ==
    ASSUME OwnInv, StatusInv, job \in Job, job # Idle, job.stage \in Deploying,
           NEW st \in {job.st, job.seen.st, Synced, Unfailed},
           NEW ty \in {"Failed", "Irreconcilable"},
           NEW reason \in ConditionReasons \ {"DuplicateError"}
    PROVE  /\ With(st, ty, "True", reason) \in Status
           /\ ~IsDuplicate(With(st, ty, "True", reason))
<1>1. TypeOK
  BY DEF OwnInv, TypeInv
<1>2. ~IsDuplicate(job.st) /\ ~IsDuplicate(job.seen.st)
  BY DEF StatusInv, JobSays
<1>3. ~IsDuplicate(st)
  BY <1>1, <1>2, SyncedSaysNoMore DEF SaysNoMore
<1>4. st \in Status /\ now \in Nat
  BY <1>1, JobStatuses, SyncedType
<1>5. With(st, ty, "True", reason) \in Status
  BY FailureSayable
<1>6. "True" \in ConditionStatuses /\ ty \in ConditionTypes
  BY DEF ConditionStatuses, ConditionTypes
<1>7. IsDuplicate(With(st, ty, "True", reason)) => IsDuplicate(st)
  BY <1>4, <1>6, WithSaysNoMore
<1>. QED
  BY <1>3, <1>5, <1>7

\* What leads to an installation or an update fails.
LEMMA DeployingGivesUp ==
    ASSUME OwnInv, StatusInv, job.stage \in Deploying,
           NEW st \in {job.st, job.seen.st, Synced, Unfailed},
           NEW ty \in {"Failed", "Irreconcilable"},
           NEW reason \in ConditionReasons \ {"DuplicateError"},
           \/ Reject(With(st, ty, "True", reason))
           \/ FailWith(With(st, ty, "True", reason))
    PROVE  LifecycleStep
<1>. DEFINE w == With(st, ty, "True", reason)
<1>1. job \in Job /\ job # Idle
  BY AtStage DEF Deploying, Stages, OwnInv, TypeInv
<1>2. w \in Status /\ ~IsDuplicate(w)
  BY <1>1, FailureIsNoDuplicate
<1>3. (WriteStatus(w) \/ UNCHANGED obj) /\ UNCHANGED <<release, now>>
  BY DEF Reject, FailWith, TryWriteStatus, world
<1>. HIDE DEF w
<1>. QED
  BY <1>1, <1>2, <1>3, DeployingSteps

\* An installation or an update fails, with or without an effect.
LEMMA DeployingFails ==
    ASSUME OwnInv, StatusInv, At("downloaded"),
           NEW reason \in {"InstallError", "UpdateError"},
           HelmFails(With(Synced, "Failed", "True", reason), Candidate)
    PROVE  LifecycleStep
<1>. DEFINE w == With(Synced, "Failed", "True", reason)
<1>1. job \in Job /\ job # Idle /\ job.stage \in Deploying
  BY AtStage DEF At, Deploying, Stages, OwnInv, TypeInv
<1>2. Candidate # NoRelease
  BY CandidateType, SentinelAssumption DEF OwnInv
<1>3. w \in Status /\ ~IsDuplicate(w)
  BY <1>1, FailureIsNoDuplicate DEF ConditionReasons
<1>4. /\ WriteStatus(w) \/ UNCHANGED obj
      /\ UNCHANGED now
      /\ release' \in {release, [release EXCEPT ![job.inst] = Candidate]}
  BY DEF HelmFails, world
<1>. HIDE DEF w, Candidate
<1>. QED
  BY <1>1, <1>2, <1>3, <1>4, DeployingSteps

LEMMA DeletionFails ==
    ASSUME OwnInv, StatusInv, DeleteFails
    PROVE  LifecycleStep
<1>1. job \in Job /\ job # Idle /\ job.seen.fin /\ job.seen.gone
  BY AtStage DEF DeleteFails, Terminating, At, Stages, OwnInv, TypeInv
<1>2. PICK reason \in {"DownloadError", "UninstallError"} :
          \/ FailWith(With(job.st, "Failed", "True", reason))
          \/ HelmFails(With(job.st, "Failed", "True", reason), NoRelease)
  BY DEF DeleteFails
<1>. DEFINE w == With(job.st, "Failed", "True", reason)
<1>3. w \in Status /\ (IsDuplicate(w) <=> IsDuplicate(job.st)) /\ job.st = job.seen.st
  <2>1. MarksTyped(job.st) /\ job.st = job.seen.st
    BY <1>1 DEF StatusInv, JobSays, DeleteFails, Terminating, At
  <2>. QED
    BY <1>1, <2>1, FailureKeepsMark DEF OwnInv, ConditionReasons
<1>4. /\ WriteStatus(w) \/ UNCHANGED obj
      /\ UNCHANGED now
      /\ release' \in {release, [release EXCEPT ![job.inst] = NoRelease]}
  BY <1>2 DEF FailWith, HelmFails, world
<1>. HIDE DEF w
<1>. QED
  BY <1>1, <1>3, <1>4, DeletionSteps

\* A chart version that is refused is told to duplicates, too: they stay
\* duplicates.
LEMMA RejectVersionSteps ==
    ASSUME OwnInv, StatusInv, RejectVersion
    PROVE  LifecycleStep
<1>. DEFINE w == With(job.st, "Failed", "True", "ParametersError")
<1>1. job \in Job /\ job # Idle /\ job.stage = "loaded"
  BY AtStage DEF RejectVersion, At, Stages, OwnInv, TypeInv
<1>2. MarksTyped(job.st) /\ job.st = job.seen.st
  BY <1>1 DEF StatusInv, JobSays
<1>3. w \in Status /\ (IsDuplicate(w) <=> IsDuplicate(job.st))
  BY <1>1, <1>2, FailureKeepsMark DEF OwnInv, ConditionReasons
<1>4. (WriteStatus(w) \/ UNCHANGED obj) /\ UNCHANGED <<release, now>>
  BY DEF RejectVersion, Reject, TryWriteStatus, world
<1>. HIDE DEF w
<1>. QED
  BY <1>1, <1>2, <1>3, <1>4, WriteStutters DEF OwnInv

LEMMA NextLifecycle ==
    ASSUME OwnInv, StatusInv, MarkInv, [Next]_vars
    PROVE  LifecycleStep
<1>. USE DEF At, Stages, ConditionReasons
<1>1. CASE UNCHANGED <<obj, release, now>>
  BY <1>1, NothingChanges
<1>2. CASE CacheCatchesUp \/ ToggleAuth \/ Publish \/ UNCHANGED vars
           \/ \E i \in Inst : Lookup(i) \/ TimerFires(i)
  BY <1>1, <1>2 DEF CacheCatchesUp, ToggleAuth, Publish, vars, Lookup, TimerFires, world
<1>3. CASE Tick
  <2>1. now' \in Nat /\ now' > now /\ UNCHANGED <<obj, release>>
    BY <1>3 DEF Tick, OwnInv, ClockInv
  <2>2. \A i \in Inst : PhaseOf(i)' = PhaseOf(i) /\ Created(i)' = Created(i)
    BY <2>1 DEF PhaseOf, Created, Exists, Installed, IsDuplicate
  <2>3. /\ [i \in Inst |-> PhaseOf(i)]' = [i \in Inst |-> PhaseOf(i)]
        /\ [i \in Inst |-> Created(i)]' = [i \in Inst |-> Created(i)]
    BY <2>2
  <2>. QED
    BY <2>1, <2>3 DEF LifecycleStep, Lifecycle!Next, Lifecycle!Pass
<1>4. CASE \E i \in Inst : Create(i) \/ Edit(i) \/ Delete(i) \/ LetGo(i)
  BY <1>4, UserSteps
<1>5. CASE Fail
  <2>1. CASE Crash \/ CallFails
    BY <1>1, <2>1 DEF Crash, Restart, CallFails, world
  <2>2. CASE DownloadFails
    <3>1. job.stage \in Deploying
      BY <2>2 DEF DownloadFails, MayDownload, Accepted, Deploying
    <3>. QED
      BY <2>2, <3>1, DeployingGivesUp DEF DownloadFails
  <2>3. CASE SyncFails \/ ReconcileFails
    BY <2>3, DeployingGivesUp DEF SyncFails, ReconcileFails, Deploying
  <2>4. CASE InstallFails \/ UpdateFails
    BY <2>4, DeployingFails DEF InstallFails, UpdateFails
  <2>5. CASE DeleteFails
    BY <2>5, DeletionFails
  <2>. QED
    BY <1>5, <2>1, <2>2, <2>3, <2>4, <2>5 DEF Fail
<1>6. CASE Handle
  <2>1. CASE AddFinalizer \/ RecordSpecHash \/ RemoveFinalizer
    BY <2>1, ObjectWriteSteps
  <2>2. CASE MarkDuplicate \/ RejectVersion
    BY <2>2, MarkDuplicateSteps, RejectVersionSteps
  <2>3. CASE PanicNotListed \/ PanicNoAnnotations \/ \E kind \in Services : PanicNoKind(kind)
    BY <1>1, <2>3 DEF PanicNotListed, PanicNoAnnotations, PanicNoKind, Restart
  <2>4. CASE \/ IgnoreDuplicate \/ Terminated \/ RejectDowngrade \/ Skip \/ RejectRepo
             \/ Download \/ Reconcile \/ \E kind \in Services : FindsNone(kind)
    BY <1>1, <2>4
       DEF IgnoreDuplicate, Terminated, RejectDowngrade, Skip, RejectRepo, Download,
           Reconcile, FindsNone, world
  <2>5. CASE \/ RejectParameters
             \/ \E kind \in Services : CannotMigrate(kind)
    <3>1. job.stage \in Deploying
      BY <2>5 DEF RejectParameters, CannotMigrate, Looking, Accepted, Deploying
    <3>2. \E st \in {job.st, job.seen.st}, reason \in {"ParametersError", "UpgradePrecondError"} :
              \/ Reject(With(st, "Failed", "True", reason))
              \/ FailWith(With(st, "Failed", "True", reason))
      BY <2>5 DEF RejectParameters, CannotMigrate
    <3>. QED
      BY <3>1, <3>2, DeployingGivesUp
  <2>6. CASE Install \/ Update
    <3>1. /\ job.stage = "downloaded"
          /\ release' = [release EXCEPT ![job.inst] = Candidate]
          /\ UNCHANGED <<obj, now>>
      BY <2>6 DEF Install, Update, Deploy, world
    <3>2. Candidate # NoRelease /\ job.stage \in Deploying
      BY <3>1, CandidateType, SentinelAssumption DEF Deploying, OwnInv
    <3>. HIDE DEF Candidate
    <3>3. job \in Job /\ job # Idle
      BY <3>1, AtStage DEF OwnInv, TypeInv
    <3>4. job.st \in Status /\ ~IsDuplicate(job.st)
      BY <3>2, <3>3, JobStatuses DEF OwnInv, TypeInv, StatusInv, JobSays
    <3>. QED
      BY <3>1, <3>2, <3>3, <3>4, DeployingSteps
  <2>7. CASE ReportDeployed \/ ReportReconciled
    <3>1. job \in Job /\ job # Idle /\ job.stage \in Deploying
      BY <2>7, AtStage DEF ReportDeployed, ReportReconciled, Deploying, OwnInv, TypeInv
    <3>2. job.st \in Status /\ ~IsDuplicate(job.st) /\ ~IsDuplicate(job.seen.st)
      BY <3>1, JobStatuses DEF OwnInv, TypeInv, StatusInv, JobSays
    <3>3. (WriteStatus(job.st) \/ UNCHANGED obj) /\ UNCHANGED <<release, now>>
      BY <2>7 DEF ReportDeployed, ReportReconciled, TryWriteStatus, world
    <3>. QED
      BY <3>1, <3>2, <3>3, WriteStutters DEF OwnInv
  <2>8. CASE Uninstall \/ ReportUninstalled
    <3>1. job \in Job /\ job # Idle /\ job.seen.fin /\ job.seen.gone
      BY <2>8, AtStage
         DEF Uninstall, Terminating, ReportUninstalled, OwnInv, TypeInv, JobHolds, Undeploying
    <3>2. job.st \in Status /\ (IsDuplicate(job.st) <=> IsDuplicate(job.seen.st))
      BY <2>8, <3>1, JobStatuses
         DEF Uninstall, Terminating, ReportUninstalled, StatusInv, JobSays, MarkInv,
             OwnInv, TypeInv
    <3>3. /\ WriteStatus(job.st) \/ UNCHANGED obj
          /\ UNCHANGED now
          /\ release' \in {release, [release EXCEPT ![job.inst] = NoRelease]}
      BY <2>8, Zenon DEF Uninstall, ReportUninstalled, world
    <3>. QED
      BY <3>1, <3>2, <3>3, DeletionSteps
  <2>. QED
    BY <1>6, <2>1, <2>2, <2>3, <2>4, <2>5, <2>6, <2>7, <2>8 DEF Handle
<1>. QED
  BY <1>2, <1>3, <1>4, <1>5, <1>6 DEF Next, Environment

\* The reconciler, with its copies, its cache, its retries and its crashes,
\* implements the lifecycle: an Ambassador is started only for a CR that no
\* other precedes and that was never refused, and stopped only after its CR was
\* marked for deletion (reconcile.go:125-450, reconcile_update.go:133-315,
\* reconcile_delete.go).
THEOREM LifecycleIsImplemented == Spec => ImplementsLifecycle
<1>1. Init => Lifecycle!Init
  BY DEF Init, Lifecycle!Init, PhaseOf, Exists, Created
<1>2. OwnInv /\ StatusInv /\ MarkInv /\ [Next]_vars => [Lifecycle!Next]_(Lifecycle!vars)
  BY NextLifecycle DEF LifecycleStep
<1>. QED
  BY <1>1, <1>2, OwnershipIsKept, StatusesAreKept, MarksAreKept, PTL
     DEF Spec, ImplementsLifecycle, Lifecycle!Spec

\* The lifecycle serves the oldest CR, because none is created in the past of
\* another: with phases p and times c of creation at the time t.
Serves(p, c, t) ==
    /\ p \in [Inst -> Lifecycle!Phases] /\ c \in [Inst -> Nat] /\ t \in Nat
    /\ \A k \in Inst : c[k] <= t
    /\ \A k \in Inst : p[k] \in {"running", "leaving"} =>
          ~\E j \in Inst : p[j] # "absent" /\ c[j] < c[k]

LEMMA CreateServes ==
    ASSUME NEW p, NEW c, NEW t, Serves(p, c, t), NEW i \in Inst
    PROVE  Serves([p EXCEPT ![i] = "pending"], [c EXCEPT ![i] = t], t)
BY DEF Serves, Lifecycle!Phases

LEMMA MoveServes ==
    ASSUME NEW p, NEW c, NEW t, Serves(p, c, t), NEW i \in Inst,
           NEW to \in Lifecycle!Phases, p[i] # "absent",
           \/ to \notin {"running", "leaving"} \/ p[i] \in {"running", "leaving"}
           \/ ~\E j \in Inst : p[j] # "absent" /\ c[j] < c[i]
    PROVE  Serves([p EXCEPT ![i] = to], c, t)
BY DEF Serves

LEMMA VanishServes ==
    ASSUME NEW p, NEW c, NEW t, Serves(p, c, t), NEW i \in Inst
    PROVE  Serves([p EXCEPT ![i] = "absent"], [c EXCEPT ![i] = 0], t)
BY DEF Serves, Lifecycle!Phases

LEMMA PassServes ==
    ASSUME NEW p, NEW c, NEW t, Serves(p, c, t),
           NEW q, q = p, NEW d, d = c, NEW u, u \in Nat, u >= t
    PROVE  Serves(q, d, u)
BY DEF Serves

LifecycleInv == Lifecycle!TypeOK /\ Lifecycle!NoneFromTheFuture /\ Lifecycle!OldestRun

LEMMA LifecycleKeeps ==
    ASSUME LifecycleInv, [Lifecycle!Next]_(Lifecycle!vars)
    PROVE  LifecycleInv'
<1>. DEFINE ph == [k \in Inst |-> PhaseOf(k)]
            cr == [k \in Inst |-> Created(k)]
<1>1. LifecycleInv <=> Serves(ph, cr, now)
  BY DEF LifecycleInv, Lifecycle!TypeOK, Lifecycle!NoneFromTheFuture, Lifecycle!OldestRun,
     Lifecycle!Preceded, Serves
<1>2. LifecycleInv' <=> Serves(ph', cr', now')
  BY DEF LifecycleInv, Lifecycle!TypeOK, Lifecycle!NoneFromTheFuture, Lifecycle!OldestRun,
     Lifecycle!Preceded, Serves
<1>3. \A i, from, to : Lifecycle!Moves(i, from, to) =>
          ph[i] = from /\ ph' = [ph EXCEPT ![i] = to] /\ now' = now
  BY DEF Lifecycle!Moves
<1>4. \A i : Lifecycle!Preceded(i) <=> \E j \in Inst : ph[j] # "absent" /\ cr[j] < cr[i]
  BY DEF Lifecycle!Preceded
<1>5. ASSUME NEW i \in Inst, Lifecycle!Create(i) PROVE Serves(ph', cr', now')
  <2>1. cr' = [cr EXCEPT ![i] = now]
    BY <1>5 DEF Lifecycle!Create
  <2>2. ph' = [ph EXCEPT ![i] = "pending"] /\ now' = now
    BY <1>3, <1>5 DEF Lifecycle!Create
  <2>. HIDE DEF ph, cr
  <2>. QED
    BY <1>1, <2>1, <2>2, CreateServes
<1>6. ASSUME NEW i \in Inst, Lifecycle!Vanish(i) PROVE Serves(ph', cr', now')
  <2>1. cr' = [cr EXCEPT ![i] = 0]
    BY <1>6 DEF Lifecycle!Vanish
  <2>2. ph' = [ph EXCEPT ![i] = "absent"] /\ now' = now
    BY <1>3, <1>6 DEF Lifecycle!Vanish
  <2>. HIDE DEF ph, cr
  <2>. QED
    BY <1>1, <2>1, <2>2, VanishServes
<1>7. ASSUME NEW i \in Inst,
             \/ Lifecycle!Refuse(i) \/ Lifecycle!Start(i)
             \/ Lifecycle!Mark(i) \/ Lifecycle!Stop(i)
      PROVE  Serves(ph', cr', now')
  <2>1. cr' = cr
    BY <1>7 DEF Lifecycle!Refuse, Lifecycle!Start, Lifecycle!Mark, Lifecycle!Stop
  <2>2. PICK from \in Lifecycle!Phases \ {"absent"}, to \in Lifecycle!Phases :
            /\ Lifecycle!Moves(i, from, to)
            /\ \/ to \notin {"running", "leaving"} \/ from \in {"running", "leaving"}
               \/ ~Lifecycle!Preceded(i)
    BY <1>7
       DEF Lifecycle!Refuse, Lifecycle!Start, Lifecycle!Mark, Lifecycle!Stop, Lifecycle!Phases
  <2>3. ph[i] = from /\ ph' = [ph EXCEPT ![i] = to] /\ now' = now
    BY <1>3, <2>2
  <2>. HIDE DEF ph, cr
  <2>. QED
    BY <1>1, <1>4, <2>1, <2>2, <2>3, MoveServes
<1>8. ASSUME Lifecycle!Pass PROVE Serves(ph', cr', now')
  <2>1. ph' = ph /\ cr' = cr
    BY <1>8 DEF Lifecycle!Pass
  <2>2. now' \in Nat /\ now' >= now
    BY <1>8 DEF Lifecycle!Pass, LifecycleInv, Lifecycle!TypeOK
  <2>3. Serves(ph, cr, now)
    BY <1>1
  <2>. HIDE DEF ph, cr
  <2>. QED
    BY <2>1, <2>2, <2>3, PassServes
<1>9. ASSUME UNCHANGED Lifecycle!vars PROVE Serves(ph', cr', now')
  <2>1. ph' = ph /\ cr' = cr /\ now' = now
    BY <1>9 DEF Lifecycle!vars
  <2>2. now \in Nat
    BY DEF LifecycleInv, Lifecycle!TypeOK
  <2>3. Serves(ph, cr, now)
    BY <1>1
  <2>. HIDE DEF ph, cr
  <2>. QED
    BY <2>1, <2>2, <2>3, PassServes
<1>. QED
  BY <1>2, <1>5, <1>6, <1>7, <1>8, <1>9 DEF Lifecycle!Next

\* Whose Ambassador runs, no CR precedes, in every behaviour that the lifecycle
\* allows, and so in every behaviour of the reconciler
\* (reconcile.go:254-274, reconcile_utils.go:48-75).
THEOREM LifecycleServesOldest == Spec => []Lifecycle!OldestRun
<1>1. Lifecycle!Init => LifecycleInv
  BY DEF Lifecycle!Init, LifecycleInv, Lifecycle!TypeOK, Lifecycle!Phases,
     Lifecycle!NoneFromTheFuture, Lifecycle!OldestRun
<1>2. LifecycleInv /\ [Lifecycle!Next]_(Lifecycle!vars) => LifecycleInv'
  BY LifecycleKeeps
<1>3. LifecycleInv => Lifecycle!OldestRun
  BY DEF LifecycleInv
<1>4. Lifecycle!Spec => []Lifecycle!OldestRun
  BY <1>1, <1>2, <1>3, PTL DEF Lifecycle!Spec
<1>. QED
  BY <1>4, LifecycleIsImplemented, PTL DEF ImplementsLifecycle

-----------------------------------------------------------------------------
\* A migration that is blocked.

Blocked(i, kind) == auth[kind] = "some" /\ Exists(i) /\ ~obj[i].gone

NamesOSS(st) == st.rel # NoRelease /\ st.rel.oss

\* The API Gateway runs, all statuses say so, and no call has got past the
\* lookup of the kind or the gate of a spec that asks for the Edge Stack.
StaysOSS(i, kind) ==
    /\ RunsOSS(i) /\ NamesOSS(obj[i].st)
    /\ job # Idle /\ job.inst = i =>
          /\ NamesOSS(job.seen.st)
          /\ job.stage # "checked" /\ (kind = "AuthService" => job.stage # "halfway")
          /\ job.stage \in {"downloaded"} \cup Deployed => job.seen.spec.oss

\* The steps of a call keep it so.
LEMMA ProceedBlocked ==
    ASSUME OwnInv, NEW i \in Inst, NEW kind \in Services, Blocked(i, kind),
           StaysOSS(i, kind), Proceeds
    PROVE  StaysOSS(i, kind)'
<1>1. job \in Job /\ SameCall /\ (Looks \/ Downloads \/ Deploys \/ Undeploys)
  BY ProceedsHow
<1>. USE DEF SameCall
<1>2. CASE job.inst # i
  <2>1. release'[i] = release[i]
    BY <1>1, <1>2 DEF Looks, Downloads, Deploys, Undeploys, Releases
  <2>. QED
    BY <1>1, <1>2, <2>1 DEF StaysOSS, RunsOSS, Installed, NamesOSS
<1>3. CASE job.inst = i /\ Looks
  <2>1. PICK k \in Services :
            /\ Looking(k) /\ Present(k) = "none"
            /\ job'.stage = IF k = "AuthService" THEN "halfway" ELSE "checked"
    BY <1>3 DEF Looks
  <2>2. k # kind
    BY <2>1 DEF Present, Blocked
  <2>3. k = "RateLimitService" => job.stage = "halfway" /\ kind = "AuthService"
    BY <2>1, <2>2 DEF Looking, At, Services
  <2>4. k = "AuthService" /\ job'.stage = "halfway" /\ kind # "AuthService"
    BY <1>1, <1>3, <2>1, <2>2, <2>3 DEF StaysOSS, Services
  <2>. QED
    BY <1>1, <1>3, <2>4 DEF Looks, StaysOSS, RunsOSS, Installed, NamesOSS, Deployed
<1>4. CASE job.inst = i /\ Downloads
  <2>1. ~Migrating(job.seen) /\ NamesOSS(job.seen.st)
    BY <1>1, <1>4 DEF Downloads, MayDownload, At, StaysOSS
  <2>2. job.seen.spec.oss /\ job'.stage = "downloaded"
    BY <1>4, <2>1 DEF Migrating, NamesOSS, Downloads
  <2>. QED
    BY <1>1, <1>4, <2>1, <2>2 DEF Downloads, StaysOSS, RunsOSS, Installed, NamesOSS
<1>5. CASE job.inst = i /\ Deploys
  <2>1. job.seen.spec.oss
    BY <1>1, <1>5 DEF Deploys, At, StaysOSS
  <2>2. release'[i].oss /\ job'.stage \in Deployed
    BY <1>5, <2>1 DEF Deploys, Releases, Candidate
  <2>. QED
    BY <1>1, <1>5, <2>1, <2>2 DEF StaysOSS, RunsOSS, NamesOSS, Deployed
<1>6. CASE job.inst = i /\ Undeploys
  BY <1>1, <1>6 DEF Undeploys, Terminating, Blocked, OwnInv, JobHolds
<1>. QED
  BY <1>1, <1>2, <1>3, <1>4, <1>5, <1>6

\* The release of a CR that is not being deleted, when a call ends.
LEMMA EndReleases ==
    ASSUME OwnInv, Handle \/ Fail, job' = Idle, NEW i \in Inst, Exists(i), ~obj[i].gone,
           release'[i] # release[i]
    PROVE  job.inst = i /\ At("downloaded") /\ release'[i] = Candidate
<1>1. InstallFails \/ UpdateFails \/ DeleteFails
  <2>1. ~Proceeds
    <3>1. Proceeds => job' # Idle
      BY ProceedsHow DEF SameCall
    <3>. QED
      BY <3>1
  <2>. QED
    BY <2>1, OnlyHelmActs DEF Proceeds, Next
<1>2. CASE DeleteFails
  <2>1. /\ job # Idle /\ job.seen.gone /\ job.seen.fin
        /\ release' \in {release, [release EXCEPT ![job.inst] = NoRelease]}
    BY <1>2, AtStage DEF DeleteFails, Terminating, At, Stages, FailWith, HelmFails, OwnInv, TypeInv
  <2>2. obj[job.inst].gone
    BY <2>1 DEF OwnInv, JobHolds
  <2>. QED
    BY <2>1, <2>2 DEF OwnInv, TypeInv, TypeOK
<1>3. CASE InstallFails \/ UpdateFails
  <2>1. /\ At("downloaded")
        /\ release' \in {release, [release EXCEPT ![job.inst] = Candidate]}
    BY <1>3 DEF InstallFails, UpdateFails, HelmFails
  <2>. QED
    BY <2>1 DEF OwnInv, TypeInv, TypeOK
<1>. QED
  BY <1>1, <1>2, <1>3

LEMMA EndBlocked ==
    ASSUME OwnInv, HandInv, NEW i \in Inst, NEW kind \in Services,
           Blocked(i, kind), Blocked(i, kind)', StaysOSS(i, kind),
           Handle \/ Fail, job' = Idle
    PROVE  StaysOSS(i, kind)'
<1>1. LeavesCR(i)
  BY EndLeaves DEF Blocked
<1>2. NamesOSS(obj'[i].st)
  <2>1. CASE obj'[i].st = obj[i].st
    BY <2>1 DEF StaysOSS
  <2>2. CASE obj'[i].st # obj[i].st
    <3>1. /\ i = job.inst /\ job # Idle
          /\ \/ Amends(obj'[i].st, job.seen.st)
             \/ job.stage \in Deployed /\ obj'[i].st = job.st
      BY <1>1, <2>2, AtStage DEF LeavesCR, Undecided, Deployed, Stages, OwnInv, TypeInv
    <3>. QED
      BY <3>1 DEF StaysOSS, NamesOSS, Amends, HandInv
  <2>. QED
    BY <2>1, <2>2
<1>3. RunsOSS(i)'
  <2>1. CASE release'[i] = release[i]
    BY <2>1 DEF StaysOSS, RunsOSS, Installed
  <2>2. CASE release'[i] # release[i]
    <3>1. job.inst = i /\ At("downloaded") /\ release'[i] = Candidate
      BY <2>2, EndReleases DEF Blocked
    <3>2. job # Idle /\ Candidate.oss = job.seen.spec.oss
      BY <3>1 DEF At, Idle, Candidate
    <3>. QED
      BY <3>1, <3>2 DEF StaysOSS, At, RunsOSS
  <2>. QED
    BY <2>1, <2>2
<1>. QED
  BY <1>2, <1>3 DEF StaysOSS, NamesOSS

LEMMA RecordBlocked ==
    ASSUME OwnInv, NEW i \in Inst, NEW kind \in Services, StaysOSS(i, kind), Records
    PROVE  StaysOSS(i, kind)'
<1>1. job.inst \in Inst /\ job.seen \in Object
  BY JobStatuses DEF Records, OwnInv, TypeInv
<1>2. job'.seen.st = job.seen.st /\ job'.stage = "recorded" /\ job'.inst = job.inst
  BY <1>1 DEF Records, Object
<1>3. obj'[i].st = obj[i].st
  BY <1>1, <1>2 DEF Records, OwnInv, TypeInv, TypeOK
<1>. QED
  BY <1>2, <1>3 DEF Records, StaysOSS, RunsOSS, Installed, NamesOSS, Deployed

LEMMA NextBlocked ==
    ASSUME OwnInv, HandInv, NEW i \in Inst, NEW kind \in Services,
           Blocked(i, kind), Blocked(i, kind)', StaysOSS(i, kind), [Next]_vars
    PROVE  StaysOSS(i, kind)'
<1>1. CASE UNCHANGED <<obj, release, job>>
  BY <1>1 DEF StaysOSS, RunsOSS, Installed, NamesOSS
<1>2. CASE \/ CacheCatchesUp \/ ToggleAuth \/ Publish \/ Tick \/ UNCHANGED vars
           \/ \E k \in Inst : TimerFires(k)
  BY <1>1, <1>2 DEF CacheCatchesUp, ToggleAuth, Publish, Tick, vars, TimerFires
<1>3. ASSUME NEW k \in Inst, Lookup(k) PROVE StaysOSS(i, kind)'
  <2>1. UNCHANGED <<obj, release>>
    BY <1>3 DEF Lookup
  <2>2. job' # Idle => job'.inst = k /\ job'.seen = obj[k] /\ job'.stage = "loaded"
    BY <1>3 DEF Lookup
  <2>. QED
    BY <2>1, <2>2 DEF StaysOSS, RunsOSS, Installed, NamesOSS, Deployed
<1>4. ASSUME NEW k \in Inst, Create(k) \/ Edit(k) \/ Delete(k) \/ LetGo(k)
      PROVE  StaysOSS(i, kind)'
  <2>1. Disturb(k) /\ UNCHANGED release
    BY <1>4 DEF Create, Edit, Delete, LetGo, Disturb
  <2>2. obj'[i].st = obj[i].st
    <3>1. CASE Create(k)
      BY <3>1 DEF Create, Blocked, Exists, OwnInv, TypeInv, TypeOK
    <3>2. CASE ~Create(k)
      BY <1>4, <3>2, UserKeeps DEF Blocked
    <3>. QED
      BY <3>1, <3>2
  <2>3. job' # Idle => /\ job # Idle /\ job'.inst = job.inst /\ job'.seen = job.seen
                       /\ job'.stage = job.stage
    BY <2>1, DisturbKeepsCall
  <2>. QED
    BY <2>1, <2>2, <2>3 DEF StaysOSS, RunsOSS, Installed, NamesOSS
<1>5. CASE Handle \/ Fail
  <2>1. CASE ReportUninstalled /\ job.fresh
    <3>1. job \in Job /\ job # Idle /\ job.inst \in Inst /\ job.seen.gone /\ job.seen.fin
      BY <2>1, AtStage, JobStatuses
         DEF ReportUninstalled, At, Stages, Undeploying, OwnInv, TypeInv, JobHolds
    <3>2. job.inst # i
      BY <3>1 DEF OwnInv, JobHolds, Blocked
    <3>3. obj'[i] = obj[i] /\ UNCHANGED release
      BY <2>1, <3>1, <3>2 DEF ReportUninstalled, WriteStatus, OwnInv, TypeInv, TypeOK
    <3>4. job' = [job EXCEPT !.stage = "reported", !.seen.st = job.st]
      BY <2>1 DEF ReportUninstalled, GoTo
    <3>5. job'.inst # i
      BY <3>1, <3>2, <3>4 DEF Job
    <3>. QED
      BY <3>3, <3>5 DEF StaysOSS, RunsOSS, Installed, NamesOSS
  <2>2. CASE RecordSpecHash /\ job.fresh
    BY <2>2, RecordsHow, RecordBlocked
  <2>. QED
    BY <1>5, <2>1, <2>2, CallStep, ProceedBlocked, EndBlocked
<1>. QED
  BY <1>2, <1>3, <1>4, <1>5 DEF Next, Environment

\* A blocked migration replaces nothing, whatever others do between the two
\* lookups, and whatever fails (reconcile_update.go:337-363).
THEOREM BlockedMigrationsWait == Spec => NoBlockedMigration
<1>1. ASSUME NEW i \in Inst, NEW kind \in Services
      PROVE  Spec => [](/\ job = Idle /\ Blocked(i, kind)
                        /\ obj[i].st.rel # NoRelease /\ obj[i].st.rel.oss /\ RunsOSS(i)
                        /\ []Blocked(i, kind)
                        => []RunsOSS(i))
  <2>1. OwnInv /\ HandInv /\ Blocked(i, kind) /\ Blocked(i, kind)' /\ StaysOSS(i, kind)
        /\ [Next]_vars => StaysOSS(i, kind)'
    BY NextBlocked
  <2>2. /\ job = Idle /\ Blocked(i, kind)
        /\ obj[i].st.rel # NoRelease /\ obj[i].st.rel.oss /\ RunsOSS(i)
        => StaysOSS(i, kind)
    BY DEF StaysOSS, NamesOSS
  <2>3. StaysOSS(i, kind) => RunsOSS(i)
    BY DEF StaysOSS
  <2>. QED
    BY <2>1, <2>2, <2>3, OwnershipIsKept, CopiesAreKept, PTL DEF Spec
<1>. QED
  BY <1>1 DEF NoBlockedMigration, Blocked

-----------------------------------------------------------------------------
\* What runs is what the specs say.

\* The release of i is what the spec s asks for.
Suits(i, s) == Installed(i) /\ release[i].oss = s.oss /\ release[i].values = s.values

\* Nothing that the operator checks speaks against the spec s.
Clear(st, s) == s.params = "ok" /\ (st.rel # NoRelease => st.rel.oss = s.oss)

Pending == {"recorded", "halfway", "checked", "downloaded"}

InProgress(i) == job # Idle /\ job.inst = i /\ job.stage \in Pending

\* A spec whose hash is recorded was applied, unless it was refused or a call
\* is about to; without a hash nothing was ever deployed.
Answered(i) ==
    Exists(i) /\ ~obj[i].gone =>
        /\ obj[i].hash \notin Specs => ~HasType(obj[i].st, "Deployed")
        /\ obj[i].hash \in Specs /\ Clear(obj[i].st, obj[i].hash) /\ ~InProgress(i)
              => Suits(i, obj[i].hash)

Rested(i) == Settled(i) /\ ~IsDuplicate(obj[i].st) => Suits(i, obj[i].spec)

CallAnswers ==
    job # Idle =>
        /\ /\ job.stage = "recorded" /\ ~job.changed
           /\ HasType(job.seen.st, "Deployed") /\ Clear(job.seen.st, job.seen.spec)
           => Suits(job.inst, job.seen.spec)
        /\ job.stage \in Deployed => Suits(job.inst, job.seen.spec)

AppliedInv == (\A i \in Inst : Answered(i) /\ Rested(i)) /\ CallAnswers

\* The last condition is one of the list.
LEMMA LastTypeIsFound ==
    ASSUME NEW st \in Status, LastType(st) = "Deployed"
    PROVE  HasType(st, "Deployed")
<1>. DEFINE cs == st.conds
            M == {k \in DOMAIN cs : Matches(cs[k], AnyCondition)}
            Newest(k) == \A j \in M : \/ cs[j].time < cs[k].time
                                      \/ cs[j].time = cs[k].time /\ k <= j
<1>1. cs \in Seq(Condition)
  BY DEF Status
<1>2. LastCondition(cs, AnyCondition) =
          IF M = {} THEN ZeroCondition ELSE cs[CHOOSE k \in M : Newest(k)]
  BY DEF LastCondition
<1>3. M # {}
  <2>1. ZeroCondition.type # "Deployed" /\ LastCondition(cs, AnyCondition).type = "Deployed"
    BY DEF LastType, ZeroCondition
  <2>. HIDE DEF M
  <2>. QED
    BY <1>2, <2>1
<1>4. M \in SUBSET DOMAIN cs
  OBVIOUS
<1>. HIDE DEF M
<1>5. \E k \in M : Newest(k)
  BY <1>1, <1>3, <1>4, NewestExists
<1>6. (CHOOSE k \in M : Newest(k)) \in M
  BY <1>5
<1>. HIDE DEF Newest
<1>7. PICK k \in DOMAIN cs : LastCondition(cs, AnyCondition) = cs[k]
  BY <1>2, <1>3, <1>4, <1>6
<1>. QED
  BY <1>7 DEF LastType, HasType

\* A CR that nobody touches.
LEMMA UntouchedApplied ==
    ASSUME NEW k \in Inst, Answered(k) /\ Rested(k), release'[k] = release[k],
           Exists(k)' => /\ Exists(k)
                         /\ obj'[k].spec = obj[k].spec /\ obj'[k].hash = obj[k].hash
                         /\ obj'[k].gone = obj[k].gone /\ obj'[k].st = obj[k].st,
           InProgress(k) => InProgress(k)', Settled(k)' => Settled(k)
    PROVE  (Answered(k) /\ Rested(k))'
BY DEF Answered, Rested, Suits, Installed, IsDuplicate, HasType, Clear, Exists, Settled

\* The call has applied what it has recorded, or it refuses it.
LEMMA EndsForAReason ==
    ASSUME OwnInv, HandInv, CallAnswers, Handle, job' = Idle, job.stage \in Pending
    PROVE  ~Clear(job.seen.st, job.seen.spec) \/ Suits(job.inst, job.seen.spec)
<1>1. job \in Job /\ job # Idle /\ job.seen.st \in Status
  BY AtStage, JobStatuses DEF Pending, Stages, OwnInv, TypeInv
<1>2. ~Proceeds
  BY ProceedsHow DEF SameCall
<1>3. \/ RejectParameters \/ RejectDowngrade \/ Skip
      \/ \E kind \in Services : CannotMigrate(kind) \/ PanicNoKind(kind)
      \/ RecordSpecHash
  BY <1>2 DEF Handle, Proceeds, AddFinalizer, RejectVersion, RejectRepo, IgnoreDuplicate,
     MarkDuplicate, PanicNotListed, PanicNoAnnotations, ReportDeployed, ReportReconciled,
     Terminated, ReportUninstalled, RemoveFinalizer, Alive, Terminating, At, Pending
<1>4. CASE RejectParameters \/ RejectDowngrade
  BY <1>4 DEF RejectParameters, RejectDowngrade, Clear, Downgrading
<1>5. CASE \E kind \in Services : CannotMigrate(kind) \/ PanicNoKind(kind)
  <2>1. Migrating(job.seen)
    BY <1>1, <1>5 DEF CannotMigrate, PanicNoKind, Looking, At, HandInv
  <2>. QED
    BY <2>1 DEF Migrating, Clear
<1>6. CASE Skip
  <2>1. HasType(job.seen.st, "Deployed") /\ ~job.changed /\ job.stage = "recorded"
    BY <1>1, <1>6, LastTypeIsFound DEF Skip, Accepted, NotNow, At
  <2>. QED
    BY <1>1, <2>1 DEF CallAnswers
<1>7. CASE RecordSpecHash
  BY <1>7 DEF RecordSpecHash, Alive, At, Pending
<1>. QED
  BY <1>3, <1>4, <1>5, <1>6, <1>7

\* A call that leaves its CR alone until the next check had it in hand as it is.
LEMMA SettlesHow ==
    ASSUME OwnInv, AskedAgain, Handle, job' = Idle, job # Idle, NEW k \in Inst, k = job.inst,
           Settled(k)'
    PROVE  /\ job.fresh
           /\ IgnoreDuplicate \/ MarkDuplicate \/ Skip \/ ReportDeployed \/ ReportReconciled
<1>1. k \notin queue' /\ obj'[k] # NoObj /\ ~obj'[k].gone
  BY DEF Settled, Exists
<1>2. ~Requeue /\ ~Restart
  <2>1. ~Restart
    BY <1>1 DEF Restart
  <2>2. ~Requeue
    BY <1>1 DEF Requeue
  <2>. QED
    BY <2>1, <2>2
<1>3. ~Proceeds
  BY ProceedsHow DEF SameCall
<1>4. \/ IgnoreDuplicate \/ MarkDuplicate \/ Skip \/ ReportDeployed \/ ReportReconciled
      \/ Terminated \/ RemoveFinalizer
      \/ (RecordSpecHash \/ ReportUninstalled) /\ job.fresh
  <2>1. ~AddFinalizer /\ ~RejectRepo /\ ~RejectDowngrade
    BY <1>2 DEF AddFinalizer, RejectRepo, RejectDowngrade
  <2>2. ~RejectVersion /\ ~RejectParameters
    BY <1>2 DEF RejectVersion, RejectParameters, Reject
  <2>3. ~PanicNotListed /\ ~PanicNoAnnotations
    BY <1>2 DEF PanicNotListed, PanicNoAnnotations
  <2>4. \A kind \in Services : ~PanicNoKind(kind) /\ ~CannotMigrate(kind) /\ ~FindsNone(kind)
    BY <1>2, <1>3 DEF PanicNoKind, CannotMigrate, Reject, FailWith, Proceeds
  <2>5. /\ RecordSpecHash => job.fresh
        /\ ReportUninstalled => job.fresh
    BY <1>2 DEF RecordSpecHash, ReportUninstalled
  <2>6. /\ ~Download /\ ~Install /\ ~Update /\ ~Reconcile /\ ~Uninstall
    BY <1>3 DEF Proceeds
  <2>. QED
    BY <2>1, <2>2, <2>3, <2>4, <2>5, <2>6 DEF Handle
<1>5. job.fresh
  <2>1. SUFFICES ASSUME ~job.fresh PROVE FALSE
    OBVIOUS
  <2>2. k \in queue
    BY <2>1 DEF AskedAgain
  <2>3. Done \/ RequeueAfter
    BY <1>2, <1>4, <2>1
       DEF IgnoreDuplicate, MarkDuplicate, Skip, ReportDeployed, ReportReconciled, Terminated,
           RemoveFinalizer
  <2>. QED
    BY <1>1, <2>2, <2>3 DEF Done, RequeueAfter
<1>6. job \in Job /\ obj[k] = job.seen
  BY <1>5, InCall DEF OwnInv, TypeInv, JobCurrent
<1>7. ~Terminated
  BY <1>1, <1>6 DEF Terminated, Terminating
<1>8. ~RemoveFinalizer
  BY <1>1, <1>2, <1>5 DEF RemoveFinalizer, OwnInv, TypeInv, TypeOK
<1>9. ~(RecordSpecHash /\ job.fresh)
  BY RecordsHow DEF Records
<1>10. ~(ReportUninstalled /\ job.fresh)
  <2>1. SUFFICES ASSUME ReportUninstalled, job.fresh PROVE FALSE
    OBVIOUS
  <2>2. job' = [job EXCEPT !.stage = "reported", !.seen.st = job.st]
    BY <2>1 DEF ReportUninstalled, GoTo
  <2>3. job'.stage = "reported"
    BY <1>6, <2>2 DEF Job
  <2>. QED
    BY <2>3 DEF Idle
<1>. QED
  BY <1>4, <1>5, <1>7, <1>8, <1>9, <1>10

\* Every step of Reconcile is that of a call in progress.
LEMMA HandleInCall ==
    ASSUME TypeOK, Handle
    PROVE  job \in Job /\ job # Idle
<1>. USE DEF At, Stages
<1>1. job.stage \in Stages
  <2>1. CASE \E kind \in Services : FindsNone(kind) \/ CannotMigrate(kind) \/ PanicNoKind(kind)
    BY <2>1 DEF FindsNone, CannotMigrate, PanicNoKind, Looking, Accepted
  <2>2. CASE \/ AddFinalizer \/ RejectVersion \/ RejectRepo \/ IgnoreDuplicate
             \/ MarkDuplicate \/ PanicNotListed \/ RecordSpecHash \/ PanicNoAnnotations
             \/ RejectParameters \/ RejectDowngrade \/ Skip \/ Download
    BY <2>2 DEF AddFinalizer, RejectVersion, RejectRepo, IgnoreDuplicate, MarkDuplicate,
       PanicNotListed, RecordSpecHash, PanicNoAnnotations, RejectParameters,
       RejectDowngrade, Skip, Download, MayDownload, Accepted, Alive
  <2>3. CASE \/ Install \/ Update \/ Reconcile \/ ReportDeployed \/ ReportReconciled
             \/ Terminated \/ Uninstall \/ ReportUninstalled \/ RemoveFinalizer
    BY <2>3 DEF Install, Update, Reconcile, ReportDeployed, ReportReconciled, Terminated,
       Uninstall, ReportUninstalled, RemoveFinalizer, Terminating
  <2>. QED
    BY <2>1, <2>2, <2>3 DEF Handle
<1>. QED
  BY <1>1, AtStage

\* It takes no request out of the queue.
LEMMA HandleQueue ==
    ASSUME Handle, NEW k \in queue, k \in Inst
    PROVE  k \in queue' \/ obj'[k] = NoObj
<1>. USE DEF Requeue, RequeueAfter, Done, GoTo, Restart
<1>1. \A st : Reject(st) \/ FailWith(st) => k \in queue'
  BY DEF Reject, FailWith
<1>2. CASE \E kind \in Services : FindsNone(kind) \/ CannotMigrate(kind) \/ PanicNoKind(kind)
  BY <1>1, <1>2 DEF FindsNone, CannotMigrate, PanicNoKind
<1>3. CASE RejectVersion \/ RejectParameters
  BY <1>1, <1>3 DEF RejectVersion, RejectParameters
<1>4. CASE \/ AddFinalizer \/ RejectRepo \/ IgnoreDuplicate
           \/ MarkDuplicate \/ PanicNotListed \/ RecordSpecHash \/ PanicNoAnnotations
           \/ RejectDowngrade \/ Skip \/ Download
  BY <1>4 DEF AddFinalizer, RejectRepo, IgnoreDuplicate, MarkDuplicate, PanicNotListed,
     RecordSpecHash, PanicNoAnnotations, RejectDowngrade, Skip, Download
<1>5. CASE \/ Install \/ Update \/ Reconcile \/ ReportDeployed \/ ReportReconciled
           \/ Terminated \/ Uninstall \/ ReportUninstalled \/ RemoveFinalizer
  BY <1>5 DEF Install, Update, Deploy, Reconcile, ReportDeployed, ReportReconciled, Terminated,
     Uninstall, ReportUninstalled, RemoveFinalizer
<1>. QED
  BY <1>2, <1>3, <1>4, <1>5 DEF Handle

\* What a CR that settles runs, when the call ends that settles it.
LEMMA EndRests ==
    ASSUME OwnInv, StatusInv, HandInv, AskedAgain, CallAnswers, Handle, UNCHANGED faults,
           faults = 0, job' = Idle, job # Idle, NEW k \in Inst, k = job.inst, Settled(k)'
    PROVE  \/ IsDuplicate(obj'[k].st)
           \/ Suits(k, job.seen.spec) /\ obj'[k].spec = job.seen.spec
<1>1. /\ job.fresh
      /\ IgnoreDuplicate \/ MarkDuplicate \/ Skip \/ ReportDeployed \/ ReportReconciled
  BY SettlesHow
<1>2. /\ job \in Job /\ obj[k] = job.seen /\ job.seen \in Object /\ job.st \in Status
      /\ job.seen.st \in Status
  BY <1>1, InCall, JobStatuses DEF OwnInv, TypeInv, JobCurrent
<1>3. CASE IgnoreDuplicate
  BY <1>2, <1>3 DEF IgnoreDuplicate
<1>4. CASE MarkDuplicate
  <2>. DEFINE w == With(job.st, "Irreconcilable", "False", "DuplicateError")
  <2>1. IsDuplicate(w) /\ obj' = [obj EXCEPT ![k].st = w]
    BY <1>1, <1>2, <1>4, MarkIsFound DEF MarkDuplicate, WriteStatus, OwnInv, TypeInv, TypeOK
  <2>. HIDE DEF w
  <2>2. obj'[k].st = w
    BY <1>2, <2>1 DEF Object, OwnInv, TypeInv, TypeOK
  <2>. QED
    BY <2>1, <2>2
<1>5. CASE Skip
  <2>1. /\ job.stage = "recorded" /\ ~job.changed /\ HasType(job.seen.st, "Deployed")
        /\ ~Migrating(job.seen) /\ ~Downgrading(job.seen) /\ job.seen.spec.params = "ok"
        /\ UNCHANGED obj
    BY <1>2, <1>5, LastTypeIsFound DEF Skip, Accepted, NotNow, At
  <2>2. /\ job.seen.spec.oss \in BOOLEAN
        /\ job.seen.st.rel # NoRelease => job.seen.st.rel.oss \in BOOLEAN
    BY <1>2, SpecsAssumption DEF Object, SpecRecord, Status, Manifest
  <2>3. Clear(job.seen.st, job.seen.spec)
    BY <2>1, <2>2 DEF Clear, Migrating, Downgrading
  <2>. QED
    BY <1>2, <2>1, <2>3 DEF CallAnswers
<1>6. CASE ReportDeployed \/ ReportReconciled
  <2>1. job.stage \in Deployed /\ (WriteStatus(job.st) \/ UNCHANGED obj)
    BY <1>6 DEF ReportDeployed, ReportReconciled, TryWriteStatus, Deployed, At
  <2>2. obj'[k].spec = obj[k].spec
    BY <1>2, <2>1 DEF WriteStatus, Object, OwnInv, TypeInv, TypeOK
  <2>. QED
    BY <1>2, <2>1, <2>2 DEF CallAnswers
<1>. QED
  BY <1>1, <1>3, <1>4, <1>5, <1>6

\* What a call that ends leaves recorded.
LEMMA EndAnswers ==
    ASSUME OwnInv, StatusInv, HandInv, CallAnswers, Handle, job' = Idle, job # Idle,
           NEW k \in Inst, k = job.inst, Answered(k), UNCHANGED release
    PROVE  Answered(k)'
<1>1. SUFFICES ASSUME Exists(k)', ~obj'[k].gone
               PROVE  /\ obj'[k].hash \notin Specs => ~HasType(obj'[k].st, "Deployed")
                      /\ obj'[k].hash \in Specs /\ Clear(obj'[k].st, obj'[k].hash)
                            => Suits(k, obj'[k].hash)
  BY DEF Answered, Suits, Installed, HasType, Clear
<1>2. LeavesCR(k)
  BY <1>1, EndLeaves
<1>3. /\ obj'[k].hash = obj[k].hash /\ ~obj[k].gone /\ Exists(k)
      /\ job \in Job /\ job.seen \in Object
  BY <1>1, <1>2, InCall, JobStatuses DEF LeavesCR, Keeps, OwnInv, TypeInv
<1>4. ASSUME job.stage \in Deploying
      PROVE  /\ obj[k].hash = job.seen.spec /\ job.seen.spec \in Specs
             /\ obj[k].st = job.seen.st
  BY <1>3, <1>4 DEF HandInv, OwnInv, JobHolds, Deploying, Object
<1>5. CASE job.stage \in Deployed
  BY <1>3, <1>4, <1>5 DEF CallAnswers, Deploying, Deployed
<1>6. CASE job.stage \in Pending
  <2>1. obj'[k].st.rel = job.seen.st.rel
    BY <1>2, <1>4, <1>6 DEF LeavesCR, Deploying, Pending, Deployed, Amends
  <2>2. ~Clear(job.seen.st, job.seen.spec) \/ Suits(k, job.seen.spec)
    BY <1>6, EndsForAReason
  <2>. QED
    BY <1>3, <1>4, <1>6, <2>1, <2>2 DEF Deploying, Pending, Clear
<1>7. CASE job.stage \notin Deployed \cup Pending
  <2>1. \/ obj'[k].st = obj[k].st
        \/ Amends(obj'[k].st, obj[k].st)
    BY <1>2, <1>7 DEF LeavesCR
  <2>2. /\ obj'[k].st.rel = obj[k].st.rel
        /\ HasType(obj'[k].st, "Deployed") => HasType(obj[k].st, "Deployed")
    BY <2>1 DEF Amends
  <2>3. ~InProgress(k)
    BY <1>7 DEF InProgress
  <2>. QED
    BY <1>3, <2>2, <2>3 DEF Answered, Clear
<1>. QED
  BY <1>5, <1>6, <1>7

LEMMA EndApplied ==
    ASSUME OwnInv, StatusInv, HandInv, AskedAgain, AppliedInv, Handle, UNCHANGED faults,
           faults = 0, job' = Idle
    PROVE  AppliedInv'
<1>1. UNCHANGED release
  <2>1. ~Proceeds
    BY ProceedsHow DEF SameCall
  <2>2. Handle => ~Fault
    BY DEF Fault, OwnInv, TypeInv, TypeOK
  <2>. QED
    BY <2>1, <2>2, OnlyHelmActs
       DEF Proceeds, Next, InstallFails, UpdateFails, DeleteFails, HelmFails, FailWith
<1>2. job \in Job /\ job # Idle
  BY HandleInCall DEF OwnInv, TypeInv
<1>3. ASSUME NEW k \in Inst PROVE (Answered(k) /\ Rested(k))'
  <2>1. CASE k = job.inst
    <3>1. Answered(k)'
      BY <1>1, <1>2, <2>1, EndAnswers DEF AppliedInv
    <3>2. Rested(k)'
      BY <1>1, <1>2, <2>1, EndRests DEF AppliedInv, Rested, Suits, Installed, IsDuplicate
    <3>. QED
      BY <3>1, <3>2
  <2>2. CASE k # job.inst
    <3>1. Exists(k)' => LeavesCR(k)
      BY EndLeaves
    <3>2. Exists(k)' => /\ Exists(k)
                        /\ obj'[k].spec = obj[k].spec /\ obj'[k].hash = obj[k].hash
                        /\ obj'[k].gone = obj[k].gone /\ obj'[k].st = obj[k].st
      BY <2>2, <3>1 DEF LeavesCR, Keeps
    <3>3. Settled(k)' => Settled(k)
      <4>1. k \in queue => k \in queue' \/ ~Exists(k)'
        BY HandleQueue DEF Exists
      <4>. QED
        BY <1>2, <2>2, <3>2, <4>1 DEF Settled
    <3>4. ~InProgress(k)
      BY <2>2 DEF InProgress
    <3>. QED
      BY <1>1, <3>2, <3>3, <3>4, UntouchedApplied DEF AppliedInv
  <2>. QED
    BY <2>1, <2>2
<1>. QED
  BY <1>3 DEF AppliedInv, CallAnswers

\* A call that goes on.
LEMMA ProceedApplied ==
    ASSUME OwnInv, HandInv, AppliedInv, Proceeds, queue \subseteq queue'
    PROVE  AppliedInv'
<1>1. job \in Job /\ SameCall /\ (Looks \/ Downloads \/ Deploys \/ Undeploys)
  BY ProceedsHow
<1>. USE DEF SameCall
<1>2. ASSUME NEW k \in Inst, k # job.inst PROVE (Answered(k) /\ Rested(k))'
  <2>1. release'[k] = release[k]
    BY <1>1, <1>2 DEF Looks, Downloads, Deploys, Undeploys, Releases
  <2>2. ~InProgress(k) /\ (Settled(k)' => Settled(k))
    BY <1>1, <1>2 DEF InProgress, Settled, Exists
  <2>. QED
    BY <1>1, <2>1, <2>2, UntouchedApplied DEF AppliedInv, Exists
<1>3. \A k \in Inst : k = job.inst => Rested(k)'
  BY <1>1 DEF Rested, Settled
<1>4. CASE Looks \/ Downloads
  <2>1. /\ UNCHANGED release /\ job.stage \in Pending
        /\ job'.stage \in {"halfway", "checked", "downloaded"}
    BY <1>4
       DEF Looks, Looking, Downloads, MayDownload, Accepted, At, Pending
  <2>2. ASSUME NEW k \in Inst, k = job.inst PROVE Answered(k)'
    <3>1. InProgress(k)'
      BY <1>1, <2>1, <2>2 DEF InProgress, Pending
    <3>. QED
      BY <1>1, <2>2, <3>1 DEF AppliedInv, Answered, HasType, Exists
  <2>3. CallAnswers'
    BY <1>1, <2>1 DEF CallAnswers, Deployed
  <2>. QED
    BY <1>2, <1>3, <2>2, <2>3 DEF AppliedInv
<1>5. CASE Deploys
  <2>1. job.stage = "downloaded" /\ Candidate \in Manifest /\ job'.stage \in Deployed
    BY <1>5, CandidateType DEF Deploys, At, OwnInv
  <2>2. /\ Candidate # NoRelease /\ Candidate.oss = job.seen.spec.oss
        /\ Candidate.values = job.seen.spec.values
    BY <2>1, SentinelAssumption DEF Candidate
  <2>3. release'[job.inst] = Candidate
    BY <1>5 DEF Deploys, Releases
  <2>4. Suits(job.inst, job.seen.spec)' /\ CallAnswers'
    BY <1>1, <2>1, <2>2, <2>3 DEF Suits, Installed, CallAnswers, Deployed
  <2>5. ASSUME NEW k \in Inst, k = job.inst PROVE Answered(k)'
    <3>1. obj[k].hash = job.seen.spec /\ job.seen.spec \in Specs
      BY <1>1, <2>1, <2>5, JobStatuses
         DEF HandInv, OwnInv, TypeInv, JobHolds, Deploying, Object
    <3>. QED
      BY <1>1, <2>4, <2>5, <3>1 DEF Answered, Suits, Installed
  <2>. QED
    BY <1>2, <1>3, <2>4, <2>5 DEF AppliedInv
<1>6. CASE Undeploys
  <2>1. obj[job.inst].gone /\ job'.stage = "uninstalled"
    BY <1>1, <1>6 DEF Undeploys, Terminating, OwnInv, JobHolds
  <2>2. \A k \in Inst : k = job.inst => Answered(k)'
    BY <1>1, <2>1 DEF Answered
  <2>3. CallAnswers'
    BY <2>1 DEF CallAnswers, Deployed
  <2>. QED
    BY <1>2, <1>3, <2>2, <2>3 DEF AppliedInv
<1>. QED
  BY <1>1, <1>4, <1>5, <1>6

\* The hash is recorded: if it was there already, it was answered.
LEMMA RecordApplied ==
    ASSUME OwnInv, AppliedInv, Records, queue \subseteq queue'
    PROVE  AppliedInv'
<1>1. /\ job.inst \in Inst /\ job.seen \in Object /\ job.seen.spec \in Specs
      /\ obj[job.inst] = job.seen
  BY JobStatuses DEF Records, OwnInv, TypeInv, Object
<1>2. /\ job'.seen.st = job.seen.st /\ job'.seen.spec = job.seen.spec
      /\ job'.seen.hash = job.seen.spec
      /\ job'.stage = "recorded" /\ job'.inst = job.inst
      /\ job'.changed = HasChangedSpec(job.seen) /\ UNCHANGED release
  BY <1>1 DEF Records, Object
<1>3. obj'[job.inst] = job'.seen
  BY <1>1 DEF Records, OwnInv, TypeInv, TypeOK
<1>4. ASSUME NEW k \in Inst, k # job.inst PROVE (Answered(k) /\ Rested(k))'
  <2>1. obj'[k] = obj[k]
    BY <1>4 DEF Records, OwnInv, TypeInv, TypeOK
  <2>2. ~InProgress(k) /\ (Settled(k)' => Settled(k))
    BY <1>2, <1>4, <2>1 DEF InProgress, Settled, Exists, Records
  <2>. QED
    BY <1>2, <2>1, <2>2, UntouchedApplied DEF AppliedInv, Exists
<1>5. ASSUME NEW k \in Inst, k = job.inst PROVE (Answered(k) /\ Rested(k))'
  <2>1. InProgress(k)' /\ ~Settled(k)'
    BY <1>2, <1>5 DEF InProgress, Settled, Pending, Records
  <2>. QED
    BY <1>1, <1>2, <1>3, <1>5, <2>1 DEF Answered, Rested
<1>6. CallAnswers'
  <2>1. SUFFICES ASSUME ~HasChangedSpec(job.seen), HasType(job.seen.st, "Deployed"),
                        Clear(job.seen.st, job.seen.spec)
                 PROVE  Suits(job.inst, job.seen.spec)
    BY <1>2 DEF CallAnswers, Suits, Installed, Clear, HasType, Deployed
  <2>2. PICK k \in Inst : k = job.inst
    BY <1>1
  <2>3. Exists(k) /\ ~obj[k].gone /\ ~InProgress(k) /\ Answered(k)
    BY <1>1, <2>2, SentinelAssumption
       DEF Exists, Records, Alive, At, InProgress, Pending, AppliedInv
  <2>4. obj[k].hash = job.seen.spec
    BY <1>1, <2>1, <2>2, <2>3, SentinelAssumption DEF Answered, HasChangedSpec
  <2>. QED
    BY <1>1, <2>1, <2>2, <2>3, <2>4 DEF Answered
<1>. QED
  BY <1>4, <1>5, <1>6 DEF AppliedInv

LEMMA ReportApplied ==
    ASSUME OwnInv, AppliedInv, ReportUninstalled, job.fresh
    PROVE  AppliedInv'
<1>1. /\ job \in Job /\ job # Idle /\ job.inst \in Inst /\ obj[job.inst] = job.seen
      /\ job.seen \in Object /\ job.seen.gone
  BY AtStage, JobStatuses
     DEF ReportUninstalled, At, Stages, Undeploying, OwnInv, TypeInv, JobCurrent, JobHolds
<1>2. /\ obj' = [obj EXCEPT ![job.inst].st = job.st]
      /\ job' = [job EXCEPT !.stage = "reported", !.seen.st = job.st]
      /\ UNCHANGED release /\ queue \subseteq queue'
  BY DEF ReportUninstalled, WriteStatus, GoTo
<1>3. job'.stage = "reported" /\ job'.inst = job.inst
  BY <1>1, <1>2 DEF Job
<1>4. ASSUME NEW k \in Inst, k # job.inst PROVE (Answered(k) /\ Rested(k))'
  <2>1. obj'[k] = obj[k]
    BY <1>2, <1>4 DEF OwnInv, TypeInv, TypeOK
  <2>2. ~InProgress(k) /\ (Settled(k)' => Settled(k))
    BY <1>2, <1>3, <1>4, <2>1 DEF InProgress, Settled, Exists
  <2>. QED
    BY <1>2, <2>1, <2>2, UntouchedApplied DEF AppliedInv, Exists
<1>5. ASSUME NEW k \in Inst, k = job.inst PROVE (Answered(k) /\ Rested(k))'
  <2>1. obj'[k].gone
    BY <1>1, <1>2, <1>5 DEF Object, OwnInv, TypeInv, TypeOK
  <2>. QED
    BY <2>1 DEF Answered, Rested, Settled
<1>6. CallAnswers'
  BY <1>3 DEF CallAnswers, Deployed
<1>. QED
  BY <1>4, <1>5, <1>6 DEF AppliedInv

LEMMA LookupApplied ==
    ASSUME AppliedInv, NEW i \in Inst, Lookup(i)
    PROVE  AppliedInv'
<1>1. /\ job = Idle /\ UNCHANGED <<obj, release>> /\ queue' = queue \ {i}
      /\ IF obj[i] = NoObj THEN job' = Idle ELSE job'.stage = "loaded" /\ job'.inst = i
  BY DEF Lookup
<1>2. ASSUME NEW k \in Inst PROVE (Answered(k) /\ Rested(k))'
  <2>1. ~InProgress(k)
    BY <1>1 DEF InProgress
  <2>2. Settled(k)' => Settled(k)
    BY <1>1 DEF Settled, Exists, Idle
  <2>. QED
    BY <1>1, <2>1, <2>2, UntouchedApplied DEF AppliedInv, Exists
<1>3. CallAnswers'
  BY <1>1 DEF CallAnswers, Deployed
<1>. QED
  BY <1>2, <1>3 DEF AppliedInv

LEMMA UserApplied ==
    ASSUME OwnInv, AppliedInv, NEW i \in Inst, Create(i) \/ Edit(i) \/ Delete(i) \/ LetGo(i)
    PROVE  AppliedInv'
<1>1. Disturb(i) /\ UNCHANGED release /\ queue' = queue \cup {i}
  BY DEF Create, Edit, Delete, LetGo, Disturb
<1>2. /\ job = Idle => job' = Idle
      /\ job # Idle => /\ job' # Idle /\ job'.inst = job.inst /\ job'.seen = job.seen
                       /\ job'.stage = job.stage /\ job'.changed = job.changed
  <2>1. job' = job \/ (job # Idle /\ job' = [job EXCEPT !.fresh = FALSE])
    BY <1>1 DEF Disturb
  <2>. QED
    BY <2>1, InCall DEF OwnInv, TypeInv, Job, Idle, Stages
<1>3. \A k \in Inst : InProgress(k) <=> InProgress(k)'
  BY <1>2 DEF InProgress
<1>4. ASSUME NEW k \in Inst, k # i PROVE (Answered(k) /\ Rested(k))'
  <2>1. obj'[k] = obj[k]
    BY <1>4 DEF Create, Edit, Delete, LetGo, OwnInv, TypeInv, TypeOK
  <2>2. Settled(k)' => Settled(k)
    BY <1>1, <1>2, <2>1 DEF Settled, Exists
  <2>. QED
    BY <1>1, <1>3, <2>1, <2>2, UntouchedApplied DEF AppliedInv, Exists
<1>5. Rested(i)'
  BY <1>1 DEF Rested, Settled
<1>6. Answered(i)'
  <2>1. CASE Create(i)
    <3>1. obj'[i].hash \in {NoHash, NoAnnotations} /\ obj'[i].st = NewStatus
      BY <2>1, InitialHashesAssumption DEF Create, OwnInv, TypeInv, TypeOK
    <3>2. ~HasType(obj'[i].st, "Deployed")
      BY <3>1 DEF HasType, NewStatus
    <3>. QED
      BY <3>1, <3>2, SentinelAssumption DEF Answered, HasType
  <2>2. CASE Edit(i) \/ Delete(i) \/ LetGo(i)
    <3>1. Exists(i)' => /\ Exists(i) /\ obj'[i].st = obj[i].st /\ obj'[i].hash = obj[i].hash
                        /\ obj[i].gone => obj'[i].gone
      BY <2>2, UserKeeps
    <3>2. Answered(i)
      BY DEF AppliedInv
    <3>. QED
      BY <1>1, <1>3, <3>1, <3>2 DEF Answered, HasType, Clear, Suits, Installed, Exists
  <2>. QED
    BY <2>1, <2>2
<1>7. CallAnswers'
  BY <1>1, <1>2 DEF AppliedInv, CallAnswers, Suits, Installed, HasType, Clear
<1>. QED
  BY <1>4, <1>5, <1>6, <1>7 DEF AppliedInv

\* A call that goes on takes no request out of the queue.
LEMMA GoesOnQueue ==
    ASSUME job' # Idle, Proceeds \/ ((RecordSpecHash \/ ReportUninstalled) /\ job.fresh)
    PROVE  queue \subseteq queue'
<1>1. CASE Proceeds
  BY <1>1, Zenon DEF Proceeds, Download, Install, Update, Reconcile, Uninstall, FindsNone,
                     Deploy, GoTo
<1>2. CASE (RecordSpecHash \/ ReportUninstalled) /\ job.fresh
  BY <1>2 DEF RecordSpecHash, ReportUninstalled, GoTo
<1>. QED
  BY <1>1, <1>2

\* Failures are counted.
LEMMA FaultsGrow ==
    ASSUME OwnInv, [Next]_vars, faults' = 0
    PROVE  faults = 0
<1>1. faults' = faults \/ faults' = faults + 1
  <2>1. CASE Fail
    BY <2>1 DEF Fail, DownloadFails, SyncFails, InstallFails, UpdateFails, ReconcileFails,
       DeleteFails, CallFails, Crash, HelmFails, FailWith, Fault
  <2>2. CASE Environment \/ CacheCatchesUp \/ \E i \in Inst : Lookup(i) \/ TimerFires(i)
    BY <2>2 DEF Environment, Create, Edit, Delete, LetGo, Disturb, ToggleAuth, Publish,
       Tick, CacheCatchesUp, Lookup, TimerFires
  <2>3. CASE Handle
    <3>1. CASE RejectVersion \/ RejectParameters \/ ReportReconciled
               \/ \E kind \in Services : CannotMigrate(kind)
      BY <3>1 DEF RejectVersion, RejectParameters, ReportReconciled,
         CannotMigrate, Reject, FailWith, TryWriteStatus, Fault
    <3>2. CASE \/ AddFinalizer \/ RejectRepo \/ IgnoreDuplicate
               \/ MarkDuplicate \/ PanicNotListed \/ RecordSpecHash \/ PanicNoAnnotations
               \/ RejectDowngrade \/ Skip \/ Download
               \/ \E kind \in Services : FindsNone(kind) \/ PanicNoKind(kind)
      BY <3>2 DEF AddFinalizer, RejectRepo, IgnoreDuplicate, MarkDuplicate, PanicNotListed,
         RecordSpecHash, PanicNoAnnotations, RejectDowngrade, Skip, Download, FindsNone,
         PanicNoKind
    <3>3. CASE \/ Install \/ Update \/ Reconcile \/ ReportDeployed
               \/ Terminated \/ Uninstall \/ ReportUninstalled \/ RemoveFinalizer
      BY <3>3 DEF Install, Update, Deploy, Reconcile, ReportDeployed, Terminated,
         Uninstall, ReportUninstalled, RemoveFinalizer
    <3>. QED
      BY <2>3, <3>1, <3>2, <3>3 DEF Handle
  <2>4. CASE UNCHANGED vars
    BY <2>4 DEF vars
  <2>. QED
    BY <2>1, <2>2, <2>3, <2>4 DEF Next
<1>2. faults \in Nat
  BY DEF OwnInv, TypeInv, TypeOK
<1>. QED
  BY <1>1, <1>2

LEMMA NextApplied ==
    ASSUME OwnInv, StatusInv, HandInv, PendingInv, AppliedInv, faults = 0, faults' = 0,
           [Next]_vars
    PROVE  AppliedInv'
<1>1. ASSUME UNCHANGED <<obj, release, job>>, queue \subseteq queue' PROVE AppliedInv'
  <2>1. \A k \in Inst : /\ InProgress(k) => InProgress(k)'
                        /\ Settled(k)' => Settled(k)
                        /\ Exists(k)' => Exists(k)
    BY <1>1 DEF InProgress, Settled, Exists
  <2>2. \A k \in Inst : (Answered(k) /\ Rested(k))'
    BY <1>1, <2>1, UntouchedApplied DEF AppliedInv
  <2>. QED
    BY <1>1, <2>2 DEF AppliedInv, CallAnswers, Suits, Installed, HasType, Clear
<1>2. CASE \/ CacheCatchesUp \/ ToggleAuth \/ Publish \/ Tick \/ UNCHANGED vars
           \/ \E i \in Inst : TimerFires(i)
  BY <1>1, <1>2 DEF CacheCatchesUp, ToggleAuth, Publish, Tick, vars, TimerFires
<1>3. CASE \E i \in Inst : Lookup(i)
  BY <1>3, LookupApplied
<1>4. CASE \E i \in Inst : Create(i) \/ Edit(i) \/ Delete(i) \/ LetGo(i)
  BY <1>4, UserApplied
<1>5. CASE Handle
  <2>2. CASE job' = Idle
    BY <1>5, <2>2, EndApplied DEF PendingInv
  <2>3. CASE job' # Idle
    <3>1. \/ Proceeds
          \/ ((RecordSpecHash \/ ReportUninstalled) /\ job.fresh)
      BY <1>5, <2>3, CallStep
    <3>2. queue \subseteq queue'
      BY <2>3, <3>1, GoesOnQueue
    <3>. QED
      BY <3>1, <3>2, ProceedApplied, RecordsHow, RecordApplied, ReportApplied
  <2>. QED
    BY <2>2, <2>3
<1>6. CASE Fail
  BY <1>6
     DEF Fail, DownloadFails, SyncFails, InstallFails, UpdateFails, ReconcileFails,
         DeleteFails, CallFails, Crash, HelmFails, FailWith, Fault
<1>. QED
  BY <1>2, <1>3, <1>4, <1>5, <1>6 DEF Next, Environment

\* As long as no call has failed and the operator has not been stopped, a CR
\* that it has come to rest on and has not marked as a duplicate runs what its
\* spec says, for any number of CRs, edits, blocked migrations and refusals
\* (comp.go:15-41, reconcile_update.go:51-63).
THEOREM RestMeansApplied == Spec => [](faults = 0 => SettledIsApplied)
<1>. DEFINE I == faults = 0 => AppliedInv
<1>1. Init => I
  BY DEF Init, AppliedInv, Answered, Rested, Settled, CallAnswers, Exists
<1>2. OwnInv /\ StatusInv /\ HandInv /\ PendingInv /\ I /\ [Next]_vars => I'
  BY FaultsGrow, NextApplied
<1>3. I => (faults = 0 => SettledIsApplied)
  BY DEF AppliedInv, Rested, SettledIsApplied, Suits
<1>. HIDE DEF I
<1>. QED
  BY <1>1, <1>2, <1>3, OwnershipIsKept, StatusesAreKept, CopiesAreKept, AlwaysPending, PTL
     DEF Spec

-----------------------------------------------------------------------------
\* Updates of an Ambassador that is happily deployed.

\* A status that says that Ambassador was deployed says when it was checked.
Dated(o) == ~o.gone /\ HasType(o.st, "Deployed") => o.st.check > 0

DatesInv == /\ \A i \in Inst : Exists(i) => Dated(obj[i])
            /\ job # Idle => Dated(job.seen)

LEMMA EndDates ==
    ASSUME OwnInv, HandInv, DatesInv, Handle \/ Fail, job' = Idle
    PROVE  DatesInv'
<1>1. ASSUME NEW k \in Inst, Exists(k)' PROVE Dated(obj'[k])
  <2>1. LeavesCR(k)
    BY <1>1, EndLeaves
  <2>2. Exists(k) /\ obj'[k].gone = obj[k].gone /\ Dated(obj[k])
    BY <2>1 DEF LeavesCR, Keeps, DatesInv
  <2>3. CASE obj'[k].st = obj[k].st
    BY <2>2, <2>3 DEF Dated
  <2>4. CASE obj[k] = job.seen /\ Amends(obj'[k].st, job.seen.st)
    BY <2>2, <2>4 DEF Dated, Amends
  <2>5. CASE job.stage \in Deployed /\ obj'[k].st = job.st
    <3>1. job.st.check > 0
      BY <2>5, AtStage DEF HandInv, Deployed, Stages, OwnInv, TypeInv
    <3>. QED
      BY <2>5, <3>1 DEF Dated
  <2>. QED
    BY <2>1, <2>3, <2>4, <2>5 DEF LeavesCR
<1>. QED
  BY <1>1 DEF DatesInv, Exists

LEMMA NextDates ==
    ASSUME OwnInv, HandInv, DatesInv, [Next]_vars
    PROVE  DatesInv'
<1>1. CASE UNCHANGED <<obj, job>>
  BY <1>1 DEF DatesInv, Exists
<1>2. CASE \/ CacheCatchesUp \/ ToggleAuth \/ Publish \/ Tick \/ UNCHANGED vars
           \/ \E i \in Inst : TimerFires(i)
  BY <1>1, <1>2 DEF CacheCatchesUp, ToggleAuth, Publish, Tick, vars, TimerFires
<1>3. ASSUME NEW i \in Inst, Lookup(i) PROVE DatesInv'
  <2>1. UNCHANGED obj /\ (job' # Idle => job'.seen = obj[i] /\ obj[i] # NoObj)
    BY <1>3 DEF Lookup
  <2>. QED
    BY <2>1 DEF DatesInv, Exists
<1>4. ASSUME NEW i \in Inst, Create(i) \/ Edit(i) \/ Delete(i) \/ LetGo(i) PROVE DatesInv'
  <2>1. ASSUME NEW k \in Inst, Exists(k)' PROVE Dated(obj'[k])
    <3>1. CASE Create(i) /\ k = i
      <4>1. obj'[k].st = NewStatus
        BY <3>1 DEF Create, OwnInv, TypeInv, TypeOK
      <4>. QED
        BY <4>1 DEF Dated, HasType, NewStatus
    <3>2. CASE Create(i) /\ k # i
      <4>1. obj'[k] = obj[k]
        BY <3>2 DEF Create, OwnInv, TypeInv, TypeOK
      <4>. QED
        BY <2>1, <4>1 DEF DatesInv, Exists
    <3>3. CASE Edit(i) \/ Delete(i) \/ LetGo(i)
      <4>1. /\ Exists(k) /\ obj'[k].st = obj[k].st
            /\ obj[k].gone => obj'[k].gone
        BY <2>1, <3>3, UserKeeps
      <4>. QED
        BY <4>1 DEF DatesInv, Dated
    <3>. QED
      BY <1>4, <3>1, <3>2, <3>3
  <2>2. job' # Idle => job # Idle /\ job'.seen = job.seen
    BY <1>4, DisturbKeepsCall DEF Create, Edit, Delete, LetGo
  <2>. QED
    BY <2>1, <2>2 DEF DatesInv, Exists
<1>5. CASE Handle \/ Fail
  <2>1. CASE job' = Idle
    BY <1>5, <2>1, EndDates
  <2>2. CASE Proceeds
    BY <2>2, ProceedsHow DEF SameCall, DatesInv, Exists
  <2>3. CASE RecordSpecHash /\ job.fresh
    <3>1. Records
      BY <2>3, RecordsHow
    <3>2. job.inst \in Inst /\ job.seen \in Object
      BY <3>1, JobStatuses DEF Records, OwnInv, TypeInv
    <3>3. job'.seen.st = job.seen.st /\ job'.seen.gone = job.seen.gone
      BY <3>1, <3>2 DEF Records, Object
    <3>4. \A k \in Inst : obj'[k] = IF k = job.inst THEN job'.seen ELSE obj[k]
      BY <3>1, <3>2 DEF Records, OwnInv, TypeInv, TypeOK
    <3>. QED
      BY <3>1, <3>3, <3>4 DEF Records, DatesInv, Dated, Exists
  <2>4. CASE ReportUninstalled /\ job.fresh
    <3>1. /\ job \in Job /\ job # Idle /\ job.inst \in Inst /\ obj[job.inst] = job.seen
          /\ job.seen \in Object /\ job.seen.gone
      BY <2>4, AtStage, JobStatuses
         DEF ReportUninstalled, At, Stages, Undeploying, OwnInv, TypeInv, JobCurrent, JobHolds
    <3>2. /\ obj' = [obj EXCEPT ![job.inst].st = job.st]
          /\ job' = [job EXCEPT !.stage = "reported", !.seen.st = job.st]
      BY <2>4 DEF ReportUninstalled, WriteStatus, GoTo
    <3>3. job'.seen.gone /\ obj'[job.inst].gone
      BY <3>1, <3>2 DEF Job, Object, OwnInv, TypeInv, TypeOK
    <3>4. \A k \in Inst : k # job.inst => obj'[k] = obj[k]
      BY <3>2 DEF OwnInv, TypeInv, TypeOK
    <3>. QED
      BY <3>3, <3>4 DEF DatesInv, Dated, Exists
  <2>. QED
    BY <1>5, <2>1, <2>2, <2>3, <2>4, CallStep
<1>. QED
  BY <1>2, <1>3, <1>4, <1>5 DEF Next, Environment

\* A release is replaced by what a call deploys that went through the gate.
LEMMA ReplacedHow ==
    ASSUME OwnInv, HandInv, [Next]_vars, NEW i \in Inst, Replaced(i)
    PROVE  /\ job # Idle /\ job \in Job /\ job.inst = i /\ job.stage = "downloaded"
           /\ release'[i] = Candidate /\ obj[i].st = job.seen.st
           /\ ~NotNow
<1>1. ~UNCHANGED release
  BY DEF Replaced
<1>2. \/ At("downloaded") /\ release' \in {release, [release EXCEPT ![job.inst] = Candidate]}
      \/ release' \in {release, [release EXCEPT ![job.inst] = NoRelease]}
  <2>1. CASE Install \/ Update
    BY <2>1 DEF Install, Update, Deploy
  <2>2. CASE InstallFails \/ UpdateFails
    BY <2>2 DEF InstallFails, UpdateFails, HelmFails
  <2>3. CASE Uninstall \/ DeleteFails
    BY <2>3 DEF Uninstall, DeleteFails, HelmFails, FailWith
  <2>. QED
    BY <1>1, <2>1, <2>2, <2>3, OnlyHelmActs
<1>3. job.inst = i /\ At("downloaded") /\ release'[i] = Candidate
  BY <1>2 DEF Replaced, Installed, OwnInv, TypeInv, TypeOK
<1>4. job \in Job /\ job # Idle
  BY <1>3, AtStage DEF At, Stages, OwnInv, TypeInv
<1>. QED
  BY <1>3, <1>4 DEF At, HandInv, OwnInv, JobHolds

\* The status and its copies date the last check of what they call deployed.
LEMMA DatesAreKept == Spec => []DatesInv
<1>1. Init => DatesInv
  BY DEF Init, DatesInv, Exists
<1>2. OwnInv /\ HandInv /\ DatesInv /\ [Next]_vars => DatesInv'
  BY NextDates
<1>. QED
  BY <1>1, <1>2, OwnershipIsKept, CopiesAreKept, PTL DEF Spec

\* An Ambassador that is happily deployed is replaced, without a change of the
\* spec or a migration, only updateInterval after the check that its status
\* dates, and when the window allows, whatever fails (reconcile_update.go:65-81).
THEOREM HappilyDeployedWaits == Spec => AutomaticUpdatesWait
<1>. DEFINE A == \A i \in Inst :
          Replaced(i) /\ HappilyDeployed(i) /\ ~job.changed /\ ~Migrating(job.seen)
          => /\ job.time >= obj[i].st.check + UpdateInterval
             /\ job.time \in job.seen.spec.window
<1>1. ASSUME OwnInv, StatusInv, HandInv, DatesInv, [Next]_vars PROVE [A]_vars
  <2>1. SUFFICES ASSUME NEW i \in Inst, Replaced(i), HappilyDeployed(i),
                        ~job.changed, ~Migrating(job.seen)
                 PROVE  /\ job.time >= obj[i].st.check + UpdateInterval
                        /\ job.time \in job.seen.spec.window
    OBVIOUS
  <2>2. /\ job # Idle /\ job \in Job /\ job.inst = i /\ job.stage = "downloaded"
        /\ obj[i].st = job.seen.st /\ ~NotNow /\ LastType(job.seen.st) = "Deployed"
    BY <1>1, <2>1, ReplacedHow DEF HappilyDeployed
  <2>3. job.seen.st \in Status /\ job.time \in Nat
    BY <1>1, <2>2, JobStatuses DEF OwnInv, TypeInv
  <2>4. HasType(job.seen.st, "Deployed") /\ ~job.seen.gone
    BY <1>1, <2>2, <2>3, LastTypeIsFound DEF StatusInv, JobSays, Deploying
  <2>5. job.seen.st.check \in Nat /\ job.seen.st.check > 0
    BY <1>1, <2>2, <2>3, <2>4 DEF DatesInv, Dated, Status
  <2>. QED
    BY <2>1, <2>2, <2>3, <2>5, BoundsAssumption DEF NotNow
<1>. QED
  BY <1>1, OwnershipIsKept, StatusesAreKept, CopiesAreKept, DatesAreKept, PTL
     DEF Spec, AutomaticUpdatesWait

\* ... and always with the values of an upgrade, which leave the secret of the
\* license alone: the values were chosen with an earlier copy of the status, and
\* it still says so (reconcile.go:296-304).
THEOREM HappilyDeployedKeepsLicense == Spec => UpgradesKeepLicense
<1>. DEFINE A == \A i \in Inst : Replaced(i) /\ HappilyDeployed(i) => ~release'[i].secret
<1>1. ASSUME OwnInv, HandInv, [Next]_vars PROVE [A]_vars
  <2>1. SUFFICES ASSUME NEW i \in Inst, Replaced(i), HappilyDeployed(i)
                 PROVE  ~release'[i].secret
    OBVIOUS
  <2>2. /\ job # Idle /\ job \in Job /\ job.stage = "downloaded"
        /\ release'[i] = Candidate /\ LastType(job.seen.st) = "Deployed"
    BY <1>1, <2>1, ReplacedHow DEF HappilyDeployed
  <2>3. job.secret <=> FALSE
    BY <1>1, <2>2 DEF HandInv, Deploying
  <2>. QED
    BY <2>2, <2>3 DEF Candidate
<1>. QED
  BY <1>1, OwnershipIsKept, CopiesAreKept, PTL DEF Spec, UpgradesKeepLicense

-----------------------------------------------------------------------------
\* Where the operator rests an Ambassador is installed, whatever fails.

\* What says that it was deployed is, until the deletion.
Stands(i) == Exists(i) /\ ~obj[i].gone /\ HasType(obj[i].st, "Deployed") => Installed(i)

Remains(i) == Settled(i) /\ ~IsDuplicate(obj[i].st) => Installed(i)

RestInv == \A i \in Inst : Stands(i) /\ Remains(i)

\* A CR that nobody touches.
LEMMA UntouchedRests ==
    ASSUME OwnInv, [Next]_vars, NEW k \in Inst, Stands(k), Remains(k),
           Exists(k)' => /\ Exists(k) /\ obj'[k].gone = obj[k].gone
                         /\ obj'[k].st = obj[k].st,
           Settled(k)' => Settled(k)
    PROVE  Stands(k)' /\ Remains(k)'
<1>1. Installed(k) => Installed(k)' \/ obj[k].gone
  BY UninstalledHow
<1>2. Stands(k)'
  BY <1>1 DEF Stands, HasType
<1>3. Remains(k)'
  BY <1>1 DEF Remains, Settled, IsDuplicate
<1>. QED
  BY <1>2, <1>3

\* A call that fails asks for another one.
LEMMA FailAsksAgain ==
    ASSUME TypeOK, Fail
    PROVE  job' = Idle /\ (Requeue \/ Restart)
BY DEF Fail, DownloadFails, SyncFails, InstallFails, UpdateFails, ReconcileFails, DeleteFails,
   CallFails, Crash, HelmFails, FailWith, Requeue, Restart

\* A failure is a crash or that of a call in progress.
LEMMA FailInCall ==
    ASSUME TypeOK, Fail, ~Restart
    PROVE  job \in Job /\ job # Idle
<1>1. CASE CallFails
  BY <1>1 DEF CallFails, TypeOK
<1>2. CASE \/ DownloadFails \/ SyncFails \/ InstallFails \/ UpdateFails
           \/ ReconcileFails \/ DeleteFails
  <2>1. job.stage \in Stages
    BY <1>2 DEF DownloadFails, MayDownload, Accepted, SyncFails, InstallFails, UpdateFails,
       ReconcileFails, DeleteFails, Terminating, At, Stages
  <2>. QED
    BY <2>1, AtStage
<1>. QED
  BY <1>1, <1>2 DEF Fail, Crash

\* The CRs that the call is not about.
LEMMA OthersRest ==
    ASSUME OwnInv, HandInv, RestInv, Handle \/ Fail, job' = Idle,
           NEW k \in Inst, job = Idle \/ k # job.inst
    PROVE  Stands(k)' /\ Remains(k)'
<1>1. Exists(k)' => LeavesCR(k)
  BY EndLeaves
<1>2. CASE Fail /\ Restart
  <2>1. Exists(k)' => obj'[k] = obj[k] /\ ~Settled(k)'
    BY <1>2 DEF Restart, Settled, Exists
  <2>. QED
    BY <2>1, UntouchedRests DEF RestInv, Next, Exists, Settled
<1>3. CASE ~(Fail /\ Restart)
  <2>1. job # Idle
    BY <1>3, HandleInCall, FailInCall DEF OwnInv, TypeInv
  <2>2. Exists(k)' => Exists(k) /\ obj'[k].gone = obj[k].gone /\ obj'[k].st = obj[k].st
    BY <1>1, <2>1 DEF LeavesCR, Keeps
  <2>3. k \in queue => k \in queue' \/ ~Exists(k)'
    BY <1>3, HandleQueue, FailAsksAgain DEF Exists, Requeue, OwnInv, TypeInv
  <2>4. Settled(k)' => Settled(k)
    BY <2>1, <2>2, <2>3 DEF Settled
  <2>. QED
    BY <2>2, <2>4, UntouchedRests DEF RestInv, Next
<1>. QED
  BY <1>2, <1>3

\* The CR of a call that ends.
LEMMA EndStands ==
    ASSUME OwnInv, StatusInv, HandInv, RestInv, Handle \/ Fail, job' = Idle,
           NEW k \in Inst
    PROVE  Stands(k)'
<1>1. SUFFICES ASSUME Exists(k)', ~obj'[k].gone, HasType(obj'[k].st, "Deployed")
               PROVE  Installed(k)'
  BY DEF Stands
<1>2. LeavesCR(k)
  BY <1>1, EndLeaves
<1>3. Exists(k) /\ ~obj[k].gone
  BY <1>1, <1>2 DEF LeavesCR, Keeps
<1>4. Installed(k)
  <2>1. CASE HasType(obj[k].st, "Deployed")
    BY <1>3, <2>1 DEF RestInv, Stands
  <2>2. CASE ~HasType(obj[k].st, "Deployed")
    <3>1. /\ k = job.inst /\ job.stage \in Deployed /\ obj[k] = job.seen
      BY <1>1, <1>2, <2>2 DEF LeavesCR, Amends, HasType
    <3>2. job # Idle /\ job.st.rel # NoRelease
      BY <3>1, AtStage DEF HandInv, Deployed, Stages, OwnInv, TypeInv
    <3>. QED
      BY <1>3, <3>1, <3>2 DEF StatusInv, JobSays, Announces
  <2>. QED
    BY <2>1, <2>2
<1>. QED
  BY <1>3, <1>4, UninstalledHow DEF Next

LEMMA EndRemains ==
    ASSUME OwnInv, StatusInv, HandInv, AskedAgain, RestInv, Handle \/ Fail, job' = Idle,
           job # Idle, NEW k \in Inst, k = job.inst
    PROVE  Remains(k)'
<1>1. SUFFICES ASSUME Settled(k)', ~IsDuplicate(obj'[k].st)
               PROVE  Installed(k)'
  BY DEF Remains
<1>2. Handle
  <2>1. ~(Fail /\ (Requeue \/ Restart))
    BY <1>1 DEF Settled, Exists, Requeue, Restart
  <2>. QED
    BY <2>1, FailAsksAgain DEF OwnInv, TypeInv
<1>3. /\ job.fresh
      /\ IgnoreDuplicate \/ MarkDuplicate \/ Skip \/ ReportDeployed \/ ReportReconciled
  BY <1>1, <1>2, SettlesHow
<1>4. /\ job \in Job /\ obj[k] = job.seen /\ job.seen \in Object /\ job.st \in Status
      /\ job.seen.st \in Status /\ Exists(k)
  BY <1>3, InCall, JobStatuses, SentinelAssumption DEF OwnInv, TypeInv, JobCurrent, Exists
<1>5. CASE IgnoreDuplicate
  BY <1>1, <1>4, <1>5 DEF IgnoreDuplicate
<1>6. CASE MarkDuplicate
  <2>. DEFINE w == With(job.st, "Irreconcilable", "False", "DuplicateError")
  <2>1. IsDuplicate(w) /\ obj' = [obj EXCEPT ![k].st = w]
    BY <1>3, <1>4, <1>6, MarkIsFound DEF MarkDuplicate, WriteStatus, OwnInv, TypeInv, TypeOK
  <2>. HIDE DEF w
  <2>2. obj'[k].st = w
    BY <1>4, <2>1 DEF Object, OwnInv, TypeInv, TypeOK
  <2>. QED
    BY <1>1, <2>1, <2>2
<1>7. CASE Skip
  <2>1. UNCHANGED <<obj, release>> /\ HasType(job.seen.st, "Deployed")
    BY <1>4, <1>7, LastTypeIsFound DEF Skip, NotNow
  <2>. QED
    BY <1>1, <1>4, <2>1 DEF RestInv, Stands, Settled, Installed
<1>8. CASE ReportDeployed \/ ReportReconciled
  <2>1. job.stage \in Deployed /\ UNCHANGED release
    BY <1>8 DEF ReportDeployed, ReportReconciled, Deployed, At
  <2>2. job.st.rel # NoRelease /\ ~job.seen.gone
    BY <1>4, <2>1 DEF HandInv, StatusInv, JobSays, Deployed, Deploying
  <2>. QED
    BY <1>4, <2>1, <2>2 DEF StatusInv, JobSays, Announces, Installed
<1>. QED
  BY <1>3, <1>5, <1>6, <1>7, <1>8

LEMMA EndRest ==
    ASSUME OwnInv, StatusInv, HandInv, AskedAgain, RestInv, Handle \/ Fail, job' = Idle
    PROVE  RestInv'
BY OthersRest, EndStands, EndRemains DEF RestInv

\* A call that goes on does not leave its CR alone.
LEMMA GoesOnRest ==
    ASSUME OwnInv, HandInv, RestInv, Handle \/ Fail, job' # Idle
    PROVE  RestInv'
<1>1. \/ Proceeds
      \/ (RecordSpecHash \/ ReportUninstalled) /\ job.fresh
  BY CallStep
<1>2. queue \subseteq queue'
  BY <1>1, GoesOnQueue
<1>3. CASE Proceeds
  <2>1. UNCHANGED obj /\ job # Idle /\ job'.inst = job.inst
    BY <1>3, ProceedsHow DEF SameCall
  <2>2. \A k \in Inst : Settled(k)' => Settled(k)
    BY <1>2, <2>1 DEF Settled, Exists
  <2>. QED
    BY <2>1, <2>2, UntouchedRests DEF RestInv, Next, Exists
<1>4. CASE RecordSpecHash /\ job.fresh
  <2>1. Records
    BY <1>4, RecordsHow
  <2>2. job.inst \in Inst /\ job.seen \in Object
    BY <2>1 DEF Records, Job
  <2>3. \A k \in Inst : obj'[k] = IF k = job.inst THEN job'.seen ELSE obj[k]
    BY <2>1, <2>2 DEF Records, OwnInv, TypeInv, TypeOK
  <2>4. job'.seen.st = job.seen.st /\ job'.seen.gone = job.seen.gone
    BY <2>1, <2>2 DEF Records, Object
  <2>5. \A k \in Inst : Exists(k)' => /\ Exists(k) /\ obj'[k].gone = obj[k].gone
                                      /\ obj'[k].st = obj[k].st
    BY <2>1, <2>2, <2>3, <2>4, SentinelAssumption DEF Records, Exists
  <2>6. \A k \in Inst : Settled(k)' => Settled(k)
    BY <1>2, <2>1, <2>5 DEF Settled, Records
  <2>. QED
    BY <2>5, <2>6, UntouchedRests DEF RestInv, Next
<1>5. CASE ReportUninstalled /\ job.fresh
  <2>1. /\ job \in Job /\ job # Idle /\ job.inst \in Inst /\ obj[job.inst] = job.seen
        /\ job.seen \in Object /\ job.seen.gone
    BY <1>5, AtStage, JobStatuses
       DEF ReportUninstalled, At, Stages, Undeploying, OwnInv, TypeInv, JobCurrent, JobHolds
  <2>2. /\ obj' = [obj EXCEPT ![job.inst].st = job.st]
        /\ job' = [job EXCEPT !.stage = "reported", !.seen.st = job.st]
    BY <1>5 DEF ReportUninstalled, WriteStatus, GoTo
  <2>3. obj'[job.inst].gone /\ job'.inst = job.inst
    BY <2>1, <2>2 DEF Job, Object, OwnInv, TypeInv, TypeOK
  <2>4. \A k \in Inst : k # job.inst => obj'[k] = obj[k]
    BY <2>2 DEF OwnInv, TypeInv, TypeOK
  <2>5. ASSUME NEW k \in Inst PROVE Stands(k)' /\ Remains(k)'
    <3>1. CASE k = job.inst
      BY <2>3, <3>1 DEF Stands, Remains, Settled
    <3>2. CASE k # job.inst
      <4>1. Settled(k)' => Settled(k)
        BY <1>2, <2>1, <2>4, <3>2 DEF Settled, Exists
      <4>. QED
        BY <2>4, <3>2, <4>1, UntouchedRests DEF RestInv, Next, Exists
    <3>. QED
      BY <3>1, <3>2
  <2>. QED
    BY <2>5 DEF RestInv
<1>. QED
  BY <1>1, <1>3, <1>4, <1>5

\* What a user writes is looked at.
LEMMA UserRest ==
    ASSUME OwnInv, RestInv, NEW i \in Inst, Create(i) \/ Edit(i) \/ Delete(i) \/ LetGo(i)
    PROVE  RestInv'
<1>1. Disturb(i) /\ queue' = queue \cup {i} /\ UNCHANGED release
  BY DEF Create, Edit, Delete, LetGo, Disturb
<1>2. job' = Idle <=> job = Idle
  BY <1>1, InCall DEF Disturb, OwnInv, TypeInv, TypeOK, Job, Idle, Stages
<1>3. job' # Idle => job'.inst = job.inst
  BY <1>1, DisturbKeepsCall
<1>4. ASSUME NEW k \in Inst, k # i PROVE Stands(k)' /\ Remains(k)'
  <2>1. obj'[k] = obj[k]
    BY <1>4 DEF Create, Edit, Delete, LetGo, OwnInv, TypeInv, TypeOK
  <2>2. Settled(k)' => Settled(k)
    BY <1>1, <1>2, <1>3, <2>1 DEF Settled, Exists
  <2>. QED
    BY <2>1, <2>2, UntouchedRests DEF RestInv, Next, Environment, Exists
<1>5. Remains(i)'
  BY <1>1 DEF Remains, Settled
<1>6. Stands(i)'
  <2>1. CASE Create(i)
    <3>1. obj'[i].st = NewStatus
      BY <2>1 DEF Create, OwnInv, TypeInv, TypeOK
    <3>. QED
      BY <3>1 DEF Stands, HasType, NewStatus
  <2>2. CASE Edit(i) \/ Delete(i) \/ LetGo(i)
    <3>1. Exists(i)' => /\ Exists(i) /\ obj'[i].st = obj[i].st
                        /\ obj[i].gone => obj'[i].gone
      BY <2>2, UserKeeps
    <3>. QED
      BY <1>1, <3>1 DEF RestInv, Stands, Installed
  <2>. QED
    BY <2>1, <2>2
<1>. QED
  BY <1>4, <1>5, <1>6 DEF RestInv

LEMMA NextRest ==
    ASSUME OwnInv, StatusInv, HandInv, PendingInv, RestInv, [Next]_vars
    PROVE  RestInv'
<1>1. ASSUME UNCHANGED <<obj, release, job>>, queue \subseteq queue' PROVE RestInv'
  <2>1. \A k \in Inst : Settled(k)' => Settled(k)
    BY <1>1 DEF Settled, Exists
  <2>. QED
    BY <1>1, <2>1, UntouchedRests DEF RestInv, Exists
<1>2. CASE \/ CacheCatchesUp \/ ToggleAuth \/ Publish \/ Tick \/ UNCHANGED vars
           \/ \E i \in Inst : TimerFires(i)
  BY <1>1, <1>2 DEF CacheCatchesUp, ToggleAuth, Publish, Tick, vars, TimerFires
<1>3. ASSUME NEW i \in Inst, Lookup(i) PROVE RestInv'
  <2>1. /\ UNCHANGED <<obj, release>> /\ queue' = queue \ {i} /\ job = Idle
        /\ obj[i] # NoObj => job' # Idle /\ job'.inst = i
    BY <1>3 DEF Lookup, Idle
  <2>2. \A k \in Inst : Settled(k)' => Settled(k)
    BY <2>1 DEF Settled, Exists
  <2>. QED
    BY <2>1, <2>2, UntouchedRests DEF RestInv, Exists
<1>4. CASE \E i \in Inst : Create(i) \/ Edit(i) \/ Delete(i) \/ LetGo(i)
  BY <1>4, UserRest
<1>5. CASE Handle \/ Fail
  BY <1>5, EndRest, GoesOnRest DEF PendingInv
<1>. QED
  BY <1>2, <1>3, <1>4, <1>5 DEF Next, Environment

\* Whatever fails, wherever the operator is stopped and whoever edits: a CR that
\* it has come to rest on, and has not marked as a duplicate, has an Ambassador,
\* because a call that gives up before Helm is done is repeated
\* (reconcile.go:125-450, reconcile_update.go:71-81, 302-315).
THEOREM RestMeansInstalled == Spec => []SettledIsInstalled
<1>1. Init => RestInv
  BY DEF Init, RestInv, Stands, Remains, Settled, Exists
<1>2. OwnInv /\ StatusInv /\ HandInv /\ PendingInv /\ RestInv /\ [Next]_vars => RestInv'
  BY NextRest
<1>3. RestInv => SettledIsInstalled
  BY DEF RestInv, Remains, SettledIsInstalled
<1>. QED
  BY <1>1, <1>2, <1>3, OwnershipIsKept, StatusesAreKept, CopiesAreKept, AlwaysPending, PTL
     DEF Spec

=============================================================================
