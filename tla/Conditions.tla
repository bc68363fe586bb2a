----------------------------- MODULE Conditions -----------------------------
(***************************************************************************)
(* The condition list of an AmbassadorInstallation status: the pure        *)
(* functions SetCondition, RemoveCondition and LastCondition of            *)
(* pkg/apis/getambassador/v2/ambassadorinstallation_types.go.  The list is *)
(* the operator's only memory of what happened to an installation, and     *)
(* every gate of the reconciler reads it through LastCondition.            *)
(*                                                                         *)
(* Limits: messages are left out; a time stamp is a natural number of      *)
(* seconds (metav1.Time is stored with that precision), 0 being the zero   *)
(* time, which no stored condition has.                                    *)
(***************************************************************************)
EXTENDS Naturals, Sequences, SequencesExt

ConditionTypes == {"Initialized", "Deployed", "Failed", "Irreconcilable"}

ConditionStatuses == {"True", "False", "Unknown"}

\* "" is the reason of a condition that is set without one.
ConditionReasons ==
    {"", "InstallSuccessful", "UpdateSuccessful", "UninstallSuccessful",
     "InstallError", "UpdateError", "DownloadError", "ReconcileError",
     "UninstallError", "ParametersError", "DuplicateError",
     "UpgradePrecondError"}

Condition == [type   : ConditionTypes,
              status : ConditionStatuses,
              reason : ConditionReasons,
              time   : Nat]

\* The zero value a Go function returns when nothing matched.
ZeroCondition == [type |-> "", status |-> "", reason |-> "", time |-> 0]

\* Filters of LastCondition: an empty field matches everything.
AnyCondition == [type |-> "", status |-> "", reason |-> ""]

ByReason(r) == [AnyCondition EXCEPT !.reason = r]

-----------------------------------------------------------------------------

\* The places of the entries of a type; the loops stop at the first.
Places(conds, type) == {k \in DOMAIN conds : conds[k].type = type}

\* Variants of SetCondition: the loop finds no entry; a transition keeps the
\* old time stamp.
SetConditionAppending(conds, type, status, reason, now) ==
    Append(conds, [type |-> type, status |-> status, reason |-> reason, time |-> now])

SetConditionKeepingTime(conds, type, status, reason, now) ==
    LET k      == Min(Places(conds, type))
        new(t) == [type |-> type, status |-> status, reason |-> reason, time |-> t]
    IN  IF Places(conds, type) = {} THEN Append(conds, new(now))
        ELSE ReplaceAt(conds, k, new(conds[k].time))

\* conds with the condition (type, status, reason) set at time now: an entry
\* of that type is replaced in its place, where its time stamp stays when the
\* status is the same; without such an entry the condition goes to the end.
SetCondition(conds, type, status, reason, now) ==
    LET k      == Min(Places(conds, type))
        new(t) == [type |-> type, status |-> status, reason |-> reason, time |-> t]
    IN  IF Places(conds, type) = {} THEN Append(conds, new(now))
        ELSE ReplaceAt(conds, k,
                 new(IF conds[k].status = status THEN conds[k].time ELSE now))

\* Variant of RemoveCondition: conds[i+1:] is not appended again.
RemoveConditionTruncating(conds, type) ==
    IF Places(conds, type) = {} THEN conds
    ELSE SubSeq(conds, 1, Min(Places(conds, type)) - 1)

\* conds without its first entry of the type, if it has one.
RemoveCondition(conds, type) ==
    IF Places(conds, type) = {} THEN conds
    ELSE RemoveAt(conds, Min(Places(conds, type)))

Matches(c, filter) == \A f \in DOMAIN filter : filter[f] \in {"", c[f]}

\* Variant of LastCondition: a tie goes to the last entry (not Before).
LastConditionLateTie(conds, filter) ==
    LET M == {k \in DOMAIN conds : Matches(conds[k], filter)}
        Newest(k) == \A j \in M : \/ conds[j].time < conds[k].time
                                  \/ conds[j].time = conds[k].time /\ j <= k
    IN  IF M = {} THEN ZeroCondition
        ELSE conds[CHOOSE k \in M : Newest(k)]

\* The newest condition the filter lets through; of several with the same
\* time stamp, the one that comes first in the list.
LastCondition(conds, filter) ==
    LET M == {k \in DOMAIN conds : Matches(conds[k], filter)}
        Newest(k) == \A j \in M : \/ conds[j].time < conds[k].time
                                  \/ conds[j].time = conds[k].time /\ k <= j
    IN  IF M = {} THEN ZeroCondition
        ELSE conds[CHOOSE k \in M : Newest(k)]

\* The loop of LastCondition, one entry after the other.
LoopLast(conds, filter) ==
    FoldLeft(LAMBDA last, c :
                 IF Matches(c, filter) /\ (last.time = 0 \/ c.time > last.time)
                 THEN c ELSE last,
             ZeroCondition, conds)

-----------------------------------------------------------------------------

\* No two entries have the same type.
UniqueTypes(conds) ==
    \A j, k \in DOMAIN conds : conds[j].type = conds[k].type => j = k

HasReason(conds, r) == \E k \in DOMAIN conds : conds[k].reason = r

HasCondition(conds, type, status) ==
    \E k \in DOMAIN conds : conds[k].type = type /\ conds[k].status = status
=============================================================================
