-------------------------- MODULE ConditionHistory --------------------------
(***************************************************************************)
(* Every history of one condition list under the calls the reconciler      *)
(* makes: SetCondition and RemoveCondition in any order while the clock    *)
(* advances.  The module checks the pure functions of Conditions against   *)
(* the loops they were written as and against what their comments promise. *)
(***************************************************************************)
EXTENDS Conditions

CONSTANTS
    Calls,      \* the <<type, status, reason>> triples SetCondition is called with
    MaxTime     \* bound on the clock

ASSUME CallsAssumption ==
    Calls \subseteq ConditionTypes \X ConditionStatuses \X ConditionReasons

ASSUME MaxTimeAssumption == MaxTime \in Nat \ {0}

VARIABLES
    conds,      \* the list: status.conditions
    now         \* metav1.Now(), in seconds

vars == <<conds, now>>

Init == conds = <<>> /\ now = 1

SetOne(type, status, reason) ==
    /\ conds' = SetCondition(conds, type, status, reason, now)
    /\ UNCHANGED now

RemoveOne(type) ==
    /\ conds' = RemoveCondition(conds, type)
    /\ UNCHANGED now

Tick ==
    /\ now < MaxTime
    /\ now' = now + 1
    /\ UNCHANGED conds

Next ==
    \/ \E c \in Calls : SetOne(c[1], c[2], c[3])
    \/ \E type \in ConditionTypes : RemoveOne(type)
    \/ Tick

Spec == Init /\ [][Next]_vars

-----------------------------------------------------------------------------

\* Filters the reconciler could use: none, by reason, by type, by status.
Filters == {AnyCondition}
           \cup {ByReason(c[3]) : c \in Calls}
           \cup {[AnyCondition EXCEPT !.type = c[1]] : c \in Calls}
           \cup {[AnyCondition EXCEPT !.status = c[2]] : c \in Calls}

\* LastCondition, defined by what it selects, is what its loop computes on
\* every list the operator can build, ties between equal seconds included
\* (types.go:183-203).
LastConditionIsLoopResult ==
    \A f \in Filters : LastCondition(conds, f) = LoopLast(conds, f)

\* A list never holds two entries of one type, however calls to SetCondition
\* and RemoveCondition follow each other: "If the condition already exists,
\* it will be replaced" (types.go:205-206).
UniqueConditionTypes == UniqueTypes(conds) /\ conds \in Seq(Condition)

\* A condition that changes its status, or appears, at a second later than
\* every stamp in the list becomes the last condition: a real transition is
\* never hidden behind an older one (types.go:208-227 with 196-200).
TransitionIsLast ==
    [][\A type \in ConditionTypes, status \in ConditionStatuses :
          /\ HasCondition(conds', type, status)
          /\ ~HasCondition(conds, type, status)
          /\ \A k \in DOMAIN conds : conds[k].time < now
          => LET last == LastCondition(conds', AnyCondition)
             IN  last.type = type /\ last.status = status]_vars

\* The places of the entries of other types.
Others(cs, type) == {k \in DOMAIN cs : cs[k].type # type}

\* The entries other than those of the type a call names keep their order and
\* their contents, and none is added: RemoveCondition and SetCondition touch
\* one entry only (types.go:217, 242).
OthersUntouched ==
    [][\E type \in ConditionTypes :
          LET Old == Others(conds, type)
              New == Others(conds', type)
          IN  \E move \in [Old -> New] :
                 /\ \A k \in Old : conds'[move[k]] = conds[k]
                 /\ \A j, k \in Old : j < k => move[j] < move[k]
                 /\ \A m \in New : \E k \in Old : move[k] = m]_vars
=============================================================================
