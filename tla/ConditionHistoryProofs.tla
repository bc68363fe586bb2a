----------------------- MODULE ConditionHistoryProofs -----------------------
(***************************************************************************)
(* The properties of ConditionHistory, for every set of calls and every    *)
(* clock: the types of a list stay unique, LastCondition is the result of  *)
(* the loop it stands for, a new transition is the last condition, and a   *)
(* call touches one entry only.                                            *)
(***************************************************************************)
EXTENDS ConditionHistory, ListLemmas

\* No call ever leaves two entries of one type in the list, for any set of
\* calls and any clock: a condition is replaced, never doubled.
THEOREM ConditionTypesStayUnique == Spec => []UniqueConditionTypes
<1>. DEFINE Inv == now \in Nat /\ UniqueConditionTypes
<1>1. Init => Inv
  BY DEF Init, UniqueConditionTypes, UniqueTypes
<1>2. Inv /\ [Next]_vars => Inv'
  <2>. SUFFICES ASSUME Inv, [Next]_vars PROVE Inv'
    OBVIOUS
  <2>. USE DEF UniqueConditionTypes
  <2>1. ASSUME NEW c \in Calls, SetOne(c[1], c[2], c[3]) PROVE Inv'
    <3>1. /\ c[1] \in ConditionTypes /\ c[2] \in ConditionStatuses
          /\ c[3] \in ConditionReasons
      BY CallsAssumption
    <3>. QED
      BY <2>1, <3>1, SetConditionType, SetConditionUnique DEF SetOne
  <2>2. ASSUME NEW ty \in ConditionTypes, RemoveOne(ty) PROVE Inv'
    BY <2>2, RemoveConditionType, RemoveConditionUnique DEF RemoveOne
  <2>3. CASE Tick
    BY <2>3 DEF Tick
  <2>4. CASE UNCHANGED vars
    BY <2>4 DEF vars
  <2>. QED
    BY <2>1, <2>2, <2>3, <2>4 DEF Next
<1>. QED
  BY <1>1, <1>2, PTL DEF Spec

\* No entry has the zero time, by which the loop knows that it has found none
\* yet, nor a time that is still to come.
TimesInv ==
    /\ UniqueConditionTypes
    /\ now \in Nat \ {0}
    /\ \A k \in DOMAIN conds : conds[k].time > 0 /\ conds[k].time <= now

LEMMA TimesInvariant == Spec => []TimesInv
<1>1. Init => TimesInv
  BY DEF Init, TimesInv, UniqueConditionTypes, UniqueTypes
<1>2. TimesInv /\ UniqueConditionTypes' /\ [Next]_vars => TimesInv'
  <2>. SUFFICES ASSUME TimesInv, UniqueConditionTypes', [Next]_vars PROVE TimesInv'
    OBVIOUS
  <2>. DEFINE Dated(cs, t) == \A k \in DOMAIN cs : cs[k].time > 0 /\ cs[k].time <= t
  <2>0. /\ conds \in Seq(Condition) /\ now \in Nat /\ now > 0 /\ Dated(conds, now)
        /\ \A k \in DOMAIN conds : conds[k].time \in Nat
    <3>1. conds \in Seq(Condition) /\ now \in Nat /\ now > 0 /\ Dated(conds, now)
      BY DEF TimesInv, UniqueConditionTypes
    <3>2. \A k \in DOMAIN conds : conds[k] \in Condition
      BY <3>1, EntriesAreConditions
    <3>. QED
      BY <3>1, <3>2 DEF Condition
  <2>1. ASSUME NEW c \in Calls, SetOne(c[1], c[2], c[3]) PROVE TimesInv'
    <3>1. conds' = SetCondition(conds, c[1], c[2], c[3], now) /\ now' = now
      BY <2>1 DEF SetOne
    <3>2. PICK k, u : OnePlaceSet(conds, conds', c[1], c[2], c[3], now, k, u)
      BY <2>0, <3>1, SetConditionShape
    <3>3. u > 0 /\ u <= now
      BY <2>0, <3>2 DEF OnePlaceSet
    <3>4. Dated(conds', now)
      BY <2>0, <3>2, <3>3 DEF OnePlaceSet
    <3>. QED
      BY <2>0, <3>1, <3>4 DEF TimesInv
  <2>2. ASSUME NEW ty \in ConditionTypes, RemoveOne(ty) PROVE TimesInv'
    <3>1. conds' = RemoveCondition(conds, ty) /\ now' = now
      BY <2>2 DEF RemoveOne
    <3>2. \A j \in DOMAIN conds' : \E k \in DOMAIN conds : conds'[j] = conds[k]
      BY <2>0, <3>1, RemoveConditionEntries
    <3>. QED
      BY <2>0, <3>1, <3>2 DEF TimesInv
  <2>3. CASE Tick
    <3>1. now' = now + 1 /\ conds' = conds
      BY <2>3 DEF Tick
    <3>. QED
      BY <2>0, <3>1 DEF TimesInv
  <2>4. CASE UNCHANGED vars
    BY <2>4 DEF vars, TimesInv
  <2>. QED
    BY <2>1, <2>2, <2>3, <2>4 DEF Next
<1>. QED
  BY <1>1, <1>2, ConditionTypesStayUnique, PTL DEF Spec

\* LastCondition returns what its loop returns, on every list any calls build
\* at any times: the loop may tell "none yet" by a zero time because no entry
\* has one.
THEOREM LastConditionIsTheLoop == Spec => []LastConditionIsLoopResult
<1>1. TimesInv => LastConditionIsLoopResult
  <2>. SUFFICES ASSUME TimesInv, NEW f \in Filters
                PROVE  LastCondition(conds, f) = LoopLast(conds, f)
    BY DEF LastConditionIsLoopResult
  <2>1. conds \in Seq(Condition) /\ \A j \in DOMAIN conds : conds[j].time > 0
    BY DEF TimesInv, UniqueConditionTypes
  <2>2. PICK last : IsLoop(last, conds, f) /\ LoopLast(conds, f) = last[Len(conds)]
    BY <2>1, LoopLastIsLoop
  <2>3. Latest(last[Len(conds)], conds, f, Len(conds))
    BY <2>1, <2>2, LoopFindsLatest
  <2>. QED
    BY <2>1, <2>2, <2>3, LatestIsLast
<1>. QED
  BY <1>1, TimesInvariant, PTL

\* A condition that appears or changes its status later than every entry of
\* the list is the last condition from then on, after any history.
THEOREM TransitionBecomesLast == Spec => TransitionIsLast
<1>. DEFINE A == \A type \in ConditionTypes, status \in ConditionStatuses :
                    /\ HasCondition(conds', type, status)
                    /\ ~HasCondition(conds, type, status)
                    /\ \A k \in DOMAIN conds : conds[k].time < now
                    => LET last == LastCondition(conds', AnyCondition)
                       IN  last.type = type /\ last.status = status
<1>1. TimesInv /\ UniqueConditionTypes' /\ [Next]_vars => [A]_vars
  <2>. SUFFICES ASSUME TimesInv, UniqueConditionTypes', Next,
                       NEW type \in ConditionTypes, NEW status \in ConditionStatuses,
                       HasCondition(conds', type, status),
                       ~HasCondition(conds, type, status),
                       \A k \in DOMAIN conds : conds[k].time < now
                PROVE  LET last == LastCondition(conds', AnyCondition)
                       IN  last.type = type /\ last.status = status
    BY Zenon
  <2>0. conds \in Seq(Condition) /\ conds' \in Seq(Condition)
    BY DEF TimesInv, UniqueConditionTypes
  <2>1. PICK j \in DOMAIN conds' : conds'[j].type = type /\ conds'[j].status = status
    BY DEF HasCondition
  <2>2. \A i \in DOMAIN conds : conds[i] # conds'[j]
    BY <2>1 DEF HasCondition
  <2>3. CASE \E c \in Calls : SetOne(c[1], c[2], c[3])
    <3>1. PICK c \in Calls : SetOne(c[1], c[2], c[3])
      BY <2>3
    <3>2. PICK k, u : OnePlaceSet(conds, conds', c[1], c[2], c[3], now, k, u)
      <4>1. conds' = SetCondition(conds, c[1], c[2], c[3], now)
        BY <3>1 DEF SetOne
      <4>. QED
        BY <2>0, <4>1, SetConditionShape
    <3>3. j = k
      BY <2>1, <2>2, <3>2 DEF OnePlaceSet
    <3>4. c[1] = type /\ c[2] = status
      BY <2>1, <3>2, <3>3 DEF OnePlaceSet
    <3>5. conds'[k].time = now
      BY <3>2, <3>4 DEF HasCondition, OnePlaceSet
    <3>6. \A i \in DOMAIN conds' : i # k => conds'[i].time < conds'[k].time
      BY <3>2, <3>5 DEF OnePlaceSet
    <3>7. LastCondition(conds', AnyCondition) = conds'[k]
      BY <2>0, <2>1, <3>3, <3>6, NewestIsLast
    <3>. QED
      BY <2>1, <3>3, <3>7
  <2>4. CASE \E ty \in ConditionTypes : RemoveOne(ty)
    <3>1. PICK ty \in ConditionTypes : RemoveOne(ty)
      BY <2>4
    <3>2. \A i \in DOMAIN conds' : \E k \in DOMAIN conds : conds'[i] = conds[k]
      BY <2>0, <3>1, RemoveConditionEntries DEF RemoveOne
    <3>. QED
      BY <2>1, <2>2, <3>2
  <2>5. CASE Tick
    <3>1. conds' = conds
      BY <2>5 DEF Tick
    <3>. QED
      BY <2>1, <2>2, <3>1
  <2>. QED
    BY <2>3, <2>4, <2>5 DEF Next
<1>. QED
  BY <1>1, TimesInvariant, ConditionTypesStayUnique, PTL DEF Spec, TransitionIsLast

-----------------------------------------------------------------------------
\* What a call leaves alone.

\* The entries of other types of cs are those of res, in their order.
Carried(cs, res, type) ==
    \E move \in [Others(cs, type) -> Others(res, type)] :
        /\ \A k \in Others(cs, type) : res[move[k]] = cs[k]
        /\ \A j, k \in Others(cs, type) : j < k => move[j] < move[k]
        /\ \A m \in Others(res, type) : \E k \in Others(cs, type) : move[k] = m

\* A list that is not written.
LEMMA SameIsCarried ==
    ASSUME NEW cs, NEW type
    PROVE  Carried(cs, cs, type)
<1>. DEFINE O == Others(cs, type)
            move == [j \in O |-> j]
<1>1. move \in [O -> O] /\ \A j \in O : move[j] = j
  OBVIOUS
<1>. HIDE DEF move
<1>. QED
  BY <1>1 DEF Carried

\* SetCondition writes an entry of its type.
LEMMA SetCarries ==
    ASSUME NEW cs, NEW res, NEW ty, NEW status, NEW reason, NEW t, NEW k, NEW u,
           OnePlaceSet(cs, res, ty, status, reason, t, k, u)
    PROVE  Carried(cs, res, ty)
<1>. DEFINE O == Others(cs, ty)
            move == [j \in O |-> j]
<1>1. O = Others(res, ty)
  BY DEF OnePlaceSet, Others
<1>2. \A j \in O : res[j] = cs[j]
  BY DEF OnePlaceSet, Others
<1>3. move \in [O -> O] /\ \A j \in O : move[j] = j
  OBVIOUS
<1>. HIDE DEF move
<1>. QED
  BY <1>1, <1>2, <1>3 DEF Carried

\* RemoveCondition moves what comes after the entry one place to the front.
LEMMA RemoveCarries ==
    ASSUME NEW cs \in Seq(Condition), NEW res, NEW ty, NEW k,
           OnePlaceLess(cs, res, k), cs[k].type = ty
    PROVE  Carried(cs, res, ty)
<1>. DEFINE O == Others(cs, ty)
            N == Others(res, ty)
            to(j) == IF j < k THEN j ELSE j - 1
            at(j) == IF j < k THEN j ELSE j + 1
            move == [j \in O |-> to(j)]
<1>1. /\ k \in 1..Len(cs) /\ Len(cs) \in Nat
      /\ DOMAIN cs = 1..Len(cs) /\ DOMAIN res = 1..(Len(cs) - 1)
  BY DEF OnePlaceLess
<1>2. ASSUME NEW j \in O
      PROVE  to(j) \in N /\ res[to(j)] = cs[j]
  <2>1. j \in 1..Len(cs) /\ cs[j].type # ty /\ j # k
    BY <1>1 DEF Others
  <2>2. to(j) \in DOMAIN res
    BY <1>1, <2>1
  <2>3. at(to(j)) = j
    BY <1>1, <2>1
  <2>4. res[to(j)] = cs[j]
    BY <2>2, <2>3, OnePlaceLessEntries
  <2>. QED
    BY <2>1, <2>2, <2>4 DEF Others
<1>3. ASSUME NEW i \in O, NEW j \in O, i < j
      PROVE  to(i) < to(j)
  <2>1. i \in 1..Len(cs) /\ j \in 1..Len(cs) /\ i # k /\ j # k
    BY <1>1 DEF Others
  <2>. QED
    BY <1>1, <1>3, <2>1
<1>4. ASSUME NEW m \in N
      PROVE  \E j \in O : to(j) = m
  <2>1. m \in 1..(Len(cs) - 1) /\ res[m].type # ty
    BY <1>1 DEF Others
  <2>2. at(m) \in DOMAIN cs /\ res[m] = cs[at(m)]
    BY <1>1, <2>1, OnePlaceLessEntries
  <2>3. at(m) \in O
    BY <2>1, <2>2 DEF Others
  <2>4. to(at(m)) = m
    BY <1>1, <2>1
  <2>. QED
    BY <2>3, <2>4
<1>. HIDE DEF to
<1>5. move \in [O -> N] /\ \A j \in O : move[j] = to(j)
  BY <1>2
<1>. HIDE DEF move, O, N
<1>6. /\ \A j \in O : res[move[j]] = cs[j]
      /\ \A i, j \in O : i < j => move[i] < move[j]
      /\ \A m \in N : \E j \in O : move[j] = m
  BY <1>2, <1>3, <1>4, <1>5
<1>. QED
  BY <1>5, <1>6 DEF Carried, O, N

\* A call of SetCondition or RemoveCondition keeps the contents and the order
\* of the entries of all other types, and adds none of them, after any
\* history.
THEOREM OthersAreUntouched == Spec => OthersUntouched
<1>1. UniqueConditionTypes /\ [Next]_vars
         => UNCHANGED vars \/ \E type \in ConditionTypes : Carried(conds, conds', type)
  <2>. SUFFICES ASSUME UniqueConditionTypes, Next
                PROVE  \E type \in ConditionTypes : Carried(conds, conds', type)
    OBVIOUS
  <2>0. conds \in Seq(Condition)
    BY DEF UniqueConditionTypes
  <2>1. ASSUME NEW c \in Calls, SetOne(c[1], c[2], c[3])
        PROVE  c[1] \in ConditionTypes /\ Carried(conds, conds', c[1])
    <3>1. c[1] \in ConditionTypes
      BY CallsAssumption
    <3>2. conds' = SetCondition(conds, c[1], c[2], c[3], now)
      BY <2>1 DEF SetOne
    <3>3. PICK k, u : OnePlaceSet(conds, conds', c[1], c[2], c[3], now, k, u)
      BY <2>0, <3>2, SetConditionShape
    <3>. QED
      BY <3>1, <3>3, SetCarries
  <2>2. ASSUME NEW ty \in ConditionTypes, RemoveOne(ty)
        PROVE  Carried(conds, conds', ty)
    <3>1. conds' = RemoveCondition(conds, ty)
      BY <2>2 DEF RemoveOne
    <3>2. CASE conds' = conds
      BY <3>2, SameIsCarried
    <3>3. CASE conds' # conds
      <4>1. PICK k : OnePlaceLess(conds, conds', k) /\ conds[k].type = ty
        BY <2>0, <3>1, <3>3, RemoveConditionShape
      <4>. QED
        BY <2>0, <4>1, RemoveCarries
    <3>. QED
      BY <3>2, <3>3
  <2>3. CASE Tick
    <3>1. conds' = conds /\ "Failed" \in ConditionTypes
      BY <2>3 DEF Tick, ConditionTypes
    <3>. QED
      BY <3>1, SameIsCarried
  <2>. QED
    BY <2>1, <2>2, <2>3 DEF Next
<1>2. UniqueConditionTypes /\ [Next]_vars
         => [\E type \in ConditionTypes : Carried(conds, conds', type)]_vars
  BY <1>1
<1>. QED
  BY <1>2, ConditionTypesStayUnique, PTL DEF Spec, OthersUntouched, Carried
=============================================================================
