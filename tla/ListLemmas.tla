----------------------------- MODULE ListLemmas -----------------------------
(***************************************************************************)
(* Lemmas about lists.  The first section is about any list: the least and *)
(* the greatest of a set of places, induction up to a number, and what a   *)
(* loop written as a fold computes.  The second is about conditions: what  *)
(* SetCondition, RemoveCondition and LastCondition return and preserve.    *)
(* The third is about the loop of LastCondition.                           *)
(***************************************************************************)
EXTENDS Conditions, TLAPS, SequenceTheorems, WellFoundedInduction

\* A nonempty set of natural numbers contains its minimum.
LEMMA MinIsMember ==
    ASSUME NEW S \in SUBSET Nat, S # {}
    PROVE  Min(S) \in S
<1>. DEFINE R == OpToRel(<, Nat)
<1>1. PICK x \in S : \A y \in S : ~(<<y, x>> \in R)
  <2>1. IsWellFoundedOn(R, Nat)
    BY NatLessThanWellFounded DEF R
  <2>. HIDE DEF R
  <2>. QED
    BY <2>1, WFMin
<1>2. R = {ss \in Nat \X Nat : ss[1] < ss[2]}
  BY DEF OpToRel
<1>. HIDE DEF R
<1>3. ASSUME NEW y \in S PROVE x <= y
  <2>1. x \in Nat /\ y \in Nat /\ ~(<<y, x>> \in R)
    BY <1>1
  <2>2. ~(y < x)
    BY <2>1, <1>2
  <2>. QED
    BY <2>1, <2>2
<1>. QED
  BY <1>3, Zenon DEF Min

\* ... which is its least element.
LEMMA MinIsLeast ==
    ASSUME NEW S \in SUBSET Nat, S # {}
    PROVE  \A y \in S : Min(S) <= y
<1>. DEFINE R == OpToRel(<, Nat)
<1>1. PICK x \in S : \A y \in S : ~(<<y, x>> \in R)
  <2>1. IsWellFoundedOn(R, Nat)
    BY NatLessThanWellFounded DEF R
  <2>. HIDE DEF R
  <2>. QED
    BY <2>1, WFMin
<1>2. R = {ss \in Nat \X Nat : ss[1] < ss[2]}
  BY DEF OpToRel
<1>. HIDE DEF R
<1>3. ASSUME NEW y \in S PROVE x <= y
  <2>1. x \in Nat /\ y \in Nat /\ ~(<<y, x>> \in R)
    BY <1>1
  <2>2. ~(y < x)
    BY <2>1, <1>2
  <2>. QED
    BY <2>1, <2>2
<1>4. \A y \in S : Min(S) <= y
  BY <1>3, Zenon DEF Min
<1>. QED
  BY <1>4

\* Every nonempty set of numbers up to n contains its maximum, the greatest.
LEMMA MaxIsGreatest ==
    ASSUME NEW n \in Nat, NEW S \in SUBSET (1..n), S # {}
    PROVE  Max(S) \in S /\ \A y \in S : Max(S) >= y
<1>. DEFINE Bounds == {u \in Nat : \A y \in S : y <= u}
            m == Min(Bounds)
<1>1. n \in Bounds /\ Bounds \in SUBSET Nat
  OBVIOUS
<1>2. m \in Bounds /\ \A u \in Bounds : m <= u
  <2>. HIDE DEF Bounds
  <2>. QED
    BY <1>1, MinIsMember, MinIsLeast
<1>. HIDE DEF m
<1>3. m \in S
  <2>1. SUFFICES ASSUME m \notin S PROVE FALSE
    OBVIOUS
  <2>2. PICK y \in S : TRUE
    OBVIOUS
  <2>3. \A z \in S : z \in Nat /\ z >= 1 /\ z <= m
    BY <1>2
  <2>4. m \in Nat /\ m >= 1 /\ \A z \in S : z <= m - 1
    BY <1>2, <2>1, <2>2, <2>3
  <2>5. m - 1 \in Bounds
    BY <2>4
  <2>. QED
    BY <1>2, <2>4, <2>5
<1>4. \A y \in S : m >= y
  BY <1>2
<1>. HIDE DEF Bounds
<1>5. \E x \in S : \A y \in S : x >= y
  BY <1>3, <1>4
<1>. QED
  BY <1>5, Zenon DEF Max

\* Induction up to n, over a set of numbers.
LEMMA UpToInduction ==
    ASSUME NEW n \in Nat, NEW T, 0 \in T,
           \A m \in 0..(n-1) : m \in T => m + 1 \in T
    PROVE  \A m \in 0..n : m \in T
<1>. DEFINE Missing == {m \in 0..n : m \notin T}
            m == Min(Missing)
<1>1. SUFFICES ASSUME Missing # {} PROVE FALSE
  OBVIOUS
<1>2. Missing \in SUBSET Nat
  OBVIOUS
<1>3. m \in Missing /\ \A k \in Missing : m <= k
  <2>. HIDE DEF Missing
  <2>. QED
    BY <1>1, <1>2, MinIsMember, MinIsLeast
<1>. HIDE DEF m
<1>4. m \in 0..n /\ m # 0
  BY <1>3
<1>5. m - 1 \in 0..(n-1) /\ m - 1 \notin Missing
  BY <1>3, <1>4
<1>6. (m - 1) + 1 \in T
  BY <1>5
<1>. QED
  BY <1>3, <1>4, <1>6

\* The recursion of a fold over the first n places, one place after the
\* other: G[k] is what the k-th place does.
Folds(f, n, base, G) ==
    f = [s \in SUBSET (1..n) |->
            IF s = {} THEN base ELSE G[Max(s)][f[s \ {Max(s)}]]]

LEMMA FoldExists ==
    ASSUME NEW n \in Nat, NEW V, NEW base \in V, NEW G \in [1..n -> [V -> V]]
    PROVE  \E f \in [SUBSET (1..n) -> V] : Folds(f, n, base, G)
<1>. DEFINE T == {m \in 0..n : \E f \in [SUBSET (1..m) -> V] : Folds(f, m, base, G)}
<1>1. 0 \in T
  <2>. DEFINE f == [s \in SUBSET (1..0) |-> base]
  <2>1. \A s \in SUBSET (1..0) : s = {}
    OBVIOUS
  <2>2. f \in [SUBSET (1..0) -> V] /\ Folds(f, 0, base, G)
    BY <2>1 DEF Folds
  <2>. QED
    BY <2>2
<1>2. ASSUME NEW m \in 0..(n-1), m \in T PROVE m + 1 \in T
  <2>1. PICK f \in [SUBSET (1..m) -> V] : Folds(f, m, base, G)
    BY <1>2
  <2>. DEFINE g == [s \in SUBSET (1..(m+1)) |->
                      IF s = {} THEN base ELSE G[Max(s)][f[s \ {Max(s)}]]]
  <2>2. ASSUME NEW s \in SUBSET (1..(m+1)), s # {}
        PROVE  Max(s) \in 1..n /\ s \ {Max(s)} \in SUBSET (1..m)
    <3>1. m + 1 \in Nat
      OBVIOUS
    <3>2. Max(s) \in s /\ \A y \in s : Max(s) >= y
      BY <2>2, <3>1, MaxIsGreatest
    <3>3. \A y \in s : y \in Nat /\ y >= 1 /\ y <= m + 1
      OBVIOUS
    <3>. DEFINE x == Max(s)
    <3>4. x \in 1..(m+1) /\ \A y \in s : x >= y
      BY <3>2
    <3>. HIDE DEF x
    <3>5. ASSUME NEW y \in s, y # x PROVE y \in 1..m
      BY <3>3, <3>4, <3>5
    <3>6. x \in 1..n
      BY <3>4
    <3>. QED
      BY <3>5, <3>6 DEF x
  <2>3. g \in [SUBSET (1..(m+1)) -> V]
    <3>1. ASSUME NEW s \in SUBSET (1..(m+1)), s # {}
          PROVE  G[Max(s)][f[s \ {Max(s)}]] \in V
      BY <2>2, <3>1
    <3>. QED
      BY <3>1
  <2>4. ASSUME NEW s \in SUBSET (1..m) PROVE g[s] = f[s]
    <3>1. s \in SUBSET (1..(m+1))
      OBVIOUS
    <3>2. f[s] = IF s = {} THEN base ELSE G[Max(s)][f[s \ {Max(s)}]]
      BY <2>1 DEF Folds
    <3>. QED
      BY <3>1, <3>2
  <2>5. Folds(g, m + 1, base, G)
    <3>1. ASSUME NEW s \in SUBSET (1..(m+1)), s # {}
          PROVE  f[s \ {Max(s)}] = g[s \ {Max(s)}]
      BY <2>2, <2>4, <3>1
    <3>2. \A s \in SUBSET (1..(m+1)) : g[s] = IF s = {} THEN base ELSE G[Max(s)][f[s \ {Max(s)}]]
      OBVIOUS
    <3>. HIDE DEF g
    <3>3. \A s \in SUBSET (1..(m+1)) : g[s] = IF s = {} THEN base ELSE G[Max(s)][g[s \ {Max(s)}]]
      BY <3>1, <3>2
    <3>4. g = [s \in SUBSET (1..(m+1)) |-> g[s]]
      BY <2>3
    <3>. QED
      BY <3>3, <3>4 DEF Folds
  <2>. HIDE DEF g
  <2>. QED
    BY <2>3, <2>5
<1>3. \A m \in 0..n : m \in T
  <2>. HIDE DEF T
  <2>. QED
    BY <1>1, <1>2, UpToInduction
<1>4. n \in T
  <2>. HIDE DEF T
  <2>. QED
    BY <1>3
<1>. QED
  BY <1>4

\* The first k places are places of a list of n.
LEMMA PrefixOfInterval ==
    ASSUME NEW n \in Nat, NEW k \in Nat \ {0}, k <= n
    PROVE  1..k \in SUBSET (1..n) /\ 1..k # {}
<1>1. 1 \in 1..k /\ \A i \in 1..k : i \in 1..n
  OBVIOUS
<1>. QED
  BY <1>1

\* The last entry of an interval.
LEMMA MaxOfInterval ==
    ASSUME NEW k \in Nat \ {0}
    PROVE  Max(1..k) = k
<1>1. 1..k \in SUBSET (1..k) /\ 1..k # {}
  OBVIOUS
<1>2. Max(1..k) \in 1..k /\ \A y \in 1..k : Max(1..k) >= y
  BY <1>1, MaxIsGreatest
<1>. QED
  BY <1>2

-----------------------------------------------------------------------------
\* Lists of conditions.

\* The entry SetCondition and RemoveCondition stop at is one of the list,
\* and has the type they look for.
LEMMA FirstPlace ==
    ASSUME NEW C, NEW cs \in Seq(C), NEW ty, Places(cs, ty) # {}
    PROVE  LET k == Min(Places(cs, ty))
           IN  k \in 1..Len(cs) /\ cs[k].type = ty
<1>1. Places(cs, ty) \in SUBSET Nat
  BY DEF Places
<1>2. Min(Places(cs, ty)) \in Places(cs, ty)
  BY <1>1, MinIsMember
<1>. QED
  BY <1>2 DEF Places

\* A condition set on a list of conditions gives a list of conditions.
LEMMA SetConditionType ==
    ASSUME NEW cs \in Seq(Condition), NEW ty \in ConditionTypes,
           NEW status \in ConditionStatuses, NEW reason \in ConditionReasons,
           NEW t \in Nat
    PROVE  SetCondition(cs, ty, status, reason, t) \in Seq(Condition)
<1>. DEFINE k == Min(Places(cs, ty))
            new(u) == [type |-> ty, status |-> status, reason |-> reason, time |-> u]
<1>1. \A u \in Nat : new(u) \in Condition
  BY DEF Condition
<1>2. CASE Places(cs, ty) = {}
  <2>1. SetCondition(cs, ty, status, reason, t) = Append(cs, new(t))
    BY <1>2 DEF SetCondition
  <2>. QED
    BY <2>1, <1>1
<1>3. CASE Places(cs, ty) # {}
  <2>1. k \in 1..Len(cs)
    BY <1>3, FirstPlace
  <2>2. cs[k].time \in Nat
    <3>. HIDE DEF k
    <3>1. cs[k] \in Condition
      BY <2>1
    <3>. QED
      BY <3>1 DEF Condition
  <2>3. PICK u \in Nat : SetCondition(cs, ty, status, reason, t) = [cs EXCEPT ![k] = new(u)]
    BY <1>3, <2>2 DEF SetCondition, ReplaceAt
  <2>4. new(u) \in Condition
    BY <1>1
  <2>. HIDE DEF new, k
  <2>. QED
    BY <2>1, <2>3, <2>4
<1>. QED
  BY <1>2, <1>3

\* Removing a condition leaves a list of conditions.
LEMMA RemoveConditionType ==
    ASSUME NEW cs \in Seq(Condition), NEW ty
    PROVE  RemoveCondition(cs, ty) \in Seq(Condition)
<1>. DEFINE k == Min(Places(cs, ty))
<1>1. CASE Places(cs, ty) = {}
  BY <1>1 DEF RemoveCondition
<1>2. CASE Places(cs, ty) # {}
  <2>1. k \in 1..Len(cs)
    BY <1>2, FirstPlace
  <2>2. RemoveCondition(cs, ty) = SubSeq(cs, 1, k - 1) \o SubSeq(cs, k + 1, Len(cs))
    BY <1>2 DEF RemoveCondition, RemoveAt
  <2>. HIDE DEF k
  <2>3. /\ SubSeq(cs, 1, k - 1) \in Seq(Condition)
        /\ SubSeq(cs, k + 1, Len(cs)) \in Seq(Condition)
    BY <2>1
  <2>. QED
    BY <2>2, <2>3
<1>. QED
  BY <1>1, <1>2

\* SetCondition keeps the types of a list distinct.
LEMMA SetConditionUnique ==
    ASSUME NEW cs \in Seq(Condition), NEW ty, NEW status, NEW reason, NEW t,
           UniqueTypes(cs)
    PROVE  UniqueTypes(SetCondition(cs, ty, status, reason, t))
<1>. DEFINE k == Min(Places(cs, ty))
            new(u) == [type |-> ty, status |-> status, reason |-> reason, time |-> u]
            res == SetCondition(cs, ty, status, reason, t)
<1>1. CASE Places(cs, ty) = {}
  <2>1. res = Append(cs, new(t))
    BY <1>1 DEF SetCondition
  <2>2. \A j \in 1..Len(cs) : cs[j].type # ty
    BY <1>1 DEF Places
  <2>3. new(t).type = ty
    OBVIOUS
  <2>. HIDE DEF new, res
  <2>4. /\ DOMAIN res = 1..(Len(cs) + 1)
        /\ \A j \in 1..Len(cs) : res[j] = cs[j]
        /\ res[Len(cs) + 1].type = ty
    BY <2>1, <2>3
  <2>. QED
    BY <2>2, <2>4 DEF UniqueTypes, res
<1>2. CASE Places(cs, ty) # {}
  <2>1. k \in 1..Len(cs) /\ cs[k].type = ty
    BY <1>2, FirstPlace
  <2>2. PICK u : res = [cs EXCEPT ![k] = new(u)]
    BY <1>2 DEF SetCondition, ReplaceAt
  <2>3. new(u).type = ty
    OBVIOUS
  <2>. HIDE DEF new, res, k
  <2>4. DOMAIN res = DOMAIN cs /\ \A j \in DOMAIN cs : res[j].type = cs[j].type
    BY <2>1, <2>2, <2>3
  <2>. QED
    BY <2>4 DEF UniqueTypes, res
<1>. QED
  BY <1>1, <1>2

\* What SubSeq makes of the entries after the k-th.
LEMMA TailOfSeq ==
    ASSUME NEW cs \in Seq(Condition), NEW k \in 1..Len(cs),
           NEW q, q = SubSeq(cs, k + 1, Len(cs))
    PROVE  /\ q \in Seq(Condition) /\ Len(q) = Len(cs) - k
           /\ \A j \in 1..(Len(cs) - k) : q[j] = cs[j + k]
<1>1. \A i \in (k + 1)..Len(cs) : cs[i] \in Condition
  OBVIOUS
<1>2. q \in Seq(Condition)
  BY <1>1
<1>3. Len(q) = Len(cs) - k
  BY Len(cs) \in Nat
<1>4. ASSUME NEW j \in 1..(Len(cs) - k)
      PROVE  q[j] = cs[j + k]
  OBVIOUS
<1>. QED
  BY <1>2, <1>3, <1>4

\* res is cs without the place k.
OnePlaceLess(cs, res, k) ==
    /\ k \in 1..Len(cs) /\ DOMAIN res = 1..(Len(cs) - 1)
    /\ \A j \in DOMAIN res : res[j] = IF j < k THEN cs[j] ELSE cs[j + 1]

\* That is what RemoveCondition does to the places, if there is one to remove.
LEMMA RemoveConditionShape ==
    ASSUME NEW cs \in Seq(Condition), NEW ty,
           NEW res, res = RemoveCondition(cs, ty)
    PROVE  res = cs \/ \E k : OnePlaceLess(cs, res, k) /\ cs[k].type = ty
<1>. DEFINE k == Min(Places(cs, ty))
<1>1. CASE Places(cs, ty) = {}
  BY <1>1 DEF RemoveCondition
<1>2. CASE Places(cs, ty) # {}
  <2>1. k \in 1..Len(cs) /\ cs[k].type = ty
    BY <1>2, FirstPlace
  <2>2. PICK p, q : /\ p = SubSeq(cs, 1, k - 1)
                    /\ q = SubSeq(cs, k + 1, Len(cs))
                    /\ res = p \o q
    BY <1>2 DEF RemoveCondition, RemoveAt
  <2>. HIDE DEF k
  <2>3. /\ p \in Seq(Condition) /\ Len(p) = k - 1
        /\ \A j \in 1..(k - 1) : p[j] = cs[j]
    BY <2>1, <2>2
  <2>4. /\ q \in Seq(Condition) /\ Len(q) = Len(cs) - k
        /\ \A j \in 1..(Len(cs) - k) : q[j] = cs[j + k]
    BY <2>1, <2>2, TailOfSeq
  <2>5. res \in Seq(Condition) /\ Len(res) = Len(cs) - 1
    <3>1. res \in Seq(Condition) /\ Len(res) = Len(p) + Len(q)
      BY <2>2, <2>3, <2>4, ConcatProperties
    <3>. QED
      BY <2>1, <2>3, <2>4, <3>1
  <2>6. ASSUME NEW j \in 1..Len(res)
        PROVE  res[j] = IF j < k THEN cs[j] ELSE cs[j + 1]
    <3>. j \in 1..(Len(p) + Len(q))
      BY <2>1, <2>3, <2>4, <2>5
    <3>0. res[j] = IF j <= Len(p) THEN p[j] ELSE q[j - Len(p)]
      <4>1. p \in Seq(Condition) /\ q \in Seq(Condition)
        BY <2>3, <2>4
      <4>2. (p \o q)[j] = IF j <= Len(p) THEN p[j] ELSE q[j - Len(p)]
        BY <4>1, ConcatProperties
      <4>. QED
        BY <2>2, <4>2
    <3>1. CASE j < k
      <4>1. j \in 1..(k - 1) /\ Len(p) = k - 1
        BY <2>1, <2>3, <3>1
      <4>2. res[j] = p[j] /\ p[j] = cs[j]
        BY <2>3, <3>0, <4>1
      <4>. QED
        BY <3>1, <4>2
    <3>2. CASE ~(j < k)
      <4>1. res[j] = q[j - (k - 1)]
        BY <2>1, <2>3, <2>5, <3>0, <3>2
      <4>2. j - (k - 1) \in 1..(Len(cs) - k)
        BY <2>1, <2>5, <3>2
      <4>3. q[j - (k - 1)] = cs[(j - (k - 1)) + k]
        BY <2>4, <4>2
      <4>4. (j - (k - 1)) + k = j + 1
        BY <2>1
      <4>. QED
        BY <3>2, <4>1, <4>3, <4>4
    <3>. QED
      BY <3>1, <3>2
  <2>7. DOMAIN res = 1..(Len(cs) - 1)
    BY <2>5
  <2>. QED
    BY <2>1, <2>6, <2>7 DEF OnePlaceLess
<1>. QED
  BY <1>1, <1>2

\* Every entry of the shorter list is an entry of the longer one, in its order.
LEMMA OnePlaceLessEntries ==
    ASSUME NEW cs \in Seq(Condition), NEW res, NEW k, OnePlaceLess(cs, res, k),
           NEW j \in DOMAIN res
    PROVE  LET at == IF j < k THEN j ELSE j + 1
           IN  at \in DOMAIN cs /\ at # k /\ res[j] = cs[at]
<1>1. /\ k \in 1..Len(cs) /\ Len(cs) \in Nat /\ j \in 1..(Len(cs) - 1)
      /\ DOMAIN cs = 1..Len(cs)
      /\ res[j] = IF j < k THEN cs[j] ELSE cs[j + 1]
  BY DEF OnePlaceLess
<1>2. j \in 1..Len(cs) /\ j + 1 \in 1..Len(cs)
  BY <1>1
<1>3. CASE j < k
  BY <1>1, <1>2, <1>3
<1>4. CASE ~(j < k)
  BY <1>1, <1>2, <1>4
<1>. QED
  BY <1>3, <1>4

\* RemoveCondition keeps the types of a list distinct.
LEMMA RemoveConditionUnique ==
    ASSUME NEW cs \in Seq(Condition), NEW ty, UniqueTypes(cs)
    PROVE  UniqueTypes(RemoveCondition(cs, ty))
<1>1. PICK res : res = RemoveCondition(cs, ty)
  OBVIOUS
<1>2. CASE res = cs
  BY <1>1, <1>2
<1>3. CASE res # cs
  <2>1. PICK k : OnePlaceLess(cs, res, k)
    BY <1>1, <1>3, RemoveConditionShape
  <2>2. ASSUME NEW j \in DOMAIN res, NEW l \in DOMAIN res, res[j].type = res[l].type
        PROVE  j = l
    <3>. DEFINE at(i) == IF i < k THEN i ELSE i + 1
    <3>1. \A i \in DOMAIN res : at(i) \in DOMAIN cs /\ res[i] = cs[at(i)]
      BY <2>1, OnePlaceLessEntries
    <3>2. at(j) = at(l)
      BY <2>2, <3>1 DEF UniqueTypes
    <3>3. j \in Nat /\ l \in Nat /\ k \in Nat
      BY <2>1 DEF OnePlaceLess
    <3>. QED
      BY <3>2, <3>3
  <2>. QED
    BY <1>1, <2>2 DEF UniqueTypes
<1>. QED
  BY <1>2, <1>3

-----------------------------------------------------------------------------
\* What becomes of the entries.

\* Every entry of the list after SetCondition was there before or is the one
\* that was set; entries of other types are there still.
LEMMA SetConditionEntries ==
    ASSUME NEW cs \in Seq(Condition), NEW ty, NEW status, NEW reason, NEW t,
           NEW res, res = SetCondition(cs, ty, status, reason, t)
    PROVE  /\ \A j \in DOMAIN res :
                 \/ \E k \in DOMAIN cs : res[j] = cs[k]
                 \/ /\ res[j].type = ty /\ res[j].status = status
                    /\ res[j].reason = reason
           /\ \E j \in DOMAIN res : res[j].reason = reason
           /\ \A k \in DOMAIN cs :
                 cs[k].type # ty => \E j \in DOMAIN res : res[j] = cs[k]
<1>. DEFINE k == Min(Places(cs, ty))
            new(u) == [type |-> ty, status |-> status, reason |-> reason, time |-> u]
<1>1. CASE Places(cs, ty) = {}
  <2>1. res = Append(cs, new(t))
    BY <1>1 DEF SetCondition
  <2>2. new(t).type = ty /\ new(t).status = status /\ new(t).reason = reason
    OBVIOUS
  <2>. HIDE DEF new
  <2>3. /\ DOMAIN res = 1..(Len(cs) + 1) /\ DOMAIN cs = 1..Len(cs)
        /\ \A j \in 1..Len(cs) : res[j] = cs[j]
        /\ res[Len(cs) + 1] = new(t) /\ Len(cs) \in Nat
    BY <2>1
  <2>4. Len(cs) + 1 \in DOMAIN res /\ \A j \in DOMAIN cs : j \in DOMAIN res
    BY <2>3
  <2>5. \A j \in DOMAIN res : j \in DOMAIN cs \/ j = Len(cs) + 1
    BY <2>3
  <2>. QED
    BY <2>2, <2>3, <2>4, <2>5
<1>2. CASE Places(cs, ty) # {}
  <2>1. k \in 1..Len(cs) /\ cs[k].type = ty
    BY <1>2, FirstPlace
  <2>2. PICK u : res = [cs EXCEPT ![k] = new(u)]
    BY <1>2 DEF SetCondition, ReplaceAt
  <2>3. new(u).type = ty /\ new(u).status = status /\ new(u).reason = reason
    OBVIOUS
  <2>. HIDE DEF new, k
  <2>4. /\ DOMAIN res = DOMAIN cs /\ k \in DOMAIN cs /\ res[k] = new(u)
        /\ \A j \in DOMAIN cs \ {k} : res[j] = cs[j]
    BY <2>1, <2>2
  <2>. QED
    BY <2>1, <2>3, <2>4
<1>. QED
  BY <1>1, <1>2

\* res is cs with one place set, k: to the time t or, where the status stays,
\* to the time u it had; no other place changes.
OnePlaceSet(cs, res, ty, status, reason, t, k, u) ==
    /\ DOMAIN res = DOMAIN cs \cup {k}
    /\ res[k] = [type |-> ty, status |-> status, reason |-> reason, time |-> u]
    /\ k \in DOMAIN cs => cs[k].type = ty
    /\ u = t \/ (k \in DOMAIN cs /\ cs[k].status = status /\ u = cs[k].time)
    /\ \A j \in DOMAIN cs : j # k => res[j] = cs[j]

\* That is what SetCondition does to the places.
LEMMA SetConditionShape ==
    ASSUME NEW cs \in Seq(Condition), NEW ty, NEW status, NEW reason, NEW t,
           NEW res, res = SetCondition(cs, ty, status, reason, t)
    PROVE  \E k, u : OnePlaceSet(cs, res, ty, status, reason, t, k, u)
<1>. USE DEF OnePlaceSet
<1>. DEFINE k == Min(Places(cs, ty))
            new(u) == [type |-> ty, status |-> status, reason |-> reason, time |-> u]
<1>1. CASE Places(cs, ty) = {}
  <2>1. res = Append(cs, new(t))
    BY <1>1 DEF SetCondition
  <2>. HIDE DEF new
  <2>2. /\ DOMAIN res = 1..(Len(cs) + 1) /\ DOMAIN cs = 1..Len(cs)
        /\ \A j \in 1..Len(cs) : res[j] = cs[j]
        /\ res[Len(cs) + 1] = new(t) /\ Len(cs) \in Nat
    BY <2>1
  <2>3. DOMAIN res = DOMAIN cs \cup {Len(cs) + 1} /\ Len(cs) + 1 \notin DOMAIN cs
    BY <2>2
  <2>. QED
    BY <2>2, <2>3 DEF new
<1>2. CASE Places(cs, ty) # {}
  <2>1. k \in 1..Len(cs) /\ cs[k].type = ty
    BY <1>2, FirstPlace
  <2>2. PICK u : /\ res = [cs EXCEPT ![k] = new(u)]
                 /\ u = IF cs[k].status = status THEN cs[k].time ELSE t
    BY <1>2 DEF SetCondition, ReplaceAt
  <2>. HIDE DEF new, k
  <2>3. /\ DOMAIN res = DOMAIN cs /\ k \in DOMAIN cs /\ res[k] = new(u)
        /\ \A j \in DOMAIN cs \ {k} : res[j] = cs[j]
    BY <2>1, <2>2
  <2>4. DOMAIN res = DOMAIN cs \cup {k}
    BY <2>3
  <2>5. u = t \/ (cs[k].status = status /\ u = cs[k].time)
    BY <2>2
  <2>. QED
    BY <2>1, <2>3, <2>4, <2>5 DEF new
<1>. QED
  BY <1>1, <1>2

\* The reason that was set is a reason of the list, and with it no reason
\* but those it had.
LEMMA SetConditionReasons ==
    ASSUME NEW cs \in Seq(Condition), NEW ty, NEW status, NEW reason, NEW t,
           NEW res, res = SetCondition(cs, ty, status, reason, t), NEW r
    PROVE  /\ HasReason(res, reason)
           /\ HasReason(res, r) => r = reason \/ HasReason(cs, r)
<1>1. /\ \A j \in DOMAIN res :
              \/ \E k \in DOMAIN cs : res[j] = cs[k]
              \/ /\ res[j].type = ty /\ res[j].status = status
                 /\ res[j].reason = reason
      /\ \E j \in DOMAIN res : res[j].reason = reason
  BY SetConditionEntries
<1>. QED
  BY <1>1 DEF HasReason

\* Every entry of the list after RemoveCondition was there before.
LEMMA RemoveConditionEntries ==
    ASSUME NEW cs \in Seq(Condition), NEW ty,
           NEW res, res = RemoveCondition(cs, ty)
    PROVE  \A j \in DOMAIN res : \E k \in DOMAIN cs : res[j] = cs[k]
<1>1. CASE res = cs
  BY <1>1
<1>2. CASE res # cs
  <2>1. PICK k : OnePlaceLess(cs, res, k)
    BY <1>2, RemoveConditionShape
  <2>. QED
    BY <2>1, OnePlaceLessEntries
<1>. QED
  BY <1>1, <1>2

\* Every entry but the one removed is still in the list.
LEMMA OnePlaceLessKeeps ==
    ASSUME NEW cs \in Seq(Condition), NEW res, NEW k, OnePlaceLess(cs, res, k),
           NEW i \in DOMAIN cs, i # k
    PROVE  \E j \in DOMAIN res : res[j] = cs[i]
<1>1. /\ k \in 1..Len(cs) /\ Len(cs) \in Nat /\ i \in 1..Len(cs)
      /\ DOMAIN res = 1..(Len(cs) - 1)
      /\ \A j \in 1..(Len(cs) - 1) : res[j] = IF j < k THEN cs[j] ELSE cs[j + 1]
  BY DEF OnePlaceLess
<1>2. CASE i < k
  <2>1. i \in 1..(Len(cs) - 1)
    BY <1>1, <1>2
  <2>2. res[i] = cs[i]
    BY <1>1, <1>2, <2>1
  <2>. QED
    BY <1>1, <2>1, <2>2
<1>3. CASE ~(i < k)
  <2>1. i - 1 \in 1..(Len(cs) - 1) /\ ~(i - 1 < k) /\ (i - 1) + 1 = i
    BY <1>1, <1>3
  <2>2. res[i - 1] = cs[(i - 1) + 1]
    BY <1>1, <2>1
  <2>. QED
    BY <1>1, <2>1, <2>2
<1>. QED
  BY <1>2, <1>3

\* RemoveCondition keeps the entries of the other types.
LEMMA RemoveConditionKeeps ==
    ASSUME NEW cs \in Seq(Condition), NEW ty,
           NEW res, res = RemoveCondition(cs, ty)
    PROVE  \A i \in DOMAIN cs :
               cs[i].type # ty => \E j \in DOMAIN res : res[j] = cs[i]
<1>1. CASE res = cs
  BY <1>1
<1>2. CASE res # cs
  <2>1. PICK k : OnePlaceLess(cs, res, k) /\ cs[k].type = ty
    BY <1>2, RemoveConditionShape
  <2>. QED
    BY <2>1, OnePlaceLessKeeps
<1>. QED
  BY <1>1, <1>2

\* RemoveCondition adds no reason.
LEMMA RemoveConditionReasons ==
    ASSUME NEW cs \in Seq(Condition), NEW ty, NEW r,
           HasReason(RemoveCondition(cs, ty), r)
    PROVE  HasReason(cs, r)
<1>. DEFINE res == RemoveCondition(cs, ty)
<1>1. \A j \in DOMAIN res : \E k \in DOMAIN cs : res[j] = cs[k]
  BY RemoveConditionEntries
<1>. HIDE DEF res
<1>. QED
  BY <1>1 DEF HasReason, res

\* Of some entries there is a newest, the first of those with the newest time.
LEMMA NewestExists ==
    ASSUME NEW cs \in Seq(Condition), NEW M \in SUBSET DOMAIN cs, M # {}
    PROVE  \E k \in M : \A j \in M : \/ cs[j].time < cs[k].time
                                     \/ cs[j].time = cs[k].time /\ k <= j
<1>. DEFINE Before(j, k) == \/ cs[j].time < cs[k].time
                            \/ cs[j].time = cs[k].time /\ k <= j
            Upto(n) == {j \in M : j <= n}
            Bad == {n \in 0..Len(cs) : /\ Upto(n) # {}
                                       /\ ~\E k \in Upto(n) : \A j \in Upto(n) : Before(j, k)}
<1>1. \A j \in M : cs[j] \in Condition /\ cs[j].time \in Nat /\ j \in 1..Len(cs)
  <2>1. \A j \in DOMAIN cs : cs[j] \in Condition /\ j \in 1..Len(cs)
    OBVIOUS
  <2>. QED
    BY <2>1 DEF Condition
<1>2. Bad = {}
  <2>1. SUFFICES ASSUME Bad # {} PROVE FALSE
    OBVIOUS
  <2>. DEFINE n == Min(Bad)
  <2>2. n \in Bad /\ \A i \in Bad : n <= i
    <3>1. Bad \in SUBSET Nat
      OBVIOUS
    <3>. HIDE DEF Bad
    <3>2. Min(Bad) \in Bad
      BY <2>1, <3>1, MinIsMember
    <3>3. \A y \in Bad : Min(Bad) <= y
      BY <2>1, <3>1, MinIsLeast
    <3>. QED
      BY <3>2, <3>3
  <2>. HIDE DEF n
  <2>3. n \in 0..Len(cs) /\ Upto(n) # {} /\ ~\E k \in Upto(n) : \A j \in Upto(n) : Before(j, k)
    BY <2>2
  <2>4. n # 0 /\ n - 1 \in 0..Len(cs) /\ n - 1 \notin Bad
    <3>1. n # 0
      BY <2>3, <1>1
    <3>2. n - 1 \in 0..Len(cs)
      BY <2>3, <3>1
    <3>3. ~(n <= n - 1)
      BY <2>3
    <3>. HIDE DEF Bad
    <3>. QED
      BY <3>1, <3>2, <3>3, <2>2
  <2>5. \A j : j \in Upto(n) <=> j \in Upto(n - 1) \/ (j = n /\ n \in M)
    BY <1>1, <2>3, <2>4
  <2>6. CASE Upto(n - 1) = {}
    <3>1. Upto(n) = {n}
      BY <2>3, <2>5, <2>6
    <3>2. Before(n, n)
      BY <2>3
    <3>. QED
      BY <2>3, <3>1, <3>2
  <2>7. CASE Upto(n - 1) # {}
    <3>1. PICK k \in Upto(n - 1) : \A j \in Upto(n - 1) : Before(j, k)
      BY <2>4, <2>7
    <3>2. CASE n \notin M
      BY <2>3, <2>5, <3>1, <3>2
    <3>3. CASE n \in M /\ ~(cs[k].time < cs[n].time)
      <4>1. k \in M /\ k <= n - 1 /\ k \in Nat /\ n \in Nat
        BY <1>1, <2>3, <3>1
      <4>2. cs[k].time \in Nat /\ cs[n].time \in Nat
        BY <1>1, <3>3, <4>1
      <4>3. Before(n, k)
        BY <3>3, <4>1, <4>2
      <4>. HIDE DEF Before, Upto
      <4>4. k \in Upto(n)
        BY <2>5, <3>1
      <4>5. \A j \in Upto(n) : Before(j, k)
        BY <2>5, <3>1, <4>3
      <4>. QED
        BY <2>3, <4>4, <4>5
    <3>4. CASE n \in M /\ cs[k].time < cs[n].time
      <4>1. \A j \in Upto(n - 1) : Before(j, n)
        BY <1>1, <3>1, <3>4
      <4>2. Before(n, n) /\ n \in Upto(n)
        BY <2>3, <3>4
      <4>. HIDE DEF Before, Upto
      <4>3. \A j \in Upto(n) : Before(j, n)
        BY <2>5, <4>1, <4>2
      <4>. QED
        BY <2>3, <4>2, <4>3
    <3>. QED
      BY <3>2, <3>3, <3>4
  <2>. QED
    BY <2>6, <2>7
<1>3. Upto(Len(cs)) = M /\ Len(cs) \in 0..Len(cs)
  BY <1>1
<1>. QED
  BY <1>2, <1>3

\* The entries of a list of conditions are conditions.
LEMMA EntriesAreConditions ==
    ASSUME NEW cs \in Seq(Condition), NEW k \in DOMAIN cs
    PROVE  cs[k] \in Condition
OBVIOUS

\* LastCondition finds a reason if and only if an entry has it.
LEMMA ReasonIsFound ==
    ASSUME NEW cs \in Seq(Condition), NEW r \in ConditionReasons \ {""}
    PROVE  LastCondition(cs, ByReason(r)).reason = r <=> HasReason(cs, r)
<1>. DEFINE M == {k \in DOMAIN cs : Matches(cs[k], ByReason(r))}
            Newest(k) == \A j \in M : \/ cs[j].time < cs[k].time
                                      \/ cs[j].time = cs[k].time /\ k <= j
<1>1. \A k \in DOMAIN cs : k \in M <=> cs[k].reason = r
  <2>1. /\ DOMAIN ByReason(r) = {"type", "status", "reason"}
        /\ ByReason(r)["type"] = "" /\ ByReason(r)["status"] = ""
        /\ ByReason(r)["reason"] = r
    BY DEF ByReason, AnyCondition
  <2>2. ASSUME NEW k \in DOMAIN cs
        PROVE  k \in M <=> cs[k].reason = r
    <3>. HIDE DEF M
    <3>1. cs[k] \in Condition
      BY <2>2, EntriesAreConditions
    <3>2. cs[k] = [type |-> cs[k].type, status |-> cs[k].status,
                   reason |-> cs[k].reason, time |-> cs[k].time]
      BY <3>1 DEF Condition
    <3>3. Matches(cs[k], ByReason(r)) <=> cs[k].reason = r
      BY <2>1, <3>1, <3>2 DEF Matches
    <3>. QED
      BY <3>3 DEF M
  <2>. QED
    BY <2>2
<1>2. CASE M = {}
  <2>1. LastCondition(cs, ByReason(r)) = ZeroCondition
    BY <1>2 DEF LastCondition
  <2>2. ZeroCondition.reason # r
    BY DEF ZeroCondition, AnyCondition
  <2>3. ~\E k \in DOMAIN cs : cs[k].reason = r
    BY <1>1, <1>2
  <2>. QED
    BY <2>1, <2>2, <2>3 DEF HasReason
<1>3. CASE M # {}
  <2>1. (CHOOSE k \in M : Newest(k)) \in M
    <3>1. \E k \in M : Newest(k)
      <4>1. M \in SUBSET DOMAIN cs
        OBVIOUS
      <4>. HIDE DEF M
      <4>. QED
        BY <1>3, <4>1, NewestExists
    <3>. HIDE DEF M, Newest
    <3>. QED
      BY <3>1
  <2>2. LastCondition(cs, ByReason(r)) = cs[CHOOSE k \in M : Newest(k)]
    BY <1>3 DEF LastCondition
  <2>. HIDE DEF M, Newest
  <2>3. LastCondition(cs, ByReason(r)).reason = r /\ \E k \in DOMAIN cs : cs[k].reason = r
    BY <1>1, <2>1, <2>2 DEF M
  <2>. QED
    BY <2>3 DEF HasReason
<1>. QED
  BY <1>2, <1>3

-----------------------------------------------------------------------------
\* The loop of LastCondition: it finds the newest condition that matches.

\* The fold of LoopLast is a loop: last[k] is what it has after k entries.
IsLoop(last, cs, filter) ==
    /\ last[0] = ZeroCondition
    /\ \A k \in 1..Len(cs) :
          last[k] = IF /\ Matches(cs[k], filter)
                       /\ last[k-1].time = 0 \/ cs[k].time > last[k-1].time
                    THEN cs[k] ELSE last[k-1]

LEMMA LoopLastIsLoop ==
    ASSUME NEW cs \in Seq(Condition), NEW filter
    PROVE  \E last : IsLoop(last, cs, filter) /\ LoopLast(cs, filter) = last[Len(cs)]
<1>. DEFINE n == Len(cs)
            V == Condition \cup {ZeroCondition}
            Step(last, c) == IF /\ Matches(c, filter)
                                /\ last.time = 0 \/ c.time > last.time
                             THEN c ELSE last
            G == [k \in 1..n |-> [last \in V |-> Step(last, cs[k])]]
            Fold(f) == f = [s \in SUBSET (1..n) |->
                              IF s = {} THEN ZeroCondition
                              ELSE Step(f[s \ {Max(s)}], cs[Max(s)])]
            iter == CHOOSE f : Fold(f)
<1>1. n \in Nat /\ DOMAIN cs = 1..n /\ \A k \in 1..n : cs[k] \in Condition
  OBVIOUS
<1>2. LoopLast(cs, filter) = iter[1..n]
  BY <1>1 DEF LoopLast, FoldLeft, MapThenFoldSet
<1>3. G \in [1..n -> [V -> V]]
  BY <1>1
<1>4. PICK f \in [SUBSET (1..n) -> V] : Folds(f, n, ZeroCondition, G)
  <2>. HIDE DEF G, n
  <2>. QED
    BY <1>1, <1>3, FoldExists
<1>5. Fold(f)
  <2>1. ASSUME NEW s \in SUBSET (1..n), s # {}
        PROVE  G[Max(s)][f[s \ {Max(s)}]] = Step(f[s \ {Max(s)}], cs[Max(s)])
    <3>1. Max(s) \in 1..n
      BY <1>1, <2>1, MaxIsGreatest
    <3>2. f[s \ {Max(s)}] \in V
      BY <1>4
    <3>. QED
      BY <3>1, <3>2
  <2>. HIDE DEF G, Step, V
  <2>. QED
    BY <1>4, <2>1 DEF Folds
<1>6. Fold(iter)
  <2>. HIDE DEF Fold
  <2>. QED
    BY <1>5, Zenon
<1>7. iter[{}] = ZeroCondition
  <2>. HIDE DEF iter, Step
  <2>. QED
    BY <1>6
<1>8. ASSUME NEW k \in 1..n PROVE iter[1..k] = Step(iter[1..(k-1)], cs[k])
  <2>1. Max(1..k) = k /\ (1..k) \ {k} = 1..(k-1) /\ 1..k \in SUBSET (1..n) /\ 1..k # {}
    <3>1. k \in Nat \ {0} /\ n \in Nat /\ k <= n
      BY <1>1
    <3>. HIDE DEF n
    <3>2. Max(1..k) = k
      BY <3>1, MaxOfInterval
    <3>3. \A i : i \in (1..k) \ {k} <=> i \in 1..(k-1)
      BY <3>1
    <3>4. 1..k \in SUBSET (1..n) /\ 1..k # {}
      BY <3>1, PrefixOfInterval
    <3>. QED
      BY <3>2, <3>3, <3>4
  <2>. HIDE DEF iter, Step
  <2>. QED
    BY <1>6, <2>1
<1>. DEFINE last == [k \in 0..n |-> iter[1..k]]
<1>9. last[0] = ZeroCondition /\ \A k \in 1..n : last[k] = Step(last[k-1], cs[k])
  <2>1. 1..0 = {}
    OBVIOUS
  <2>2. \A k \in 1..n : k \in 0..n /\ k - 1 \in 0..n
    BY <1>1
  <2>3. 0 \in 0..n
    BY <1>1
  <2>. HIDE DEF iter, n, Step
  <2>. QED
    BY <1>7, <1>8, <2>1, <2>2, <2>3
<1>10. LoopLast(cs, filter) = last[n]
  <2>. HIDE DEF iter
  <2>. QED
    BY <1>1, <1>2
<1>. HIDE DEF iter, last
<1>11. IsLoop(last, cs, filter)
  BY <1>9 DEF IsLoop
<1>. QED
  BY <1>10, <1>11

\* Of the entries in the set S of places, the one at k is the newest, the first
\* of those with its time.
NewestOf(cs, S, k) == \A j \in S : \/ cs[j].time < cs[k].time
                                   \/ cs[j].time = cs[k].time /\ k <= j

Matching(cs, filter, n) == {j \in 1..n : Matches(cs[j], filter)}

\* After k entries the loop has the newest of those that match.
Latest(x, cs, filter, k) ==
    IF Matching(cs, filter, k) = {} THEN x = ZeroCondition
    ELSE \E j \in Matching(cs, filter, k) : x = cs[j] /\ NewestOf(cs, Matching(cs, filter, k), j)

LEMMA LoopFindsLatest ==
    ASSUME NEW cs \in Seq(Condition), \A j \in DOMAIN cs : cs[j].time > 0,
           NEW filter, NEW last, IsLoop(last, cs, filter)
    PROVE  Latest(last[Len(cs)], cs, filter, Len(cs))
<1>. DEFINE n == Len(cs)
            T == {k \in 0..n : Latest(last[k], cs, filter, k)}
<1>1. n \in Nat /\ \A k \in 1..n : cs[k] \in Condition
  OBVIOUS
<1>2. 0 \in T
  BY <1>1 DEF IsLoop, Latest, Matching
<1>3. ASSUME NEW m \in 0..(n-1), m \in T PROVE m + 1 \in T
  <2>. DEFINE c == cs[m+1]
              x == last[m]
  <2>1. m \in Nat /\ m + 1 \in 1..n
    BY <1>1
  <2>2. c.time \in Nat /\ c.time > 0
    BY <1>1, <2>1 DEF Condition
  <2>3. last[m+1] = IF Matches(c, filter) /\ (x.time = 0 \/ c.time > x.time) THEN c ELSE x
    BY <2>1 DEF IsLoop
  <2>4. Matching(cs, filter, m + 1) = Matching(cs, filter, m) \cup
                                  (IF Matches(c, filter) THEN {m + 1} ELSE {})
    BY <2>1 DEF Matching
  <2>5. \A j \in Matching(cs, filter, m) : /\ j \in 1..m /\ cs[j].time \in Nat
                                       /\ cs[j].time > 0
    BY <1>1, <2>1 DEF Matching, Condition
  <2>6. Latest(x, cs, filter, m)
    BY <1>3
  <2>. HIDE DEF c, x
  <2>7. CASE ~Matches(c, filter)
    <3>1. last[m+1] = x /\ Matching(cs, filter, m+1) = Matching(cs, filter, m)
      BY <2>3, <2>4, <2>7
    <3>2. Latest(last[m+1], cs, filter, m+1)
      BY <2>6, <3>1 DEF Latest
    <3>. QED
      BY <1>1, <2>1, <3>2
  <2>8. CASE Matches(c, filter) /\ Matching(cs, filter, m) = {}
    <3>1. x.time = 0
      <4>1. x = ZeroCondition
        BY <2>6, <2>8 DEF Latest
      <4>. QED
        BY <4>1 DEF ZeroCondition
    <3>2. last[m+1] = cs[m+1] /\ Matching(cs, filter, m+1) = {m+1}
      BY <2>3, <2>4, <2>8, <3>1 DEF c
    <3>3. NewestOf(cs, {m+1}, m+1)
      BY <2>1 DEF NewestOf
    <3>4. Latest(last[m+1], cs, filter, m+1)
      BY <3>2, <3>3 DEF Latest
    <3>. QED
      BY <1>1, <2>1, <3>4
  <2>9. CASE Matches(c, filter) /\ Matching(cs, filter, m) # {}
    <3>1. PICK j \in Matching(cs, filter, m) : /\ x = cs[j]
                                           /\ NewestOf(cs, Matching(cs, filter, m), j)
      BY <2>6, <2>9 DEF Latest
    <3>2. Matching(cs, filter, m+1) = Matching(cs, filter, m) \cup {m+1}
      BY <2>4, <2>9
    <3>3. x.time \in Nat /\ x.time > 0 /\ j \in 1..m
      BY <2>5, <3>1
    <3>4. CASE c.time > x.time
      <4>1. last[m+1] = cs[m+1]
        BY <2>3, <2>9, <3>4 DEF c
      <4>2. NewestOf(cs, Matching(cs, filter, m+1), m+1)
        BY <2>1, <2>2, <2>5, <3>1, <3>2, <3>3, <3>4 DEF NewestOf, c
      <4>3. Latest(last[m+1], cs, filter, m+1)
        BY <3>2, <4>1, <4>2 DEF Latest
      <4>. QED
        BY <1>1, <2>1, <4>3
    <3>5. CASE ~(c.time > x.time)
      <4>1. last[m+1] = cs[j]
        BY <2>3, <3>1, <3>3, <3>5
      <4>2. NewestOf(cs, Matching(cs, filter, m+1), j)
        BY <2>1, <2>2, <2>5, <3>1, <3>2, <3>3, <3>5 DEF NewestOf, c
      <4>3. Latest(last[m+1], cs, filter, m+1)
        BY <3>1, <3>2, <4>1, <4>2 DEF Latest
      <4>. QED
        BY <1>1, <2>1, <4>3
    <3>. QED
      BY <3>4, <3>5
  <2>. QED
    BY <2>7, <2>8, <2>9
<1>4. n \in T
  <2>1. \A m \in 0..n : m \in T
    <3>. HIDE DEF T
    <3>. QED
      BY <1>1, <1>2, <1>3, UpToInduction
  <2>. HIDE DEF T
  <2>. QED
    BY <1>1, <2>1
<1>. QED
  BY <1>4

LEMMA LatestIsLast ==
    ASSUME NEW cs \in Seq(Condition), NEW filter, NEW x, Latest(x, cs, filter, Len(cs))
    PROVE  LastCondition(cs, filter) = x
<1>. DEFINE M == {k \in DOMAIN cs : Matches(cs[k], filter)}
            Newest(k) == \A j \in M : \/ cs[j].time < cs[k].time
                                      \/ cs[j].time = cs[k].time /\ k <= j
<1>1. M = Matching(cs, filter, Len(cs))
  BY DEF Matching
<1>2. \A j \in M : j \in Nat /\ cs[j].time \in Nat
  <2>1. \A j \in DOMAIN cs : j \in Nat /\ cs[j] \in Condition
    OBVIOUS
  <2>. QED
    BY <2>1 DEF Condition
<1>3. CASE M = {}
  BY <1>1, <1>3 DEF Latest, LastCondition
<1>4. CASE M # {}
  <2>1. PICK k \in M : x = cs[k] /\ Newest(k)
    BY <1>1, <1>4 DEF Latest, NewestOf
  <2>2. (CHOOSE j \in M : Newest(j)) \in M /\ Newest(CHOOSE j \in M : Newest(j))
    <3>. HIDE DEF M, Newest
    <3>. QED
      BY <2>1
  <2>3. ASSUME NEW j \in M, Newest(j) PROVE j = k
    BY <1>2, <2>1, <2>3
  <2>4. LastCondition(cs, filter) = cs[CHOOSE j \in M : Newest(j)]
    BY <1>4 DEF LastCondition
  <2>. HIDE DEF M, Newest
  <2>. QED
    BY <2>1, <2>2, <2>3, <2>4
<1>. QED
  BY <1>3, <1>4

\* Of a list that has an entry newer than all others, that one is the last
\* condition.
LEMMA NewestIsLast ==
    ASSUME NEW cs \in Seq(Condition), NEW k \in DOMAIN cs,
           \A j \in DOMAIN cs : j # k => cs[j].time < cs[k].time
    PROVE  LastCondition(cs, AnyCondition) = cs[k]
<1>. DEFINE M == {j \in DOMAIN cs : Matches(cs[j], AnyCondition)}
            Newest(i) == \A j \in M : \/ cs[j].time < cs[i].time
                                      \/ cs[j].time = cs[i].time /\ i <= j
<1>1. M = DOMAIN cs
  <2>1. \A f \in DOMAIN AnyCondition : AnyCondition[f] = ""
    <3>1. /\ DOMAIN AnyCondition = {"type", "status", "reason"}
          /\ AnyCondition["type"] = "" /\ AnyCondition["status"] = ""
          /\ AnyCondition["reason"] = ""
      BY DEF AnyCondition
    <3>. QED
      BY <3>1
  <2>. QED
    BY <2>1, Zenon DEF Matches
<1>2. \A j \in DOMAIN cs : j \in Nat /\ cs[j].time \in Nat
  <2>1. \A j \in DOMAIN cs : j \in Nat /\ cs[j] \in Condition
    OBVIOUS
  <2>. QED
    BY <2>1 DEF Condition
<1>3. k \in M /\ Newest(k)
  BY <1>1, <1>2
<1>4. ASSUME NEW i \in M, Newest(i) PROVE i = k
  BY <1>1, <1>2, <1>4
<1>5. (CHOOSE i \in M : Newest(i)) = k
  <2>. HIDE DEF M, Newest
  <2>. QED
    BY <1>3, <1>4
<1>6. LastCondition(cs, AnyCondition) = cs[CHOOSE i \in M : Newest(i)]
  BY <1>3 DEF LastCondition
<1>. HIDE DEF M, Newest
<1>. QED
  BY <1>5, <1>6
=============================================================================
