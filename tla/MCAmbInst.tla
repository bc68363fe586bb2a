------------------------------ MODULE MCAmbInst ------------------------------
EXTENDS AmbInstPromises

Always == 0..MaxTime
Never  == {}

GoodSpec(w, o, v) == [source |-> "ok", params |-> "ok", oss |-> o, window |-> w, values |-> v]

\* The Edge Stack with any of the values, open to updates at all times.
AESSpecs == {GoodSpec(Always, FALSE, v) : v \in Values}

\* The API Gateway and the Edge Stack.
BothFlavors == {GoodSpec(Always, o, v) : o \in BOOLEAN, v \in Values}

\* Update windows that are always, sometimes and never open.
AllWindows == {GoodSpec(t, FALSE, v) : t \in {Always, {4}, Never}, v \in Values}

Bad(field, how) == {[s EXCEPT ![field] = how] : s \in AESSpecs}

\* Both flavors, and specs that are refused.
AllSpecs == BothFlavors \cup Bad("source", "badVersion") \cup Bad("source", "badRepo")
            \cup Bad("params", "bad")

Kinds(a, r) == [kind \in Services |-> IF kind = "AuthService" THEN a ELSE r]

\* Nothing in the way of a migration, ever.
NoServices == {Kinds("none", "none")}

\* Resources of either kind come and go.
SomeServices == {Kinds("none", "none"), Kinds("some", "none"), Kinds("none", "some")}

\* The second kind comes and goes.
LostKind == {Kinds("none", "none"), Kinds("none", "gone")}

\* Specs under a blackout.
NeverSpecs == {GoodSpec(Never, FALSE, v) : v \in Values}
=============================================================================
