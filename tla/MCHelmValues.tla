----------------------------- MODULE MCHelmValues -----------------------------
EXTENDS HelmValues

\* A tree that gives the values of the functions plain and packed.
Written(plain, packed) ==
    [plain  |-> [l \in Leaves |-> IF l \in DOMAIN plain THEN plain[l] ELSE "none"],
     packed |-> [l \in Leaves |-> IF l \in DOMAIN packed THEN packed[l] ELSE "none"]]

None == [l \in {} |-> "none"]

By(who, S) == [l \in S |-> who]

\* Trees that share keys of the top with the defaults and with each other,
\* packed keys beside trees, and every value of enableAES ...
UserTrees ==
    {Written(By("user", S), By("user", P)) :
        S \in {{}, {"license", "replicas"}, {"tag", "createSecret"}},
        P \in SUBSET {"tag", "logLevel"}}
    \cup {Written([enableAES |-> v], By("user", P)) :
        v \in {"yes", "no", "text"}, P \in {{}, {"repository"}}}

\* ... with and without what the operator has to say itself; the log level has
\* nothing to do with the version, so the two go together.
MCUserSpecs ==
    LET Specs(trees, bases) ==
            UNION {[values : trees, base : bases, oss : BOOLEAN, level : {b}, isV2 : {b}] :
                      b \in BOOLEAN}
    IN  Specs(UserTrees, {"none", "image"}) \cup Specs({Empty}, {"bad"})

MCFileTrees ==
    {Empty,
     Written([tool |-> "file"], By("file", {"tag", "repository"})),
     Written([tool |-> "otherFile", enableAES |-> "no"], By("otherFile", {"tag"})),
     Written([license |-> "otherFile", replicas |-> "number"], None)}

\* One spec of each flavor.
MCLateSpecs ==
    [values : {Written(By("user", {"tag", "createSecret"}), None)}, base : {"none"},
     oss : BOOLEAN, level : {FALSE}, isV2 : {FALSE}]
=============================================================================
