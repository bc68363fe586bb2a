--------------------------- MODULE AmbInstPromises ---------------------------
(***************************************************************************)
(* What the documentation of the operator says of it and what its code     *)
(* does not do: TLC refutes this formula.                                  *)
(***************************************************************************)
EXTENDS AmbInstProperties

\* "To upgrade from Ambassador API Gateway to Ambassador Edge Stack [...] simply
\* remove the `installOSS: true` field" (docs/using.md:69-73): with no failure,
\* and no AuthService and RateLimitService but those of the Edge Stack, the
\* spec that is left alone is applied.
UpgradeBySpec ==
    \A i \in Inst :
        LET Undisturbed == Sound(i) /\ \A kind \in Services : auth[kind] = "none"
        IN  <>[]Undisturbed => <>[]Applied(i)
=============================================================================
