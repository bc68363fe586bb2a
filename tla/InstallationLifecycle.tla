------------------------ MODULE InstallationLifecycle ------------------------
(***************************************************************************)
(* What the operator promises about the AmbassadorInstallations of a       *)
(* namespace and the Ambassadors that run for them, without the calls,     *)
(* copies, caches and retries it keeps the promise with.  A CR is in one   *)
(* of these phases:                                                        *)
(*                                                                         *)
(*   absent   no such CR, and no Ambassador of it                          *)
(*   pending  created, nothing runs for it yet                             *)
(*   refused  a duplicate: nothing ever runs for it                        *)
(*   running  an Ambassador runs for it                                    *)
(*   leaving  marked for deletion while its Ambassador runs                *)
(*   left     marked for deletion, and no Ambassador (any more)            *)
(*   dropped  refused and marked for deletion                              *)
(*                                                                         *)
(* An Ambassador is only started for a CR that no other CR precedes; it is *)
(* stopped only after its CR was marked for deletion, and before the CR    *)
(* goes away.  AmbInstProperties says how the reconciler implements this.  *)
(***************************************************************************)
EXTENDS Naturals

CONSTANT Inst       \* names of the CRs

VARIABLES
    phase,          \* the phase of each CR
    created,        \* when it was created, 0 while it is absent
    clock           \* the time, in seconds

vars == <<phase, created, clock>>

Phases == {"absent", "pending", "refused", "running", "leaving", "left",
           "dropped"}

TypeOK == /\ phase \in [Inst -> Phases]
          /\ created \in [Inst -> Nat]
          /\ clock \in Nat

\* The CR i goes from one phase to the next.
Moves(i, from, to) ==
    /\ phase[i] = from /\ phase' = [phase EXCEPT ![i] = to]
    /\ UNCHANGED clock

Preceded(i) == \E j \in Inst : phase[j] # "absent" /\ created[j] < created[i]

Create(i) ==
    /\ Moves(i, "absent", "pending")
    /\ created' = [created EXCEPT ![i] = clock]

Refuse(i) == Moves(i, "pending", "refused") /\ UNCHANGED created

\* The CR may be marked for deletion while the Ambassador is being started.
Start(i) ==
    /\ ~Preceded(i)
    /\ Moves(i, "pending", "running") \/ Moves(i, "left", "leaving")
    /\ UNCHANGED created

Mark(i) ==
    /\ \/ Moves(i, "running", "leaving")
       \/ Moves(i, "pending", "left") \/ Moves(i, "refused", "dropped")
    /\ UNCHANGED created

Stop(i) == Moves(i, "leaving", "left") /\ UNCHANGED created

\* A CR that nothing has to be done for may go at once.
Vanish(i) ==
    /\ \E from \in {"pending", "refused", "left", "dropped"} : Moves(i, from, "absent")
    /\ created' = [created EXCEPT ![i] = 0]

Pass == /\ clock' \in Nat /\ clock' > clock
        /\ UNCHANGED <<phase, created>>

Init == /\ phase = [i \in Inst |-> "absent"]
        /\ created = [i \in Inst |-> 0]
        /\ clock = 1

Next == \/ \E i \in Inst : \/ Create(i) \/ Refuse(i) \/ Start(i)
                           \/ Mark(i) \/ Stop(i) \/ Vanish(i)
        \/ Pass

Spec == Init /\ [][Next]_vars

-----------------------------------------------------------------------------
\* What this comes to: whose Ambassador runs, no CR precedes.

OldestRun == \A i \in Inst : phase[i] \in {"running", "leaving"} => ~Preceded(i)

NoneFromTheFuture == \A i \in Inst : created[i] <= clock
=============================================================================
