------------------------------ MODULE MCClient ------------------------------
(***************************************************************************)
(* Instances for TLC of the components that keep books over a store or a     *)
(* file: ConflictResolver, StakingEngine, Backfill, ProtocolGuard and        *)
(* Invitations.  They share nothing, so a behaviour is one of a single part: *)
(* the state spaces add up and do not multiply.                              *)
(***************************************************************************)
EXTENDS ConflictResolver, StakingEngine, Backfill, ProtocolGuard, Invitations

VARIABLE part

\* r1 and r2 repeat an edit; r3 and r4 carry an edit each.
CONSTANTS r1, r2, r3, r4, e1, e2, e3

MCVars == <<part, resolverVars, stakingVars, backfillVars, guardVars, inviteVars>>

MCEditOf == (r1 :> e1) @@ (r2 :> e1) @@ (r3 :> e2) @@ (r4 :> e3)
MCStart == [p \in Paths |-> 1]
CalmStore == [hook |-> TRUE, fails |-> FALSE, revokes |-> FALSE]

\* Two edits at a time are enough of a rival when requests fail or access is withdrawn.
TwoEditsUnlessCalm ==
    store.fails \/ store.revokes => Cardinality({e \in Edits : draft'[e].made}) <= 2

\* The first id comes again at the end.
MCIdOf == <<1, 2, 1>>

MCInit ==
    /\ part \in {"resolver", "staking", "backfill", "guard", "invitations"}
    /\ ResolverInit /\ StakingInit /\ BackfillInit /\ GuardInit /\ InvitationsInit
    /\ part # "resolver" => store = CalmStore
    /\ part # "backfill" => ~previews

MCNext ==
    /\ \/ part = "resolver" /\ ResolverNext /\ TwoEditsUnlessCalm
            /\ UNCHANGED <<stakingVars, backfillVars, guardVars, inviteVars>>
       \/ part = "staking" /\ StakingNext
            /\ UNCHANGED <<resolverVars, backfillVars, guardVars, inviteVars>>
       \/ part = "backfill" /\ BackfillNext
            /\ UNCHANGED <<resolverVars, stakingVars, guardVars, inviteVars>>
       \/ part = "guard" /\ GuardNext
            /\ UNCHANGED <<resolverVars, stakingVars, backfillVars, inviteVars>>
       \/ part = "invitations" /\ InvitationsNext
            /\ UNCHANGED <<resolverVars, stakingVars, backfillVars, guardVars>>
    /\ UNCHANGED part

MCSpec == MCInit /\ [][MCNext]_MCVars
\* The calls that repeat an edit may be swapped, and the two edits of one call each.
Twins == (r1 :> r2) @@ (r2 :> r1)
OtherEdits == (r3 :> r4) @@ (r4 :> r3) @@ (e2 :> e3) @@ (e3 :> e2)
MCSymmetry == {Twins, OtherEdits, Twins @@ OtherEdits}

\* The parts' variables have the types their comments say.
ClientTypeOK ==
    ResolverTypeOK /\ StakingTypeOK /\ BackfillTypeOK /\ GuardTypeOK /\ InvitationsTypeOK
==============================================================================
