---------------------------- MODULE MCIdempotency ----------------------------
(***************************************************************************)
(* Instances of Idempotency for TLC: three calls, two of them in one tab,   *)
(* with locks and slow operations, or without locks and quick ones.         *)
(***************************************************************************)
EXTENDS Idempotency, TLC

CONSTANTS c1, c2, c3

MCTabOf == (c1 :> 1) @@ (c2 :> 1) @@ (c3 :> 2)
MCEnvs == {[locks |-> b, slow |-> b] : b \in BOOLEAN}
==============================================================================
