----------------------------- MODULE MCRecovery -----------------------------
(***************************************************************************)
(* Instances of Recovery for TLC: two tabs, and an operation of a side      *)
(* effect, a pure step and a second side effect.                            *)
(***************************************************************************)
EXTENDS Recovery, TLC

MCSideEffect == {1, 3}

Symmetry == Permutations(Tabs)
==============================================================================
