-------------------------- MODULE MCPayoutsReport --------------------------
(***************************************************************************)
(* An instance of Payouts for TLC: one call, one amount, a backend that may  *)
(* be down.                                                                  *)
(***************************************************************************)
EXTENDS Payouts

MCWebs == {[double |-> FALSE, expires |-> FALSE, down |-> TRUE, earned |-> 4]}
==============================================================================
