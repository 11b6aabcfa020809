------------------------------- MODULE MCAccount -------------------------------
(***************************************************************************)
(* Model checking Account.                                                 *)
(***************************************************************************)
EXTENDS Account, TLC

Symmetry == Permutations(Tabs)
===============================================================================
