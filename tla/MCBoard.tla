-------------------------------- MODULE MCBoard --------------------------------
(***************************************************************************)
(* Model checking Board.                                                   *)
(***************************************************************************)
EXTENDS Board, TLC
===============================================================================
