----------------------------- MODULE MCDetailPage -----------------------------
(***************************************************************************)
(* Model checking DetailPage.                                              *)
(***************************************************************************)
EXTENDS DetailPage, TLC
===============================================================================
