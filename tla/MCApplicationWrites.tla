------------------------- MODULE MCApplicationWrites -------------------------
(***************************************************************************)
(* Model checking ApplicationWrites.  Tabs, ids, details and reminder keys *)
(* are interchangeable; symmetry is used in the safety runs only.          *)
(***************************************************************************)
EXTENDS ApplicationWrites, TLC

Symmetry == Permutations(Tabs) \cup Permutations(Details)
===============================================================================
