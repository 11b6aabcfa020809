--------------------------- MODULE MCDashboardCache ---------------------------
(***************************************************************************)
(* Model checking DashboardCache.  Requests, ids and values are            *)
(* interchangeable.                                                        *)
(***************************************************************************)
EXTENDS DashboardCache, TLC

Symmetry == Permutations(Ids) \cup Permutations(Vals) \cup
            Permutations(Writers) \cup Permutations(Readers)
===============================================================================
