------------------------- MODULE MCNewApplicationForm -------------------------
(***************************************************************************)
(* Model checking NewApplicationForm: one linked posting of an agency, one *)
(* pasted posting that names its company only.                             *)
(***************************************************************************)
EXTENDS NewApplicationForm, TLC

CONSTANTS c1, c2, g, link, pasted

Readings ==
  (link   :> [company |-> c1, channel |-> "agent", agency |-> g]) @@
  (pasted :> [company |-> c2, channel |-> None,    agency |-> None])
===============================================================================
