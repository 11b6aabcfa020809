--------------------------- MODULE MCApplicationsList --------------------------
(***************************************************************************)
(* Model checking ApplicationsList: two applications that share neither    *)
(* company nor job board, a third that may be created, and one search term *)
(* that finds the first two.                                               *)
(***************************************************************************)
EXTENDS ApplicationsList

CompanyOf == <<"acme", "umbrella", "acme">>
SourceOf  == <<"none", "board", "none">>
LevelOf   == <<"n2", "n2", "n2">>
Found     == [t \in Terms |-> {1, 2}]
TwoRows   == {<<"applied", "rejected", None>>}
Arrived   == {ACTIVE_STATES}
OldPins   == {<<0, 9, 9>>}
===============================================================================
