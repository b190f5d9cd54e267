----------------------------- MODULE MCDashboard -----------------------------
(***************************************************************************)
(* Dashboard for TLC: one filter besides none.                             *)
(***************************************************************************)
EXTENDS Dashboard
CONSTANT SomeFilters
AllFilters == {NoFilters, SomeFilters}
=============================================================================
