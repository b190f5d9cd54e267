--------------------------- MODULE DashboardToggle ---------------------------
(***************************************************************************)
(* What Dashboard and DashboardPanels have in common: the toggle between   *)
(* the two models, and the clicks of the user.                             *)
(***************************************************************************)
EXTENDS Integers, Sequences, SequencesExt

CONSTANT MaxClicks      \* bound: clicks of the user in one behaviour

Model == {"NORMAL", "CQRS"}

VARIABLES
    model,          \* state hook of this name
    clicks          \* clicks so far
=============================================================================
