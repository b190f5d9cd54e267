--------------------------- MODULE MCCqrsPipeline ---------------------------
(***************************************************************************)
(* Small instances of CqrsPipeline for TLC.  Events are numbers; three are *)
(* enough for two transactions to overlap with a third commit between      *)
(* them, and for a batch of two to leave one entry for the next.           *)
(***************************************************************************)
EXTENDS CqrsPipeline, TLC

MCImsi == {"i1", "i2"}
MCEvent == 1 .. 3

\* Two events of one IMSI and one of another, at distinct times.
MCImsiOf == [e \in MCEvent |-> IF e = 3 THEN "i2" ELSE "i1"]
MCUpdatedAt == [e \in MCEvent |-> e]

\* Three events of one IMSI, the last two tied.
OneImsiOf == [e \in MCEvent |-> "i1"]
TiedUpdatedAt == [e \in MCEvent |-> IF e = 3 THEN 2 ELSE e]

Threads == Permutations(Writer) \cup Permutations(Clearer)
=============================================================================
