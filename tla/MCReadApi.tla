------------------------------- MODULE MCReadApi -------------------------------
(***************************************************************************)
(* ReadApi for TLC: ints of three bits, so that page * size wraps within   *)
(* the pages and sizes that are asked for, and two texts.  Filters find    *)
(* everything, one of the texts, that text and an IMSI, and nothing.       *)
(***************************************************************************)
EXTENDS ReadApi
CONSTANTS t1, t2
MCTexts == {t1, t2}
MCFilters ==
    [imsis : {Imsis}, texts : {Texts, {t1}}]
        \cup {[imsis |-> {1}, texts |-> {t1}], [imsis |-> {}, texts |-> Texts]}
MCAsked == {<<0, 1>>, <<1, 1>>, <<0, 2>>, <<1, 2>>, <<3, 3>>, <<0, 0>>, <<0, -1>>, <<-1, 2>>}
=============================================================================
