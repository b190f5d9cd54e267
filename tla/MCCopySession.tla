----------------------------- MODULE MCCopySession -----------------------------
(***************************************************************************)
(* CopySession for TLC: four calls, three of them to the CQRS model, one   *)
(* with two events.                                                        *)
(***************************************************************************)
EXTENDS CopySession, TLC
CONSTANTS c1, c2, c3, c4
MCCall == {c1, c2, c3, c4}
MCModel == c1 :> "NORMAL" @@ c2 :> "CQRS" @@ c3 :> "CQRS" @@ c4 :> "CQRS"
MCEvents == c1 :> {11} @@ c2 :> {21, 22} @@ c3 :> {31} @@ c4 :> {41}
=============================================================================
