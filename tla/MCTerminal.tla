------------------------------- MODULE MCTerminal -------------------------------
(***************************************************************************)
(* An instance of Terminal for TLC.                                        *)
(***************************************************************************)
EXTENDS Terminal

CONSTANTS nl, sp, ch, def

Chars == {nl, sp, ch}

(* The properties count colors, and no code looks at one.                  *)
OneColor == {def}

(* Two sizes or places, one of which selects a color too.                  *)
TwoValues == {2, 3}
DefIs3    == [v \in {3} |-> def]
LastLine  == <<nl>>
================================================================================
