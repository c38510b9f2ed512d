------------------------------- MODULE MCColorize -------------------------------
(***************************************************************************)
(* An instance of Colorize for TLC.                                        *)
(***************************************************************************)
EXTENDS Colorize, TLC

CONSTANTS v1, v2
TwoWindows   == {v1, v2}
WindowsAlike == Permutations(TwoWindows)

(* A comment over two lines, and a disabled block with an empty line.      *)
Short == {<<"open", "NL", "close", "}">>,
          <<"if0", "NL", "NL", "endif">>}

(* A block with braces in a comment, one with a brace in a string that is  *)
(* not closed, and a directive over two lines before data.                 *)
Long  == {<<"x", "{", "open", "NL", "{", "close", "NL", "}">>,
          <<"x", "{", "NL", "x", ";", "NL", "dq", "}">>,
          <<"hash", "bs", "NL", "x", "=", "(", "NL", "{">>}

TwoOrOne == [t \in Short \cup Long |-> IF t \in Short THEN 2 ELSE 1]

(* With the end of a line, a quote and a colon.                            *)
Lexemes == {"NL", "dq", ":"}
================================================================================
