-------------------------------- MODULE MCSearch --------------------------------
(***************************************************************************)
(* An instance of Search for TLC.                                          *)
(***************************************************************************)
EXTENDS Search, TLC

CONSTANTS a, A, sp

(* A letter in both cases, and a byte that is not part of a word.          *)
Bytes3    == {a, A, sp}
LowerA    == {a}
UpperA    == {A}
Letters   == {a, A}
UpperCase == (a :> A) @@ (A :> A) @@ (sp :> sp)

(* Matches that differ in case, that overlap, that are not words.          *)
TwoFiles == {[text |-> <<a, a, a>>,  readonly |-> FALSE],
             [text |-> <<A, sp, a>>, readonly |-> TRUE]}

(* Occurrences that overlap, and a replacement with the pattern in it.     *)
TwoReplacements == {<< <<a, a>>, <<>> >>, << <<a>>, <<a, A>> >>}
================================================================================
