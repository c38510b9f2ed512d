--------------------------------- MODULE MCShell --------------------------------
(***************************************************************************)
(* Instances of Shell for TLC.                                             *)
(***************************************************************************)
EXTENDS Shell

CONSTANTS p1, p2

TwoPids == {p1, p2}
================================================================================
