------------------------------- MODULE MCWindows -------------------------------
(***************************************************************************)
(* Instances of Windows for TLC.                                           *)
(***************************************************************************)
EXTENDS Windows

CONSTANT f

OneFile  == {f}
OneMode  == [g \in OneFile |-> "c"]

TwoSizes  == {3, 4}
Careful   == {}
================================================================================
