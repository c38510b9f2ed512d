------------------------------- MODULE MCSaveQuit -------------------------------
(***************************************************************************)
(* Instances of SaveQuit for TLC.                                          *)
(***************************************************************************)
EXTENDS SaveQuit, TLC

CONSTANTS x1, x2, n1, n2

TwoBuffers == {x1, x2}
TwoOrder   == <<x1, x2>>
TwoNames   == {n1, n2}

(* Files with different base names.                                        *)
OwnBackup == (x1 :> n1) @@ (x2 :> n2)

(* Files in two directories, with the same base name: one backup for both. *)
OneName      == {n1}
SharedBackup == (x1 :> n1) @@ (x2 :> n1)

FirstMapped == {x1}
================================================================================
