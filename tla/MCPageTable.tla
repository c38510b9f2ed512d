------------------------------- MODULE MCPageTable ------------------------------
(***************************************************************************)
(* Instances of PageTable for TLC.                                         *)
(***************************************************************************)
EXTENDS PageTable

CONSTANTS a, nl, lead, cont

Bytes4 == {a, nl, lead, cont}

(* Insertions that fit in a page, and one that does not.                   *)
EditData  == {<<a>>, <<nl, a, nl>>}
ShareData == {<<lead, cont>>}

(* Distinct neighbours, so that a byte out of place shows.                 *)
EditFiles  == {<<nl, nl, a, lead>>}
ShareFiles == {<<nl, lead, cont>>}

Latin == {"8859-1"}
Utf8  == {"utf-8"}

EditOperations  == {"read", "insert", "delete", "write", "get_pos"}
ShareOperations == {"copy", "paste", "delete", "get_char", "set_charset"}
================================================================================
