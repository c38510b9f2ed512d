------------------------------ MODULE MCEditBuffer ------------------------------
(***************************************************************************)
(* Instances of EditBuffer for TLC: which commands each run lets the user  *)
(* issue.                                                                  *)
(***************************************************************************)
EXTENDS EditBuffer, TLC

CONSTANTS a, nl, w1, w2

Bytes == {a, nl}

OneWindow  == {w1}
TwoWindows == {w1, w2}

(* Nothing tells one window from another.                                  *)
WindowSymmetry == Permutations(Window)

(* Commands that edit once, several times, or several bytes at a time.     *)
UndoCommands == {"move", "do_char", "do_return", "do_delete_char",
                 "do_delete_word", "do_transpose_char", "do_kill_region",
                 "do_yank", "do_undo", "do_save"}

(* Everything but undo, the commands that leave the text in a read only    *)
(* buffer or at its end (do_return, do_transpose_char), and saving.        *)
EditCommands == {"move", "do_char", "do_insert", "do_open_line",
                 "do_delete_char", "do_backspace", "do_delete_word",
                 "do_set_mark", "do_exchange_point_and_mark",
                 "do_kill_region", "do_yank", "do_toggle_read_only",
                 "do_save_fails", "process_output"}
================================================================================
