-------------------------------- MODULE SaveQuit --------------------------------
(***************************************************************************)
(* Saving buffers to their files, with a backup (buffer.c: save_buffer),   *)
(* and leaving the editor (qe.c: do_quit), step by step: system calls may  *)
(* fail and the editor may be killed between them.                         *)
(*                                                                         *)
(* Contents are abstracted to versions: every edit of a buffer makes a new *)
(* one.  A file that is being written holds no version (Partial) until the *)
(* last write, and a name without a file is Missing.                       *)
(***************************************************************************)
EXTENDS Integers, Sequences

CONSTANTS Buf,           \* the buffers that visit files
          Order,         \* a sequence: the list of buffers, first_buffer first
          BackupName,    \* the set of names in the backup directory
          BackupOf,      \* BackupOf[x]: the base name of the file of x, and ~
          Mapped,        \* the buffers with pages mapped from their file
          RenameFails,   \* rename may fail (another file system, say)
          WriteFails,    \* open and write may fail (a full disk, say)
          Killed,        \* the editor may be killed at any time
          SaveAs,        \* write-file is used too
          MaxVersion     \* bound: edits of a buffer

ASSUME OrderAssumption   == /\ Order \in Seq(Buf)
                            /\ Order # <<>>
                            /\ \A x \in Buf : \E i \in 1..Len(Order) : Order[i] = x
ASSUME BackupAssumption  == BackupOf \in [Buf -> BackupName]
ASSUME FailureAssumption == /\ Mapped \subseteq Buf
                            /\ {RenameFails, WriteFails, Killed, SaveAs} \subseteq BOOLEAN
ASSUME BoundAssumption   == MaxVersion \in Nat

VARIABLES text,       \* the version that each buffer holds
          modified,   \* b->modified
          file,       \* what the file of each buffer holds
          backup,     \* what the files of the backup directory hold
          mapped,     \* the buffers with pages mapped from the file that is
                      \* still the one under its name
          kept,       \* history: the last version that each file held
          saving,     \* the call of save_buffer that is running
          pc,         \* what the editor is doing
          is,         \* the QuitState; is.b is an index in Order
          confirmed,  \* history: the user agreed to lose modifications
          failed      \* history: the buffers, with the caller, of whose save a
                      \* system call failed, until they are saved completely

bufs == <<text, modified, file, backup, mapped, kept, failed>>
vars == <<bufs, saving, pc, is, confirmed>>

Partial == -1
Missing == -2

(* The functions that call save_buffer.                                    *)
Callers == {"do_save", "save_edit_cb", "quit"}

QS_ASK    == "QS_ASK"
QS_NOSAVE == "QS_NOSAVE"
QS_SAVE   == "QS_SAVE"

Idle == [step |-> "none", b |-> Order[1], caller |-> "none"]

(* The QuitState as do_quit makes it, and outside of it, where there is    *)
(* none.                                                                   *)
FirstBuffer == [state |-> QS_ASK, modified |-> FALSE, b |-> 1]

Init ==
    /\ text = [x \in Buf |-> 0]
    /\ modified = [x \in Buf |-> FALSE]
    /\ file = [x \in Buf |-> 0]
    /\ backup = [n \in BackupName |-> Missing]
    /\ mapped = Mapped
    /\ kept = [x \in Buf |-> 0]
    /\ saving = Idle
    /\ pc = "edit"
    /\ is = FirstBuffer
    /\ confirmed = FALSE
    /\ failed = {}

(* The user changes buffer x.                                              *)
Edit(x) ==
    /\ pc = "edit"
    /\ text[x] < MaxVersion
    /\ text' = [text EXCEPT ![x] = @ + 1]
    /\ modified' = [modified EXCEPT ![x] = TRUE]
    /\ UNCHANGED <<file, backup, mapped, kept, failed, saving, pc, is, confirmed>>

---------------------------------------------------------------------------
(* save_buffer.                                                            *)

Call(x, caller) == [step |-> "rename", b |-> x, caller |-> caller]

(* save-buffer, for a buffer that has a file name and is modified.         *)
do_save(x) ==
    /\ pc = "edit"
    /\ modified[x]
    /\ saving' = Call(x, "do_save")
    /\ pc' = "save"
    /\ UNCHANGED <<bufs, is, confirmed>>

(* write-file, given the name that the buffer has already: it does not     *)
(* matter whether the buffer is modified.                                  *)
save_edit_cb(x) ==
    /\ SaveAs
    /\ pc = "edit"
    /\ saving' = Call(x, "save_edit_cb")
    /\ pc' = "save"
    /\ UNCHANGED <<bufs, is, confirmed>>

(* Mutant: every save moves the scan of the buffers on.                    *)
Return_Advances ==
    /\ saving' = Idle
    /\ pc' = IF saving.caller = "quit" THEN "examine" ELSE "edit"
    /\ is' = [is EXCEPT !.b = @ + 1]
    /\ UNCHANGED confirmed

(* save_buffer returns: to the command loop, or to the loop over buffers,  *)
(* which goes on with the next one.  Neither caller in the quit code looks *)
(* at the result.                                                          *)
Return ==
    /\ saving' = Idle
    /\ IF saving.caller = "quit"
       THEN pc' = "examine" /\ is' = [is EXCEPT !.b = @ + 1]
       ELSE pc' = "edit" /\ UNCHANGED is
    /\ UNCHANGED confirmed

(* History: a system call fails.                                           *)
Fails == failed' = failed \cup {<<saving.b, saving.caller>>}

(* Mutant: the old file is removed rather than kept.                       *)
BackupOldFile_Removes(x) ==
    /\ saving.step = "rename"
    /\ file' = [file EXCEPT ![x] = Missing]
    /\ mapped' = mapped \ {x}
    /\ saving' = [saving EXCEPT !.step = "open"]
    /\ UNCHANGED <<text, modified, backup, kept, failed, pc, is, confirmed>>

(* The old file, if present, becomes the backup.  Whether rename succeeds  *)
(* is not looked at; if it does, what the buffer maps is now the backup.   *)
BackupOldFile(x) ==
    /\ saving.step = "rename"
    /\ \/ /\ file[x] # Missing
          /\ backup' = [backup EXCEPT ![BackupOf[x]] = file[x]]
          /\ file' = [file EXCEPT ![x] = Missing]
          /\ mapped' = mapped \ {x}
          /\ UNCHANGED failed
       \/ /\ RenameFails /\ file[x] # Missing
          /\ Fails
          /\ UNCHANGED <<backup, file, mapped>>
       \/ /\ file[x] = Missing
          /\ UNCHANGED <<backup, file, mapped, failed>>
    /\ saving' = [saving EXCEPT !.step = "open"]
    /\ UNCHANGED <<text, modified, kept, pc, is, confirmed>>

(* raw_save_buffer opens the file: it is created, or truncated.            *)
OpenFile(x) ==
    /\ saving.step = "open"
    /\ \/ /\ file' = [file EXCEPT ![x] = Partial]
          /\ saving' = [saving EXCEPT !.step = "write"]
          /\ UNCHANGED <<failed, pc, is, confirmed>>
       \/ /\ WriteFails
          /\ Fails
          /\ UNCHANGED file
          /\ Return
    /\ UNCHANGED <<text, modified, backup, mapped, kept>>

(* Mutant: the flag is reset although a write failed.                      *)
WriteFile_AlwaysClean(x) ==
    /\ saving.step = "write"
    /\ x \notin mapped
    /\ \/ /\ file' = [file EXCEPT ![x] = text[x]]
          /\ kept' = [kept EXCEPT ![x] = text[x]]
          /\ failed' = {p \in failed : p[1] # x}
       \/ /\ WriteFails
          /\ Fails
          /\ UNCHANGED <<file, kept>>
    /\ modified' = [modified EXCEPT ![x] = FALSE]
    /\ Return
    /\ UNCHANGED <<text, backup, mapped>>

(* All of the text is written and save_buffer resets the log, or a write   *)
(* fails and it returns at once.                                           *)
WriteFile(x) ==
    /\ saving.step = "write"
    /\ x \notin mapped
    /\ \/ /\ file' = [file EXCEPT ![x] = text[x]]
          /\ modified' = [modified EXCEPT ![x] = FALSE]
          /\ kept' = [kept EXCEPT ![x] = text[x]]
          /\ failed' = {p \in failed : p[1] # x}
       \/ /\ WriteFails
          /\ Fails
          /\ UNCHANGED <<file, modified, kept>>
    /\ Return
    /\ UNCHANGED <<text, backup, mapped>>

(* The pages to be written were mapped from the file that was truncated:   *)
(* reading them is a bus error.                                            *)
BusError(x) ==
    /\ saving.step = "write"
    /\ x \in mapped
    /\ pc' = "killed"
    /\ UNCHANGED <<bufs, saving, is, confirmed>>

SaveStep ==
    /\ pc = "save"
    /\ \E x \in {saving.b} :
         BackupOldFile(x) \/ OpenFile(x) \/ WriteFile(x) \/ BusError(x)

---------------------------------------------------------------------------
(* Quitting.                                                               *)

do_quit ==
    /\ pc = "edit"
    /\ is' = FirstBuffer
    /\ pc' = "examine"
    /\ UNCHANGED <<bufs, saving, confirmed>>

(* Mutant: a buffer that is not to be saved is not remembered.             *)
quit_examine_buffers_Forgets ==
    /\ pc = "examine"
    /\ LET atend == is.b > Len(Order)
           ask   == ~atend /\ modified[Order[is.b]]
       IN  \/ /\ ask /\ is.state = QS_ASK
              /\ pc' = "quit_key"
              /\ UNCHANGED <<is, saving>>
           \/ /\ ask /\ is.state = QS_SAVE
              /\ saving' = Call(Order[is.b], "quit")
              /\ pc' = "save"
              /\ UNCHANGED is
           \/ /\ ~atend /\ ~(ask /\ is.state # QS_NOSAVE)
              /\ is' = [is EXCEPT !.b = @ + 1]
              /\ UNCHANGED <<saving, pc>>
           \/ /\ atend
              /\ pc' = IF is.modified THEN "confirm" ELSE "exited"
              /\ is' = FirstBuffer
              /\ UNCHANGED saving
    /\ UNCHANGED <<bufs, confirmed>>

(* One round of the loop over the buffers, or what follows it.             *)
quit_examine_buffers ==
    /\ pc = "examine"
    /\ LET atend == is.b > Len(Order)
           ask   == ~atend /\ modified[Order[is.b]]
       IN  \/ /\ ask /\ is.state = QS_ASK
              /\ pc' = "quit_key"
              /\ UNCHANGED <<is, saving>>
           \/ /\ ask /\ is.state = QS_NOSAVE
              /\ is' = [is EXCEPT !.modified = TRUE, !.b = @ + 1]
              /\ UNCHANGED <<saving, pc>>
           \/ /\ ask /\ is.state = QS_SAVE
              /\ saving' = Call(Order[is.b], "quit")
              /\ pc' = "save"
              /\ UNCHANGED is
           \/ /\ ~atend /\ ~ask
              /\ is' = [is EXCEPT !.b = @ + 1]
              /\ UNCHANGED <<saving, pc>>
           \/ /\ atend
              /\ pc' = IF is.modified THEN "confirm" ELSE "exited"
              /\ is' = FirstBuffer
              /\ UNCHANGED saving
    /\ UNCHANGED <<bufs, confirmed>>

(* The keys that answer "Save file? (y, n, !, ., q)".                     *)
Answers == {"y", "n", "q", "!", ".", "^g"}

(* Mutant: the scan does not move on after n.                              *)
quit_key_Stays(ch) ==
    /\ pc = "quit_key"
    /\ ch \in {"n", "q"}
    /\ is' = [is EXCEPT !.modified = TRUE,
                        !.state = IF ch = "q" THEN QS_NOSAVE ELSE @]
    /\ pc' = "examine"
    /\ UNCHANGED <<bufs, saving, confirmed>>

quit_key(ch) ==
    /\ pc = "quit_key"
    /\ \/ /\ ch \in {"y", "!", "."}
          /\ is' = [is EXCEPT !.state = IF ch = "!" THEN QS_SAVE
                                        ELSE IF ch = "." THEN QS_NOSAVE ELSE @]
          /\ saving' = Call(Order[is.b], "quit")
          /\ pc' = "save"
       \/ /\ ch \in {"n", "q"}
          /\ is' = [is EXCEPT !.modified = TRUE, !.b = @ + 1,
                              !.state = IF ch = "q" THEN QS_NOSAVE ELSE @]
          /\ pc' = "examine"
          /\ UNCHANGED saving
       \/ /\ ch = "^g"
          /\ pc' = "edit"
          /\ is' = FirstBuffer
          /\ UNCHANGED saving
    /\ UNCHANGED <<bufs, confirmed>>

(* Any other key is ignored.                                               *)
quit_other_key == pc = "quit_key" /\ UNCHANGED vars

(* "Modified buffers exist; exit anyway? (yes or no)"                      *)
quit_confirm_cb(yes) ==
    /\ pc = "confirm"
    /\ pc' = IF yes THEN "exited" ELSE "edit"
    /\ confirmed' = yes
    /\ UNCHANGED <<bufs, saving, is>>

---------------------------------------------------------------------------

Kill ==
    /\ Killed
    /\ pc # "exited"
    /\ pc' = "killed"
    /\ UNCHANGED <<bufs, saving, is, confirmed>>

Ended == pc \in {"exited", "killed"} /\ UNCHANGED vars

Next ==
    \/ \E x \in Buf : Edit(x) \/ do_save(x) \/ save_edit_cb(x)
    \/ SaveStep
    \/ do_quit
    \/ quit_examine_buffers
    \/ \E ch \in Answers : quit_key(ch)
    \/ quit_other_key
    \/ \E yes \in BOOLEAN : quit_confirm_cb(yes)
    \/ Kill
    \/ Ended

Spec == Init /\ [][Next]_vars

(* The editor goes on as long as it is not killed, and the user answers    *)
(* the question at last.                                                   *)
FairSpec ==
    /\ Spec
    /\ WF_vars(SaveStep)
    /\ WF_vars(quit_examine_buffers)
    /\ WF_vars(\E ch \in Answers : quit_key(ch))

---------------------------------------------------------------------------
(* Properties.                                                             *)

Version == 0..MaxVersion
Step    == {"none", "rename", "open", "write"}

(* Type correctness: the scan of the buffers stays in the list, and only   *)
(* files and backups hold partial versions (qe.c, QuitState; buffer.c,     *)
(* save_buffer).                                                           *)
TypeOK ==
    /\ text \in [Buf -> Version]
    /\ modified \in [Buf -> BOOLEAN]
    /\ file \in [Buf -> Version \cup {Partial, Missing}]
    /\ backup \in [BackupName -> Version \cup {Partial, Missing}]
    /\ mapped \subseteq Buf
    /\ kept \in [Buf -> Version]
    /\ saving \in [step : Step, b : Buf, caller : Callers \cup {"none"}]
    /\ pc \in {"edit", "save", "examine", "quit_key", "confirm", "exited",
               "killed"}
    /\ is \in [state : {QS_ASK, QS_NOSAVE, QS_SAVE}, modified : BOOLEAN,
               b : 1..(Len(Order) + 1)]
    /\ confirmed \in BOOLEAN
    /\ failed \subseteq Buf \X Callers

(* x is the buffer that save_buffer is working on.                         *)
Saving(x) == saving.step # "none" /\ saving.b = x

(* A system call of the last save of x failed.                             *)
Failed(x) == \E c \in Callers : <<x, c>> \in failed

(* Whenever the editor is killed, the last version of a file that was      *)
(* saved completely can be found, in the file or in its backup, unless a   *)
(* system call of its own save has failed since: the saves of other files  *)
(* may fail, also of one with the same backup (buffer.c, save_buffer:      *)
(* "backup old file if present").                                          *)
Recoverable == \A x \in Buf : ~Failed(x) => kept[x] \in {file[x], backup[BackupOf[x]]}

(* A buffer shown as unmodified is on disk, also after a save that failed  *)
(* at any step and after one that follows it, unless it was write-file,    *)
(* which takes buffers that are not modified (buffer.c, save_buffer: the   *)
(* flag is reset last).                                                    *)
CleanIsOnDisk ==
    \A x \in Buf : ~modified[x] /\ ~Saving(x) /\ <<x, "save_edit_cb">> \notin failed =>
       file[x] = text[x]

(* The editor does not exit with modifications lost unless the user agreed *)
(* to that (qe.c, quit_examine_buffers: "Modified buffers exist").         *)
ExitSavesOrAsks ==
    pc = "exited" /\ ~confirmed => \A x \in Buf : file[x] = text[x]

(* It loses nothing without consent but the buffers whose last save        *)
(* failed, whatever the answers and whichever other saves fail (qe.c,      *)
(* quit_examine_buffers and quit_key).                                     *)
ExitLosesOnlyFailed ==
    pc = "exited" /\ ~confirmed => \A x \in Buf : Failed(x) \/ file[x] = text[x]

(* The loop over the buffers comes to an end: once asked, the user sees    *)
(* the editor exit, ask for confirmation, or go back to editing, unless it *)
(* is killed (qe.c, quit_key and quit_examine_buffers).                    *)
QuitEnds == pc = "quit_key" ~> pc \in {"edit", "confirm", "exited", "killed"}
================================================================================
