------------------------------- MODULE EditBuffer -------------------------------
(***************************************************************************)
(* One EditBuffer of buffer.c and the commands of qe.c that change it.     *)
(*                                                                         *)
(* The buffer is a record, as in qe.h: its text (a sequence of bytes; how  *)
(* pages store it is the subject of PageTable), the integers registered    *)
(* with eb_offset_callback (the mark and the offset of every window that   *)
(* shows the buffer), the undo log and the position log_current in it.     *)
(* eb_insert, eb_delete, eb_write and do_undo are operators from buffer to *)
(* buffer, so that a command that calls several of them is their           *)
(* composition.  The charset is the single byte one (8859-1).              *)
(*                                                                         *)
(* The log is a sequence of entries rather than a byte buffer, and         *)
(* log_current, in the code one plus a byte index into it, counts entries: *)
(* 0 when no undo is under way, otherwise the number of the entry that the *)
(* last undo reverted.  The field `before' of an entry is a history        *)
(* variable: the text just before the operation that the entry records.    *)
(***************************************************************************)
EXTENDS Integers, Sequences

CONSTANTS Byte,        \* the byte values used
          NL,          \* the byte '\n'
          Window,      \* the windows that show the buffer
          Commands,    \* the commands that the user (or a process) issues
          NbLogsMax,   \* NB_LOGS_MAX
          MaxLen,      \* bound: longest text
          MaxOffset    \* bound: no further undo once an offset is beyond it

ASSUME ByteAssumption   == NL \in Byte
ASSUME WindowAssumption == "mark" \notin Window
ASSUME LogAssumption    == NbLogsMax \in Nat /\ NbLogsMax >= 2
ASSUME BoundAssumption  == MaxLen \in Nat /\ MaxOffset \in Nat

VARIABLES b,          \* the EditBuffer
          readonly,   \* BF_READONLY is set in b->flags
          insert,     \* insert[w]: window w is in insert (not overwrite) mode
          yank,       \* contents of the current yank buffer, empty if none
          last_undo,  \* qe_state.last_cmd_func = do_undo
          disk        \* contents of the file that the buffer visits

vars == <<b, readonly, insert, yank, last_undo, disk>>

---------------------------------------------------------------------------
(* Texts.  Offsets are those of the code: 0 is before the first byte.      *)

Extract(t, offset, size) == [i \in 1..size |-> t[offset + i]]

InsertText(t, offset, d) ==
    [i \in 1..(Len(t) + Len(d)) |->
        IF i <= offset THEN t[i]
        ELSE IF i <= offset + Len(d) THEN d[i - offset]
        ELSE t[i - Len(d)]]

DeleteText(t, offset, size) ==
    [i \in 1..(Len(t) - size) |-> IF i <= offset THEN t[i] ELSE t[i + size]]

WriteText(t, offset, d) ==
    [i \in 1..Len(t) |->
        IF offset < i /\ i <= offset + Len(d) THEN d[i - offset] ELSE t[i]]

Texts == UNION {[1..n -> Byte] : n \in 0..MaxLen}

---------------------------------------------------------------------------
(* The buffer.                                                             *)

Pointer == Window \cup {"mark"}

LOGOP_INSERT == "INSERT"
LOGOP_DELETE == "DELETE"
LOGOP_WRITE  == "WRITE"

LogOperation == {LOGOP_INSERT, LOGOP_DELETE, LOGOP_WRITE}

(* An entry holds the bytes that were deleted or overwritten.              *)
LogEntry ==
    {lb \in [op : LogOperation, offset : Nat, size : Nat, data : Seq(Byte),
             was_modified : BOOLEAN, before : Seq(Byte)] :
        lb.op # LOGOP_INSERT => Len(lb.data) = lb.size}

Buffer == [text : Seq(Byte), offsets : [Pointer -> Nat], log : Seq(LogEntry),
           log_current : Nat, save_log : BOOLEAN, modified : BOOLEAN,
           overrun : BOOLEAN]

(* An access outside the pages: undefined behaviour, after which nothing   *)
(* more is said about the program.                                         *)
Overrun(e) == [e EXCEPT !.overrun = TRUE]

(* Mutant: an offset inside of the part deleted stays where it was.        *)
eb_offset_callback_NoClamp(op, offset, size, p) ==
    IF op = LOGOP_WRITE \/ p <= offset THEN p
    ELSE IF op = LOGOP_INSERT THEN p + size
    ELSE IF p - size < offset THEN p ELSE p - size

(* Mutant: insertions do not move the offsets.                             *)
eb_offset_callback_NoInsert(op, offset, size, p) ==
    IF op # LOGOP_DELETE \/ p <= offset THEN p
    ELSE IF p - size < offset THEN offset ELSE p - size

(* How an operation moves a registered offset p.                           *)
eb_offset_callback(op, offset, size, p) ==
    IF op = LOGOP_WRITE \/ p <= offset THEN p
    ELSE IF op = LOGOP_INSERT THEN p + size
    ELSE IF p - size < offset THEN offset ELSE p - size

(* Mutant: the log takes one entry too many.                               *)
LogFull_TooLate(e) == Len(e.log) >= NbLogsMax

(* One more entry would make NB_LOGS_MAX.                                  *)
LogFull(e) == Len(e.log) >= NbLogsMax - 1

(* Mutant: log_current is not adjusted when the oldest entry goes.         *)
CurrentAfter_Stale(e) == e.log_current

(* log_current once an entry was logged: it stays on the same entry.       *)
CurrentAfter(e) == IF LogFull(e) /\ e.log_current > 1
                   THEN e.log_current - 1 ELSE e.log_current

(* Every callback is called, and the operation is logged if save_log is    *)
(* set; when the log is full its oldest entry makes room.                  *)
eb_addlog(e, op, offset, size, before) ==
    LET moved == [e EXCEPT
                    !.offsets = [p \in Pointer |->
                        eb_offset_callback(op, offset, size, e.offsets[p])],
                    !.modified = TRUE]
        entry == [op |-> op, offset |-> offset, size |-> size,
                  data |-> IF op = LOGOP_INSERT THEN << >>
                           ELSE Extract(e.text, offset, size),
                  was_modified |-> e.modified, before |-> before]
    IN  IF ~e.save_log
        THEN moved
        ELSE [moved EXCEPT
                !.log = Append(IF LogFull(e) THEN Tail(e.log) ELSE e.log, entry),
                !.log_current = CurrentAfter(e)]

eb_insert(e, offset, d) ==
    IF offset > Len(e.text)
    THEN Overrun(e)
    ELSE [eb_addlog(e, LOGOP_INSERT, offset, Len(d), e.text)
            EXCEPT !.text = InsertText(e.text, offset, d)]

(* The bytes inserted come from another buffer.                            *)
eb_insert_buffer(e, offset, d) ==
    IF Len(d) = 0 THEN e ELSE eb_insert(e, offset, d)

eb_delete(e, offset, size) ==
    IF offset >= Len(e.text) THEN e
    ELSE IF offset + size > Len(e.text) THEN Overrun(e)
    ELSE [eb_addlog(e, LOGOP_DELETE, offset, size, e.text)
            EXCEPT !.text = DeleteText(e.text, offset, size)]

(* Overwrites what is in the buffer; what goes past its end is inserted.   *)
eb_write(e, offset, d) ==
    IF offset >= Len(e.text) THEN eb_insert(e, offset, d)
    ELSE LET inside  == IF offset + Len(d) > Len(e.text)
                        THEN Len(e.text) - offset ELSE Len(d)
             written == [eb_addlog(e, LOGOP_WRITE, offset, inside, e.text)
                           EXCEPT !.text = WriteText(e.text, offset,
                                                     Extract(d, 0, inside))]
         IN  IF inside = Len(d) THEN written
             ELSE eb_insert(written, offset + inside,
                            Extract(d, inside, Len(d) - inside))

(* Mutant: saving leaves the log alone.                                    *)
log_reset_KeepsLog(e) == [e EXCEPT !.modified = FALSE]

log_reset(e) == [e EXCEPT !.log = << >>, !.log_current = 0, !.modified = FALSE]

SetOffset(e, p, offset) == [e EXCEPT !.offsets[p] = offset]

(* The entry that the next undo reverts, 0 when the log has no more.  The  *)
(* undo goes on from where the last one stopped only if it follows it.     *)
UndoIndex(e, chained) ==
    IF chained /\ e.log_current # 0 THEN e.log_current - 1 ELSE Len(e.log)

(* Mutant: what undo restored is not logged.                               *)
Relog_Forgotten(x, op, lb, before) == [x EXCEPT !.save_log = TRUE]

(* After undo restored a deletion or a write without logging it: logging   *)
(* is on again, and the inverse operation is logged, once.                 *)
Relog(x, op, lb, before) ==
    LET y == [x EXCEPT !.save_log = TRUE]
    IN  IF y.overrun THEN y ELSE eb_addlog(y, op, lb.offset, lb.size, before)

(* Reverts entry k of the log for window w.                                *)
UndoEntry(e, w, k) ==
    LET lb       == e.log[k]
        current  == [e EXCEPT !.log_current = k]
        unlogged == [current EXCEPT !.save_log = FALSE]
        end      == lb.offset + lb.size
        played   ==
            IF lb.op = LOGOP_INSERT
            THEN SetOffset(eb_delete(current, lb.offset, lb.size), w, lb.offset)
            ELSE IF lb.op = LOGOP_DELETE
            THEN SetOffset(Relog(eb_insert_buffer(unlogged, lb.offset, lb.data),
                                 LOGOP_INSERT, lb, e.text), w, end)
            ELSE SetOffset(Relog(eb_insert_buffer(
                                   eb_delete(unlogged, lb.offset, lb.size),
                                   lb.offset, lb.data),
                                 LOGOP_WRITE, lb, e.text), w, end)
    IN  [played EXCEPT !.modified = lb.was_modified]

---------------------------------------------------------------------------
(* The initial state: a file was just loaded (its load is not logged).     *)
Init ==
    /\ \E t \in Texts :
         /\ b = [text |-> t, offsets |-> [p \in Pointer |-> 0],
                 log |-> << >>, log_current |-> 0, save_log |-> TRUE,
                 modified |-> FALSE, overrun |-> FALSE]
         /\ disk = t
    /\ readonly = FALSE
    /\ insert = [w \in Window |-> TRUE]
    /\ yank = << >>
    /\ last_undo = FALSE

(* The command named is issued; parse_args records it as the last one.     *)
Issue(name) == /\ name \in Commands
               /\ ~b.overrun
               /\ last_undo' = (name = "do_undo")

(* A command that a read only buffer refuses without a word.               *)
Refused == readonly /\ UNCHANGED b

Room(size) == Len(b.text) + size <= MaxLen

(* Any cursor motion: it leaves the offset somewhere in the text.          *)
Move(w) ==
    /\ Issue("move")
    /\ \E o \in 0..Len(b.text) : b' = SetOffset(b, w, o)
    /\ UNCHANGED <<readonly, insert, yank, disk>>

(* self-insert, with text_write_char: inserts, or overwrites the character *)
(* under the cursor unless it is an end of line.                           *)
do_char(w, c) ==
    /\ Issue("do_char")
    /\ \/ Refused
       \/ /\ ~readonly
          /\ Room(1)
          /\ LET o      == b.offsets[w]
                 cur_ch == IF o >= Len(b.text) THEN NL ELSE b.text[o + 1]
                 e      == IF insert[w] \/ cur_ch = NL
                           THEN eb_insert(b, o, <<c>>)
                           ELSE eb_write(b, o, <<c>>)
             IN  b' = SetOffset(e, w, e.offsets[w] + 1)
    /\ UNCHANGED <<readonly, insert, yank, disk>>

(* overwrite-mode *)
do_insert(w) ==
    /\ Issue("do_insert")
    /\ insert' = [insert EXCEPT ![w] = ~@]
    /\ UNCHANGED <<b, readonly, yank, disk>>

do_open_line(w) ==
    /\ Issue("do_open_line")
    /\ \/ Refused
       \/ /\ ~readonly
          /\ Room(1)
          /\ b' = eb_insert(b, b.offsets[w], <<NL>>)
    /\ UNCHANGED <<readonly, insert, yank, disk>>

(* do_open_line, then the offset moves, even when the buffer is read only. *)
do_return(w) ==
    /\ Issue("do_return")
    /\ b.offsets[w] <= MaxOffset
    /\ LET e == IF readonly THEN b ELSE eb_insert(b, b.offsets[w], <<NL>>)
       IN  /\ readonly \/ Room(1)
           /\ b' = SetOffset(e, w, e.offsets[w] + 1)
    /\ UNCHANGED <<readonly, insert, yank, disk>>

do_delete_char(w) ==
    /\ Issue("do_delete_char")
    /\ b' = eb_delete(b, b.offsets[w], 1)
    /\ UNCHANGED <<readonly, insert, yank, disk>>

do_backspace(w) ==
    /\ Issue("do_backspace")
    /\ LET o == b.offsets[w]
       IN  b' = IF o = 0 THEN b
                ELSE SetOffset(eb_delete(b, o - 1, 1), w, o - 1)
    /\ UNCHANGED <<readonly, insert, yank, disk>>

(* Deletes from the offset to where the motion by a word leads, in either  *)
(* direction; where words end is left open.                                *)
do_delete_word(w) ==
    /\ Issue("do_delete_word")
    /\ \/ Refused
       \/ /\ ~readonly
          /\ \E end \in 0..Len(b.text) \cup {b.offsets[w]} :
               LET start == b.offsets[w]
                   e     == SetOffset(b, w, end)
               IN  b' = IF start < end THEN eb_delete(e, start, end - start)
                                       ELSE eb_delete(e, end, start - end)
    /\ UNCHANGED <<readonly, insert, yank, disk>>

(* Exchanges the characters around the cursor: deletes both, and inserts   *)
(* them back in the other order.                                           *)
do_transpose_char(w) ==
    /\ Issue("do_transpose_char")
    /\ LET o == b.offsets[w]
       IN  b' = IF o = 0 THEN b
                ELSE IF o >= Len(b.text) THEN Overrun(b)
                ELSE LET d == eb_delete(b, o - 1, 2)
                     IN  SetOffset(eb_insert(d, d.offsets[w],
                                             <<b.text[o + 1], b.text[o]>>),
                                   w, o)
    /\ UNCHANGED <<readonly, insert, yank, disk>>

do_set_mark(w) ==
    /\ Issue("do_set_mark")
    /\ b' = SetOffset(b, "mark", b.offsets[w])
    /\ UNCHANGED <<readonly, insert, yank, disk>>

do_exchange_point_and_mark(w) ==
    /\ Issue("do_exchange_point_and_mark")
    /\ b' = SetOffset(SetOffset(b, "mark", b.offsets[w]), w, b.offsets["mark"])
    /\ UNCHANGED <<readonly, insert, yank, disk>>

(* The end of the line that o is on, the end of the text counting as one.  *)
LineEnd(t, o) == {q \in o..Len(t) : /\ q = Len(t) \/ t[q + 1] = NL
                                    /\ \A i \in (o + 1)..q : t[i] # NL}

(* Mutant: the end of the text is taken for an end of line to kill.        *)
KillLineEnd_PastEnd(t, o) ==
    IF o >= Len(t) THEN {o + 1}
    ELSE IF t[o + 1] = NL THEN {o + 1}
    ELSE LineEnd(t, o)

(* Where kill-line stops: after an end of line that is under the cursor,   *)
(* or else before the next one.                                            *)
KillLineEnd(t, o) ==
    IF o >= Len(t) THEN {Len(t)}
    ELSE IF t[o + 1] = NL THEN {o + 1}
    ELSE LineEnd(t, o)

(* kill is 0 to copy the region, 1 to kill it, 2 to kill the line.         *)
do_kill_region(w, kill) ==
    /\ Issue("do_kill_region")
    /\ \/ Refused /\ UNCHANGED yank
       \/ /\ ~readonly
          /\ \E m \in IF kill = 2 THEN KillLineEnd(b.text, b.offsets[w])
                                  ELSE {b.offsets["mark"]} :
               LET o   == b.offsets[w]
                   p1  == IF m > o THEN o ELSE m
                   p2  == IF m > o THEN m ELSE o
                   len == p2 - p1
               IN  IF len > 0 /\ p2 > Len(b.text)
                   THEN b' = Overrun(b) /\ UNCHANGED yank
                   ELSE /\ yank' = Extract(b.text, p1, len)
                        /\ b' = IF kill = 0 THEN b
                                ELSE SetOffset(eb_delete(b, p1, len), w, p1)
    /\ UNCHANGED <<readonly, insert, disk>>

do_yank(w) ==
    /\ Issue("do_yank")
    /\ \/ Refused
       \/ /\ ~readonly
          /\ Room(Len(yank))
          /\ LET e == eb_insert_buffer(b, b.offsets[w], yank)
             IN  b' = SetOffset(e, w, e.offsets[w] + Len(yank))
    /\ UNCHANGED <<readonly, insert, yank, disk>>

do_undo(w) ==
    /\ Issue("do_undo")
    /\ \A p \in Pointer : b.offsets[p] <= MaxOffset
    /\ LET k == UndoIndex(b, last_undo)
       IN  b' = IF Len(b.log) = 0 \/ k = 0 THEN b ELSE UndoEntry(b, w, k)
    /\ UNCHANGED <<readonly, insert, yank, disk>>

do_toggle_read_only ==
    /\ Issue("do_toggle_read_only")
    /\ readonly' = ~readonly
    /\ UNCHANGED <<b, insert, yank, disk>>

(* save-buffer: nothing to do unless the buffer is modified.               *)
do_save ==
    /\ Issue("do_save")
    /\ IF b.modified THEN b' = log_reset(b) /\ disk' = b.text
                     ELSE UNCHANGED <<b, disk>>
    /\ UNCHANGED <<readonly, insert, yank>>

(* The save fails (a full disk, say) after some of the text was written:   *)
(* the buffer stays as it was.                                             *)
do_save_fails ==
    /\ Issue("do_save_fails")
    /\ b.modified
    /\ \E n \in 0..(Len(b.text) - 1) : disk' = Extract(b.text, 0, n)
    /\ UNCHANGED <<b, readonly, insert, yank>>

(* The ends of what may be deleted in the line that o is on.               *)
RestOfLine(t, o) == {q \in o..Len(t) : \A i \in (o + 1)..q : t[i] # NL}

(* tty_emulate: a process writes to the terminal that the buffer shows, at *)
(* its own cursor: a character or a blank is inserted, or a line at the    *)
(* end of the text; a character of the line is overwritten; some of the    *)
(* line, or all that is left of it, is deleted.  This is no command, so    *)
(* last_cmd_func does not change.                                          *)
ProcessOutput(o) ==
    /\ "process_output" \in Commands
    /\ ~b.overrun
    /\ \/ /\ Room(1)
          /\ \E c \in Byte : /\ c = NL => o = Len(b.text)
                            /\ b' = eb_insert(b, o, <<c>>)
       \/ /\ o < Len(b.text) /\ b.text[o + 1] # NL
          /\ \E c \in Byte \ {NL} : b' = eb_write(b, o, <<c>>)
       \/ \E q \in RestOfLine(b.text, o) : b' = eb_delete(b, o, q - o)
    /\ UNCHANGED <<readonly, insert, yank, last_undo, disk>>

Crashed == b.overrun /\ UNCHANGED vars

Next ==
    \/ \E w \in Window :
         \/ Move(w)
         \/ \E c \in Byte : do_char(w, c)
         \/ do_insert(w)
         \/ do_open_line(w)
         \/ do_return(w)
         \/ do_delete_char(w)
         \/ do_backspace(w)
         \/ do_delete_word(w)
         \/ do_transpose_char(w)
         \/ do_set_mark(w)
         \/ do_exchange_point_and_mark(w)
         \/ \E kill \in 0..2 : do_kill_region(w, kill)
         \/ do_yank(w)
         \/ do_undo(w)
    \/ do_toggle_read_only
    \/ do_save
    \/ do_save_fails
    \/ \E o \in 0..Len(b.text) : ProcessOutput(o)
    \/ Crashed

Spec == Init /\ [][Next]_vars

---------------------------------------------------------------------------
(* Properties.                                                             *)

(* Type correctness, which bounds the log as eb_addlog (buffer.c) does: it *)
(* holds fewer than NB_LOGS_MAX entries, and log_current is one of them.   *)
TypeOK ==
    /\ b \in Buffer
    /\ b.log_current <= Len(b.log)
    /\ Len(b.log) < NbLogsMax
    /\ b.save_log
    /\ readonly \in BOOLEAN
    /\ insert \in [Window -> BOOLEAN]
    /\ yank \in Seq(Byte)
    /\ last_undo \in BOOLEAN
    /\ disk \in Seq(Byte)

(* What reverting entry lb in the text t yields.                           *)
Revert(lb, t) ==
    IF lb.op = LOGOP_INSERT THEN DeleteText(t, lb.offset, lb.size)
    ELSE IF lb.op = LOGOP_DELETE THEN InsertText(t, lb.offset, lb.data)
    ELSE WriteText(t, lb.offset, lb.data)

(* The text just after the operation that entry i of e.log records.        *)
TextAfter(e, i) == IF i < Len(e.log) THEN e.log[i + 1].before ELSE e.text

(* Reverting entry i in the text that followed it stays inside that text,  *)
(* and yields the text that preceded it.                                   *)
EntrySound(e, i) ==
    LET lb == e.log[i]
    IN  /\ lb.offset + (IF lb.op = LOGOP_DELETE THEN 0 ELSE lb.size)
             <= Len(TextAfter(e, i))
        /\ Revert(lb, TextAfter(e, i)) = lb.before

(* What do_undo relies on (buffer.c, eb_addlog and do_undo): whatever was  *)
(* edited, undone, undone again or pushed out of a full log, every entry   *)
(* of the log can be reverted.                                             *)
LogSound == \A i \in 1..Len(b.log) : EntrySound(b, i)

(* While undo follows undo, the text is the one that preceded the entry    *)
(* that the last undo reverted, so the next one reverts its neighbour      *)
(* (buffer.c, do_undo: log_current).                                       *)
ChainSound ==
    last_undo /\ b.log_current > 1 => b.text = b.log[b.log_current].before

(* A buffer shown as unmodified has the contents of its file, also after   *)
(* undo restored the modified flag from the log (buffer.c, do_undo:        *)
(* was_modified; qe.c, do_save trusts the flag).                           *)
CleanMeansSaved == ~b.modified => b.text = disk

(* No offset that the callbacks maintain is outside of the text, whichever *)
(* window edited it (buffer.c, eb_offset_callback).                        *)
OffsetsInRange == \A p \in Pointer : b.offsets[p] <= Len(b.text)

(* No command reaches bytes outside of the text (buffer.c: 0 <= offset <=  *)
(* total_size is required by eb_insert and eb_delete).                     *)
NoOverrun == ~b.overrun

Prefix(t, n) == Extract(t, 0, n)
Suffix(t, n) == Extract(t, n, Len(t) - n)

(* Offset o2 in text t2 designates the place that o designates in t: what  *)
(* precedes or what follows is untouched, or characters were overwritten   *)
(* in place, or the place was in a part that was deleted and only that     *)
(* part is gone.                                                           *)
SamePlace(t, o, t2, o2) ==
    \/ Prefix(t, o) = Prefix(t2, o2)
    \/ Suffix(t, o) = Suffix(t2, o2)
    \/ Len(t) = Len(t2) /\ o = o2
    \/ \E lo \in 0..o, hi \in o..Len(t) :
          Prefix(t, lo) = Prefix(t2, o2) /\ Suffix(t, hi) = Suffix(t2, o2)

(* When a window edits the text, the mark and the offset of every other    *)
(* window move with it (qe.h: mark is "moved with text").                  *)
MovedWithText ==
    [][b.text # b'.text =>
         \E w \in Window : \A p \in Pointer \ {w} :
            SamePlace(b.text, b.offsets[p], b'.text, b'.offsets[p])]_vars
================================================================================
