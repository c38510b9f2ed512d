-------------------------------- MODULE Terminal --------------------------------
(***************************************************************************)
(* The terminal in a shell buffer (shell.c): what the output of a process  *)
(* does to the text, to the buffer of colors that is kept next to it, to   *)
(* the cursor of the terminal and to that of the window, while the user    *)
(* edits the same buffer and undoes edits and output in it.                *)
(*                                                                         *)
(* The charset is the single byte one.  The digits of a parameter of an    *)
(* escape sequence are read in one step.                                   *)
(***************************************************************************)
EXTENDS Integers, Sequences, SequencesExt, FiniteSets

CONSTANTS Char,        \* the bytes of the text: NL, Space and others
          NL, Space,
          DefColor,    \* s->def_color
          Colors,      \* the values of s->color
          ColorOf,     \* ColorOf[v]: the color that parameter v selects
          Values,      \* the parameters of escape sequences
          Message,     \* what is written when the process ends
          MaxParams,   \* MAX_ESC_PARAMS
          YSize,       \* TTY_YSIZE
          MaxLen,      \* bound: longest text
          MaxUndo      \* bound: bytes that undo puts back

ASSUME CharAssumption  == {NL, Space} \subseteq Char /\ Message \in Seq(Char)
ASSUME ColorAssumption == /\ DefColor \in Colors /\ Values \subseteq Nat \ {0}
                          /\ DOMAIN ColorOf \subseteq Values
                          /\ \A v \in DOMAIN ColorOf : ColorOf[v] \in Colors
ASSUME SizeAssumption  == /\ {MaxParams, YSize, MaxLen, MaxUndo} \subseteq Nat
                          /\ MaxParams > 1 /\ YSize > 0

VARIABLES b,            \* the buffers and the offsets registered with them
          state,        \* TTYState
          params,       \* esc_params
          nb,           \* nb_esc_params
          interactive,  \* keys of the window go to the process
          running       \* the process has not ended

vars == <<b, state, params, nb, interactive, running>>

NoParams == [i \in 0..(MaxParams - 1) |-> 0]

---------------------------------------------------------------------------
(* The buffer: b.text, the color of each of its bytes in b.colors, the     *)
(* current color, the cursor of the terminal and the offset of the window. *)
(* b.twice is history: the bytes of which undo told the callbacks twice    *)
(* that they were inserted.                                                *)

Inserted(t, o, d) ==
    [i \in 1..(Len(t) + Len(d)) |-> IF i <= o THEN t[i]
                                    ELSE IF i <= o + Len(d) THEN d[i - o]
                                    ELSE t[i - Len(d)]]
Deleted(t, o, n) ==
    [i \in 1..(Len(t) - n) |-> IF i <= o THEN t[i] ELSE t[i + n]]
Overwritten(t, o, d) ==
    [i \in 1..Len(t) |-> IF i \in (o + 1)..(o + Len(d)) THEN d[i - o] ELSE t[i]]
Repeat(x, n) == [i \in 1..n |-> x]

AfterInsert(p, o, n) == IF p > o THEN p + n ELSE p
AfterDelete(p, o, n) == IF p <= o THEN p ELSE IF p - n < o THEN o ELSE p - n

(* Mutant: deletions are forgotten.                                        *)
shell_color_callback_NoDelete(e, op, o, n) ==
    CASE op = "INSERT" -> Inserted(e.colors, o, Repeat(e.color, n))
      [] op = "WRITE"  -> Overwritten(e.colors, o, Repeat(e.color, n))
      [] op = "DELETE" -> e.colors

(* The colors after an operation on the text.                              *)
shell_color_callback(e, op, o, n) ==
    CASE op = "INSERT" -> Inserted(e.colors, o, Repeat(e.color, n))
      [] op = "WRITE"  -> Overwritten(e.colors, o, Repeat(e.color, n))
      [] op = "DELETE" -> Deleted(e.colors, o, n)

eb_insert(e, o, d) ==
    [e EXCEPT !.text = Inserted(@, o, d),
              !.colors = shell_color_callback(e, "INSERT", o, Len(d)),
              !.cur_offset = AfterInsert(@, o, Len(d)),
              !.offset = AfterInsert(@, o, Len(d))]

eb_delete(e, o, n) ==
    [e EXCEPT !.text = Deleted(@, o, n),
              !.colors = shell_color_callback(e, "DELETE", o, n),
              !.cur_offset = AfterDelete(@, o, n),
              !.offset = AfterDelete(@, o, n)]

eb_write(e, o, d) ==
    [e EXCEPT !.text = Overwritten(@, o, d),
              !.colors = shell_color_callback(e, "WRITE", o, Len(d))]

(* eb_nextc and eb_prevc: there is a line end at both ends of the text.    *)
NextIsNL(t, o) == o >= Len(t) \/ t[o + 1] = NL
PrevIsNL(t, o) == o <= 0 \/ t[o] = NL

(* The beginning and the end of the line of o, as the loops find them.     *)
LineStart(t, o) == CHOOSE p \in 0..o : /\ PrevIsNL(t, p)
                                       /\ \A q \in (p + 1)..o : ~PrevIsNL(t, q)
LineEnd(t, o)   == CHOOSE p \in o..Len(t) : /\ NextIsNL(t, p)
                                            /\ \A q \in o..(p - 1) : ~NextIsNL(t, q)

---------------------------------------------------------------------------
(* tty_emulate, by the state and the byte.                                 *)

(* The cursor of a window that shows the terminal follows it.              *)
tty_update_cursor(e, follows) ==
    IF follows THEN [e EXCEPT !.offset = e.cur_offset] ELSE e

(* The end of tty_emulate.  It is not followed from a cursor outside of    *)
(* the text, where eb_insert, eb_delete and eb_write must not be called.   *)
Emulated(e) ==
    /\ running
    /\ b.cur_offset <= Len(b.text)
    /\ Len(e.text) <= MaxLen
    /\ b' = tty_update_cursor(e, interactive)
    /\ UNCHANGED <<interactive, running>>

InState(st) == state = st
Stay        == UNCHANGED <<state, params, nb>>

Backspace ==
    /\ InState("NORM") /\ Stay
    /\ Emulated([b EXCEPT !.cur_offset = IF PrevIsNL(b.text, @) THEN @ ELSE @ - 1])

(* To the beginning of the next line, which is added if there is none.     *)
LineFeed ==
    /\ InState("NORM") /\ Stay
    /\ LET end == LineEnd(b.text, b.cur_offset)
           e   == IF end = Len(b.text) THEN eb_insert(b, end, <<NL>>) ELSE b
       IN  Emulated([e EXCEPT !.cur_offset = end + 1])

CarriageReturn ==
    /\ InState("NORM") /\ Stay
    /\ Emulated([b EXCEPT !.cur_offset = LineStart(b.text, @)])

Escape ==
    /\ InState("NORM")
    /\ state' = "ESC" /\ UNCHANGED <<params, nb>>
    /\ Emulated(b)

(* A character overwrites the one at the cursor, but not a line end.       *)
WriteChar(c) ==
    /\ InState("NORM") /\ Stay
    /\ LET o == b.cur_offset
           e == IF NextIsNL(b.text, o) THEN eb_insert(b, o, <<c>>)
                                       ELSE eb_write(b, o, <<c>>)
       IN  Emulated([e EXCEPT !.cur_offset = o + 1])

Bracket ==
    /\ InState("ESC")
    /\ state' = "CSI" /\ params' = NoParams /\ nb' = 0
    /\ Emulated(b)

NoBracket ==
    /\ InState("ESC")
    /\ state' = "NORM" /\ UNCHANGED <<params, nb>>
    /\ Emulated(b)

(* The digits of a parameter; those that do not fit are dropped.           *)
Digits(v) ==
    /\ InState("CSI")
    /\ nb < MaxParams => params[nb] = 0
    /\ params' = IF nb < MaxParams THEN [params EXCEPT ![nb] = v] ELSE params
    /\ UNCHANGED <<state, nb>>
    /\ Emulated(b)

Semicolon ==
    /\ InState("CSI")
    /\ nb <= MaxParams
    /\ nb' = nb + 1 /\ UNCHANGED <<state, params>>
    /\ Emulated(b)

(* A byte that ends an escape sequence, and changes the buffer to e.  The  *)
(* parameters are not read again before the next sequence resets them: the *)
(* model forgets them here.                                                *)
Final(e) ==
    /\ InState("CSI")
    /\ state' = "NORM" /\ params' = NoParams /\ nb' = 0
    /\ Emulated(e)

TotalLines(t) == Cardinality({i \in 1..Len(t) : t[i] = NL})

(* Where line y begins (eb_goto_pos).                                      *)
GotoLine(t, y) ==
    CHOOSE o \in 0..Len(t) : PrevIsNL(t, o) /\ TotalLines(SubSeq(t, 1, o)) = y

(* To column x of line y of the screen: lines are added at the end of the  *)
(* text and spaces at the end of the line.                                 *)
tty_gotoxy(e, x, y) ==
    LET total == TotalLines(e.text)
        line  == (IF total > YSize THEN total - YSize ELSE 0) + y
        e1    == IF line < total THEN e
                 ELSE eb_insert(e, Len(e.text), Repeat(NL, line - total + 1))
        start == GotoLine(e1.text, line)
        end   == LineEnd(e1.text, start)
        e2    == IF start + x <= end THEN e1
                 ELSE eb_insert(e1, end, Repeat(Space, start + x - end))
    IN  [e2 EXCEPT !.cur_offset = IF start + x <= end THEN start + x ELSE end]

AtLeast1(n) == IF n <= 0 THEN 1 ELSE n

(* H *)
GotoXY ==
    LET y == params[0] - 1
        x == params[1] - 1
    IN  Final(tty_gotoxy(b, IF x < 0 THEN 0 ELSE x,
                IF y < 0 THEN 0 ELSE IF y >= YSize THEN YSize - 1 ELSE y))

(* K *)
ClearToEol ==
    Final(eb_delete(b, b.cur_offset, LineEnd(b.text, b.cur_offset) - b.cur_offset))

(* Mutant: characters are deleted beyond the end of the line.              *)
DeleteChars_Joins ==
    LET n    == AtLeast1(params[0])
        left == Len(b.text) - b.cur_offset
    IN  Final(eb_delete(b, b.cur_offset, IF n > left THEN left ELSE n))

(* P *)
DeleteChars ==
    LET n    == AtLeast1(params[0])
        left == LineEnd(b.text, b.cur_offset) - b.cur_offset
    IN  Final(eb_delete(b, b.cur_offset, IF n > left THEN left ELSE n))

(* @ *)
InsertChars == Final(eb_insert(b, b.cur_offset, Repeat(Space, AtLeast1(params[0]))))

(* The color after parameter v.                                            *)
tty_csi_m(color, v) == IF v = 0 THEN DefColor
                       ELSE IF v \in DOMAIN ColorOf THEN ColorOf[v]
                       ELSE color

(* m: every parameter that was given; those beyond the array are read from *)
(* the fields behind it, and may select any color.                         *)
SetColor ==
    \E c \in Colors :
       /\ nb + 1 <= MaxParams =>
            c = FoldLeft(tty_csi_m, b.color, [i \in 1..(nb + 1) |-> params[i - 1]])
       /\ Final([b EXCEPT !.color = c])

(* n, which is answered without a look at the buffer, and any other byte.  *)
OtherFinal == Final(b)

---------------------------------------------------------------------------
(* What happens to the buffer besides.                                     *)

do_shell_toggle_input ==
    /\ interactive' = ~interactive
    /\ b' = tty_update_cursor(b, ~interactive)
    /\ UNCHANGED <<state, params, nb, running>>

(* The user edits at the cursor of the window, which is in the text, or    *)
(* moves it.  In an interactive window most keys go to the process, but    *)
(* yank, kill and other motions do not.                                    *)
UserEdit ==
    /\ b.offset <= Len(b.text)
    /\ \/ \E c \in Char : /\ Len(b.text) < MaxLen
                          /\ b' = [eb_insert(b, b.offset, <<c>>) EXCEPT
                                     !.offset = b.offset + 1]
       \/ \E c \in Char \ {NL} : /\ ~NextIsNL(b.text, b.offset)
                                 /\ b' = [eb_write(b, b.offset, <<c>>) EXCEPT
                                            !.offset = b.offset + 1]
       \/ b.offset < Len(b.text) /\ b' = eb_delete(b, b.offset, 1)
       \/ b.offset > 0 /\ b' = eb_delete(b, b.offset - 1, 1)
       \/ \E o \in 0..Len(b.text) : b' = [b EXCEPT !.offset = o]
    /\ UNCHANGED <<state, params, nb, interactive, running>>

(* The texts that the log can hold.                                        *)
Logged == UNION {[1..n -> Char] : n \in 1..MaxUndo}

(* An insertion, by the user or by the process, is undone.                 *)
UndoInsert(o, n) == [eb_delete(b, o, n) EXCEPT !.offset = o]

(* An overwritten text is put back: it is deleted, inserted and announced  *)
(* as written.                                                             *)
UndoWrite(o, d) ==
    LET e == eb_insert(eb_delete(b, o, Len(d)), o, d)
    IN  [e EXCEPT !.colors = shell_color_callback(e, "WRITE", o, Len(d)),
                  !.offset = o + Len(d)]

(* A deleted text is put back: the callbacks are run by the insertion and  *)
(* once more when it is logged.                                            *)
UndoDelete(o, d) ==
    LET e == eb_insert(b, o, d)
    IN  [e EXCEPT !.colors = shell_color_callback(e, "INSERT", o, Len(d)),
                  !.cur_offset = AfterInsert(@, o, Len(d)),
                  !.offset = o + Len(d),
                  !.twice = @ + Len(d)]

(* Any entry of the log that fits the text; EditBuffer models which one it *)
(* is.                                                                     *)
do_undo ==
    /\ \/ \E o \in 0..Len(b.text), n \in 1..Len(b.text) :
             o + n <= Len(b.text) /\ b' = UndoInsert(o, n)
       \/ \E o \in 0..Len(b.text), d \in Logged :
             o + Len(d) <= Len(b.text) /\ b' = UndoWrite(o, d)
       \/ \E o \in 0..Len(b.text), d \in Logged :
             /\ Len(b.text) + Len(d) <= MaxLen
             /\ b.twice + Len(d) <= MaxUndo
             /\ b' = UndoDelete(o, d)
    /\ UNCHANGED <<state, params, nb, interactive, running>>

(* The process has ended: a message at the end of the text.                *)
shell_pid_cb ==
    /\ running
    /\ running' = FALSE
    /\ interactive' = FALSE
    /\ b' = eb_insert(b, Len(b.text), Message)
    /\ UNCHANGED <<state, params, nb>>

Init ==
    /\ b = [text |-> << >>, colors |-> << >>, color |-> DefColor,
            cur_offset |-> 0, offset |-> 0, twice |-> 0]
    /\ state = "NORM"
    /\ params = NoParams
    /\ nb = 0
    /\ interactive = TRUE
    /\ running = TRUE

(* A byte that the process has written.                                    *)
Output ==
    \/ Backspace \/ LineFeed \/ CarriageReturn \/ Escape
    \/ \E c \in Char \ {NL} : WriteChar(c)
    \/ Bracket \/ NoBracket
    \/ \E v \in Values : Digits(v)
    \/ Semicolon
    \/ GotoXY \/ ClearToEol \/ DeleteChars \/ InsertChars \/ SetColor \/ OtherFinal

Next == Output \/ do_shell_toggle_input \/ UserEdit \/ do_undo \/ shell_pid_cb

Spec == Init /\ [][Next]_vars

---------------------------------------------------------------------------
(* Properties.                                                             *)

(* There is one color for every byte of the text, whoever edits it and     *)
(* whatever is undone, but for one more for every byte of a deletion that  *)
(* was undone (buffer.c, do_undo runs the callbacks twice then); as long   *)
(* as that has not happened, both cursors are in the text (shell.c,        *)
(* shell_color_callback and tty_emulate).                                  *)
ColorsInSync ==
    /\ Len(b.colors) = Len(b.text) + b.twice
    /\ b.twice = 0 => /\ b.cur_offset \in 0..Len(b.text)
                      /\ b.offset \in 0..Len(b.text)

(* Line i of the text, the part after the last line end included.          *)
LineText(t, i) ==
    LET start == GotoLine(t, i)
    IN  SubSeq(t, start + 1, LineEnd(t, start))

(* Output only changes the line of the cursor: all other lines stay where  *)
(* they are, or get spaces at their end (shell.c, tty_emulate).            *)
LinesKept ==
    [][Output =>
         \A i \in 0..TotalLines(b.text) :
            i # TotalLines(SubSeq(b.text, 1, b.cur_offset)) =>
               /\ i <= TotalLines(b'.text)
               /\ LET old == LineText(b.text, i)
                      new == LineText(b'.text, i)
                  IN  /\ IsPrefix(old, new)
                      /\ \A k \in (Len(old) + 1)..Len(new) : new[k] = Space]_vars

================================================================================
