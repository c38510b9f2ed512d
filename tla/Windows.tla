-------------------------------- MODULE Windows --------------------------------
(***************************************************************************)
(* Buffers, windows, popups and the minibuffer (qe.c, buffer.c, bufed.c,   *)
(* list.c): which window shows which buffer in which mode, what the        *)
(* windows cover of the screen, and the pointers that are kept while a     *)
(* question or a popup is open.                                            *)
(*                                                                         *)
(* A pointer to a window or a buffer that was freed is Gone.  An operator  *)
(* maps the state of the editor to the state after a function of the code. *)
(* Text, offsets and borders of windows are left out, and so is the order  *)
(* of what is displayed, and that a list of buffers is modified when it is *)
(* filled.                                                                 *)
(***************************************************************************)
EXTENDS Integers, FiniteSets, FiniteSetsExt

CONSTANTS MaxWins, MaxBufs, \* bounds: windows and buffers at a time
          MaxTiled,        \* bound: windows besides popups and the minibuffer
          MaxLists,        \* bound: lists of buffers, which are never freed
          MaxItems,        \* bound: windows and buffers together, but for those
                           \* of questions and popups; two less on a small screen
          Files,           \* the files, which all have the base name Base
          Base,
          NoFile,          \* b->filename is empty
          FileMode,        \* FileMode[f]: the mode that is probed for a file
          Sizes,           \* widths and heights of the screen
          Slips,           \* what the user does in spite of the hazards
          None, Gone       \* a null pointer, and a dangling one

ASSUME NullAssumption == None # Gone /\ None \notin Nat /\ Gone \notin Nat
ASSUME FileAssumption == NoFile \notin Files /\ DOMAIN FileMode = Files

(* The modes; a window that shows no buffer yet has none.                  *)
Modes == {"none", "text", "bufed", "list", "less", "minibuffer"} \cup {FileMode[f] : f \in Files}

(* minibuffer_mode and less_mode are probed like text_mode, and after it;  *)
(* of modes that are equally likely, the first one is taken.               *)
ASSUME ModeAssumption == None \notin Modes /\ \A f \in Files : FileMode[f] \notin {"minibuffer", "less"}
ASSUME SizeAssumption == Sizes \subseteq Nat \ {0} /\ {MaxWins, MaxBufs, MaxTiled, MaxLists, MaxItems} \subseteq Nat
ASSUME SlipAssumption == Slips \subseteq {"leave", "hole", "relist", "describe", "repeat"}

(***************************************************************************)
(* ed.bufs      the buffers, with the name, the BF_SYSTEM flag, filename,  *)
(*              modified and the saved mode, and as history own and        *)
(*              written                                                    *)
(* ed.wins      the windows: buffer, mode, kind, items and place           *)
(*              Both are numbered as they were created.  A new one is the  *)
(*              first of its list: the order of first_buffer and of        *)
(*              first_window is that of falling numbers.                   *)
(* ed.active    active_window                                              *)
(* ed.cb        what minibuffer_cb and minibuffer_opaque hold: the command *)
(*              that waits for an argument, its window, and the buffer     *)
(* ed.saved, ed.popup_saved, ed.completion   minibuffer_saved_active,      *)
(*              popup_saved_active and completion_popup_window             *)
(* ed.fault     a null or a freed window was used                          *)
(***************************************************************************)
VARIABLE ed

---------------------------------------------------------------------------
(* The buffer list.                                                        *)

NoCb    == [cmd |-> "none", win |-> None, buf |-> None]
Name(base, n) == <<base, n>>
Scratch == Name("*scratch*", 1)

First(S)    == Max(S)
BufsOf(e)   == DOMAIN e.bufs
WinsOf(e)   == DOMAIN e.wins
Shows(e, b) == {w \in WinsOf(e) : e.wins[w].b = b}

(* f with a new item r at its number n.                                    *)
Fresh(f)     == Max(DOMAIN f \cup {0}) + 1
With(f, n, r) == [i \in DOMAIN f \cup {n} |-> IF i = n THEN r ELSE f[i]]

(* The first buffer of the list that is in S, or None.                     *)
FirstOf(S) == IF S = {} THEN None ELSE First(S)

(* Mutant: only the first buffer of the list is looked at.                 *)
eb_find_file_First(e, f) == FirstOf({b \in {FirstOf(BufsOf(e))} \cap BufsOf(e) : e.bufs[b].file = f})

eb_find(e, name)   == FirstOf({b \in BufsOf(e) : e.bufs[b].name = name})
eb_find_file(e, f) == FirstOf({b \in BufsOf(e) : e.bufs[b].file = f})

(* The mode in which a buffer is opened that visits no file.               *)
OpenMode(name, system) ==
    IF ~system THEN "text"
    ELSE CASE name[1] = "*bufed*"      -> "bufed"
           [] name[1] = "*Help*"       -> "less"
           [] name[1] = "*completion*" -> "list"
           [] name[1] = "*minibuf*"    -> "minibuffer"
           [] OTHER -> "text"

(* own and written are history: the mode in which it was opened, and       *)
(* whether it was given its file by write-file.                            *)
NewBuf(name, system) == [name |-> name, system |-> system, file |-> NoFile,
                         modified |-> FALSE, saved |-> None,
                         own |-> OpenMode(name, system), written |-> FALSE]

eb_new(e, name, system) == [e EXCEPT !.bufs = With(@, Fresh(@), NewBuf(name, system))]

(* Whatever points to a buffer that is freed dangles.                      *)
eb_free(e, b) ==
    [e EXCEPT !.bufs = [i \in DOMAIN @ \ {b} |-> @[i]],
              !.wins = [w \in DOMAIN @ |-> IF @[w].b = b THEN [@[w] EXCEPT !.b = Gone]
                                                         ELSE @[w]],
              !.cb.buf = IF @ = b THEN Gone ELSE @]

(* Mutant: it is not looked up whether the name is taken.                  *)
set_buffer_name_Taken(e, b, base) == [e EXCEPT !.bufs[b].name = Name(base, 1)]

(* The name with the first number that makes it unique; the buffer itself  *)
(* has no name meanwhile.                                                  *)
set_buffer_name(e, b, base) ==
    LET others == {e.bufs[i].name : i \in BufsOf(e) \ {b}}
        unused == {n \in 1..(Cardinality(BufsOf(e)) + 1) : Name(base, n) \notin others}
    IN  [e EXCEPT !.bufs[b].name = Name(base, Min(unused))]

set_filename(e, b, f) == set_buffer_name([e EXCEPT !.bufs[b].file = f], b, Base)

---------------------------------------------------------------------------
(* The window list.                                                        *)

(* What the list of buffers shows (build_bufed_list).                      *)
build_bufed_list(e) == {e.bufs[b].name : b \in {i \in BufsOf(e) : ~e.bufs[i].system}}

(* The items of a window are those that its mode found when it was opened. *)
InMode(e, r, mode) ==
    [r EXCEPT !.mode = mode, !.items = IF mode = "bufed" THEN build_bufed_list(e) ELSE {}]

do_set_mode(e, w, mode) == [e EXCEPT !.wins[w] = InMode(e, @, mode)]

(* Mutant: the mode of a buffer is lost with its last window.              *)
save_mode_Forgets(e, C) == e

(* The windows in C leave their buffers, in the order of the list.  The    *)
(* mode of a buffer that no other window shows is kept with it, when the   *)
(* last one leaves it.                                                     *)
save_mode(e, C) ==
    [e EXCEPT !.bufs = [b \in DOMAIN @ |->
        IF Shows(e, b) # {} /\ Shows(e, b) \subseteq C
        THEN [@[b] EXCEPT !.saved = e.wins[Min(Shows(e, b))].mode] ELSE @[b]]]

(* The mode that a window which is not in C or the buffer has kept, or     *)
(* text mode.                                                              *)
ModeFor(e, C, b) ==
    LET others == Shows(e, b) \ C
    IN  IF others # {} THEN e.wins[First(others)].mode
        ELSE IF e.bufs[b].saved # None THEN e.bufs[b].saved
        ELSE "text"

(* The windows in C are switched to b, in the order of the list.  Those    *)
(* after the first one find the mode that the first one has got.           *)
SwitchTo(e, C, b) ==
    LET e1 == save_mode(e, C)
    IN  [e1 EXCEPT !.wins = [w \in DOMAIN @ |->
            IF w \in C THEN InMode(e1, [@[w] EXCEPT !.b = b], ModeFor(e1, C, b)) ELSE @[w]]]

switch_to_buffer(e, w, b) == SwitchTo(e, {w}, b)

(* The new window is the first of the list.                                *)
NewWin(kind, x1, y1, x2, y2) ==
    [b |-> None, mode |-> "none", kind |-> kind, items |-> {},
     x1 |-> x1, y1 |-> y1, x2 |-> x2, y2 |-> y2]

edit_new(e, b, x1, y1, x2, y2, kind) ==
    LET w  == Fresh(e.wins)
        e1 == [e EXCEPT !.wins = With(@, w, NewWin(kind, x1, y1, x2, y2)),
                        !.active = IF @ = None THEN w ELSE @]
    IN  switch_to_buffer(e1, w, b)

(* The windows in C are closed, in the order of the list.  If the active   *)
(* one is, the first one becomes active.                                   *)
CloseAll(e, C) ==
    LET Forget(p) == IF p \in C THEN Gone ELSE p
        left      == WinsOf(e) \ C
    IN  [save_mode(e, C) EXCEPT
           !.wins = [w \in left |-> @[w]],
           !.active = IF @ \in C THEN FirstOf(left) ELSE @,
           !.saved = Forget(@), !.popup_saved = Forget(@),
           !.completion = Forget(@), !.cb.win = Forget(@)]

edit_close(e, w) == CloseAll(e, {w})

Fault(e, what) == [e EXCEPT !.fault = what]
Place(r, x1, y1, x2, y2) == [r EXCEPT !.x1 = x1, !.y1 = y1, !.x2 = x2, !.y2 = y2]

(* Mutant: the size of each window is scaled, not its coordinates.         *)
Scale_Sizes(r, e, w, h) ==
    LET x1 == (r.x1 * w) \div e.width
        y1 == (r.y1 * h) \div e.height
    IN  Place(r, x1, y1, x1 + ((r.x2 - r.x1) * w) \div e.width,
                         y1 + ((r.y2 - r.y1) * h) \div e.height)

(* "to ensure that no rounding errors are made, we resize the absolute     *)
(* coordinates"                                                            *)
Scale(r, e, w, h) ==
    Place(r, (r.x1 * w) \div e.width, (r.y1 * h) \div e.height,
             (r.x2 * w) \div e.width, (r.y2 * h) \div e.height)

(* The size of the screen has changed.                                     *)
do_refresh(e, w, h) ==
    [e EXCEPT !.wins = [i \in DOMAIN @ |->
                          IF @[i].kind = "minibuf" THEN Place(@[i], 0, h, w, h + 1)
                                                   ELSE Scale(@[i], e, w, h)],
              !.width = w, !.height = h]

Tiled(e)   == {w \in WinsOf(e) : e.wins[w].kind = "tiled"}
NotMini(e) == {w \in WinsOf(e) : e.wins[w].kind # "minibuf"}

(* A popup of n/d of the width and 3/4 of the height, in the middle.       *)
Popup(e, b, n, d) ==
    LET w == (e.width * n) \div d
        h == (e.height * 3) \div 4
        x == (e.width - w) \div 2
        y == (e.height - h) \div 2
    IN  edit_new(e, b, x, y, x + w, y + h, "popup")

---------------------------------------------------------------------------
(* The minibuffer.                                                         *)

(* The question is not asked while another one is open: the callback is    *)
(* told at once that it was aborted, and does nothing.                     *)
minibuffer_edit(e, cb) ==
    IF e.cb # NoCb THEN e
    ELSE LET b  == Fresh(e.bufs)
             w  == Fresh(e.wins)
             e1 == edit_new([eb_new(e, Name("*minibuf*", 1), TRUE) EXCEPT !.cb = cb], b,
                            0, e.height, e.width, e.height + 1, "minibuf")
         IN  [do_set_mode(e1, w, "minibuffer") EXCEPT
                !.saved = e1.active, !.active = w, !.completion = None]

RoomWin(e)    == Cardinality(WinsOf(e)) < MaxWins
Room(e, n)    == Cardinality(BufsOf(e)) + n <= MaxBufs
CanAsk(e)     == e.cb # NoCb \/ (RoomWin(e) /\ Room(e, 1))

(* More than one match: the list of completions is shown in a popup.       *)
do_completion(e, w) ==
    IF e.completion # None THEN e
    ELSE LET e1 == Popup(eb_new(e, Name("*completion*", 1), TRUE), Fresh(e.bufs), 3, 4)
         IN  [do_set_mode(e1, Fresh(e.wins), "list") EXCEPT !.completion = Fresh(e.wins)]

CloseWithBuffer(e, w) == eb_free(edit_close(e, w), e.wins[w].b)

close_completion(e) ==
    IF e.completion = None THEN e
    ELSE [CloseWithBuffer(e, e.completion) EXCEPT !.completion = None]

(* The state in which the callback is called, which the minibuffer has     *)
(* forgotten by then.                                                      *)
do_minibuffer_exit(e, w) ==
    LET e1 == CloseWithBuffer(close_completion(e), w)
    IN  [e1 EXCEPT !.active = e1.saved, !.saved = None, !.cb = NoCb]

show_popup(e, b) ==
    LET e1 == Popup(e, b, 4, 5)
        w  == Fresh(e.wins)
    IN  [do_set_mode(e1, w, "less") EXCEPT !.popup_saved = e1.active, !.active = w]

(* A saved pointer that is not used again is forgotten here and above.     *)
do_less_quit(e, w) ==
    [CloseWithBuffer([e EXCEPT !.active = e.popup_saved], w) EXCEPT !.popup_saved = None]

---------------------------------------------------------------------------
(* Commands on buffers: e is the state, w the window they are called for.  *)

do_switch_to_buffer(e, w, name) ==
    IF eb_find(e, name) # None THEN switch_to_buffer(e, w, eb_find(e, name))
    ELSE switch_to_buffer(eb_new(e, name, FALSE), w, Fresh(e.bufs))

(* Mutant: one window is switched to another buffer.                       *)
SwitchAll_One(e, b, b1) ==
    IF Shows(e, b) = {} THEN e ELSE switch_to_buffer(e, First(Shows(e, b)), b1)

(* Every window that shows b is switched to b1.                            *)
SwitchAll(e, b, b1) == SwitchTo(e, Shows(e, b), b1)

(* The first buffer left that is no system buffer, or a new one, takes the *)
(* place of b.                                                             *)
kill_buffer_noconfirm(e, b) ==
    LET b1 == FirstOf({i \in BufsOf(e) : i # b /\ ~e.bufs[i].system})
    IN  IF b1 # None THEN eb_free(SwitchAll(e, b, b1), b)
        ELSE eb_free(SwitchAll(eb_new(e, Scratch, FALSE), b, Fresh(e.bufs)), b)

do_kill_buffer(e, name) ==
    LET b == eb_find(e, name)
    IN  IF b = None THEN e
        ELSE IF e.bufs[b].modified /\ e.bufs[b].file # NoFile
        THEN minibuffer_edit(e, [cmd |-> "kill_buffer_confirm", win |-> None, buf |-> b])
        ELSE kill_buffer_noconfirm(e, b)

(* A file that no buffer visits gets a buffer, and the mode that probing   *)
(* it finds.                                                               *)
Visit(e, w, f) ==
    LET b  == Fresh(e.bufs)
        e1 == set_filename(eb_new(e, Name("", 1), FALSE), b, f)
        e2 == [e1 EXCEPT !.bufs[b].own = FileMode[f]]
    IN  IF eb_find_file(e, f) # None THEN switch_to_buffer(e, w, eb_find_file(e, f))
        ELSE do_set_mode(switch_to_buffer(e2, w, b), w, FileMode[f])

do_load1(e, w, f, kill) ==
    Visit(IF kill THEN do_kill_buffer(e, e.bufs[e.wins[w].b].name) ELSE e, w, f)

(* The buffer of the window is saved under any name, that of a file which  *)
(* another buffer visits too.  ok: save_buffer wrote it.                   *)
save_edit_cb(e, w, f, ok) ==
    LET b == e.wins[w].b
    IN  [set_filename(e, b, f) EXCEPT !.bufs[b].written = TRUE,
                                      !.bufs[b].modified = @ /\ ~ok]

---------------------------------------------------------------------------
(* Commands on windows.                                                    *)

(* The next window of the list, or the first one after the last.           *)
do_other_window(e, w) ==
    LET after == {v \in WinsOf(e) : v < w}
    IN  [e EXCEPT !.active = First(IF after = {} THEN WinsOf(e) ELSE after)]

(* r, which has a border in common with s, grown over s.                   *)
Cover(r, s) ==
    IF s.x1 = r.x2 /\ s.y1 = r.y1 /\ s.y2 = r.y2 THEN [r EXCEPT !.x2 = s.x2]
    ELSE IF s.x2 = r.x1 /\ s.y1 = r.y1 /\ s.y2 = r.y2 THEN [r EXCEPT !.x1 = s.x1]
    ELSE IF s.y1 = r.y2 /\ s.x1 = r.x1 /\ s.x2 = r.x2 THEN [r EXCEPT !.y2 = s.y2]
    ELSE [r EXCEPT !.y1 = s.y1]

Covers(r, s) ==
    \/ s.y1 = r.y1 /\ s.y2 = r.y2 /\ (s.x1 = r.x2 \/ s.x2 = r.x1)
    \/ s.x1 = r.x1 /\ s.x2 = r.x2 /\ (s.y1 = r.y2 \/ s.y2 = r.y1)

(* The first window that has a border in common with w grows over it.      *)
Neighbours(e, w) == {v \in NotMini(e) \ {w} : Covers(e.wins[v], e.wins[w])}
GrowOver(e, w)   == [e EXCEPT !.wins[First(Neighbours(e, w))] = Cover(@, e.wins[w])]

(* Without such a window, compute_client_area gets a null pointer.         *)
do_delete_window(e, w, force) ==
    IF ~force /\ (e.wins[w].kind = "minibuf" \/ Cardinality(NotMini(e)) <= 1) THEN e
    ELSE IF Neighbours(e, w) = {} THEN Fault(e, "null window")
    ELSE edit_close(GrowOver(e, w), w)

do_delete_other_windows(e, w) ==
    [CloseAll(e, NotMini(e) \ {w}) EXCEPT !.wins[w] = Place(@, 0, 0, e.width, e.height)]

(* The new window is to the right of w, or below it.                       *)
do_split_window(e, w, horiz) ==
    LET s == e.wins[w]
        x == (s.x1 + s.x2) \div 2
        y == (s.y1 + s.y2) \div 2
    IN  IF s.kind = "minibuf" THEN e
        ELSE IF horiz
        THEN [edit_new(e, s.b, x, s.y1, s.x2, s.y2, "tiled") EXCEPT !.wins[w].x2 = x]
        ELSE [edit_new(e, s.b, s.x1, y, s.x2, s.y2, "tiled") EXCEPT !.wins[w].y2 = y]

(* The windows under the new one are closed or cut.                        *)
Under(e, width) == {w \in NotMini(e) : e.wins[w].x2 <= width}

CutAt(e, width) ==
    [e EXCEPT !.wins = [w \in DOMAIN @ |->
        IF @[w].kind # "minibuf" /\ @[w].x1 < width THEN [@[w] EXCEPT !.x1 = width] ELSE @[w]]]

Uncovered(e, width) == CutAt(CloseAll(e, Under(e, width)), width)

insert_window_left(e, b, width) ==
    edit_new(Uncovered(e, width), b, 0, 0, width, e.height, "tiled")

(* The list is opened for the window w, whose buffer is looked up in it.   *)
do_list_buffers(e, w) ==
    LET width == e.width \div 4
        e1    == eb_new(e, Name("*bufed*", 1), TRUE)
        n     == Fresh(Uncovered(e1, width).wins)
        e2    == insert_window_left(e1, Fresh(e.bufs), width)
    IN  IF w \in Under(e, width) THEN Fault(e, "freed window")
        ELSE [do_set_mode(e2, n, "bufed") EXCEPT !.active = n]

find_window_right(e, w) == FirstOf({v \in NotMini(e) : e.wins[v].x1 = e.wins[w].x2})

(* item is the name at the cursor, which may be that of a buffer killed    *)
(* since the list was made.  A window without width is its own neighbour.  *)
bufed_select(e, w, item) ==
    LET right == find_window_right(e, w)
        e1    == do_delete_window(e, w, TRUE)
    IN  IF eb_find(e, item) = None \/ right = None THEN e
        ELSE IF e1.fault # "none" THEN e1
        ELSE IF right = w THEN Fault(e1, "freed window")
        ELSE switch_to_buffer(e1, right, eb_find(e, item))

(* The list is made again at once, even if the user is asked first.        *)
bufed_kill_buffer(e, w, item) ==
    LET e1 == do_kill_buffer(e, item)
    IN  [e1 EXCEPT !.wins[w].items = build_bufed_list(e1)]

(* new_help_buffer, do_help_for_help and do_describe_bindings: the buffer  *)
(* is shown if it is new, and describe-bindings frees it at once.          *)
do_help(e, describe) ==
    LET b  == Fresh(e.bufs)
        e1 == show_popup(eb_new(e, Name("*Help*", 1), TRUE), b)
    IN  IF eb_find(e, Name("*Help*", 1)) # None THEN e
        ELSE IF describe THEN eb_free(e1, b) ELSE e1

---------------------------------------------------------------------------
(* Addresses are arbitrary: between commands, windows and buffers are      *)
(* numbered from 1 on, in the same order.                                  *)
Rank(S, p)     == IF p \in S THEN Cardinality({q \in S : q <= p}) ELSE p
Ranks(S)       == {Rank(S, p) : p \in S}
Compacted(f)   == [n \in Ranks(DOMAIN f) |-> f[CHOOSE p \in DOMAIN f : Rank(DOMAIN f, p) = n]]

Renumbered(e) ==
    LET W(p) == Rank(WinsOf(e), p)
        B(p) == Rank(BufsOf(e), p)
    IN  [e EXCEPT !.bufs = Compacted(@),
                  !.wins = Compacted([w \in DOMAIN @ |-> [@[w] EXCEPT !.b = B(e.wins[w].b)]]),
                  !.active = W(@), !.saved = W(@), !.popup_saved = W(@), !.completion = W(@),
                  !.cb = [@ EXCEPT !.win = W(e.cb.win), !.buf = B(e.cb.buf)]]

(* The state after a command, if it is within the bounds.  A buffer counts *)
(* once more when it is modified, and when it was given another file.      *)
Items(e)   == Cardinality(Tiled(e))
              + Cardinality({b \in BufsOf(e) : ~e.bufs[b].system \/ e.bufs[b].own = "bufed"})
              + Cardinality({b \in BufsOf(e) : e.bufs[b].modified})
              + Cardinality({b \in BufsOf(e) : e.bufs[b].written})
              + (IF e.width = Max(Sizes) THEN 0 ELSE 2)
Becomes(e) == Items(e) <= MaxItems /\ ed' = Renumbered(e)

(* Keys: each goes to the active window, whose mode and kind decide what   *)
(* it does.                                                                *)

Active    == ed.wins[ed.active]
Alive     == /\ ed.fault = "none" /\ ed.active \in WinsOf(ed)
             /\ \A w \in WinsOf(ed) : ed.wins[w].b # Gone

(* A command of the global key map.  The careful user gives none while a   *)
(* question or a popup is open.                                            *)
Global == Alive /\ (Active.kind = "tiled" \/ "leave" \in Slips)

OtherWindow == Global /\ Becomes(do_other_window(ed, ed.active))

(* n is the repeat count; parse_args looks at the window before each call. *)
DeleteWindow(n) ==
    /\ Global
    /\ n > 1 => "repeat" \in Slips
    /\ Neighbours(ed, ed.active) # {} \/ "hole" \in Slips
    /\ LET e == do_delete_window(ed, ed.active, FALSE)
       IN  Becomes(IF n > 1 /\ ed.active \notin WinsOf(e) THEN Fault(e, "freed window") ELSE e)

DeleteOtherWindows == Global /\ Becomes(do_delete_other_windows(ed, ed.active))

SplitWindow(horiz) ==
    /\ Global
    /\ Cardinality(Tiled(ed)) < MaxTiled /\ RoomWin(ed)
    /\ Becomes(do_split_window(ed, ed.active, horiz))

ListBuffers ==
    /\ Global
    /\ Cardinality(Tiled(ed)) < MaxTiled /\ RoomWin(ed) /\ Room(ed, 2)
    /\ Cardinality({b \in BufsOf(ed) : ed.bufs[b].own = "bufed"}) < MaxLists
    /\ ed.active \notin Under(ed, ed.width \div 4) \/ "relist" \in Slips
    /\ Becomes(do_list_buffers(ed, ed.active))

(* RET and F8 in the list of buffers.                                      *)
BufedSelect(item) ==
    /\ Alive /\ Active.mode = "bufed"
    /\ "hole" \in Slips \/ (Neighbours(ed, ed.active) # {} /\ Active.x1 < Active.x2)
    /\ Becomes(bufed_select(ed, ed.active, item))

BufedKill(item) ==
    /\ Alive /\ Active.mode = "bufed"
    /\ CanAsk(ed) /\ Room(ed, 1)
    /\ Becomes(bufed_kill_buffer(ed, ed.active, item))

Help(describe) ==
    /\ Global
    /\ RoomWin(ed) /\ Room(ed, 1)
    /\ describe => "describe" \in Slips
    /\ Becomes(do_help(ed, describe))

LessQuit == Alive /\ Active.mode = "less" /\ Becomes(do_less_quit(ed, ed.active))

(* A command asks for its argument (exec_command, parse_args).  Which one  *)
(* it was is decided when it gets it.                                      *)
Ask ==
    /\ Global
    /\ CanAsk(ed)
    /\ Becomes(minibuffer_edit(ed, [cmd |-> "argument", win |-> ed.active, buf |-> None]))

InMinibuffer == Alive /\ Active.mode = "minibuffer"

Completion ==
    /\ InMinibuffer
    /\ ed.cb.cmd # "kill_buffer_confirm"
    /\ ed.completion = None => RoomWin(ed) /\ Room(ed, 1)
    /\ Becomes(do_completion(ed, ed.active))

(* The minibuffer is left, and the command goes on in the state e, for the *)
(* window it was given to; c is what minibuffer_cb was.                    *)
Abort == InMinibuffer /\ Becomes(do_minibuffer_exit(ed, ed.active))

Resume(c, e, result) ==
    Becomes(IF c.win = Gone \/ c.buf = Gone THEN Fault(e, "freed window") ELSE result)

AnswerFile(f, alternate) ==
    /\ InMinibuffer
    /\ ed.cb.cmd = "argument"
    /\ \E e \in {do_minibuffer_exit(ed, ed.active)} :
         /\ Room(e, 2)
         /\ Resume(ed.cb, e, do_load1(e, ed.cb.win, f, alternate))

(* The buffers there are, and a new one.                                   *)
Names(e) == {e.bufs[b].name : b \in BufsOf(e)} \cup {Name(Base, 1)}

AnswerBuffer ==
    /\ InMinibuffer
    /\ ed.cb.cmd = "argument"
    /\ \E e \in {do_minibuffer_exit(ed, ed.active)} : \E name \in Names(e) :
         /\ Room(e, 2)
         /\ \/ Resume(ed.cb, e, do_switch_to_buffer(e, ed.cb.win, name))
            \/ Resume(ed.cb, e, do_kill_buffer(e, name))

AnswerYes ==
    /\ InMinibuffer
    /\ ed.cb.cmd = "kill_buffer_confirm"
    /\ \E e \in {do_minibuffer_exit(ed, ed.active)} :
         Resume(ed.cb, e, kill_buffer_noconfirm(e, ed.cb.buf))

(* write-file, and save-buffer of a buffer without a file name.            *)
AnswerWrite(f, ok) ==
    /\ InMinibuffer
    /\ ed.cb.cmd = "argument"
    /\ \E e \in {do_minibuffer_exit(ed, ed.active)} :
         Resume(ed.cb, e, save_edit_cb(e, ed.cb.win, f, ok))

(* A command edits the text or undoes the edits, or saves it under the     *)
(* name it has.                                                            *)
EditOrSave ==
    /\ Global
    /\ Active.b \in BufsOf(ed)
    /\ Becomes([ed EXCEPT !.bufs[Active.b].modified = ~@])

(* The terminal was resized; the next refresh follows it.                  *)
Resize(w, h) == Alive /\ <<w, h>> # <<ed.width, ed.height>> /\ Becomes(do_refresh(ed, w, h))


(* The editor starts with the scratch buffer in one window.                *)
Init ==
    \E w \in Sizes :
       ed = switch_to_buffer(
              [bufs |-> [b \in {1} |-> NewBuf(Scratch, FALSE)],
               wins |-> [n \in {1} |-> NewWin("tiled", 0, 0, w, w)],
               active |-> 1, cb |-> NoCb, saved |-> None, popup_saved |-> None,
               completion |-> None, width |-> w, height |-> w, fault |-> "none"], 1, 1)

Next ==
    \/ OtherWindow \/ DeleteOtherWindows \/ ListBuffers
    \/ \E n \in 1..2 : DeleteWindow(n)
    \/ \E horiz \in BOOLEAN : SplitWindow(horiz)
    \/ Alive /\ \E item \in Active.items : BufedSelect(item) \/ BufedKill(item)
    \/ \E describe \in BOOLEAN : Help(describe)
    \/ LessQuit
    \/ Ask \/ Completion \/ Abort \/ AnswerYes
    \/ \E f \in Files, alternate \in BOOLEAN : AnswerFile(f, alternate)
    \/ \E f \in Files, ok \in BOOLEAN : AnswerWrite(f, ok)
    \/ AnswerBuffer
    \/ EditOrSave
    \/ \E w \in Sizes : Resize(w, w)

Spec == Init /\ [][Next]_ed

---------------------------------------------------------------------------
(* Properties.                                                             *)

(* No freed or missing window or buffer is used: the active window, what   *)
(* the windows show, and what a question, a list of completions or a popup *)
(* will come back to when it is closed, are there (qe.c, edit_close,       *)
(* do_minibuffer_exit, do_less_quit and do_delete_window).                 *)
NoDangling ==
    /\ ed.fault = "none"
    /\ ed.active \in WinsOf(ed)
    /\ \A w \in WinsOf(ed) : ed.wins[w].b \in BufsOf(ed)
    /\ ed.cb # NoCb => /\ ed.saved \in WinsOf(ed)
                       /\ ed.cb.win \in WinsOf(ed) \cup {None}
                       /\ ed.cb.buf \in BufsOf(ed) \cup {None}
    /\ ed.completion \in WinsOf(ed) \cup {None}
    /\ (\E w \in WinsOf(ed) : ed.wins[w].mode = "less") => ed.popup_saved \in WinsOf(ed)

Inside(e, r) == /\ 0 <= r.x1 /\ r.x1 <= r.x2 /\ r.x2 <= e.width
                /\ 0 <= r.y1 /\ r.y1 <= r.y2 /\ r.y2 <= e.height
Has(r, x, y) == r.x1 <= x /\ x < r.x2 /\ r.y1 <= y /\ y < r.y2

(* Every cell of the screen is in one of the windows that are no popups,   *)
(* and in one only, however it was split, resized and merged; the          *)
(* minibuffer is below, and there is one for every question and none       *)
(* without (qe.c, do_split_window, do_delete_window, do_refresh,           *)
(* insert_window_left).                                                    *)
TilesScreen ==
    /\ \A w \in Tiled(ed) : Inside(ed, ed.wins[w])
    /\ \A x \in 0..(ed.width - 1), y \in 0..(ed.height - 1) :
          \E w \in Tiled(ed) : \A v \in Tiled(ed) : Has(ed.wins[v], x, y) <=> v = w
    /\ Cardinality({w \in WinsOf(ed) : ed.wins[w].kind = "minibuf"})
         = IF ed.cb = NoCb THEN 0 ELSE 1
    /\ ed.cb = NoCb => ed.completion = None

(* Buffers are found and killed by name: two that the list of buffers      *)
(* shows have different names, whether they got them with find-file,       *)
(* write-file or switch-to-buffer (buffer.c, set_buffer_name).  Find-file  *)
(* looks for a buffer that visits the file (qe.c, do_load1): two buffers   *)
(* visit one file only if one of them was given it by write-file, which    *)
(* does not look (qe.c, save_edit_cb).                                     *)
NamesUnique ==
    \A i, j \in BufsOf(ed) :
       i # j /\ ~ed.bufs[i].system /\ ~ed.bufs[j].system =>
          /\ ed.bufs[i].name # ed.bufs[j].name
          /\ \/ ed.bufs[i].file = NoFile \/ ed.bufs[i].file # ed.bufs[j].file
             \/ ed.bufs[i].written \/ ed.bufs[j].written

(* A window is in the mode in which its buffer was opened, however often   *)
(* and in whichever windows the buffer was shown, hidden and shown again,  *)
(* and whatever file it was written to (qe.c, switch_to_buffer).           *)
ModeKept == \A w \in WinsOf(ed) :
               ed.wins[w].b \in BufsOf(ed) => ed.wins[w].mode = ed.bufs[ed.wins[w].b].own
================================================================================
