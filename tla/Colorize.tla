-------------------------------- MODULE Colorize --------------------------------
(***************************************************************************)
(* Colorization and indentation in the C and Python modes (qe.c, clang.c,  *)
(* pylang.c).                                                              *)
(*                                                                         *)
(* The colorizer is an automaton that reads a line and knows of the lines  *)
(* before it only the state it was in at the end of the previous one: in a *)
(* comment, a string, a directive that continues, a disabled block.  Each  *)
(* window caches these states and cuts the cache back, when it is next     *)
(* used, to the lowest offset edited meanwhile.  The indentation reads the *)
(* colored lines above, to skip what is not code, and edits the buffer     *)
(* that the windows cache states of.                                       *)
(*                                                                         *)
(* A text is a sequence of lexemes, which take one column each: "x" a word *)
(* or another character without a meaning of its own, "bs" a backslash,    *)
(* "sq" and "dq" the quotes, "open", "close" and "rest" the three comment  *)
(* signs, and the directives "if0" (#if 0), "endif" (also #else, #elif),   *)
(* "el" (another that begins with #el) and "hash" (any other; in Python    *)
(* all four begin a comment).                                              *)
(***************************************************************************)
EXTENDS Integers, Sequences, FiniteSets

CONSTANTS Windows,                \* the windows that show the buffer
          Edits,                  \* the texts that may be loaded and, as a
                                  \* bound, how many edits follow
          Typed,                  \* the lexemes that may be inserted
          indent_size, tab_size,  \* options of the windows
          indent_tabs_mode,
          MAX_STACK_SIZE,         \* open brackets the indentation follows
          MAX_BUF_SIZE,           \* length of a line that it reads,
          COLORED_MAX_LINE_SIZE   \* and that the display reads

Lexeme == {"x", ";", ":", "=", "{", "}", "(", ")", " ", "tab", "NL", "bs", "sq", "dq",
           "open", "close", "rest", "if0", "endif", "el", "hash"}

ASSUME TextAssumption == /\ DOMAIN Edits \subseteq Seq(Lexeme) /\ Typed \subseteq Lexeme
                         /\ \A t \in DOMAIN Edits : Edits[t] \in Nat
ASSUME SizeAssumption ==
    /\ {indent_size, tab_size, MAX_STACK_SIZE, MAX_BUF_SIZE, COLORED_MAX_LINE_SIZE}
           \subseteq Nat \ {0}
    /\ indent_tabs_mode \in BOOLEAN

VARIABLES text,   \* the text of the buffer
          win,    \* the colorizer and the cache of each window
          left    \* the edits left

vars == <<text, win, left>>

MAXINT == 1000000

Least(m, n)    == IF m < n THEN m ELSE n
Directives     == {"if0", "endif", "el", "hash"}
Blanks         == {" ", "tab"}
Drop(s, n)     == SubSeq(s, n + 1, Len(s))

---------------------------------------------------------------------------
(* Lines and offsets, both counted from zero.                              *)

LineAt(t, o)     == Cardinality({i \in 1..o : t[i] = "NL"})
LastLine(t)      == LineAt(t, Len(t))
LineOffset(t, l) == CHOOSE o \in 0..Len(t) : (o = 0 \/ t[o] = "NL") /\ LineAt(t, o) = l
LineEnd(t, o)    == CHOOSE e \in o..Len(t) : /\ e = Len(t) \/ t[e + 1] = "NL"
                                            /\ \A i \in (o + 1)..e : t[i] # "NL"
LineFrom(t, o)   == SubSeq(t, o + 1, LineEnd(t, o))

(* The part of line l that fits in size characters.                        *)
Cut(line, size)         == SubSeq(line, 1, Least(size, Len(line)))
eb_get_line(t, l, size) == Cut(LineFrom(t, LineOffset(t, l)), size)

---------------------------------------------------------------------------
(* The colorizers.  They give the state at the end of the line and, for    *)
(* each lexeme, whether it is colored as a comment, a string, or a         *)
(* directive, or is code.  A lexeme is read in state st; st is "skip" with *)
(* the color of the rest of the line, where nothing else is looked at.     *)

Quoted(st)     == st \in {"STRING", "STRING_Q"}
Quote(st)      == IF st = "STRING" THEN "dq" ELSE "sq"
StringOf(c)    == IF c = "dq" THEN "STRING" ELSE "STRING_Q"

(* In a string a backslash hides the next character.                       *)
parse_string(st, esc, c) ==
    CASE esc           -> [st |-> st, esc |-> FALSE, color |-> "string"]
      [] ~esc /\ c = "bs" -> [st |-> st, esc |-> TRUE, color |-> "string"]
      [] OTHER         -> [st |-> IF c = Quote(st) THEN "0" ELSE st, esc |-> FALSE,
                           color |-> "string"]

Read(st, color) == [st |-> st, esc |-> FALSE, color |-> color]

(* One lexeme, in C and in Python.                                         *)
ReadC(st, esc, c) ==
    CASE st = "SkipComment"    -> Read(st, "comment")
      [] st = "IF0"            -> Read(st, "comment")
      [] st = "PREPROCESS"     -> Read(st, "preprocess")
      [] st = "COMMENT"        -> Read(IF c = "close" THEN "0" ELSE st, "comment")
      [] Quoted(st)            -> parse_string(st, esc, c)
      [] st = "0" /\ c = "open" -> Read("COMMENT", "comment")
      [] st = "0" /\ c = "rest" -> Read("SkipComment", "comment")
      [] st = "0" /\ c = "if0"  -> Read("IF0", "comment")
      [] st = "0" /\ c \in Directives \ {"if0"} -> Read("PREPROCESS", "preprocess")
      [] st = "0" /\ c \in {"sq", "dq"} -> Read(StringOf(c), "string")
      [] OTHER                 -> Read(st, "code")

ReadPy(st, esc, c) ==
    CASE st = "SkipComment"    -> Read(st, "comment")
      [] Quoted(st)            -> parse_string(st, esc, c)
      [] st = "0" /\ c \in Directives   -> Read("SkipComment", "comment")
      [] st = "0" /\ c \in {"sq", "dq"} -> Read(StringOf(c), "string")
      [] OTHER                 -> Read(st, "code")

ReadLexeme(func, st, esc, c) == IF func = "C" THEN ReadC(st, esc, c) ELSE ReadPy(st, esc, c)

RECURSIVE ReadLine(_, _, _, _), ReadNext(_, _, _, _)
ReadLine(func, line, r, colors) ==
    IF Len(colors) = Len(line)
    THEN [state |-> r.st, colors |-> colors]
    ELSE ReadNext(func, line, ReadLexeme(func, r.st, r.esc, line[Len(colors) + 1]), colors)
ReadNext(func, line, r, colors) == ReadLine(func, line, r, Append(colors, r.color))

(* A disabled block is left by a line that begins with the right directive,*)
(* of which only the letters after the first character are looked at: of   *)
(* an empty line these are behind its end, in memory that may hold the     *)
(* directive (junk). Once a line of directives has been read into it, its  *)
(* letters are colored, which makes them different ones.                   *)
parse_disabled_block(line, junk) ==
    CASE line = <<>>           -> IF junk THEN "SkipComment" ELSE "IF0"
      [] Head(line) = "endif"  -> "SkipComment"
      [] Head(line) = "el"     -> "PREPROCESS"
      [] OTHER                 -> "IF0"

(* A directive goes on in the next line if a backslash ends this one.      *)
EndOfLine(line, st) ==
    CASE st = "SkipComment"    -> "0"
      [] st = "PREPROCESS"     -> IF line # <<>> /\ line[Len(line)] = "bs" THEN st ELSE "0"
      [] OTHER                 -> st

AtEnd(line, r) == [r EXCEPT !.state = EndOfLine(line, @)]

c_colorize_line(line, state, junk) ==
    AtEnd(line, ReadLine("C", line,
                         Read(IF state = "IF0" THEN parse_disabled_block(line, junk) ELSE state, ""),
                         <<>>))

py_colorize_line(line, state) == AtEnd(line, ReadLine("Python", line, Read(state, ""), <<>>))

colorize_func(func, line, state, junk) ==
    IF func = "C" THEN c_colorize_line(line, state, junk) ELSE py_colorize_line(line, state)

---------------------------------------------------------------------------
(* The cache of a window: w.states[l + 1] is the state at the start of     *)
(* line l, for the lines below colorize_nb_valid_lines.                    *)

NoCache(func) == [func |-> func, states |-> <<>>, colorize_max_valid_offset |-> MAXINT]

(* The states that remain valid after the edits since the last use.        *)
ValidStates(t, w) ==
    IF w.colorize_max_valid_offset = MAXINT
    THEN w.states
    ELSE SubSeq(w.states, 1, Least(Len(w.states), LineAt(t, w.colorize_max_valid_offset) + 1))

(* The states up to the one of line l, from those that are valid.          *)
RECURSIVE Propagated(_, _, _, _, _, _)
Propagated(t, func, states, l, size, junk) ==
    IF Len(states) > l THEN states
    ELSE Propagated(t, func,
                    Append(states, colorize_func(func, eb_get_line(t, Len(states) - 1, size),
                                                 states[Len(states)], junk).state),
                    l, size, FALSE)

(* The line, its colors, and the window with the new cache.                *)
Colored(w, line, states, l, r) ==
    [line |-> line, colors |-> r.colors,
     win  |-> [w EXCEPT !.states = Append(SubSeq(states, 1, l + 1), r.state),
                        !.colorize_max_valid_offset = MAXINT]]
ColoredLine(w, line, states, l, junk) ==
    Colored(w, line, states, l, colorize_func(w.func, line, states[l + 1], junk))
ColoredFrom(t, w, l, size, valid, junk) ==
    ColoredLine(w, eb_get_line(t, l, size), Propagated(t, w.func, valid, l, size, junk), l,
                junk /\ l < Len(valid))

InitialState(states) == IF states = <<>> THEN <<"0">> ELSE states

get_colorized_line(t, w, l, size, junk) ==
    ColoredFrom(t, w, l, size - 1, InitialState(ValidStates(t, w)), junk)

(* Mutant: the last offset edited counts, not the lowest.                  *)
colorize_callback_Last(ws, o) ==
    [v \in Windows |-> IF ws[v].func = "none" THEN ws[v]
                       ELSE [ws[v] EXCEPT !.colorize_max_valid_offset = o]]

(* Every edit of the buffer calls this for the windows with a colorizer.   *)
colorize_callback(ws, o) ==
    [v \in Windows |-> IF ws[v].func = "none" THEN ws[v]
                       ELSE [ws[v] EXCEPT !.colorize_max_valid_offset = Least(o, @)]]

set_colorize_func(func) == NoCache(func)

---------------------------------------------------------------------------
(* The indentation of a line: the column where it must begin follows from  *)
(* the code before it, read backwards.  a is what was found so far.        *)

(* Mutant: strings and comments are looked at too.                         *)
IsCode_All(color) == TRUE
IsCode(color) == color = "code"

(* The column after a lexeme.                                              *)
Column(pos, c) == IF c = "tab" THEN pos + tab_size - (pos % tab_size) ELSE pos + 1

RECURSIVE find_pos(_, _, _)
find_pos(line, n, pos) == IF n = 0 THEN pos ELSE find_pos(Tail(line), n - 1, Column(pos, Head(line)))

RECURSIVE find_indent1(_, _)
find_indent1(line, pos) ==
    IF line = <<>> \/ Head(line) \notin Blanks THEN pos
    ELSE find_indent1(Tail(line), Column(pos, Head(line)))

Start == [state |-> "NORM", at |-> "code", stack |-> 0, lpos |-> -1, eoi |-> FALSE, pos |-> 0]

End(a, pos)      == [a EXCEPT !.at = "end", !.pos = pos]
Instruction(a)   == a.lpos + IF a.eoi THEN 0 ELSE indent_size

(* The end of an instruction: of one whose start is known, or the first.   *)
check_instr(a) == IF a.lpos >= 0 THEN End(a, Instruction(a)) ELSE [a EXCEPT !.eoi = TRUE]

Push(a) == IF a.stack >= MAX_STACK_SIZE THEN [a EXCEPT !.at = "return"]
                                        ELSE [a EXCEPT !.stack = @ + 1]

(* Lexeme i of a line whose first word is in column pos1.  No keyword gets *)
(* the special treatment meant for if, for and while: the test looks for a *)
(* color that was masked out before.                                       *)
Back(a, line, i, pos1) ==
    LET c == line[i]
    IN  CASE a.state = "FIND_EQ" /\ c = "="  -> End(a, a.lpos)
          [] a.state = "FIND_EQ" /\ c = ";"  -> check_instr(a)
          [] a.state = "FIND_EQ" /\ c \notin {"=", ";"} -> a
          [] a.state = "NORM" /\ c = "}"     -> IF Push(a).at = "return" THEN Push(a)
                                                ELSE check_instr(Push(a))
          [] a.state = "NORM" /\ c = "{"     ->
                 IF a.stack # 0  THEN check_instr([a EXCEPT !.stack = @ - 1])
                 ELSE IF a.lpos = -1
                      THEN End([a EXCEPT !.eoi = TRUE], pos1 + indent_size)
                      ELSE [a EXCEPT !.state = "FIND_EQ"]
          [] a.state = "NORM" /\ c = ")"     -> Push(a)
          [] a.state = "NORM" /\ c = "("     ->
                 IF a.stack # 0 THEN [a EXCEPT !.stack = @ - 1]
                                ELSE End(a, find_pos(line, i - 1, 0) + 1)
          [] a.state = "NORM" /\ c \in Blanks -> a
          [] a.state = "NORM" /\ c = ";"     -> IF a.stack = 0 THEN check_instr(a) ELSE a
          [] a.state = "NORM" /\ c = ":"     -> [a EXCEPT !.at = "prev_line"]
          [] OTHER                           -> IF a.stack = 0 THEN [a EXCEPT !.lpos = pos1] ELSE a

RECURSIVE BackLine(_, _, _, _, _)
BackLine(a, line, colors, i, pos1) ==
    IF i = 0 \/ a.at # "code" THEN a
    ELSE BackLine(IF IsCode(colors[i]) THEN Back(a, line, i, pos1) ELSE a,
                  line, colors, i - 1, pos1)

(* The lines above line l, each through the cache of the window.           *)
RECURSIVE Above(_, _, _, _, _), AboveLine(_, _, _, _)
Above(t, w, a, l, junk) ==
    IF l = 0 \/ a.at \in {"end", "return"} THEN [a |-> a, win |-> w]
    ELSE AboveLine(t, get_colorized_line(t, w, l - 1, MAX_BUF_SIZE - 1, junk), a, l - 1)
AboveLine(t, r, a, l) ==
    Above(t, r.win, BackLine([a EXCEPT !.at = "code"], r.line, r.colors, Len(r.line),
                             find_indent1(r.line, 0)), l, FALSE)

(* Special cases that depend on the line itself.                           *)
Found(a) == IF a.stack = 0 /\ a.pos = 0 /\ a.lpos >= 0 THEN Instruction(a) ELSE a.pos

RECURSIVE Adjusted(_, _, _, _, _)
Adjusted(pos, eoi, line, colors, i) ==
    IF i > Len(line) THEN pos
    ELSE LET code == colors[i] = "code"
         IN  CASE colors[i] = "preprocess"                          -> 0
               [] code /\ line[i] \in {"}", ":"}                    ->
                      IF pos < indent_size THEN 0 ELSE pos - indent_size
               [] code /\ line[i] = "{" /\ pos = indent_size /\ ~eoi -> 0
               [] OTHER -> Adjusted(pos, eoi, line, colors, i + 1)

insert_spaces(pos) ==
    LET tabs == IF indent_tabs_mode THEN pos \div tab_size ELSE 0
    IN  [i \in 1..(pos - tabs * (tab_size - 1)) |-> IF i <= tabs THEN "tab" ELSE " "]

(* Line l begins after n blanks, which are replaced.                       *)
RECURSIVE Leading(_)
Leading(line) == IF line = <<>> \/ Head(line) \notin Blanks THEN 0 ELSE 1 + Leading(Tail(line))

Reindented(t, ws, l, spaces) ==
    LET o == LineOffset(t, l)
        n == Leading(LineFrom(t, o))
    IN  [text |-> SubSeq(t, 1, o) \o spaces \o Drop(t, o + n),
         win  |-> IF n = 0 /\ spaces = <<>> THEN ws ELSE colorize_callback(ws, o)]

(* The text and the windows after the indentation of line l in window v.   *)
IndentWith(t, ws, v, l, r, cur) ==
    Reindented(t, [ws EXCEPT ![v] = cur.win], l,
               insert_spaces(Adjusted(Found(r.a), r.a.eoi, cur.line, cur.colors, 1)))

AfterScan(t, ws, v, l, r) ==
    IF r.a.at = "return" THEN [text |-> t, win |-> [ws EXCEPT ![v] = r.win]]
    ELSE IndentWith(t, ws, v, l, r,
                    get_colorized_line(t, r.win, l, MAX_BUF_SIZE - 1, FALSE))

do_c_indent(t, ws, v, l, junk) == AfterScan(t, ws, v, l, Above(t, ws[v], Start, l, junk))

(* The same code as in C, on the colors of Python.                         *)
do_py_indent(t, ws, v, l, junk) == AfterScan(t, ws, v, l, Above(t, ws[v], Start, l, junk))

Indented(t, ws, v, l, junk) ==
    IF ws[v].func = "C" THEN do_c_indent(t, ws, v, l, junk) ELSE do_py_indent(t, ws, v, l, junk)

RECURSIVE RegionIndented(_, _, _, _, _, _), RegionFrom(_, _, _, _)
RegionIndented(t, ws, v, l, last, junk) ==
    IF l > last THEN [text |-> t, win |-> ws]
    ELSE RegionFrom(Indented(t, ws, v, l, junk), v, l + 1, last)
RegionFrom(r, v, l, last) == RegionIndented(r.text, r.win, v, l, last, FALSE)

---------------------------------------------------------------------------
(* Actions.                                                                *)

Insert(t, o, c)  == SubSeq(t, 1, o) \o <<c>> \o Drop(t, o)
Edit(r)          == /\ left > 0 /\ left' = left - 1
                    /\ text' = r.text /\ win' = r.win

Init == /\ text \in DOMAIN Edits
        /\ win = [v \in Windows |-> NoCache("none")]
        /\ left = Edits[text]

(* c_mode_init, py_mode_init, and text_mode_close when the mode is left.   *)
do_set_mode(v, func) ==
    /\ win[v].func # func
    /\ win' = [win EXCEPT ![v] = set_colorize_func(func)]
    /\ UNCHANGED <<text, left>>

(* The display of a line of a window with a colorizer.                     *)
text_display_line(v, l, junk) ==
    /\ win[v].func # "none"
    /\ win' = [win EXCEPT ![v] =
                  get_colorized_line(text, @, l, COLORED_MAX_LINE_SIZE, junk).win]
    /\ UNCHANGED <<text, left>>

eb_insert(o, c)  == Edit([text |-> Insert(text, o, c), win |-> colorize_callback(win, o)])
eb_delete(o, n)  == Edit([text |-> SubSeq(text, 1, o) \o Drop(text, o + n),
                          win  |-> colorize_callback(win, o)])

(* The commands of the modes: the key of a line, of a region, and keys     *)
(* that are inserted and indent the line.                                  *)
c_indent_command(v, l, junk)  == win[v].func = "C" /\ Edit(do_c_indent(text, win, v, l, junk))
py_indent_command(v, l, junk) == win[v].func = "Python" /\ Edit(do_py_indent(text, win, v, l, junk))

do_c_indent_region(v, l, last, junk) ==
    win[v].func = "C" /\ Edit(RegionIndented(text, win, v, l, last, junk))
do_py_indent_region(v, l, last, junk) ==
    win[v].func = "Python" /\ Edit(RegionIndented(text, win, v, l, last, junk))

Electric(v, o, c, junk) ==
    Edit(Indented(Insert(text, o, c), colorize_callback(win, o), v, LineAt(text, o), junk))
do_c_electric(v, o, c, junk) ==
    /\ win[v].func = "C" /\ c \in {";", ":", "{", "}"} /\ Electric(v, o, c, junk)
do_py_electric(v, o, c, junk) ==
    /\ win[v].func = "Python" /\ c = ":" /\ Electric(v, o, c, junk)

LineNumbers == 0..LastLine(text)

(* What may be behind a line in memory matters in disabled blocks only.    *)
Leftovers   == {FALSE, "if0" \in {text[i] : i \in 1..Len(text)}}

Next ==
    \/ \E v \in Windows, func \in {"none", "C", "Python"} : do_set_mode(v, func)
    \/ \E o \in 0..Len(text), c \in Typed : eb_insert(o, c)
    \/ \E o \in 0..(Len(text) - 1) : \E n \in 1..(Len(text) - o) : eb_delete(o, n)
    \/ \E v \in Windows, l \in LineNumbers, junk \in Leftovers :
          \/ text_display_line(v, l, junk)
          \/ c_indent_command(v, l, junk)
          \/ py_indent_command(v, l, junk)
          \/ \E last \in l..LastLine(text) :
                \/ do_c_indent_region(v, l, last, junk)
                \/ do_py_indent_region(v, l, last, junk)
    \/ \E v \in Windows, o \in 0..Len(text), c \in Typed, junk \in Leftovers :
          \/ do_c_electric(v, o, c, junk)
          \/ do_py_electric(v, o, c, junk)

Spec == Init /\ [][Next]_vars

---------------------------------------------------------------------------
(* Properties.                                                             *)

(* The states in which a colorizer that reads the text from its start can  *)
(* be at the start of each line: one, but for empty lines in disabled      *)
(* blocks.                                                                 *)
RECURSIVE StatesOf(_, _, _)
StatesOf(t, func, seq) ==
    IF Len(seq) = LastLine(t) + 2 THEN seq
    ELSE LET line == eb_get_line(t, Len(seq) - 1, COLORED_MAX_LINE_SIZE - 1)
         IN  StatesOf(t, func,
                 Append(seq, {colorize_func(func, line, s, junk).state :
                                  s \in seq[Len(seq)], junk \in BOOLEAN}))

Within(valid, seq)       == \A i \in 1..Len(valid) : valid[i] \in seq[i]
CachedWithin(func, seq)  == \A v \in Windows :
                                win[v].func = func => Within(ValidStates(text, win[v]), seq)

(* Whatever was displayed, edited and indented, in whichever order and in  *)
(* whichever window, the state that get_colorized_line has cached for a    *)
(* line is one that the automaton reaches on the present text.             *)
LineStateCorrect ==
    \A func \in {win[v].func : v \in Windows} \ {"none"} :
        CachedWithin(func, StatesOf(text, func, <<{"0"}>>))

(* The code of line l, without comments, strings and blanks.               *)
CodeIn(line, colors) ==
    LET pairs == SelectSeq([i \in 1..Len(line) |-> <<line[i], colors[i]>>],
                           LAMBDA p : p[2] = "code" /\ p[1] \notin Blanks)
    IN  [i \in 1..Len(pairs) |-> pairs[i][1]]
CodeOf(line, state) == CodeIn(line, c_colorize_line(line, state, FALSE).colors)
Codes(t, seq) ==
    [l \in 0..LastLine(t) |-> CodeOf(LineFrom(t, LineOffset(t, l)), CHOOSE s \in seq[l + 1] : TRUE)]

Depth(codes, l) ==
      Cardinality({k \in 0..(l - 1) : codes[k] = <<"x", "{">>})
    - Cardinality({k \in 0..(l - 1) : codes[k] = <<"}">>})

(* The code consists of instructions and of blocks that are opened behind  *)
(* a word and closed on a line of their own.                               *)
Plain(codes) ==
    \A l \in DOMAIN codes :
        /\ codes[l] \in {<<>>, <<"x", ";">>, <<"x", "{">>, <<"}">>}
        /\ Depth(codes, l) \in (IF codes[l] = <<"}">> THEN 1 ELSE 0)..MAX_STACK_SIZE

IndentedByDepth(codes, t) ==
    \A l \in DOMAIN codes :
        find_indent1(LineFrom(t, LineOffset(t, l)), 0) =
            indent_size * (Depth(codes, l) - IF codes[l] = <<"}">> THEN 1 ELSE 0)

Nested(codes) ==
    Plain(codes) =>
        \A v \in Windows : win[v].func = "C" =>
            IndentedByDepth(codes, RegionIndented(text, win, v, 0, LastLine(text), FALSE).text)

(* do_c_indent_region over plain code puts every line at the depth of its  *)
(* block, with whatever braces in comments and strings, in whichever state *)
(* the cache of the window was left, and while the indentation of one line *)
(* invalidates the states the next one needs.                              *)
NestingIndented ==
    (\A i \in 1..Len(text) : text[i] \notin Directives) =>
        Nested(Codes(text, StatesOf(text, "C", <<{"0"}>>)))
================================================================================
