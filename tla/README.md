# HOE in TLA+

HOE is an Emacs-like editor for the terminal, a descendant of QEmacs 0.3.3: about
15 700 lines of C, one process, one thread. Its difficulty is not parallelism but
state that many parties share and keep up to date by convention: pages behind a
cache, offsets moved by callbacks, an undo log that logs its own undos, commands
that go on after an answer arrives, and process output that edits a buffer between
two keys. This directory models those parts, checks them with TLC and proves what
matters most with TLAPS.

Run from this directory:

    tlc -workers 2 -config EditBuffer_undo.cfg MCEditBuffer
    tlapm EditBufferProofs.tla

`PROJECT.json` lists every run with its module and configuration, the theorems, the
source lines behind every definition, the hazards, and for each property a mutated
definition under which it fails.

## Inventory

| Component | Source | State | Operations |
|---|---|---|---|
| Page table of a buffer | `buffer.c` | pages (own bytes or a reference to a mapped file), `total_size`, the page found last, line/column/character counts per page | `eb_read`, `eb_write`, `eb_insert`, `eb_insert_buffer`, `eb_delete`, `eb_get_pos`, `eb_goto_pos`, `eb_goto_char`, `eb_get_char_offset`, loading and mapping |
| Undo log and callbacks | `buffer.c` | `log_buffer`, `log_current`, `save_log`, `modified`, registered callbacks | `eb_addlog`, `do_undo`, `log_reset`, `eb_offset_callback` |
| Editing commands | `qe.c`, `rect_operations.c` | offset of each window, mark, yank buffers, insert mode, `BF_READONLY`, `last_cmd_func` | self-insert, newline, deletions, kill, yank, transpose, undo, rectangles |
| Saving and quitting | `buffer.c`, `qe.c` | files, backups, `modified`, `QuitState` | `save_buffer`, save-buffer, write-file, the questions of `do_quit` |
| Buffer list, loading | `buffer.c`, `qe.c`, `bufed.c` | `first_buffer`, names, flags | `eb_new`, `eb_free`, find-file, kill-buffer, mode probing |
| Windows | `qe.c` | window list, active window, saved layouts | split, delete, popup, `switch_to_buffer` |
| Minibuffer and completion | `qe.c` | one global callback, history, the window to go back to | `minibuffer_edit`, `do_minibuffer_exit`, `do_completion` |
| Key dispatch and macros | `qe.c`, `qeconfig.h` | key prefix, repeat count, grab callback, macro being recorded or replayed | `qe_key_process`, `exec_command`, `parse_args`, macro commands |
| Search, query replace | `qe.c` | `ISearchState`, `QueryReplaceState` across keys | `eb_search`, `isearch_key`, `query_replace_key` |
| Event loop | `unix.c` | read/write handlers, children, timers, bottom halves | `url_block`, `set_*_handler`, `qe_add_timer`, `register_bottom_half` |
| Shell buffers | `shell.c` | process, its terminal, emulator state and cursor | `tty_emulate`, `shell_read_cb`, `shell_pid_cb`, `shell_close` |
| Colorization cache | `qe.c` | colorizer state per line, lowest line known to be stale | `get_colorized_line`, `colorize_callback` |
| Terminal | `tty.c` | input state machine, screen and its shadow | `tty_read_handler`, `term_flush` |
| Character sets | `charset.c` | decoder state | encoding and decoding |
| Text display | `qe.c`, `display.c` | `offset_top`, line shadow | layout, motion by screen line |
| Modes | `dired.c`, `list.c`, `cscope.c`, `hex.c`, `unihex.c`, `clang.c`, `pylang.c`, `patch-mode.c`, `latex-mode.c` | per mode | lists, queries, indentation, coloring of a line |
| Not core | `input.c`, `util.c`, `cutils.c`, `xml.c` (not compiled), `plugins/` | | input tables, strings, an example |

How they interact. A key (`tty.c`) is dispatched (`qe.c`) to a command, which edits
the buffer of the active window through `buffer.c`. Every edit goes through
`eb_addlog`, which runs the callbacks of the buffer: the offsets of all windows and
the mark, the colorization cache, the cursor of a shell. Undo replays the log through
the same functions, so the callbacks run then too. The event loop interleaves keys,
process output, ends of processes and timers; each handler runs to its end. Questions
(minibuffer, quit, query replace) return to the event loop and are continued by a
callback on state that was captured before.

What is hard, and makes each part correct:

* Pages: whatever is split, joined, shared or cached, the buffer is a sequence of
  bytes; no cache outlives what it was computed from; a mapped file is never written.
* Undo: every entry of the log can be reverted in the text it will be applied to, also
  after the log overflowed and after undos were undone; `modified` tells the truth.
* Offsets: every registered offset stays in the text and at its place in it.
* Saving: no moment without a complete version on disk; failures at any call are
  noticed; quitting loses nothing without consent and comes to an end.
* Windows, minibuffer, shells, event loop: nothing refers to what was freed; answers
  find the state that their question was about; windows tile the screen; what can be
  waited for happens.
* Keys: a key is what was typed, a command gets the argument typed for it, a macro does
  again what was done.
* Colors and indentation: a cache of automaton states is as good as reading from the
  start, whichever window edits.

## Modules

| Module | Models |
|---|---|
| `EditBuffer` | a buffer as text, offsets and undo log, and the commands on it |
| `EditBufferProofs` | type correctness, soundness of undo, and offsets, proved |
| `ByteBuffer` | abstract: two sequences of bytes |
| `PageTable` | the page table; implements `ByteBuffer` |
| `PageTableProofs` | what each operation does to the pages and their bytes; the refinement of `ByteBuffer`, proved |
| `SaveQuit` | saving call by call, and quitting |
| `SaveQuitProofs` | type correctness, recoverability, clean buffers, quitting, proved |
| `Search` | incremental search and query-replace, key by key |
| `SearchProofs` | matches, repeated searches and what is replaced, proved |
| `Shell` | processes in buffers, and the event loop that runs their handlers |
| `ShellProofs` | live handlers, process ids and the order of output, proved |
| `Terminal` | what output does to the text, colors and cursors of a shell buffer |
| `TerminalProofs` | colors and cursors stay with the text, proved |
| `Windows` | buffers, windows, popups, minibuffer, and the pointers between them |
| `WindowsProofs` | no dangling pointers, unique names, modes and tiling, proved |
| `KeyProcess` | from the bytes of the terminal to commands; macros |
| `KeyProcessProofs` | keys, arguments and replayed macros, proved |
| `Colorize` | the colorization cache, and coloring and indentation of C and Python |
| `MC*` | the instances that TLC checks |

### EditBuffer

`b` is the `EditBuffer`: its text, the integers that `eb_offset_callback` maintains
(the mark and one offset per window), the log and `log_current`. `eb_insert`,
`eb_delete`, `eb_write`, `eb_addlog` and `UndoEntry` (the body of `do_undo`) are
operators from buffer to buffer, named as in the code, so that a command that edits
more than once (transpose, an undone overwrite) is a composition of them; each command
is one action. `Issue` stands for what `exec_command` and `parse_args` do around a
command: they make it `last_cmd_func`, which is what decides whether undo goes on from
`log_current`. `ProcessOutput` is an edit by `tty_emulate`, at any place of the
text: characters and blanks that are inserted, lines added at the end, a character that
is overwritten, any part of the rest of a line that is deleted (escape sequences `K` and
`P`). It is no command and leaves `last_cmd_func` alone.

The code stores the log as bytes, with `log_current` one plus a byte offset; the model
stores entries and counts them. Each entry has a history field `before`, the text that
preceded the operation, so that "can be reverted" can be stated. An access outside of
the text sets `overrun`, after which nothing is said about the program any more. The
end of a word (`do_delete_word`) and cursor motions are left open: any place in the text.
The charset is the single byte one.

### PageTable and ByteBuffer

`b` and `other` are two buffers with their page tables, page caches and sizes; `file`
is a mapped file. A page is its bytes, whether it is a reference into the mapped file
and where to, and the counts with their valid flags. Operations keep the names of the
code. Loops over pages are written as sets of pages touched. `other` stands for any
buffer that text is copied to and inserted from (yank buffers, the log).
`ImplementsByteBuffer` says that, read off the pages, every operation does to the bytes
what `ByteBuffer` says.

### SaveQuit

Contents are version numbers. `save_buffer` is a small machine with one step per system
call (rename to the backup, open, write) with its error returns; `RenameFails`,
`WriteFails` and `Killed` say what may go wrong. `mapped` are the buffers whose pages
still refer to the file under its own name: truncating it makes them unreadable
(`BusError`). `quit_examine_buffers` is one round of the loop, `quit_key` one key,
`quit_confirm_cb` the last question. write-file is modelled for the name the buffer has.
The scan has a `QuitState` of its own each time, so `is` has its first value outside of
it. `kept`, `confirmed` and `failed` are history variables: `failed` has the buffers whose
last save had a call that failed, with the command that saved, until one succeeds. Files, `rename`, `open`, `write` and
signals are modelled from how the code uses them.

### Search

`is` is the `ISearchState`, `qr` the `QueryReplaceState`; one action is one key, that is
one call of `isearch_key` or `query_replace_key` with the display function at its end,
which is where the code searches. `eb_search` is stated as the set of offsets it tries
and the nearest of them that matches; `pending` says whether input is waiting when it
looks (once in `PollSize` offsets, 4096 in the code), which makes it give up. The loop
that replaces all occurrences is one action, as in the code. `qr` is kept until the next
command, with the text and offset at its start, so that the result can be compared with
`Replaced`, a definition of replacement from left to right that has no offsets in it.
Hexadecimal mode and charsets other than the single byte ones are left out. `Move` is
any motion of the cursor between commands.

### Shell

`shells` are the `ShellState`s that were allocated, `handlers` the read handlers by
descriptor, `pid_handlers` the list of handlers of children. One action is one call of a
handler, and `loop` says where `url_block` is: in `select`, calling the handlers of the
descriptors that were ready when select returned, collecting children, or in the loop of
`tty_write`. A key is the handler of descriptor 0, so that killing a shell happens inside
a round. Processes are external: they write, read and end at any step. Descriptors are
the first free ones and process ids are used again, which is what makes a handler that
was forgotten in a list dangerous: `shell_close` leaves the one of the process there, and
`NoDanglingCall` holds only because a new handler goes to the head of the list. A byte of
output is its number, so that order and owner can be told.

### Terminal

`b` is the text, the buffer of colors and the two cursors; one action is one byte in
`tty_emulate` (a number in an escape sequence is one step), an edit by the user, an undo,
the change between terminal and editing, or the end of the process. The user edits, moves
and undoes in an interactive window too: some keys go to the process there (`Shell` has
those), yank, kill, undo and other motions do not. An undo reverts any entry that fits the
text: `EditBuffer` models which one it is, and that process output between two undos can
make it one that does not fit. Undoing a deletion runs the callbacks twice, and so adds
each color twice and moves the cursor of the terminal twice; `b.twice` counts these bytes.
With the cursor moved out of the text in this way, what the emulator does next is
undefined, and the model does not follow it. Parameters beyond `MAX_ESC_PARAMS` are read
from the memory behind the array: any color may result. The answer to a status report
(`shell.c:431`) is a write to the process, left out here and in `Shell`.

### Windows

`ed` is the state of the editor: the buffers and windows, the active window, and what the
minibuffer, the completions and popups keep. `ed.bufs` and `ed.wins` are functions from
numbers: the lists of the code are linked at the head, so a new item gets the next number
and the order of a list is that of falling numbers. An operator
maps a state to the state after a function of the code, under its name; an action is a
key with the conditions under which its mode sends it there. A pointer to what was freed
is `Gone`, and using one, or a null window, sets `fault`. A command that reads an
argument is `Ask`, followed by an answer that continues it in the window it was given
for. Addresses do not matter, so what is left is numbered from 1 again after every
command (`Renumbered`), in the same order. Widths and heights are those of the code, in
cells, with its integer divisions; `TilesScreen` says of every cell that it is in exactly
one of the windows that are neither popups nor the minibuffer. `MaxWins` and `MaxBufs`
bound how many there are at a time.

A buffer also has two fields of history: the mode in which it was opened (`own`), which
`ModeKept` compares with the mode of its windows, and whether it was given its file by
write-file (`written`). write-file, and save-buffer of a buffer without a file, give the
buffer of the window any file and a name of its own, without looking for a buffer that
visits the file (`save_edit_cb`); the write may fail. So names are unique, and two buffers
visit one file only if one of them was written to it: that is what `NamesUnique` says.
Left out: `M-x` with the name of a mode, which changes the mode of one window only
(`qe.c:125`), and that filling a list of buffers sets its modified flag.

`Slips` are uses that the code does not survive, described below. The run has none of
them: the user answers or aborts a question, and closes a popup, before giving other
commands ("leave"), deletes only windows that a neighbour can cover ("hole"), and does
not open the list of buffers from a window it will cover ("relist").

### KeyProcess

`ed` is the `QEKeyContext` with the state of macros and, for keys, of the minibuffer;
`input` is the state of `tty_read_handler`, which reads one byte per action. The table of
bindings is built by registration, as in the code, with modes before global bindings.
Commands are names. Those about macros, quoted insert and describe-key do what the code
does. All others may affect the keys that follow in ways that depend on the text, the
buffers and the layout: other-window, find-file or a popup change the mode that keys are
looked up in; a search, a replacement or the end of the editor grab keys until some
condition holds. So a command of `Switching`, a key that was grabbed and the answer to a
question have any of the `Outcomes` (a mode, and who gets the next key), chosen when the
key is processed. The bottom half that replays a macro is one action per key. History
fields record the keys typed since the last command, what was called while a macro was
defined and replayed, and the effect that each key of the macro had while it was defined.
A replay whose keys have the same effects has to call the same commands
(`ReplayFaithful`); as soon as one has another effect (a search that ends earlier, say)
the code passes the keys that are left to whatever reads keys then, and nothing is
claimed. Left out: macros that are defined or called by name with `M-x`.

### Colorize

The text is a sequence of lexemes; each window has its colorizer, the cached states of
the first lines, and `colorize_max_valid_offset`. The two automata read lexemes and keep
the state bits of the code (comment, strings, continued directive, disabled block).
Indentation scans the lines above backward through `get_colorized_line`, with the stack
and the early ends of the code, and edits the text, which runs `colorize_callback` for
all windows. What lies behind an empty line in a disabled block was never written by it:
the model lets it end the block or not. In the scan backward that can only be so for the
line that the scan begins with: the array is used again, and a directive that was read
into it before has style bits in its letters, which then differ from those looked for. `Edits` are the texts that are loaded, with the
number of edits that follow.

## Runs

| Run | Result | Shows |
|---|---|---|
| `undo` | holds | `LogSound`, `ChainSound`, `CleanMeansSaved`, `TypeOK`: undo is sound with overflow, undone undos, compound commands and saves |
| `offsets` | holds | `OffsetsInRange`, `NoOverrun`, `MovedWithText`: two windows, process output, read only toggled, overwrite mode |
| `page_edit` | holds | refinement of `ByteBuffer`, `ReadCorrect`, `PositionsCorrect` (lines and columns) for insert, delete, write |
| `page_share` | holds | refinement, `TypeOK` (page sizes, total size, page cache), `MappedIntact`, `CharOffsetsInverse` for copy and paste between buffers |
| `search` | holds | `FoundIsMatch`, `RepeatAdvances`, `ReplacedInOrder`, `AllReplaced`, `TypeOK`: every sequence of keys in both commands, with input pending or not |
| `quit` | holds | `ExitLosesOnlyFailed`, `Recoverable`, `CleanIsOnDisk`, `QuitEnds`, `TypeOK`: any call may fail, the editor may be killed, two files share a backup name, one is mapped |
| `exit` | violated | `ExitSavesOrAsks`: a save that fails while quitting is ignored and the editor exits without a question |
| `shell` | holds | `NoDanglingCall`, `PidOwned`, `OutputInOrder`, `ExitReported`: two shells, process ids and descriptors used again |
| `terminal` | holds | `ColorsInSync`, `LinesKept`: escape sequences, edits by the user and undos in any order |
| `windows` | holds | `NoDangling`, `TilesScreen`, `NamesUnique`, `ModeKept`: windows, buffers, questions and popups |
| `keys` | holds | `KeyAsSent`, `ArgumentAsTyped`, `ReplayFaithful`, `MacrosEnd`: keys, arguments, quoted keys, a question, macros, and commands that change the mode or grab keys |
| `colorize` | holds | `LineStateCorrect`, `NestingIndented`: two windows, edits and indentation, comments, strings, directives, disabled blocks |

The run that is violated states what a message of the code says; the finding in
`PROJECT.json` quotes it. `quit` has the same failures: what is left of the promise is
that only buffers are lost whose own save failed (`ExitLosesOnlyFailed`).

Bounds. `NbLogsMax` is 4 (50 in the code): three entries, so that the log overflows
while a chain of undos is in its middle. Texts have up to 2 bytes over an ordinary byte
and an end of line: enough for an edit before, at and after every offset; the theorems
remove these bounds. `MaxOffset` stops undos once the doubled callbacks have moved an
offset beyond 3, which would go on without end. `MaxPageSize` is 2 (4096): with 4 or 5
bytes there are first, middle and last pages, pages that are full and pages that are
not, and characters in two pages. Insertions fit in a page or are larger than one.
`SearchLength` is 2 (80): a character and a match
that was passed, or two characters, and a string that is full at once; texts of 3 bytes
have overlapping matches, matches that differ in case and matches that are no words.
`MaxVersion` 2 and two buffers give a save, a failed save and another one. There is one
yank buffer in `PageTable`. Window symmetry is used in `offsets`, where nothing tells
windows apart, and in `colorize`. In `shell`, two shells, two process ids and two
descriptors are used again as soon as one is closed; a terminal holds 2 bytes, reads take
one, and processes write 2, so that output is left when a process ends. In `terminal`,
texts have up to 3 bytes and the screen 2 lines: text above the screen, lines and spaces
added by motions, and parameters beyond the array of 2; there is one color, since only
their number is checked and no code looks at one; undo puts back one byte at a time. In `windows`, up to 3 windows and
4 buffers on screens of 3 and 4 cells, whose quotients round in both directions;
`MaxItems` cuts off states with many windows and many buffers, modified buffers and
written buffers at the same time. In `keys`, there are two modes and twelve keys: a digit,
a sign, `C-u`, the keys of the macro commands, one key each for describe-key, a question,
quoted insert and a command with any effect, and keys of every form that terminals send.
Macros have up to 4 keys and commands up to 3, enough for `C-u 2` before a
command, a prefix left open at the end of a macro, a macro that leaves the minibuffer and
one whose keys are grabbed. `MaxPending` is 2: `C-u 2 C-x e` registers two replays, and
one that registers more than that stops there (`Overrun`).
In `colorize`, the files have a comment over two lines, a disabled block
with an empty line, blocks with braces in comments and strings, and a continued
directive; one or two edits, at any place of the text, by either window, and indentation
by either. `windows`, `shell`, `terminal` and `keys` never come to a deadlock, and
neither does `PageTable`; `EditBuffer` and `SaveQuit` stutter explicitly where the
program has ended; `colorize` stops when its edits are used up.

Fairness. In `quit`: the editor goes on with what it is doing (`SaveStep`,
`quit_examine_buffers`: it is a sequential program, nothing waits), and the user at some
time gives one of the answers. Killing it is not fair, so it may or may not happen. In
`shell`: `url_block` goes on (one thread, which waits only in `select`, with a timeout,
and for a full terminal), and a process that has input reads it at some time; that one
is an assumption on the processes, without which `tty_write` spins for ever. Writing and
ending are not fair. In `keys`: a replay goes on, because it is a loop in one call;
typing is not fair.

## Proofs

All for every value of the constants, from the named assumptions of the modules (the end
of line is a byte; the mark is no window; `NB_LOGS_MAX` is at least 2; the list of
buffers is not empty and has every buffer; bounds are natural numbers; those of `Windows`
and `KeyProcess` are named below).

* `TypeCorrect`: `TypeOK` of `EditBuffer`. Inductive as it stands; it needs that the
  operators keep a buffer well formed (`Typed`, `WellFormed`), also when undo turns the
  log off and on again.
* `UndoCorrect`, `UndoChainCorrect`, `CleanBufferSaved`: without overwrite mode, process
  output and failed saves, `LogSound`, `ChainSound` and `CleanMeansSaved` hold. Those are
  the three cases in which the code does otherwise (all described below). The invariant
  `UndoInv` adds to them what makes them inductive: an entry whose `was_modified` is
  clear was recorded on the text that is on disk (`Clean`), and that all windows are in
  insert mode. The argument: an edit appends an entry that `DeleteInserted` and
  `InsertDeleted` show to be revertible and leaves the others alone (`LogAdded`, also
  when the oldest one goes); an undo is such an edit whose result is the text `before`
  the entry undone (`Undone`), so the chain goes on.
* `OffsetsStayInRange`, `NeverOverrun`, `OffsetsMoveWithText`: without undo, newline and
  transpose (in which the code moves an offset twice, moves it in a read only buffer, and
  deletes past the end), and with process output, every offset stays in the text, no
  command reaches beyond it, and the offsets of other windows move with the text. The
  first two are only inductive together (`OffsetInv`): a command may not overrun because
  its own offset is in range, and offsets stay in range because nothing overruns.
* `PagesStaySound`, `MappingIntact`, `ReadsAreCorrect`, `PagesImplementBytes`: the
  invariant `PageInv` says of both buffers that pages are not empty and not too large,
  that pages of the mapped file have the bytes of the file, that `total_size` is the sum
  and that the page cache is right (`Valid`). `PageTableProofs` has one lemma per
  operation: it keeps `Valid`, and the bytes of the pages it yields (`Flatten`) are those
  that `ByteBuffer` says, by induction over the pages. So every step of `PageTable` is a
  step of `ByteBuffer`, or leaves the bytes alone (reading, counting, moving).
* `OffsetsStayInText`, `ShownIsMatch`, `RepeatGoesOn`, `ReplacesInOrder`, `ReplacesAll`:
  all properties of the run `search`. While a match is shown by query-replace, `Aligned`
  holds: the text before the match is what the original text up to some place p became
  with its first `nb_reps` occurrences replaced, and from there on the text is the
  original one from p on; and the occurrences are `nb_reps` and those from p on. A search
  passes bytes that are equal in both texts (`AlignedPass`), a replacement takes one
  occurrence off both (`AlignedReplace`), and when nothing is found the rest has no
  occurrence (`AlignedDone`). The loop after `!` ends because what is left to search
  becomes shorter in every round (`RedoStep`), so that as many rounds as there are bytes
  are enough, which is how the model bounds it. For incremental search the invariant is
  what the properties say; `SearchOffsetIs` says that a search goes on next to the last
  match passed.
* `HandlersLive`, `PidsStayOwned`, `OutputStaysInOrder`: all safety properties of the run
  `shell`, the first one where every terminal can be opened and no shell is killed in a
  round in which its descriptor is ready, the two slips described below. The invariant
  has to say which handlers of ended processes may be left in the list and that one of a
  live shell stands before them, that descriptors and process ids in use have one owner,
  and, for the order of output, that buffer, terminal and what is still to be written
  continue each other.
* `TerminalInSync`: `ColorsInSync`. Every operation of the emulator, of the user and of
  undo changes text and colors by the same number of characters and leaves both cursors in
  the text, except for the undo of a deletion, which adds the colors twice; the invariant
  adds the type of the parameters of an escape sequence.
* `SaveQuitType`: `TypeOK` of `SaveQuit`, with `ControlOK` (which steps of saving and
  scanning go with which `pc`).
* `SaveRecoverable`: `Recoverable`. `BackupFirst`: for a file whose own save has not
  failed, while it is missing or partial its backup has the version that was kept, and
  otherwise the file itself has it, so that another file may take the backup name.
* `CleanBuffersOnDisk`: `CleanIsOnDisk`, whatever fails. `CleanInv` adds that save-buffer
  and quitting only save modified buffers; write-file does not look, which is why the
  property leaves out its failures.
* `QuitSavesOrAsks`: `ExitLosesOnlyFailed`, whatever fails. `QuitInv`: every buffer the
  scan has passed is unmodified or its save failed, or `is.modified` is set.

* `NothingDangles`, `NamesStayUnique`, `ModesStayKept`, `ScreenStaysTiled`: all properties
  of the run `windows`, for a user who commits no slip (`Slips = {}`, as in the run; with
  a slip the code does dangle, see below). The assumptions are that the pointers `None`
  and `Gone` are no numbers, that `NoFile` is no file, that sizes of the screen are
  positive, and that no file is probed as minibuffer or popup (`ModeAssumption`: those
  modes are registered after text mode and claim no more than it does, and `probe_mode`
  takes a later mode only if it claims more, `qe.c:4635`). The invariant `Good` is
  `Sound` (types; what each window shows is there; modes are those the buffers were
  opened in, also of buffers that are hidden and have their mode saved; names are unique,
  and files but for those of write-file; the buffers of questions and popups are shown nowhere else), `Tiles`, and one of three
  phases: `Calm` (nothing is kept), `Reading` (a popup, and the window to go back to),
  `Asking` (a minibuffer, its command's window or buffer, the window to go back to,
  perhaps a list of completions). `Sound` is stated with an exception, a buffer or a
  window that is half built, because the operators of the code break and restore it
  inside of a command. Each operator has a lemma; each action takes a phase to a phase.
  `Renumbered` is shown to be a bijection that keeps the order, so that all of this is
  invariant under it. For tiling there is one lemma per change of the layout: windows
  move or are added above it (`TilesKept`, `TilesBesides`), one is cut in two
  (`TilesSplit`), one is joined to a neighbour with an edge in common (`TilesMerge`), the
  list of buffers takes the left of the screen (`TilesInsert`), and the screen is resized
  (`TilesScale`). The last one is where rounding matters: with `W` the old and `w` the new
  width, a border that was scaled lies at or before cell `c` exactly if the border lay at
  or before cell `((c+1)*W - 1) div w`, so that the windows that have a new cell are
  those that had that old one.
* `KeysAsSent`: `KeyAsSent`, for every set of keys whose bytes have one of the forms that
  terminals send (`Sends`: a byte, ESC and a byte, `ESC O` and a byte, `ESC [` with digits
  and a final byte). `KeyInv` says which state of `tty_read_handler` belongs to the bytes
  of the key that were read.
* `ArgumentsAsTyped`: `ArgumentAsTyped`, for every table of bindings in which only `C-u`
  is bound to the universal argument and no binding goes on after a digit, a sign or `C-u`
  (`BindingAssumption`, which TLC evaluates on the bindings of the run; the table is
  built by folds, so the proof takes that from it and nothing else). `EdInv` relates `argval`, `noargval` and `sign` to
  the keys typed: the digits so far as a number, a power of 4, the parity of the signs.
  The property excepts numbers from `NO_ARG` on, because a typed argument equal to
  `NO_ARG` (2147483647) is taken for none.
* `ReplaysFaithful`: `ReplayFaithful`, for every set of modes and of commands with any
  effect, provided that the commands that the model spells out are none of those
  (`CommandAssumption`). `MacroInv` compares a definition and a replay with
  the same thing: `Trace`, the states that dispatch goes through when it is fed the keys
  of the macro one by one, each with the effect that was recorded for it. While it is
  defined, the editor is in the last state of the
  trace; while it is replayed, and as long as the effects are the same, in the one after
  `macro_key_index` keys, as far as the parts go that decide what the next key does
  (`Core`). The theorem says that a replay needs nothing but these effects and its keys:
  no part of the key context left over from the definition or from another replay.

How the induction goes. The library's induction theorems take an operator, which the
installed provers cannot instantiate. The proofs use a set instead: `LeastNumber` follows
from the theorem that the natural numbers are well founded, and `UpTo` from it (a set of
numbers that has 0 and with each number the next one has all of them). A recursive
function of the model (`Flatten`, `NotEmpty`, `SearchBytes`, `Replaced`, `Occurrences`,
the rounds of `ReplaceAll`, `Number`, `FourTo`, `Trace`) is a choice of some function that satisfies an equation:
`UpTo` shows that there is one (`FlatExists`, `BytesExist`, `RestExists`, `CountExists`,
`RoundExists`), so that the one chosen satisfies it, and then what it computes is an
induction again. Folds and `SelectSeq` of the libraries take operators and are out of
reach, and so are RECURSIVE operators.

Only model-checked:

* the liveness properties (`QuitEnds`, `ExitReported`, `MacrosEnd`);
* `PositionsCorrect` and `CharOffsetsInverse` of `PageTable`: they need an induction over
  the lines and characters of every page, with the counts that the pages cache;
* `LinesKept` of `Terminal`;
* `LineStateCorrect` and `NestingIndented` of `Colorize`, whose automata and scans are
  RECURSIVE operators.

## Seen in the code, outside of the instances

Besides the violated run, the models reproduce these when the commands, failures or
slips concerned are allowed, unless they are marked as read in the code only.

Editing, undo, search:

* Undoing an overwrite logs the text that it has just restored, so that undoing the undo
  does nothing and the overwritten text is lost (`buffer.c:704`, against `buffer.c:697`,
  "we must disable the log because we want to record a single write").
* Undoing a deletion runs the offset callbacks twice, so that the mark moves by twice the
  size, beyond the text (`buffer.c:714`, against `qe.h:446`, "current mark (moved with
  text)"). In a shell buffer, `shell_color_callback` inserts twice as many colors, so that
  all colors behind it are shifted, and the cursor of the terminal can leave the text
  (`shell.c:467`).
* Process output between two undos makes the second one revert an entry in a text it was
  not recorded for, and delete past its end (`buffer.c:669`, against `buffer.c:344`,
  "We must have : 0 <= offset <= b->total_size").
* `last_cmd_func` is set after all repetitions, so that `C-u 2 undo` undoes and redoes
  (`qe.c:3459`; read in the code only).
* `do_delete_char` and `do_backspace` edit a read only buffer (`qe.c:719`).
* `do_transpose_char` at the end of the text deletes a byte too many (`qe.c:849`).
* `do_return` in a read only buffer moves the offset past the end (`qe.c:1428`).
* After a failed save, undo can clear `modified` although the file is partial
  (`buffer.c:726`).
* `eb_set_charset` keeps the columns cached for the old charset (`buffer.c:732`).
* The result of `rename` is ignored: where it fails the old file is truncated, and pages
  mapped from it are lost (`buffer.c:1448`).
* `get_pos` counts a UTF-8 character that lies in two pages in both, so that the column is
  wrong (`buffer.c:834`, "potential problem if out of block, but for UTF8 it works").
* `n` in query-replace asks about the same match again: the search goes on at the match
  and not after it (`qe.c:5402`).
* A search backward from the end misses a match at the very end: the offset is cut to the
  last possible one and then decremented before the first comparison (`qe.c:5018`).
* write-file on an unmodified buffer that fails leaves a partial file and a buffer that
  counts as saved (`qe.c:4844`).

* Saving again after a save that failed replaces the good backup by the partial file
  (`buffer.c:1448`).

Shells and the event loop:

* A shell that is killed by a key in a round in which its descriptor is ready too: the
  handler is null when `url_block` comes to it (`unix.c:260`). `KillWhenReady` allows it.
* When a process ends, its descriptor is closed with the output that was not read yet
  (`shell.c:569`, "no need to leave the pty opened").
* `shell_close` leaves the descriptor open (`shell.c:602`) and the handler of the process
  in the list.
* If `run_process` fails, `shell_close` reads a `pty_fd` that was never set
  (`shell.c:647`) and may unregister the handler of another shell. `PtyFails` allows it.
* `tty_write` spins while a terminal is full, and the process that should empty it may
  wait for the editor to read (`shell.c:198`).
* Escape sequences with more than `MAX_ESC_PARAMS` parameters read beyond the array
  (`shell.c:422`).
* A motion beyond the end of a line adds the spaces but leaves the cursor before them
  (`shell.c:231`, against `shell.c:206`, "compute offset the char at 'x' and 'y'").

Windows and buffers:

* Deleting a window that no other one can cover uses a null window (`qe.c:5626`, against
  `qe.c:5593`, "If none found, just leave a hole"). Slip "hole".
* Leaving the minibuffer or a popup with `C-x o` and deleting the window that the question
  was about: its callback gets a window that was freed (`qe.c:4371`), and so does the
  active window (`qe.c:4364`). The same with a buffer that is killed while it is asked
  whether to kill it (`qe.c:4571`). Slip "leave".
* Opening the list of buffers from a window that the list covers (`bufed.c:129`).
  Slip "relist".
* describe-bindings frees the buffer that its popup shows (`qe.c:5751`). Slip "describe".
* `C-u C-x 0` goes on with the window that its first repetition freed (`qe.c:3445`).
  Slip "repeat".
* write-file gives a buffer the name of a file that another buffer visits without looking
  for it (`qe.c:4836`), where find-file looks (`qe.c:4682`): two buffers then visit one
  file, and find-file shows the one created last. `NamesUnique` excepts what was written.
* A user buffer named `*Help*` is erased by the help command; a buffer that a hidden mode
  comes back to may be shorter than the saved offset (`qe.c:3948`) (both read only in the
  code).

Keys and macros:

* `C-x e` while a macro is defined ends the definition with the keys of that command in
  it, so that the macro calls itself without end (`qe.c:3648`).
* `C-u n C-x (` toggles the definition n times. A sign without digits is ignored.
* A replay passes on keys, not commands: where a search, a replacement or a question ends
  earlier than it did in the definition, the keys meant for it are executed as commands.
* The key that ends an incremental search is lost: `unget_key` (`qe.c:5261`, "repost key")
  stores it for `get_key` (`qe.c:6101`, "so that get_key() will return it"), but nothing
  reads `ungot_key`. Read in the code only.
* Read in the code only: the text that echoes keys grows without a bound
  (`qe.c:3851`); `noargval * 4` overflows (`qe.c:3820`); bindings of a configuration file
  are appended, so that they never replace one of the editor (`config.eg:14` against
  `qeconfig.h:37`), and `M-%` of `qeconfig.h:20` hides that of `qeconfig.h:53`; the UTF-8
  state of terminal input is never set; `ESC [ 1 ; 5 A` is not recognised.

Coloring and indentation:

* The test for `#endif` in a disabled block reads behind short lines (`clang.c:134`), and
  needs the directive in the first column: a line that was indented is missed.
* The display reads lines of 1024 characters and the indentation of 511, so that they
  disagree on the state after a longer one.
* Read in the code only: `set_color(p_start, len, ...)` paints past the end of the line
  (`clang.c:128`); `M-x c-indent-command` in a window without colorizer calls a null
  function (`qe.c:2909`); the special case of `if`, `for` and `while` in `do_c_indent` is
  dead, because the color was masked out (`clang.c:442`).

## Plan

Modelled: the core of the editor, in the ten modules above. Proved: all safety properties
of `EditBuffer`, `SaveQuit`, `Search`, `Shell`, `Windows` and `KeyProcess`, the refinement
of `ByteBuffer` and the safety properties of `PageTable` and `Terminal` except those
listed as only model-checked. What would come next:

1. `PositionsCorrect` of `PageTable`: lines and columns of a concatenation of pages from
   those of the pages, by the induction that `Flatten` has.
2. `LinesKept` of `Terminal`, which needs the lines of the text before and after each
   operation of the emulator.
3. The automata of `Colorize` as recursive functions over lexemes, to prove that a cached
   state is the one reached from the start.

## Not modelled

* Layout of text into screen lines and motion by them (`display.c` and the display part of
  `qe.c`), and the screen with its shadow (`tty.c`): arithmetic on widths, no state that
  other parts rely on.
* Timers and write handlers (no code registers any), mouse events (the terminal sends
  none), `KEY_ESC` and `MAX_KEYS` (no sequence of keys reaches them).
* Parsing of configuration files and command lines, strings, paths and colors
  (`util.c`, `cutils.c`), input method tables (data files that are not there).
* Directory mode, cscope, hexadecimal modes, patch and LaTeX modes: they show what other
  programs or files contain; the windows they open are those of `Windows`.
* Rectangles, fill-paragraph, case changes and the yank ring: compositions of the
  operations that `EditBuffer` and `PageTable` model.
* Charset tables, decoding and encoding, beyond what `PageTable` needs.
* `xml.c` (not compiled) and the asynchronous loader (`#if 0`).
