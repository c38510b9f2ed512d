------------------------------- MODULE KeyProcess -------------------------------
(***************************************************************************)
(* From the bytes that the terminal sends to commands (tty.c:              *)
(* tty_read_handler; qe.c: qe_key_process, exec_command): the keys, the    *)
(* numeric argument, the table of bindings, grabbed keys, the question     *)
(* that is answered in the minibuffer, and keyboard macros, which are      *)
(* replayed by a bottom half (unix.c) once the key that asks for them has  *)
(* been processed.                                                         *)
(*                                                                         *)
(* What a command does is modelled as far as macros, describe-key and C-q  *)
(* go. Other commands may go to a window of another mode (other-window,    *)
(* find-file, a popup), and grab the keys that follow until the text or    *)
(* the buffers say so (isearch, query-replace, exit): that is any choice,  *)
(* made when a key has been processed. A question ends with any such       *)
(* choice too, for the command that asked it; a macro that is defined or   *)
(* called by its name, with M-x, is left out. KEY_ESC is left out: the     *)
(* terminal only sends it as a part of a key.                              *)
(***************************************************************************)
EXTENDS Integers, Sequences, SequencesExt, FiniteSets, FiniteSetsExt

CONSTANTS InputOf,      \* InputOf[k]: the bytes that the terminal sends for k
          Tables,       \* the command tables, in the order of registration
          Special,      \* KEY_SPECIAL
          Modes,        \* the modes that keys are looked up in
          Switching,    \* commands that may change the mode or grab keys
          DigitOf,      \* DigitOf[k]: the value of a key that is a digit
          MaxMacro,     \* bound: keys of a macro
          MaxTyped,     \* bound: keys typed for a command
          MaxPending    \* bound: bottom halves that are registered

Default == <<"KEY_DEFAULT">>
Plain(c) == <<c>>
Meta(c)  == <<"M", c>>
Esc1(c)  == <<"E", c>>
Keys     == DOMAIN InputOf
NO_ARG   == 2147483647

Digits   == {"0", "1", "2", "3", "4", "5", "6", "7", "8", "9"}

(* The parameters that F1 to F4, Home and End stand for.                   *)
ParamOf  == [P |-> <<"1", "1">>, Q |-> <<"1", "2">>, R |-> <<"1", "3">>, S |-> <<"1", "4">>,
             H |-> <<"7">>, F |-> <<"8">>]

(* The key for the parameter and the last byte of a sequence after ESC [.  *)
CSIKey(param, c) ==
    CASE c = "~" -> Esc1(param)
      [] c \in {"H", "F"} -> Esc1(ParamOf[c])
      [] c \in {"A", "B", "C", "D"} /\ param = <<"5">> -> Esc1(<<"C", c>>)
      [] OTHER -> Esc1(<<c>>)

(* What terminals send for a key: a character; ESC and the character, for  *)
(* Meta; ESC O and a letter, for the first function keys; ESC [, digits    *)
(* and another character, for all others.                                  *)
Sends(k, s) ==
    \/ Len(s) = 1 /\ s[1] # "ESC" /\ k = Plain(s[1])
    \/ Len(s) = 2 /\ s[1] = "ESC" /\ s[2] \notin {"[", "O"} /\ k = Meta(s[2])
    \/ /\ Len(s) = 3 /\ s[1] = "ESC" /\ s[2] = "O" /\ s[3] \in {"P", "Q", "R", "S"}
       /\ k = Esc1(ParamOf[s[3]])
    \/ /\ Len(s) >= 3 /\ s[1] = "ESC" /\ s[2] = "["
       /\ \A i \in 3..(Len(s) - 1) : s[i] \in Digits
       /\ s[Len(s)] \notin Digits
       /\ k = CSIKey(SubSeq(s, 3, Len(s) - 1), s[Len(s)])

ASSUME KeyAssumption   == \A k \in Keys : InputOf[k] \in Seq(STRING) /\ Sends(k, InputOf[k])
ASSUME DigitAssumption == /\ DOMAIN DigitOf \subseteq Keys \ {Plain("-"), Plain("C-u")}
                          /\ \A k \in DOMAIN DigitOf : DigitOf[k] \in 0..9
                          /\ Special \subseteq Keys
ASSUME CommandAssumption ==
    /\ {"text", "minibuffer"} \subseteq Modes
    /\ Switching \cap {"universal", "start", "end", "call", "quote", "describe", "ask", "exit"} = {}
ASSUME BoundAssumption == {MaxMacro, MaxTyped, MaxPending} \subseteq Nat

(***************************************************************************)
(* ed.argval, noargval, sign, univ, keys, describe, grab   the QEKeyContext *)
(* ed.defining, macro, index   defining_macro, macro_keys, macro_key_index *)
(* ed.macro[i].effect   history: the effect that the key had               *)
(* ed.pending   how often do_call_macro_bh is registered                   *)
(* ed.mode      the mode of the active window                              *)
(* ed.fault     a window that was freed is used                            *)
(* ed.typed, rec, run, recmode, same   history: the keys since the last    *)
(*              command; what was called while the macro was defined, and  *)
(*              in this replay; the mode when its definition began; that   *)
(*              the replay began in that mode, not in the middle of a      *)
(*              sequence of keys, and that each of its keys has had the    *)
(*              effect that it had in the definition                       *)
(* input        the state of tty_read_handler                              *)
(* bytes, sent  what the terminal has to send for the key sent             *)
(***************************************************************************)
VARIABLES ed, input, bytes, sent

vars == <<ed, input, bytes, sent>>

---------------------------------------------------------------------------
(* The table of bindings.                                                  *)

(* "mode keys should be before generic keys"                               *)
qe_register_binding1(table, kd) ==
    IF kd.mode = "any" THEN Append(table, kd) ELSE <<kd>> \o table

qe_register_cmd_table(table, cmds) == FoldLeft(qe_register_binding1, table, cmds)

first_key == FoldLeft(qe_register_cmd_table, << >>, Tables)

(* Only C-u is bound to universal-argument, and no binding goes on after a *)
(* digit, a sign or C-u (qeconfig.h and the tables of the modes).          *)
ASSUME BindingAssumption ==
    /\ DOMAIN first_key = 1..Len(first_key)
    /\ \A i \in DOMAIN first_key :
         /\ first_key[i].keys \in Seq(Keys \cup {Default})
         /\ first_key[i].cmd = "universal" => first_key[i].keys = <<Plain("C-u")>>
         /\ \A j \in 1..(Len(first_key[i].keys) - 1) :
              first_key[i].keys[j] \notin DOMAIN DigitOf \cup {Plain("-"), Plain("C-u")}

(* The first binding that starts with the keys and is active in the mode,  *)
(* or 0.                                                                   *)
FindKey(keys, mode) ==
    LET hits == {i \in DOMAIN first_key : /\ IsPrefix(keys, first_key[i].keys)
                                          /\ first_key[i].mode \in {"any", mode}}
    IN  IF hits = {} THEN 0 ELSE Min(hits)

(* The first one for keys that are bound to nothing else; no command takes *)
(* KEY_DEFAULT as the first key of several.                                *)
FindDefault(mode) == FindKey(<<Default>>, mode)

---------------------------------------------------------------------------
(* Commands.                                                               *)

(* What a key may do to the keys that follow: the mode that they are       *)
(* looked up in, and whether quote_grab_key or another one gets them.      *)
Outcomes  == [mode : Modes, grab : {"none", "quote", "other"}]
Effect(e) == [mode |-> e.mode, grab |-> e.grab]

(* A command, or a key that was grabbed, has the effect o.                 *)
Affected(e, o) ==
    [e EXCEPT !.mode = o.mode, !.grab = IF o.grab = "other" THEN "other" ELSE "none"]

do_start_macro(e) ==
    IF e.defining THEN [e EXCEPT !.defining = FALSE]
    ELSE [e EXCEPT !.defining = TRUE, !.macro = << >>, !.rec = << >>, !.recmode = e.mode]

do_end_macro(e) == IF e.index # -1 THEN e ELSE [e EXCEPT !.defining = FALSE]

do_call_macro(e) ==
    IF e.defining THEN [e EXCEPT !.defining = FALSE]
    ELSE IF e.macro = << >> THEN e
    ELSE [e EXCEPT !.pending = @ + 1]

(* Nothing is asked while another question is.                             *)
minibuffer_edit(e, o) ==
    IF o.mode = "minibuffer" THEN [e EXCEPT !.mode = "minibuffer"] ELSE e

(* Leaving the minibuffer frees its window, and runs the command that      *)
(* asked; a second call uses the window again.                             *)
do_minibuffer_exit(e, times, o) ==
    IF times > 1 \/ e.mode # "minibuffer" THEN [e EXCEPT !.fault = TRUE] ELSE Affected(e, o)

Call(cmd, e, o) ==
    CASE cmd = "start"     -> do_start_macro(e)
      [] cmd = "end"       -> do_end_macro(e)
      [] cmd = "call"      -> do_call_macro(e)
      [] cmd = "quote"     -> [e EXCEPT !.grab = "quote"]
      [] cmd = "describe"  -> [e EXCEPT !.describe = TRUE]
      [] cmd \in Switching -> Affected(e, o)
      [] OTHER             -> e

(* A command that asks for an argument opens the minibuffer; the others    *)
(* are called argval times.                                                *)
exec_command(e, cmd, argval, o) ==
    LET n == IF argval # NO_ARG /\ argval > 1 THEN argval ELSE 1
        called[i \in 0..n] == IF i = 0 THEN e ELSE Call(cmd, called[i - 1], o)
    IN  CASE cmd = "ask"  -> minibuffer_edit(e, o)
          [] cmd = "exit" -> do_minibuffer_exit(e, n, o)
          [] OTHER        -> called[n]

---------------------------------------------------------------------------
(* qe_key_process.                                                         *)

(* Mutant: the product of the C-u is kept.                                 *)
qe_key_init_KeepsCount(e) ==
    [e EXCEPT !.univ = FALSE, !.argval = NO_ARG, !.sign = 1, !.keys = << >>, !.typed = << >>]

qe_key_init(e) ==
    [e EXCEPT !.univ = FALSE, !.noargval = 1, !.argval = NO_ARG, !.sign = 1,
              !.keys = << >>, !.typed = << >>]

(* No key is pending, for a command, a description or C-q.                 *)
Ready(e) == e = qe_key_init(e) /\ ~e.describe /\ e.grab = "none"

Abandon(e) == [qe_key_init(e) EXCEPT !.describe = FALSE]

Argument(e) == IF ~e.univ THEN NO_ARG
               ELSE IF e.argval = NO_ARG THEN e.noargval
               ELSE e.argval * e.sign

(* History: a command is called, and recorded is whether its last key was. *)
Logged(e, call, recorded) ==
    [e EXCEPT !.rec = IF recorded THEN Append(@, call) ELSE @,
              !.run = IF e.index # -1 THEN Append(@, call) ELSE @]

Execute(e, cmd, key, recorded, o) ==
    IF cmd = "universal" /\ ~e.describe
    THEN [e EXCEPT !.univ = TRUE, !.noargval = @ * 4, !.keys = << >>]
    ELSE IF e.describe
    THEN [qe_key_init(Logged(e, <<"describe", key>>, recorded)) EXCEPT !.describe = FALSE]
    ELSE qe_key_init(exec_command(Logged(e, <<cmd, key, Argument(e)>>, recorded),
                                  cmd, Argument(e), o))

(* No binding starts with the keys: a digit or a sign of the argument, a   *)
(* character to insert, or an error.                                       *)
Unbound(e, key, recorded, o) ==
    LET alone == Len(e.keys) = 1 /\ key \notin Special
        kd    == FindDefault(e.mode)
    IN  CASE alone /\ e.univ /\ key \in DOMAIN DigitOf ->
               [e EXCEPT !.argval = (IF @ = NO_ARG THEN 0 ELSE @) * 10 + DigitOf[key],
                         !.keys = << >>]
          [] alone /\ e.univ /\ key = Plain("-") -> [e EXCEPT !.sign = -@, !.keys = << >>]
          [] alone /\ ~(e.univ /\ key \in DOMAIN DigitOf \cup {Plain("-")}) /\ kd # 0 ->
               Execute(e, first_key[kd].cmd, key, recorded, o)
          [] OTHER -> Abandon(e)

Dispatch(e, key, recorded, o) ==
    LET kd == FindKey(e.keys, e.mode)
    IN  CASE kd = 0 -> Unbound(e, key, recorded, o)
          [] kd # 0 /\ first_key[kd].keys = e.keys ->
               Execute(e, first_key[kd].cmd, key, recorded, o)
          [] OTHER -> e

(* The next key after C-q.                                                 *)
quote_grab_key(e, key, recorded) ==
    Logged([e EXCEPT !.grab = "none"], <<"quoted", key>>, recorded)

(* A key of a search, a replacement or the end of the editor.              *)
grab_key_cb(e, key, recorded, o) == Logged(Affected(e, o), <<"grabbed", key>>, recorded)

(* Mutant: the key after C-q is not recorded.                              *)
macro_add_key_NotQuoted(e, key, o) ==
    IF e.defining /\ e.grab # "quote"
    THEN [e EXCEPT !.macro = Append(@, [key |-> key, effect |-> o])] ELSE e

macro_add_key(e, key, o) ==
    IF e.defining THEN [e EXCEPT !.macro = Append(@, [key |-> key, effect |-> o])] ELSE e

(* The effect of the key is chosen among those that its command can have.  *)
qe_key_process(e, key, o) ==
    LET e1 == macro_add_key(e, key, o)
    IN  CASE e1.grab = "quote" -> quote_grab_key(e1, key, e.defining)
          [] e1.grab = "other" -> grab_key_cb(e1, key, e.defining, o)
          [] OTHER -> Dispatch([e1 EXCEPT !.keys = Append(@, key), !.typed = Append(@, key)],
                               key, e.defining, o)

---------------------------------------------------------------------------
(* tty_read_handler: the state after byte c, and the key that is complete, *)
(* or None.                                                                *)

None      == << >>
Norm      == [state |-> "IS_NORM", param |-> << >>]
Got(key)      == [input |-> Norm, key |-> key]
More(st, par) == [input |-> [state |-> st, param |-> par], key |-> None]

(* Mutant: a letter in place of a tilde leaves the sequence open.          *)
tty_read_handler_NoLetters(in, c) ==
    CASE in.state = "IS_NORM" -> IF c = "ESC" THEN More("IS_ESC", << >>) ELSE Got(Plain(c))
      [] in.state = "IS_ESC"  -> IF c = "[" THEN More("IS_CSI", << >>) ELSE Got(Meta(c))
      [] OTHER -> IF c = "~" THEN Got(Esc1(in.param)) ELSE More("IS_CSI", Append(in.param, c))

(* The parameter is kept as the digits that were read.                     *)
tty_read_handler(in, c) ==
    CASE in.state = "IS_NORM" -> IF c = "ESC" THEN More("IS_ESC", << >>) ELSE Got(Plain(c))
      [] in.state = "IS_ESC"  -> CASE c = "[" -> More("IS_CSI", << >>)
                                   [] c = "O" -> More("IS_ESC2", << >>)
                                   [] OTHER   -> Got(Meta(c))
      [] in.state = "IS_CSI"  -> CASE c \in Digits -> More("IS_CSI", Append(in.param, c))
                                   [] c = "~"          -> Got(Esc1(in.param))
                                   [] c \in {"H", "F"}  -> Got(Esc1(ParamOf[c]))
                                   [] c \in {"A", "B", "C", "D"} /\ in.param = <<"5">> ->
                                        Got(Esc1(<<"C", c>>))
                                   [] OTHER            -> Got(Esc1(<<c>>))
      [] in.state = "IS_ESC2" -> IF c \in {"P", "Q", "R", "S"} THEN Got(Esc1(ParamOf[c]))
                                 ELSE More("IS_NORM", << >>)

---------------------------------------------------------------------------

Init ==
    /\ ed = [argval |-> NO_ARG, noargval |-> 1, sign |-> 1, univ |-> FALSE, keys |-> << >>,
             describe |-> FALSE, grab |-> "none", defining |-> FALSE, macro |-> << >>,
             index |-> -1, pending |-> 0, mode |-> "text", fault |-> FALSE,
             typed |-> << >>, rec |-> << >>, run |-> << >>, recmode |-> "text", same |-> TRUE]
    /\ input = Norm
    /\ bytes = << >>
    /\ sent = None

(* The editor is in the event loop.                                        *)
Waiting == ~ed.fault /\ ed.index = -1 /\ ed.pending = 0

(* The user types a key.                                                   *)
Press(k) ==
    /\ Waiting
    /\ bytes = << >>
    /\ ed.defining => Len(ed.macro) < MaxMacro
    /\ Len(ed.typed) < MaxTyped
    /\ bytes' = InputOf[k]
    /\ sent' = k
    /\ UNCHANGED <<ed, input>>

(* One byte is read, and the key, if there is one, is processed.           *)
ReadByte ==
    /\ Waiting
    /\ bytes # << >>
    /\ bytes' = Tail(bytes)
    /\ \E r \in {tty_read_handler(input, Head(bytes))} :
         /\ input' = r.input
         /\ IF r.key = None THEN UNCHANGED <<ed, sent>>
            ELSE \E o \in Outcomes : \E e \in {qe_key_process(ed, r.key, o)} :
                   /\ o = Effect(e)
                   /\ e.pending <= MaxPending
                   /\ ed' = e
                   /\ sent' = None

(* The replay has called macros, and more than the bound.                  *)
Overrun == ed.pending > MaxPending

(* Mutant: the bottom half stays in the list.                              *)
StartReplay_StaysPending ==
    /\ ~ed.fault /\ ed.index = -1 /\ ed.pending > 0
    /\ ed' = [ed EXCEPT !.index = 0, !.run = << >>,
                        !.same = ed.mode = ed.recmode /\ Ready(ed)]
    /\ UNCHANGED <<input, bytes, sent>>

(* do_call_macro_bh: the bottom half is called.                            *)
StartReplay ==
    /\ ~ed.fault /\ ed.index = -1 /\ ed.pending > 0
    /\ ed' = [ed EXCEPT !.index = 0, !.pending = @ - 1, !.run = << >>,
                        !.same = ed.mode = ed.recmode /\ Ready(ed)]
    /\ UNCHANGED <<input, bytes, sent>>

(* One round of its loop.                                                  *)
ReplayKey ==
    /\ ~ed.fault /\ ~Overrun /\ ed.index # -1 /\ ed.index < Len(ed.macro)
    /\ \E o \in Outcomes, k \in {ed.macro[ed.index + 1]} :
         \E e \in {qe_key_process(ed, k.key, o)} :
           /\ o = Effect(e)
           /\ ed' = [e EXCEPT !.index = @ + 1, !.same = @ /\ o = k.effect]
    /\ UNCHANGED <<input, bytes, sent>>

(* Its end; what the history holds is of no use any more.                  *)
EndReplay ==
    /\ ~ed.fault /\ ~Overrun /\ ed.index # -1 /\ ed.index >= Len(ed.macro)
    /\ ed' = [ed EXCEPT !.index = -1, !.run = << >>, !.same = TRUE]
    /\ UNCHANGED <<input, bytes, sent>>

(* The user types nothing, and select ends after MAX_DELAY; or the editor  *)
(* has crashed, or the bound is reached.                                   *)
Idle == (Waiting \/ ed.fault \/ Overrun) /\ UNCHANGED vars

Replay == StartReplay \/ ReplayKey \/ EndReplay

Next ==
    \/ \E k \in Keys : Press(k)
    \/ ReadByte
    \/ StartReplay \/ ReplayKey \/ EndReplay
    \/ Idle

(* A replay is a loop that nothing interrupts.                             *)
Spec == Init /\ [][Next]_vars /\ WF_vars(Replay)

---------------------------------------------------------------------------
(* Properties.                                                             *)

(* A key is complete with its last byte and not before, and it is the one  *)
(* that was typed (tty.c, tty_read_handler).                               *)
KeyAsSent ==
    bytes # << >> =>
       LET r == tty_read_handler(input, Head(bytes))
       IN  r.key = IF Len(bytes) = 1 THEN sent ELSE None

Count(s, k) == Cardinality({i \in DOMAIN s : s[i] = k})

(* The number that the digits of s are.                                    *)
Number(s) ==
    LET number[i \in 0..Len(s)] ==
          IF i = 0 THEN 0
          ELSE IF s[i] \in DOMAIN DigitOf THEN number[i - 1] * 10 + DigitOf[s[i]]
          ELSE number[i - 1]
    IN  number[Len(s)]

FourTo(n) == LET power[i \in 0..n] == IF i = 0 THEN 1 ELSE 4 * power[i - 1] IN power[n]

(* What the keys typed so far say: the number typed after C-u, negated for *)
(* an odd number of signs; without a number, a power of four.              *)
Meant(s) ==
    LET u == Count(s, Plain("C-u"))
    IN  IF u = 0 THEN NO_ARG
        ELSE IF \A i \in DOMAIN s : s[i] \notin DOMAIN DigitOf THEN FourTo(u)
        ELSE IF Count(s, Plain("-")) % 2 = 0 THEN Number(s) ELSE -Number(s)

(* A command gets the argument that was typed for it and for no other one, *)
(* whatever was typed, grabbed, described, mistyped or replayed before, as *)
(* long as the number is less than NO_ARG, which is the largest int        *)
(* (qe.c, qe_key_process and qe_key_init).                                 *)
ArgumentAsTyped == Number(ed.typed) < NO_ARG => Argument(ed) = Meant(ed.typed)

(* A replay calls the commands that were called, and passes on the keys    *)
(* that were grabbed, with the same arguments, while the macro was defined *)
(* (qe.c, macro_add_key and do_call_macro_bh), if it begins in the same    *)
(* mode, not in the middle of a sequence of keys, does not begin a new     *)
(* definition, and as long as each of its keys has the effect that it had  *)
(* then: with another text, a search or a replacement can end earlier, and *)
(* the keys that are left are commands.                                    *)
ReplayFaithful ==
    ed.index # -1 /\ ed.same /\ ~ed.defining /\ ~ed.fault =>
       /\ IsPrefix(ed.run, ed.rec)
       /\ ed.index = Len(ed.macro) => ed.run = ed.rec

(* The replay calls the macro, because that was a part of its definition,  *)
(* or because its keys have other effects than they had then.              *)
CallsItself == \E i \in DOMAIN ed.run : ed.run[i][1] = "call"

(* Keys are read again after all of the replays, unless one of them calls  *)
(* the macro or the editor crashes (unix.c, __call_bottom_halves).         *)
MacrosEnd == ed.pending > 0 ~> Waiting \/ ed.fault \/ CallsItself
================================================================================
