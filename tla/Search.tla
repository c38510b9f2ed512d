--------------------------------- MODULE Search ---------------------------------
(***************************************************************************)
(* Incremental search and query-replace (qe.c).  Both grab the keys: every *)
(* key is a call of isearch_key or query_replace_key on a state that was   *)
(* kept since the last key, and that holds offsets of the text.            *)
(*                                                                         *)
(* The window is not in hexadecimal mode and the charset is the single     *)
(* byte one, so that a character typed is the byte searched.               *)
(***************************************************************************)
EXTENDS Integers, Sequences

CONSTANTS Byte,            \* the byte values used
          Lower, Upper,    \* those for which islower and isupper hold
          toupper,         \* toupper[c]
          Word,            \* those for which isword holds
          Files,           \* the files: a text, and whether it is read only
          Replacements,    \* <<what, by what>> the user asks to replace
          SearchLength,    \* SEARCH_LENGTH
          PollSize,        \* pending input is looked for once in so many bytes
          MaxLen           \* bound: longest text on which a command is given

ASSUME CaseAssumption    == /\ Lower \cup Upper \cup Word \subseteq Byte
                            /\ Lower \cap Upper = {}
                            /\ toupper \in [Byte -> Byte]
ASSUME FilesAssumption   == /\ Files \subseteq [text : Seq(Byte), readonly : BOOLEAN]
                            /\ Replacements \subseteq Seq(Byte) \X Seq(Byte)
ASSUME LengthAssumption  == /\ SearchLength \in Nat /\ PollSize \in Nat \ {0}
                            /\ MaxLen \in Nat

VARIABLES text,      \* the text of the buffer
          offset,    \* s->offset
          mark,      \* b->mark
          readonly,  \* BF_READONLY is set
          last,      \* last_search_string
          mode,      \* which function has grabbed the keys
          is,        \* the ISearchState
          qr         \* the QueryReplaceState, kept until the next command

vars == <<text, offset, mark, readonly, last, mode, is, qr>>

---------------------------------------------------------------------------
(* eb_search.                                                              *)

IGNORECASE == "IGNORECASE"
SMARTCASE  == "SMARTCASE"
WORD       == "WORD"

(* Case is ignored on request, or if the string has no upper case letter.  *)
IgnoreCase(buf, flags) ==
    \/ IGNORECASE \in flags
    \/ /\ SMARTCASE \in flags
       /\ \E i \in 1..Len(buf) : buf[i] \in Lower
       /\ \A i \in 1..Len(buf) : buf[i] \notin Upper

Same(c, d, ignore) == IF ignore THEN toupper[c] = toupper[d] ELSE c = d

(* The string buf is found at offset o of t: as a word, if asked for.      *)
Match(t, o, buf, flags) ==
    /\ \A i \in 1..Len(buf) : Same(t[o + i], buf[i], IgnoreCase(buf, flags))
    /\ WORD \in flags =>
         /\ o = 0 \/ t[o] \notin Word
         /\ o + Len(buf) >= Len(t) \/ t[o + Len(buf) + 1] \notin Word

(* The offsets that are tried.  Going back, the first of them is the one   *)
(* before the offset given, or before the last that the string fits at.    *)
Tried(t, o, dir, buf) ==
    LET end == Len(t) - Len(buf)
    IN  IF dir < 0 THEN 0..((IF o > end THEN end ELSE o) - 1) ELSE o..end

(* The nearest match in direction dir, -1 if there is none, or if input is *)
(* pending when the search comes to an offset at which it looks for that.  *)
eb_search(t, o, dir, buf, flags, pending) ==
    LET tried   == Tried(t, o, dir, buf)
        hits    == {q \in tried : Match(t, q, buf, flags)}
        nearest == CHOOSE q \in hits :
                     \A p \in hits : IF dir < 0 THEN p <= q ELSE q <= p
        aborted == pending /\ \E p \in tried :
                     /\ p % PollSize = 0
                     /\ hits # {} =>
                          IF dir < 0 THEN nearest <= p ELSE p <= nearest
    IN  IF buf = << >> \/ hits = {} \/ aborted THEN -1 ELSE nearest

---------------------------------------------------------------------------
(* The states when no function has grabbed the keys.                       *)

NoSearch == [start_offset |-> 0, dir |-> 1, string |-> << >>, flags |-> {},
             found_offset |-> -1]

NoReplace(t) == [search |-> << >>, replace |-> << >>, nb_reps |-> 0,
                 replace_all |-> FALSE, found_offset |-> -1, orig |-> t,
                 from |-> 0]

---------------------------------------------------------------------------
(* Incremental search.                                                     *)

(* An element of search_string: a character, or the offset of a match from *)
(* which the search went on (FOUND_TAG).                                   *)
Typed(c) == [tag |-> "char", ch |-> c]
Found(o) == [tag |-> "found", at |-> o]

IsChar(v) == v.tag = "char"

(* The bytes searched for.                                                 *)
SearchBytes(str) ==
    LET buf[i \in 0..Len(str)] ==
          IF i = 0 THEN << >>
          ELSE IF IsChar(str[i]) THEN Append(buf[i - 1], str[i].ch)
          ELSE buf[i - 1]
    IN  buf[Len(str)]

(* Mutant: the search goes on at the match itself.                         *)
SearchOffset_Stays(x) ==
    LET tags == {i \in 1..Len(x.string) : ~IsChar(x.string[i])}
    IN  IF tags = {} THEN x.start_offset
        ELSE x.string[CHOOSE i \in tags : \A j \in tags : j <= i].at

(* Where the search starts: next to the last match that was passed.        *)
SearchOffset(x) ==
    LET tags == {i \in 1..Len(x.string) : ~IsChar(x.string[i])}
    IN  IF tags = {} THEN x.start_offset
        ELSE x.string[CHOOSE i \in tags : \A j \in tags : j <= i].at + x.dir

(* Searches again from the start, and shows the match.                     *)
isearch_display(x, pending) ==
    LET buf   == SearchBytes(x.string)
        found == eb_search(text, SearchOffset(x), x.dir, buf, x.flags, pending)
    IN  /\ is' = [x EXCEPT !.found_offset = found]
        /\ offset' = IF buf = << >> THEN x.start_offset
                     ELSE IF found >= 0 THEN found + Len(buf)
                     ELSE offset

do_isearch(dir, pending) ==
    /\ mode = "edit"
    /\ Len(text) <= MaxLen
    /\ mode' = "isearch"
    /\ isearch_display([start_offset |-> offset, dir |-> dir,
                        string |-> << >>, flags |-> {SMARTCASE},
                        found_offset |-> -1], pending)
    /\ qr' = NoReplace(text)
    /\ UNCHANGED <<text, mark, readonly, last>>

(* A key that changes the search; it is done again.                        *)
SearchAgain(x, pending) ==
    /\ mode = "isearch"
    /\ isearch_display(x, pending)
    /\ UNCHANGED <<text, mark, readonly, last, mode, qr>>

(* Mutant: the last element goes and the match stays.                      *)
isearch_backspace_Keeps(pending) ==
    /\ mode = "isearch"
    /\ is' = [is EXCEPT !.string =
                IF @ = << >> THEN @ ELSE SubSeq(@, 1, Len(@) - 1)]
    /\ UNCHANGED <<text, offset, mark, readonly, last, mode, qr>>

isearch_backspace(pending) ==
    SearchAgain([is EXCEPT !.string =
                   IF @ = << >> THEN @ ELSE SubSeq(@, 1, Len(@) - 1)], pending)

(* ^S and ^R: take the last string searched, or pass the match.            *)
isearch_next(dir, pending) ==
    LET x    == [is EXCEPT !.dir = dir]
        pass == Len(x.string) < SearchLength /\ x.found_offset >= 0
    IN  SearchAgain(
          [x EXCEPT !.string =
             IF @ = << >> THEN [i \in 1..Len(last) |-> Typed(last[i])]
             ELSE IF pass THEN Append(@, Found(x.found_offset))
             ELSE @],
          pending)

Toggle(flags, f) == IF f \in flags THEN flags \ {f} ELSE flags \cup {f}

(* ^W and ^C *)
isearch_word(pending) ==
    SearchAgain([is EXCEPT !.flags = Toggle(@, WORD)], pending)

isearch_case(pending) ==
    SearchAgain([is EXCEPT !.flags = Toggle(@, IGNORECASE) \ {SMARTCASE}],
                pending)

(* A character that is typed; a string that is full stays as it is.        *)
isearch_char(c, pending) ==
    SearchAgain([is EXCEPT !.string =
                   IF Len(@) < SearchLength THEN Append(@, Typed(c)) ELSE @],
                pending)

(* ^G goes back to where the search started; any other special key sets    *)
(* the mark there, and stays.                                              *)
isearch_end(quit) ==
    /\ mode = "isearch"
    /\ IF quit THEN offset' = is.start_offset /\ UNCHANGED mark
               ELSE mark' = is.start_offset /\ UNCHANGED offset
    /\ last' = IF is.string = << >> THEN last ELSE SearchBytes(is.string)
    /\ mode' = "edit"
    /\ is' = NoSearch
    /\ UNCHANGED <<text, readonly, qr>>

---------------------------------------------------------------------------
(* Query-replace.                                                          *)

Before(t, o) == SubSeq(t, 1, o)
From(t, o)   == SubSeq(t, o + 1, Len(t))

(* Mutant: a place inside of the part replaced is not moved to its start.  *)
MovedBy_NoClamp(p, o, size, size2) == IF p <= o THEN p ELSE p - size + size2

(* The place p of the text after size bytes at o became size2.             *)
MovedBy(p, o, size, size2) ==
    IF p <= o THEN p
    ELSE IF p - size <= o THEN o
    ELSE p - size + size2

(* What the loop works on: the text, the offsets that callbacks move, and  *)
(* the state x.                                                            *)
Work(t, o, m, x) == [text |-> t, offset |-> o, mark |-> m, qr |-> x]

(* Mutant: the text inserted is searched as well.                          *)
query_replace_replace_Rescans(w) ==
    LET o == w.qr.found_offset
        n == Len(w.qr.search)
        r == w.qr.replace
    IN  [w EXCEPT !.text = Before(@, o) \o r \o From(@, o + n),
                  !.offset = MovedBy(@, o, n, Len(r)),
                  !.mark = MovedBy(@, o, n, Len(r)),
                  !.qr.nb_reps = @ + 1]

(* The match is deleted, the replacement inserted and passed over.         *)
query_replace_replace(w) ==
    LET o == w.qr.found_offset
        n == Len(w.qr.search)
        r == w.qr.replace
    IN  [w EXCEPT !.text = Before(@, o) \o r \o From(@, o + n),
                  !.offset = MovedBy(@, o, n, Len(r)),
                  !.mark = MovedBy(@, o, n, Len(r)),
                  !.qr.found_offset = @ + Len(r),
                  !.qr.nb_reps = @ + 1]

(* The next match is looked for.                                           *)
SearchNext(w) ==
    [w EXCEPT !.qr.found_offset =
        eb_search(w.text, @, 1, w.qr.search, {}, FALSE)]

(* One round of the loop when every match is replaced.                     *)
Redo(w) == IF w.qr.found_offset < 0 THEN w
           ELSE SearchNext(query_replace_replace(w))

(* Mutant: one round only.                                                 *)
ReplaceAll_Once(w) == Redo(w)

(* All rounds: each of them uses up a byte of the text at least.           *)
ReplaceAll(w) ==
    LET round[i \in 0..Len(w.text)] == IF i = 0 THEN w ELSE Redo(round[i - 1])
    IN  round[Len(w.text)]

(* Searches; replaces all, or shows the match and waits for a key.         *)
query_replace_display(w) ==
    \E next \in {SearchNext(w)} :
    \E r \in {IF w.qr.replace_all THEN ReplaceAll(next) ELSE next} :
      /\ text' = r.text
      /\ mark' = r.mark
      /\ offset' = IF r.qr.found_offset < 0 THEN r.offset
                                            ELSE r.qr.found_offset
      /\ qr' = r.qr
      /\ mode' = IF r.qr.found_offset < 0 THEN "edit" ELSE "replace"
      /\ UNCHANGED <<readonly, last, is>>

(* A read only buffer is refused.  orig and from are a history: the text   *)
(* and the offset at the start.                                            *)
do_query_replace(search, replace) ==
    /\ mode = "edit"
    /\ Len(text) <= MaxLen
    /\ ~readonly
    /\ query_replace_display(Work(text, offset, mark,
         [search |-> search, replace |-> replace, nb_reps |-> 0,
          replace_all |-> FALSE, found_offset |-> offset,
          orig |-> text, from |-> offset]))

Answers == {"y", "!", "n"}

query_replace_key(ch) ==
    /\ mode = "replace"
    /\ LET w == Work(text, offset, mark, qr)
       IN  query_replace_display(
             CASE ch = "y" -> query_replace_replace(w)
               [] ch = "!" -> [w EXCEPT !.qr.replace_all = TRUE]
               [] ch = "n" -> w)

(* Any other key.                                                          *)
query_replace_abort ==
    /\ mode = "replace"
    /\ mode' = "edit"
    /\ UNCHANGED <<text, offset, mark, readonly, last, is, qr>>

---------------------------------------------------------------------------

(* A file was loaded.                                                      *)
Init ==
    /\ \E f \in Files : text = f.text /\ readonly = f.readonly
    /\ offset = 0
    /\ mark = 0
    /\ last = << >>
    /\ mode = "edit"
    /\ is = NoSearch
    /\ qr = NoReplace(text)

(* The cursor is moved.                                                    *)
Move ==
    /\ mode = "edit"
    /\ offset' \in 0..Len(text)
    /\ qr' = NoReplace(text)
    /\ UNCHANGED <<text, mark, readonly, last, mode, is>>

Next ==
    \/ Move
    \/ \E pending \in BOOLEAN :
         \/ \E dir \in {-1, 1} : do_isearch(dir, pending)
                                   \/ isearch_next(dir, pending)
         \/ isearch_backspace(pending)
         \/ isearch_word(pending)
         \/ isearch_case(pending)
         \/ \E c \in Byte : isearch_char(c, pending)
    \/ \E quit \in BOOLEAN : isearch_end(quit)
    \/ \E r \in Replacements : do_query_replace(r[1], r[2])
    \/ \E ch \in Answers : query_replace_key(ch)
    \/ query_replace_abort

Spec == Init /\ [][Next]_vars

---------------------------------------------------------------------------
(* Properties.                                                             *)

SearchString == Seq([tag : {"char"}, ch : Byte] \cup [tag : {"found"}, at : Nat])

(* Type correctness: the cursor, the mark and the offsets that are kept    *)
(* from key to key stay in the text, and search_string in its bound        *)
(* (qe.c, isearch_key and query_replace_replace).                          *)
TypeOK ==
    /\ text \in Seq(Byte)
    /\ offset \in 0..Len(text)
    /\ mark \in 0..Len(text)
    /\ readonly \in BOOLEAN
    /\ last \in Seq(Byte) /\ Len(last) <= SearchLength
    /\ mode \in {"edit", "isearch", "replace"}
    /\ is \in [start_offset : Nat, dir : {-1, 1}, string : SearchString,
               flags : SUBSET {IGNORECASE, SMARTCASE, WORD},
               found_offset : Nat \cup {-1}]
    /\ Len(is.string) <= SearchLength
    /\ mode = "isearch" => is.start_offset <= Len(text)
    /\ qr \in [search : Seq(Byte), replace : Seq(Byte), nb_reps : Nat,
               replace_all : BOOLEAN, found_offset : Nat \cup {-1},
               orig : Seq(Byte), from : Nat]

(* The match that the user sees, and that a y replaces, is one: the string *)
(* is at found_offset, and the cursor next to it (qe.c, isearch_display    *)
(* and query_replace_display).                                             *)
FoundIsMatch ==
    /\ mode = "isearch" /\ is.found_offset >= 0 =>
         LET buf == SearchBytes(is.string)
         IN  /\ is.found_offset + Len(buf) <= Len(text)
             /\ Match(text, is.found_offset, buf, is.flags)
             /\ offset = is.found_offset + Len(buf)
    /\ mode = "replace" =>
         /\ qr.found_offset >= 0
         /\ qr.found_offset + Len(qr.search) <= Len(text)
         /\ Match(text, qr.found_offset, qr.search, {})
         /\ offset = qr.found_offset

(* ^S and ^R pass the match shown: the next one is further on in the       *)
(* direction of the key, also just after the other key, or there is none   *)
(* (qe.c, isearch_key: "add the match position, if any").                  *)
RepeatAdvances ==
    [][/\ mode = "isearch" /\ mode' = "isearch"
       /\ Len(is'.string) > Len(is.string)
       /\ ~IsChar(is'.string[Len(is'.string)])
       => \/ is'.found_offset = -1
          \/ is'.dir = 1 /\ is'.found_offset > is.found_offset
          \/ is'.dir = -1 /\ is'.found_offset < is.found_offset]_vars

At(t, i, s) == i + Len(s) <= Len(t) /\ SubSeq(t, i + 1, i + Len(s)) = s

(* t with its first n occurrences of s from offset o on replaced by r, from *)
(* left to right, and what was inserted left alone.                        *)
Replaced(t, o, s, r, n) ==
    LET rest[i \in 0..Len(t)] == [k \in 0..n |->
          IF i = Len(t) THEN << >>
          ELSE IF k > 0 /\ i >= o /\ At(t, i, s)
          THEN r \o rest[i + Len(s)][k - 1]
          ELSE <<t[i + 1]>> \o rest[i + 1][k]]
    IN  rest[0][n]

(* How many occurrences there are.                                         *)
Occurrences(t, o, s) ==
    LET count[i \in 0..Len(t)] ==
          IF i = Len(t) \/ s = << >> THEN 0
          ELSE IF i >= o /\ At(t, i, s) THEN 1 + count[i + Len(s)]
          ELSE count[i + 1]
    IN  count[0]

(* Whatever the answers, query-replace replaced as many occurrences as it  *)
(* reports, from left to right, and never text that it inserted itself     *)
(* (qe.c, query_replace_replace: found_offset passes the replacement).     *)
ReplacedInOrder ==
    text = Replaced(qr.orig, qr.from, qr.search, qr.replace, qr.nb_reps)

(* After ! nothing is asked any more and every occurrence is replaced      *)
(* (qe.c, query_replace_display: replace_all).                             *)
AllReplaced ==
    qr.replace_all => /\ mode # "replace"
                      /\ qr.nb_reps = Occurrences(qr.orig, qr.from, qr.search)
================================================================================
