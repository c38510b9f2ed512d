-------------------------------- MODULE PageTable -------------------------------
(***************************************************************************)
(* How buffer.c stores the bytes of a buffer: in pages of at most          *)
(* MAX_PAGE_SIZE bytes, some of them read only references to a mapped      *)
(* file, with the page found last kept as a cache, and with line, column   *)
(* and character counts cached per page.  Operations are operators from    *)
(* buffer to buffer, called as the code requires: 0 <= offset <=           *)
(* total_size (EditBuffer tells when the editor does not).                 *)
(*                                                                         *)
(* Undo logging is left out: it is the subject of EditBuffer, and all it   *)
(* does here is to look up a page that is looked up again just after.      *)
(***************************************************************************)
EXTENDS Integers, Sequences, FiniteSets

CONSTANTS Byte,         \* the byte values used
          NL,           \* the byte '\n'
          Lead,         \* a byte that starts a two byte UTF-8 character
          Cont,         \* a byte that goes on with one
          Charset,      \* the charsets that the user sets
          Operations,   \* the operations that are called
          Data,         \* the byte sequences that are inserted or written
          Files,        \* the contents of the files that are loaded
          MaxPageSize,  \* MAX_PAGE_SIZE
          MaxLen        \* bound: longest text

ASSUME ByteAssumption     == {NL, Lead, Cont} \subseteq Byte /\ Lead # Cont
ASSUME CharsetAssumption  == Charset \subseteq {"8859-1", "utf-8"}
ASSUME DataAssumption     == Data \subseteq Seq(Byte) \ {<< >>}
ASSUME FilesAssumption    == Files \subseteq Seq(Byte)
ASSUME PageSizeAssumption == MaxPageSize \in Nat \ {0} /\ MaxLen \in Nat

VARIABLES b,         \* the buffer that is edited
          other,     \* a buffer that bytes are copied to and from
          file,      \* the contents of the file that is mapped
          charset    \* b->charset

vars == <<b, other, file, charset>>

---------------------------------------------------------------------------
(* Pages and texts.                                                        *)

Minimum(m, n) == IF m < n THEN m ELSE n
Maximum(m, n) == IF m > n THEN m ELSE n

Part(t, offset, size) == SubSeq(t, offset + 1, offset + size)
Before(t, offset)     == SubSeq(t, 1, offset)
From(t, offset)       == SubSeq(t, offset + 1, Len(t))

(* A page that owns its bytes, nothing cached.                             *)
NewPage(d) == [data |-> d, readonly |-> FALSE, src |-> 0,
               valid_pos |-> FALSE, nb_lines |-> 0, col |-> 0,
               valid_char |-> FALSE, nb_chars |-> 0]

(* A page that refers to the bytes of the mapped file from src on.         *)
MappedPage(d, src) == [NewPage(d) EXCEPT !.readonly = TRUE, !.src = src]

(* The bytes d cut into as few pages as possible.                          *)
Chunks(d) ==
    [i \in 1..((Len(d) + MaxPageSize - 1) \div MaxPageSize) |->
        Part(d, (i - 1) * MaxPageSize,
             Minimum(MaxPageSize, Len(d) - (i - 1) * MaxPageSize))]

(* What a buffer holds: the bytes of its pages, one after the other.       *)
Flatten(pt) ==
    LET flat[i \in 0..Len(pt)] ==
          IF i = 0 THEN << >> ELSE flat[i - 1] \o pt[i].data
    IN  flat[Len(pt)]

(* Where the pages from number k on start, when page k starts at offset.   *)
Starts(pt, k, offset) ==
    LET start[i \in k..(Len(pt) + 1)] ==
          IF i = k THEN offset ELSE start[i - 1] + Len(pt[i - 1].data)
    IN  start

(* The pages that have bytes.                                              *)
NotEmpty(pt) ==
    LET kept[i \in 0..Len(pt)] ==
          IF i = 0 THEN << >>
          ELSE IF pt[i].data = << >> THEN kept[i - 1]
          ELSE Append(kept[i - 1], pt[i])
    IN  kept[Len(pt)]

EmptyBuffer == [page_table |-> << >>, total_size |-> 0,
                cur_page |-> 0, cur_offset |-> 0]

---------------------------------------------------------------------------
(* Access.                                                                 *)

(* Puts the page that holds offset in the cache, unless it is there.       *)
find_page(e, offset) ==
    IF /\ e.cur_page # 0
       /\ e.cur_offset <= offset
       /\ offset < e.cur_offset + Len(e.page_table[e.cur_page].data)
    THEN e
    ELSE LET start == Starts(e.page_table, 1, 0)
             k     == CHOOSE i \in 1..Len(e.page_table) :
                        start[i] <= offset /\ offset < start[i + 1]
         IN  [e EXCEPT !.cur_page = k, !.cur_offset = start[k]]

(* Mutant: counts that were cached for the page stay valid.                *)
update_page_KeepsCounts(p, d) ==
    [p EXCEPT !.data = d, !.readonly = FALSE, !.src = 0]

(* Mutant: the bytes of the mapped file are written in place.              *)
update_page_InPlace(p, d) ==
    [NewPage(d) EXCEPT !.readonly = p.readonly, !.src = p.src]

(* The page gets the bytes d: what was cached for it is out of date, and   *)
(* it is a copy if it was a reference to the mapped file.                  *)
update_page(p, d) == NewPage(d)

(* Mutant: reading stops at the end of the page found.                     *)
eb_read_OnePage(e, offset, size) ==
    LET f == find_page(e, offset)
        d == f.page_table[f.cur_page].data
        o == offset - f.cur_offset
    IN  Part(d, o, Minimum(size, Len(d) - o))

(* The bytes that eb_rw reads, beginning in the page found.                *)
eb_read(e, offset, size) ==
    LET f == find_page(e, offset)
    IN  Part(Flatten(SubSeq(f.page_table, f.cur_page, Len(f.page_table))),
             offset - f.cur_offset, size)

(* Mutant: the page cache survives.                                        *)
ForgetPage_Never(e) == e

(* The page cache is no longer valid.                                      *)
ForgetPage(e) == [e EXCEPT !.cur_page = 0, !.cur_offset = 0]

(* Inserts d after the first n pages.  The end of d goes in front of the   *)
(* page that follows, as far as there is room, the rest in new pages.      *)
eb_insert1(pt, n, d) ==
    LET next == IF n < Len(pt) THEN pt[n + 1].data ELSE << >>
        len  == IF n < Len(pt)
                THEN Minimum(MaxPageSize - Len(next), Len(d)) ELSE 0
        left == Len(d) - len
        new  == Chunks(Before(d, left))
        pt1  == IF len = 0 THEN pt
                ELSE [pt EXCEPT ![n + 1] =
                        update_page(@, From(d, left) \o next)]
    IN  SubSeq(pt1, 1, n) \o [i \in 1..Len(new) |-> NewPage(new[i])]
          \o SubSeq(pt1, n + 1, Len(pt1))

(* Inserts d in the page that holds the byte before offset: what has no    *)
(* room behind it moves to the next page, and so does what is left of d.   *)
eb_insert_lowlevel(e, offset, d) ==
    LET f    == IF offset > 0 THEN find_page(e, offset - 1) ELSE e
        k    == IF offset > 0 THEN f.cur_page ELSE 0
        o    == offset - f.cur_offset
        pg   == f.page_table[k]
        len  == IF offset > 0 THEN Minimum(MaxPageSize - o, Len(d)) ELSE 0
        left == IF offset > 0
                THEN Minimum(Len(pg.data), MaxPageSize - len) ELSE 0
        pt1  == IF offset > 0 /\ left < Len(pg.data)
                THEN eb_insert1(f.page_table, k, From(pg.data, left))
                ELSE f.page_table
        pt2  == IF len = 0 THEN pt1
                ELSE [pt1 EXCEPT ![k] = update_page(@,
                        Before(pg.data, o) \o Before(d, len)
                          \o Part(pg.data, o, left - o))]
        pt3  == IF len = Len(d) THEN pt2 ELSE eb_insert1(pt2, k, From(d, len))
    IN  ForgetPage([f EXCEPT !.page_table = pt3,
                                  !.total_size = e.total_size + Len(d)])

eb_insert(e, offset, d) == eb_insert_lowlevel(e, offset, d)

(* Overwrites the bytes inside of the buffer, page by page.                *)
eb_rw(e, offset, d) ==
    LET f     == find_page(e, offset)
        start == Starts(f.page_table, f.cur_page, f.cur_offset)
        end   == offset + Len(d)
        Touched(i) == /\ i >= f.cur_page
                      /\ start[i] < end /\ offset < start[i + 1]
        Written(i) ==
            LET pg == f.page_table[i]
            IN  [j \in 1..Len(pg.data) |->
                   IF offset < start[i] + j /\ start[i] + j <= end
                   THEN d[start[i] + j - offset] ELSE pg.data[j]]
    IN  IF d = << >> THEN e
        ELSE [f EXCEPT !.page_table = [i \in 1..Len(@) |->
                 IF Touched(i) THEN update_page(@[i], Written(i)) ELSE @[i]]]

(* Mutant: what goes past the end of the buffer is lost.                   *)
eb_write_Inside(e, offset, d) ==
    eb_rw(e, offset, Before(d, Minimum(Len(d), e.total_size - offset)))

(* Overwrites what is in the buffer, and inserts the rest behind its end.  *)
eb_write(e, offset, d) ==
    LET len == Minimum(Len(d), e.total_size - offset)
        e1  == eb_rw(e, offset, Before(d, len))
    IN  IF len = Len(d) THEN e1 ELSE eb_insert(e1, offset + len, From(d, len))

(* Deletes from the page found on: a page loses a part of its bytes, or    *)
(* goes altogether.                                                        *)
eb_delete(e, offset, size) ==
    LET f     == find_page(e, offset)
        start == Starts(f.page_table, f.cur_page, f.cur_offset)
        Touched(i) == /\ i >= f.cur_page
                      /\ start[i] < offset + size /\ offset < start[i + 1]
        Left(i) == LET pg == f.page_table[i]
                   IN  Before(pg.data, Maximum(0, offset - start[i]))
                         \o From(pg.data, offset + size - start[i])
        pt == [i \in 1..Len(f.page_table) |->
                 IF Touched(i) THEN update_page(f.page_table[i], Left(i))
                 ELSE f.page_table[i]]
    IN  IF offset >= e.total_size THEN e
        ELSE ForgetPage([f EXCEPT
               !.page_table = NotEmpty(pt),
               !.total_size = @ - size])

(* Mutant: pages are inserted before the page, which is not cut.           *)
CutPage_Before(e, offset) ==
    LET f == find_page(e, offset)
    IN  IF offset >= e.total_size THEN [e |-> e, n |-> Len(e.page_table)]
        ELSE [e |-> f, n |-> f.cur_page - 1]

(* Cuts the page that offset is in, so that pages can be inserted there;   *)
(* n is the number of pages before the cut.                                *)
CutPage(e, offset) ==
    LET f  == find_page(e, offset)
        k  == f.cur_page
        o  == offset - f.cur_offset
        d  == f.page_table[k].data
    IN  IF offset >= e.total_size THEN [e |-> e, n |-> Len(e.page_table)]
        ELSE IF o = 0 THEN [e |-> f, n |-> k - 1]
        ELSE [e |-> [f EXCEPT !.page_table =
                       [eb_insert1(@, k, From(d, o)) EXCEPT
                          ![k] = update_page(@, Before(d, o))]],
              n |-> k]

(* The size once the pages for the last left of size bytes are inserted:   *)
(* eb_insert_lowlevel has counted the others.                              *)
SizeAfter(e, size, left) == e.total_size + left

(* How many of the pages src fit whole in left bytes.                      *)
WholePages(src, left) ==
    LET start == Starts(src, 1, 0)
    IN  CHOOSE m \in 0..Len(src) :
          /\ start[m + 1] <= left
          /\ m < Len(src) => start[m + 2] > left

(* A copy of page pg: a reference to the mapped file stays one.            *)
CopyPage(pg) == IF pg.readonly THEN MappedPage(pg.data, pg.src)
                               ELSE NewPage(pg.data)

(* Inserts the first left bytes of the pages src after the first n pages   *)
(* of pt: copies of m pages, then a part of the next one as bytes.         *)
InsertPages(pt, n, src, left, m) ==
    LET rest == left - Starts(src, 1, 0)[m + 1]
        pt1  == SubSeq(pt, 1, n) \o [i \in 1..m |-> CopyPage(src[i])]
                  \o SubSeq(pt, n + 1, Len(pt))
    IN  IF rest = 0 THEN pt1
        ELSE eb_insert1(pt1, n + m, Before(src[m + 1].data, rest))

(* The same in the buffer that was cut to make place for it.               *)
InsertAtCut(cut, src, size, left) ==
    ForgetPage([cut.e EXCEPT
        !.page_table = InsertPages(@, cut.n, src, left, WholePages(src, left)),
        !.total_size = SizeAfter(cut.e, size, left)])

(* Inserts size bytes of the buffer src: the end of a page as bytes, then  *)
(* what is left from the pages that follow.  Yields both buffers, as the   *)
(* page cache of src changes too.                                          *)
eb_insert_buffer(e, offset, src, from, size) ==
    LET f     == find_page(src, from)
        o     == from - f.cur_offset
        page  == f.page_table[f.cur_page].data
        first == IF o = 0 THEN << >>
                 ELSE Part(page, o, Minimum(Len(page) - o, size))
        pages == SubSeq(f.page_table,
                        IF o = 0 THEN f.cur_page ELSE f.cur_page + 1,
                        Len(f.page_table))
        left  == size - Len(first)
        e1    == IF o = 0 THEN e ELSE eb_insert_lowlevel(e, offset, first)
    IN  IF size = 0 THEN [dest |-> e, src |-> src]
        ELSE [dest |-> IF left = 0 THEN e1
                       ELSE InsertAtCut(CutPage(e1, offset + Len(first)),
                                        pages, size, left),
              src  |-> f]

---------------------------------------------------------------------------
(* Lines, columns and characters.                                          *)

(* How many bytes the character that starts with byte c has.               *)
Width(c, cs) == IF cs = "utf-8" /\ c = Lead THEN 2 ELSE 1

(* How many characters d has, each as long as its first byte says, the     *)
(* last one perhaps cut off.                                               *)
CountChars(d, cs) ==
    LET count[i \in 1..(Len(d) + 2)] ==
          IF i > Len(d) THEN 0 ELSE 1 + count[i + Width(d[i], cs)]
    IN  count[1]

Newlines(d) == {i \in 1..Len(d) : d[i] = NL}

LineStart(d) == IF Newlines(d) = {} THEN 0
                ELSE CHOOSE i \in Newlines(d) : \A j \in Newlines(d) : j <= i

(* The number of ends of line in d, and of characters after the last one.  *)
get_pos(d, cs) == [line |-> Cardinality(Newlines(d)),
                   col  |-> CountChars(From(d, LineStart(d)), cs)]

(* The counts of page p are computed unless they are valid.                *)
ValidPos(p, cs) ==
    IF p.valid_pos THEN p
    ELSE [p EXCEPT !.valid_pos = TRUE,
                   !.nb_lines = get_pos(p.data, cs).line,
                   !.col = get_pos(p.data, cs).col]

(* The first n pages with their counts computed.                           *)
WithPos(pt, n, cs) ==
    [i \in 1..Len(pt) |-> IF i <= n THEN ValidPos(pt[i], cs) ELSE pt[i]]

(* The position at which a text ends whose parts end at positions p and q. *)
AddPos(p, q) == [line |-> p.line + q.line,
                 col  |-> IF q.line # 0 THEN q.col ELSE p.col + q.col]

(* The number of pages before the one that holds offset.                   *)
PagesBefore(pt, offset) ==
    Cardinality({i \in 1..Len(pt) : Starts(pt, 1, 0)[i + 1] <= offset})

(* The line and the column of offset, and the pages with the counts that   *)
(* were computed on the way.                                               *)
eb_get_pos(e, cs, offset) ==
    LET n  == PagesBefore(e.page_table, offset)
        pt == WithPos(e.page_table, n, cs)
        pos[i \in 0..n] ==
            IF i = 0 THEN [line |-> 0, col |-> 0]
            ELSE AddPos(pos[i - 1], [line |-> pt[i].nb_lines, col |-> pt[i].col])
        inside == Before(pt[n + 1].data, offset - Starts(pt, 1, 0)[n + 1])
    IN  [pos |-> IF n = Len(pt) THEN pos[n]
                 ELSE AddPos(pos[n], get_pos(inside, cs)),
         e   |-> [e EXCEPT !.page_table = pt]]

(* The line line1 starts in a page with which the text reaches line2.      *)
LineReached(line2, line1) == line2 >= line1

(* The offset at which a line (0 is the first) starts, the end of the text *)
(* if there is none.  The column asked for is 0 in every call.             *)
eb_goto_pos(e, cs, line1) ==
    LET all  == WithPos(e.page_table, Len(e.page_table), cs)
        line[i \in 0..Len(all)] ==
            IF i = 0 THEN 0 ELSE line[i - 1] + all[i].nb_lines
        hits == {i \in 1..Len(all) : LineReached(line[i], line1)}
        k    == CHOOSE i \in hits : \A j \in hits : i <= j
        skip == line1 - line[k - 1]
        d    == all[k].data
        o    == IF skip = 0 THEN 0
                ELSE CHOOSE i \in Newlines(d) :
                       Cardinality(Newlines(Before(d, i))) = skip
    IN  [offset |-> IF hits = {} THEN e.total_size
                    ELSE Starts(all, 1, 0)[k] + o,
         e      |-> [e EXCEPT !.page_table =
                       WithPos(@, IF hits = {} THEN Len(@) ELSE k, cs)]]

(* The number of characters of d: UTF-8 is counted by first bytes.         *)
get_chars(d, cs) ==
    IF cs = "utf-8" THEN Cardinality({i \in 1..Len(d) : d[i] # Cont})
    ELSE Len(d)

WithChars(pt, n, cs) ==
    [i \in 1..Len(pt) |->
        IF i <= n /\ ~pt[i].valid_char
        THEN [pt[i] EXCEPT !.valid_char = TRUE,
                           !.nb_chars = get_chars(pt[i].data, cs)]
        ELSE pt[i]]

(* Mutant: only whole pages are counted.                                   *)
eb_get_char_offset_Pages(e, cs, offset) ==
    LET n  == PagesBefore(e.page_table, offset)
        pt == WithChars(e.page_table, n, cs)
        chars[i \in 0..n] == IF i = 0 THEN 0 ELSE chars[i - 1] + pt[i].nb_chars
    IN  IF cs # "utf-8"
        THEN [pos |-> Minimum(offset, e.total_size), e |-> e]
        ELSE [pos |-> chars[n], e |-> [e EXCEPT !.page_table = pt]]

(* How many characters precede offset.                                     *)
eb_get_char_offset(e, cs, offset) ==
    LET n  == PagesBefore(e.page_table, offset)
        pt == WithChars(e.page_table, n, cs)
        chars[i \in 0..n] == IF i = 0 THEN 0 ELSE chars[i - 1] + pt[i].nb_chars
        inside == Before(pt[n + 1].data, offset - Starts(pt, 1, 0)[n + 1])
    IN  IF cs # "utf-8"
        THEN [pos |-> Minimum(offset, e.total_size), e |-> e]
        ELSE [pos |-> IF n = Len(pt) THEN chars[n]
                      ELSE chars[n] + get_chars(inside, cs),
              e   |-> [e EXCEPT !.page_table = pt]]

(* The offset of the character that pos characters precede.                *)
eb_goto_char(e, cs, pos) ==
    LET all  == WithChars(e.page_table, Len(e.page_table), cs)
        chars[i \in 0..Len(all)] ==
            IF i = 0 THEN 0 ELSE chars[i - 1] + all[i].nb_chars
        hits == {i \in 1..Len(all) : chars[i] > pos}
        k    == CHOOSE i \in hits : \A j \in hits : i <= j
        d    == all[k].data
        o    == CHOOSE i \in 1..Len(d) :
                  /\ d[i] # Cont
                  /\ get_chars(Before(d, i), cs) = pos - chars[k - 1] + 1
    IN  IF cs # "utf-8"
        THEN [offset |-> Minimum(pos, e.total_size), e |-> e]
        ELSE [offset |-> IF hits = {} THEN e.total_size
                         ELSE Starts(all, 1, 0)[k] + o - 1,
              e      |-> [e EXCEPT !.page_table =
                            WithChars(@, IF hits = {} THEN Len(@) ELSE k, cs)]]

---------------------------------------------------------------------------
(* A buffer is loaded, then operations are called in any order.            *)

(* A large file is mapped.                                                 *)
mmap_buffer(f) ==
    [EmptyBuffer EXCEPT
        !.page_table = [i \in 1..Len(Chunks(f)) |->
                          MappedPage(Chunks(f)[i], (i - 1) * MaxPageSize)],
        !.total_size = Len(f)]

(* A small one is inserted, in parts that may be larger than a page.       *)
raw_load_buffer1(f) ==
    IF f = << >> THEN EmptyBuffer ELSE eb_insert(EmptyBuffer, 0, f)

Init ==
    /\ file \in Files
    /\ b \in {mmap_buffer(file), raw_load_buffer1(file)}
    /\ other = EmptyBuffer
    /\ charset = "8859-1"

(* Offsets and sizes with bytes in them.                                   *)
Ranges(e) == {r \in (0..e.total_size) \X (1..e.total_size) :
                r[1] + r[2] <= e.total_size}

Room(size) == b.total_size + size <= MaxLen

(* Reading leaves the page in the cache.                                   *)
Read(offset) ==
    /\ "read" \in Operations
    /\ b' = find_page(b, offset)
    /\ UNCHANGED <<other, file, charset>>

Insert(offset, d) ==
    /\ "insert" \in Operations
    /\ Room(Len(d))
    /\ b' = eb_insert(b, offset, d)
    /\ UNCHANGED <<other, file, charset>>

Delete(offset, size) ==
    /\ "delete" \in Operations
    /\ b' = eb_delete(b, offset, size)
    /\ UNCHANGED <<other, file, charset>>

Write(offset, d) ==
    /\ "write" \in Operations
    /\ Room(Len(d))
    /\ b' = eb_write(b, offset, d)
    /\ UNCHANGED <<other, file, charset>>

(* A part of the text is copied to a new yank buffer; the bound is one     *)
(* such buffer, which later steps insert from.                             *)
Copy(offset, size) ==
    /\ "copy" \in Operations
    /\ other = EmptyBuffer
    /\ \E r \in {eb_insert_buffer(EmptyBuffer, 0, b, offset, size)} :
         other' = r.dest /\ b' = r.src
    /\ UNCHANGED <<file, charset>>

(* A part of the other buffer is inserted, as undo does from the log.      *)
Paste(offset, from, size) ==
    /\ "paste" \in Operations
    /\ Room(size)
    /\ \E r \in {eb_insert_buffer(b, offset, other, from, size)} :
         b' = r.dest /\ other' = r.src
    /\ UNCHANGED <<file, charset>>

(* Something asks for a position or goes to one: caches are filled.        *)
GetPos(offset) ==
    /\ "get_pos" \in Operations
    /\ b' = eb_get_pos(b, charset, offset).e
    /\ UNCHANGED <<other, file, charset>>

GotoPos(line) ==
    /\ "get_pos" \in Operations
    /\ b' = eb_goto_pos(b, charset, line).e
    /\ UNCHANGED <<other, file, charset>>

GetChar(offset) ==
    /\ "get_char" \in Operations
    /\ b' = eb_get_char_offset(b, charset, offset).e
    /\ UNCHANGED <<other, file, charset>>

GotoChar(pos) ==
    /\ "get_char" \in Operations
    /\ b' = eb_goto_char(b, charset, pos).e
    /\ UNCHANGED <<other, file, charset>>

eb_set_charset(cs) ==
    /\ "set_charset" \in Operations
    /\ charset' = cs
    /\ UNCHANGED <<b, other, file>>

Next ==
    \/ \E r \in Ranges(b) :
         \/ Read(r[1])
         \/ Delete(r[1], r[2])
         \/ Copy(r[1], r[2])
    \/ \E offset \in 0..b.total_size :
         \/ \E d \in Data : Insert(offset, d) \/ Write(offset, d)
         \/ \E r \in Ranges(other) : Paste(offset, r[1], r[2])
         \/ GetPos(offset) \/ GetChar(offset)
         \/ GotoPos(offset) \/ GotoChar(offset)
    \/ \E cs \in Charset : eb_set_charset(cs)

Spec == Init /\ [][Next]_vars

---------------------------------------------------------------------------
(* Properties.                                                             *)

(* No page is empty, and none is larger than MAX_PAGE_SIZE.                *)
Page == [data : UNION {[1..n -> Byte] : n \in 1..MaxPageSize},
         readonly : BOOLEAN, src : Nat,
         valid_pos : BOOLEAN, nb_lines : Nat, col : Nat,
         valid_char : BOOLEAN, nb_chars : Nat]

Buffer == [page_table : Seq(Page), total_size : Nat, cur_page : Nat,
           cur_offset : Nat]

(* The page cache, if it is set, is a page of the table with the offset at *)
(* which that page starts.                                                 *)
CacheSound(e) ==
    e.cur_page # 0 => /\ e.cur_page \in 1..Len(e.page_table)
                      /\ e.cur_offset = Starts(e.page_table, 1, 0)[e.cur_page]

(* Integrity of both page tables after any sequence of operations that     *)
(* split, fill, empty and copy pages: no page is empty and none has more   *)
(* than MAX_PAGE_SIZE bytes, total_size, which bounds readers and writers, *)
(* is what the pages hold, and the page cache is one that find_page may    *)
(* trust (buffer.c: eb_insert_lowlevel, eb_insert_buffer, eb_delete).      *)
TypeOK ==
    /\ b \in Buffer /\ other \in Buffer
    /\ file \in Files
    /\ charset \in Charset \cup {"8859-1"}
    /\ \A e \in {b, other} : /\ e.total_size = Len(Flatten(e.page_table))
                             /\ CacheSound(e)

Text == Flatten(b.page_table)

(* A page that is marked read only holds the bytes of the mapped file it   *)
(* points to, in whichever buffer it ended up: nothing wrote into the      *)
(* mapping, and no write went elsewhere (buffer.c: update_page, and        *)
(* eb_insert_buffer, which copies the reference).                          *)
MappedIntact ==
    \A e \in {b, other} : \A i \in 1..Len(e.page_table) :
        LET pg == e.page_table[i]
        IN  pg.readonly => pg.data = Part(file, pg.src, Len(pg.data))

(* Reading yields the bytes of the text, through a page cache that any     *)
(* earlier operation left (buffer.c: eb_rw, find_page).                    *)
ReadCorrect ==
    \A r \in Ranges(b) : eb_read(b, r[1], r[2]) = Part(Text, r[1], r[2])

LineFound(o, l) ==
    IF l > Cardinality(Newlines(Text)) THEN o = Len(Text)
    ELSE /\ Cardinality(Newlines(Before(Text, o))) = l
         /\ o = 0 \/ Text[o] = NL

(* Line and column of an offset are those of the text, however it is cut   *)
(* into pages and whatever counts were cached before, and going to a line  *)
(* leads to the offset after that many ends of line, or to the end of the  *)
(* text (buffer.c: eb_get_pos, eb_goto_pos).                               *)
PositionsCorrect ==
    /\ \A o \in 0..Len(Text) :
         eb_get_pos(b, charset, o).pos = get_pos(Before(Text, o), charset)
    /\ \A l \in 0..(Len(Text) + 1) : LineFound(eb_goto_pos(b, charset, l).offset, l)

(* The offset of a character that starts there is found again from its     *)
(* number, however the bytes of characters are spread over pages           *)
(* (buffer.c: eb_get_char_offset, eb_goto_char).                           *)
CharOffsetsInverse ==
    \A o \in 0..Len(Text) :
        charset = "utf-8" /\ (o = Len(Text) \/ Text[o + 1] # Cont) =>
            LET pos == eb_get_char_offset(b, charset, o).pos
            IN  /\ pos = get_chars(Before(Text, o), charset)
                /\ eb_goto_char(b, charset, pos).offset = o

(* The bytes of both buffers, read off their pages.                        *)
Bytes == INSTANCE ByteBuffer
           WITH text <- Flatten(b.page_table),
                yank <- Flatten(other.page_table)

(* The pages implement plain sequences of bytes: every operation does to   *)
(* the bytes of both buffers what ByteBuffer says (buffer.c: eb_insert,    *)
(* eb_insert_buffer, eb_delete and eb_write).                              *)
ImplementsByteBuffer == Bytes!Spec
================================================================================
