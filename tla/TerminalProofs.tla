----------------------------- MODULE TerminalProofs -----------------------------
(***************************************************************************)
(* Proofs about Terminal: the colors of a shell buffer follow its text,    *)
(* and the cursors stay in it, for every text, every sequence of bytes     *)
(* from the process and every edit of the user and every undo in between.  *)
(***************************************************************************)
EXTENDS Terminal, TLAPS, WellFoundedInduction, FiniteSetTheorems, SequenceTheorems

---------------------------------------------------------------------------
(* Numbers.                                                                *)

(* A set of numbers that is not empty has a least element: the loops that  *)
(* look for the end of a line find one.                                    *)
LEMMA LeastNumber ==
    ASSUME NEW T \in SUBSET Nat, T # {}
    PROVE  \E x \in T : \A y \in T : x <= y
<1> DEFINE R == {ss \in Nat \X Nat : ss[1] < ss[2]}
<1>1. IsWellFoundedOn(R, Nat)
  BY NatLessThanWellFounded DEF OpToRel
<1> HIDE DEF R
<1>2. PICK x \in T : \A y \in T : ~(<<y, x>> \in R)
  BY <1>1, WFMin
<1>3. \A y \in T : x <= y
  <2> SUFFICES ASSUME NEW y \in T, ~(x <= y) PROVE FALSE
    OBVIOUS
  <2>1. y < x /\ x \in Nat /\ y \in Nat
    OBVIOUS
  <2>2. <<y, x>> \in R
    BY <2>1 DEF R
  <2> QED
    BY <1>2, <2>2
<1> QED
  BY <1>3

(* A set of numbers with an upper bound has a greatest element.            *)
LEMMA GreatestNumber ==
    ASSUME NEW T \in SUBSET Nat, T # {}, NEW m \in Nat, \A x \in T : x <= m
    PROVE  \E x \in T : \A y \in T : y <= x
<1> DEFINE D == {m - x : x \in T}
<1>1. D \in SUBSET Nat /\ D # {}
  OBVIOUS
<1>2. PICK d \in D : \A y \in D : d <= y
  BY <1>1, LeastNumber
<1>3. PICK x \in T : d = m - x
  OBVIOUS
<1>4. \A y \in T : y <= x
  <2> TAKE y \in T
  <2>1. m - x <= m - y
    BY <1>2, <1>3
  <2> QED
    BY <2>1
<1> QED
  BY <1>4

---------------------------------------------------------------------------
(* Texts.                                                                  *)

LEMMA InsertedType ==
    ASSUME NEW S, NEW t \in Seq(S), NEW o \in Nat, o <= Len(t), NEW d \in Seq(S)
    PROVE  /\ Inserted(t, o, d) \in Seq(S)
           /\ Len(Inserted(t, o, d)) = Len(t) + Len(d)
BY DEF Inserted

LEMMA DeletedType ==
    ASSUME NEW S, NEW t \in Seq(S), NEW o \in Nat, NEW n \in Nat, o + n <= Len(t)
    PROVE  /\ Deleted(t, o, n) \in Seq(S)
           /\ Len(Deleted(t, o, n)) = Len(t) - n
BY DEF Deleted

LEMMA OverwrittenType ==
    ASSUME NEW S, NEW t \in Seq(S), NEW o \in Nat, NEW d \in Seq(S),
           o + Len(d) <= Len(t)
    PROVE  /\ Overwritten(t, o, d) \in Seq(S)
           /\ Len(Overwritten(t, o, d)) = Len(t)
BY DEF Overwritten

LEMMA RepeatType ==
    ASSUME NEW S, NEW x \in S, NEW n \in Nat
    PROVE  Repeat(x, n) \in Seq(S) /\ Len(Repeat(x, n)) = n
BY DEF Repeat

(* The end of the line of o is found, and is in the text.                  *)
LEMMA LineEndType ==
    ASSUME NEW S, NEW t \in Seq(S), NEW o \in 0..Len(t)
    PROVE  LineEnd(t, o) \in o..Len(t) /\ NextIsNL(t, LineEnd(t, o))
<1> DEFINE T == {p \in o..Len(t) : NextIsNL(t, p)}
<1>1. Len(t) \in T
  BY DEF NextIsNL
<1>2. T \in SUBSET Nat /\ T # {}
  BY <1>1
<1>3. PICK p \in T : \A q \in T : p <= q
  BY <1>2, LeastNumber
<1>4. \A q \in o..(p - 1) : ~NextIsNL(t, q)
  <2> SUFFICES ASSUME NEW q \in o..(p - 1), NextIsNL(t, q) PROVE FALSE
    OBVIOUS
  <2>1. q \in T
    OBVIOUS
  <2> QED
    BY <1>3, <2>1
<1> QED
  BY <1>3, <1>4 DEF LineEnd

(* And so is its beginning.                                                *)
LEMMA LineStartType ==
    ASSUME NEW S, NEW t \in Seq(S), NEW o \in 0..Len(t)
    PROVE  LineStart(t, o) \in 0..o
<1> DEFINE T == {p \in 0..o : PrevIsNL(t, p)}
<1>1. 0 \in T
  BY DEF PrevIsNL
<1>2. o \in Nat /\ T \in SUBSET Nat /\ T # {} /\ \A x \in T : x <= o
  BY <1>1
<1>3. PICK p \in T : \A q \in T : q <= p
  <2> HIDE DEF T
  <2> QED
    BY <1>2, GreatestNumber
<1>4. \A q \in (p + 1)..o : ~PrevIsNL(t, q)
  <2> SUFFICES ASSUME NEW q \in (p + 1)..o, PrevIsNL(t, q) PROVE FALSE
    OBVIOUS
  <2>1. q \in T
    OBVIOUS
  <2> QED
    BY <1>3, <2>1
<1> QED
  BY <1>3, <1>4 DEF LineStart

---------------------------------------------------------------------------
(* The lines of a text.                                                    *)

(* The line ends among the first n bytes.                                  *)
Ends(t, n) == {i \in 1..n : t[i] = NL}

LEMMA EndsFinite ==
    ASSUME NEW t, NEW n \in Nat
    PROVE  /\ IsFiniteSet(Ends(t, n))
           /\ Cardinality(Ends(t, n)) \in Nat
           /\ Ends(t, 0) = {}
<1>1. IsFiniteSet(1..n)
  BY FS_Interval
<1>2. Ends(t, n) \subseteq 1..n
  BY DEF Ends
<1>3. IsFiniteSet(Ends(t, n))
  BY <1>1, <1>2, FS_Subset
<1> QED
  BY <1>3, FS_CardinalityType DEF Ends

(* A byte more is a line end more, or none.                                *)
LEMMA EndsStep ==
    ASSUME NEW t, NEW n \in Nat
    PROVE  Cardinality(Ends(t, n + 1)) =
             IF t[n + 1] = NL THEN Cardinality(Ends(t, n)) + 1
             ELSE Cardinality(Ends(t, n))
<1>1. IsFiniteSet(Ends(t, n)) /\ n + 1 \notin Ends(t, n)
  BY EndsFinite DEF Ends
<1>2. CASE t[n + 1] = NL
  <2>1. Ends(t, n + 1) = Ends(t, n) \cup {n + 1}
    BY <1>2 DEF Ends
  <2> QED
    BY <1>1, <1>2, <2>1, FS_AddElement
<1>3. CASE t[n + 1] # NL
  <2>1. Ends(t, n + 1) = Ends(t, n)
    BY <1>3 DEF Ends
  <2> QED
    BY <1>3, <2>1
<1> QED
  BY <1>2, <1>3

(* Every line up to the number of line ends has a beginning.               *)
LEMMA GotoLineType ==
    ASSUME NEW S, NEW t \in Seq(S), NEW y \in Nat, y <= TotalLines(t)
    PROVE  GotoLine(t, y) \in 0..Len(t)
<1>1. TotalLines(t) = Cardinality(Ends(t, Len(t)))
  BY DEF TotalLines, Ends
<1> DEFINE T == {n \in 0..Len(t) : y <= Cardinality(Ends(t, n))}
<1>2. T \in SUBSET Nat /\ Len(t) \in T
  BY <1>1
<1>3. PICK o \in T : \A q \in T : o <= q
  BY <1>2, LeastNumber
<1>4. o \in 0..Len(t) /\ y <= Cardinality(Ends(t, o)) /\ Cardinality(Ends(t, o)) \in Nat
  BY EndsFinite
<1>5. PrevIsNL(t, o) /\ Cardinality(Ends(t, o)) = y
  <2>1. CASE o = 0
    <3>1. Cardinality(Ends(t, 0)) = 0
      BY EndsFinite, FS_EmptySet
    <3> QED
      BY <1>4, <2>1, <3>1 DEF PrevIsNL
  <2>2. CASE o # 0
    <3> DEFINE p == o - 1
    <3>1. p \in Nat /\ p \in 0..Len(t) /\ o = p + 1
      BY <1>4, <2>2
    <3>2. p \notin T
      BY <1>3, <3>1
    <3>3. Cardinality(Ends(t, p)) < y /\ Cardinality(Ends(t, p)) \in Nat
      BY <3>1, <3>2, EndsFinite
    <3> HIDE DEF p
    <3>4. Cardinality(Ends(t, o)) =
             IF t[o] = NL THEN Cardinality(Ends(t, p)) + 1
             ELSE Cardinality(Ends(t, p))
      BY <3>1, EndsStep
    <3>5. t[o] = NL /\ Cardinality(Ends(t, o)) = y
      BY <1>4, <3>3, <3>4
    <3> QED
      BY <3>5 DEF PrevIsNL
  <2> QED
    BY <2>1, <2>2
<1>6. TotalLines(SubSeq(t, 1, o)) = Cardinality(Ends(t, o))
  <2>1. /\ Len(SubSeq(t, 1, o)) = o
        /\ \A i \in 1..o : SubSeq(t, 1, o)[i] = t[i]
    BY <1>4
  <2>2. {i \in 1..Len(SubSeq(t, 1, o)) : SubSeq(t, 1, o)[i] = NL} = Ends(t, o)
    BY <2>1 DEF Ends
  <2> QED
    BY <2>2 DEF TotalLines
<1> QED
  BY <1>4, <1>5, <1>6 DEF GotoLine

(* Line ends added at the end of the text are lines more.                  *)
LEMMA LinesAdded ==
    ASSUME NEW S, NEW t \in Seq(S), NEW n \in Nat
    PROVE  TotalLines(Inserted(t, Len(t), Repeat(NL, n))) = TotalLines(t) + n
<1> DEFINE u == Inserted(t, Len(t), Repeat(NL, n))
           A == Ends(t, Len(t))
           Z == (Len(t) + 1)..(Len(t) + n)
<1>1. Len(t) \in Nat
  OBVIOUS
<1>2. DOMAIN u = 1..(Len(t) + n) /\ Len(u) = Len(t) + n
  BY <1>1 DEF Inserted, Repeat
<1>3. {i \in 1..Len(u) : u[i] = NL} = A \cup Z
  BY <1>1, <1>2 DEF Inserted, Repeat, Ends
<1>4. A \cap Z = {}
  BY <1>1 DEF Ends
<1>5. IsFiniteSet(A) /\ Cardinality(A) \in Nat
  BY <1>1, EndsFinite
<1>6. IsFiniteSet(Z) /\ Cardinality(Z) = n
  <2> DEFINE c == Len(t) + 1
             d == Len(t) + n
  <2>1. c \in Int /\ d \in Int
    BY <1>1
  <2>2. /\ IsFiniteSet(c..d)
        /\ Cardinality(c..d) = IF c > d THEN 0 ELSE d - c + 1
    <3> HIDE DEF c, d
    <3> QED
      BY <2>1, FS_Interval
  <2> QED
    BY <1>1, <2>2
<1>7. Cardinality(A \cup Z) = Cardinality(A) + Cardinality(Z) - Cardinality(A \cap Z)
  BY <1>5, <1>6, FS_Union
<1>8. Cardinality(A \cap Z) = 0
  BY <1>4, FS_EmptySet
<1>9. Cardinality(A \cup Z) = Cardinality(A) + n
  <2> HIDE DEF A, Z
  <2> QED
    BY <1>5, <1>6, <1>7, <1>8
<1>10. TotalLines(u) = Cardinality(A \cup Z) /\ TotalLines(t) = Cardinality(A)
  BY <1>3 DEF TotalLines, Ends
<1> QED
  BY <1>9, <1>10

---------------------------------------------------------------------------
(* Buffers.                                                                *)

Buffers == [text : Seq(Char), colors : Seq(Colors), color : Colors,
            cur_offset : Nat, offset : Nat, twice : Nat]

(* A color for every byte, and one more for every byte that was announced  *)
(* twice; the cursors in the text, if none was.                            *)
Sound(e) == /\ e \in Buffers
            /\ Len(e.colors) = Len(e.text) + e.twice
            /\ e.twice = 0 => e.cur_offset <= Len(e.text) /\ e.offset <= Len(e.text)

(* What the callback does to the colors.                                   *)
LEMMA CallbackCases ==
    ASSUME NEW e, NEW o, NEW n
    PROVE  /\ shell_color_callback(e, "INSERT", o, n) = Inserted(e.colors, o, Repeat(e.color, n))
           /\ shell_color_callback(e, "WRITE", o, n) = Overwritten(e.colors, o, Repeat(e.color, n))
           /\ shell_color_callback(e, "DELETE", o, n) = Deleted(e.colors, o, n)
BY DEF shell_color_callback

(* A buffer of which the text and what goes with it is replaced.           *)
With(e, t, c, x, y) ==
    [e EXCEPT !.text = t, !.colors = c, !.cur_offset = x, !.offset = y]

(* Both cursors are in the text, unless a byte was announced twice.        *)
InText(e, t, x, y) == e.twice = 0 => x <= Len(t) /\ y <= Len(t)

LEMMA WithSound ==
    ASSUME NEW e, Sound(e), NEW t \in Seq(Char), NEW c \in Seq(Colors),
           NEW x \in Nat, NEW y \in Nat,
           Len(c) = Len(t) + e.twice, InText(e, t, x, y)
    PROVE  /\ Sound(With(e, t, c, x, y)) /\ With(e, t, c, x, y).text = t
           /\ With(e, t, c, x, y).twice = e.twice
<1> DEFINE f == With(e, t, c, x, y)
           TT == Seq(Char)
           CC == Seq(Colors)
           BB == [text : TT, colors : CC, color : Colors, cur_offset : Nat, offset : Nat,
                  twice : Nat]
<1>1. e \in BB /\ t \in TT /\ c \in CC
  BY DEF Sound, Buffers
<1> HIDE DEF TT, CC
<1>2. f \in BB
  BY <1>1 DEF With
<1>3. f.text = t /\ f.colors = c /\ f.cur_offset = x /\ f.offset = y
      /\ f.twice = e.twice
  BY <1>1 DEF With
<1> HIDE DEF f
<1>4. f \in Buffers
  BY <1>2 DEF Buffers, TT, CC
<1> HIDE DEF BB
<1> QED
  BY <1>3, <1>4 DEF Sound, InText, f

(* The parts of a buffer.                                                  *)
LEMMA SoundParts ==
    ASSUME NEW e, Sound(e)
    PROVE  /\ e.text \in Seq(Char) /\ e.colors \in Seq(Colors) /\ e.color \in Colors
           /\ e.cur_offset \in Nat /\ e.offset \in Nat
           /\ Len(e.text) \in Nat /\ e.twice \in Nat
           /\ Len(e.colors) = Len(e.text) + e.twice
           /\ e.twice = 0 => e.cur_offset <= Len(e.text) /\ e.offset <= Len(e.text)
BY DEF Sound, Buffers

(* The colors of an insertion.                                             *)
LEMMA ColorsInserted ==
    ASSUME NEW c \in Seq(Colors), NEW o \in Nat, o <= Len(c), NEW x \in Colors,
           NEW n \in Nat
    PROVE  /\ Inserted(c, o, Repeat(x, n)) \in Seq(Colors)
           /\ Len(Inserted(c, o, Repeat(x, n))) = Len(c) + n
<1> DEFINE w == Repeat(x, n)
<1>1. w \in Seq(Colors) /\ Len(w) = n
  BY RepeatType
<1> HIDE DEF w
<1>2. Inserted(c, o, w) \in Seq(Colors) /\ Len(Inserted(c, o, w)) = Len(c) + Len(w)
  <2>1. o \in Nat /\ o <= Len(c) /\ c \in Seq(Colors) /\ w \in Seq(Colors)
    BY <1>1
  <2> QED BY Zenon, <2>1, InsertedType
<1> QED
  BY <1>1, <1>2 DEF w

LEMMA InsertSound ==
    ASSUME NEW e, Sound(e), NEW o \in Nat, o <= Len(e.text), NEW d \in Seq(Char)
    PROVE  /\ Sound(eb_insert(e, o, d))
           /\ eb_insert(e, o, d).text = Inserted(e.text, o, d)
           /\ Len(eb_insert(e, o, d).text) = Len(e.text) + Len(d)
           /\ eb_insert(e, o, d).twice = e.twice
<1> DEFINE f == eb_insert(e, o, d)
           n == Len(d)
           t == Inserted(e.text, o, d)
           c == Inserted(e.colors, o, Repeat(e.color, n))
           x == AfterInsert(e.cur_offset, o, n)
           y == AfterInsert(e.offset, o, n)
<1>0. /\ e.text \in Seq(Char) /\ e.colors \in Seq(Colors) /\ e.color \in Colors
      /\ e.cur_offset \in Nat /\ e.offset \in Nat /\ Len(e.text) \in Nat
      /\ e.twice \in Nat /\ Len(e.colors) = Len(e.text) + e.twice
      /\ e.twice = 0 => e.cur_offset <= Len(e.text)
      /\ e.twice = 0 => e.offset <= Len(e.text)
  BY SoundParts
<1>1. n \in Nat
  OBVIOUS
<1>2. f = With(e, t, c, x, y)
  BY CallbackCases DEF eb_insert, With
<1>3. t \in Seq(Char) /\ Len(t) = Len(e.text) + n
  BY SoundParts, InsertedType
<1>5. c \in Seq(Colors) /\ Len(c) = Len(e.colors) + n
  <2>1. o <= Len(e.colors)
    BY <1>0
  <2> HIDE DEF n
  <2> QED
    BY <1>0, <1>1, <2>1, ColorsInserted
<1>6. /\ x \in Nat /\ y \in Nat
      /\ e.twice = 0 => x <= Len(e.text) + n /\ y <= Len(e.text) + n
  <2> HIDE DEF n
  <2>1. \A p \in Nat : /\ AfterInsert(p, o, n) \in Nat
                       /\ p <= Len(e.text) => AfterInsert(p, o, n) <= Len(e.text) + n
    BY <1>0, <1>1 DEF AfterInsert
  <2> QED
    BY <1>0, <2>1
<1>7. /\ Len(c) = Len(t) + e.twice
      /\ InText(e, t, x, y)
  <2> HIDE DEF n, t, c, x, y
  <2> QED
    BY <1>0, <1>1, <1>3, <1>5, <1>6 DEF InText
<1>8. Sound(f) /\ f.text = t /\ f.twice = e.twice
  <2> HIDE DEF n, t, c, x, y, f
  <2> QED
    BY <1>2, <1>3, <1>5, <1>6, <1>7, WithSound
<1> QED
  BY <1>3, <1>8

LEMMA DeleteSound ==
    ASSUME NEW e, Sound(e), NEW o \in Nat, NEW n \in Nat, o + n <= Len(e.text)
    PROVE  /\ Sound(eb_delete(e, o, n))
           /\ Len(eb_delete(e, o, n).text) = Len(e.text) - n
           /\ eb_delete(e, o, n).twice = e.twice
<1> DEFINE f == eb_delete(e, o, n)
           t == Deleted(e.text, o, n)
           c == Deleted(e.colors, o, n)
           x == AfterDelete(e.cur_offset, o, n)
           y == AfterDelete(e.offset, o, n)
<1>0. /\ e.text \in Seq(Char) /\ e.colors \in Seq(Colors) /\ e.color \in Colors
      /\ e.cur_offset \in Nat /\ e.offset \in Nat /\ Len(e.text) \in Nat
      /\ e.twice \in Nat /\ Len(e.colors) = Len(e.text) + e.twice
      /\ e.twice = 0 => e.cur_offset <= Len(e.text)
      /\ e.twice = 0 => e.offset <= Len(e.text)
  BY SoundParts
<1>1. f = With(e, t, c, x, y)
  BY CallbackCases DEF eb_delete, With
<1>2. t \in Seq(Char) /\ Len(t) = Len(e.text) - n
  BY SoundParts, DeletedType
<1>3. c \in Seq(Colors) /\ Len(c) = Len(e.colors) - n
  <2>1. e.colors \in Seq(Colors) /\ o + n <= Len(e.colors)
    BY SoundParts
  <2> QED
    BY <2>1, DeletedType
<1>4. /\ x \in Nat /\ y \in Nat
      /\ e.twice = 0 => x <= Len(e.text) - n
      /\ e.twice = 0 => y <= Len(e.text) - n
  <2>1. \A p \in Nat : /\ AfterDelete(p, o, n) \in Nat
                       /\ p <= Len(e.text) => AfterDelete(p, o, n) <= Len(e.text) - n
    BY <1>0 DEF AfterDelete
  <2> QED
    BY <1>0, <2>1
<1> HIDE DEF f, t, c, x, y
<1>5. /\ Len(c) = Len(t) + e.twice
      /\ InText(e, t, x, y)
  <2>1. Len(c) = Len(t) + e.twice
    <3> DEFINE lt == Len(t)
               lc == Len(c)
               a  == Len(e.text)
               k  == Len(e.colors)
               m  == e.twice
    <3>1. a \in Nat /\ m \in Nat /\ k = a + m /\ lt = a - n /\ lc = k - n
      BY <1>0, <1>2, <1>3
    <3>2. n \in Nat
      OBVIOUS
    <3> HIDE DEF lt, lc, a, k, m
    <3>3. lc = lt + m
      BY <3>1, <3>2
    <3> QED
      BY <3>3 DEF lt, lc, m
  <2>2. InText(e, t, x, y)
    BY <1>2, <1>4 DEF InText
  <2> QED
    BY <2>1, <2>2
<1>6. Sound(f) /\ f.text = t /\ f.twice = e.twice
  <2>1. x \in Nat /\ y \in Nat
    BY <1>4
  <2>2. t \in Seq(Char) /\ c \in Seq(Colors)
    BY <1>2, <1>3
  <2>3. /\ Sound(With(e, t, c, x, y)) /\ With(e, t, c, x, y).text = t
        /\ With(e, t, c, x, y).twice = e.twice
    <3>1. Sound(e) /\ Len(c) = Len(t) + e.twice /\ InText(e, t, x, y)
      BY <1>5
    <3> QED
      BY <2>1, <2>2, <3>1, WithSound
  <2> QED
    BY <1>1, <2>3
<1> QED
  BY <1>2, <1>6 DEF f

LEMMA WriteSound ==
    ASSUME NEW e, Sound(e), NEW o \in Nat, NEW d \in Seq(Char),
           o + Len(d) <= Len(e.text)
    PROVE  Sound(eb_write(e, o, d)) /\ Len(eb_write(e, o, d).text) = Len(e.text)
<1> DEFINE f == eb_write(e, o, d)
           n == Len(d)
           t == Overwritten(e.text, o, d)
           c == Overwritten(e.colors, o, Repeat(e.color, n))
<1>0. /\ e.text \in Seq(Char) /\ e.colors \in Seq(Colors) /\ e.color \in Colors
      /\ e.cur_offset \in Nat /\ e.offset \in Nat /\ Len(e.text) \in Nat
      /\ e.twice \in Nat /\ Len(e.colors) = Len(e.text) + e.twice
      /\ e.twice = 0 => e.cur_offset <= Len(e.text)
      /\ e.twice = 0 => e.offset <= Len(e.text)
  BY SoundParts
<1>1. n \in Nat
  OBVIOUS
<1>2. f = [e EXCEPT !.text = t, !.colors = c]
  BY CallbackCases DEF eb_write
<1>3. f = With(e, t, c, e.cur_offset, e.offset)
  <2> HIDE DEF t, c, f
  <2> QED
    BY <1>2 DEF Sound, Buffers, With
<1>4. t \in Seq(Char) /\ Len(t) = Len(e.text)
  BY SoundParts, OverwrittenType
<1>5. Repeat(e.color, n) \in Seq(Colors) /\ Len(Repeat(e.color, n)) = n
  <2> HIDE DEF n
  <2> QED
    BY <1>1, SoundParts, RepeatType
<1>6. c \in Seq(Colors) /\ Len(c) = Len(e.colors)
  <2>1. o + Len(Repeat(e.color, n)) <= Len(e.colors)
    BY <1>5, SoundParts
  <2> HIDE DEF n
  <2> QED
    BY <1>5, <2>1, SoundParts, OverwrittenType
<1> HIDE DEF f, t, c
<1>7. /\ e.cur_offset \in Nat /\ e.offset \in Nat /\ Len(c) = Len(t) + e.twice
      /\ InText(e, t, e.cur_offset, e.offset)
  BY <1>0, <1>4, <1>6 DEF InText
<1>8. Sound(f) /\ f.text = t
  BY <1>3, <1>4, <1>6, <1>7, WithSound
<1> QED
  BY <1>4, <1>8 DEF f

(* The cursor of the terminal may be put anywhere in the text, and that of *)
(* the window on it.                                                       *)
LEMMA MoveSound ==
    ASSUME NEW e, Sound(e), NEW o \in Nat, o <= Len(e.text)
    PROVE  /\ Sound([e EXCEPT !.cur_offset = o])
           /\ Sound([e EXCEPT !.offset = o])
           /\ [e EXCEPT !.cur_offset = o].text = e.text
BY DEF Sound, Buffers

LEMMA UpdateSound ==
    ASSUME NEW e, Sound(e), NEW follows
    PROVE  /\ Sound(tty_update_cursor(e, follows))
           /\ follows => tty_update_cursor(e, follows).offset =
                         tty_update_cursor(e, follows).cur_offset
BY DEF Sound, Buffers, tty_update_cursor

(* Column x of line y: the lines and the spaces that are missing are there *)
(* when the cursor is put there.                                           *)
LEMMA GotoSound ==
    ASSUME NEW e, Sound(e), NEW x \in Nat, NEW y \in Nat
    PROVE  Sound(tty_gotoxy(e, x, y))
<1> DEFINE total == TotalLines(e.text)
           line  == (IF total > YSize THEN total - YSize ELSE 0) + y
           e1    == IF line < total THEN e
                    ELSE eb_insert(e, Len(e.text), Repeat(NL, line - total + 1))
           start == GotoLine(e1.text, line)
           end   == LineEnd(e1.text, start)
           e2    == IF start + x <= end THEN e1
                    ELSE eb_insert(e1, end, Repeat(Space, start + x - end))
           o     == IF start + x <= end THEN start + x ELSE end
<1>1. tty_gotoxy(e, x, y) = [e2 EXCEPT !.cur_offset = o]
  BY DEF tty_gotoxy
<1>2. total \in Nat
  <2>1. total = Cardinality(Ends(e.text, Len(e.text)))
    BY DEF TotalLines, Ends
  <2> QED
    BY <2>1, SoundParts, EndsFinite
<1>3. line \in Nat
  <2> HIDE DEF total
  <2> QED
    BY <1>2, SizeAssumption
<1> HIDE DEF total, line
<1>4. Sound(e1) /\ line <= TotalLines(e1.text)
  <2>1. CASE line < total
    <3>1. e1 = e
      BY <2>1
    <3> QED
      BY <1>2, <1>3, <2>1, <3>1 DEF total
  <2>2. CASE ~(line < total)
    <3> DEFINE n == line - total + 1
               d == Repeat(NL, n)
    <3>1. n \in Nat /\ total + n = line + 1
      BY <1>2, <1>3, <2>2
    <3> HIDE DEF n
    <3>2. d \in Seq(Char)
      BY <3>1, RepeatType, CharAssumption
    <3>3. e1 = eb_insert(e, Len(e.text), d)
      BY <2>2 DEF n
    <3>4. TotalLines(Inserted(e.text, Len(e.text), d)) = total + n
      BY <3>1, SoundParts, LinesAdded DEF total
    <3> HIDE DEF d
    <3>5. Len(e.text) \in Nat /\ Len(e.text) <= Len(e.text)
      BY SoundParts
    <3>6. Sound(e1) /\ e1.text = Inserted(e.text, Len(e.text), d)
      BY <3>2, <3>3, <3>5, InsertSound
    <3> QED
      BY <1>3, <3>1, <3>4, <3>6
  <2> QED
    BY <2>1, <2>2
<1> HIDE DEF e1
<1>5. start \in 0..Len(e1.text)
  BY <1>3, <1>4, SoundParts, GotoLineType
<1> HIDE DEF start
<1>6. end \in start..Len(e1.text)
  BY <1>4, <1>5, SoundParts, LineEndType
<1> HIDE DEF end
<1>7. /\ start \in Nat /\ end \in Nat /\ start <= end /\ end <= Len(e1.text)
      /\ Len(e1.text) \in Nat
  BY <1>4, <1>5, <1>6, SoundParts
<1>8. Sound(e2) /\ Len(e2.text) \in Nat /\ end <= Len(e2.text)
  <2>1. CASE start + x <= end
    BY <1>4, <1>7, <2>1
  <2>2. CASE ~(start + x <= end)
    <3> DEFINE n == start + x - end
               d == Repeat(Space, n)
    <3>1. n \in Nat
      BY <1>7, <2>2
    <3> HIDE DEF n
    <3>2. d \in Seq(Char) /\ Len(d) \in Nat
      BY <3>1, RepeatType, CharAssumption
    <3>3. e2 = eb_insert(e1, end, d)
      BY <2>2 DEF n
    <3> HIDE DEF d, e2
    <3>4. Sound(e2) /\ Len(e2.text) = Len(e1.text) + Len(d)
      BY <1>4, <1>7, <3>2, <3>3, InsertSound
    <3> QED
      BY <1>7, <3>2, <3>4
  <2> QED
    BY <2>1, <2>2
<1>9. o \in Nat /\ o <= Len(e2.text)
  <2> HIDE DEF e2
  <2> QED
    BY <1>7, <1>8
<1> HIDE DEF e2, o
<1> QED
  BY <1>1, <1>8, <1>9, MoveSound

---------------------------------------------------------------------------
(* The invariant.                                                          *)

(* The parameters are what the offsets and sizes of an escape sequence are *)
(* computed from.                                                          *)
TermInv ==
    /\ Sound(b)
    /\ params \in [0..(MaxParams - 1) -> Nat]

(* The end of tty_emulate.                                                 *)
LEMMA EmulatedInv ==
    ASSUME TermInv, NEW e, Sound(e), Emulated(e),
           params' \in [0..(MaxParams - 1) -> Nat]
    PROVE  TermInv'
BY UpdateSound DEF TermInv, Emulated

LEMMA FinalInv ==
    ASSUME TermInv, NEW e, Sound(e), Final(e)
    PROVE  TermInv'
<1>1. NoParams \in [0..(MaxParams - 1) -> Nat]
  BY DEF NoParams
<1> QED
  BY <1>1, EmulatedInv DEF Final

LEMMA TermInvInit == Init => TermInv
<1> SUFFICES ASSUME Init PROVE TermInv
  OBVIOUS
<1>1. b \in Buffers /\ Len(b.colors) = 0 /\ Len(b.text) = 0 /\ b.cur_offset = 0 /\ b.offset = 0
      /\ b.twice = 0
  BY ColorAssumption DEF Init, Buffers
<1>2. Sound(b)
  BY <1>1 DEF Sound
<1>3. params \in [0..(MaxParams - 1) -> Nat]
  BY DEF Init, NoParams
<1> QED
  BY <1>1, <1>2, <1>3 DEF Init, TermInv

(* What the process writes.                                                *)
LEMMA OutputInv ==
    ASSUME TermInv, Output
    PROVE  TermInv'
<1>a. b.cur_offset <= Len(b.text)
  BY DEF Output, Backspace, LineFeed, CarriageReturn, Escape, WriteChar, Bracket,
         NoBracket, Digits, Semicolon, GotoXY, ClearToEol, DeleteChars,
         InsertChars, SetColor, OtherFinal, Final, Emulated
<1>0. /\ Sound(b) /\ b.text \in Seq(Char) /\ Len(b.text) \in Nat
      /\ b.cur_offset \in Nat /\ b.cur_offset <= Len(b.text)
      /\ b.cur_offset \in 0..Len(b.text)
      /\ params \in [0..(MaxParams - 1) -> Nat]
  BY <1>a, SoundParts DEF TermInv
<1>1. params[0] \in Nat /\ params[1] \in Nat
  BY <1>0, SizeAssumption
<1>2. \A c \in Char : <<c>> \in Seq(Char) /\ Len(<<c>>) = 1
  OBVIOUS
<1>3. LineEnd(b.text, b.cur_offset) \in b.cur_offset..Len(b.text)
  BY <1>0, LineEndType
<1>4. CASE Backspace
  <2> DEFINE o == IF PrevIsNL(b.text, b.cur_offset) THEN b.cur_offset ELSE b.cur_offset - 1
             e == [b EXCEPT !.cur_offset = o]
  <2>1. o \in Nat /\ o <= Len(b.text)
    BY <1>0 DEF PrevIsNL
  <2>2. Emulated(e)
    BY <1>4 DEF Backspace
  <2> HIDE DEF o
  <2>3. Sound(e)
    BY <1>0, <2>1, MoveSound
  <2> QED
    BY <1>0, <1>4, <2>2, <2>3, EmulatedInv DEF Backspace, Stay
<1>5. CASE LineFeed
  <2> DEFINE end == LineEnd(b.text, b.cur_offset)
             e   == IF end = Len(b.text) THEN eb_insert(b, end, <<NL>>) ELSE b
             f   == [e EXCEPT !.cur_offset = end + 1]
  <2>1. Emulated(f)
    BY <1>5 DEF LineFeed
  <2>2. end \in Nat /\ end <= Len(b.text)
    BY <1>0, <1>3
  <2> HIDE DEF end
  <2>3. Sound(e) /\ end + 1 <= Len(e.text)
    <3>1. CASE end = Len(b.text)
      <4>1. <<NL>> \in Seq(Char) /\ Len(<<NL>>) = 1
        BY <1>2, CharAssumption
      <4>2. Sound(eb_insert(b, end, <<NL>>))
            /\ Len(eb_insert(b, end, <<NL>>).text) = Len(b.text) + Len(<<NL>>)
        BY <1>0, <2>2, <4>1, InsertSound
      <4> QED
        BY <3>1, <4>1, <4>2
    <3>2. CASE end # Len(b.text)
      BY <1>0, <2>2, <3>2
    <3> QED
      BY <3>1, <3>2
  <2>4. end + 1 \in Nat
    BY <2>2
  <2> HIDE DEF e
  <2>5. Sound(f)
    BY <2>3, <2>4, MoveSound
  <2> HIDE DEF f
  <2> QED
    BY <1>0, <1>5, <2>1, <2>5, EmulatedInv DEF LineFeed, Stay
<1>6. CASE CarriageReturn
  <2> DEFINE o == LineStart(b.text, b.cur_offset)
             e == [b EXCEPT !.cur_offset = o]
  <2>1. Emulated(e)
    BY <1>6 DEF CarriageReturn
  <2>2. o \in 0..b.cur_offset
    BY <1>0, LineStartType
  <2> HIDE DEF o
  <2>3. o \in Nat /\ o <= Len(b.text)
    BY <1>0, <2>2
  <2>4. Sound(e)
    BY <1>0, <2>3, MoveSound
  <2> QED
    BY <1>0, <1>6, <2>1, <2>4, EmulatedInv DEF CarriageReturn, Stay
<1>7. CASE Escape
  BY <1>0, <1>7, EmulatedInv DEF Escape
<1>8. CASE \E c \in Char \ {NL} : WriteChar(c)
  <2> PICK c \in Char \ {NL} : WriteChar(c)
    BY <1>8
  <2> DEFINE o == b.cur_offset
             e == IF NextIsNL(b.text, o) THEN eb_insert(b, o, <<c>>)
                                         ELSE eb_write(b, o, <<c>>)
             f == [e EXCEPT !.cur_offset = o + 1]
  <2>1. Emulated(f)
    BY DEF WriteChar
  <2>2. <<c>> \in Seq(Char) /\ Len(<<c>>) = 1
    BY <1>2
  <2>3. Sound(e) /\ o + 1 <= Len(e.text)
    <3>1. CASE NextIsNL(b.text, o)
      <4>1. Sound(eb_insert(b, o, <<c>>))
            /\ Len(eb_insert(b, o, <<c>>).text) = Len(b.text) + Len(<<c>>)
        BY <1>0, <2>2, InsertSound
      <4> QED
        BY <1>0, <2>2, <3>1, <4>1
    <3>2. CASE ~NextIsNL(b.text, o)
      <4>1. o + Len(<<c>>) <= Len(b.text)
        BY <1>0, <2>2, <3>2 DEF NextIsNL
      <4>2. Sound(eb_write(b, o, <<c>>)) /\ Len(eb_write(b, o, <<c>>).text) = Len(b.text)
        BY <1>0, <2>2, <4>1, WriteSound
      <4> QED
        BY <2>2, <3>2, <4>1, <4>2
    <3> QED
      BY <3>1, <3>2
  <2>4. o + 1 \in Nat
    BY <1>0
  <2> HIDE DEF e
  <2>5. Sound(f)
    BY <2>3, <2>4, MoveSound
  <2> HIDE DEF f
  <2> QED
    BY <1>0, <2>1, <2>5, EmulatedInv DEF WriteChar, Stay
<1>9. CASE Bracket
  <2>1. NoParams \in [0..(MaxParams - 1) -> Nat]
    BY DEF NoParams
  <2> QED
    BY <1>0, <1>9, <2>1, EmulatedInv DEF Bracket
<1>10. CASE NoBracket
  BY <1>0, <1>10, EmulatedInv DEF NoBracket
<1>11. CASE \E v \in Values : Digits(v)
  <2> PICK v \in Values : Digits(v)
    BY <1>11
  <2>1. v \in Nat
    BY ColorAssumption
  <2>2. params' \in [0..(MaxParams - 1) -> Nat]
    BY <1>0, <2>1 DEF Digits
  <2>3. Emulated(b)
    BY DEF Digits
  <2> QED
    BY <1>0, <2>2, <2>3, EmulatedInv
<1>12. CASE Semicolon
  BY <1>0, <1>12, EmulatedInv DEF Semicolon
<1>13. CASE GotoXY
  <2> DEFINE y == params[0] - 1
             x == params[1] - 1
             x1 == IF x < 0 THEN 0 ELSE x
             y1 == IF y < 0 THEN 0 ELSE IF y >= YSize THEN YSize - 1 ELSE y
  <2>1. Final(tty_gotoxy(b, x1, y1))
    BY <1>13 DEF GotoXY
  <2>2. x1 \in Nat /\ y1 \in Nat
    BY <1>1, SizeAssumption
  <2> HIDE DEF x1, y1
  <2>3. Sound(tty_gotoxy(b, x1, y1))
    BY <1>0, <2>2, GotoSound
  <2> QED
    BY <2>1, <2>3, FinalInv
<1>14. CASE ClearToEol
  <2> DEFINE n == LineEnd(b.text, b.cur_offset) - b.cur_offset
  <2>1. Final(eb_delete(b, b.cur_offset, n))
    BY <1>14 DEF ClearToEol
  <2>2. n \in Nat /\ b.cur_offset + n <= Len(b.text)
    BY <1>0, <1>3
  <2> HIDE DEF n
  <2>3. Sound(eb_delete(b, b.cur_offset, n))
    BY <1>0, <2>2, DeleteSound
  <2> QED
    BY <2>1, <2>3, FinalInv
<1>15. CASE DeleteChars
  <2> DEFINE m    == AtLeast1(params[0])
             left == LineEnd(b.text, b.cur_offset) - b.cur_offset
             n    == IF m > left THEN left ELSE m
  <2>1. Final(eb_delete(b, b.cur_offset, n))
    BY <1>15 DEF DeleteChars
  <2>2. m \in Nat
    BY <1>1 DEF AtLeast1
  <2>3. left \in Nat /\ b.cur_offset + left <= Len(b.text)
    BY <1>0, <1>3
  <2> HIDE DEF m, left
  <2>4. n \in Nat /\ b.cur_offset + n <= Len(b.text)
    BY <1>0, <2>2, <2>3
  <2> HIDE DEF n
  <2>5. Sound(eb_delete(b, b.cur_offset, n))
    BY <1>0, <2>4, DeleteSound
  <2> QED
    BY <2>1, <2>5, FinalInv
<1>16. CASE InsertChars
  <2> DEFINE m == AtLeast1(params[0])
             d == Repeat(Space, m)
  <2>1. Final(eb_insert(b, b.cur_offset, d))
    BY <1>16 DEF InsertChars
  <2>2. m \in Nat
    BY <1>1 DEF AtLeast1
  <2> HIDE DEF m
  <2>3. d \in Seq(Char)
    BY <2>2, CharAssumption, RepeatType
  <2> HIDE DEF d
  <2>4. Sound(eb_insert(b, b.cur_offset, d))
    BY <1>0, <2>3, InsertSound
  <2> QED
    BY <2>1, <2>4, FinalInv
<1>17. CASE SetColor
  <2>1. PICK c \in Colors : Final([b EXCEPT !.color = c])
    BY <1>17 DEF SetColor
  <2>2. Sound([b EXCEPT !.color = c])
    BY <1>0 DEF Sound, Buffers
  <2> QED
    BY <2>1, <2>2, FinalInv
<1>18. CASE OtherFinal
  BY <1>0, <1>18, FinalInv DEF OtherFinal
<1> QED
  BY <1>4, <1>5, <1>6, <1>7, <1>8, <1>9, <1>10, <1>11, <1>12, <1>13, <1>14,
     <1>15, <1>16, <1>17, <1>18 DEF Output

(* What the user does, where the cursor is in the text.                    *)
LEMMA EditSound ==
    ASSUME Sound(b), UserEdit
    PROVE  Sound(b')
<1>0. /\ b.offset \in Nat /\ b.offset <= Len(b.text) /\ Len(b.text) \in Nat
      /\ b.text \in Seq(Char)
  BY SoundParts DEF UserEdit
<1>1. \A c \in Char : <<c>> \in Seq(Char) /\ Len(<<c>>) = 1
  OBVIOUS
<1>2. ASSUME NEW c \in Char,
             b' = [eb_insert(b, b.offset, <<c>>) EXCEPT !.offset = b.offset + 1]
      PROVE  Sound(b')
  <2> DEFINE e == eb_insert(b, b.offset, <<c>>)
  <2>1. <<c>> \in Seq(Char) /\ Len(<<c>>) = 1
    BY <1>1
  <2>2. Sound(e) /\ Len(e.text) = Len(b.text) + Len(<<c>>)
    BY <1>0, <2>1, InsertSound
  <2>3. b.offset + 1 \in Nat /\ b.offset + 1 <= Len(e.text)
    BY <1>0, <2>1, <2>2
  <2>4. b' = [e EXCEPT !.offset = b.offset + 1]
    BY <1>2
  <2> HIDE DEF e
  <2> QED
    BY ZenonT(60), <2>2, <2>3, <2>4, MoveSound
<1>3. ASSUME NEW c \in Char, ~NextIsNL(b.text, b.offset),
             b' = [eb_write(b, b.offset, <<c>>) EXCEPT !.offset = b.offset + 1]
      PROVE  Sound(b')
  <2> DEFINE e == eb_write(b, b.offset, <<c>>)
  <2>1. <<c>> \in Seq(Char) /\ Len(<<c>>) = 1 /\ b.offset + 1 <= Len(b.text)
    BY <1>0, <1>1, <1>3 DEF NextIsNL
  <2>2. Sound(e) /\ Len(e.text) = Len(b.text)
    BY <1>0, <2>1, WriteSound
  <2>3. b.offset + 1 \in Nat /\ b.offset + 1 <= Len(e.text)
    BY <1>0, <2>1, <2>2
  <2>4. b' = [e EXCEPT !.offset = b.offset + 1]
    BY <1>3
  <2> HIDE DEF e
  <2> QED
    BY ZenonT(60), <2>2, <2>3, <2>4, MoveSound
<1>4. CASE b.offset < Len(b.text) /\ b' = eb_delete(b, b.offset, 1)
  <2>1. b.offset + 1 <= Len(b.text)
    BY <1>0, <1>4
  <2> QED
    BY <1>0, <1>4, <2>1, DeleteSound
<1>5. CASE b.offset > 0 /\ b' = eb_delete(b, b.offset - 1, 1)
  <2> DEFINE o == b.offset - 1
  <2>1. o \in Nat /\ o + 1 <= Len(b.text)
    BY <1>0, <1>5
  <2>2. b' = eb_delete(b, o, 1)
    BY <1>5
  <2> HIDE DEF o
  <2> QED
    BY <2>1, <2>2, DeleteSound
<1>6. ASSUME NEW o \in 0..Len(b.text), b' = [b EXCEPT !.offset = o]
      PROVE  Sound(b')
  <2>1. o \in Nat /\ o <= Len(b.text)
    BY <1>0
  <2> QED
    BY <1>6, <2>1, MoveSound
<1> QED
  BY <1>2, <1>3, <1>4, <1>5, <1>6 DEF UserEdit

(* The three kinds of log entries that undo reverts.                       *)
LEMMA UndoSound ==
    ASSUME Sound(b), do_undo
    PROVE  Sound(b')
<1>0. /\ Len(b.text) \in Nat /\ b.text \in Seq(Char) /\ b.twice \in Nat
      /\ b.color \in Colors
  BY SoundParts
<1>a. \A d \in Logged : d \in Seq(Char) /\ Len(d) \in Nat
  BY DEF Logged
<1>1. ASSUME NEW o \in 0..Len(b.text), NEW n \in 1..Len(b.text),
             o + n <= Len(b.text), b' = UndoInsert(o, n)
      PROVE  Sound(b')
  <2> DEFINE e == eb_delete(b, o, n)
  <2>1. o \in Nat /\ n \in Nat
    BY <1>0
  <2>2. Sound(e) /\ Len(e.text) = Len(b.text) - n
    BY <1>1, <2>1, DeleteSound
  <2>3. o <= Len(e.text)
    BY <1>0, <1>1, <2>1, <2>2
  <2>4. b' = [e EXCEPT !.offset = o]
    BY <1>1 DEF UndoInsert
  <2> HIDE DEF e
  <2> QED
    BY <2>1, <2>2, <2>3, <2>4, MoveSound
<1>2. ASSUME NEW o \in 0..Len(b.text), NEW d \in Logged,
             o + Len(d) <= Len(b.text), b' = UndoWrite(o, d)
      PROVE  Sound(b')
  <2> DEFINE n  == Len(d)
             e1 == eb_delete(b, o, n)
             e  == eb_insert(e1, o, d)
             c  == Overwritten(e.colors, o, Repeat(e.color, n))
             p  == o + n
  <2>1. o \in Nat /\ n \in Nat /\ d \in Seq(Char) /\ p \in Nat /\ p <= Len(b.text)
    BY <1>0, <1>2, <1>a
  <2>2. b' = [e EXCEPT !.colors = c, !.offset = p]
    BY <1>2, CallbackCases DEF UndoWrite
  <2>3. Sound(e1) /\ Len(e1.text) = Len(b.text) - n
    BY <2>1, DeleteSound
  <2>4. o <= Len(e1.text)
    BY <1>0, <2>1, <2>3
  <2> HIDE DEF e1
  <2>5. Sound(e) /\ Len(e.text) = Len(e1.text) + n
    BY <2>1, <2>3, <2>4, InsertSound
  <2>6. Len(e.text) = Len(b.text)
    BY <1>0, <2>1, <2>3, <2>5
  <2> HIDE DEF n, e
  <2>7. Repeat(e.color, n) \in Seq(Colors) /\ Len(Repeat(e.color, n)) = n
    BY <2>1, <2>5, SoundParts, RepeatType
  <2>b. /\ e.colors \in Seq(Colors) /\ e.twice \in Nat /\ e.cur_offset \in Nat
        /\ Len(e.colors) = Len(e.text) + e.twice /\ e.text \in Seq(Char)
        /\ e.twice = 0 => e.cur_offset <= Len(e.text)
    BY <2>5, SoundParts
  <2>8. p <= Len(e.colors) /\ e.colors \in Seq(Colors)
    BY <1>0, <2>1, <2>6, <2>b
  <2>9. c \in Seq(Colors) /\ Len(c) = Len(e.colors)
    BY <2>1, <2>7, <2>8, OverwrittenType
  <2> HIDE DEF c, p
  <2>10. b' = With(e, e.text, c, e.cur_offset, p)
    BY <2>2, <2>5 DEF With, Sound, Buffers
  <2>11. /\ e.text \in Seq(Char) /\ e.cur_offset \in Nat
         /\ Len(c) = Len(e.text) + e.twice
         /\ InText(e, e.text, e.cur_offset, p)
    BY <2>1, <2>6, <2>9, <2>b DEF InText
  <2> QED
    BY <2>1, <2>5, <2>9, <2>10, <2>11, WithSound
<1>3. ASSUME NEW o \in 0..Len(b.text), NEW d \in Logged, b' = UndoDelete(o, d)
      PROVE  Sound(b')
  <2> DEFINE n == Len(d)
             e == eb_insert(b, o, d)
             c == Inserted(e.colors, o, Repeat(e.color, n))
             x == AfterInsert(e.cur_offset, o, n)
             p == o + n
             k == e.twice + n
  <2>1. o \in Nat /\ o <= Len(b.text) /\ n \in Nat /\ d \in Seq(Char)
    BY <1>0, <1>a
  <2>2. b' = [e EXCEPT !.colors = c, !.cur_offset = x, !.offset = p, !.twice = k]
    <3>1. shell_color_callback(e, "INSERT", o, n) = c
      BY CallbackCases
    <3> QED
      BY <1>3, <3>1, Zenon DEF UndoDelete
  <2>3. Sound(e) /\ Len(e.text) = Len(b.text) + n
    BY <2>1, InsertSound
  <2>4. n # 0
    BY DEF Logged
  <2> HIDE DEF n, e
  <2>5. /\ e.text \in Seq(Char) /\ e.colors \in Seq(Colors) /\ e.color \in Colors
        /\ e.cur_offset \in Nat /\ e.twice \in Nat
        /\ Len(e.colors) = Len(e.text) + e.twice /\ Len(e.text) \in Nat
    BY <2>3, SoundParts
  <2>6. Repeat(e.color, n) \in Seq(Colors) /\ Len(Repeat(e.color, n)) = n
    BY <2>1, <2>5, RepeatType
  <2>7. o <= Len(e.colors)
    BY <1>0, <2>1, <2>3, <2>5
  <2>8. c \in Seq(Colors) /\ Len(c) = Len(e.colors) + n
    BY <2>1, <2>5, <2>7, ColorsInserted
  <2>9. x \in Nat /\ p \in Nat /\ k \in Nat /\ k # 0
    <3>1. \A q \in Nat : AfterInsert(q, o, n) \in Nat
      BY <2>1 DEF AfterInsert
    <3>2. p \in Nat
      BY <2>1
    <3>3. k \in Nat /\ k # 0
      <4> DEFINE w == e.twice
      <4>1. w \in Nat /\ n \in Nat /\ n # 0
        BY <2>1, <2>4, <2>5
      <4> HIDE DEF w
      <4>2. w + n \in Nat /\ w + n # 0
        BY <4>1
      <4> QED
        BY <4>2 DEF w
    <3> QED
      BY <2>5, <3>1, <3>2, <3>3
  <2>10. Len(c) = Len(e.text) + k
    BY <2>1, <2>5, <2>8
  <2> HIDE DEF c, x, p, k
  <2> DEFINE TT == Seq(Char)
             CC == Seq(Colors)
             BB == [text : TT, colors : CC, color : Colors, cur_offset : Nat,
                    offset : Nat, twice : Nat]
  <2>11. e \in BB /\ c \in CC
    BY <2>3, <2>8 DEF Sound, Buffers
  <2> HIDE DEF TT, CC
  <2>12. b' \in BB /\ b'.text = e.text /\ b'.colors = c /\ b'.twice = k
    BY <2>2, <2>9, <2>11
  <2>13. b' \in Buffers
    BY <2>12 DEF Buffers, TT, CC
  <2> HIDE DEF BB
  <2> QED
    BY <2>9, <2>10, <2>12, <2>13 DEF Sound
<1> QED
  BY <1>1, <1>2, <1>3 DEF do_undo

LEMMA TermInvNext == TermInv /\ [Next]_vars => TermInv'
<1> SUFFICES ASSUME TermInv, [Next]_vars PROVE TermInv'
  OBVIOUS
<1>1. CASE Output
  BY <1>1, OutputInv
<1>2. CASE do_shell_toggle_input
  BY <1>2, UpdateSound DEF do_shell_toggle_input, TermInv
<1>3. CASE UserEdit
  BY <1>3, EditSound DEF UserEdit, TermInv
<1>4. CASE do_undo
  BY <1>4, UndoSound DEF do_undo, TermInv
<1>5. CASE shell_pid_cb
  <2>1. Len(b.text) \in Nat /\ Message \in Seq(Char)
    BY SoundParts, CharAssumption DEF TermInv
  <2>2. Sound(eb_insert(b, Len(b.text), Message))
    BY <2>1, InsertSound DEF TermInv
  <2> QED
    BY <1>5, <2>2 DEF shell_pid_cb, TermInv
<1>6. CASE UNCHANGED vars
  BY <1>6 DEF vars, TermInv
<1> QED
  BY <1>1, <1>2, <1>3, <1>4, <1>5, <1>6 DEF Next

(* Whatever the process writes and the user edits or undoes, in any order, *)
(* a shell buffer has one color for every byte, and one more for every     *)
(* byte of a deletion that was undone, and until the first such undo the   *)
(* cursors of the terminal and of the window are in the text:              *)
(* shell_color_callback keeps the colors next to the text in every         *)
(* operation of shell.c, and do_undo (buffer.c) runs it twice in that one. *)
THEOREM TerminalInSync == Spec => []ColorsInSync
<1>1. TermInv => ColorsInSync
  BY SoundParts DEF TermInv, ColorsInSync
<1> QED
  BY TermInvInit, TermInvNext, <1>1, PTL DEF Spec
================================================================================
