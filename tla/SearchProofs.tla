------------------------------ MODULE SearchProofs ------------------------------
(***************************************************************************)
(* Proofs about Search: what is shown is a match, a repeated search goes   *)
(* on, and query-replace replaces what it says, from left to right.        *)
(***************************************************************************)
EXTENDS Search, TLAPS, NaturalsInduction, WellFoundedInduction

Texts == Seq(Byte)

---------------------------------------------------------------------------
(* Numbers.                                                                *)

LEMMA LeastNumber ==
    ASSUME NEW T \in SUBSET Nat, T # {}
    PROVE  \E x \in T : \A y \in T : x <= y
<1> DEFINE R == {ss \in Nat \X Nat : ss[1] < ss[2]}
<1>1. IsWellFoundedOn(R, Nat)
  BY NatLessThanWellFounded DEF OpToRel
<1> HIDE DEF R
<1>2. PICK x \in T : \A y \in T : ~(<<y, x>> \in R)
  BY <1>1, WFMin
<1>3. ASSUME NEW y \in T PROVE x <= y
  <2> SUFFICES ASSUME ~(x <= y) PROVE FALSE
    OBVIOUS
  <2>1. <<y, x>> \in R
    BY DEF R
  <2> QED
    BY <1>2, <2>1
<1> QED
  BY <1>3

LEMMA LargestNumber ==
    ASSUME NEW n \in Nat, NEW T \in SUBSET (0..n), T # {}
    PROVE  \E x \in T : \A y \in T : y <= x
<1> DEFINE U == {n - x : x \in T}
<1>1. U \in SUBSET Nat /\ U # {}
  OBVIOUS
<1> HIDE DEF U
<1>2. PICK u \in U : \A y \in U : u <= y
  BY <1>1, LeastNumber
<1>3. PICK x \in T : u = n - x
  BY DEF U
<1>4. ASSUME NEW y \in T PROVE y <= x
  <2>1. n - y \in U
    BY DEF U
  <2> QED
    BY <1>2, <1>3, <2>1
<1> QED
  BY <1>4

(* Induction up to m, on a set of numbers.                                 *)
LEMMA UpTo ==
    ASSUME NEW m \in Nat, NEW T, 0 \in T,
           \A n \in 0..(m - 1) : n \in T => n + 1 \in T
    PROVE  m \in T
<1> DEFINE U == {n \in 0..m : n \notin T}
<1> SUFFICES ASSUME U # {} PROVE FALSE
  OBVIOUS
<1>0. U \in SUBSET Nat
  OBVIOUS
<1>1. PICK x \in U : \A y \in U : x <= y
  <2> HIDE DEF U
  <2> QED
    BY <1>0, LeastNumber
<1>2. x # 0 /\ x - 1 \in 0..(m - 1) /\ x - 1 \notin U
  BY <1>1
<1> QED
  BY <1>2

---------------------------------------------------------------------------
(* eb_search.                                                              *)

(* buf is found at offset q of t.                                          *)
IsHit(t, q, buf, flags) ==
    /\ q \in Nat /\ q + Len(buf) <= Len(t) /\ buf # << >>
    /\ Match(t, q, buf, flags)

(* eb_search yields -1 or a match on the side asked for.                   *)
LEMMA SearchFinds ==
    ASSUME NEW t \in Texts, NEW o \in Int, NEW dir \in {-1, 1}, dir = 1 => o >= 0,
           NEW buf \in Texts, NEW flags, NEW pending
    PROVE  LET r == eb_search(t, o, dir, buf, flags, pending)
           IN  \/ r = -1
               \/ /\ IsHit(t, r, buf, flags)
                  /\ dir = 1 => r >= o
                  /\ dir = -1 => r < o
<1> DEFINE end == Len(t) - Len(buf)
           tried == Tried(t, o, dir, buf)
           hits == {q \in tried : Match(t, q, buf, flags)}
           nearest == CHOOSE q \in hits :
                        \A p \in hits : IF dir < 0 THEN p <= q ELSE q <= p
           r == eb_search(t, o, dir, buf, flags, pending)
<1>0. Len(t) \in Nat /\ Len(buf) \in Nat /\ end \in Int
  BY DEF Texts
<1>1. r = -1 \/ (r = nearest /\ hits # {} /\ buf # << >>)
  BY DEF eb_search
<1>2. SUFFICES ASSUME hits # {}, buf # << >>
               PROVE  /\ nearest \in tried /\ Match(t, nearest, buf, flags)
                      /\ nearest \in Nat /\ nearest <= end
                      /\ dir = 1 => nearest >= o
                      /\ dir = -1 => nearest < o
  <2> HIDE DEF nearest, hits, r
  <2> QED
    BY <1>0, <1>1, <1>2 DEF IsHit, r
<1>3. ASSUME NEW q \in tried
      PROVE  /\ q \in Nat /\ q <= end /\ end \in Nat
             /\ dir = 1 => q >= o
             /\ dir = -1 => q < o
  BY <1>0 DEF Tried
<1>4. nearest \in hits
  <2> HIDE DEF end, tried
  <2>1. hits \in SUBSET (0..end) /\ end \in Nat /\ hits \in SUBSET Nat
    BY <1>0, <1>2, <1>3
  <2> HIDE DEF hits
  <2>2. CASE dir < 0
    BY <1>2, <2>1, <2>2, LargestNumber
  <2>3. CASE ~(dir < 0)
    BY <1>2, <2>1, <2>3, LeastNumber
  <2> QED
    BY <2>2, <2>3
<1> HIDE DEF nearest
<1> QED
  BY <1>3, <1>4

(* A search forwards to which no input is pending yields the first match.  *)
LEMMA SearchFirst ==
    ASSUME NEW t \in Texts, NEW o \in Nat, NEW buf \in Texts, NEW flags, buf # << >>
    PROVE  LET r == eb_search(t, o, 1, buf, flags, FALSE)
               end == Len(t) - Len(buf)
           IN  /\ r \in Int
               /\ r = -1 => \A q \in o..end : ~Match(t, q, buf, flags)
               /\ r # -1 => \A q \in o..(r - 1) : ~Match(t, q, buf, flags)
<1> DEFINE end == Len(t) - Len(buf)
           hits == {q \in o..end : Match(t, q, buf, flags)}
           nearest == CHOOSE q \in hits : \A p \in hits : q <= p
           r == eb_search(t, o, 1, buf, flags, FALSE)
<1>0. Len(t) \in Nat /\ Len(buf) \in Nat /\ end \in Int
  BY DEF Texts
<1>1. r = IF hits = {} THEN -1 ELSE nearest
  BY DEF eb_search, Tried
<1> HIDE DEF r
<1> SUFFICES /\ r \in Int
             /\ r = -1 => \A q \in o..end : ~Match(t, q, buf, flags)
             /\ r # -1 => \A q \in o..(r - 1) : ~Match(t, q, buf, flags)
  BY DEF r
<1>2. CASE hits = {}
  BY <1>1, <1>2
<1>3. CASE hits # {}
  <2>1. hits \in SUBSET Nat
    BY <1>0
  <2> HIDE DEF hits
  <2>2. nearest \in hits /\ \A p \in hits : nearest <= p
    BY <1>3, <2>1, LeastNumber
  <2>3. r = nearest
    BY <1>1, <1>3
  <2> HIDE DEF nearest
  <2>4. r \in o..end
    BY <2>2, <2>3 DEF hits
  <2>5. ASSUME NEW q \in o..(r - 1), Match(t, q, buf, flags) PROVE FALSE
    <3>1. q \in o..end /\ q < r
      BY <1>0, <2>4, <2>5
    <3>2. q \in hits
      BY <2>5, <3>1 DEF hits
    <3> QED
      BY <1>0, <2>2, <2>3, <2>4, <3>1, <3>2
  <2>6. r \in Int /\ r # -1
    BY <1>0, <2>4
  <2> QED
    BY <2>5, <2>6
<1> QED
  BY <1>2, <1>3

---------------------------------------------------------------------------
(* The bytes of the string that is searched.                               *)

Element == [tag : {"char"}, ch : Byte] \cup [tag : {"found"}, at : Nat]

LEMMA ElementIs ==
    ASSUME NEW v \in Element
    PROVE  /\ IsChar(v) => v.ch \in Byte
           /\ ~IsChar(v) => v.at \in Nat
BY DEF Element, IsChar

LEMMA ElementsAre ==
    /\ \A c \in Byte : Typed(c) \in Element /\ IsChar(Typed(c))
    /\ \A o \in Nat : /\ Found(o) \in Element /\ ~IsChar(Found(o))
                      /\ Found(o).at = o
BY DEF Element, Typed, Found, IsChar

(* The equation of the function buf in SearchBytes, up to m.               *)
BytesEquation(buf, str, m) ==
    buf = [i \in 0..m |-> IF i = 0 THEN << >>
                          ELSE IF IsChar(str[i]) THEN Append(buf[i - 1], str[i].ch)
                          ELSE buf[i - 1]]

BytesFunction(str, m) == CHOOSE buf : BytesEquation(buf, str, m)

LEMMA BytesExist ==
    ASSUME NEW str \in Seq(Element), NEW m \in 0..Len(str)
    PROVE  \E buf : BytesEquation(buf, str, m)
<1> DEFINE T == {n \in 0..m : \E buf : BytesEquation(buf, str, n)}
<1>0. m \in Nat
  OBVIOUS
<1>1. 0 \in T
  <2>1. BytesEquation([i \in 0..0 |-> << >>], str, 0)
    BY DEF BytesEquation
  <2> QED
    BY <1>0, <2>1
<1>2. ASSUME NEW n \in 0..(m - 1), n \in T PROVE n + 1 \in T
  <2>1. PICK buf : BytesEquation(buf, str, n)
    BY <1>2
  <2> DEFINE more == [i \in 0..(n + 1) |->
                        IF i <= n THEN buf[i]
                        ELSE IF IsChar(str[n + 1]) THEN Append(buf[n], str[n + 1].ch)
                        ELSE buf[n]]
  <2>2. n \in Nat /\ (n + 1) - 1 = n
    BY <1>0
  <2>3. ASSUME NEW i \in 0..(n + 1)
        PROVE  more[i] = IF i = 0 THEN << >>
                         ELSE IF IsChar(str[i]) THEN Append(more[i - 1], str[i].ch)
                         ELSE more[i - 1]
    <3>1. CASE i = 0
      BY <2>1, <2>2, <3>1 DEF BytesEquation
    <3>2. CASE i # 0 /\ i <= n
      <4>1. i \in 0..n /\ i - 1 \in 0..(n + 1) /\ i - 1 <= n
        BY <2>2, <3>2
      <4>2. more[i] = buf[i] /\ more[i - 1] = buf[i - 1]
        BY <3>2, <4>1
      <4>3. buf[i] = IF IsChar(str[i]) THEN Append(buf[i - 1], str[i].ch)
                     ELSE buf[i - 1]
        BY <2>1, <3>2, <4>1 DEF BytesEquation
      <4> QED
        BY <3>2, <4>2, <4>3
    <3>3. CASE i = n + 1
      <4>1. i # 0 /\ ~(i <= n) /\ n \in 0..(n + 1) /\ i - 1 = n
        BY <2>2, <3>3
      <4>2. more[n] = buf[n]
        BY <2>2, <4>1
      <4> QED
        BY <3>3, <4>1, <4>2
    <3> QED
      BY <2>2, <3>1, <3>2, <3>3
  <2>4. more = [i \in 0..(n + 1) |-> more[i]]
    OBVIOUS
  <2> HIDE DEF more
  <2>5. BytesEquation(more, str, n + 1)
    BY <2>3, <2>4 DEF BytesEquation
  <2>6. n + 1 \in 0..m
    BY <1>0
  <2> QED
    BY <2>5, <2>6
<1> HIDE DEF T
<1>3. m \in T
  BY <1>0, <1>1, <1>2, UpTo
<1> QED
  BY <1>3 DEF T

(* They are bytes, and no more than the elements of the string.            *)
LEMMA SearchBytesAre ==
    ASSUME NEW str \in Seq(Element)
    PROVE  SearchBytes(str) \in Texts /\ Len(SearchBytes(str)) <= Len(str)
<1> DEFINE m == Len(str)
           buf == BytesFunction(str, m)
           T == {n \in 0..m : buf[n] \in Texts /\ Len(buf[n]) <= n}
<1>0. m \in Nat
  OBVIOUS
<1>1. SearchBytes(str) = buf[m]
  BY DEF SearchBytes, BytesFunction, BytesEquation
<1>2. BytesEquation(buf, str, m)
  BY <1>0, BytesExist DEF BytesFunction
<1> HIDE DEF buf
<1>3. 0 \in T
  BY <1>0, <1>2 DEF BytesEquation, Texts
<1>4. ASSUME NEW n \in 0..(m - 1), n \in T PROVE n + 1 \in T
  <2>1. n + 1 \in 0..m /\ n + 1 # 0 /\ (n + 1) - 1 = n /\ n + 1 \in 1..Len(str)
    BY <1>0
  <2>2. buf[n + 1] = IF IsChar(str[n + 1]) THEN Append(buf[n], str[n + 1].ch)
                     ELSE buf[n]
    BY <1>2, <2>1 DEF BytesEquation
  <2>3. str[n + 1] \in Element
    BY <2>1
  <2>4. IsChar(str[n + 1]) => str[n + 1].ch \in Byte
    BY <2>3, ElementIs
  <2>5. buf[n] \in Texts /\ Len(buf[n]) <= n /\ n \in Nat
    BY <1>4
  <2>6. buf[n + 1] \in Texts /\ Len(buf[n + 1]) <= n + 1
    BY <2>2, <2>4, <2>5 DEF Texts
  <2> QED
    BY <2>1, <2>6
<1> HIDE DEF T
<1>5. m \in T
  BY <1>0, <1>3, <1>4, UpTo
<1> QED
  BY <1>1, <1>5 DEF T

---------------------------------------------------------------------------
(* Where the search starts.                                                *)

Searching == [start_offset : Nat, dir : {-1, 1}, string : Seq(Element),
              flags : SUBSET {IGNORECASE, SMARTCASE, WORD},
              found_offset : Nat \cup {-1}]

LEMMA SearchOffsetIs ==
    ASSUME NEW x \in Searching
    PROVE  /\ SearchOffset(x) \in Int
           /\ x.dir = 1 => SearchOffset(x) >= 0
           /\ x.string # << >> /\ ~IsChar(x.string[Len(x.string)]) =>
                SearchOffset(x) = x.string[Len(x.string)].at + x.dir
<1> DEFINE n == Len(x.string)
           tags == {i \in 1..n : ~IsChar(x.string[i])}
           top == CHOOSE i \in tags : \A j \in tags : j <= i
<1>0. /\ x.string \in Seq(Element) /\ x.start_offset \in Nat /\ x.dir \in {-1, 1}
      /\ n \in Nat
  BY DEF Searching
<1>1. SearchOffset(x) = IF tags = {} THEN x.start_offset ELSE x.string[top].at + x.dir
  BY DEF SearchOffset
<1>2. CASE tags = {}
  <2>1. ~(x.string # << >> /\ ~IsChar(x.string[n]))
    <3> SUFFICES ASSUME x.string # << >>, ~IsChar(x.string[n]) PROVE FALSE
      OBVIOUS
    <3>1. n \in 1..n
      BY <1>0
    <3> QED
      BY <1>2, <3>1
  <2> QED
    BY <1>0, <1>1, <1>2, <2>1
<1>3. CASE tags # {}
  <2>1. tags \in SUBSET (0..n)
    BY <1>0
  <2> HIDE DEF tags
  <2>2. top \in tags /\ \A j \in tags : j <= top
    BY <1>0, <1>3, <2>1, LargestNumber
  <2> HIDE DEF top
  <2>3. top \in 1..n /\ ~IsChar(x.string[top])
    BY <2>2 DEF tags
  <2>4. x.string[top] \in Element
    BY <1>0, <2>3
  <2>5. x.string[top].at \in Nat
    BY <2>3, <2>4, ElementIs
  <2>6. ASSUME x.string # << >>, ~IsChar(x.string[n]) PROVE top = n
    <3>1. n \in 1..n
      BY <1>0, <2>6
    <3>2. n \in tags
      BY <2>6, <3>1 DEF tags
    <3> QED
      BY <1>0, <2>2, <2>3, <3>2
  <2> QED
    BY <1>0, <1>1, <1>3, <2>5, <2>6
<1> QED
  BY <1>2, <1>3

---------------------------------------------------------------------------
(* Texts.                                                                  *)

LEMMA SeqEqual ==
    ASSUME NEW t \in Texts, NEW u \in Texts, Len(t) = Len(u),
           \A i \in 1..Len(t) : t[i] = u[i]
    PROVE  t = u
BY DEF Texts

LEMMA CatAssoc ==
    ASSUME NEW t \in Texts, NEW u \in Texts, NEW v \in Texts
    PROVE  (t \o u) \o v = t \o (u \o v)
BY DEF Texts

LEMMA CatEmpty ==
    ASSUME NEW t \in Texts PROVE << >> \o t = t /\ t \o << >> = t
BY DEF Texts

LEMMA CatType ==
    ASSUME NEW t \in Texts, NEW u \in Texts
    PROVE  t \o u \in Texts /\ Len(t \o u) = Len(t) + Len(u)
BY DEF Texts

LEMMA Slice ==
    ASSUME NEW t \in Texts, NEW m \in Nat, NEW n \in Nat, m <= n, n <= Len(t)
    PROVE  /\ SubSeq(t, m + 1, n) \in Texts
           /\ Len(SubSeq(t, m + 1, n)) = n - m
           /\ \A i \in 1..(n - m) : SubSeq(t, m + 1, n)[i] = t[m + i]
BY DEF Texts

LEMMA SliceCat ==
    ASSUME NEW t \in Texts, NEW m \in Nat, NEW n \in Nat, NEW o \in Nat,
           m <= n, n <= o, o <= Len(t)
    PROVE  SubSeq(t, m + 1, o) = SubSeq(t, m + 1, n) \o SubSeq(t, n + 1, o)
BY DEF Texts

LEMMA SliceNone ==
    ASSUME NEW t \in Texts, NEW m \in Nat, m <= Len(t)
    PROVE  SubSeq(t, m + 1, m) = << >>
BY DEF Texts

LEMMA SliceOne ==
    ASSUME NEW t \in Texts, NEW m \in Nat, m < Len(t)
    PROVE  /\ SubSeq(t, m + 1, m + 1) = <<t[m + 1]>>
           /\ <<t[m + 1]>> \in Texts /\ t[m + 1] \in Byte
<1>1. t[m + 1] \in Byte
  BY DEF Texts
<1>2. <<t[m + 1]>> \in Texts /\ Len(<<t[m + 1]>>) = 1 /\ <<t[m + 1]>>[1] = t[m + 1]
  BY <1>1 DEF Texts
<1>3. /\ SubSeq(t, m + 1, m + 1) \in Texts /\ Len(SubSeq(t, m + 1, m + 1)) = 1
      /\ SubSeq(t, m + 1, m + 1)[1] = t[m + 1]
  <2>1. m + 1 \in Nat /\ m <= m + 1 /\ m + 1 <= Len(t) /\ (m + 1) - m = 1
    BY DEF Texts
  <2> QED
    BY <2>1, Slice
<1>4. SubSeq(t, m + 1, m + 1) = <<t[m + 1]>>
  <2> DEFINE x == SubSeq(t, m + 1, m + 1)
             y == <<t[m + 1]>>
  <2>1. x \in Texts /\ Len(x) = 1 /\ x[1] = t[m + 1]
    BY <1>3
  <2>2. y \in Texts /\ Len(y) = 1 /\ y[1] = t[m + 1]
    BY <1>2
  <2> HIDE DEF x, y
  <2>3. x = y
    BY <2>1, <2>2, SeqEqual
  <2> QED
    BY <2>3 DEF x, y
<1> QED
  BY <1>1, <1>2, <1>4

LEMMA Cut ==
    ASSUME NEW t \in Texts, NEW o \in 0..Len(t)
    PROVE  /\ Before(t, o) \in Texts /\ Len(Before(t, o)) = o
           /\ From(t, o) \in Texts /\ Len(From(t, o)) = Len(t) - o
           /\ \A i \in 1..o : Before(t, o)[i] = t[i]
           /\ \A i \in 1..(Len(t) - o) : From(t, o)[i] = t[o + i]
           /\ t = Before(t, o) \o From(t, o)
<1>0. Len(t) \in Nat /\ o \in Nat /\ o <= Len(t) /\ 0 \in Nat /\ 0 + 1 = 1
  BY DEF Texts
<1>1. /\ Before(t, o) \in Texts /\ Len(Before(t, o)) = o
      /\ \A i \in 1..o : Before(t, o)[i] = t[i]
  BY DEF Texts, Before
<1>2. /\ From(t, o) \in Texts /\ Len(From(t, o)) = Len(t) - o
      /\ \A i \in 1..(Len(t) - o) : From(t, o)[i] = t[o + i]
  BY <1>0, Slice DEF From
<1> DEFINE x == Before(t, o)
           y == From(t, o)
<1>3. x \in Texts /\ Len(x) = o /\ y \in Texts /\ Len(y) = Len(t) - o
  BY <1>1, <1>2
<1>4. t = x \o y
  <2>1. /\ \A i \in 1..o : x[i] = t[i]
        /\ \A i \in 1..(Len(t) - o) : y[i] = t[o + i]
    BY <1>1, <1>2
  <2> HIDE DEF x, y
  <2>2. /\ x \o y \in Texts /\ Len(x \o y) = Len(t)
        /\ \A i \in 1..o : (x \o y)[i] = x[i]
        /\ \A i \in 1..(Len(t) - o) : (x \o y)[o + i] = y[i]
    BY <1>0, <1>3 DEF Texts
  <2> DEFINE z == x \o y
  <2> HIDE DEF z
  <2>3. ASSUME NEW i \in 1..Len(t) PROVE z[i] = t[i]
    <3>1. CASE i <= o
      BY <2>1, <2>2, <3>1 DEF z
    <3>2. CASE ~(i <= o)
      <4>1. i - o \in 1..(Len(t) - o) /\ o + (i - o) = i
        BY <1>0, <3>2
      <4> QED
        BY <2>1, <2>2, <4>1 DEF z
    <3> QED
      BY <3>1, <3>2
  <2>4. z = t
    BY <2>2, <2>3, SeqEqual DEF z
  <2> QED
    BY <2>4 DEF z
<1> QED
  BY <1>1, <1>2, <1>4

(* The text from a place on, after the text up to there was replaced.      *)
LEMMA CutCat ==
    ASSUME NEW t \in Texts, NEW u \in Texts
    PROVE  Before(t \o u, Len(t)) = t /\ From(t \o u, Len(t)) = u
<1> DEFINE x == t \o u
<1>0. x \in Texts /\ Len(x) = Len(t) + Len(u) /\ Len(t) \in 0..Len(x) /\ Len(t) \in Nat
      /\ Len(u) \in Nat
  BY DEF Texts
<1>1. /\ \A i \in 1..Len(t) : x[i] = t[i]
      /\ \A i \in 1..Len(u) : x[Len(t) + i] = u[i]
  BY DEF Texts
<1> HIDE DEF x
<1>2. /\ Before(x, Len(t)) \in Texts /\ Len(Before(x, Len(t))) = Len(t)
      /\ \A i \in 1..Len(t) : Before(x, Len(t))[i] = x[i]
      /\ From(x, Len(t)) \in Texts /\ Len(From(x, Len(t))) = Len(u)
      /\ \A i \in 1..Len(u) : From(x, Len(t))[i] = x[Len(t) + i]
  <2>1. Len(x) - Len(t) = Len(u)
    BY <1>0
  <2> DEFINE n == Len(t)
  <2>2. n \in 0..Len(x) /\ x \in Texts
    BY <1>0
  <2> HIDE DEF n
  <2>3. /\ Before(x, n) \in Texts /\ Len(Before(x, n)) = n
        /\ From(x, n) \in Texts /\ Len(From(x, n)) = Len(x) - n
        /\ \A i \in 1..n : Before(x, n)[i] = x[i]
        /\ \A i \in 1..(Len(x) - n) : From(x, n)[i] = x[n + i]
    BY <2>2, Cut
  <2> QED
    BY <2>1, <2>3 DEF n
<1>3. Before(x, Len(t)) = t
  BY <1>1, <1>2, SeqEqual
<1>4. From(x, Len(t)) = u
  BY <1>1, <1>2, SeqEqual
<1> QED
  BY <1>3, <1>4 DEF x

(* A match that neither ignores case nor is a word.                        *)
LEMMA MatchIsAt ==
    ASSUME NEW t \in Texts, NEW s \in Texts, NEW q \in Nat, q + Len(s) <= Len(t)
    PROVE  Match(t, q, s, {}) <=> At(t, q, s)
<1>1. Match(t, q, s, {}) <=> \A i \in 1..Len(s) : t[q + i] = s[i]
  BY DEF Match, Same, IgnoreCase
<1> DEFINE u == SubSeq(t, q + 1, q + Len(s))
<1>2. u \in Texts /\ Len(u) = Len(s) /\ \A i \in 1..Len(s) : u[i] = t[q + i]
  BY DEF Texts
<1> HIDE DEF u
<1>3. At(t, q, s) <=> u = s
  BY DEF At, u
<1>4. (u = s) <=> \A i \in 1..Len(s) : t[q + i] = s[i]
  BY <1>2, SeqEqual
<1> QED
  BY <1>1, <1>3, <1>4

(* What is found only depends on the text from there on.                   *)
LEMMA AtShifted ==
    ASSUME NEW t \in Texts, NEW u \in Texts, NEW s \in Texts,
           NEW o \in 0..Len(t), NEW p \in 0..Len(u), From(t, o) = From(u, p),
           NEW d \in Nat
    PROVE  At(t, o + d, s) <=> At(u, p + d, s)
<1>0. /\ Len(t) \in Nat /\ Len(u) \in Nat /\ Len(s) \in Nat
      /\ o \in Nat /\ p \in Nat
  BY DEF Texts
<1>1. Len(t) - o = Len(u) - p
  <2>1. Len(From(t, o)) = Len(t) - o /\ Len(From(u, p)) = Len(u) - p
    BY Cut
  <2> QED
    BY <2>1
<1>2. \A i \in 1..(Len(t) - o) : t[o + i] = u[p + i]
  <2>1. /\ \A i \in 1..(Len(t) - o) : From(t, o)[i] = t[o + i]
        /\ \A i \in 1..(Len(u) - p) : From(u, p)[i] = u[p + i]
    BY Cut
  <2> QED
    BY <1>1, <2>1
<1>3. o + d + Len(s) <= Len(t) <=> p + d + Len(s) <= Len(u)
  BY <1>0, <1>1
<1>4. SUFFICES ASSUME o + d + Len(s) <= Len(t), p + d + Len(s) <= Len(u)
               PROVE  SubSeq(t, o + d + 1, o + d + Len(s))
                      = SubSeq(u, p + d + 1, p + d + Len(s))
  BY <1>3 DEF At
<1> DEFINE oo == o + d
           pp == p + d
           a == SubSeq(t, oo + 1, oo + Len(s))
           b == SubSeq(u, pp + 1, pp + Len(s))
<1>5. /\ oo \in Nat /\ pp \in Nat /\ oo + Len(s) \in Nat /\ pp + Len(s) \in Nat
      /\ oo + Len(s) <= Len(t) /\ pp + Len(s) <= Len(u)
      /\ oo <= oo + Len(s) /\ pp <= pp + Len(s)
      /\ (oo + Len(s)) - oo = Len(s) /\ (pp + Len(s)) - pp = Len(s)
  BY <1>0, <1>4
<1>6. ASSUME NEW i \in 1..Len(s) PROVE t[oo + i] = u[pp + i]
  <2>1. /\ d + i \in 1..(Len(t) - o) /\ o + (d + i) = (o + d) + i
        /\ p + (d + i) = (p + d) + i
    BY <1>0, <1>4
  <2> QED
    BY <1>2, <2>1
<1> SUFFICES a = b
  OBVIOUS
<1> HIDE DEF oo, pp
<1>7. /\ a \in Texts /\ Len(a) = Len(s)
      /\ \A i \in 1..Len(s) : a[i] = t[oo + i]
  BY <1>5, Slice
<1>8. /\ b \in Texts /\ Len(b) = Len(s)
      /\ \A i \in 1..Len(s) : b[i] = u[pp + i]
  BY <1>5, Slice
<1> HIDE DEF a, b
<1> QED
  BY <1>6, <1>7, <1>8, SeqEqual

---------------------------------------------------------------------------
(* Replaced, as a function of the place and of how many are replaced.      *)

(* The equation of rest in Replaced: at place i, with k to be replaced.    *)
RestBody(R, t, o, s, r, i, k) ==
    IF i = Len(t) THEN << >>
    ELSE IF k > 0 /\ i >= o /\ At(t, i, s)
    THEN r \o R[i + Len(s)][k - 1]
    ELSE <<t[i + 1]>> \o R[i + 1][k]

RestEquation(R, t, o, s, r, K) ==
    R = [i \in 0..Len(t) |-> [k \in K |-> RestBody(R, t, o, s, r, i, k)]]

Solves(R, t, o, s, r, K) ==
    \A i \in 0..Len(t) : \A k \in K : R[i][k] = RestBody(R, t, o, s, r, i, k)

LEMMA RestPoints ==
    ASSUME NEW R, NEW t, NEW o, NEW s, NEW r, NEW K, RestEquation(R, t, o, s, r, K)
    PROVE  Solves(R, t, o, s, r, K)
<1> DEFINE F == [i \in 0..Len(t) |-> [k \in K |-> RestBody(R, t, o, s, r, i, k)]]
<1>1. \A i \in 0..Len(t) : \A k \in K : F[i][k] = RestBody(R, t, o, s, r, i, k)
  OBVIOUS
<1>2. R = F
  BY DEF RestEquation
<1> HIDE DEF F
<1> QED
  BY <1>1, <1>2 DEF Solves

(* R satisfies the equation from place m on.                               *)
RestFrom(R, t, o, s, r, m) ==
    /\ R \in [m..Len(t) -> [Nat -> Texts]]
    /\ \A i \in m..Len(t) : \A k \in Nat : R[i][k] = RestBody(R, t, o, s, r, i, k)

(* It can be continued to the place before.                                *)
LEMMA RestDown ==
    ASSUME NEW t \in Texts, NEW o \in Nat, NEW s \in Texts, s # << >>,
           NEW r \in Texts, NEW m \in Nat, m + 1 <= Len(t),
           NEW R, RestFrom(R, t, o, s, r, m + 1)
    PROVE  \E Q : RestFrom(Q, t, o, s, r, m)
<1> DEFINE Q == [i \in m..Len(t) |->
                   IF i = m THEN [k \in Nat |-> RestBody(R, t, o, s, r, m, k)]
                            ELSE R[i]]
<1>0. Len(t) \in Nat /\ Len(s) \in Nat /\ Len(s) > 0 /\ m < Len(t)
  BY DEF Texts
<1>1. ASSUME NEW i \in (m + 1)..Len(t) PROVE Q[i] = R[i]
  BY <1>0
<1>2. Q[m] = [k \in Nat |-> RestBody(R, t, o, s, r, m, k)]
  BY <1>0
<1>3. Q = [i \in m..Len(t) |-> Q[i]]
  OBVIOUS
<1> HIDE DEF Q
<1>4. R \in [(m + 1)..Len(t) -> [Nat -> Texts]]
  BY DEF RestFrom
<1>5. ASSUME NEW i \in m..Len(t), NEW k \in Nat
      PROVE  RestBody(Q, t, o, s, r, i, k) = RestBody(R, t, o, s, r, i, k)
  <2>1. CASE i = Len(t)
    BY <2>1 DEF RestBody
  <2>2. CASE i # Len(t) /\ k > 0 /\ i >= o /\ At(t, i, s)
    <3>1. i + Len(s) \in (m + 1)..Len(t)
      BY <1>0, <2>2 DEF At
    <3> QED
      BY <1>1, <2>2, <3>1 DEF RestBody
  <2>3. CASE i # Len(t) /\ ~(k > 0 /\ i >= o /\ At(t, i, s))
    <3>1. i + 1 \in (m + 1)..Len(t)
      BY <1>0, <2>3
    <3> QED
      BY <1>1, <2>3, <3>1 DEF RestBody
  <2> QED
    BY <2>1, <2>2, <2>3
<1>6. ASSUME NEW k \in Nat PROVE RestBody(R, t, o, s, r, m, k) \in Texts
  <2>1. CASE k > 0 /\ m >= o /\ At(t, m, s)
    <3>1. m + Len(s) \in (m + 1)..Len(t) /\ k - 1 \in Nat
      BY <1>0, <2>1 DEF At
    <3>2. R[m + Len(s)][k - 1] \in Texts
      BY <1>4, <3>1
    <3> QED
      BY <1>0, <2>1, <3>2, CatType DEF RestBody
  <2>2. CASE ~(k > 0 /\ m >= o /\ At(t, m, s))
    <3>1. m + 1 \in (m + 1)..Len(t)
      BY <1>0
    <3>2. R[m + 1][k] \in Texts
      BY <1>4, <3>1
    <3>3. <<t[m + 1]>> \in Texts
      BY <1>0, SliceOne
    <3> QED
      BY <1>0, <2>2, <3>2, <3>3, CatType DEF RestBody
  <2> QED
    BY <2>1, <2>2
<1>7. ASSUME NEW i \in m..Len(t)
      PROVE  /\ Q[i] \in [Nat -> Texts]
             /\ \A k \in Nat : Q[i][k] = RestBody(Q, t, o, s, r, i, k)
  <2>1. CASE i = m
    BY <1>2, <1>5, <1>6, <2>1
  <2>2. CASE i # m
    <3>1. i \in (m + 1)..Len(t)
      BY <1>0, <2>2
    <3>2. R[i] \in [Nat -> Texts]
          /\ \A k \in Nat : R[i][k] = RestBody(R, t, o, s, r, i, k)
      BY <1>4, <3>1 DEF RestFrom
    <3> QED
      BY <1>1, <1>5, <3>1, <3>2
  <2> QED
    BY <2>1, <2>2
<1>8. RestFrom(Q, t, o, s, r, m)
  BY <1>3, <1>7 DEF RestFrom
<1> QED
  BY <1>8

LEMMA RestExists ==
    ASSUME NEW t \in Texts, NEW o \in Nat, NEW s \in Texts, s # << >>, NEW r \in Texts
    PROVE  \E R : RestFrom(R, t, o, s, r, 0)
<1> DEFINE n == Len(t)
           T == {j \in 0..n : \E R : RestFrom(R, t, o, s, r, n - j)}
<1>0. n \in Nat /\ << >> \in Texts
  BY DEF Texts
<1>1. 0 \in T
  <2> DEFINE R == [i \in n..n |-> [k \in Nat |-> << >>]]
  <2>1. R \in [n..n -> [Nat -> Texts]] /\ \A k \in Nat : R[n][k] = << >>
    BY <1>0
  <2> HIDE DEF R
  <2>2. RestFrom(R, t, o, s, r, n)
    BY <1>0, <2>1 DEF RestFrom, RestBody
  <2>3. n - 0 = n
    BY <1>0
  <2> QED
    BY <1>0, <2>2, <2>3
<1>2. ASSUME NEW j \in 0..(n - 1), j \in T PROVE j + 1 \in T
  <2> DEFINE m == n - (j + 1)
  <2>1. m \in Nat /\ m + 1 <= n /\ m + 1 = n - j /\ j + 1 \in 0..n
    BY <1>0
  <2>2. PICK R : RestFrom(R, t, o, s, r, m + 1)
    BY <1>2, <2>1
  <2> HIDE DEF m
  <2>3. \E Q : RestFrom(Q, t, o, s, r, m)
    BY <2>1, <2>2, RestDown
  <2> QED
    BY <2>1, <2>3 DEF m
<1>3. n - n = 0
  BY <1>0
<1> HIDE DEF T
<1>4. n \in T
  BY <1>0, <1>1, <1>2, UpTo
<1> QED
  BY <1>3, <1>4 DEF T

Rest(t, o, s, r) == CHOOSE R : RestFrom(R, t, o, s, r, 0)

LEMMA RestIs ==
    ASSUME NEW t \in Texts, NEW o \in Nat, NEW s \in Texts, s # << >>, NEW r \in Texts
    PROVE  RestFrom(Rest(t, o, s, r), t, o, s, r, 0)
BY RestExists DEF Rest

(* Two functions that satisfy the equation up to n replacements agree.     *)
LEMMA RestUnique ==
    ASSUME NEW t \in Texts, NEW o \in Nat, NEW s \in Texts, NEW r \in Texts,
           NEW n \in Nat, s # << >> \/ n = 0, NEW A, NEW B,
           Solves(A, t, o, s, r, 0..n), Solves(B, t, o, s, r, 0..n)
    PROVE  \A i \in 0..Len(t) : \A k \in 0..n : A[i][k] = B[i][k]
<1> DEFINE z == Len(t)
           T == {j \in 0..z : \A i \in (z - j)..z : \A k \in 0..n : A[i][k] = B[i][k]}
<1>0. z \in Nat /\ Len(s) \in Nat /\ (s # << >> => Len(s) > 0) /\ z - 0 = z
  BY DEF Texts
<1>1. 0 \in T
  <2>1. ASSUME NEW i \in (z - 0)..z, NEW k \in 0..n PROVE A[i][k] = B[i][k]
    <3>1. i = z /\ i \in 0..z
      BY <1>0
    <3>2. RestBody(A, t, o, s, r, i, k) = << >> /\ RestBody(B, t, o, s, r, i, k) = << >>
      BY <3>1 DEF RestBody
    <3> QED
      BY <3>1, <3>2 DEF Solves
  <2>2. 0 \in 0..z
    BY <1>0
  <2> QED
    BY <2>1, <2>2
<1>2. ASSUME NEW j \in 0..(z - 1), j \in T PROVE j + 1 \in T
  <2>1. ASSUME NEW i \in (z - (j + 1))..z, NEW k \in 0..n PROVE A[i][k] = B[i][k]
    <3>1. i \in 0..z /\ (i \in (z - j)..z \/ (i = z - (j + 1) /\ i # z))
      <4> HIDE DEF z, T
      <4> QED
        BY ONLY j \in 0..(z - 1), i \in (z - (j + 1))..z, <1>0
    <3>2. CASE i \in (z - j)..z
      BY <1>2, <3>2
    <3>3. CASE i = z - (j + 1) /\ i # z
      <4>0. A[i][k] = RestBody(A, t, o, s, r, i, k) /\ B[i][k] = RestBody(B, t, o, s, r, i, k)
        BY <3>1 DEF Solves
      <4>1. CASE k > 0 /\ i >= o /\ At(t, i, s)
        <5>1. i + Len(s) \in (z - j)..z /\ k - 1 \in 0..n
          <6>1. s # << >> /\ i + Len(s) <= z
            BY <4>1 DEF At
          <6>2. Len(s) > 0
            BY <1>0, <6>1
          <6> HIDE DEF z, T
          <6> QED
            BY ONLY <1>0, <3>1, <3>3, <4>1, <6>1, <6>2, n \in Nat, k \in 0..n,
                    j \in 0..(z - 1)
        <5>2. A[i + Len(s)][k - 1] = B[i + Len(s)][k - 1]
          BY <1>2, <5>1
        <5> QED
          BY <3>3, <4>0, <4>1, <5>2 DEF RestBody
      <4>2. CASE ~(k > 0 /\ i >= o /\ At(t, i, s))
        <5>1. i + 1 \in (z - j)..z
          <6> HIDE DEF z, T
          <6> QED
            BY ONLY <1>0, <3>1, <3>3, j \in 0..(z - 1)
        <5>2. A[i + 1][k] = B[i + 1][k]
          BY <1>2, <5>1
        <5> QED
          BY <3>3, <4>0, <4>2, <5>2 DEF RestBody
      <4> QED
        BY <4>1, <4>2
    <3> QED
      BY <3>1, <3>2, <3>3
  <2>2. j + 1 \in 0..z
    BY <1>0
  <2> QED
    BY <2>1, <2>2
<1>3. z - z = 0
  BY <1>0
<1> HIDE DEF T
<1>4. z \in T
  BY <1>0, <1>1, <1>2, UpTo
<1> QED
  BY <1>3, <1>4 DEF T

(* Replaced is the function at the start.                                  *)
LEMMA ReplacedIs ==
    ASSUME NEW t \in Texts, NEW o \in Nat, NEW s \in Texts, s # << >>,
           NEW r \in Texts, NEW n \in Nat
    PROVE  Replaced(t, o, s, r, n) = Rest(t, o, s, r)[0][n]
<1> DEFINE B == Rest(t, o, s, r)
           Q == [i \in 0..Len(t) |-> [k \in 0..n |-> B[i][k]]]
           A == CHOOSE R : RestEquation(R, t, o, s, r, 0..n)
<1>0. Len(t) \in Nat /\ 0 \in 0..Len(t) /\ n \in 0..n /\ Len(s) \in Nat /\ Len(s) > 0
  BY DEF Texts
<1>1. \A i \in 0..Len(t) : \A k \in Nat : B[i][k] = RestBody(B, t, o, s, r, i, k)
  BY RestIs DEF RestFrom
<1> HIDE DEF B
<1>2. RestEquation(Q, t, o, s, r, 0..n)
  <2>1. ASSUME NEW i \in 0..Len(t), NEW k \in 0..n
        PROVE  B[i][k] = RestBody(Q, t, o, s, r, i, k)
    <3>0. B[i][k] = RestBody(B, t, o, s, r, i, k)
      BY <1>1
    <3>1. CASE i = Len(t)
      BY <3>0, <3>1 DEF RestBody
    <3>2. CASE i # Len(t) /\ k > 0 /\ i >= o /\ At(t, i, s)
      <4>1. i + Len(s) \in 0..Len(t) /\ k - 1 \in 0..n
        BY <1>0, <3>2 DEF At
      <4>2. Q[i + Len(s)][k - 1] = B[i + Len(s)][k - 1]
        BY <4>1
      <4> QED
        BY <3>0, <3>2, <4>2 DEF RestBody
    <3>3. CASE i # Len(t) /\ ~(k > 0 /\ i >= o /\ At(t, i, s))
      <4>1. i + 1 \in 0..Len(t)
        BY <1>0, <3>3
      <4>2. Q[i + 1][k] = B[i + 1][k]
        BY <4>1
      <4> QED
        BY <3>0, <3>3, <4>2 DEF RestBody
    <3> QED
      BY <3>1, <3>2, <3>3
  <2> QED
    BY <2>1 DEF RestEquation
<1> HIDE DEF Q
<1>3. RestEquation(A, t, o, s, r, 0..n)
  BY <1>2
<1>4. Replaced(t, o, s, r, n) = A[0][n]
  BY DEF Replaced, RestEquation, RestBody
<1> HIDE DEF A
<1>5. Solves(A, t, o, s, r, 0..n) /\ Solves(B, t, o, s, r, 0..n)
  BY <1>1, <1>3, RestPoints DEF Solves
<1>6. \A i \in 0..Len(t) : \A k \in 0..n : A[i][k] = B[i][k]
  BY <1>5, RestUnique
<1> QED
  BY <1>0, <1>4, <1>6 DEF B

(* Nothing is replaced.                                                    *)
LEMMA ReplacedNone ==
    ASSUME NEW t \in Texts, NEW o \in Nat, NEW s \in Texts, NEW r \in Texts
    PROVE  Replaced(t, o, s, r, 0) = t
<1> DEFINE Q == [i \in 0..Len(t) |-> [k \in 0..0 |-> From(t, i)]]
           A == CHOOSE R : RestEquation(R, t, o, s, r, 0..0)
<1>0. Len(t) \in Nat /\ 0 \in 0..Len(t) /\ 0 \in 0..0 /\ 0 \in Nat
  BY DEF Texts
<1>1. ASSUME NEW i \in 0..Len(t), NEW k \in 0..0
      PROVE  From(t, i) = RestBody(Q, t, o, s, r, i, k)
  <2>0. k = 0
    OBVIOUS
  <2>1. CASE i = Len(t)
    <3>1. From(t, i) = << >>
      BY <1>0, <2>1, SliceNone DEF From
    <3> QED
      BY <2>1, <3>1 DEF RestBody
  <2>2. CASE i # Len(t)
    <3>1. /\ i + 1 \in 0..Len(t) /\ i < Len(t) /\ i \in Nat /\ i + 1 \in Nat
          /\ i + 1 <= Len(t) /\ i <= i + 1
      BY <1>0, <2>2
    <3>2. Q[i + 1][k] = From(t, i + 1)
      BY <3>1
    <3>3. SubSeq(t, i + 1, Len(t)) = SubSeq(t, i + 1, i + 1) \o SubSeq(t, (i + 1) + 1, Len(t))
      BY <1>0, <3>1, SliceCat
    <3>4. SubSeq(t, i + 1, i + 1) = <<t[i + 1]>>
      BY <3>1, SliceOne
    <3> QED
      BY <2>0, <2>2, <3>2, <3>3, <3>4 DEF RestBody, From
  <2> QED
    BY <2>1, <2>2
<1>2. RestEquation(Q, t, o, s, r, 0..0)
  BY <1>1 DEF RestEquation
<1>3. RestEquation(A, t, o, s, r, 0..0)
  BY <1>2
<1>4. Replaced(t, o, s, r, 0) = A[0][0]
  BY DEF Replaced, RestEquation, RestBody
<1>5. Q[0][0] = t
  <2>1. From(t, 0) = t
    BY DEF From, Texts
  <2> QED
    BY <1>0, <2>1
<1> HIDE DEF A, Q
<1>6. Solves(A, t, o, s, r, 0..0) /\ Solves(Q, t, o, s, r, 0..0)
  BY <1>2, <1>3, RestPoints
<1>7. \A i \in 0..Len(t) : \A k \in 0..0 : A[i][k] = Q[i][k]
  <2> DEFINE n == 0
  <2>1. /\ n \in Nat /\ (s # << >> \/ n = 0)
        /\ Solves(A, t, o, s, r, 0..n) /\ Solves(Q, t, o, s, r, 0..n)
        /\ t \in Texts /\ o \in Nat /\ s \in Texts /\ r \in Texts
    BY <1>6
  <2> HIDE DEF n
  <2>2. \A i \in 0..Len(t) : \A k \in 0..n : A[i][k] = Q[i][k]
    BY ONLY <2>1, RestUnique
  <2> QED
    BY <2>2 DEF n
<1> QED
  BY <1>0, <1>4, <1>5, <1>7

(* From place p to place q nothing is to be replaced.                      *)
Quiet(t, o, s, p, q, k) ==
    \A i \in p..(q - 1) : ~(k > 0 /\ i >= o /\ At(t, i, s))

Copied(t, o, s, r, p, q, k) ==
    Rest(t, o, s, r)[p][k] = SubSeq(t, p + 1, q) \o Rest(t, o, s, r)[q][k]

(* Up to a place before which nothing is replaced the text is copied.      *)
LEMMA RestSkip ==
    ASSUME NEW t \in Texts, NEW o \in Nat, NEW s \in Texts, s # << >>,
           NEW r \in Texts, NEW p \in Nat, NEW q \in Nat, p <= q, q <= Len(t),
           NEW k \in Nat, Quiet(t, o, s, p, q, k)
    PROVE  Copied(t, o, s, r, p, q, k)
<1> DEFINE R == Rest(t, o, s, r)
           m == q - p
           T == {d \in 0..m : R[p][k] = SubSeq(t, p + 1, p + d) \o R[p + d][k]}
<1>0. Len(t) \in Nat /\ m \in Nat /\ p + m = q
  BY DEF Texts
<1>1. /\ R \in [0..Len(t) -> [Nat -> Texts]]
      /\ \A i \in 0..Len(t) : R[i][k] = RestBody(R, t, o, s, r, i, k)
  <2>1. RestFrom(R, t, o, s, r, 0)
    BY RestIs
  <2> HIDE DEF R
  <2> QED
    BY <2>1 DEF RestFrom
<1> HIDE DEF R
<1>2. 0 \in T
  <2>1. p + 0 = p /\ p \in 0..Len(t) /\ 0 \in 0..m /\ p <= Len(t)
    BY <1>0
  <2>2. R[p][k] \in Texts
    BY <1>1, <2>1
  <2>3. SubSeq(t, p + 1, p) = << >>
    BY <2>1, SliceNone
  <2>4. << >> \o R[p][k] = R[p][k]
    BY <2>2, CatEmpty
  <2> QED
    BY <2>1, <2>3, <2>4
<1>3. ASSUME NEW d \in 0..(m - 1), d \in T PROVE d + 1 \in T
  <2> DEFINE i == p + d
  <2>1. /\ i \in p..(q - 1) /\ i \in 0..Len(t) /\ i # Len(t) /\ i \in Nat /\ i < Len(t)
        /\ i + 1 \in Nat /\ i + 1 \in 0..Len(t) /\ p <= i /\ i <= i + 1 /\ i + 1 <= Len(t)
        /\ p + (d + 1) = i + 1 /\ d + 1 \in 0..m
    BY <1>0
  <2>2. R[p][k] = SubSeq(t, p + 1, i) \o R[i][k]
    BY <1>3
  <2> HIDE DEF i, T
  <2>3. R[i][k] = <<t[i + 1]>> \o R[i + 1][k]
    BY <1>1, <2>1 DEF RestBody, Quiet
  <2>4. <<t[i + 1]>> \in Texts /\ SubSeq(t, i + 1, i + 1) = <<t[i + 1]>>
    BY <2>1, SliceOne
  <2>5. SubSeq(t, p + 1, i + 1) = SubSeq(t, p + 1, i) \o SubSeq(t, i + 1, i + 1)
    BY <2>1, SliceCat
  <2>6. R[i + 1][k] \in Texts /\ SubSeq(t, p + 1, i) \in Texts
    BY SMTT(30), <1>1, <2>1, Slice
  <2>7. R[p][k] = SubSeq(t, p + 1, i + 1) \o R[i + 1][k]
    <3> DEFINE a == SubSeq(t, p + 1, i)
               b == <<t[i + 1]>>
               c == R[i + 1][k]
    <3>1. a \in Texts /\ b \in Texts /\ c \in Texts
      BY <2>4, <2>6
    <3>2. R[p][k] = a \o (b \o c) /\ SubSeq(t, p + 1, i + 1) = a \o b
      BY <2>2, <2>3, <2>4, <2>5
    <3> HIDE DEF a, b, c
    <3>3. (a \o b) \o c = a \o (b \o c)
      BY ONLY SMTT(30), <3>1, CatAssoc
    <3> QED
      BY <3>2, <3>3 DEF c
  <2> QED
    BY <2>1, <2>7 DEF T
<1> HIDE DEF T
<1>4. m \in T
  BY <1>0, <1>2, <1>3, UpTo
<1> QED
  BY <1>0, <1>4 DEF T, R, Copied

LEMMA RestFacts ==
    ASSUME NEW t \in Texts, NEW o \in Nat, NEW s \in Texts, s # << >>, NEW r \in Texts
    PROVE  LET R == Rest(t, o, s, r)
           IN  /\ \A i \in 0..Len(t) : \A k \in Nat : R[i][k] \in Texts
               /\ \A k \in Nat : R[Len(t)][k] = << >>
               /\ \A i \in 0..Len(t) : R[i][0] = From(t, i)
<1> DEFINE R == Rest(t, o, s, r)
<1>0. /\ Len(t) \in Nat /\ Len(t) \in 0..Len(t) /\ 0 \in Nat /\ Len(s) \in Nat /\ Len(s) > 0
      /\ Len(t) <= Len(t)
  BY DEF Texts
<1>1. /\ R \in [0..Len(t) -> [Nat -> Texts]]
      /\ \A i \in 0..Len(t) : \A k \in Nat : R[i][k] = RestBody(R, t, o, s, r, i, k)
  BY RestIs DEF RestFrom
<1> HIDE DEF R
<1>2. \A i \in 0..Len(t) : \A k \in Nat : R[i][k] \in Texts
  BY <1>1
<1>3. \A k \in Nat : R[Len(t)][k] = << >>
  BY <1>0, <1>1 DEF RestBody
<1>4. ASSUME NEW i \in 0..Len(t) PROVE R[i][0] = From(t, i)
  <2>1. R[i][0] = SubSeq(t, i + 1, Len(t)) \o R[Len(t)][0]
    <3>1. i \in Nat /\ i <= Len(t) /\ ~(0 > 0)
      BY <1>0
    <3> DEFINE k == 0
               z == Len(t)
    <3>2. k \in Nat /\ z \in Nat /\ i <= z /\ z <= Len(t) /\ Quiet(t, o, s, i, z, k)
      BY <1>0, <3>1 DEF Quiet
    <3> HIDE DEF k, z
    <3>4. i \in Nat
      BY <3>1
    <3>3. Copied(t, o, s, r, i, z, k)
      BY ONLY <3>2, <3>4, RestSkip, t \in Texts, o \in Nat, s \in Texts, s # << >>, r \in Texts
    <3> QED
      BY <3>3 DEF k, z, R, Copied
  <2>2. From(t, i) \in Texts
    BY Cut
  <2> QED
    BY <1>0, <1>3, <2>1, <2>2, CatEmpty DEF From
<1> QED
  BY <1>2, <1>3, <1>4 DEF R

(* An occurrence is replaced.                                              *)
Swapped(t, o, s, r, i, k) ==
    Rest(t, o, s, r)[i][k + 1] = r \o Rest(t, o, s, r)[i + Len(s)][k]

LEMMA RestHit ==
    ASSUME NEW t \in Texts, NEW o \in Nat, NEW s \in Texts, s # << >>, NEW r \in Texts,
           NEW i \in 0..Len(t), NEW k \in Nat, i >= o, At(t, i, s)
    PROVE  Swapped(t, o, s, r, i, k)
<1> DEFINE R == Rest(t, o, s, r)
<1>0. Len(t) \in Nat /\ Len(s) \in Nat /\ Len(s) > 0
  BY DEF Texts
<1>1. \A j \in 0..Len(t) : \A l \in Nat : R[j][l] = RestBody(R, t, o, s, r, j, l)
  BY RestIs DEF RestFrom
<1> HIDE DEF R
<1>2. k + 1 \in Nat /\ k + 1 > 0 /\ (k + 1) - 1 = k
  OBVIOUS
<1>3. i # Len(t)
  BY <1>0 DEF At
<1>4. R[i][k + 1] = RestBody(R, t, o, s, r, i, k + 1)
  BY <1>1, <1>2
<1>5. R[i][k + 1] = r \o R[i + Len(s)][k]
  BY <1>2, <1>3, <1>4 DEF RestBody
<1> QED
  BY <1>5 DEF Swapped, R

---------------------------------------------------------------------------
(* How many occurrences there are from a place on.                         *)

CountBody(C, t, o, s, i) ==
    IF i = Len(t) \/ s = << >> THEN 0
    ELSE IF i >= o /\ At(t, i, s) THEN 1 + C[i + Len(s)]
    ELSE C[i + 1]

CountEquation(C, t, o, s) == C = [i \in 0..Len(t) |-> CountBody(C, t, o, s, i)]

Count(t, o, s) == CHOOSE C : CountEquation(C, t, o, s)

CountFrom(C, t, o, s, m) == C = [i \in m..Len(t) |-> CountBody(C, t, o, s, i)]

LEMMA CountPoints ==
    ASSUME NEW C, NEW t, NEW o, NEW s, NEW m, CountFrom(C, t, o, s, m)
    PROVE  \A i \in m..Len(t) : C[i] = CountBody(C, t, o, s, i)
<1> DEFINE F == [i \in m..Len(t) |-> CountBody(C, t, o, s, i)]
<1>1. \A i \in m..Len(t) : F[i] = CountBody(C, t, o, s, i)
  OBVIOUS
<1>2. C = F
  BY DEF CountFrom
<1> HIDE DEF F
<1> QED
  BY <1>1, <1>2

LEMMA CountDown ==
    ASSUME NEW t \in Texts, NEW o \in Nat, NEW s \in Texts, s # << >>,
           NEW m \in Nat, m + 1 <= Len(t), NEW C, CountFrom(C, t, o, s, m + 1)
    PROVE  \E Q : CountFrom(Q, t, o, s, m)
<1> DEFINE Q == [i \in m..Len(t) |-> IF i = m THEN CountBody(C, t, o, s, m) ELSE C[i]]
<1>0. Len(t) \in Nat /\ Len(s) \in Nat /\ Len(s) > 0 /\ m < Len(t)
  BY DEF Texts
<1>1. ASSUME NEW i \in (m + 1)..Len(t) PROVE Q[i] = C[i]
  BY <1>0
<1>2. Q[m] = CountBody(C, t, o, s, m)
  BY <1>0
<1>3. Q = [i \in m..Len(t) |-> Q[i]]
  OBVIOUS
<1> HIDE DEF Q
<1>4. ASSUME NEW i \in m..Len(t)
      PROVE  CountBody(Q, t, o, s, i) = CountBody(C, t, o, s, i)
  <2>1. CASE i = Len(t)
    BY <2>1 DEF CountBody
  <2>2. CASE i # Len(t) /\ i >= o /\ At(t, i, s)
    <3>1. i + Len(s) \in (m + 1)..Len(t)
      BY <1>0, <2>2 DEF At
    <3> QED
      BY <1>1, <2>2, <3>1 DEF CountBody
  <2>3. CASE i # Len(t) /\ ~(i >= o /\ At(t, i, s))
    <3>1. i + 1 \in (m + 1)..Len(t)
      BY <1>0, <2>3
    <3> QED
      BY <1>1, <2>3, <3>1 DEF CountBody
  <2> QED
    BY <2>1, <2>2, <2>3
<1>5. ASSUME NEW i \in m..Len(t) PROVE Q[i] = CountBody(Q, t, o, s, i)
  <2>1. CASE i = m
    BY <1>2, <1>4, <2>1
  <2>2. CASE i # m
    <3>1. i \in (m + 1)..Len(t)
      BY <1>0, <2>2
    <3>2. C[i] = CountBody(C, t, o, s, i)
      BY <3>1, CountPoints
    <3> QED
      BY <1>1, <1>4, <3>1, <3>2
  <2> QED
    BY <2>1, <2>2
<1>6. CountFrom(Q, t, o, s, m)
  BY <1>3, <1>5 DEF CountFrom
<1> QED
  BY <1>6

LEMMA CountExists ==
    ASSUME NEW t \in Texts, NEW o \in Nat, NEW s \in Texts, s # << >>
    PROVE  \E C : CountFrom(C, t, o, s, 0)
<1> DEFINE n == Len(t)
           T == {j \in 0..n : \E C : CountFrom(C, t, o, s, n - j)}
<1>0. n \in Nat
  BY DEF Texts
<1>1. 0 \in T
  <2> DEFINE C == [i \in n..n |-> 0]
  <2>1. \A i \in n..n : CountBody(C, t, o, s, i) = 0
    BY <1>0 DEF CountBody
  <2>2. CountFrom(C, t, o, s, n)
    BY <2>1 DEF CountFrom
  <2>3. n - 0 = n
    BY <1>0
  <2> QED
    BY <1>0, <2>2, <2>3
<1>2. ASSUME NEW j \in 0..(n - 1), j \in T PROVE j + 1 \in T
  <2> DEFINE m == n - (j + 1)
  <2>1. m \in Nat /\ m + 1 <= n /\ m + 1 = n - j /\ j + 1 \in 0..n
    BY <1>0
  <2>2. PICK C : CountFrom(C, t, o, s, m + 1)
    BY <1>2, <2>1
  <2> HIDE DEF m
  <2>3. \E Q : CountFrom(Q, t, o, s, m)
    BY <2>1, <2>2, CountDown
  <2> QED
    BY <2>1, <2>3 DEF m
<1>3. n - n = 0
  BY <1>0
<1> HIDE DEF T
<1>4. n \in T
  BY <1>0, <1>1, <1>2, UpTo
<1> QED
  BY <1>3, <1>4 DEF T

LEMMA CountIs ==
    ASSUME NEW t \in Texts, NEW o \in Nat, NEW s \in Texts, s # << >>
    PROVE  LET C == Count(t, o, s)
           IN  /\ \A i \in 0..Len(t) : C[i] = CountBody(C, t, o, s, i)
               /\ \A i \in 0..Len(t) : C[i] \in Nat
               /\ Occurrences(t, o, s) = C[0]
<1> DEFINE C == Count(t, o, s)
           z == Len(t)
           T == {j \in 0..z : \A i \in (z - j)..z : C[i] \in Nat}
<1>0. z \in Nat /\ Len(s) \in Nat /\ Len(s) > 0
  BY DEF Texts
<1>1. CountFrom(C, t, o, s, 0)
  BY CountExists DEF Count, CountEquation, CountFrom
<1>2. Occurrences(t, o, s) = C[0]
  BY DEF Occurrences, Count, CountEquation, CountBody
<1> HIDE DEF C
<1>3. \A i \in 0..z : C[i] = CountBody(C, t, o, s, i)
  BY <1>1, CountPoints
<1>4. 0 \in T
  <2>1. \A i \in (z - 0)..z : i = z
    BY <1>0
  <2>2. C[z] = 0
    BY <1>0, <1>3 DEF CountBody
  <2> QED
    BY <1>0, <2>1, <2>2
<1>5. ASSUME NEW j \in 0..(z - 1), j \in T PROVE j + 1 \in T
  <2>1. ASSUME NEW i \in (z - (j + 1))..z PROVE C[i] \in Nat
    <3>0. i \in 0..z /\ (i \in (z - j)..z \/ (i = z - (j + 1) /\ i # z))
      <4> HIDE DEF z, T
      <4> QED
        BY ONLY <1>0, j \in 0..(z - 1), i \in (z - (j + 1))..z
    <3>1. CASE i \in (z - j)..z
      BY <1>5, <3>1
    <3>2. CASE i = z - (j + 1) /\ i # z
      <4>0. C[i] = CountBody(C, t, o, s, i)
        BY <1>3, <3>0
      <4>1. CASE i >= o /\ At(t, i, s)
        <5>1. i + Len(s) <= z
          BY <4>1 DEF At
        <5>2. i + Len(s) \in (z - j)..z
          <6> HIDE DEF z, T
          <6> QED
            BY ONLY <1>0, <3>0, <3>2, <5>1, j \in 0..(z - 1)
        <5>3. C[i + Len(s)] \in Nat
          BY <1>5, <5>2
        <5>4. C[i] = 1 + C[i + Len(s)]
          BY <3>2, <4>0, <4>1 DEF CountBody
        <5> QED
          BY <5>3, <5>4
      <4>2. CASE ~(i >= o /\ At(t, i, s))
        <5>1. i + 1 \in (z - j)..z
          <6> HIDE DEF z, T
          <6> QED
            BY ONLY <1>0, <3>0, <3>2, j \in 0..(z - 1)
        <5> QED
          BY <1>5, <3>2, <4>0, <4>2, <5>1 DEF CountBody
      <4> QED
        BY <4>1, <4>2
    <3> QED
      BY <3>0, <3>1, <3>2
  <2>2. j + 1 \in 0..z
    BY <1>0
  <2> QED
    BY <2>1, <2>2
<1>6. z - z = 0
  BY <1>0
<1> HIDE DEF T
<1>7. z \in T
  BY <1>0, <1>4, <1>5, UpTo
<1>8. \A i \in 0..z : C[i] \in Nat
  BY <1>6, <1>7 DEF T
<1> QED
  BY <1>2, <1>3, <1>8 DEF C

LEMMA CountSkip ==
    ASSUME NEW t \in Texts, NEW o \in Nat, NEW s \in Texts, s # << >>,
           NEW p \in Nat, NEW q \in Nat, p <= q, q <= Len(t),
           Quiet(t, o, s, p, q, 1)
    PROVE  Count(t, o, s)[p] = Count(t, o, s)[q]
<1> DEFINE C == Count(t, o, s)
           m == q - p
           T == {d \in 0..m : C[p] = C[p + d]}
<1>0. Len(t) \in Nat /\ m \in Nat /\ p + m = q /\ p + 0 = p
  BY DEF Texts
<1>1. \A i \in 0..Len(t) : C[i] = CountBody(C, t, o, s, i)
  BY CountIs
<1> HIDE DEF C
<1>2. 0 \in T
  BY <1>0
<1>3. ASSUME NEW d \in 0..(m - 1), d \in T PROVE d + 1 \in T
  <2> DEFINE i == p + d
  <2>1. /\ i \in p..(q - 1) /\ i \in 0..Len(t) /\ i # Len(t)
        /\ p + (d + 1) = i + 1 /\ d + 1 \in 0..m
    BY <1>0
  <2>2. C[p] = C[i]
    BY <1>3
  <2> HIDE DEF i
  <2>3. ~(i >= o /\ At(t, i, s))
    BY <2>1 DEF Quiet
  <2>4. C[i] = C[i + 1]
    BY <1>1, <2>1, <2>3 DEF CountBody
  <2> QED
    BY <2>1, <2>2, <2>4
<1> HIDE DEF T
<1>4. m \in T
  BY <1>0, <1>2, <1>3, UpTo
<1> QED
  BY <1>0, <1>4 DEF T, C

---------------------------------------------------------------------------
(* Where query-replace is: the text x up to f is what the original text t  *)
(* up to p became with its first n occurrences replaced, and x from f on   *)
(* is t from p on.                                                         *)
Aligned(x, f, t, o, s, r, n, p) ==
    /\ f \in 0..Len(x) /\ p \in 0..Len(t) /\ p >= o
    /\ From(x, f) = From(t, p)
    /\ \A k \in Nat : Rest(t, o, s, r)[0][n + k] = Before(x, f) \o Rest(t, o, s, r)[p][k]
    /\ Count(t, o, s)[0] = n + Count(t, o, s)[p]

(* The place where the texts part is one of the text.                      *)
LEMMA AlignedPlace ==
    ASSUME NEW x, NEW f, NEW t, NEW o, NEW s, NEW r, NEW n, NEW p,
           Len(x) \in Nat, Aligned(x, f, t, o, s, r, n, p)
    PROVE  f \in 0..Len(x) /\ f \in Nat
<1>1. f \in 0..Len(x)
  BY DEF Aligned
<1> QED
  BY <1>1

LEMMA AlignedStart ==
    ASSUME NEW t \in Texts, NEW o \in 0..Len(t), NEW s \in Texts, s # << >>,
           NEW r \in Texts
    PROVE  Aligned(t, o, t, o, s, r, 0, o)
<1> DEFINE R == Rest(t, o, s, r)
           C == Count(t, o, s)
           z == 0
<1>0. Len(t) \in Nat /\ o \in Nat /\ o <= Len(t) /\ z \in Nat /\ z <= o
  BY DEF Texts
<1>1. ASSUME NEW k \in Nat PROVE R[0][0 + k] = Before(t, o) \o R[o][k]
  <2>1. Quiet(t, o, s, z, o, k)
    BY <1>0 DEF Quiet
  <2> HIDE DEF z
  <2>2. Copied(t, o, s, r, z, o, k)
    BY <1>0, <2>1, RestSkip
  <2>3. 0 + k = k /\ z + 1 = 1
    BY DEF z
  <2> QED
    BY <2>2, <2>3 DEF Copied, Before, z
<1>2. C[0] = C[o]
  <2>1. Quiet(t, o, s, z, o, 1)
    BY <1>0 DEF Quiet
  <2> HIDE DEF z
  <2>2. C[z] = C[o]
    BY <1>0, <2>1, CountSkip
  <2> QED
    BY <2>2 DEF z
<1>3. C[0] = 0 + C[o]
  <2>1. C[o] \in Nat
    BY <1>0, CountIs
  <2> QED
    BY <1>2, <2>1
<1> QED
  BY <1>0, <1>1, <1>3 DEF Aligned

(* The text is the original one with the first n occurrences replaced.     *)
LEMMA AlignedText ==
    ASSUME NEW x \in Texts, NEW f, NEW t \in Texts, NEW o \in Nat,
           NEW s \in Texts, s # << >>, NEW r \in Texts, NEW n \in Nat, NEW p,
           Aligned(x, f, t, o, s, r, n, p)
    PROVE  x = Replaced(t, o, s, r, n)
<1> DEFINE R == Rest(t, o, s, r)
<1>0. f \in 0..Len(x) /\ p \in 0..Len(t) /\ From(x, f) = From(t, p) /\ 0 \in Nat
  BY DEF Aligned
<1>1. R[0][n] = Before(x, f) \o R[p][0]
  <2> DEFINE z == 0
  <2>1. z \in Nat /\ n + z = n
    OBVIOUS
  <2> HIDE DEF z
  <2>2. R[0][n + z] = Before(x, f) \o R[p][z]
    BY <2>1 DEF Aligned
  <2> QED
    BY <2>1, <2>2 DEF z
<1>2. R[p][0] = From(t, p)
  BY <1>0, RestFacts
<1>3. x = Before(x, f) \o From(x, f)
  BY <1>0, Cut
<1>4. Replaced(t, o, s, r, n) = R[0][n]
  BY ReplacedIs
<1> QED
  BY <1>0, <1>1, <1>2, <1>3, <1>4

(* The bytes from f on are passed over, up to g.                           *)
LEMMA AlignedPass ==
    ASSUME NEW x \in Texts, NEW f, NEW t \in Texts, NEW o \in Nat,
           NEW s \in Texts, s # << >>, NEW r \in Texts, NEW n \in Nat, NEW p,
           Aligned(x, f, t, o, s, r, n, p),
           NEW g \in f..Len(x), \A q \in f..(g - 1) : ~At(x, q, s)
    PROVE  Aligned(x, g, t, o, s, r, n, p + (g - f))
<1> DEFINE R == Rest(t, o, s, r)
           C == Count(t, o, s)
           d == g - f
           u == p + d
<1>0. /\ f \in 0..Len(x) /\ p \in 0..Len(t) /\ p >= o /\ From(x, f) = From(t, p)
      /\ C[0] = n + C[p]
      /\ \A k \in Nat : R[0][n + k] = Before(x, f) \o R[p][k]
  BY DEF Aligned
<1>1. Len(x) \in Nat /\ Len(t) \in Nat /\ Len(x) - f = Len(t) - p
  <2>1. Len(From(x, f)) = Len(x) - f /\ Len(From(t, p)) = Len(t) - p
    BY <1>0, Cut
  <2>2. Len(x) \in Nat /\ Len(t) \in Nat
    BY DEF Texts
  <2> QED
    BY <1>0, <2>1, <2>2
<1>2. /\ d \in Nat /\ u \in 0..Len(t) /\ u >= o /\ u \in Nat /\ p <= u /\ u <= Len(t)
      /\ g \in 0..Len(x) /\ f \in Nat /\ p \in Nat /\ g \in Nat /\ g = f + d /\ f <= g
      /\ g <= Len(x) /\ Len(x) - g = Len(t) - u /\ u - p = d /\ g - f = d
  BY <1>0, <1>1
<1>3. \A k \in Nat : Quiet(t, o, s, p, u, k)
  <2> SUFFICES ASSUME NEW i \in p..(u - 1) PROVE ~At(t, i, s)
    BY DEF Quiet
  <2> DEFINE e == i - p
  <2>1. e \in Nat /\ p + e = i /\ f + e \in f..(g - 1)
    BY <1>2
  <2>2. ~At(x, f + e, s)
    BY <2>1
  <2> HIDE DEF e
  <2>3. At(x, f + e, s) <=> At(t, p + e, s)
    BY <1>0, <2>1, AtShifted
  <2> QED
    BY <2>1, <2>2, <2>3
<1> HIDE DEF d, u
(* The same bytes are passed in both texts, and the same are left.         *)
<1>4. \A i \in 1..(Len(x) - f) : x[f + i] = t[p + i]
  <2>1. /\ \A i \in 1..(Len(x) - f) : From(x, f)[i] = x[f + i]
        /\ \A i \in 1..(Len(t) - p) : From(t, p)[i] = t[p + i]
    BY <1>0, Cut
  <2> QED
    BY <1>0, <1>1, <2>1
<1>5. SubSeq(x, f + 1, g) = SubSeq(t, p + 1, u)
  <2> DEFINE a == SubSeq(x, f + 1, g)
             b == SubSeq(t, p + 1, u)
  <2>1. a \in Texts /\ Len(a) = d /\ \A i \in 1..d : a[i] = x[f + i]
    BY <1>2, Slice
  <2>2. b \in Texts /\ Len(b) = d /\ \A i \in 1..d : b[i] = t[p + i]
    BY <1>2, Slice
  <2>3. \A i \in 1..d : i \in 1..(Len(x) - f)
    BY <1>1, <1>2
  <2> HIDE DEF a, b
  <2>4. a = b
    BY <1>4, <2>1, <2>2, <2>3, SeqEqual
  <2> QED
    BY <2>4 DEF a, b
<1>6. From(x, g) = From(t, u)
  <2> DEFINE a == From(x, g)
             b == From(t, u)
             l == Len(x) - g
  <2>1. a \in Texts /\ Len(a) = l /\ \A i \in 1..l : a[i] = x[g + i]
    BY <1>2, Cut
  <2>2. b \in Texts /\ Len(b) = l /\ \A i \in 1..l : b[i] = t[u + i]
    BY SMTT(30), <1>2, Cut
  <2>3. ASSUME NEW i \in 1..l PROVE x[g + i] = t[u + i]
    <3>1. d + i \in 1..(Len(x) - f) /\ f + (d + i) = g + i /\ p + (d + i) = u + i
      BY <1>1, <1>2
    <3> QED
      BY <1>4, <3>1
  <2> HIDE DEF a, b, l
  <2>4. a = b
    BY <2>1, <2>2, <2>3, SeqEqual
  <2> QED
    BY <2>4 DEF a, b
<1>7. ASSUME NEW k \in Nat PROVE R[0][n + k] = Before(x, g) \o R[u][k]
  <2> DEFINE a == Before(x, f)
             b == SubSeq(t, p + 1, u)
             c == R[u][k]
  <2>1. R[p][k] = b \o c
    <3>1. Quiet(t, o, s, p, u, k)
      BY <1>3
    <3>2. Copied(t, o, s, r, p, u, k)
      BY <1>2, <3>1, RestSkip
    <3> QED
      BY <3>2 DEF Copied
  <2>2. Before(x, g) = a \o b
    <3> DEFINE z == 0
    <3>1. z \in Nat /\ z <= f
      BY <1>2
    <3> HIDE DEF z
    <3>2. SubSeq(x, z + 1, g) = SubSeq(x, z + 1, f) \o SubSeq(x, f + 1, g)
      BY SMTT(30), <1>2, <3>1, SliceCat
    <3>3. z + 1 = 1
      BY DEF z
    <3> QED
      BY <1>5, <3>2, <3>3 DEF Before
  <2>3. a \in Texts /\ b \in Texts /\ c \in Texts
    <3>1. c \in Texts
      BY <1>2, RestFacts
    <3>2. a \in Texts
      BY <1>0, Cut
    <3>3. b \in Texts
      BY <1>2, Slice
    <3> QED
      BY <3>1, <3>2, <3>3
  <2>4. R[0][n + k] = a \o (b \o c)
    BY <1>0, <2>1
  <2> HIDE DEF a, b, c
  <2>5. (a \o b) \o c = a \o (b \o c)
    BY ONLY SMTT(30), <2>3 DEF Texts
  <2> QED
    BY <2>2, <2>4, <2>5 DEF c
<1>8. C[0] = n + C[u]
  <2>1. C[p] = C[u]
    BY <1>2, <1>3, CountSkip
  <2> QED
    BY <1>0, <2>1
<1> QED
  BY <1>2, <1>6, <1>7, <1>8 DEF Aligned, u, d

LEMMA FromShifted ==
    ASSUME NEW x \in Texts, NEW t \in Texts, NEW f \in 0..Len(x), NEW p \in 0..Len(t),
           From(x, f) = From(t, p), NEW d \in 0..(Len(x) - f)
    PROVE  /\ f + d \in 0..Len(x) /\ p + d \in 0..Len(t)
           /\ From(x, f + d) = From(t, p + d)
<1> DEFINE g == f + d
           u == p + d
           a == From(x, g)
           b == From(t, u)
           l == Len(x) - g
<1>0. Len(x) \in Nat /\ Len(t) \in Nat
  BY DEF Texts
<1>1. /\ Len(From(x, f)) = Len(x) - f /\ Len(From(t, p)) = Len(t) - p
      /\ \A i \in 1..(Len(x) - f) : From(x, f)[i] = x[f + i]
      /\ \A i \in 1..(Len(t) - p) : From(t, p)[i] = t[p + i]
  BY Cut
<1>2. Len(x) - f = Len(t) - p
  BY <1>1
<1>3. \A i \in 1..(Len(x) - f) : x[f + i] = t[p + i]
  BY <1>1, <1>2
<1>4. g \in 0..Len(x) /\ u \in 0..Len(t) /\ Len(x) - g = Len(t) - u
  BY <1>0, <1>2
<1>5. ASSUME NEW i \in 1..l PROVE x[g + i] = t[u + i]
  <2>1. d + i \in 1..(Len(x) - f) /\ f + (d + i) = g + i /\ p + (d + i) = u + i
    BY <1>0, <1>2, <1>4
  <2> QED
    BY <1>3, <2>1
<1> HIDE DEF g, u
<1>6. a \in Texts /\ Len(a) = l /\ \A i \in 1..l : a[i] = x[g + i]
  BY <1>4, Cut
<1>7. b \in Texts /\ Len(b) = l /\ \A i \in 1..l : b[i] = t[u + i]
  BY ZenonT(60), <1>4, Cut
<1> HIDE DEF a, b, l
<1>8. a = b
  BY <1>5, <1>6, <1>7, SeqEqual
<1> QED
  BY <1>4, <1>8 DEF a, b, g, u

(* When nothing more is found every occurrence was replaced.               *)
LEMMA AlignedDone ==
    ASSUME NEW x \in Texts, NEW f, NEW t \in Texts, NEW o \in Nat,
           NEW s \in Texts, s # << >>, NEW r \in Texts, NEW n \in Nat, NEW p,
           Aligned(x, f, t, o, s, r, n, p),
           \A q \in f..(Len(x) - 1) : ~At(x, q, s)
    PROVE  n = Occurrences(t, o, s)
<1> DEFINE g == Len(x)
           C == Count(t, o, s)
<1>0. /\ f \in 0..Len(x) /\ p \in 0..Len(t) /\ From(x, f) = From(t, p)
  BY DEF Aligned
<1>1. Len(x) \in Nat /\ Len(t) \in Nat
  BY DEF Texts
<1>2. Len(x) - f = Len(t) - p
  <2>1. Len(From(x, f)) = Len(x) - f /\ Len(From(t, p)) = Len(t) - p
    BY <1>0, Cut
  <2> QED
    BY <1>0, <2>1
<1>3. p + (g - f) = Len(t) /\ g \in f..Len(x)
  BY <1>0, <1>1, <1>2
<1>4. Aligned(x, g, t, o, s, r, n, p + (g - f))
  BY <1>3, AlignedPass
<1>5. C[0] = n + C[Len(t)]
  BY <1>3, <1>4 DEF Aligned
<1>6. C[Len(t)] = CountBody(C, t, o, s, Len(t)) /\ Occurrences(t, o, s) = C[0]
  BY <1>1, CountIs
<1>7. C[Len(t)] = 0
  BY <1>6 DEF CountBody
<1> QED
  BY <1>5, <1>6, <1>7

(* The match at f is replaced and the replacement passed over.             *)
LEMMA AlignedReplace ==
    ASSUME NEW x \in Texts, NEW f, NEW t \in Texts, NEW o \in Nat,
           NEW s \in Texts, s # << >>, NEW r \in Texts, NEW n \in Nat, NEW p,
           Aligned(x, f, t, o, s, r, n, p), At(x, f, s)
    PROVE  LET y == Before(x, f) \o r \o From(x, f + Len(s))
           IN  /\ y \in Texts /\ Len(y) = Len(x) - Len(s) + Len(r)
               /\ Aligned(y, f + Len(r), t, o, s, r, n + 1, p + Len(s))
<1> DEFINE R == Rest(t, o, s, r)
           C == Count(t, o, s)
           a == Before(x, f)
           m == Len(s)
           b == From(x, f + m)
           y == (a \o r) \o b
           g == f + Len(r)
           u == p + m
<1>0. /\ f \in 0..Len(x) /\ p \in 0..Len(t) /\ p >= o /\ From(x, f) = From(t, p)
      /\ C[0] = n + C[p]
      /\ \A k \in Nat : R[0][n + k] = a \o R[p][k]
  BY DEF Aligned
<1>1. Len(x) \in Nat /\ Len(t) \in Nat /\ m \in Nat /\ Len(r) \in Nat
  BY DEF Texts
<1>2. f + m <= Len(x) /\ f \in Nat /\ p \in Nat /\ m \in 0..(Len(x) - f)
  BY <1>0, <1>1 DEF At
<1>3. f + m \in 0..Len(x) /\ u \in 0..Len(t) /\ b = From(t, u)
  BY <1>0, <1>2, FromShifted
<1>4. a \in Texts /\ Len(a) = f /\ b \in Texts /\ Len(b) = Len(x) - (f + m)
  BY <1>0, <1>3, Cut
<1>5. At(t, p, s)
  <2> DEFINE z == 0
  <2>1. z \in Nat /\ f + z = f /\ p + z = p
    BY <1>2
  <2> HIDE DEF z
  <2>2. At(x, f + z, s) <=> At(t, p + z, s)
    BY <1>0, <2>1, AtShifted
  <2> QED
    BY <2>1, <2>2
<1> HIDE DEF a, b
<1>6. a \o r \in Texts /\ Len(a \o r) = g
  BY <1>4, CatType
<1>7. y \in Texts /\ Len(y) = Len(x) - m + Len(r) /\ g \in 0..Len(y)
  <2>1. y \in Texts /\ Len(y) = g + (Len(x) - (f + m))
    BY <1>4, <1>6, CatType
  <2> QED
    BY <1>1, <1>2, <2>1
<1>8. Before(y, g) = a \o r /\ From(y, g) = b
  <2> DEFINE h == a \o r
  <2>1. h \in Texts /\ b \in Texts /\ Len(h) = g
    BY <1>4, <1>6
  <2> HIDE DEF h, g
  <2>2. Before(h \o b, Len(h)) = h /\ From(h \o b, Len(h)) = b
    BY ONLY <2>1, CutCat
  <2> QED
    BY <2>1, <2>2 DEF h
<1>9. ASSUME NEW k \in Nat PROVE R[0][(n + 1) + k] = Before(y, g) \o R[u][k]
  <2> DEFINE c == R[u][k]
  <2>1. (n + 1) + k = n + (k + 1) /\ k + 1 \in Nat
    OBVIOUS
  <2>2. R[p][k + 1] = r \o c
    <3>1. Swapped(t, o, s, r, p, k)
      BY <1>0, <1>5, RestHit
    <3> QED
      BY <3>1 DEF Swapped
  <2>3. R[0][(n + 1) + k] = a \o (r \o c)
    BY <1>0, <2>1, <2>2
  <2>4. a \in Texts /\ r \in Texts /\ c \in Texts
    <3>1. c \in Texts
      BY <1>3, RestFacts
    <3> QED
      BY <1>4, <3>1
  <2> HIDE DEF c
  <2>5. (a \o r) \o c = a \o (r \o c)
    BY ONLY SMTT(30), <2>4 DEF Texts
  <2> QED
    BY <1>8, <2>3, <2>5 DEF c
<1>10. C[0] = (n + 1) + C[u]
  <2>1. C[p] = CountBody(C, t, o, s, p) /\ C[u] \in Nat
    BY <1>0, <1>3, CountIs
  <2>2. p # Len(t)
    <3>1. m > 0
      BY DEF Texts
    <3> QED
      BY <1>1, <1>2, <1>3, <3>1
  <2>3. C[p] = 1 + C[u]
    BY <1>0, <1>5, <2>1, <2>2 DEF CountBody
  <2> DEFINE e == C[u]
  <2>4. C[0] = n + (1 + e) /\ e \in Nat
    BY <1>0, <2>1, <2>3
  <2> HIDE DEF e
  <2>5. n + (1 + e) = (n + 1) + e
    BY <2>4
  <2> QED
    BY <2>4, <2>5 DEF e
<1>11. u >= o
  BY <1>0, <1>1
<1>12. Aligned(y, g, t, o, s, r, n + 1, u)
  <2> HIDE DEF y, g, u
  <2> QED
    BY <1>3, <1>7, <1>8, <1>9, <1>10, <1>11 DEF Aligned
<1> QED
  BY <1>7, <1>12 DEF a, b

---------------------------------------------------------------------------
(* The loop of query-replace.                                              *)

Replacing == [search : Texts, replace : Texts, nb_reps : Nat,
              replace_all : BOOLEAN, found_offset : Nat \cup {-1},
              orig : Texts, from : Nat]

Works == [text : Texts, offset : Nat, mark : Nat, qr : Replacing]

Sound(w) == w \in Works /\ w.offset <= Len(w.text) /\ w.mark <= Len(w.text)

(* What the loop leaves as it is.                                          *)
Kept(w, v) ==
    /\ v.qr.search = w.qr.search /\ v.qr.replace = w.qr.replace
    /\ v.qr.replace_all = w.qr.replace_all
    /\ v.qr.orig = w.qr.orig /\ v.qr.from = w.qr.from

OnTrack(w) ==
    /\ w.qr.search # << >>
    /\ \E p : Aligned(w.text, w.qr.found_offset, w.qr.orig, w.qr.from,
                      w.qr.search, w.qr.replace, w.qr.nb_reps, p)

(* A match is shown.                                                       *)
Shows(w) ==
    /\ OnTrack(w)
    /\ At(w.text, w.qr.found_offset, w.qr.search)

(* Nothing is left to be found.                                            *)
Finished(w) ==
    /\ w.qr.found_offset = -1
    /\ w.text = Replaced(w.qr.orig, w.qr.from, w.qr.search, w.qr.replace, w.qr.nb_reps)
    /\ w.qr.nb_reps = Occurrences(w.qr.orig, w.qr.from, w.qr.search)

(* How much of the text is left to search.                                 *)
Left(w) == Len(w.text) - w.qr.found_offset

LEMMA WorkType ==
    ASSUME NEW w, Sound(w)
    PROVE  /\ w.text \in Texts /\ w.offset \in Nat /\ w.mark \in Nat /\ w.qr \in Replacing
           /\ w.qr.search \in Texts /\ w.qr.replace \in Texts /\ w.qr.nb_reps \in Nat
           /\ w.qr.replace_all \in BOOLEAN /\ w.qr.found_offset \in Nat \cup {-1}
           /\ w.qr.orig \in Texts /\ w.qr.from \in Nat
           /\ Len(w.text) \in Nat /\ Len(w.qr.search) \in Nat /\ Len(w.qr.replace) \in Nat
           /\ w.offset <= Len(w.text) /\ w.mark <= Len(w.text)
<1>1. w.text \in Texts /\ w.offset \in Nat /\ w.mark \in Nat /\ w.qr \in Replacing
  BY DEF Sound, Works
<1>2. /\ w.qr.search \in Texts /\ w.qr.replace \in Texts /\ w.qr.nb_reps \in Nat
      /\ w.qr.replace_all \in BOOLEAN /\ w.qr.found_offset \in Nat \cup {-1}
      /\ w.qr.orig \in Texts /\ w.qr.from \in Nat
  BY <1>1 DEF Replacing
<1>3. Len(w.text) \in Nat /\ Len(w.qr.search) \in Nat /\ Len(w.qr.replace) \in Nat
  BY <1>1, <1>2 DEF Texts
<1> QED
  BY <1>1, <1>2, <1>3 DEF Sound

(* What SearchNext yields, field by field.                                 *)
LEMMA NextFields ==
    ASSUME NEW w, Sound(w), w.qr.found_offset \in Nat
    PROVE  LET v == SearchNext(w)
               e == eb_search(w.text, w.qr.found_offset, 1, w.qr.search, {}, FALSE)
           IN  /\ Sound(v) /\ Kept(w, v)
               /\ v.text = w.text /\ v.offset = w.offset /\ v.mark = w.mark
               /\ v.qr.nb_reps = w.qr.nb_reps /\ v.qr.found_offset = e
               /\ e = -1 \/ (IsHit(w.text, e, w.qr.search, {}) /\ e >= w.qr.found_offset)
<1> DEFINE v == SearchNext(w)
           e == eb_search(w.text, w.qr.found_offset, 1, w.qr.search, {}, FALSE)
           y == [w.qr EXCEPT !.found_offset = e]
<1>0. /\ w.text \in Texts /\ w.qr.search \in Texts /\ w.qr \in Replacing
      /\ w \in Works /\ w.offset <= Len(w.text) /\ w.mark <= Len(w.text)
      /\ w.qr.found_offset \in Int /\ w.qr.found_offset >= 0
  BY WorkType DEF Sound
<1>1. e = -1 \/ (IsHit(w.text, e, w.qr.search, {}) /\ e >= w.qr.found_offset)
  <2> DEFINE d == 1
  <2>1. d \in {-1, 1} /\ d = 1
    OBVIOUS
  <2> HIDE DEF d
  <2>2. LET r == eb_search(w.text, w.qr.found_offset, d, w.qr.search, {}, FALSE)
        IN  \/ r = -1
            \/ /\ IsHit(w.text, r, w.qr.search, {})
               /\ d = 1 => r >= w.qr.found_offset
               /\ d = -1 => r < w.qr.found_offset
    BY <1>0, <2>1, SearchFinds
  <2> QED
    BY <2>1, <2>2
<1>2. e \in Nat \cup {-1}
  BY <1>1 DEF IsHit
<1>3. v = [w EXCEPT !.qr = y]
  BY <1>0 DEF SearchNext, Works
<1> HIDE DEF e
<1>4. /\ y \in Replacing /\ y.found_offset = e /\ y.search = w.qr.search
      /\ y.replace = w.qr.replace /\ y.replace_all = w.qr.replace_all
      /\ y.orig = w.qr.orig /\ y.from = w.qr.from /\ y.nb_reps = w.qr.nb_reps
  BY <1>0, <1>2 DEF Replacing
<1> HIDE DEF y, v
<1>5. /\ v \in Works /\ v.text = w.text /\ v.offset = w.offset /\ v.mark = w.mark
      /\ v.qr = y
  BY <1>0, <1>3, <1>4 DEF Works
<1>6. Sound(v) /\ Kept(w, v)
  BY <1>0, <1>4, <1>5 DEF Sound, Kept
<1> QED
  BY <1>1, <1>4, <1>5, <1>6 DEF v, e

(* The next match is shown, or there is none.                              *)
LEMMA NextShows ==
    ASSUME NEW w, Sound(w), OnTrack(w)
    PROVE  LET v == SearchNext(w)
           IN  /\ Sound(v) /\ Kept(w, v)
               /\ v.text = w.text /\ v.mark = w.mark /\ v.offset = w.offset
               /\ Finished(v) \/ (Shows(v) /\ Left(v) <= Left(w))
<1> DEFINE v == SearchNext(w)
           x == w.text
           f == w.qr.found_offset
           t == w.qr.orig
           o == w.qr.from
           s == w.qr.search
           r == w.qr.replace
           n == w.qr.nb_reps
           e == eb_search(x, f, 1, s, {}, FALSE)
<1>0. /\ x \in Texts /\ t \in Texts /\ o \in Nat /\ s \in Texts /\ r \in Texts /\ n \in Nat
      /\ s # << >> /\ Len(x) \in Nat /\ Len(s) \in Nat
  BY WorkType DEF OnTrack
<1>1. PICK p : Aligned(x, f, t, o, s, r, n, p)
  BY DEF OnTrack
<1>2. f \in 0..Len(x) /\ f \in Nat
  <2> HIDE DEF x, f, t, o, s, r, n
  <2> QED
    BY <1>0, <1>1, AlignedPlace
<1>3. /\ Sound(v) /\ Kept(w, v) /\ v.text = x /\ v.offset = w.offset /\ v.mark = w.mark
      /\ v.qr.nb_reps = n /\ v.qr.found_offset = e
      /\ e = -1 \/ (IsHit(x, e, s, {}) /\ e >= f)
  BY <1>2, NextFields
<1>4. /\ e = -1 => \A q \in f..(Len(x) - Len(s)) : ~Match(x, q, s, {})
      /\ e # -1 => \A q \in f..(e - 1) : ~Match(x, q, s, {})
  BY <1>0, <1>2, SearchFirst
<1>5. v.qr.search = s /\ v.qr.replace = r /\ v.qr.orig = t /\ v.qr.from = o
  BY <1>3 DEF Kept
<1> HIDE DEF v, x, f, t, o, s, r, n, e
<1>6. CASE e = -1
  <2>1. ASSUME NEW q \in f..(Len(x) - 1) PROVE ~At(x, q, s)
    <3> SUFFICES ASSUME At(x, q, s) PROVE FALSE
      OBVIOUS
    <3>1. q \in Nat /\ q + Len(s) <= Len(x) /\ q \in f..(Len(x) - Len(s))
      BY <1>0, <1>2 DEF At
    <3>2. Match(x, q, s, {})
      BY <1>0, <3>1, MatchIsAt
    <3> QED
      BY <1>4, <1>6, <3>1, <3>2
  <2>2. n = Occurrences(t, o, s)
    BY <1>0, <1>1, <2>1, AlignedDone
  <2>3. x = Replaced(t, o, s, r, n)
    BY <1>0, <1>1, AlignedText
  <2>4. Finished(v)
    BY <1>3, <1>5, <1>6, <2>2, <2>3 DEF Finished
  <2> QED
    BY <1>3, <2>4 DEF v, x
<1>7. CASE e # -1
  <2>1. e \in Nat /\ e + Len(s) <= Len(x) /\ Match(x, e, s, {}) /\ e >= f
    BY <1>3, <1>7 DEF IsHit
  <2>2. At(x, e, s)
    BY <1>0, <2>1, MatchIsAt
  <2>3. ASSUME NEW q \in f..(e - 1) PROVE ~At(x, q, s)
    <3>1. q \in Nat /\ q + Len(s) <= Len(x)
      BY <1>0, <1>2, <2>1
    <3>2. ~Match(x, q, s, {})
      BY <1>4, <1>7
    <3> QED
      BY <1>0, <3>1, <3>2, MatchIsAt
  <2>4. e \in f..Len(x)
    BY <1>0, <1>2, <2>1
  <2>5. Aligned(x, e, t, o, s, r, n, p + (e - f))
    BY <1>0, <1>1, <2>3, <2>4, AlignedPass
  <2>6. Shows(v)
    BY <1>0, <1>3, <1>5, <2>2, <2>5 DEF Shows, OnTrack
  <2>7. Left(v) <= Left(w)
    <3>1. Left(v) = Len(x) - e /\ Left(w) = Len(x) - f
      BY <1>3 DEF Left, x, f
    <3> QED
      BY <1>0, <1>2, <2>1, <3>1
  <2> QED
    BY <1>3, <2>6, <2>7 DEF v, x
<1> QED
  BY <1>6, <1>7

(* An offset that a callback moves stays in the text.                      *)
LEMMA MovedByType ==
    ASSUME NEW p \in Nat, NEW o \in Nat, NEW size \in Nat, NEW size2 \in Nat,
           NEW l \in Nat, p <= l, o + size <= l
    PROVE  /\ MovedBy(p, o, size, size2) \in Nat
           /\ MovedBy(p, o, size, size2) <= l - size + size2
BY DEF MovedBy

(* The match shown is replaced.                                            *)
LEMMA ReplaceShown ==
    ASSUME NEW w, Sound(w), Shows(w)
    PROVE  LET v == query_replace_replace(w)
           IN  /\ Sound(v) /\ Kept(w, v) /\ OnTrack(v)
               /\ Left(v) < Left(w)
<1> DEFINE v == query_replace_replace(w)
           x == w.text
           f == w.qr.found_offset
           t == w.qr.orig
           o == w.qr.from
           s == w.qr.search
           r == w.qr.replace
           n == w.qr.nb_reps
           y == Before(x, f) \o r \o From(x, f + Len(s))
           a == MovedBy(w.offset, f, Len(s), Len(r))
           b == MovedBy(w.mark, f, Len(s), Len(r))
           z == [w.qr EXCEPT !.found_offset = f + Len(r), !.nb_reps = n + 1]
<1>0. /\ x \in Texts /\ t \in Texts /\ o \in Nat /\ s \in Texts /\ r \in Texts /\ n \in Nat
      /\ s # << >> /\ Len(x) \in Nat /\ Len(s) \in Nat /\ Len(r) \in Nat
      /\ w \in Works /\ w.qr \in Replacing /\ w.offset \in Nat /\ w.mark \in Nat
      /\ w.offset <= Len(x) /\ w.mark <= Len(x)
  BY WorkType DEF Shows, OnTrack, Sound
<1>1. PICK p : Aligned(x, f, t, o, s, r, n, p)
  BY DEF Shows, OnTrack
<1>2. f \in Nat /\ At(x, f, s) /\ f + Len(s) <= Len(x)
  <2>1. At(x, f, s)
    BY DEF Shows
  <2> HIDE DEF x, f, t, o, s, r, n
  <2>2. f \in Nat
    BY <1>0, <1>1, AlignedPlace
  <2> QED
    BY <2>1, <2>2 DEF At
<1>3. /\ y \in Texts /\ Len(y) = Len(x) - Len(s) + Len(r)
      /\ Aligned(y, f + Len(r), t, o, s, r, n + 1, p + Len(s))
  BY ZenonT(60), <1>0, <1>1, <1>2, AlignedReplace
<1>4. v = [w EXCEPT !.text = y, !.offset = a, !.mark = b, !.qr = z]
  BY <1>0 DEF query_replace_replace, Works, Replacing
<1>5. a \in Nat /\ a <= Len(y) /\ b \in Nat /\ b <= Len(y)
  <2> DEFINE l == Len(x)
             c == Len(s)
             d == Len(r)
  <2>1. /\ l \in Nat /\ c \in Nat /\ d \in Nat /\ f + c <= l /\ f \in Nat
        /\ w.offset \in Nat /\ w.mark \in Nat /\ w.offset <= l /\ w.mark <= l
        /\ Len(y) = l - c + d
    BY <1>0, <1>2, <1>3
  <2> HIDE DEF x, f, s, r, y, l, c, d
  <2>2. \A p_1 \in Nat : p_1 <= l =>
          MovedBy(p_1, f, c, d) \in Nat /\ MovedBy(p_1, f, c, d) <= l - c + d
    BY <2>1, MovedByType
  <2> QED
    BY <2>1, <2>2 DEF c, d
<1> HIDE DEF y, a, b
<1>6. /\ z \in Replacing /\ z.found_offset = f + Len(r) /\ z.nb_reps = n + 1
      /\ z.search = s /\ z.replace = r /\ z.replace_all = w.qr.replace_all
      /\ z.orig = t /\ z.from = o
  <2> DEFINE c == f + Len(r)
             d == n + 1
  <2>1. c \in Nat /\ d \in Nat
    BY SMTT(30), <1>0, <1>2
  <2> HIDE DEF c, d
  <2>2. z = [w.qr EXCEPT !.found_offset = c, !.nb_reps = d]
    BY DEF c, d
  <2> HIDE DEF z
  <2>3. /\ z \in Replacing /\ z.found_offset = c /\ z.nb_reps = d
        /\ z.search = w.qr.search /\ z.replace = w.qr.replace
        /\ z.replace_all = w.qr.replace_all /\ z.orig = w.qr.orig /\ z.from = w.qr.from
    BY <1>0, <2>1, <2>2 DEF Replacing
  <2> QED
    BY <2>3 DEF c, d
<1> HIDE DEF z, v
<1>7. v \in Works /\ v.text = y /\ v.offset = a /\ v.mark = b /\ v.qr = z
  BY <1>0, <1>3, <1>4, <1>5, <1>6 DEF Works
<1>8. Sound(v) /\ Kept(w, v)
  BY <1>5, <1>6, <1>7 DEF Sound, Kept
<1>9. OnTrack(v)
  BY <1>0, <1>3, <1>6, <1>7 DEF OnTrack
<1>10. Left(v) < Left(w)
  <2>1. Left(v) = Len(y) - (f + Len(r)) /\ Left(w) = Len(x) - f
    BY <1>6, <1>7 DEF Left
  <2>2. Len(s) > 0
    BY <1>0 DEF Texts
  <2> HIDE DEF x, f, s, r
  <2> QED
    BY <1>0, <1>2, <1>3, <2>1, <2>2
<1> QED
  BY <1>8, <1>9, <1>10 DEF v

LEMMA LeftIs ==
    ASSUME NEW w, Sound(w)
    PROVE  /\ Left(w) \in Int
           /\ OnTrack(w) => Left(w) >= 0 /\ Left(w) <= Len(w.text)
           /\ Shows(w) => Left(w) > 0 /\ w.qr.found_offset \in Nat
<1>0. /\ Len(w.text) \in Nat /\ w.qr.found_offset \in Nat \cup {-1}
      /\ w.qr.search \in Texts
  BY WorkType
<1>1. OnTrack(w) => w.qr.found_offset \in 0..Len(w.text) /\ w.qr.search # << >>
  BY DEF OnTrack, Aligned
<1>2. w.qr.search # << >> => Len(w.qr.search) \in Nat /\ Len(w.qr.search) > 0
  BY <1>0 DEF Texts
<1>3. Shows(w) => OnTrack(w) /\ w.qr.found_offset + Len(w.qr.search) <= Len(w.text)
  BY DEF Shows, At
<1> QED
  BY <1>0, <1>1, <1>2, <1>3 DEF Left

(* The state of the loop after rounds that left at most l to search.       *)
InLoop(w, v, l) ==
    /\ Sound(v) /\ Kept(w, v)
    /\ Finished(v) \/ (Shows(v) /\ Left(v) <= l)

LEMMA RedoStep ==
    ASSUME NEW w, NEW v, NEW l \in Int, InLoop(w, v, l)
    PROVE  InLoop(w, Redo(v), l - 1)
<1>1. Sound(v) /\ Kept(w, v)
  BY DEF InLoop
<1>2. CASE Finished(v)
  <2>1. Redo(v) = v
    BY <1>2 DEF Redo, Finished
  <2> QED
    BY <1>1, <1>2, <2>1 DEF InLoop
<1>3. CASE Shows(v) /\ Left(v) <= l
  <2> DEFINE u == query_replace_replace(v)
  <2>1. Redo(v) = SearchNext(u)
    <3>1. v.qr.found_offset \in Nat
      BY <1>1, <1>3, LeftIs
    <3> QED
      BY <3>1 DEF Redo
  <2>2. Sound(u) /\ Kept(v, u) /\ OnTrack(u) /\ Left(u) < Left(v)
    BY <1>1, <1>3, ReplaceShown
  <2> HIDE DEF u
  <2> DEFINE y == SearchNext(u)
  <2>3. /\ Sound(y) /\ Kept(u, y)
        /\ Finished(y) \/ (Shows(y) /\ Left(y) <= Left(u))
    BY <2>2, NextShows
  <2> HIDE DEF y
  <2>4. Left(v) \in Int /\ Left(u) \in Int /\ Left(y) \in Int
    BY <1>1, <2>2, <2>3, LeftIs
  <2>5. Kept(w, y)
    BY <1>1, <2>2, <2>3 DEF Kept
  <2>6. Finished(y) \/ (Shows(y) /\ Left(y) <= l - 1)
    BY <1>3, <2>2, <2>3, <2>4
  <2> QED
    BY <2>1, <2>3, <2>5, <2>6 DEF InLoop, y
<1> QED
  BY <1>2, <1>3 DEF InLoop

RoundEquation(round, w, m) ==
    round = [i \in 0..m |-> IF i = 0 THEN w ELSE Redo(round[i - 1])]

LEMMA RoundPoints ==
    ASSUME NEW round, NEW w, NEW m, RoundEquation(round, w, m)
    PROVE  \A i \in 0..m : round[i] = IF i = 0 THEN w ELSE Redo(round[i - 1])
<1> DEFINE F == [i \in 0..m |-> IF i = 0 THEN w ELSE Redo(round[i - 1])]
<1>1. \A i \in 0..m : F[i] = IF i = 0 THEN w ELSE Redo(round[i - 1])
  OBVIOUS
<1>2. round = F
  BY DEF RoundEquation
<1> HIDE DEF F
<1> QED
  BY <1>1, <1>2

LEMMA RoundExists ==
    ASSUME NEW w, NEW m \in Nat
    PROVE  \E round : RoundEquation(round, w, m)
<1> DEFINE T == {n \in 0..m : \E round : RoundEquation(round, w, n)}
<1>1. 0 \in T
  <2>1. RoundEquation([i \in 0..0 |-> w], w, 0)
    BY DEF RoundEquation
  <2> QED
    BY <2>1
<1>2. ASSUME NEW n \in 0..(m - 1), n \in T PROVE n + 1 \in T
  <2>1. PICK round : RoundEquation(round, w, n)
    BY <1>2
  <2> DEFINE more == [i \in 0..(n + 1) |-> IF i <= n THEN round[i] ELSE Redo(round[n])]
  <2>2. n \in Nat /\ (n + 1) - 1 = n
    OBVIOUS
  <2>3. ASSUME NEW i \in 0..(n + 1)
        PROVE  more[i] = IF i = 0 THEN w ELSE Redo(more[i - 1])
    <3>0. \A j \in 0..n : round[j] = IF j = 0 THEN w ELSE Redo(round[j - 1])
      BY <2>1, RoundPoints
    <3>1. CASE i = 0
      BY <2>2, <3>0, <3>1
    <3>2. CASE i # 0 /\ i <= n
      <4>1. i \in 0..n /\ i - 1 \in 0..(n + 1) /\ i - 1 <= n
        BY <2>2, <3>2
      <4>2. more[i] = round[i] /\ more[i - 1] = round[i - 1]
        BY <3>2, <4>1
      <4> QED
        BY <3>0, <3>2, <4>1, <4>2
    <3>3. CASE i = n + 1
      <4>1. i # 0 /\ ~(i <= n) /\ n \in 0..(n + 1) /\ i - 1 = n
        BY <2>2, <3>3
      <4>2. more[n] = round[n]
        BY <2>2, <4>1
      <4> QED
        BY <3>3, <4>1, <4>2
    <3> QED
      BY <2>2, <3>1, <3>2, <3>3
  <2>4. more = [i \in 0..(n + 1) |-> more[i]]
    OBVIOUS
  <2> HIDE DEF more
  <2>5. RoundEquation(more, w, n + 1)
    BY <2>3, <2>4 DEF RoundEquation
  <2>6. n + 1 \in 0..m
    OBVIOUS
  <2> QED
    BY <2>5, <2>6
<1> HIDE DEF T
<1>3. m \in T
  BY <1>1, <1>2, UpTo
<1> QED
  BY <1>3 DEF T

(* The loop ends, with every occurrence replaced.                          *)
LEMMA ReplaceAllEnds ==
    ASSUME NEW w, Sound(w), Shows(w) \/ Finished(w)
    PROVE  LET v == ReplaceAll(w)
           IN  Sound(v) /\ Kept(w, v) /\ Finished(v)
<1> DEFINE m == Len(w.text)
           round == CHOOSE f : RoundEquation(f, w, m)
           T == {i \in 0..m : InLoop(w, round[i], m - i)}
<1>0. m \in Nat
  BY WorkType
<1>1. ReplaceAll(w) = round[m]
  BY DEF ReplaceAll, RoundEquation
<1>2. RoundEquation(round, w, m)
  BY <1>0, RoundExists
<1> HIDE DEF round
<1>3. \A i \in 0..m : round[i] = IF i = 0 THEN w ELSE Redo(round[i - 1])
  BY <1>2, RoundPoints
<1>4. 0 \in T
  <2>1. round[0] = w /\ m - 0 = m
    BY <1>0, <1>3
  <2>2. Shows(w) => Left(w) <= m
    BY LeftIs DEF Shows
  <2>3. InLoop(w, w, m)
    BY <2>2 DEF InLoop, Kept
  <2> QED
    BY <1>0, <2>1, <2>3
<1>5. ASSUME NEW i \in 0..(m - 1), i \in T PROVE i + 1 \in T
  <2>1. /\ i + 1 \in 0..m /\ i + 1 # 0 /\ (i + 1) - 1 = i /\ m - i \in Int
        /\ (m - i) - 1 = m - (i + 1)
    BY <1>0
  <2>2. round[i + 1] = Redo(round[i])
    BY <1>3, <2>1
  <2>3. InLoop(w, round[i], m - i)
    BY <1>5
  <2>4. InLoop(w, Redo(round[i]), (m - i) - 1)
    BY <2>1, <2>3, RedoStep
  <2> QED
    BY <2>1, <2>2, <2>4
<1> HIDE DEF T
<1>6. m \in T
  BY <1>0, <1>4, <1>5, UpTo
<1> DEFINE v == round[m]
<1>7. InLoop(w, v, 0)
  <2>1. m - m = 0
    BY <1>0
  <2> QED
    BY <1>6, <2>1 DEF T
<1> HIDE DEF v
<1>8. Sound(v) /\ Kept(w, v) /\ Finished(v)
  BY <1>7, LeftIs DEF InLoop
<1> QED
  BY <1>1, <1>8 DEF v

---------------------------------------------------------------------------
(* The invariant.                                                          *)

(* The match that the incremental search shows.                            *)
SearchShown(x, t, o) ==
    x.found_offset >= 0 =>
      LET buf == SearchBytes(x.string)
      IN  /\ x.found_offset + Len(buf) <= Len(t)
          /\ Match(t, x.found_offset, buf, x.flags)
          /\ o = x.found_offset + Len(buf)

(* The match that query-replace shows.                                     *)
ReplaceShownAt(t, o, x) ==
    /\ x.search # << >> /\ ~x.replace_all /\ o = x.found_offset
    /\ At(t, x.found_offset, x.search)
    /\ \E p : Aligned(t, x.found_offset, x.orig, x.from, x.search, x.replace,
                      x.nb_reps, p)

SearchInv ==
    /\ TypeOK
    /\ mode = "isearch" => SearchShown(is, text, offset)
    /\ mode = "replace" => ReplaceShownAt(text, offset, qr)
    /\ ReplacedInOrder
    /\ AllReplaced

LEMMA TypeIs ==
    TypeOK <=>
    /\ text \in Texts
    /\ offset \in 0..Len(text)
    /\ mark \in 0..Len(text)
    /\ readonly \in BOOLEAN
    /\ last \in Texts /\ Len(last) <= SearchLength
    /\ mode \in {"edit", "isearch", "replace"}
    /\ is \in Searching
    /\ Len(is.string) <= SearchLength
    /\ mode = "isearch" => is.start_offset <= Len(text)
    /\ qr \in Replacing
BY DEF TypeOK, Searching, Replacing, Texts, SearchString, Element

LEMMA TypeNext ==
    /\ text' \in Texts
    /\ offset' \in 0..Len(text')
    /\ mark' \in 0..Len(text')
    /\ readonly' \in BOOLEAN
    /\ last' \in Texts /\ Len(last') <= SearchLength
    /\ mode' \in {"edit", "isearch", "replace"}
    /\ is' \in Searching
    /\ Len(is'.string) <= SearchLength
    /\ mode' = "isearch" => is'.start_offset <= Len(text')
    /\ qr' \in Replacing
    => TypeOK'
BY DEF TypeOK, Searching, Replacing, Texts, SearchString, Element

LEMMA NoSearchType == NoSearch \in Searching /\ Len(NoSearch.string) <= SearchLength
BY LengthAssumption DEF NoSearch, Searching

LEMMA NoReplaceIs ==
    ASSUME NEW t \in Texts
    PROVE  LET x == NoReplace(t)
           IN  /\ x \in Replacing /\ ~x.replace_all
               /\ t = Replaced(x.orig, x.from, x.search, x.replace, x.nb_reps)
<1> DEFINE x == NoReplace(t)
<1>0. << >> \in Texts /\ 0 \in Nat
  BY DEF Texts
<1>1. x \in Replacing
  BY <1>0 DEF NoReplace, Replacing
<1>2. /\ x.orig = t /\ x.from = 0 /\ x.search = << >> /\ x.replace = << >>
      /\ x.nb_reps = 0 /\ ~x.replace_all
  BY DEF NoReplace
<1>3. t = Replaced(t, 0, << >>, << >>, 0)
  BY <1>0, ReplacedNone
<1> QED
  BY <1>1, <1>2, <1>3

(* A search that is shown.                                                 *)
LEMMA DisplayStep ==
    ASSUME text \in Texts, offset \in 0..Len(text), NEW x \in Searching,
           Len(x.string) <= SearchLength, x.start_offset <= Len(text),
           NEW pending, isearch_display(x, pending)
    PROVE  /\ is' \in Searching /\ Len(is'.string) <= SearchLength
           /\ is'.start_offset <= Len(text) /\ offset' \in 0..Len(text)
           /\ SearchShown(is', text, offset')
           /\ is'.string = x.string /\ is'.dir = x.dir
           /\ \/ is'.found_offset = -1
              \/ /\ x.dir = 1 => is'.found_offset >= SearchOffset(x)
                 /\ x.dir = -1 => is'.found_offset < SearchOffset(x)
<1> DEFINE buf == SearchBytes(x.string)
           e == eb_search(text, SearchOffset(x), x.dir, buf, x.flags, pending)
<1>0. /\ x.string \in Seq(Element) /\ x.dir \in {-1, 1} /\ x.start_offset \in Nat
      /\ Len(text) \in Nat
  BY DEF Searching, Texts
<1>1. buf \in Texts /\ Len(buf) \in Nat
  <2>1. buf \in Texts
    BY <1>0, SearchBytesAre
  <2> QED
    BY <2>1 DEF Texts
<1>2. SearchOffset(x) \in Int /\ (x.dir = 1 => SearchOffset(x) >= 0)
  BY SearchOffsetIs
<1>3. is' = [x EXCEPT !.found_offset = e]
  BY DEF isearch_display
<1>4. offset' = IF buf = << >> THEN x.start_offset
                ELSE IF e >= 0 THEN e + Len(buf) ELSE offset
  BY DEF isearch_display
<1> HIDE DEF buf
<1>5. \/ e = -1
      \/ /\ IsHit(text, e, buf, x.flags)
         /\ x.dir = 1 => e >= SearchOffset(x)
         /\ x.dir = -1 => e < SearchOffset(x)
  BY <1>0, <1>1, <1>2, SearchFinds
<1> HIDE DEF e
<1>6. e = -1 \/ (e \in Nat /\ e + Len(buf) <= Len(text) /\ buf # << >>
                 /\ Match(text, e, buf, x.flags))
  BY <1>5 DEF IsHit
<1>7. /\ is' \in Searching /\ is'.found_offset = e /\ is'.string = x.string
      /\ is'.dir = x.dir /\ is'.start_offset = x.start_offset /\ is'.flags = x.flags
  <2>1. e \in Nat \cup {-1}
    BY <1>6
  <2> QED
    BY <1>3, <2>1 DEF Searching
<1>8. offset' \in 0..Len(text)
  BY <1>0, <1>1, <1>4, <1>6
<1>9. SearchShown(is', text, offset')
  <2> SUFFICES ASSUME e >= 0
               PROVE  /\ e + Len(buf) <= Len(text)
                      /\ Match(text, e, buf, x.flags)
                      /\ offset' = e + Len(buf)
    BY <1>7 DEF SearchShown, buf
  <2> QED
    BY <1>4, <1>6
<1> QED
  BY <1>5, <1>7, <1>8, <1>9

(* A step of query-replace, from the search to the question.               *)
LEMMA QueryStep ==
    ASSUME NEW w, Sound(w), query_replace_display(w),
           \/ OnTrack(w)
           \/ /\ w.qr.search = << >> /\ w.qr.found_offset \in Nat
              /\ w.qr.nb_reps = 0 /\ ~w.qr.replace_all /\ w.text = w.qr.orig
    PROVE  /\ text' \in Texts /\ offset' \in 0..Len(text') /\ mark' \in 0..Len(text')
           /\ qr' \in Replacing /\ mode' \in {"edit", "replace"}
           /\ mode' = "replace" => ReplaceShownAt(text', offset', qr')
           /\ ReplacedInOrder' /\ AllReplaced'
           /\ UNCHANGED <<readonly, last, is>>
<1> DEFINE next == SearchNext(w)
           r == IF w.qr.replace_all THEN ReplaceAll(next) ELSE next
<1>1. /\ text' = r.text /\ mark' = r.mark /\ qr' = r.qr
      /\ offset' = IF r.qr.found_offset < 0 THEN r.offset ELSE r.qr.found_offset
      /\ mode' = IF r.qr.found_offset < 0 THEN "edit" ELSE "replace"
      /\ UNCHANGED <<readonly, last, is>>
  BY DEF query_replace_display
<1>2. CASE OnTrack(w)
  <2>1. Sound(next) /\ Kept(w, next) /\ (Finished(next) \/ Shows(next))
    BY <1>2, NextShows
  <2> HIDE DEF next
  <2>2. Sound(r) /\ (Finished(r) \/ (Shows(r) /\ ~r.qr.replace_all))
    <3>1. CASE w.qr.replace_all
      <4>1. r = ReplaceAll(next)
        BY <3>1
      <4>2. Sound(ReplaceAll(next)) /\ Finished(ReplaceAll(next))
        BY <2>1, ReplaceAllEnds
      <4> QED
        BY <4>1, <4>2
    <3>2. CASE ~w.qr.replace_all
      <4>1. r = next /\ ~next.qr.replace_all
        BY <2>1, <3>2 DEF Kept
      <4> QED
        BY <2>1, <4>1
    <3> QED
      BY <3>1, <3>2
  <2> HIDE DEF r
  <2>3. /\ r.text \in Texts /\ r.offset \in 0..Len(r.text) /\ r.mark \in 0..Len(r.text)
        /\ r.qr \in Replacing
    BY <2>2, WorkType
  <2>4. CASE Finished(r)
    <3>1. /\ r.qr.found_offset = -1
          /\ r.text = Replaced(r.qr.orig, r.qr.from, r.qr.search, r.qr.replace, r.qr.nb_reps)
          /\ r.qr.nb_reps = Occurrences(r.qr.orig, r.qr.from, r.qr.search)
      BY <2>4 DEF Finished
    <3>2. mode' = "edit" /\ offset' = r.offset
      BY <1>1, <3>1
    <3> QED
      BY <1>1, <2>3, <3>1, <3>2 DEF ReplacedInOrder, AllReplaced
  <2>5. CASE Shows(r) /\ ~r.qr.replace_all
    <3>1. r.qr.found_offset \in Nat
      BY <2>2, <2>5, LeftIs
    <3>2. mode' = "replace" /\ offset' = r.qr.found_offset
      BY <1>1, <3>1
    <3>3. r.qr.found_offset \in 0..Len(r.text)
      BY <2>5 DEF Shows, OnTrack, Aligned
    <3>4. ReplaceShownAt(text', offset', qr')
      BY <1>1, <2>5, <3>2 DEF ReplaceShownAt, Shows, OnTrack
    <3>5. r.text = Replaced(r.qr.orig, r.qr.from, r.qr.search, r.qr.replace, r.qr.nb_reps)
      <4>1. PICK p : Aligned(r.text, r.qr.found_offset, r.qr.orig, r.qr.from,
                             r.qr.search, r.qr.replace, r.qr.nb_reps, p)
        BY <2>5 DEF Shows, OnTrack
      <4>2. r.qr.search # << >>
        BY <2>5 DEF Shows, OnTrack
      <4>3. /\ r.qr.search \in Texts /\ r.qr.replace \in Texts /\ r.qr.nb_reps \in Nat
            /\ r.qr.orig \in Texts /\ r.qr.from \in Nat
        BY <2>2, WorkType
      <4> QED
        BY <2>3, <4>1, <4>2, <4>3, AlignedText
    <3>6. ReplacedInOrder' /\ AllReplaced'
      BY <1>1, <2>5, <3>5 DEF ReplacedInOrder, AllReplaced
    <3> QED
      BY <1>1, <2>3, <3>2, <3>3, <3>4, <3>6
  <2> QED
    BY <2>2, <2>4, <2>5
<1>3. CASE /\ w.qr.search = << >> /\ w.qr.found_offset \in Nat
           /\ w.qr.nb_reps = 0 /\ ~w.qr.replace_all /\ w.text = w.qr.orig
  <2>1. r = next
    BY <1>3
  <2>2. /\ Sound(next) /\ Kept(w, next) /\ next.text = w.text
        /\ next.qr.nb_reps = w.qr.nb_reps
        /\ next.qr.found_offset =
             eb_search(w.text, w.qr.found_offset, 1, w.qr.search, {}, FALSE)
    BY <1>3, NextFields
  <2>3. next.qr.found_offset = -1
    BY <1>3, <2>2 DEF eb_search
  <2> HIDE DEF next
  <2>4. /\ next.qr.search = << >> /\ next.qr.nb_reps = 0 /\ ~next.qr.replace_all
        /\ next.text = next.qr.orig
    BY <1>3, <2>2 DEF Kept
  <2>5. /\ next.text \in Texts /\ next.offset \in 0..Len(next.text)
        /\ next.mark \in 0..Len(next.text) /\ next.qr \in Replacing
        /\ next.qr.search \in Texts /\ next.qr.replace \in Texts
        /\ next.qr.orig \in Texts /\ next.qr.from \in Nat
    BY <2>2, WorkType
  <2>6. next.qr.orig = Replaced(next.qr.orig, next.qr.from, next.qr.search,
                                next.qr.replace, next.qr.nb_reps)
    BY <2>4, <2>5, ReplacedNone
  <2> HIDE DEF r
  <2>7. /\ text' = next.text /\ mark' = next.mark /\ qr' = next.qr
        /\ offset' = next.offset /\ mode' = "edit"
    BY <1>1, <2>1, <2>3
  <2> QED
    BY <1>1, <2>4, <2>5, <2>6, <2>7 DEF ReplacedInOrder, AllReplaced
<1> QED
  BY <1>2, <1>3

---------------------------------------------------------------------------
(* Every step keeps the invariant.                                         *)

(* The search that a key asks for is one that can be shown.                *)
Asked(x) ==
    /\ x \in Searching /\ Len(x.string) <= SearchLength
    /\ x.start_offset <= Len(text)

LEMMA AgainKeeps ==
    ASSUME SearchInv, NEW x, mode = "isearch" => Asked(x), NEW pending,
           SearchAgain(x, pending)
    PROVE  SearchInv'
<1>0. /\ text \in Texts /\ offset \in 0..Len(text) /\ mark \in 0..Len(text)
      /\ readonly \in BOOLEAN /\ last \in Texts /\ Len(last) <= SearchLength
      /\ qr \in Replacing /\ mode = "isearch" /\ ReplacedInOrder /\ AllReplaced
      /\ Asked(x)
  BY TypeIs DEF SearchInv, SearchAgain
<1>1. isearch_display(x, pending) /\ UNCHANGED <<text, mark, readonly, last, mode, qr>>
  BY DEF SearchAgain
<1>2. /\ is' \in Searching /\ Len(is'.string) <= SearchLength
      /\ is'.start_offset <= Len(text) /\ offset' \in 0..Len(text)
      /\ SearchShown(is', text, offset')
  BY <1>0, <1>1, DisplayStep DEF Asked
<1>3. TypeOK'
  BY <1>0, <1>1, <1>2, TypeNext
<1>4. ReplacedInOrder' /\ AllReplaced'
  BY <1>0, <1>1 DEF ReplacedInOrder, AllReplaced
<1> QED
  BY <1>0, <1>1, <1>2, <1>3, <1>4 DEF SearchInv

LEMMA ShorterString ==
    ASSUME NEW str \in Seq(Element)
    PROVE  LET s == IF str = << >> THEN str ELSE SubSeq(str, 1, Len(str) - 1)
           IN  s \in Seq(Element) /\ Len(s) <= Len(str)
OBVIOUS

LEMMA LongerString ==
    ASSUME NEW str \in Seq(Element), NEW v \in Element
    PROVE  /\ Append(str, v) \in Seq(Element) /\ Len(Append(str, v)) = Len(str) + 1
           /\ Append(str, v)[Len(str) + 1] = v
OBVIOUS

LEMMA LastString ==
    ASSUME NEW t \in Texts
    PROVE  LET s == [i \in 1..Len(t) |-> Typed(t[i])]
           IN  /\ s \in Seq(Element) /\ Len(s) = Len(t)
               /\ \A i \in 1..Len(s) : IsChar(s[i])
<1> DEFINE s == [i \in 1..Len(t) |-> Typed(t[i])]
<1>0. Len(t) \in Nat /\ \A i \in 1..Len(t) : t[i] \in Byte
  BY DEF Texts
<1>1. \A i \in 1..Len(t) : Typed(t[i]) \in Element /\ IsChar(Typed(t[i]))
  BY <1>0, ElementsAre
<1>2. s \in [1..Len(t) -> Element]
  BY <1>1
<1>3. s \in Seq(Element) /\ Len(s) = Len(t)
  BY <1>0, <1>2
<1> QED
  BY <1>1, <1>3

(* Another string to search.                                               *)
LEMMA WithString ==
    ASSUME NEW x, Asked(x), NEW str \in Seq(Element), Len(str) <= SearchLength
    PROVE  Asked([x EXCEPT !.string = str]) /\ [x EXCEPT !.string = str].string = str
           /\ [x EXCEPT !.string = str].dir = x.dir
BY DEF Asked, Searching

(* What ^S and ^R search.                                                  *)
NextString(x) ==
    IF x.string = << >> THEN [i \in 1..Len(last) |-> Typed(last[i])]
    ELSE IF Len(x.string) < SearchLength /\ x.found_offset >= 0
    THEN Append(x.string, Found(x.found_offset))
    ELSE x.string

LEMMA NextStringIs ==
    ASSUME last \in Texts, Len(last) <= SearchLength, NEW x, Asked(x)
    PROVE  /\ NextString(x) \in Seq(Element) /\ Len(NextString(x)) <= SearchLength
           /\ Len(NextString(x)) > Len(x.string)
              /\ ~IsChar(NextString(x)[Len(NextString(x))]) =>
                /\ NextString(x) # << >> /\ x.found_offset \in Nat
                /\ NextString(x)[Len(NextString(x))].at = x.found_offset
<1>0. /\ x.string \in Seq(Element) /\ Len(x.string) \in Nat /\ Len(x.string) <= SearchLength
      /\ x.found_offset \in Nat \cup {-1} /\ SearchLength \in Nat
  BY LengthAssumption DEF Asked, Searching
<1>1. CASE x.string = << >>
  <2>1. NextString(x) = [i \in 1..Len(last) |-> Typed(last[i])]
    BY <1>1 DEF NextString
  <2>2. /\ NextString(x) \in Seq(Element) /\ Len(NextString(x)) = Len(last)
        /\ \A i \in 1..Len(NextString(x)) : IsChar(NextString(x)[i])
    BY <2>1, LastString
  <2>3. ASSUME Len(NextString(x)) > Len(x.string) PROVE IsChar(NextString(x)[Len(NextString(x))])
    <3>1. Len(NextString(x)) \in 1..Len(NextString(x))
      BY <1>0, <2>2, <2>3
    <3> QED
      BY <2>2, <3>1
  <2> QED
    BY <2>2, <2>3
<1>2. CASE x.string # << >> /\ Len(x.string) < SearchLength /\ x.found_offset >= 0
  <2> DEFINE v == Found(x.found_offset)
             s == Append(x.string, v)
  <2>1. NextString(x) = s
    BY <1>2 DEF NextString
  <2>2. x.found_offset \in Nat
    BY <1>0, <1>2
  <2>3. v \in Element /\ ~IsChar(v) /\ v.at = x.found_offset
    BY <2>2, ElementsAre
  <2> HIDE DEF v
  <2>4. s \in Seq(Element) /\ Len(s) = Len(x.string) + 1 /\ s[Len(x.string) + 1] = v
    BY <1>0, <2>3, LongerString
  <2>5. s # << >> /\ Len(s) <= SearchLength
    BY <1>0, <1>2, <2>4
  <2> HIDE DEF s
  <2> QED
    BY <2>1, <2>2, <2>3, <2>4, <2>5
<1>3. CASE x.string # << >> /\ ~(Len(x.string) < SearchLength /\ x.found_offset >= 0)
  <2>1. NextString(x) = x.string
    BY <1>3 DEF NextString
  <2> QED
    BY <1>0, <2>1
<1> QED
  BY <1>1, <1>2, <1>3

LEMMA NextIsAgain ==
    ASSUME NEW dir \in {-1, 1}, NEW pending, isearch_next(dir, pending)
    PROVE  LET x == [is EXCEPT !.dir = dir]
           IN  SearchAgain([x EXCEPT !.string = NextString(x)], pending)
BY DEF isearch_next, NextString

LEMMA InSearch ==
    ASSUME SearchInv, mode = "isearch"
    PROVE  /\ Asked(is) /\ last \in Texts /\ Len(last) <= SearchLength
           /\ is.string \in Seq(Element) /\ is.flags \in SUBSET {IGNORECASE, SMARTCASE, WORD}
           /\ Len(is.string) \in Nat /\ Len(is.string) <= SearchLength
<1>1. Asked(is) /\ last \in Texts /\ Len(last) <= SearchLength
  BY TypeIs DEF SearchInv, Asked
<1>2. is.string \in Seq(Element) /\ is.flags \in SUBSET {IGNORECASE, SMARTCASE, WORD}
      /\ Len(is.string) <= SearchLength
  BY <1>1 DEF Asked, Searching
<1> QED
  BY <1>1, <1>2

(* The keys of the incremental search.                                     *)
LEMMA SearchKeys ==
    ASSUME SearchInv, NEW pending \in BOOLEAN,
           \/ \E dir \in {-1, 1} : isearch_next(dir, pending)
           \/ isearch_backspace(pending)
           \/ isearch_word(pending)
           \/ isearch_case(pending)
           \/ \E c \in Byte : isearch_char(c, pending)
    PROVE  SearchInv'
<1>1. CASE \E dir \in {-1, 1} : isearch_next(dir, pending)
  <2>1. PICK dir \in {-1, 1} : isearch_next(dir, pending)
    BY <1>1
  <2> DEFINE x == [is EXCEPT !.dir = dir]
             y == [x EXCEPT !.string = NextString(x)]
  <2>2. SearchAgain(y, pending)
    BY <2>1, NextIsAgain
  <2>3. ASSUME mode = "isearch" PROVE Asked(y)
    <3>1. Asked(is) /\ last \in Texts /\ Len(last) <= SearchLength
      BY <2>3, InSearch
    <3>2. Asked(x)
      BY <3>1 DEF Asked, Searching
    <3> HIDE DEF x
    <3>3. NextString(x) \in Seq(Element) /\ Len(NextString(x)) <= SearchLength
      BY <3>1, <3>2, NextStringIs
    <3> QED
      BY <3>2, <3>3, WithString
  <2> HIDE DEF y
  <2> QED
    BY <2>2, <2>3, AgainKeeps
<1>2. CASE isearch_backspace(pending)
  <2> DEFINE str == IF is.string = << >> THEN is.string
                    ELSE SubSeq(is.string, 1, Len(is.string) - 1)
             y == [is EXCEPT !.string = str]
  <2>1. SearchAgain(y, pending)
    BY <1>2 DEF isearch_backspace
  <2>2. ASSUME mode = "isearch" PROVE Asked(y)
    <3>1. Asked(is) /\ is.string \in Seq(Element) /\ Len(is.string) <= SearchLength
          /\ Len(is.string) \in Nat /\ SearchLength \in Nat
      BY <2>2, InSearch, LengthAssumption
    <3>2. str \in Seq(Element) /\ Len(str) <= Len(is.string)
      BY <3>1, ShorterString
    <3> HIDE DEF str
    <3>3. Len(str) <= SearchLength
      BY <3>1, <3>2
    <3> QED
      BY <3>1, <3>2, <3>3, WithString
  <2> HIDE DEF y
  <2> QED
    BY <2>1, <2>2, AgainKeeps
<1>3. CASE isearch_word(pending)
  <2> DEFINE y == [is EXCEPT !.flags = Toggle(@, WORD)]
  <2>1. SearchAgain(y, pending)
    BY <1>3 DEF isearch_word
  <2>2. ASSUME mode = "isearch" PROVE Asked(y)
    <3>1. Asked(is) /\ is.flags \in SUBSET {IGNORECASE, SMARTCASE, WORD}
      BY <2>2, InSearch
    <3>2. Toggle(is.flags, WORD) \in SUBSET {IGNORECASE, SMARTCASE, WORD}
      BY <3>1 DEF Toggle
    <3> QED
      BY <3>1, <3>2 DEF Asked, Searching
  <2> HIDE DEF y
  <2> QED
    BY <2>1, <2>2, AgainKeeps
<1>4. CASE isearch_case(pending)
  <2> DEFINE y == [is EXCEPT !.flags = Toggle(@, IGNORECASE) \ {SMARTCASE}]
  <2>1. SearchAgain(y, pending)
    BY <1>4 DEF isearch_case
  <2>2. ASSUME mode = "isearch" PROVE Asked(y)
    <3>1. Asked(is) /\ is.flags \in SUBSET {IGNORECASE, SMARTCASE, WORD}
      BY <2>2, InSearch
    <3>2. Toggle(is.flags, IGNORECASE) \ {SMARTCASE} \in SUBSET {IGNORECASE, SMARTCASE, WORD}
      BY <3>1 DEF Toggle
    <3> QED
      BY <3>1, <3>2 DEF Asked, Searching
  <2> HIDE DEF y
  <2> QED
    BY <2>1, <2>2, AgainKeeps
<1>5. CASE \E c \in Byte : isearch_char(c, pending)
  <2>1. PICK c \in Byte : isearch_char(c, pending)
    BY <1>5
  <2> DEFINE str == IF Len(is.string) < SearchLength THEN Append(is.string, Typed(c))
                    ELSE is.string
             y == [is EXCEPT !.string = str]
  <2>2. SearchAgain(y, pending)
    BY <2>1 DEF isearch_char
  <2>3. ASSUME mode = "isearch" PROVE Asked(y)
    <3>1. Asked(is) /\ is.string \in Seq(Element) /\ Len(is.string) <= SearchLength
          /\ Len(is.string) \in Nat /\ SearchLength \in Nat
      BY <2>3, InSearch, LengthAssumption
    <3>2. Typed(c) \in Element
      BY ElementsAre
    <3>3. str \in Seq(Element) /\ Len(str) <= SearchLength
      BY <3>1, <3>2, LongerString
    <3> HIDE DEF str
    <3> QED
      BY <3>1, <3>3, WithString
  <2> HIDE DEF y
  <2> QED
    BY <2>2, <2>3, AgainKeeps
<1> QED
  BY <1>1, <1>2, <1>3, <1>4, <1>5

(* The commands that start and end the incremental search, and Move.       *)
LEMMA SearchStarts ==
    ASSUME SearchInv, NEW dir \in {-1, 1}, NEW pending \in BOOLEAN,
           do_isearch(dir, pending)
    PROVE  SearchInv'
<1> DEFINE x == [start_offset |-> offset, dir |-> dir, string |-> << >>,
                 flags |-> {SMARTCASE}, found_offset |-> -1]
<1>0. /\ text \in Texts /\ offset \in 0..Len(text) /\ mark \in 0..Len(text)
      /\ readonly \in BOOLEAN /\ last \in Texts /\ Len(last) <= SearchLength
  BY TypeIs DEF SearchInv
<1>1. /\ isearch_display(x, pending) /\ mode' = "isearch" /\ qr' = NoReplace(text)
      /\ UNCHANGED <<text, mark, readonly, last>>
  BY DEF do_isearch
<1>2. x \in Searching /\ Len(x.string) <= SearchLength /\ x.start_offset <= Len(text)
  BY <1>0, LengthAssumption DEF Searching
<1> HIDE DEF x
<1>3. /\ is' \in Searching /\ Len(is'.string) <= SearchLength
      /\ is'.start_offset <= Len(text) /\ offset' \in 0..Len(text)
      /\ SearchShown(is', text, offset')
  BY <1>0, <1>1, <1>2, DisplayStep
<1>4. /\ qr' \in Replacing /\ ~qr'.replace_all
      /\ text = Replaced(qr'.orig, qr'.from, qr'.search, qr'.replace, qr'.nb_reps)
  BY <1>0, <1>1, NoReplaceIs
<1>5. TypeOK'
  BY <1>0, <1>1, <1>3, <1>4, TypeNext
<1>6. ReplacedInOrder' /\ AllReplaced'
  BY <1>1, <1>4 DEF ReplacedInOrder, AllReplaced
<1> QED
  BY <1>1, <1>3, <1>5, <1>6 DEF SearchInv

LEMMA SearchEnds ==
    ASSUME SearchInv, NEW quit \in BOOLEAN, isearch_end(quit)
    PROVE  SearchInv'
<1>0. /\ text \in Texts /\ offset \in 0..Len(text) /\ mark \in 0..Len(text)
      /\ readonly \in BOOLEAN /\ last \in Texts /\ Len(last) <= SearchLength
      /\ qr \in Replacing /\ ReplacedInOrder /\ AllReplaced /\ mode = "isearch"
  BY TypeIs DEF SearchInv, isearch_end
<1>1. /\ is.string \in Seq(Element) /\ Len(is.string) <= SearchLength
      /\ is.start_offset \in Nat /\ is.start_offset <= Len(text)
  BY <1>0, InSearch DEF Asked, Searching
<1>2. /\ mode' = "edit" /\ is' = NoSearch /\ UNCHANGED <<text, readonly, qr>>
      /\ last' = IF is.string = << >> THEN last ELSE SearchBytes(is.string)
      /\ offset' = offset \/ offset' = is.start_offset
      /\ mark' = mark \/ mark' = is.start_offset
  BY DEF isearch_end
<1>3. last' \in Texts /\ Len(last') <= SearchLength
  <2>1. SearchBytes(is.string) \in Texts /\ Len(SearchBytes(is.string)) <= Len(is.string)
    BY <1>1, SearchBytesAre
  <2>2. /\ Len(SearchBytes(is.string)) \in Nat /\ Len(is.string) \in Nat
        /\ SearchLength \in Nat
    BY <1>1, <2>1, LengthAssumption DEF Texts
  <2>3. Len(SearchBytes(is.string)) <= SearchLength
    BY <1>1, <2>1, <2>2
  <2> QED
    BY <1>0, <1>2, <2>1, <2>3
<1>4. Len(text) \in Nat
  BY <1>0 DEF Texts
<1>5. offset' \in 0..Len(text) /\ mark' \in 0..Len(text)
  BY <1>0, <1>1, <1>2, <1>4
<1>6. TypeOK'
  BY <1>0, <1>2, <1>3, <1>5, NoSearchType, TypeNext
<1>7. ReplacedInOrder' /\ AllReplaced'
  BY <1>0, <1>2 DEF ReplacedInOrder, AllReplaced
<1> QED
  BY <1>2, <1>6, <1>7 DEF SearchInv

LEMMA MoveKeeps ==
    ASSUME SearchInv, Move PROVE SearchInv'
<1>0. /\ text \in Texts /\ mark \in 0..Len(text)
      /\ readonly \in BOOLEAN /\ last \in Texts /\ Len(last) <= SearchLength
      /\ is \in Searching /\ Len(is.string) <= SearchLength
  BY TypeIs DEF SearchInv
<1>1. /\ mode = "edit" /\ offset' \in 0..Len(text) /\ qr' = NoReplace(text)
      /\ UNCHANGED <<text, mark, readonly, last, mode, is>>
  BY DEF Move
<1>2. /\ qr' \in Replacing /\ ~qr'.replace_all
      /\ text = Replaced(qr'.orig, qr'.from, qr'.search, qr'.replace, qr'.nb_reps)
  BY <1>0, <1>1, NoReplaceIs
<1>3. TypeOK'
  BY <1>0, <1>1, <1>2, TypeNext
<1>4. ReplacedInOrder' /\ AllReplaced'
  BY <1>1, <1>2 DEF ReplacedInOrder, AllReplaced
<1> QED
  BY <1>1, <1>3, <1>4 DEF SearchInv

(* query-replace keeps the invariant from one question to the next.        *)
LEMMA QueryKeeps ==
    ASSUME SearchInv, mode # "isearch", NEW w, Sound(w), query_replace_display(w),
           \/ OnTrack(w)
           \/ /\ w.qr.search = << >> /\ w.qr.found_offset \in Nat
              /\ w.qr.nb_reps = 0 /\ ~w.qr.replace_all /\ w.text = w.qr.orig
    PROVE  SearchInv'
<1>0. /\ readonly \in BOOLEAN /\ last \in Texts /\ Len(last) <= SearchLength
      /\ is \in Searching /\ Len(is.string) <= SearchLength
  BY TypeIs DEF SearchInv
<1>1. /\ text' \in Texts /\ offset' \in 0..Len(text') /\ mark' \in 0..Len(text')
      /\ qr' \in Replacing /\ mode' \in {"edit", "replace"}
      /\ mode' = "replace" => ReplaceShownAt(text', offset', qr')
      /\ ReplacedInOrder' /\ AllReplaced'
      /\ UNCHANGED <<readonly, last, is>>
  BY QueryStep
<1>2. TypeOK'
  BY <1>0, <1>1, TypeNext
<1> QED
  BY <1>1, <1>2 DEF SearchInv

LEMMA WorkIs ==
    ASSUME NEW t \in Texts, NEW o \in 0..Len(t), NEW m \in 0..Len(t), NEW x \in Replacing
    PROVE  LET w == Work(t, o, m, x)
           IN  Sound(w) /\ w.text = t /\ w.offset = o /\ w.mark = m /\ w.qr = x
<1>1. Len(t) \in Nat
  BY DEF Texts
<1> QED
  BY <1>1 DEF Work, Sound, Works

LEMMA QueryStarts ==
    ASSUME SearchInv, NEW r \in Replacements, do_query_replace(r[1], r[2])
    PROVE  SearchInv'
<1> DEFINE search == r[1]
           replace == r[2]
           x == [search |-> search, replace |-> replace, nb_reps |-> 0,
                 replace_all |-> FALSE, found_offset |-> offset,
                 orig |-> text, from |-> offset]
           w == Work(text, offset, mark, x)
<1>0. /\ text \in Texts /\ offset \in 0..Len(text) /\ mark \in 0..Len(text)
      /\ search \in Texts /\ replace \in Texts /\ mode = "edit"
  BY TypeIs, FilesAssumption DEF SearchInv, Texts, do_query_replace
<1>1. query_replace_display(w)
  BY DEF do_query_replace
<1> HIDE DEF search, replace
<1>2. offset \in Nat
  BY <1>0
<1>3. /\ x \in Replacing /\ x.search = search /\ x.replace = replace /\ x.nb_reps = 0
      /\ ~x.replace_all /\ x.found_offset = offset /\ x.orig = text /\ x.from = offset
  BY <1>0, <1>2 DEF Replacing
<1> HIDE DEF x
<1>4. Sound(w) /\ w.text = text /\ w.qr = x
  BY <1>0, <1>3, WorkIs
<1> HIDE DEF w
<1>5. CASE search # << >>
  <2>1. Aligned(text, offset, text, offset, search, replace, 0, offset)
    BY <1>0, <1>5, AlignedStart
  <2>2. OnTrack(w)
    BY <1>3, <1>4, <1>5, <2>1 DEF OnTrack
  <2> QED
    BY <1>0, <1>1, <1>4, <2>2, QueryKeeps
<1>6. CASE search = << >>
  BY <1>0, <1>1, <1>2, <1>3, <1>4, <1>6, QueryKeeps
<1> QED
  BY <1>5, <1>6

LEMMA QueryKeys ==
    ASSUME SearchInv, NEW ch \in Answers, query_replace_key(ch)
    PROVE  SearchInv'
<1> DEFINE w == Work(text, offset, mark, qr)
           all == [w EXCEPT !.qr.replace_all = TRUE]
           v == CASE ch = "y" -> query_replace_replace(w)
                  [] ch = "!" -> all
                  [] ch = "n" -> w
<1>0. /\ text \in Texts /\ offset \in 0..Len(text) /\ mark \in 0..Len(text)
      /\ qr \in Replacing /\ mode = "replace" /\ ReplaceShownAt(text, offset, qr)
  BY TypeIs DEF SearchInv, query_replace_key
<1>1. query_replace_display(v)
  BY DEF query_replace_key
<1>2. Sound(w) /\ w.text = text /\ w.qr = qr /\ w.offset = offset /\ w.mark = mark
  BY <1>0, WorkIs
<1> HIDE DEF w
<1>3. Shows(w)
  BY <1>0, <1>2 DEF Shows, OnTrack, ReplaceShownAt
<1>4. CASE ch = "y"
  <2>1. v = query_replace_replace(w)
    BY <1>4
  <2>2. Sound(query_replace_replace(w)) /\ OnTrack(query_replace_replace(w))
    BY <1>2, <1>3, ReplaceShown
  <2> HIDE DEF v
  <2> QED
    BY <1>0, <1>1, <2>1, <2>2, QueryKeeps
<1>5. CASE ch = "!"
  <2>1. v = all
    BY <1>5
  <2> DEFINE y == [qr EXCEPT !.replace_all = TRUE]
  <2>2. all = [w EXCEPT !.qr = y]
    BY <1>2 DEF Sound, Works
  <2>3. /\ y \in Replacing /\ y.search = qr.search /\ y.replace = qr.replace
        /\ y.orig = qr.orig /\ y.from = qr.from /\ y.nb_reps = qr.nb_reps
        /\ y.found_offset = qr.found_offset
    BY <1>0 DEF Replacing
  <2> HIDE DEF y, all
  <2>4. all \in Works /\ all.text = w.text /\ all.offset = w.offset /\ all.mark = w.mark
        /\ all.qr = y
    BY <1>2, <2>2, <2>3 DEF Sound, Works
  <2>5. Sound(all) /\ OnTrack(all)
    BY <1>2, <1>3, <2>3, <2>4 DEF Sound, OnTrack, Shows
  <2> HIDE DEF v
  <2> QED
    BY <1>0, <1>1, <2>1, <2>5, QueryKeeps
<1>6. CASE ch = "n"
  <2>1. v = w
    BY <1>6
  <2> HIDE DEF v
  <2> QED
    BY <1>0, <1>1, <1>2, <1>3, <2>1, QueryKeeps DEF Shows
<1> QED
  BY <1>4, <1>5, <1>6 DEF Answers

LEMMA AbortKeeps ==
    ASSUME SearchInv, query_replace_abort PROVE SearchInv'
<1>0. /\ text \in Texts /\ offset \in 0..Len(text) /\ mark \in 0..Len(text)
      /\ readonly \in BOOLEAN /\ last \in Texts /\ Len(last) <= SearchLength
      /\ is \in Searching /\ Len(is.string) <= SearchLength /\ qr \in Replacing
      /\ ReplacedInOrder /\ AllReplaced
  BY TypeIs DEF SearchInv
<1>1. mode' = "edit" /\ UNCHANGED <<text, offset, mark, readonly, last, is, qr>>
  BY DEF query_replace_abort
<1>2. TypeOK'
  BY <1>0, <1>1, TypeNext
<1>3. ReplacedInOrder' /\ AllReplaced'
  BY <1>0, <1>1 DEF ReplacedInOrder, AllReplaced
<1> QED
  BY <1>1, <1>2, <1>3 DEF SearchInv

LEMMA SearchInitial == Init => SearchInv
<1> SUFFICES ASSUME Init PROVE SearchInv
  OBVIOUS
<1>1. /\ text \in Texts /\ readonly \in BOOLEAN
  BY FilesAssumption DEF Init, Texts
<1>2. /\ offset = 0 /\ mark = 0 /\ last = << >> /\ mode = "edit" /\ is = NoSearch
      /\ qr = NoReplace(text)
  BY DEF Init
<1>3. Len(text) \in Nat /\ << >> \in Texts /\ Len(<< >>) <= SearchLength
  BY <1>1, LengthAssumption DEF Texts
<1>4. /\ qr \in Replacing /\ ~qr.replace_all
      /\ text = Replaced(qr.orig, qr.from, qr.search, qr.replace, qr.nb_reps)
  BY <1>1, <1>2, NoReplaceIs
<1>5. TypeOK
  BY <1>1, <1>2, <1>3, <1>4, NoSearchType, TypeIs
<1> QED
  BY <1>2, <1>4, <1>5 DEF SearchInv, ReplacedInOrder, AllReplaced

LEMMA SearchStep == SearchInv /\ [Next]_vars => SearchInv'
<1> SUFFICES ASSUME SearchInv, [Next]_vars PROVE SearchInv'
  OBVIOUS
<1>1. CASE Move
  BY <1>1, MoveKeeps
<1>2. CASE \E pending \in BOOLEAN, dir \in {-1, 1} : do_isearch(dir, pending)
  BY <1>2, SearchStarts
<1>3. CASE \E pending \in BOOLEAN :
             \/ \E dir \in {-1, 1} : isearch_next(dir, pending)
             \/ isearch_backspace(pending)
             \/ isearch_word(pending)
             \/ isearch_case(pending)
             \/ \E c \in Byte : isearch_char(c, pending)
  BY <1>3, SearchKeys
<1>4. CASE \E quit \in BOOLEAN : isearch_end(quit)
  BY <1>4, SearchEnds
<1>5. CASE \E r \in Replacements : do_query_replace(r[1], r[2])
  BY <1>5, QueryStarts
<1>6. CASE \E ch \in Answers : query_replace_key(ch)
  BY <1>6, QueryKeys
<1>7. CASE query_replace_abort
  BY <1>7, AbortKeeps
<1>8. CASE UNCHANGED vars
  <2>1. TypeOK' /\ ReplacedInOrder' /\ AllReplaced'
    BY <1>8 DEF vars, SearchInv, TypeOK, ReplacedInOrder, AllReplaced
  <2> QED
    BY <1>8, <2>1 DEF vars, SearchInv
<1> QED
  BY <1>1, <1>2, <1>3, <1>4, <1>5, <1>6, <1>7, <1>8 DEF Next

LEMMA SearchInvariant == Spec => []SearchInv
BY SearchInitial, SearchStep, PTL DEF Spec

(* The offsets that incremental search and query-replace keep from key to  *)
(* key (is_state and QueryReplaceState in qe.c) stay in the text, and      *)
(* search_string in SEARCH_LENGTH.                                         *)
THEOREM OffsetsStayInText == Spec => []TypeOK
<1>1. SearchInv => TypeOK
  BY DEF SearchInv
<1> QED
  BY <1>1, SearchInvariant, PTL

(* What isearch_display and query_replace_display show, and a y replaces,  *)
(* is a match, with the cursor next to it.                                 *)
THEOREM ShownIsMatch == Spec => []FoundIsMatch
<1>1. SearchInv => FoundIsMatch
  <2> SUFFICES ASSUME SearchInv PROVE FoundIsMatch
    OBVIOUS
  <2>1. ASSUME mode = "replace"
        PROVE  /\ qr.found_offset >= 0
               /\ qr.found_offset + Len(qr.search) <= Len(text)
               /\ Match(text, qr.found_offset, qr.search, {})
               /\ offset = qr.found_offset
    <3>1. ReplaceShownAt(text, offset, qr) /\ text \in Texts /\ qr.search \in Texts
      BY <2>1, TypeIs DEF SearchInv, Replacing
    <3>2. /\ offset = qr.found_offset /\ At(text, qr.found_offset, qr.search)
          /\ qr.found_offset \in 0..Len(text)
      BY <3>1 DEF ReplaceShownAt, Aligned
    <3>3. /\ qr.found_offset \in Nat
          /\ qr.found_offset + Len(qr.search) <= Len(text)
      BY <3>1, <3>2 DEF At, Texts
    <3>4. Match(text, qr.found_offset, qr.search, {})
      BY <3>1, <3>2, <3>3, MatchIsAt
    <3> QED
      BY <3>2, <3>3, <3>4
  <2>2. mode = "isearch" => SearchShown(is, text, offset)
    BY DEF SearchInv
  <2> QED
    BY <2>1, <2>2 DEF FoundIsMatch, SearchShown
<1> QED
  BY <1>1, SearchInvariant, PTL

(* Whatever the answers to query_replace_key, the text is the one at the   *)
(* start with as many occurrences replaced as nb_reps says, from left to   *)
(* right, and what was inserted left alone.                                *)
THEOREM ReplacesInOrder == Spec => []ReplacedInOrder
<1>1. SearchInv => ReplacedInOrder
  BY DEF SearchInv
<1> QED
  BY <1>1, SearchInvariant, PTL

(* After ! the loop of query_replace_display ends, and it has replaced     *)
(* every occurrence.                                                       *)
THEOREM ReplacesAll == Spec => []AllReplaced
<1>1. SearchInv => AllReplaced
  BY DEF SearchInv
<1> QED
  BY <1>1, SearchInvariant, PTL

---------------------------------------------------------------------------
(* A repeated search.                                                      *)

(* A key adds a match that is passed to the string.                        *)
Passes ==
    /\ mode = "isearch" /\ mode' = "isearch"
    /\ Len(is'.string) > Len(is.string)
    /\ ~IsChar(is'.string[Len(is'.string)])

FurtherOn ==
    \/ is'.found_offset = -1
    \/ is'.dir = 1 /\ is'.found_offset > is.found_offset
    \/ is'.dir = -1 /\ is'.found_offset < is.found_offset

LEMMA AgainShows ==
    ASSUME SearchInv, mode = "isearch", NEW x, Asked(x), NEW pending,
           SearchAgain(x, pending)
    PROVE  /\ is'.string = x.string /\ is'.dir = x.dir /\ is' \in Searching
           /\ \/ is'.found_offset = -1
              \/ /\ x.dir = 1 => is'.found_offset >= SearchOffset(x)
                 /\ x.dir = -1 => is'.found_offset < SearchOffset(x)
<1>1. text \in Texts /\ offset \in 0..Len(text)
  BY TypeIs DEF SearchInv
<1>2. isearch_display(x, pending)
  BY DEF SearchAgain
<1> QED
  BY <1>1, <1>2, DisplayStep DEF Asked

LEMMA NextAdvances ==
    ASSUME SearchInv, NEW dir \in {-1, 1}, NEW pending, isearch_next(dir, pending), Passes
    PROVE  FurtherOn
<1> DEFINE x == [is EXCEPT !.dir = dir]
           str == NextString(x)
           y == [x EXCEPT !.string = str]
           n == Len(str)
<1>0. /\ Asked(is) /\ last \in Texts /\ Len(last) <= SearchLength /\ mode = "isearch"
      /\ is.string \in Seq(Element)
  BY InSearch DEF Passes
<1>1. SearchAgain(y, pending)
  BY NextIsAgain
<1>2. Asked(x) /\ x.string = is.string /\ x.dir = dir /\ x.found_offset = is.found_offset
  BY <1>0 DEF Asked, Searching
<1> HIDE DEF x
<1>3. /\ str \in Seq(Element) /\ Len(str) <= SearchLength
      /\ Len(str) > Len(x.string) /\ ~IsChar(str[n]) =>
           /\ str # << >> /\ x.found_offset \in Nat
           /\ str[n].at = x.found_offset
  BY <1>0, <1>2, NextStringIs
<1> HIDE DEF str
<1>4. Asked(y) /\ y.string = str /\ y.dir = dir
  BY <1>2, <1>3, WithString
<1> HIDE DEF y
<1>5. /\ is'.string = str /\ is'.dir = dir /\ is' \in Searching
      /\ \/ is'.found_offset = -1
         \/ /\ dir = 1 => is'.found_offset >= SearchOffset(y)
            /\ dir = -1 => is'.found_offset < SearchOffset(y)
  BY <1>0, <1>1, <1>4, AgainShows
<1>6. Len(str) > Len(x.string) /\ ~IsChar(str[n])
  BY <1>2, <1>5 DEF Passes
<1>7. str # << >> /\ is.found_offset \in Nat /\ str[n].at = is.found_offset
  BY <1>2, <1>3, <1>6
<1>8. SearchOffset(y) = is.found_offset + dir
  <2>1. y \in Searching
    BY <1>4 DEF Asked
  <2>2. y.string # << >> /\ ~IsChar(y.string[Len(y.string)])
    BY <1>4, <1>6, <1>7
  <2>3. SearchOffset(y) = y.string[Len(y.string)].at + y.dir
    BY <2>1, <2>2, SearchOffsetIs
  <2> QED
    BY <1>4, <1>7, <2>3
<1>9. is'.found_offset \in Int
  BY <1>5 DEF Searching
<1> QED
  BY <1>5, <1>7, <1>8, <1>9 DEF FurtherOn

(* A key that leaves the string no longer, or ends it with a character.    *)
LEMMA OthersDoNotPass ==
    ASSUME SearchInv, NEW x, NEW pending, SearchAgain(x, pending),
           mode = "isearch" => /\ Asked(x)
                               /\ \/ Len(x.string) <= Len(is.string)
                                  \/ IsChar(x.string[Len(x.string)])
    PROVE  ~Passes
<1> SUFFICES ASSUME Passes PROVE FALSE
  OBVIOUS
<1>1. /\ mode = "isearch" /\ Len(is'.string) > Len(is.string)
      /\ ~IsChar(is'.string[Len(is'.string)])
  BY DEF Passes
<1>2. Asked(x) /\ is'.string = x.string
  BY <1>1, AgainShows
<1>3. Len(x.string) \in Nat /\ Len(is.string) \in Nat
  <2>1. x.string \in Seq(Element) /\ is.string \in Seq(Element)
    BY <1>1, <1>2, InSearch DEF Asked, Searching
  <2> QED
    BY <2>1
<1> QED
  BY <1>1, <1>2, <1>3

LEMMA StepAdvances == SearchInv /\ [Next]_vars /\ Passes => FurtherOn
<1> SUFFICES ASSUME SearchInv, [Next]_vars, Passes PROVE FurtherOn
  OBVIOUS
<1>0. /\ mode = "isearch" /\ mode' = "isearch" /\ Asked(is)
      /\ is.string \in Seq(Element) /\ Len(is.string) \in Nat
      /\ is.flags \in SUBSET {IGNORECASE, SMARTCASE, WORD}
      /\ Len(is.string) <= SearchLength /\ SearchLength \in Nat
  BY InSearch, LengthAssumption DEF Passes
<1>1. CASE \E pending \in BOOLEAN, dir \in {-1, 1} : isearch_next(dir, pending)
  BY <1>1, NextAdvances
<1>2. CASE \E pending \in BOOLEAN : isearch_backspace(pending)
  <2>1. PICK pending \in BOOLEAN : isearch_backspace(pending)
    BY <1>2
  <2> DEFINE str == IF is.string = << >> THEN is.string
                    ELSE SubSeq(is.string, 1, Len(is.string) - 1)
             y == [is EXCEPT !.string = str]
  <2>2. SearchAgain(y, pending)
    BY <2>1 DEF isearch_backspace
  <2>3. str \in Seq(Element) /\ Len(str) <= Len(is.string)
    BY <1>0, ShorterString
  <2> HIDE DEF str
  <2>4. Len(str) <= SearchLength
    BY <1>0, <2>3
  <2>5. Asked(y) /\ y.string = str
    BY <1>0, <2>3, <2>4, WithString
  <2> HIDE DEF y
  <2> QED
    BY <2>2, <2>3, <2>5, OthersDoNotPass
<1>3. CASE \E pending \in BOOLEAN : isearch_word(pending) \/ isearch_case(pending)
  <2>1. PICK pending \in BOOLEAN : isearch_word(pending) \/ isearch_case(pending)
    BY <1>3
  <2>2. PICK fl \in SUBSET {IGNORECASE, SMARTCASE, WORD} :
          SearchAgain([is EXCEPT !.flags = fl], pending)
    <3>1. /\ Toggle(is.flags, WORD) \in SUBSET {IGNORECASE, SMARTCASE, WORD}
          /\ Toggle(is.flags, IGNORECASE) \ {SMARTCASE}
               \in SUBSET {IGNORECASE, SMARTCASE, WORD}
      BY <1>0 DEF Toggle
    <3> QED
      BY <2>1, <3>1 DEF isearch_word, isearch_case
  <2> DEFINE y == [is EXCEPT !.flags = fl]
  <2>3. Asked(y) /\ y.string = is.string
    BY <1>0 DEF Asked, Searching
  <2>4. Len(y.string) <= Len(is.string)
    BY <1>0, <2>3
  <2> HIDE DEF y
  <2>5. SearchAgain(y, pending)
    BY <2>2 DEF y
  <2> QED
    BY <2>3, <2>4, <2>5, OthersDoNotPass
<1>4. CASE \E pending \in BOOLEAN, c \in Byte : isearch_char(c, pending)
  <2>1. PICK pending \in BOOLEAN, c \in Byte : isearch_char(c, pending)
    BY <1>4
  <2> DEFINE str == IF Len(is.string) < SearchLength THEN Append(is.string, Typed(c))
                    ELSE is.string
             y == [is EXCEPT !.string = str]
  <2>2. SearchAgain(y, pending)
    BY <2>1 DEF isearch_char
  <2>3. Typed(c) \in Element /\ IsChar(Typed(c))
    BY ElementsAre
  <2>4. /\ Append(is.string, Typed(c)) \in Seq(Element)
        /\ Len(Append(is.string, Typed(c))) = Len(is.string) + 1
        /\ Append(is.string, Typed(c))[Len(is.string) + 1] = Typed(c)
    BY <1>0, <2>3, LongerString
  <2>5. /\ str \in Seq(Element) /\ Len(str) <= SearchLength
        /\ Len(str) <= Len(is.string) \/ IsChar(str[Len(str)])
    BY <1>0, <2>3, <2>4
  <2> HIDE DEF str
  <2>6. Asked(y) /\ y.string = str
    BY <1>0, <2>5, WithString
  <2> HIDE DEF y
  <2> QED
    BY <2>2, <2>5, <2>6, OthersDoNotPass
<1>5. CASE \/ Move
           \/ \E pending \in BOOLEAN, dir \in {-1, 1} : do_isearch(dir, pending)
           \/ \E quit \in BOOLEAN : isearch_end(quit)
           \/ \E r \in Replacements : do_query_replace(r[1], r[2])
           \/ \E ch \in Answers : query_replace_key(ch)
           \/ query_replace_abort
  BY <1>0, <1>5 DEF Move, do_isearch, isearch_end, do_query_replace, query_replace_key,
                    query_replace_abort
<1>6. CASE UNCHANGED vars
  <2>1. is' = is
    BY <1>6 DEF vars
  <2> QED
    BY <1>0, <2>1 DEF Passes
<1> QED
  BY <1>1, <1>2, <1>3, <1>4, <1>5, <1>6 DEF Next

(* ^S and ^R (isearch_key) pass the match shown: the next one is further   *)
(* on in the direction of the key, or there is none.                       *)
THEOREM RepeatGoesOn == Spec => RepeatAdvances
<1>1. SearchInv /\ [Next]_vars =>
        [/\ mode = "isearch" /\ mode' = "isearch"
         /\ Len(is'.string) > Len(is.string)
         /\ ~IsChar(is'.string[Len(is'.string)])
         => \/ is'.found_offset = -1
            \/ is'.dir = 1 /\ is'.found_offset > is.found_offset
            \/ is'.dir = -1 /\ is'.found_offset < is.found_offset]_vars
  BY StepAdvances DEF Passes, FurtherOn
<1> QED
  BY <1>1, SearchInvariant, PTL DEF Spec, RepeatAdvances
================================================================================
