----------------------------- MODULE PageTableProofs ----------------------------
(***************************************************************************)
(* Proofs about PageTable: its pages stay sound and implement the plain    *)
(* sequences of bytes of ByteBuffer.                                       *)
(***************************************************************************)
EXTENDS PageTable, TLAPS, NaturalsInduction, WellFoundedInduction, FiniteSetTheorems

---------------------------------------------------------------------------
(* Numbers.                                                                *)

(* A set of numbers that is not empty has a least element.                 *)
LEMMA LeastNumber ==
    ASSUME NEW T \in SUBSET Nat, T # {}
    PROVE  \E x \in T : \A y \in T : x <= y
<1> DEFINE R == {ss \in Nat \X Nat : ss[1] < ss[2]}
<1>1. IsWellFoundedOn(R, Nat)
  BY NatLessThanWellFounded DEF OpToRel
<1> HIDE DEF R
<1>2. PICK x \in T : \A y \in T : ~(<<y, x>> \in R)
  BY <1>1, WFMin
<1>3. \A y \in T : x <= y
  <2> SUFFICES ASSUME NEW y \in T, ~(x <= y) PROVE FALSE
    OBVIOUS
  <2>1. y < x /\ x \in Nat /\ y \in Nat
    OBVIOUS
  <2>2. <<y, x>> \in R
    BY <2>1 DEF R
  <2> QED
    BY <1>2, <2>2
<1> QED
  BY <1>3

(* Induction up to m, on a set of numbers.                                 *)
LEMMA UpTo ==
    ASSUME NEW m \in Nat, NEW T, 0 \in T,
           \A n \in 0..(m - 1) : n \in T => n + 1 \in T
    PROVE  m \in T
<1> DEFINE U == {n \in 0..m : n \notin T}
<1> SUFFICES ASSUME U # {} PROVE FALSE
  OBVIOUS
<1>0. U \in SUBSET Nat
  OBVIOUS
<1>1. PICK x \in U : \A y \in U : x <= y
  <2> HIDE DEF U
  <2> QED
    BY <1>0, LeastNumber
<1>2. x # 0 /\ x - 1 \in 0..(m - 1) /\ x - 1 \notin U
  BY <1>1
<1> QED
  BY <1>2

---------------------------------------------------------------------------
(* Sequences.                                                              *)

LEMMA SeqEqual ==
    ASSUME NEW S, NEW t \in Seq(S), NEW u \in Seq(S), Len(t) = Len(u),
           \A i \in 1..Len(t) : t[i] = u[i]
    PROVE  t = u
OBVIOUS

LEMMA Cat ==
    ASSUME NEW S, NEW t \in Seq(S), NEW u \in Seq(S)
    PROVE  /\ t \o u \in Seq(S) /\ Len(t \o u) = Len(t) + Len(u)
           /\ \A i \in 1..Len(t) : (t \o u)[i] = t[i]
           /\ \A i \in 1..Len(u) : (t \o u)[Len(t) + i] = u[i]
OBVIOUS

LEMMA CatAssoc ==
    ASSUME NEW t \in Seq(Byte), NEW u \in Seq(Byte), NEW v \in Seq(Byte)
    PROVE  (t \o u) \o v = t \o (u \o v)
OBVIOUS

LEMMA CatEmpty ==
    ASSUME NEW t \in Seq(Byte) PROVE << >> \o t = t /\ t \o << >> = t
OBVIOUS

LEMMA Sub ==
    ASSUME NEW S, NEW t \in Seq(S), NEW m \in Nat, NEW n \in Nat, n <= Len(t)
    PROVE  /\ SubSeq(t, m + 1, n) \in Seq(S)
           /\ Len(SubSeq(t, m + 1, n)) = IF m <= n THEN n - m ELSE 0
           /\ \A i \in 1..(n - m) : SubSeq(t, m + 1, n)[i] = t[m + i]
OBVIOUS

(* A sequence cut in two.                                                  *)
LEMMA SubCat ==
    ASSUME NEW S, NEW t \in Seq(S), NEW m \in Nat, NEW n \in Nat, NEW o \in Nat,
           m <= n, n <= o, o <= Len(t)
    PROVE  SubSeq(t, m + 1, o) = SubSeq(t, m + 1, n) \o SubSeq(t, n + 1, o)
OBVIOUS

LEMMA SubAll ==
    ASSUME NEW S, NEW t \in Seq(S)
    PROVE  SubSeq(t, 1, Len(t)) = t /\ SubSeq(t, 1, 0) = << >>
OBVIOUS

LEMMA SubAppend ==
    ASSUME NEW S, NEW t \in Seq(S), NEW m \in Nat, NEW n \in Nat, m <= n, n < Len(t)
    PROVE  /\ SubSeq(t, m + 1, n) \in Seq(S)
           /\ t[n + 1] \in S
           /\ SubSeq(t, m + 1, n + 1) = Append(SubSeq(t, m + 1, n), t[n + 1])
OBVIOUS

---------------------------------------------------------------------------
(* Flatten.                                                                *)

(* A page, which may be empty or too large.                                *)
AnyPage == [data : Seq(Byte), readonly : BOOLEAN, src : Nat,
            valid_pos : BOOLEAN, nb_lines : Nat, col : Nat,
            valid_char : BOOLEAN, nb_chars : Nat]

(* The pages of a table.                                                   *)
LEMMA PageType ==
    ASSUME NEW pt \in Seq(AnyPage)
    PROVE  /\ Len(pt) \in Nat
           /\ \A i \in 1..Len(pt) : pt[i] \in AnyPage /\ pt[i].data \in Seq(Byte)
<1>1. Len(pt) \in Nat /\ \A i \in 1..Len(pt) : pt[i] \in AnyPage
  OBVIOUS
<1>2. \A pg \in AnyPage : pg.data \in Seq(Byte)
  BY DEF AnyPage
<1> QED
  BY <1>1, <1>2

(* f[i] holds the bytes of the first i pages of pt.                        *)
IsFlat(f, pt, n) ==
    /\ f \in [0..n -> Seq(Byte)]
    /\ f[0] = << >>
    /\ \A i \in 0..(n - 1) : f[i + 1] = f[i] \o pt[i + 1].data

(* The recursion of Flatten is well defined.                               *)
LEMMA FlatExists ==
    ASSUME NEW pt \in Seq(AnyPage)
    PROVE  \E f : IsFlat(f, pt, Len(pt))
<1> DEFINE T == {n \in 0..Len(pt) : \E f : IsFlat(f, pt, n)}
<1>0. Len(pt) \in Nat
  BY PageType
<1>1. 0 \in T
  <2>1. IsFlat([i \in 0..0 |-> << >>], pt, 0)
    BY DEF IsFlat
  <2> QED
    BY <1>0, <2>1
<1>2. ASSUME NEW n \in 0..(Len(pt) - 1), n \in T PROVE n + 1 \in T
  <2>1. PICK f : IsFlat(f, pt, n)
    BY <1>2
  <2> DEFINE d == pt[n + 1].data
             g == [i \in 0..(n + 1) |-> IF i = n + 1 THEN f[n] \o d ELSE f[i]]
  <2>2. d \in Seq(Byte)
    BY <1>0, PageType
  <2>3. f[n] \in Seq(Byte) /\ n \in Nat
    BY <2>1 DEF IsFlat
  <2> HIDE DEF d
  <2>4. f[n] \o d \in Seq(Byte)
    BY <2>2, <2>3
  <2>5. g \in [0..(n + 1) -> Seq(Byte)]
    BY <2>1, <2>3, <2>4 DEF IsFlat
  <2>6. /\ g[n + 1] = f[n] \o d
        /\ \A i \in 0..n : g[i] = f[i]
    BY <2>3
  <2> HIDE DEF g
  <2>9. g[0] = << >>
    BY <2>1, <2>3, <2>6 DEF IsFlat
  <2>7. ASSUME NEW i \in 0..n PROVE g[i + 1] = g[i] \o pt[i + 1].data
    <3>1. CASE i = n
      BY <2>3, <2>6, <3>1 DEF d
    <3>2. CASE i # n
      <4>1. i \in 0..(n - 1) /\ i + 1 \in 0..n
        BY <2>3, <3>2
      <4>2. f[i + 1] = f[i] \o pt[i + 1].data
        BY <2>1, <4>1 DEF IsFlat
      <4> QED
        BY <2>6, <4>1, <4>2
    <3> QED
      BY <3>1, <3>2
  <2>8. IsFlat(g, pt, n + 1)
    <3>1. (n + 1) - 1 = n
      BY <2>3
    <3> HIDE DEF g
    <3> QED
      BY <2>5, <2>7, <2>9, <3>1 DEF IsFlat
  <2> QED
    BY <1>0, <2>8
<1> HIDE DEF T
<1>3. Len(pt) \in T
  BY <1>0, <1>1, <1>2, UpTo
<1> QED
  BY <1>3 DEF T

LEMMA FlattenIs ==
    ASSUME NEW pt \in Seq(AnyPage)
    PROVE  \E f : IsFlat(f, pt, Len(pt)) /\ Flatten(pt) = f[Len(pt)]
<1> DEFINE m == Len(pt)
           f == CHOOSE g : g = [i \in 0..m |->
                  IF i = 0 THEN << >> ELSE g[i - 1] \o pt[i].data]
<1>0. m \in Nat
  BY PageType
<1>1. Flatten(pt) = f[m]
  BY DEF Flatten
<1>4. PICK g : IsFlat(g, pt, m)
  BY FlatExists
<1> HIDE DEF m
<1>2. g = [i \in 0..m |-> IF i = 0 THEN << >> ELSE g[i - 1] \o pt[i].data]
  <2>1. ASSUME NEW i \in 0..m
        PROVE  g[i] = IF i = 0 THEN << >> ELSE g[i - 1] \o pt[i].data
    <3>1. CASE i = 0
      BY <1>4, <3>1 DEF IsFlat
    <3>2. CASE i # 0
      <4>1. i - 1 \in 0..(m - 1) /\ (i - 1) + 1 = i
        BY <1>0, <3>2
      <4> QED
        BY <1>4, <3>2, <4>1 DEF IsFlat
    <3> QED
      BY <3>1, <3>2
  <2>2. g = [i \in 0..m |-> g[i]]
    BY <1>4 DEF IsFlat
  <2> QED
    BY <2>1, <2>2
<1>3. f = [i \in 0..m |-> IF i = 0 THEN << >> ELSE f[i - 1] \o pt[i].data]
  BY <1>2
<1> HIDE DEF f
<1> DEFINE T == {n \in 0..m : f[n] = g[n]}
<1>5. 0 \in T
  BY <1>0, <1>3, <1>4 DEF IsFlat
<1>6. ASSUME NEW n \in 0..(m - 1), n \in T PROVE n + 1 \in T
  <2>1. n + 1 \in 0..m /\ n + 1 # 0 /\ (n + 1) - 1 = n
    BY <1>0
  <2>2. f[n + 1] = f[n] \o pt[n + 1].data
    BY <1>3, <2>1
  <2>3. g[n + 1] = g[n] \o pt[n + 1].data
    BY <1>4 DEF IsFlat
  <2> QED
    BY <1>6, <2>1, <2>2, <2>3
<1>7. m \in T
  <2> HIDE DEF T
  <2> QED
    BY <1>0, <1>5, <1>6, UpTo
<1> QED
  BY <1>1, <1>4, <1>7 DEF m

LEMMA FlattenType ==
    ASSUME NEW pt \in Seq(AnyPage)
    PROVE  Flatten(pt) \in Seq(Byte) /\ Len(Flatten(pt)) \in Nat
<1>1. PICK f : IsFlat(f, pt, Len(pt)) /\ Flatten(pt) = f[Len(pt)]
  BY FlattenIs
<1>2. Flatten(pt) \in Seq(Byte)
  BY <1>1, PageType DEF IsFlat
<1> QED
  BY <1>2

LEMMA FlattenEmpty == Flatten(<< >>) = << >>
<1>1. << >> \in Seq(AnyPage) /\ Len(<< >>) = 0
  OBVIOUS
<1> QED
  BY <1>1, FlattenIs DEF IsFlat

LEMMA FlattenAppend ==
    ASSUME NEW pt \in Seq(AnyPage), NEW pg \in AnyPage
    PROVE  Flatten(Append(pt, pg)) = Flatten(pt) \o pg.data
<1> DEFINE q == Append(pt, pg)
           m == Len(pt)
<1>1. q \in Seq(AnyPage) /\ Len(q) = m + 1 /\ q[m + 1] = pg /\ m \in Nat
      /\ \A i \in 1..m : q[i] = pt[i]
  OBVIOUS
<1>2. PICK f : IsFlat(f, pt, m) /\ Flatten(pt) = f[m]
  BY FlattenIs
<1> HIDE DEF q
<1>3. PICK g : IsFlat(g, q, m + 1) /\ Flatten(q) = g[m + 1]
  BY <1>1, FlattenIs
<1> HIDE DEF m
<1> DEFINE T == {n \in 0..m : f[n] = g[n]}
<1>5. 0 \in T
  BY <1>1, <1>2, <1>3 DEF IsFlat
<1>6. ASSUME NEW n \in 0..(m - 1), n \in T PROVE n + 1 \in T
  <2>1. n \in 0..((m + 1) - 1) /\ n + 1 \in 0..m /\ n + 1 \in 1..m
    BY <1>1
  <2>2. f[n + 1] = f[n] \o pt[n + 1].data
    BY <1>2 DEF IsFlat
  <2>3. g[n + 1] = g[n] \o q[n + 1].data
    BY <1>3, <2>1 DEF IsFlat
  <2> QED
    BY <1>1, <1>6, <2>1, <2>2, <2>3
<1> HIDE DEF T
<1>7. m \in T
  BY <1>1, <1>5, <1>6, UpTo
<1>8. g[m + 1] = g[m] \o q[m + 1].data
  <2>1. m \in 0..((m + 1) - 1)
    BY <1>1
  <2> QED
    BY <1>3, <2>1 DEF IsFlat
<1> QED
  BY <1>1, <1>2, <1>3, <1>7, <1>8 DEF T, q

(* The bytes of a table are those of its parts.                            *)
LEMMA FlattenCat ==
    ASSUME NEW pt \in Seq(AnyPage), NEW qt \in Seq(AnyPage)
    PROVE  Flatten(pt \o qt) = Flatten(pt) \o Flatten(qt)
<1> DEFINE sub(n) == SubSeq(qt, 1, n)
           T == {n \in 0..Len(qt) :
                   Flatten(pt \o sub(n)) = Flatten(pt) \o Flatten(sub(n))}
<1>1. 0 \in T
  <2>1. pt \o sub(0) = pt /\ sub(0) = << >>
    OBVIOUS
  <2>2. Flatten(pt) \o << >> = Flatten(pt)
    BY FlattenType, CatEmpty
  <2>3. Len(qt) \in Nat
    BY PageType
  <2> HIDE DEF sub
  <2>4. Flatten(pt \o sub(0)) = Flatten(pt) \o Flatten(sub(0))
    BY <2>1, <2>2, FlattenEmpty
  <2> QED
    BY <2>3, <2>4
<1>2. ASSUME NEW n \in 0..(Len(qt) - 1), n \in T PROVE n + 1 \in T
  <2>1. /\ sub(n) \in Seq(AnyPage) /\ qt[n + 1] \in AnyPage
        /\ sub(n + 1) = Append(sub(n), qt[n + 1])
        /\ pt \o sub(n) \in Seq(AnyPage)
        /\ pt \o sub(n + 1) = Append(pt \o sub(n), qt[n + 1])
        /\ n + 1 \in 0..Len(qt)
    OBVIOUS
  <2>2. Flatten(pt \o sub(n)) = Flatten(pt) \o Flatten(sub(n))
    BY <1>2
  <2> HIDE DEF sub
  <2>3. qt[n + 1].data \in Seq(Byte)
    BY <2>1 DEF AnyPage
  <2>4. Flatten(sub(n + 1)) = Flatten(sub(n)) \o qt[n + 1].data
    BY <2>1, FlattenAppend
  <2>5. Flatten(pt \o sub(n + 1)) = Flatten(pt \o sub(n)) \o qt[n + 1].data
    BY <2>1, FlattenAppend
  <2>6. Flatten(pt) \in Seq(Byte) /\ Flatten(sub(n)) \in Seq(Byte)
    BY <2>1, FlattenType
  <2>7. (Flatten(pt) \o Flatten(sub(n))) \o qt[n + 1].data
          = Flatten(pt) \o (Flatten(sub(n)) \o qt[n + 1].data)
    BY <2>3, <2>6, CatAssoc
  <2> QED
    BY <2>1, <2>2, <2>4, <2>5, <2>7
<1>3. Len(qt) \in T
  <2>1. Len(qt) \in Nat
    BY PageType
  <2> HIDE DEF T
  <2> QED
    BY <1>1, <1>2, <2>1, UpTo
<1>4. sub(Len(qt)) = qt
  OBVIOUS
<1> QED
  BY <1>3, <1>4

---------------------------------------------------------------------------
(* Where pages are.                                                        *)

First(pt, i) == SubSeq(pt, 1, i)
Rest(pt, i)  == SubSeq(pt, i + 1, Len(pt))

(* The offset at which page i ends and page i + 1 starts.                  *)
End(pt, i) == Len(Flatten(First(pt, i)))

LEMMA Cutting ==
    ASSUME NEW S, NEW pt \in Seq(S), NEW i \in 0..Len(pt)
    PROVE  /\ First(pt, i) \in Seq(S) /\ Rest(pt, i) \in Seq(S)
           /\ Len(First(pt, i)) = i /\ Len(Rest(pt, i)) = Len(pt) - i
           /\ \A j \in 1..i : First(pt, i)[j] = pt[j]
           /\ \A j \in 1..(Len(pt) - i) : Rest(pt, i)[j] = pt[i + j]
           /\ pt = First(pt, i) \o Rest(pt, i)
<1>1. i \in Nat /\ i <= Len(pt) /\ Len(pt) \in Nat
  OBVIOUS
<1>2. /\ First(pt, i) \in Seq(S) /\ Rest(pt, i) \in Seq(S)
      /\ Len(First(pt, i)) = i /\ Len(Rest(pt, i)) = Len(pt) - i
      /\ \A j \in 1..i : First(pt, i)[j] = pt[j]
      /\ \A j \in 1..(Len(pt) - i) : Rest(pt, i)[j] = pt[i + j]
  BY <1>1 DEF First, Rest
<1>3. pt = First(pt, i) \o Rest(pt, i)
  <2> DEFINE f == First(pt, i)
             r == Rest(pt, i)
             x == f \o r
  <2>0. /\ f \in Seq(S) /\ r \in Seq(S) /\ Len(f) = i /\ Len(r) = Len(pt) - i
        /\ \A j \in 1..i : f[j] = pt[j]
        /\ \A j \in 1..(Len(pt) - i) : r[j] = pt[i + j]
    BY <1>2
  <2> HIDE DEF f, r
  <2>4. /\ x \in Seq(S) /\ Len(x) = Len(f) + Len(r)
        /\ \A j \in 1..Len(f) : x[j] = f[j]
        /\ \A j \in 1..Len(r) : x[Len(f) + j] = r[j]
    <3>1. f \in Seq(S) /\ r \in Seq(S)
      BY <2>0
    <3> QED
      BY ONLY <3>1, Cat
  <2> HIDE DEF x
  <2>1. x \in Seq(S) /\ Len(x) = Len(pt)
    BY <1>1, <2>0, <2>4
  <2>2. ASSUME NEW j \in 1..Len(pt) PROVE x[j] = pt[j]
    <3>1. CASE j <= i
      BY <1>1, <2>0, <2>4, <3>1
    <3>2. CASE j > i
      <4>1. j - i \in 1..(Len(pt) - i) /\ i + (j - i) = j
        BY <1>1, <3>2
      <4>2. x[i + (j - i)] = r[j - i]
        BY <2>0, <2>4, <4>1
      <4> QED
        BY <2>0, <4>1, <4>2
    <3> QED
      BY <1>1, <3>1, <3>2
  <2> HIDE DEF x
  <2>3. x = pt
    BY <2>1, <2>2, SeqEqual
  <2> QED
    BY <2>3 DEF x, f, r
<1> QED
  BY <1>2, <1>3

(* The same, element by element.                                           *)
LEMMA CutType ==
    ASSUME NEW S, NEW pt \in Seq(S), NEW i \in 0..Len(pt)
    PROVE  /\ First(pt, i) \in Seq(S) /\ Rest(pt, i) \in Seq(S)
           /\ Len(First(pt, i)) = i /\ Len(Rest(pt, i)) = Len(pt) - i
           /\ \A j \in 1..i : First(pt, i)[j] = pt[j]
           /\ \A j \in 1..(Len(pt) - i) : Rest(pt, i)[j] = pt[i + j]
BY Cutting

(* A table cut before and after page i.                                    *)
LEMMA EndStep ==
    ASSUME NEW pt \in Seq(AnyPage), NEW i \in 1..Len(pt)
    PROVE  /\ Flatten(First(pt, i)) = Flatten(First(pt, i - 1)) \o pt[i].data
           /\ Flatten(pt) = Flatten(First(pt, i)) \o Flatten(Rest(pt, i))
           /\ Flatten(First(pt, i - 1)) \in Seq(Byte)
           /\ Flatten(First(pt, i)) \in Seq(Byte)
           /\ Flatten(Rest(pt, i)) \in Seq(Byte)
           /\ End(pt, i - 1) \in Nat
           /\ End(pt, i) = End(pt, i - 1) + Len(pt[i].data)
<1>1. i \in 0..Len(pt) /\ i - 1 \in 0..Len(pt)
  OBVIOUS
<1>2. /\ First(pt, i) \in Seq(AnyPage) /\ First(pt, i - 1) \in Seq(AnyPage)
      /\ Rest(pt, i) \in Seq(AnyPage) /\ pt = First(pt, i) \o Rest(pt, i)
  BY <1>1, Cutting
<1>3. First(pt, i) = Append(First(pt, i - 1), pt[i])
  <2>1. i - 1 \in Nat /\ i - 1 < Len(pt) /\ (i - 1) + 1 = i /\ 0 + 1 = 1
    OBVIOUS
  <2> QED
    BY <2>1 DEF First
<1>4. pt[i] \in AnyPage /\ pt[i].data \in Seq(Byte)
  BY PageType
<1>5. Flatten(First(pt, i)) = Flatten(First(pt, i - 1)) \o pt[i].data
  BY <1>2, <1>3, <1>4, FlattenAppend
<1>6. /\ Flatten(First(pt, i - 1)) \in Seq(Byte)
      /\ Flatten(First(pt, i)) \in Seq(Byte)
      /\ Flatten(Rest(pt, i)) \in Seq(Byte)
  BY <1>2, FlattenType
<1>7. Flatten(pt) = Flatten(First(pt, i)) \o Flatten(Rest(pt, i))
  BY <1>2, FlattenCat
<1>8. /\ End(pt, i - 1) \in Nat
      /\ End(pt, i) = End(pt, i - 1) + Len(pt[i].data)
  BY <1>4, <1>5, <1>6 DEF End
<1> QED
  BY <1>5, <1>6, <1>7, <1>8

LEMMA EndNext ==
    ASSUME NEW pt \in Seq(AnyPage), NEW i \in 1..Len(pt)
    PROVE  /\ End(pt, i - 1) \in Nat /\ End(pt, i) \in Nat
           /\ Len(pt[i].data) \in Nat
           /\ End(pt, i) = End(pt, i - 1) + Len(pt[i].data)
<1>1. pt[i].data \in Seq(Byte)
  BY PageType
<1>2. /\ End(pt, i - 1) \in Nat
      /\ End(pt, i) = End(pt, i - 1) + Len(pt[i].data)
  BY EndStep
<1>3. Len(pt[i].data) \in Nat
  BY <1>1
<1> QED
  BY <1>2, <1>3

LEMMA EndBounds ==
    ASSUME NEW pt \in Seq(AnyPage)
    PROVE  /\ End(pt, 0) = 0
           /\ End(pt, Len(pt)) = Len(Flatten(pt))
           /\ \A i \in 0..Len(pt) : End(pt, i) \in Nat
<1>1. First(pt, 0) = << >> /\ First(pt, Len(pt)) = pt
  BY DEF First
<1>2. ASSUME NEW i \in 0..Len(pt) PROVE End(pt, i) \in Nat
  BY <1>2, Cutting, FlattenType DEF End
<1> QED
  BY <1>1, <1>2, FlattenEmpty DEF End

LEMMA EndMonotone ==
    ASSUME NEW pt \in Seq(AnyPage), NEW i \in 0..Len(pt), NEW j \in i..Len(pt)
    PROVE  End(pt, i) <= End(pt, j)
<1> DEFINE mid == SubSeq(pt, i + 1, j)
<1>1. /\ First(pt, i) \in Seq(AnyPage) /\ mid \in Seq(AnyPage)
      /\ First(pt, j) = First(pt, i) \o mid
  BY DEF First
<1> HIDE DEF mid
<1>2. Flatten(First(pt, j)) = Flatten(First(pt, i)) \o Flatten(mid)
  BY <1>1, FlattenCat
<1>3. Flatten(First(pt, i)) \in Seq(Byte) /\ Flatten(mid) \in Seq(Byte)
  BY <1>1, FlattenType
<1> QED
  BY <1>2, <1>3 DEF End

(* Starts adds up the sizes of the pages.                                  *)
LEMMA StartsAre ==
    ASSUME NEW pt \in Seq(AnyPage), NEW k \in 1..(Len(pt) + 1), NEW o \in Nat
    PROVE  \A i \in k..(Len(pt) + 1) :
             Starts(pt, k, o)[i] = o + (End(pt, i - 1) - End(pt, k - 1))
<1> DEFINE n == Len(pt) + 1
           s == CHOOSE g : g = [i \in k..n |->
                  IF i = k THEN o ELSE g[i - 1] + Len(pt[i - 1].data)]
           h == [i \in k..n |-> o + (End(pt, i - 1) - End(pt, k - 1))]
<1>0. Len(pt) \in Nat
  BY PageType
<1>1. Starts(pt, k, o) = s
  BY DEF Starts
<1>2. ASSUME NEW i \in k..n, i # k
      PROVE  /\ i - 1 \in k..n
             /\ End(pt, i - 1) = End(pt, i - 2) + Len(pt[i - 1].data)
             /\ End(pt, i - 2) \in Nat
             /\ End(pt, k - 1) \in Nat /\ Len(pt[i - 1].data) \in Nat
  <2>1. i - 1 \in 1..Len(pt) /\ i - 1 \in k..n /\ (i - 1) - 1 = i - 2
        /\ k - 1 \in 0..Len(pt)
    BY <1>0, <1>2
  <2>2. pt[i - 1].data \in Seq(Byte)
    BY <2>1, PageType
  <2>3. End(pt, k - 1) \in Nat
    BY <2>1, EndBounds
  <2>4. /\ End(pt, i - 1) = End(pt, (i - 1) - 1) + Len(pt[i - 1].data)
        /\ End(pt, (i - 1) - 1) \in Nat
    BY <2>1, EndStep
  <2> QED
    BY <2>1, <2>2, <2>3, <2>4
<1>3. h = [i \in k..n |-> IF i = k THEN o ELSE h[i - 1] + Len(pt[i - 1].data)]
  <2>1. ASSUME NEW i \in k..n
        PROVE  h[i] = IF i = k THEN o ELSE h[i - 1] + Len(pt[i - 1].data)
    <3>1. k - 1 \in 0..Len(pt)
      BY <1>0
    <3>2. End(pt, k - 1) \in Nat
      BY <3>1, EndBounds
    <3>3. CASE i = k
      BY <3>2, <3>3
    <3>4. CASE i # k
      <4>1. /\ i - 1 \in k..n /\ (i - 1) - 1 = i - 2
            /\ End(pt, i - 1) = End(pt, i - 2) + Len(pt[i - 1].data)
            /\ End(pt, i - 2) \in Nat /\ Len(pt[i - 1].data) \in Nat
        BY <1>2, <3>4
      <4>2. /\ h[i] = o + (End(pt, i - 1) - End(pt, k - 1))
            /\ h[i - 1] = o + (End(pt, i - 2) - End(pt, k - 1))
        BY <4>1
      <4> HIDE DEF h
      <4> DEFINE a == End(pt, i - 1)
                 c == End(pt, i - 2)
                 e == End(pt, k - 1)
                 l == Len(pt[i - 1].data)
      <4>3. a = c + l /\ c \in Nat /\ e \in Nat /\ l \in Nat
        BY <3>2, <4>1
      <4>4. h[i] = o + (a - e) /\ h[i - 1] = o + (c - e)
        BY <4>2
      <4> HIDE DEF a, c, e
      <4>5. h[i] = h[i - 1] + l
        <5> HIDE DEF l
        <5> QED
          BY ONLY <4>3, <4>4, o \in Nat
      <4> QED
        BY <3>4, <4>5
    <3> QED
      BY <3>3, <3>4
  <2> QED
    BY <2>1
<1>4. s = [i \in k..n |-> IF i = k THEN o ELSE s[i - 1] + Len(pt[i - 1].data)]
  <2> HIDE DEF h, n
  <2> QED
    BY <1>3
<1> HIDE DEF s, h
<1> DEFINE T == {j \in 0..(n - k) : s[k + j] = h[k + j]}
<1>5. n - k \in Nat
  BY <1>0
<1>6. 0 \in T
  BY <1>0, <1>3, <1>4, <1>5
<1>7. ASSUME NEW j \in 0..((n - k) - 1), j \in T PROVE j + 1 \in T
  <2>1. /\ k + (j + 1) \in k..n /\ k + (j + 1) # k
        /\ (k + (j + 1)) - 1 = k + j /\ j + 1 \in 0..(n - k)
    BY <1>0, <1>5
  <2> HIDE DEF n
  <2>2. s[k + (j + 1)] = s[k + j] + Len(pt[k + j].data)
    BY <1>4, <2>1
  <2>3. h[k + (j + 1)] = h[k + j] + Len(pt[k + j].data)
    BY <1>3, <2>1
  <2> QED
    BY <1>7, <2>1, <2>2, <2>3
<1>8. ASSUME NEW i \in k..n PROVE s[i] = h[i]
  <2>1. i - k \in Nat /\ k + (i - k) = i /\ i - k <= n - k
    BY <1>0
  <2>2. i - k \in T
    <3>1. \A j \in 0..((i - k) - 1) : j \in T => j + 1 \in T
      BY <1>5, <1>7, <2>1
    <3> HIDE DEF T
    <3> QED
      BY <1>6, <2>1, <3>1, UpTo
  <2> QED
    BY <2>1, <2>2
<1> QED
  BY <1>1, <1>8 DEF h

---------------------------------------------------------------------------
(* Texts.                                                                  *)

LEMMA TextCut ==
    ASSUME NEW t \in Seq(Byte), NEW n \in 0..Len(t)
    PROVE  /\ Before(t, n) \in Seq(Byte) /\ From(t, n) \in Seq(Byte)
           /\ Len(Before(t, n)) = n /\ Len(From(t, n)) = Len(t) - n
           /\ t = Before(t, n) \o From(t, n)
BY ZenonT(60), Cutting DEF Before, From, First, Rest

LEMMA BeforeAll ==
    ASSUME NEW t \in Seq(Byte)
    PROVE  /\ Before(t, 0) = << >> /\ Before(t, Len(t)) = t
           /\ From(t, 0) = t /\ From(t, Len(t)) = << >>
BY DEF Before, From

(* What lies behind the end of the first of two texts.                     *)
LEMMA CutRight ==
    ASSUME NEW t \in Seq(Byte), NEW u \in Seq(Byte), NEW m \in 0..Len(u)
    PROVE  /\ Before(t \o u, Len(t) + m) = t \o Before(u, m)
           /\ From(t \o u, Len(t) + m) = From(u, m)
<1> DEFINE v == t \o u
<1>1. /\ v \in Seq(Byte) /\ Len(v) = Len(t) + Len(u)
      /\ \A i \in 1..Len(t) : v[i] = t[i]
      /\ \A i \in 1..Len(u) : v[Len(t) + i] = u[i]
      /\ Len(t) \in Nat /\ Len(u) \in Nat /\ m \in Nat /\ m <= Len(u)
  OBVIOUS
<1> HIDE DEF v
<1>2. /\ Before(v, Len(t) + m) \in Seq(Byte)
      /\ Len(Before(v, Len(t) + m)) = Len(t) + m
      /\ \A i \in 1..(Len(t) + m) : Before(v, Len(t) + m)[i] = v[i]
  BY <1>1 DEF Before
<1> DEFINE w == t \o Before(u, m)
<1>3. /\ w \in Seq(Byte) /\ Len(w) = Len(t) + m
      /\ \A i \in 1..Len(t) : w[i] = t[i]
      /\ \A i \in 1..m : w[Len(t) + i] = u[i]
  <2>1. /\ Before(u, m) \in Seq(Byte) /\ Len(Before(u, m)) = m
        /\ \A i \in 1..m : Before(u, m)[i] = u[i]
    BY <1>1 DEF Before
  <2> QED
    BY <1>1, <2>1
<1> HIDE DEF w
<1>4. ASSUME NEW i \in 1..(Len(t) + m)
      PROVE  Before(v, Len(t) + m)[i] = w[i]
  <2>1. CASE i <= Len(t)
    BY <1>1, <1>2, <1>3, <2>1
  <2>2. CASE ~(i <= Len(t))
    <3>1. i - Len(t) \in 1..m /\ Len(t) + (i - Len(t)) = i
      BY <1>1, <2>2
    <3>2. w[Len(t) + (i - Len(t))] = u[i - Len(t)]
      BY <1>3, <3>1
    <3>3. v[Len(t) + (i - Len(t))] = u[i - Len(t)]
      BY <1>1, <3>1
    <3> QED
      BY <1>2, <3>1, <3>2, <3>3
  <2> QED
    BY <2>1, <2>2
<1>5. Before(v, Len(t) + m) = t \o Before(u, m)
  <2>1. Before(v, Len(t) + m) = w
    BY <1>2, <1>3, <1>4, SeqEqual
  <2> QED
    BY <2>1 DEF w
<1>6. From(v, Len(t) + m) = From(u, m)
  <2>1. /\ From(v, Len(t) + m) \in Seq(Byte)
        /\ Len(From(v, Len(t) + m)) = Len(u) - m
        /\ \A i \in 1..(Len(u) - m) : From(v, Len(t) + m)[i] = v[Len(t) + (m + i)]
    BY <1>1 DEF From
  <2>2. /\ From(u, m) \in Seq(Byte) /\ Len(From(u, m)) = Len(u) - m
        /\ \A i \in 1..(Len(u) - m) : From(u, m)[i] = u[m + i]
    BY <1>1 DEF From
  <2>3. \A i \in 1..(Len(u) - m) : From(v, Len(t) + m)[i] = From(u, m)[i]
    BY <1>1, <2>1, <2>2
  <2> QED
    BY <2>1, <2>2, <2>3, SeqEqual
<1> QED
  BY <1>5, <1>6 DEF v

(* What lies before it.                                                    *)
LEMMA CutLeft ==
    ASSUME NEW t \in Seq(Byte), NEW u \in Seq(Byte), NEW m \in 0..Len(t)
    PROVE  /\ Before(t \o u, m) = Before(t, m)
           /\ From(t \o u, m) = From(t, m) \o u
<1>1. /\ Before(t, m) \in Seq(Byte) /\ From(t, m) \in Seq(Byte)
      /\ Len(Before(t, m)) = m /\ t = Before(t, m) \o From(t, m)
  BY TextCut
<1> DEFINE x == Before(t, m)
           y == From(t, m) \o u
<1>2. t \o u = x \o y
  <2> DEFINE z == From(t, m)
  <2>1. x \in Seq(Byte) /\ z \in Seq(Byte) /\ t = x \o z
    BY <1>1
  <2> HIDE DEF x, z
  <2>2. (x \o z) \o u = x \o (z \o u)
    BY <2>1, CatAssoc
  <2> QED
    BY <2>1, <2>2 DEF z
<1>3. y \in Seq(Byte) /\ x \in Seq(Byte) /\ Len(x) = m
  BY <1>1
<1> HIDE DEF x, y
<1>4. 0 \in 0..Len(y) /\ m + 0 = m
  BY <1>3
<1>5. /\ Before(x \o y, m + 0) = x \o Before(y, 0)
      /\ From(x \o y, m + 0) = From(y, 0)
  BY <1>3, <1>4, CutRight
<1>6. /\ Before(x \o y, m) = x /\ From(x \o y, m) = y
  BY <1>3, <1>4, <1>5, BeforeAll, CatEmpty
<1> QED
  BY <1>2, <1>6 DEF x, y

LEMMA PartIs ==
    ASSUME NEW t \in Seq(Byte), NEW o \in Nat, NEW size \in Nat, o + size <= Len(t)
    PROVE  /\ Part(t, o, size) = Before(From(t, o), size)
           /\ Part(t, o, size) \in Seq(Byte) /\ Len(Part(t, o, size)) = size
BY DEF Part, Before, From

---------------------------------------------------------------------------
(* Buffers.                                                                *)

(* A page that may be in a table when f is the file that is mapped.        *)
GoodPage(f) == {pg \in Page : pg.readonly => pg.data = Part(f, pg.src, Len(pg.data))}

Tables(f) == Seq(GoodPage(f))

(* TypeOK and MappedIntact for one buffer.                                 *)
Valid(e, f) ==
    /\ e \in [page_table : Tables(f), total_size : Nat, cur_page : Nat,
              cur_offset : Nat]
    /\ e.total_size = Len(Flatten(e.page_table))
    /\ e.cur_page # 0 => /\ e.cur_page \in 1..Len(e.page_table)
                         /\ e.cur_offset = End(e.page_table, e.cur_page - 1)

LEMMA PageData ==
    ASSUME NEW pg \in Page
    PROVE  /\ pg \in AnyPage /\ pg.data \in Seq(Byte)
           /\ Len(pg.data) \in 1..MaxPageSize
<1>1. PICK n \in 1..MaxPageSize : pg.data \in [1..n -> Byte]
  BY DEF Page
<1>2. n \in Nat
  BY PageSizeAssumption
<1>3. pg.data \in Seq(Byte) /\ Len(pg.data) = n
  BY <1>1, <1>2
<1>4. pg \in AnyPage
  BY <1>3 DEF Page, AnyPage
<1> QED
  BY <1>3, <1>4

LEMMA TableType ==
    ASSUME NEW f, NEW pt \in Tables(f)
    PROVE  /\ pt \in Seq(AnyPage) /\ Len(pt) \in Nat
           /\ Flatten(pt) \in Seq(Byte) /\ Len(Flatten(pt)) \in Nat
           /\ \A i \in 1..Len(pt) : /\ pt[i] \in GoodPage(f)
                                    /\ pt[i].data \in Seq(Byte)
                                    /\ Len(pt[i].data) \in 1..MaxPageSize
<1>1. Len(pt) \in Nat /\ \A i \in 1..Len(pt) : pt[i] \in GoodPage(f)
  BY DEF Tables
<1>2. \A i \in 1..Len(pt) : pt[i] \in Page
  BY <1>1 DEF GoodPage
<1>3. \A i \in 1..Len(pt) : /\ pt[i] \in AnyPage
                            /\ pt[i].data \in Seq(Byte)
                            /\ Len(pt[i].data) \in 1..MaxPageSize
  BY <1>2, PageData
<1>4. pt \in Seq(AnyPage)
  BY <1>3 DEF Tables
<1> QED
  BY <1>1, <1>3, <1>4, FlattenType

(* Some page holds each byte.                                              *)
LEMMA PageAt ==
    ASSUME NEW pt \in Seq(AnyPage), NEW o \in Nat, o < Len(Flatten(pt))
    PROVE  \E k \in 1..Len(pt) : End(pt, k - 1) <= o /\ o < End(pt, k)
<1> DEFINE T == {k \in 0..Len(pt) : o < End(pt, k)}
<1>0. Len(pt) \in Nat
  BY PageType
<1>1. T \in SUBSET Nat /\ Len(pt) \in T
  BY <1>0, EndBounds
<1>2. PICK k \in T : \A j \in T : k <= j
  <2> HIDE DEF T
  <2> QED
    BY <1>1, LeastNumber
<1>3. k # 0
  BY EndBounds
<1>4. k - 1 \notin T /\ k - 1 \in 0..Len(pt) /\ k \in 1..Len(pt)
  BY <1>0, <1>2, <1>3
<1>5. End(pt, k - 1) \in Nat
  BY <1>4, EndBounds
<1> QED
  BY <1>4, <1>5

LEMMA FindPage ==
    ASSUME NEW f, NEW e, Valid(e, f), NEW o \in Nat, o < e.total_size
    PROVE  LET r == find_page(e, o)
           IN  /\ Valid(r, f) /\ r.page_table = e.page_table
               /\ r.total_size = e.total_size
               /\ r.cur_page \in 1..Len(e.page_table)
               /\ r.cur_offset = End(e.page_table, r.cur_page - 1)
               /\ r.cur_offset <= o
               /\ o < r.cur_offset + Len(e.page_table[r.cur_page].data)
<1> DEFINE pt == e.page_table
           r == find_page(e, o)
           hit == /\ e.cur_page # 0
                  /\ e.cur_offset <= o
                  /\ o < e.cur_offset + Len(pt[e.cur_page].data)
           start == Starts(pt, 1, 0)
           k == CHOOSE i \in 1..Len(pt) : start[i] <= o /\ o < start[i + 1]
<1>0. /\ pt \in Tables(f) /\ e.total_size = Len(Flatten(pt))
      /\ pt \in Seq(AnyPage) /\ Len(pt) \in Nat
  BY TableType DEF Valid
<1>1. CASE hit
  <2>1. r = e
    BY <1>1 DEF find_page
  <2> HIDE DEF r
  <2>2. /\ Valid(r, f) /\ r.page_table = e.page_table
        /\ r.total_size = e.total_size
        /\ r.cur_page \in 1..Len(e.page_table)
        /\ r.cur_offset = End(e.page_table, r.cur_page - 1)
        /\ r.cur_offset <= o
        /\ o < r.cur_offset + Len(e.page_table[r.cur_page].data)
    BY <1>1, <2>1 DEF Valid
  <2> QED
    BY <2>2 DEF r
<1>2. CASE ~hit
  <2>1. r = [e EXCEPT !.cur_page = k, !.cur_offset = start[k]]
    BY <1>2 DEF find_page
  <2>2. ASSUME NEW i \in 1..(Len(pt) + 1) PROVE start[i] = End(pt, i - 1)
    <3>1. /\ start[i] = 0 + (End(pt, i - 1) - End(pt, 1 - 1))
      BY <1>0, StartsAre
    <3>2. End(pt, 0) = 0 /\ i - 1 \in 0..Len(pt)
      BY <1>0, EndBounds
    <3>3. End(pt, i - 1) \in Nat
      BY <1>0, <3>2, EndBounds
    <3> HIDE DEF start, pt
    <3> QED
      BY <3>1, <3>2, <3>3
  <2> HIDE DEF pt, start
  <2>3. PICK j \in 1..Len(pt) : End(pt, j - 1) <= o /\ o < End(pt, j)
    BY <1>0, PageAt
  <2>4. start[j] <= o /\ o < start[j + 1]
    <3>1. j \in 1..(Len(pt) + 1) /\ j + 1 \in 1..(Len(pt) + 1) /\ (j + 1) - 1 = j
      BY <1>0
    <3> QED
      BY <2>2, <2>3, <3>1
  <2>5. k \in 1..Len(pt) /\ start[k] <= o /\ o < start[k + 1]
    BY <2>4
  <2> HIDE DEF k
  <2>6. start[k] = End(pt, k - 1) /\ start[k + 1] = End(pt, k)
    <3>1. k \in 1..(Len(pt) + 1) /\ k + 1 \in 1..(Len(pt) + 1) /\ (k + 1) - 1 = k
      BY <1>0, <2>5
    <3> QED
      BY <2>2, <3>1
  <2>7. /\ End(pt, k) = End(pt, k - 1) + Len(pt[k].data)
        /\ End(pt, k - 1) \in Nat
    BY <1>0, <2>5, EndStep
  <2> HIDE DEF r
  <2>8. /\ r.page_table = e.page_table /\ r.total_size = e.total_size
        /\ r.cur_page = k /\ r.cur_offset = start[k]
        /\ r \in [page_table : Tables(f), total_size : Nat, cur_page : Nat,
                  cur_offset : Nat]
    <3>1. k \in Nat /\ start[k] \in Nat
      BY <1>0, <2>5, <2>6, <2>7
    <3>2. e \in [page_table : Tables(f), total_size : Nat, cur_page : Nat,
                 cur_offset : Nat]
      BY DEF Valid
    <3> QED
      BY <2>1, <3>1, <3>2
  <2>9. /\ Valid(r, f)
        /\ r.cur_page \in 1..Len(pt)
        /\ r.cur_offset = End(pt, r.cur_page - 1)
        /\ r.cur_offset <= o
        /\ o < r.cur_offset + Len(pt[r.cur_page].data)
    BY <1>0, <2>5, <2>6, <2>7, <2>8 DEF Valid, pt
  <2> QED
    BY <2>8, <2>9 DEF r, pt
<1> QED
  BY <1>1, <1>2

---------------------------------------------------------------------------
(* Bytes cut into pages.                                                   *)

(* How many pages Chunks makes of n bytes.                                 *)
NbChunks(n) == (n + MaxPageSize - 1) \div MaxPageSize

LEMMA ChunkCount ==
    ASSUME NEW n \in Nat
    PROVE  /\ NbChunks(n) \in Nat
           /\ \A i \in 0..(NbChunks(n) - 1) :
                /\ i * MaxPageSize \in Nat /\ i * MaxPageSize < n
                /\ (i + 1) * MaxPageSize = i * MaxPageSize + MaxPageSize
           /\ n <= NbChunks(n) * MaxPageSize
<1> DEFINE M == MaxPageSize
           x == n + M - 1
           c == x \div M
<1>0. M \in Nat /\ M > 0
  BY PageSizeAssumption
<1>1. x \in Nat
  BY <1>0
<1>2. c \in Nat /\ M * c <= x /\ x < M * c + M
  <2> HIDE DEF M, x
  <2>1. c \in Int /\ M * c <= x /\ x < M * c + M
    BY <1>0, <1>1
  <2>2. c >= 0
    BY <1>0, <1>1, <2>1
  <2> QED
    BY <2>1, <2>2
<1> HIDE DEF c, M
<1>3. n <= c * M
  <2>1. M * c = c * M
    BY <1>0, <1>2
  <2>2. c * M \in Nat
    BY <1>0, <1>2
  <2> QED
    BY <1>0, <1>1, <1>2, <2>1, <2>2
<1>4. ASSUME NEW i \in 0..(c - 1)
      PROVE  /\ i * M \in Nat /\ i * M < n
             /\ (i + 1) * M = i * M + M
  <2>1. i \in Nat /\ i * M \in Nat /\ (i + 1) * M = i * M + M
    BY <1>0
  <2>2. (i + 1) * M <= c * M
    <3>1. c - (i + 1) \in Nat
      BY <1>2
    <3>2. (c - (i + 1)) * M >= 0
      BY <1>0, <3>1
    <3>3. (c - (i + 1)) * M = c * M - (i + 1) * M
      BY <1>0, <1>2, <2>1
    <3> QED
      BY <1>0, <1>2, <2>1, <3>2, <3>3
  <2>3. c * M = M * c
    BY <1>0, <1>2
  <2>4. c * M <= x
    BY <1>2, <2>3
  <2>5. c * M \in Nat
    BY <1>0, <1>2
  <2> QED
    BY <1>0, <2>1, <2>2, <2>4, <2>5
<1> QED
  BY <1>2, <1>3, <1>4 DEF NbChunks, c, M

LEMMA ChunkType ==
    ASSUME NEW d \in Seq(Byte)
    PROVE  /\ Len(Chunks(d)) = NbChunks(Len(d))
           /\ \A i \in 0..(NbChunks(Len(d)) - 1) :
                LET size == Minimum(MaxPageSize, Len(d) - i * MaxPageSize)
                IN  /\ Chunks(d)[i + 1] = Part(d, i * MaxPageSize, size)
                    /\ size \in 1..MaxPageSize
                    /\ i * MaxPageSize + size
                         = Minimum((i + 1) * MaxPageSize, Len(d))
<1> DEFINE c == NbChunks(Len(d))
<1>0. Len(d) \in Nat
  OBVIOUS
<1>1. c \in Nat
  BY <1>0, ChunkCount
<1>2. Chunks(d) = [i \in 1..c |->
        Part(d, (i - 1) * MaxPageSize,
             Minimum(MaxPageSize, Len(d) - (i - 1) * MaxPageSize))]
  BY DEF Chunks, NbChunks
<1>3. ASSUME NEW i \in 0..(c - 1)
      PROVE  LET size == Minimum(MaxPageSize, Len(d) - i * MaxPageSize)
             IN  /\ Chunks(d)[i + 1] = Part(d, i * MaxPageSize, size)
                 /\ size \in 1..MaxPageSize
                 /\ i * MaxPageSize + size = Minimum((i + 1) * MaxPageSize, Len(d))
  <2>1. i + 1 \in 1..c /\ (i + 1) - 1 = i
    BY <1>1
  <2>2. /\ i * MaxPageSize \in Nat /\ i * MaxPageSize < Len(d)
        /\ (i + 1) * MaxPageSize = i * MaxPageSize + MaxPageSize
    BY <1>0, ChunkCount
  <2> HIDE DEF c
  <2>3. Chunks(d)[i + 1] = Part(d, i * MaxPageSize,
                                Minimum(MaxPageSize, Len(d) - i * MaxPageSize))
    BY <1>2, <2>1
  <2>4. MaxPageSize \in Nat /\ MaxPageSize >= 1
    BY PageSizeAssumption
  <2> DEFINE im == i * MaxPageSize
  <2>5. im \in Nat /\ im < Len(d) /\ (i + 1) * MaxPageSize = im + MaxPageSize
    BY <2>2
  <2> HIDE DEF im
  <2>6. /\ Minimum(MaxPageSize, Len(d) - im) \in 1..MaxPageSize
        /\ im + Minimum(MaxPageSize, Len(d) - im)
             = Minimum(im + MaxPageSize, Len(d))
    BY <1>0, <2>4, <2>5 DEF Minimum
  <2> QED
    BY <2>3, <2>5, <2>6 DEF im
<1>4. Len(Chunks(d)) = c
  <2> HIDE DEF c
  <2> QED
    BY <1>1, <1>2
<1> QED
  BY <1>3, <1>4

(* Pages with the chunks of d hold d.                                      *)
LEMMA ChunksFlat ==
    ASSUME NEW d \in Seq(Byte), NEW q \in Seq(AnyPage), Len(q) = NbChunks(Len(d)),
           \A i \in 0..(Len(q) - 1) : q[i + 1].data = Chunks(d)[i + 1]
    PROVE  Flatten(q) = d
<1> DEFINE c == Len(q)
           pos(n) == Minimum(n * MaxPageSize, Len(d))
           T == {n \in 0..c : Flatten(First(q, n)) = Before(d, pos(n))}
<1>0. c \in Nat /\ Len(d) \in Nat /\ MaxPageSize \in Nat
  BY PageSizeAssumption
<1>1. 0 \in T
  <2>1. First(q, 0) = << >> /\ Before(d, 0) = << >>
    BY DEF First, Before
  <2>2. pos(0) = 0
    <3>1. 0 * MaxPageSize = 0
      BY <1>0
    <3> QED
      BY <1>0, <3>1 DEF Minimum
  <2> HIDE DEF pos
  <2> QED
    BY <1>0, <2>1, <2>2, FlattenEmpty
<1>2. ASSUME NEW n \in 0..(c - 1), n \in T PROVE n + 1 \in T
  <2> DEFINE x == n * MaxPageSize
             size == Minimum(MaxPageSize, Len(d) - x)
  <2>1. /\ q[n + 1].data = Part(d, x, size)
        /\ size \in 1..MaxPageSize /\ x + size = pos(n + 1)
    BY <1>0, ChunkType
  <2>2. x \in Nat /\ x < Len(d)
    BY <1>0, ChunkCount
  <2>3. pos(n) = x
    <3> HIDE DEF x
    <3> QED
      BY <1>0, <2>2 DEF Minimum, x
  <2>4. x + size <= Len(d)
    <3> HIDE DEF x
    <3> QED
      BY <1>0, <2>2 DEF Minimum
  <2>5. n + 1 \in 1..Len(q) /\ (n + 1) - 1 = n /\ n + 1 \in 0..c
    BY <1>0
  <2>6. Flatten(First(q, n + 1)) = Flatten(First(q, n)) \o q[n + 1].data
    BY <2>5, EndStep
  <2>7. Flatten(First(q, n)) = Before(d, x)
    BY <1>2, <2>3
  <2>8. size \in Nat
    BY <1>0, <2>1
  <2> HIDE DEF x, size, pos
  <2>9. Before(d, x) \o Part(d, x, size) = Before(d, x + size)
    <3>1. 0 \in Nat /\ 0 <= x /\ x <= x + size /\ x + size \in Nat /\ 0 + 1 = 1
      BY <2>2, <2>8
    <3> QED
      BY <2>2, <2>4, <2>8, <3>1, SubCat DEF Before, Part
  <2> QED
    BY <2>1, <2>5, <2>6, <2>7, <2>9
<1>3. c \in T
  <2> HIDE DEF T, c
  <2> QED
    BY <1>0, <1>1, <1>2, UpTo
<1>4. pos(c) = Len(d)
  <2>1. Len(d) <= c * MaxPageSize
    BY <1>0, ChunkCount
  <2>2. c * MaxPageSize \in Nat
    BY <1>0
  <2> QED
    BY <1>0, <2>1, <2>2 DEF Minimum
<1>5. First(q, c) = q /\ Before(d, Len(d)) = d
  BY DEF First, Before
<1> QED
  BY <1>3, <1>4, <1>5

(* New pages for d.                                                        *)
LEMMA NewPageGood ==
    ASSUME NEW f, NEW d \in Seq(Byte), Len(d) \in 1..MaxPageSize
    PROVE  /\ NewPage(d) \in GoodPage(f) /\ NewPage(d).data = d
<1>1. d \in [1..Len(d) -> Byte]
  OBVIOUS
<1>2. d \in UNION {[1..n -> Byte] : n \in 1..MaxPageSize}
  BY <1>1
<1> QED
  BY <1>2 DEF NewPage, GoodPage, Page

LEMMA MappedPageGood ==
    ASSUME NEW f, NEW d \in Seq(Byte), Len(d) \in 1..MaxPageSize, NEW src \in Nat,
           d = Part(f, src, Len(d))
    PROVE  /\ MappedPage(d, src) \in GoodPage(f) /\ MappedPage(d, src).data = d
<1> DEFINE q == NewPage(d)
           pg == [q EXCEPT !.readonly = TRUE, !.src = src]
<1>1. q \in Page /\ q.data = d
  BY NewPageGood DEF GoodPage
<1> HIDE DEF q
<1>2. pg \in Page /\ pg.data = d /\ pg.src = src
  BY <1>1 DEF Page
<1> HIDE DEF pg
<1>3. pg \in GoodPage(f)
  BY <1>2 DEF GoodPage
<1> QED
  BY <1>2, <1>3 DEF MappedPage, pg, q

---------------------------------------------------------------------------
(* Tables put together from pages.                                         *)

LEMMA Glue ==
    ASSUME NEW S, NEW p \in Seq(S), NEW q \in Seq(S)
    PROVE  First(p \o q, Len(p)) = p /\ Rest(p \o q, Len(p)) = q
<1> DEFINE v == p \o q
<1>1. /\ v \in Seq(S) /\ Len(v) = Len(p) + Len(q)
      /\ \A i \in 1..Len(p) : v[i] = p[i]
      /\ \A i \in 1..Len(q) : v[Len(p) + i] = q[i]
      /\ Len(p) \in Nat /\ Len(q) \in Nat
  BY Cat
<1> HIDE DEF v
<1>2. Len(p) \in 0..Len(v) /\ Len(v) - Len(p) = Len(q)
  BY <1>1
<1>3. /\ First(v, Len(p)) \in Seq(S) /\ Rest(v, Len(p)) \in Seq(S)
      /\ Len(First(v, Len(p))) = Len(p) /\ Len(Rest(v, Len(p))) = Len(q)
      /\ \A j \in 1..Len(p) : First(v, Len(p))[j] = v[j]
      /\ \A j \in 1..Len(q) : Rest(v, Len(p))[j] = v[Len(p) + j]
  <2> DEFINE m == Len(p)
             n == Len(q)
  <2>1. v \in Seq(S) /\ m \in 0..Len(v) /\ Len(v) - m = n
    BY <1>1, <1>2
  <2> HIDE DEF m, n
  <2>2. /\ First(v, m) \in Seq(S) /\ Rest(v, m) \in Seq(S)
        /\ Len(First(v, m)) = m /\ Len(Rest(v, m)) = n
        /\ \A j \in 1..m : First(v, m)[j] = v[j]
        /\ \A j \in 1..n : Rest(v, m)[j] = v[m + j]
    BY <2>1, CutType
  <2> QED
    BY <2>2 DEF m, n
<1>4. First(v, Len(p)) = p
  BY <1>1, <1>3, SeqEqual
<1>5. Rest(v, Len(p)) = q
  BY <1>1, <1>3, SeqEqual
<1> QED
  BY <1>4, <1>5 DEF v

(* The bytes from page n + 1 on.                                           *)
LEMMA RestStep ==
    ASSUME NEW pt \in Seq(AnyPage), NEW n \in 0..(Len(pt) - 1)
    PROVE  /\ Flatten(Rest(pt, n)) = pt[n + 1].data \o Flatten(Rest(pt, n + 1))
           /\ pt[n + 1].data \in Seq(Byte)
           /\ Flatten(Rest(pt, n)) \in Seq(Byte)
           /\ Flatten(Rest(pt, n + 1)) \in Seq(Byte)
<1> DEFINE pg == pt[n + 1]
           one == << pg >>
<1>0. Len(pt) \in Nat /\ n + 1 \in 1..Len(pt) /\ n \in 0..Len(pt) /\ n + 1 \in 0..Len(pt)
  BY PageType
<1>1. pg \in AnyPage /\ pg.data \in Seq(Byte)
  BY <1>0, PageType
<1>2. Rest(pt, n) \in Seq(AnyPage) /\ Rest(pt, n + 1) \in Seq(AnyPage)
  BY <1>0, Cutting
<1>3. one \in Seq(AnyPage)
  BY <1>1
<1>4. Rest(pt, n) = one \o Rest(pt, n + 1)
  BY <1>0, <1>1 DEF Rest
<1>5. Flatten(one) = pg.data
  <2> DEFINE none == << >>
  <2>1. one = Append(none, pg) /\ none \in Seq(AnyPage)
    OBVIOUS
  <2>3. none \o pg.data = pg.data
    BY <1>1, CatEmpty
  <2>4. Flatten(none) = none
    BY FlattenEmpty
  <2> HIDE DEF pg, one, none
  <2>2. Flatten(Append(none, pg)) = Flatten(none) \o pg.data
    BY <1>1, <2>1, FlattenAppend
  <2> QED
    BY <2>1, <2>2, <2>3, <2>4
<1> HIDE DEF one
<1>6. Flatten(Rest(pt, n)) = Flatten(one) \o Flatten(Rest(pt, n + 1))
  BY <1>2, <1>3, <1>4, FlattenCat
<1>7. Flatten(Rest(pt, n)) \in Seq(Byte) /\ Flatten(Rest(pt, n + 1)) \in Seq(Byte)
  BY <1>2, FlattenType
<1> QED
  BY <1>1, <1>5, <1>6, <1>7

(* One page is replaced.                                                   *)
LEMMA Replaced ==
    ASSUME NEW S, NEW pt \in Seq(S), NEW k \in 1..Len(pt), NEW pg \in S
    PROVE  LET q == [pt EXCEPT ![k] = pg]
           IN  /\ q \in Seq(S) /\ Len(q) = Len(pt) /\ q[k] = pg
               /\ First(q, k - 1) = First(pt, k - 1)
               /\ Rest(q, k) = Rest(pt, k)
<1> DEFINE q == [pt EXCEPT ![k] = pg]
<1>1. /\ q \in Seq(S) /\ Len(q) = Len(pt) /\ q[k] = pg
      /\ \A i \in 1..Len(pt) : i # k => q[i] = pt[i]
  OBVIOUS
<1> HIDE DEF q
<1>0. Len(pt) \in Nat /\ k - 1 \in 0..Len(pt) /\ k \in 0..Len(pt)
  OBVIOUS
<1>2. First(q, k - 1) = First(pt, k - 1)
  <2> DEFINE x == First(q, k - 1)
             y == First(pt, k - 1)
  <2>0. q \in Seq(S) /\ k - 1 \in 0..Len(q)
    BY <1>0, <1>1
  <2>1. /\ x \in Seq(S) /\ Len(x) = k - 1
        /\ \A j \in 1..(k - 1) : x[j] = q[j]
    BY ZenonT(60), <2>0, CutType
  <2>2. /\ y \in Seq(S) /\ Len(y) = k - 1
        /\ \A j \in 1..(k - 1) : y[j] = pt[j]
    BY ZenonT(60), <1>0, CutType
  <2> HIDE DEF x, y
  <2>3. x = y
    <3>1. \A j \in 1..Len(x) : x[j] = y[j]
      BY <1>0, <1>1, <2>1, <2>2
    <3> QED
      BY <2>1, <2>2, <3>1, SeqEqual
  <2> QED
    BY <2>3 DEF x, y
<1>3. Rest(q, k) = Rest(pt, k)
  <2> DEFINE x == Rest(q, k)
             y == Rest(pt, k)
  <2>0. q \in Seq(S) /\ k \in 0..Len(q) /\ Len(q) = Len(pt)
    BY <1>0, <1>1
  <2>1. /\ x \in Seq(S) /\ Len(x) = Len(pt) - k
        /\ \A j \in 1..(Len(pt) - k) : x[j] = q[k + j]
    BY <2>0, CutType
  <2>2. /\ y \in Seq(S) /\ Len(y) = Len(pt) - k
        /\ \A j \in 1..(Len(pt) - k) : y[j] = pt[k + j]
    BY <1>0, CutType
  <2> HIDE DEF x, y
  <2>3. x = y
    <3>1. \A j \in 1..Len(x) : x[j] = y[j]
      BY <1>0, <1>1, <2>1, <2>2
    <3> QED
      BY <2>1, <2>2, <3>1, SeqEqual
  <2> QED
    BY <2>3 DEF x, y
<1> QED
  BY <1>1, <1>2, <1>3 DEF q

(* The pages made of the bytes d.                                          *)
LEMMA NewPages ==
    ASSUME NEW f, NEW d \in Seq(Byte)
    PROVE  LET q == [i \in 1..Len(Chunks(d)) |-> NewPage(Chunks(d)[i])]
           IN  q \in Tables(f) /\ Flatten(q) = d
<1> DEFINE c == Len(Chunks(d))
           q == [i \in 1..c |-> NewPage(Chunks(d)[i])]
<1>0. c = NbChunks(Len(d)) /\ c \in Nat /\ Len(d) \in Nat
  BY ChunkType, ChunkCount
<1>1. ASSUME NEW i \in 0..(c - 1)
      PROVE  /\ Chunks(d)[i + 1] \in Seq(Byte)
             /\ Len(Chunks(d)[i + 1]) \in 1..MaxPageSize
  <2> DEFINE x == i * MaxPageSize
             size == Minimum(MaxPageSize, Len(d) - x)
  <2>1. Chunks(d)[i + 1] = Part(d, x, size) /\ size \in 1..MaxPageSize
    BY <1>0, ChunkType
  <2>2. x \in Nat /\ x < Len(d)
    BY <1>0, ChunkCount
  <2>3. size \in Nat /\ x + size <= Len(d)
    <3>1. MaxPageSize \in Nat
      BY PageSizeAssumption
    <3> HIDE DEF x
    <3> QED
      BY <1>0, <2>2, <3>1 DEF Minimum
  <2> HIDE DEF x, size
  <2> QED
    BY <2>1, <2>2, <2>3, PartIs
<1>2. ASSUME NEW i \in 1..c
      PROVE  q[i] \in GoodPage(f) /\ q[i].data = Chunks(d)[i]
  <2>1. i - 1 \in 0..(c - 1) /\ (i - 1) + 1 = i
    BY <1>0
  <2>2. Chunks(d)[i] \in Seq(Byte) /\ Len(Chunks(d)[i]) \in 1..MaxPageSize
    BY <1>1, <2>1
  <2>3. q[i] = NewPage(Chunks(d)[i])
    OBVIOUS
  <2> HIDE DEF q
  <2> QED
    BY <2>2, <2>3, NewPageGood
<1>3. q \in Tables(f) /\ Len(q) = c
  <2>1. q = [i \in 1..c |-> q[i]]
    OBVIOUS
  <2> HIDE DEF q, c
  <2> QED
    BY <1>0, <1>2, <2>1 DEF Tables
<1> HIDE DEF q
<1>4. q \in Seq(AnyPage)
  BY <1>3, TableType
<1>5. \A i \in 0..(Len(q) - 1) : q[i + 1].data = Chunks(d)[i + 1]
  <2>1. \A i \in 0..(Len(q) - 1) : i + 1 \in 1..c
    BY <1>0, <1>3
  <2> QED
    BY <1>2, <2>1
<1>6. Flatten(q) = d
  BY <1>0, <1>3, <1>4, <1>5, ChunksFlat
<1> QED
  BY <1>3, <1>6 DEF q

LEMMA TableCat ==
    ASSUME NEW f, NEW p \in Tables(f), NEW q \in Tables(f)
    PROVE  /\ p \o q \in Tables(f) /\ Len(p \o q) = Len(p) + Len(q)
           /\ Flatten(p \o q) = Flatten(p) \o Flatten(q)
<1>1. p \o q \in Tables(f) /\ Len(p \o q) = Len(p) + Len(q)
  BY DEF Tables
<1>2. p \in Seq(AnyPage) /\ q \in Seq(AnyPage)
  BY TableType
<1> QED
  BY <1>1, <1>2, FlattenCat

LEMMA TableAssoc ==
    ASSUME NEW f, NEW p \in Tables(f), NEW q \in Tables(f), NEW r \in Tables(f)
    PROVE  (p \o q) \o r = p \o (q \o r)
BY SMTT(30) DEF Tables

LEMMA TableCut ==
    ASSUME NEW f, NEW pt \in Tables(f), NEW n \in 0..Len(pt)
    PROVE  /\ First(pt, n) \in Tables(f) /\ Rest(pt, n) \in Tables(f)
           /\ Len(First(pt, n)) = n /\ Len(Rest(pt, n)) = Len(pt) - n
           /\ Flatten(pt) = Flatten(First(pt, n)) \o Flatten(Rest(pt, n))
           /\ Flatten(First(pt, n)) \in Seq(Byte)
           /\ Flatten(Rest(pt, n)) \in Seq(Byte)
<1>1. /\ First(pt, n) \in Tables(f) /\ Rest(pt, n) \in Tables(f)
      /\ Len(First(pt, n)) = n /\ Len(Rest(pt, n)) = Len(pt) - n
  BY CutType DEF Tables
<1>2. pt = First(pt, n) \o Rest(pt, n)
  BY Cutting DEF Tables
<1>3. Flatten(First(pt, n) \o Rest(pt, n))
        = Flatten(First(pt, n)) \o Flatten(Rest(pt, n))
  BY <1>1, TableCat
<1>4. Flatten(First(pt, n)) \in Seq(Byte) /\ Flatten(Rest(pt, n)) \in Seq(Byte)
  BY <1>1, TableType
<1> QED
  BY <1>1, <1>2, <1>3, <1>4

(* Three tables one after the other.                                       *)
Joined(p, q) == p \o q
Glued(p, q, r) == p \o q \o r

LEMMA TableGlue ==
    ASSUME NEW f, NEW p \in Tables(f), NEW q \in Tables(f), NEW r \in Tables(f)
    PROVE  /\ Glued(p, q, r) \in Tables(f) /\ Len(p) \in 0..Len(Glued(p, q, r))
           /\ First(Glued(p, q, r), Len(p)) = p
           /\ Rest(Glued(p, q, r), Len(p)) = Joined(q, r)
<1> DEFINE u == q \o r
           t == Glued(p, q, r)
<1>1. t = p \o u
  BY TableAssoc DEF Glued
<1>2. /\ u \in Tables(f) /\ Len(u) = Len(q) + Len(r)
      /\ Flatten(u) = Flatten(q) \o Flatten(r)
  BY TableCat
<1> HIDE DEF u, t
<1>3. t \in Tables(f) /\ Len(t) = Len(p) + Len(u)
  BY <1>1, <1>2, TableCat
<1>4. Len(p) \in Nat /\ Len(u) \in Nat
  BY <1>2, TableType
<1>5. First(t, Len(p)) = p /\ Rest(t, Len(p)) = u
  BY <1>1, <1>2, Glue DEF Tables
<1> QED
  BY <1>3, <1>4, <1>5 DEF t, u, Joined

(* eb_insert1 leaves the first n pages alone, and the bytes of d come      *)
(* next.                                                                   *)
LEMMA Insert1 ==
    ASSUME NEW f, NEW pt \in Tables(f), NEW n \in 0..Len(pt), NEW d \in Seq(Byte)
    PROVE  LET r == eb_insert1(pt, n, d)
           IN  /\ r \in Tables(f) /\ n \in 0..Len(r)
               /\ First(r, n) = First(pt, n)
               /\ Flatten(Rest(r, n)) = d \o Flatten(Rest(pt, n))
<1> DEFINE next == IF n < Len(pt) THEN pt[n + 1].data ELSE << >>
           len  == IF n < Len(pt)
                   THEN Minimum(MaxPageSize - Len(next), Len(d)) ELSE 0
           left == Len(d) - len
           new  == Chunks(Before(d, left))
           np   == [i \in 1..Len(new) |-> NewPage(new[i])]
           pt1  == IF len = 0 THEN pt
                   ELSE [pt EXCEPT ![n + 1] = NewPage(From(d, left) \o next)]
           r    == First(pt1, n) \o np \o Rest(pt1, n)
<1>0. eb_insert1(pt, n, d) = r
  BY DEF eb_insert1, update_page, First, Rest
<1>1. Len(pt) \in Nat /\ Len(d) \in Nat /\ MaxPageSize \in Nat /\ n \in Nat
  BY TableType, PageSizeAssumption
<1>2. /\ next \in Seq(Byte) /\ Len(next) \in 0..MaxPageSize
      /\ n < Len(pt) => next = pt[n + 1].data
  <2>1. CASE n < Len(pt)
    <3>1. n + 1 \in 1..Len(pt)
      BY <1>1, <2>1
    <3> QED
      BY <1>1, <2>1, <3>1, TableType
  <2>2. CASE ~(n < Len(pt))
    BY <1>1, <2>2
  <2> QED
    BY <2>1, <2>2
<1> HIDE DEF next
<1>3. /\ len \in 0..Len(d)
      /\ len # 0 => n < Len(pt)
      /\ len + Len(next) <= MaxPageSize
  BY <1>1, <1>2 DEF Minimum
<1> HIDE DEF len
<1>4. left \in 0..Len(d) /\ Len(d) - left = len
  BY <1>1, <1>3
<1> HIDE DEF left
<1>5. /\ Before(d, left) \in Seq(Byte) /\ From(d, left) \in Seq(Byte)
      /\ Len(From(d, left)) = len /\ d = Before(d, left) \o From(d, left)
  BY <1>4, TextCut
<1>6. np \in Tables(f) /\ Flatten(np) = Before(d, left)
  BY <1>5, NewPages
<1> HIDE DEF np
<1>7. /\ pt1 \in Tables(f) /\ Len(pt1) = Len(pt)
      /\ First(pt1, n) = First(pt, n)
      /\ Flatten(Rest(pt1, n)) = From(d, left) \o Flatten(Rest(pt, n))
  <2>1. CASE len = 0
    <3>1. left = Len(d) /\ pt1 = pt
      BY <1>1, <1>4, <2>1
    <3>2. From(d, left) = << >>
      BY <3>1, BeforeAll
    <3>3. << >> \o Flatten(Rest(pt, n)) = Flatten(Rest(pt, n))
      BY TableCut, CatEmpty
    <3> QED
      BY <3>1, <3>2, <3>3
  <2>2. CASE len # 0
    <3> DEFINE data == From(d, left) \o next
               pg   == NewPage(data)
               q    == [pt EXCEPT ![n + 1] = pg]
    <3>1. n < Len(pt) /\ next = pt[n + 1].data /\ n + 1 \in 1..Len(pt)
          /\ (n + 1) - 1 = n /\ n \in 0..(Len(pt) - 1)
      BY <1>1, <1>2, <1>3, <2>2
    <3>2. data \in Seq(Byte) /\ Len(data) = len + Len(next)
      <4> DEFINE x == From(d, left)
      <4>1. x \in Seq(Byte) /\ Len(x) = len
        BY <1>5
      <4> HIDE DEF x
      <4>2. x \o next \in Seq(Byte) /\ Len(x \o next) = Len(x) + Len(next)
        BY <1>2, <4>1, Cat
      <4> QED
        BY <4>1, <4>2 DEF x
    <3> HIDE DEF data
    <3>3. Len(data) \in 1..MaxPageSize
      BY <1>1, <1>2, <1>3, <2>2, <3>2
    <3>4. pg \in GoodPage(f) /\ pg.data = data
      BY <3>2, <3>3, NewPageGood
    <3> HIDE DEF pg
    <3>5. /\ q \in Tables(f) /\ Len(q) = Len(pt) /\ q[n + 1] = pg
          /\ First(q, (n + 1) - 1) = First(pt, (n + 1) - 1)
          /\ Rest(q, n + 1) = Rest(pt, n + 1)
      BY <3>1, <3>4, Replaced DEF Tables
    <3>6. pt1 = q
      BY <2>2 DEF q, pg, data
    <3> HIDE DEF q
    <3>7. q \in Seq(AnyPage) /\ pt \in Seq(AnyPage)
      BY <3>5, TableType
    <3>8. n \in 0..(Len(q) - 1)
      BY <3>1, <3>5
    <3>9. Flatten(Rest(q, n)) = q[n + 1].data \o Flatten(Rest(q, n + 1))
      BY <3>7, <3>8, RestStep
    <3>10. /\ Flatten(Rest(pt, n)) = pt[n + 1].data \o Flatten(Rest(pt, n + 1))
           /\ Flatten(Rest(pt, n + 1)) \in Seq(Byte)
      BY <3>7, <3>1, RestStep
    <3> DEFINE x == From(d, left)
               z == Flatten(Rest(pt, n + 1))
    <3>11. x \in Seq(Byte) /\ z \in Seq(Byte)
      BY <1>5, <3>10
    <3>12. Flatten(Rest(q, n)) = data \o z
      BY <3>4, <3>5, <3>9
    <3>13. Flatten(Rest(pt, n)) = next \o z
      BY <3>1, <3>10
    <3>14. data = x \o next
      BY DEF data
    <3> HIDE DEF x, z
    <3>15. (x \o next) \o z = x \o (next \o z)
      BY SMTT(30), <1>2, <3>11, CatAssoc
    <3>16. Flatten(Rest(q, n)) = x \o Flatten(Rest(pt, n))
      BY <3>12, <3>13, <3>14, <3>15
    <3> QED
      BY <3>1, <3>5, <3>6, <3>16 DEF x
  <2> QED
    BY <2>1, <2>2
<1> HIDE DEF pt1
<1>8. /\ First(pt1, n) \in Tables(f) /\ Rest(pt1, n) \in Tables(f)
      /\ Len(First(pt1, n)) = n /\ Flatten(Rest(pt, n)) \in Seq(Byte)
  BY <1>7, TableCut
<1>9. /\ r \in Tables(f) /\ n \in 0..Len(r)
      /\ First(r, n) = First(pt1, n)
      /\ Flatten(Rest(r, n)) = Flatten(np) \o Flatten(Rest(pt1, n))
  <2> DEFINE x == First(pt1, n)
             y == Rest(pt1, n)
             t == Glued(x, np, y)
  <2>1. x \in Tables(f) /\ y \in Tables(f) /\ Len(x) = n
    BY <1>8
  <2> HIDE DEF x, y
  <2>0. x \in Tables(f) /\ y \in Tables(f) /\ np \in Tables(f)
    BY <1>6, <2>1
  <2>2. /\ t \in Tables(f) /\ Len(x) \in 0..Len(t) /\ First(t, Len(x)) = x
        /\ Flatten(Rest(t, Len(x))) = Flatten(np) \o Flatten(y)
    <3>1. t \in Tables(f)
      BY <2>0, TableGlue
    <3>2. Len(x) \in 0..Len(t)
      BY <2>0, TableGlue
    <3>3. First(t, Len(x)) = x
      BY <2>0, TableGlue
    <3>4. Flatten(Rest(t, Len(x))) = Flatten(np) \o Flatten(y)
      <4>1. Rest(t, Len(x)) = Joined(np, y)
        BY <2>0, TableGlue
      <4>2. Flatten(Joined(np, y)) = Flatten(np) \o Flatten(y)
        BY <2>0, TableCat DEF Joined
      <4> HIDE DEF t
      <4> QED
        BY <4>1, <4>2
    <3> QED
      BY <3>1, <3>2, <3>3, <3>4
  <2>3. t = r
    BY DEF Glued, x, y
  <2> HIDE DEF t, r
  <2>4. /\ r \in Tables(f) /\ n \in 0..Len(r) /\ First(r, n) = x
        /\ Flatten(Rest(r, n)) = Flatten(np) \o Flatten(y)
    BY <2>1, <2>2, <2>3
  <2> QED
    BY <2>4 DEF x, y
<1> HIDE DEF r
<1>10. Flatten(Rest(r, n)) = d \o Flatten(Rest(pt, n))
  <2> DEFINE x == Before(d, left)
             y == From(d, left)
             z == Flatten(Rest(pt, n))
  <2>1. x \in Seq(Byte) /\ y \in Seq(Byte) /\ z \in Seq(Byte) /\ d = x \o y
    BY <1>5, <1>8
  <2>2. Flatten(Rest(r, n)) = x \o (y \o z)
    BY <1>6, <1>7, <1>9
  <2> HIDE DEF x, y, z
  <2>3. Flatten(Rest(r, n)) = d \o z
    BY ZenonT(60), <2>1, <2>2, CatAssoc
  <2> QED
    BY <2>3 DEF z
<1> QED
  BY <1>0, <1>7, <1>9, <1>10

---------------------------------------------------------------------------
(* Texts put together: what concatenation does, without what it is.        *)

Texts == Seq(Byte)
NoText == << >>

LEMMA JoinedType ==
    \A t, u \in Texts : Joined(t, u) \in Texts /\ Joined(t, u) = t \o u
BY DEF Texts, Joined

LEMMA JoinedAssoc ==
    \A t, u, v \in Texts : Joined(Joined(t, u), v) = Joined(t, Joined(u, v))
<1> TAKE t, u, v \in Texts
<1>1. t \in Seq(Byte) /\ u \in Seq(Byte) /\ v \in Seq(Byte)
  BY DEF Texts
<1>2. (t \o u) \o v = t \o (u \o v)
  BY <1>1, CatAssoc
<1> QED
  BY <1>2 DEF Joined

LEMMA JoinedEmpty ==
    /\ NoText \in Texts
    /\ \A t \in Texts : Joined(NoText, t) = t /\ Joined(t, NoText) = t
BY DEF Texts, Joined, NoText

(* What eb_insert_lowlevel makes of the page it inserts in: x and y are    *)
(* its bytes before and behind offset, y in two parts, and so is d.  The   *)
(* parts change places only if one of them is empty.                       *)
Rearranged(a, x, d1, y1, d2, y2, z) ==
    Joined(Joined(a, Joined(Joined(x, d1), y1)), Joined(d2, Joined(y2, z)))
      = Joined(Joined(Joined(a, x), Joined(d1, d2)), Joined(Joined(y1, y2), z))

LEMMA InsertAlgebra ==
    ASSUME NEW a \in Texts, NEW z \in Texts, NEW x \in Texts,
           NEW d1 \in Texts, NEW d2 \in Texts, NEW y1 \in Texts, NEW y2 \in Texts,
           d2 = NoText \/ y1 = NoText
    PROVE  Rearranged(a, x, d1, y1, d2, y2, z)
<1> DEFINE w == Joined(y2, z)
           c == Joined(a, x)
<1>1. w \in Texts /\ c \in Texts
  BY JoinedType
<1>2. Joined(Joined(y1, y2), z) = Joined(y1, w)
  BY JoinedAssoc
<1>3. Joined(a, Joined(Joined(x, d1), y1)) = Joined(Joined(c, d1), y1)
  <2>1. Joined(x, d1) \in Texts
    BY JoinedType
  <2>2. Joined(a, Joined(Joined(x, d1), y1)) = Joined(Joined(a, Joined(x, d1)), y1)
    BY <2>1, JoinedAssoc
  <2>3. Joined(a, Joined(x, d1)) = Joined(c, d1)
    BY JoinedAssoc
  <2> QED
    BY <2>2, <2>3
<1> HIDE DEF w, c
<1> DEFINE cd == Joined(c, d1)
<1>4. cd \in Texts
  BY <1>1, JoinedType
<1>5. Joined(c, Joined(d1, d2)) = Joined(cd, d2)
  BY <1>1, JoinedAssoc
<1> HIDE DEF cd
<1>6. Joined(Joined(cd, y1), Joined(d2, w)) = Joined(Joined(cd, d2), Joined(y1, w))
  <2>1. CASE d2 = NoText
    <3>1. Joined(d2, w) = w /\ Joined(cd, d2) = cd
      BY <1>1, <1>4, <2>1, JoinedEmpty
    <3>2. Joined(Joined(cd, y1), w) = Joined(cd, Joined(y1, w))
      BY <1>1, <1>4, JoinedAssoc
    <3> QED
      BY <3>1, <3>2
  <2>2. CASE y1 = NoText
    <3>1. Joined(cd, y1) = cd /\ Joined(y1, w) = w
      BY <1>1, <1>4, <2>2, JoinedEmpty
    <3>2. Joined(Joined(cd, d2), w) = Joined(cd, Joined(d2, w))
      BY <1>1, <1>4, JoinedAssoc
    <3> QED
      BY <3>1, <3>2
  <2> QED
    BY <2>1, <2>2
<1> QED
  BY <1>2, <1>3, <1>5, <1>6 DEF w, c, cd, Rearranged

---------------------------------------------------------------------------
(* Texts and tables.                                                       *)

LEMMA SameFirst ==
    ASSUME NEW S, NEW p \in Seq(S), NEW q \in Seq(S), NEW k \in 1..Len(p),
           k <= Len(q), First(p, k) = First(q, k)
    PROVE  First(p, k - 1) = First(q, k - 1) /\ p[k] = q[k]
<1>0. Len(p) \in Nat /\ Len(q) \in Nat /\ k \in 0..Len(p) /\ k \in 0..Len(q)
      /\ k - 1 \in 0..Len(p) /\ k - 1 \in 0..Len(q) /\ k \in 1..k
  OBVIOUS
<1>1. \A j \in 1..k : First(p, k)[j] = p[j]
  BY <1>0, CutType
<1>2. \A j \in 1..k : First(q, k)[j] = q[j]
  BY <1>0, CutType
<1>3. \A j \in 1..k : p[j] = q[j]
  BY <1>1, <1>2
<1> DEFINE x == First(p, k - 1)
           y == First(q, k - 1)
<1>4. /\ x \in Seq(S) /\ Len(x) = k - 1
      /\ \A j \in 1..(k - 1) : x[j] = p[j]
  BY ZenonT(60), <1>0, CutType
<1>5. /\ y \in Seq(S) /\ Len(y) = k - 1
      /\ \A j \in 1..(k - 1) : y[j] = q[j]
  BY ZenonT(60), <1>0, CutType
<1> HIDE DEF x, y
<1>6. \A j \in 1..Len(x) : x[j] = y[j]
  BY <1>0, <1>3, <1>4, <1>5
<1>7. x = y
  BY <1>4, <1>5, <1>6, SeqEqual
<1> QED
  BY <1>0, <1>3, <1>7 DEF x, y

LEMMA TableTexts ==
    ASSUME NEW f, NEW pt \in Tables(f), NEW n \in 0..Len(pt)
    PROVE  /\ Flatten(First(pt, n)) \in Texts /\ Flatten(Rest(pt, n)) \in Texts
           /\ Flatten(pt) \in Texts
           /\ Flatten(pt) = Joined(Flatten(First(pt, n)), Flatten(Rest(pt, n)))
           /\ Len(Flatten(First(pt, n))) = End(pt, n)
BY TableCut, TableType DEF Texts, Joined, End

LEMMA FirstTexts ==
    ASSUME NEW f, NEW pt \in Tables(f), NEW k \in 1..Len(pt)
    PROVE  /\ Flatten(First(pt, k - 1)) \in Texts
           /\ Flatten(First(pt, k)) \in Texts
           /\ Flatten(Rest(pt, k)) \in Texts
           /\ pt[k].data \in Texts
           /\ Flatten(First(pt, k)) = Joined(Flatten(First(pt, k - 1)), pt[k].data)
           /\ Flatten(pt) = Joined(Flatten(First(pt, k)), Flatten(Rest(pt, k)))
           /\ Len(Flatten(First(pt, k - 1))) = End(pt, k - 1)
<1>1. pt \in Seq(AnyPage) /\ pt[k].data \in Seq(Byte)
  BY TableType
<1>2. /\ Flatten(First(pt, k)) = Flatten(First(pt, k - 1)) \o pt[k].data
      /\ Flatten(pt) = Flatten(First(pt, k)) \o Flatten(Rest(pt, k))
      /\ Flatten(First(pt, k - 1)) \in Seq(Byte)
      /\ Flatten(First(pt, k)) \in Seq(Byte)
      /\ Flatten(Rest(pt, k)) \in Seq(Byte)
  BY <1>1, EndStep
<1> QED
  BY <1>1, <1>2 DEF Texts, Joined, End

LEMMA JoinedLen ==
    ASSUME NEW t \in Texts, NEW u \in Texts
    PROVE  /\ Len(t) \in Nat /\ Len(u) \in Nat
           /\ Len(Joined(t, u)) = Len(t) + Len(u)
BY DEF Texts, Joined

LEMMA TextParts ==
    ASSUME NEW t \in Texts, NEW n \in 0..Len(t)
    PROVE  /\ Before(t, n) \in Texts /\ From(t, n) \in Texts
           /\ Len(Before(t, n)) = n /\ Len(From(t, n)) = Len(t) - n
           /\ t = Joined(Before(t, n), From(t, n))
           /\ n = Len(t) => From(t, n) = NoText /\ Before(t, n) = t
           /\ n = 0 => From(t, n) = t /\ Before(t, n) = NoText
BY TextCut, BeforeAll DEF Texts, Joined, NoText

(* An offset in the middle of three texts.                                 *)
LEMMA CutMiddle ==
    ASSUME NEW x \in Texts, NEW y \in Texts, NEW z \in Texts, NEW o \in 0..Len(y)
    PROVE  LET t == Joined(Joined(x, y), z)
           IN  /\ Before(t, Len(x) + o) = Joined(x, Before(y, o))
               /\ From(t, Len(x) + o) = Joined(From(y, o), z)
<1> DEFINE u == Joined(y, z)
           t == Joined(Joined(x, y), z)
<1>1. t = Joined(x, u) /\ u \in Texts
  BY JoinedAssoc, JoinedType
<1>2. Before(u, o) = Before(y, o) /\ From(u, o) = Joined(From(y, o), z)
  <2>1. y \in Seq(Byte) /\ z \in Seq(Byte)
    BY DEF Texts
  <2> QED
    BY <2>1, CutLeft DEF Joined
<1>3. o \in 0..Len(u)
  <2>1. Len(u) = Len(y) + Len(z) /\ Len(y) \in Nat /\ Len(z) \in Nat
    BY JoinedLen
  <2> QED
    BY <2>1
<1> HIDE DEF u, t
<1>4. /\ Before(t, Len(x) + o) = Joined(x, Before(u, o))
      /\ From(t, Len(x) + o) = From(u, o)
  <2>1. x \in Seq(Byte) /\ u \in Seq(Byte)
    BY <1>1 DEF Texts
  <2> QED
    BY <1>1, <1>3, <2>1, CutRight DEF Joined
<1> QED
  BY <1>2, <1>4 DEF t

LEMMA PartCut ==
    ASSUME NEW t \in Texts, NEW o \in Nat, NEW left \in Nat, o <= left, left <= Len(t)
    PROVE  /\ Part(t, o, left - o) \in Texts
           /\ Len(Part(t, o, left - o)) = left - o
           /\ From(t, o) = Joined(Part(t, o, left - o), From(t, left))
           /\ o = left => Part(t, o, left - o) = NoText
<1>0. t \in Seq(Byte) /\ Len(t) \in Nat /\ left - o \in Nat /\ o + (left - o) = left
  BY DEF Texts
<1>1. /\ Part(t, o, left - o) \in Seq(Byte) /\ Len(Part(t, o, left - o)) = left - o
  BY <1>0, PartIs
<1>2. From(t, o) = Part(t, o, left - o) \o From(t, left)
  <2> DEFINE n == Len(t)
  <2>1. n \in Nat /\ left <= n /\ n <= Len(t)
    BY <1>0
  <2> HIDE DEF n
  <2>2. SubSeq(t, o + 1, n) = SubSeq(t, o + 1, left) \o SubSeq(t, left + 1, n)
    BY <1>0, <2>1, SubCat
  <2>3. Part(t, o, left - o) = SubSeq(t, o + 1, left)
    BY <1>0 DEF Part
  <2> QED
    BY <2>2, <2>3 DEF From, n
<1>3. o = left => Part(t, o, left - o) = << >>
  BY <1>0 DEF Part
<1> QED
  BY <1>1, <1>2, <1>3 DEF Texts, Joined, NoText

Buffers(f) == [page_table : Tables(f), total_size : Nat, cur_page : Nat,
               cur_offset : Nat]

Renewed(e, pt, size) == [e EXCEPT !.page_table = pt, !.total_size = size]

(* A buffer with a new table and no page in the cache.                     *)
LEMMA FreshBuffer ==
    ASSUME NEW f, NEW e \in Buffers(f), NEW pt \in Tables(f), NEW size,
           size = Len(Flatten(pt))
    PROVE  LET r == ForgetPage(Renewed(e, pt, size))
           IN  Valid(r, f) /\ r.page_table = pt /\ r.total_size = size
<1> DEFINE q == [e EXCEPT !.page_table = pt, !.total_size = size]
           r == [q EXCEPT !.cur_page = 0, !.cur_offset = 0]
<1>1. size \in Nat
  BY TableType
<1>2. q \in Buffers(f) /\ q.page_table = pt /\ q.total_size = size
  BY <1>1 DEF Buffers
<1> HIDE DEF q
<1>3. r \in Buffers(f) /\ r.page_table = pt /\ r.total_size = size /\ r.cur_page = 0
  BY <1>2 DEF Buffers
<1>4. r = ForgetPage(q)
  BY DEF ForgetPage
<1> HIDE DEF r
<1>5. Valid(r, f)
  BY <1>3 DEF Valid, Buffers
<1> QED
  BY <1>3, <1>4, <1>5 DEF q, Renewed

---------------------------------------------------------------------------
(* Insertion.                                                              *)

(* The bytes t with d inserted at offset.                                  *)
Inserted(t, offset, d) == Joined(Joined(Before(t, offset), d), From(t, offset))

(* What eb_insert1 does, as texts.                                         *)
LEMMA Insert1Texts ==
    ASSUME NEW f, NEW pt \in Tables(f), NEW n \in 0..Len(pt), NEW d \in Texts
    PROVE  LET r == eb_insert1(pt, n, d)
           IN  /\ r \in Tables(f) /\ n \in 0..Len(r)
               /\ First(r, n) = First(pt, n)
               /\ Flatten(Rest(r, n)) = Joined(d, Flatten(Rest(pt, n)))
<1>1. d \in Seq(Byte)
  BY DEF Texts
<1> QED
  BY <1>1, Insert1 DEF Joined

(* The table that eb_insert_lowlevel makes, when it inserts in page k.     *)
LEMMA InsertInPage ==
    ASSUME NEW f, NEW pt \in Tables(f), NEW k \in 1..Len(pt), NEW d \in Texts,
           NEW o \in 1..Len(pt[k].data)
    PROVE  LET D    == pt[k].data
               len  == Minimum(MaxPageSize - o, Len(d))
               left == Minimum(Len(D), MaxPageSize - len)
               pt1  == IF left < Len(D) THEN eb_insert1(pt, k, From(D, left))
                       ELSE pt
               pt2  == IF len = 0 THEN pt1
                       ELSE [pt1 EXCEPT ![k] = NewPage(
                               Before(D, o) \o Before(d, len)
                                 \o Part(D, o, left - o))]
               pt3  == IF len = Len(d) THEN pt2
                       ELSE eb_insert1(pt2, k, From(d, len))
           IN  /\ pt3 \in Tables(f)
               /\ Flatten(pt3) = Inserted(Flatten(pt), End(pt, k - 1) + o, d)
<1> DEFINE D    == pt[k].data
           len  == Minimum(MaxPageSize - o, Len(d))
           left == Minimum(Len(D), MaxPageSize - len)
           pt1  == IF left < Len(D) THEN eb_insert1(pt, k, From(D, left)) ELSE pt
           N    == Joined(Joined(Before(D, o), Before(d, len)), Part(D, o, left - o))
           pt2  == IF len = 0 THEN pt1 ELSE [pt1 EXCEPT ![k] = NewPage(N)]
           pt3  == IF len = Len(d) THEN pt2 ELSE eb_insert1(pt2, k, From(d, len))
           A    == Flatten(First(pt, k - 1))
           Z    == Flatten(Rest(pt, k))
<1>0. /\ Len(pt) \in Nat /\ k \in Nat /\ k \in 0..Len(pt) /\ MaxPageSize \in Nat
      /\ Len(D) \in 1..MaxPageSize /\ Len(d) \in Nat
  BY TableType, PageSizeAssumption, JoinedLen
<1>1. /\ A \in Texts /\ Z \in Texts /\ D \in Texts
      /\ Flatten(First(pt, k)) = Joined(A, D)
      /\ Flatten(pt) = Joined(Joined(A, D), Z)
      /\ Len(A) = End(pt, k - 1)
  BY FirstTexts
<1> HIDE DEF A, Z, D
<1>2. /\ o \in 1..Len(D) /\ o \in Nat /\ o \in 0..Len(D) /\ o <= MaxPageSize
  BY <1>0 DEF D
<1>3. /\ len \in 0..Len(d) /\ len + o <= MaxPageSize
      /\ len = Len(d) \/ len = MaxPageSize - o
  BY <1>0, <1>2 DEF Minimum
<1> HIDE DEF len
<1>4. /\ left \in Nat /\ left \in 0..Len(D) /\ o <= left /\ left <= Len(D)
      /\ left + len <= MaxPageSize
      /\ len = 0 => left = Len(D)
      /\ len = Len(d) \/ left = o
  BY <1>0, <1>2, <1>3 DEF Minimum
<1> HIDE DEF left
<1> DEFINE x == Before(D, o)
           d1 == Before(d, len)
           d2 == From(d, len)
           y1 == Part(D, o, left - o)
           y2 == From(D, left)
<1>5. /\ x \in Texts /\ Len(x) = o
      /\ d1 \in Texts /\ d2 \in Texts /\ Len(d1) = len /\ d = Joined(d1, d2)
      /\ y2 \in Texts
  BY <1>1, <1>2, <1>3, <1>4, TextParts
<1>6. /\ y1 \in Texts /\ Len(y1) = left - o /\ From(D, o) = Joined(y1, y2)
      /\ o = left => y1 = NoText
  BY <1>1, <1>2, <1>4, PartCut
<1>7. d2 = NoText \/ y1 = NoText
  <2>1. len = Len(d) => d2 = NoText
    BY <1>3, TextParts
  <2> QED
    BY <1>4, <1>6, <2>1
<1>8. /\ N \in Texts /\ Len(N) = left + len
      /\ N = x \o d1 \o y1
  <2>1. N = Joined(Joined(x, d1), y1)
    OBVIOUS
  <2> HIDE DEF x, d1, y1, N
  <2>2. Joined(x, d1) \in Texts /\ N \in Texts
    BY <1>5, <1>6, <2>1, JoinedType
  <2>3. Len(Joined(x, d1)) = o + len
    BY <1>5, JoinedLen
  <2>4. Len(N) = (o + len) + (left - o)
    <3>1. Len(Joined(Joined(x, d1), y1)) = Len(Joined(x, d1)) + Len(y1)
      BY <1>6, <2>2, JoinedLen
    <3> QED
      BY <1>6, <2>1, <2>3, <3>1
  <2>5. Len(N) = left + len
    BY <1>0, <1>2, <1>3, <1>4, <2>4
  <2>6. N = x \o d1 \o y1
    BY <2>1 DEF Joined
  <2> QED
    BY <2>2, <2>5, <2>6
<1>9. /\ pt1 \in Tables(f) /\ k \in 1..Len(pt1)
      /\ First(pt1, k) = First(pt, k)
      /\ Flatten(Rest(pt1, k)) = Joined(y2, Z)
  <2>1. CASE left < Len(D)
    <3>1. pt1 = eb_insert1(pt, k, y2)
      BY <2>1
    <3> HIDE DEF pt1, y2
    <3>2. /\ pt1 \in Tables(f) /\ k \in 0..Len(pt1)
          /\ First(pt1, k) = First(pt, k)
          /\ Flatten(Rest(pt1, k)) = Joined(y2, Flatten(Rest(pt, k)))
      BY <1>0, <1>5, <3>1, Insert1Texts
    <3>3. k \in 1..Len(pt1)
      BY <1>0, <3>2
    <3> QED
      BY <3>2, <3>3 DEF Z
  <2>2. CASE ~(left < Len(D))
    <3>1. left = Len(D) /\ pt1 = pt
      BY <1>0, <1>4, <2>2
    <3>2. y2 = NoText
      BY <1>1, <1>4, <3>1, TextParts
    <3>3. Joined(y2, Z) = Z
      BY <1>1, <3>2, JoinedEmpty
    <3> HIDE DEF pt1
    <3> QED
      BY <3>1, <3>3 DEF Z
  <2> QED
    BY <2>1, <2>2
<1> HIDE DEF pt1
<1>10. First(pt1, k - 1) = First(pt, k - 1) /\ pt1[k] = pt[k]
  <2>1. pt1 \in Seq(GoodPage(f)) /\ pt \in Seq(GoodPage(f)) /\ k <= Len(pt)
    BY <1>0, <1>9 DEF Tables
  <2> QED
    BY <1>9, <2>1, SameFirst
<1>11. /\ pt2 \in Tables(f) /\ k \in 1..Len(pt2)
       /\ Flatten(First(pt2, k)) = Joined(A, N)
       /\ Flatten(Rest(pt2, k)) = Joined(y2, Z)
  <2>1. CASE len = 0
    <3>1. pt2 = pt1
      BY <2>1
    <3>2. N = D
      <4>1. left = Len(D) /\ d1 = NoText /\ y2 = NoText
        <5>1. left = Len(D)
          BY <1>4, <2>1
        <5>2. d1 = NoText
          BY <1>3, <2>1, TextParts
        <5>3. y2 = NoText
          BY <1>1, <1>4, <5>1, TextParts
        <5> QED
          BY <5>1, <5>2, <5>3
      <4>2. From(D, o) = y1
        BY <1>6, <4>1, JoinedEmpty
      <4>3. D = Joined(x, From(D, o))
        BY <1>1, <1>2, TextParts
      <4>4. N = Joined(Joined(x, d1), y1)
        OBVIOUS
      <4> HIDE DEF x, d1, y1, N, y2
      <4> QED
        BY <1>5, <4>1, <4>2, <4>3, <4>4, JoinedEmpty
    <3> HIDE DEF N
    <3> QED
      BY <1>1, <1>9, <3>1, <3>2
  <2>2. CASE len # 0
    <3> DEFINE pg == NewPage(N)
               q  == [pt1 EXCEPT ![k] = pg]
    <3>1. pt2 = q
      BY <2>2
    <3> HIDE DEF N, x, d1, d2, y1, y2, pt2
    <3>2. Len(N) \in 1..MaxPageSize /\ N \in Seq(Byte)
      BY <1>0, <1>3, <1>4, <1>8, <2>2 DEF Texts
    <3>3. pg \in GoodPage(f) /\ pg.data = N
      BY <3>2, NewPageGood
    <3> HIDE DEF pg
    <3>4. /\ q \in Tables(f) /\ Len(q) = Len(pt1) /\ q[k] = pg
          /\ First(q, k - 1) = First(pt1, k - 1) /\ Rest(q, k) = Rest(pt1, k)
      BY <1>9, <3>3, Replaced DEF Tables
    <3> HIDE DEF q
    <3>5. k \in 1..Len(q)
      BY <1>9, <3>4
    <3>6. Flatten(First(q, k)) = Joined(Flatten(First(q, k - 1)), q[k].data)
      BY <3>4, <3>5, FirstTexts
    <3>7. Flatten(First(q, k)) = Joined(A, N)
      BY <1>10, <3>3, <3>4, <3>6 DEF A
    <3> QED
      BY <1>9, <3>1, <3>4, <3>5, <3>7
  <2> QED
    BY <2>1, <2>2
<1> HIDE DEF pt2
<1>12. /\ pt3 \in Tables(f) /\ k \in 0..Len(pt3)
       /\ Flatten(First(pt3, k)) = Joined(A, N)
       /\ Flatten(Rest(pt3, k)) = Joined(d2, Joined(y2, Z))
  <2>0. k \in 0..Len(pt2)
    BY <1>0, <1>11
  <2>1. CASE len = Len(d)
    <3>1. d2 = NoText /\ pt3 = pt2
      BY <1>3, <2>1, TextParts
    <3>2. Joined(y2, Z) \in Texts
      BY <1>1, <1>5, JoinedType
    <3>3. Joined(d2, Joined(y2, Z)) = Joined(y2, Z)
      BY <3>1, <3>2, JoinedEmpty
    <3> HIDE DEF pt3, N
    <3> QED
      BY <1>11, <2>0, <3>1, <3>3
  <2>2. CASE len # Len(d)
    <3>1. pt3 = eb_insert1(pt2, k, d2)
      BY <2>2
    <3> HIDE DEF pt3, d2, N, y2
    <3>2. /\ pt3 \in Tables(f) /\ k \in 0..Len(pt3)
          /\ First(pt3, k) = First(pt2, k)
          /\ Flatten(Rest(pt3, k)) = Joined(d2, Flatten(Rest(pt2, k)))
      BY <1>5, <1>11, <2>0, <3>1, Insert1Texts
    <3> QED
      BY <1>11, <3>2
  <2> QED
    BY <2>1, <2>2
<1> HIDE DEF pt3
<1>13. Flatten(pt3) = Joined(Joined(A, N), Joined(d2, Joined(y2, Z)))
  <2> HIDE DEF N, d2, y2
  <2> QED
    BY <1>12, TableTexts
<1>14. Inserted(Flatten(pt), Len(A) + o, d)
         = Joined(Joined(Joined(A, x), d), Joined(From(D, o), Z))
  <2>1. /\ Before(Joined(Joined(A, D), Z), Len(A) + o) = Joined(A, Before(D, o))
        /\ From(Joined(Joined(A, D), Z), Len(A) + o) = Joined(From(D, o), Z)
    BY ZenonT(60), <1>1, <1>2, CutMiddle
  <2> QED
    BY <1>1, <2>1 DEF Inserted
<1>15. Flatten(pt3) = Inserted(Flatten(pt), Len(A) + o, d)
  <2>1. N = Joined(Joined(x, d1), y1)
    OBVIOUS
  <2> HIDE DEF N, x, d1, d2, y1, y2
  <2>2. Joined(Joined(A, Joined(Joined(x, d1), y1)), Joined(d2, Joined(y2, Z)))
          = Joined(Joined(Joined(A, x), Joined(d1, d2)), Joined(Joined(y1, y2), Z))
    <3>1. /\ A \in Texts /\ Z \in Texts /\ x \in Texts /\ d1 \in Texts
          /\ d2 \in Texts /\ y1 \in Texts /\ y2 \in Texts
      BY <1>1, <1>5, <1>6
    <3>2. Rearranged(A, x, d1, y1, d2, y2, Z)
      BY <1>7, <3>1, InsertAlgebra
    <3> QED
      BY <3>2 DEF Rearranged
  <2> QED
    BY <1>5, <1>6, <1>13, <1>14, <2>1, <2>2
<1>16. /\ pt3 \in Tables(f)
       /\ Flatten(pt3) = Inserted(Flatten(pt), End(pt, k - 1) + o, d)
  BY <1>1, <1>12, <1>15
<1>17. N = Before(D, o) \o Before(d, len) \o Part(D, o, left - o)
  BY DEF Joined
<1> HIDE DEF N
<1> QED
  BY <1>16, <1>17 DEF pt3, pt2, pt1, left, len, D

LEMMA InsertedType ==
    ASSUME NEW t \in Texts, NEW d \in Texts, NEW offset \in 0..Len(t)
    PROVE  /\ Inserted(t, offset, d) \in Texts
           /\ Len(Inserted(t, offset, d)) = Len(t) + Len(d)
<1> DEFINE x == Before(t, offset)
           y == From(t, offset)
           xd == Joined(x, d)
<1>1. x \in Texts /\ y \in Texts /\ Len(x) = offset /\ Len(y) = Len(t) - offset
  BY TextParts
<1> HIDE DEF x, y
<1>2. xd \in Texts /\ Len(xd) = offset + Len(d) /\ Len(d) \in Nat /\ Len(t) \in Nat
  BY <1>1, JoinedType, JoinedLen
<1> HIDE DEF xd
<1>3. Joined(xd, y) \in Texts /\ Len(Joined(xd, y)) = Len(xd) + Len(y)
  BY <1>1, <1>2, JoinedType, JoinedLen
<1>4. Len(Joined(xd, y)) = Len(t) + Len(d)
  BY <1>1, <1>2, <1>3
<1> QED
  BY <1>3, <1>4 DEF Inserted, xd, x, y

LEMMA ValidParts ==
    ASSUME NEW f, NEW e, Valid(e, f)
    PROVE  /\ e \in Buffers(f) /\ e.page_table \in Tables(f)
           /\ e.total_size = Len(Flatten(e.page_table)) /\ e.total_size \in Nat
           /\ Flatten(e.page_table) \in Texts
<1>1. /\ e \in Buffers(f) /\ e.page_table \in Tables(f)
      /\ e.total_size = Len(Flatten(e.page_table)) /\ e.total_size \in Nat
  BY DEF Valid, Buffers
<1> QED
  BY <1>1, TableType DEF Texts

(* The fresh buffer that eb_insert_lowlevel yields.                        *)
IsFresh(r, f, q, size) ==
    \E g \in Buffers(f) :
      r = ForgetPage(Renewed(g, q, size))

LEMMA FreshIsValid ==
    ASSUME NEW f, NEW q \in Tables(f), NEW r, NEW size, size = Len(Flatten(q)),
           IsFresh(r, f, q, size)
    PROVE  Valid(r, f) /\ r.page_table = q /\ r.total_size = size
<1>1. PICK g \in Buffers(f) : r = ForgetPage(Renewed(g, q, size))
  BY DEF IsFresh
<1> DEFINE v == ForgetPage(Renewed(g, q, size))
<1>2. Valid(v, f) /\ v.page_table = q /\ v.total_size = size
  BY FreshBuffer
<1>3. r = v
  BY <1>1
<1> HIDE DEF v
<1> QED
  BY <1>2, <1>3

(* Insertion at the start of the buffer.                                   *)
LEMMA InsertFirst ==
    ASSUME NEW f, NEW pt \in Tables(f), NEW d \in Texts
    PROVE  LET q == IF 0 = Len(d) THEN pt ELSE eb_insert1(pt, 0, From(d, 0))
           IN  q \in Tables(f) /\ Flatten(q) = Inserted(Flatten(pt), 0, d)
<1> DEFINE q == IF 0 = Len(d) THEN pt ELSE eb_insert1(pt, 0, From(d, 0))
           t == Flatten(pt)
<1>0. t \in Texts /\ Len(pt) \in Nat /\ pt \in Seq(GoodPage(f))
  BY TableType DEF Texts, Tables
<1>1. /\ 0 \in 0..Len(pt) /\ 0 \in 0..Len(t) /\ 0 \in 0..Len(d) /\ Len(d) \in Nat
  BY <1>0, JoinedLen
<1>2. From(d, 0) = d
  BY <1>1, TextParts
<1>3. Flatten(First(pt, 0)) = NoText /\ Flatten(Rest(pt, 0)) = t
  <2>1. First(pt, 0) = << >> /\ Rest(pt, 0) = pt
    BY <1>0 DEF First, Rest
  <2> QED
    BY <2>1, FlattenEmpty DEF NoText
<1> HIDE DEF t
<1>4. Inserted(t, 0, d) = Joined(d, t)
  <2>1. Before(t, 0) = NoText /\ From(t, 0) = t
    BY <1>0, <1>1, TextParts
  <2> QED
    BY <1>0, <2>1, JoinedEmpty DEF Inserted
<1>5. q \in Tables(f) /\ Flatten(q) = Joined(d, t)
  <2>1. CASE 0 = Len(d)
    <3>1. d = NoText
      BY <2>1 DEF Texts, NoText
    <3>2. q = pt
      BY <2>1
    <3> HIDE DEF q
    <3>3. Joined(d, t) = t
      BY <1>0, <3>1, JoinedEmpty
    <3> QED
      BY <3>2, <3>3 DEF t
  <2>2. CASE 0 # Len(d)
    <3>1. q = eb_insert1(pt, 0, d)
      BY <1>2, <2>2
    <3> HIDE DEF q
    <3>2. /\ q \in Tables(f) /\ 0 \in 0..Len(q)
          /\ First(q, 0) = First(pt, 0)
          /\ Flatten(Rest(q, 0)) = Joined(d, Flatten(Rest(pt, 0)))
      BY <1>1, <3>1, Insert1Texts
    <3>3. Flatten(q) = Joined(Flatten(First(q, 0)), Flatten(Rest(q, 0)))
      BY <3>2, TableTexts
    <3>4. Joined(d, t) \in Texts
      BY <1>0, JoinedType
    <3>5. Flatten(q) = Joined(NoText, Joined(d, t))
      BY <1>3, <3>2, <3>3
    <3> QED
      BY <3>2, <3>4, <3>5, JoinedEmpty
  <2> QED
    BY <2>1, <2>2
<1> HIDE DEF q
<1>6. q \in Tables(f) /\ Flatten(q) = Inserted(Flatten(pt), 0, d)
  BY <1>4, <1>5 DEF t
<1> QED
  BY <1>6 DEF q

(* eb_insert_lowlevel inserts d, and leaves a table find_page may trust.   *)
LEMMA InsertLow ==
    ASSUME NEW f, NEW e, Valid(e, f), NEW offset \in 0..e.total_size, NEW d \in Texts
    PROVE  LET r == eb_insert_lowlevel(e, offset, d)
           IN  /\ Valid(r, f) /\ r.total_size = e.total_size + Len(d)
               /\ Flatten(r.page_table)
                    = Inserted(Flatten(e.page_table), offset, d)
<1> DEFINE pt == e.page_table
           t  == Flatten(pt)
           r  == eb_insert_lowlevel(e, offset, d)
           size == e.total_size + Len(d)
<1>0. /\ e \in Buffers(f) /\ pt \in Tables(f) /\ t \in Texts
      /\ e.total_size = Len(t) /\ e.total_size \in Nat
      /\ offset \in Nat /\ offset <= e.total_size
  BY ValidParts
<1>1. \E q \in Tables(f) : Flatten(q) = Inserted(t, offset, d) /\ IsFresh(r, f, q, size)
  <2>1. CASE offset = 0
    <3> DEFINE q == IF 0 = Len(d) THEN pt ELSE eb_insert1(pt, 0, From(d, 0))
    <3>1. r = ForgetPage([e EXCEPT !.page_table = q, !.total_size = size])
      BY <2>1 DEF eb_insert_lowlevel
    <3>2. q \in Tables(f) /\ Flatten(q) = Inserted(t, 0, d)
      BY <1>0, InsertFirst
    <3> HIDE DEF q, r, size, t
    <3>3. IsFresh(r, f, q, size)
      BY <1>0, <3>1 DEF IsFresh, Renewed
    <3> QED
      BY <2>1, <3>2, <3>3
  <2>2. CASE offset # 0
    <3> DEFINE g    == find_page(e, offset - 1)
               k    == g.cur_page
               o    == offset - g.cur_offset
               D    == pt[k].data
               len  == Minimum(MaxPageSize - o, Len(d))
               left == Minimum(Len(D), MaxPageSize - len)
               pt1  == IF left < Len(D) THEN eb_insert1(pt, k, From(D, left))
                       ELSE pt
               pt2  == IF len = 0 THEN pt1
                       ELSE [pt1 EXCEPT ![k] = NewPage(
                               Before(D, o) \o Before(d, len)
                                 \o Part(D, o, left - o))]
               pt3  == IF len = Len(d) THEN pt2
                       ELSE eb_insert1(pt2, k, From(d, len))
    <3>0. offset - 1 \in Nat /\ offset - 1 < e.total_size /\ offset > 0
      BY <1>0, <2>2
    <3>1. /\ Valid(g, f) /\ g.page_table = pt
          /\ k \in 1..Len(pt) /\ g.cur_offset = End(pt, k - 1)
          /\ g.cur_offset <= offset - 1
          /\ offset - 1 < g.cur_offset + Len(D)
      BY <3>0, FindPage
    <3>2. r = ForgetPage([g EXCEPT !.page_table = pt3, !.total_size = size])
      BY ZenonT(60), <3>0, <3>1 DEF eb_insert_lowlevel, update_page
    <3>3. g \in Buffers(f)
      BY <3>1, ValidParts
    <3>4. /\ o \in 1..Len(D) /\ End(pt, k - 1) + o = offset
      <4>1. g.cur_offset \in Nat
        <5> HIDE DEF g
        <5> QED
          BY <3>3 DEF Buffers
      <4>2. Len(D) \in Nat
        <5> HIDE DEF g, k, pt
        <5>1. Len(D) \in 1..MaxPageSize
          BY <1>0, <3>1, TableType
        <5> QED
          BY <5>1
      <4> HIDE DEF D, k, g, pt
      <4> QED
        BY <1>0, <3>0, <3>1, <4>1, <4>2
    <3>5. /\ pt3 \in Tables(f)
          /\ Flatten(pt3) = Inserted(Flatten(pt), End(pt, k - 1) + o, d)
      <4> HIDE DEF g, k, o, pt
      <4> QED
        BY SMTT(30), <1>0, <3>1, <3>4, InsertInPage
    <3> HIDE DEF pt3, o, r, g, k, size
    <3>6. IsFresh(r, f, pt3, size)
      BY <3>2, <3>3 DEF IsFresh, Renewed
    <3> QED
      BY <3>4, <3>5, <3>6
  <2> QED
    BY <2>1, <2>2
<1> HIDE DEF r
<1>2. PICK q \in Tables(f) :
        Flatten(q) = Inserted(t, offset, d) /\ IsFresh(r, f, q, size)
  BY <1>1
<1>3. size = Len(Flatten(q))
  <2> HIDE DEF t
  <2> QED
    BY <1>0, <1>2, InsertedType
<1> HIDE DEF size
<1>4. Valid(r, f) /\ r.page_table = q /\ r.total_size = size
  BY <1>2, <1>3, FreshIsValid
<1> QED
  BY <1>2, <1>4 DEF r, size

---------------------------------------------------------------------------
(* Bytes one by one.                                                       *)

(* Where the bytes of page i are.                                          *)
LEMMA FlattenAt ==
    ASSUME NEW pt \in Seq(AnyPage), NEW i \in 1..Len(pt), NEW j \in 1..Len(pt[i].data)
    PROVE  /\ End(pt, i - 1) + j \in 1..Len(Flatten(pt))
           /\ End(pt, i - 1) + j <= End(pt, i)
           /\ Flatten(pt)[End(pt, i - 1) + j] = pt[i].data[j]
<1> DEFINE a == Flatten(First(pt, i - 1))
           c == pt[i].data
           ac == Flatten(First(pt, i))
           z == Flatten(Rest(pt, i))
           t == Flatten(pt)
<1>1. /\ a \in Seq(Byte) /\ ac \in Seq(Byte) /\ z \in Seq(Byte)
      /\ ac = a \o c /\ t = ac \o z
  BY EndStep
<1>2. c \in Seq(Byte) /\ Len(a) = End(pt, i - 1) /\ Len(ac) = End(pt, i)
  BY PageType DEF End
<1>3. j \in 1..Len(c)
  OBVIOUS
<1> HIDE DEF a, c, ac, z, t
<1>4. Len(ac) = Len(a) + Len(c) /\ ac[Len(a) + j] = c[j]
  <2>1. a \in Seq(Byte) /\ c \in Seq(Byte)
    BY <1>1, <1>2
  <2>2. /\ Len(a \o c) = Len(a) + Len(c)
        /\ \A i1 \in 1..Len(c) : (a \o c)[Len(a) + i1] = c[i1]
    BY <2>1, Cat
  <2> QED
    BY <1>1, <1>3, <2>2
<1>5. /\ Len(t) = Len(ac) + Len(z)
      /\ \A m \in 1..Len(ac) : t[m] = ac[m]
  BY <1>1, Cat
<1>6. Len(a) \in Nat /\ Len(c) \in Nat /\ Len(z) \in Nat
  BY <1>1, <1>2
<1>7. Len(a) + j \in 1..Len(ac) /\ Len(a) + j \in 1..Len(t)
  BY <1>3, <1>4, <1>5, <1>6
<1>8. t[Len(a) + j] = c[j]
  BY <1>4, <1>5, <1>7
<1>9. Len(a) + j <= Len(ac)
  BY <1>3, <1>4, <1>6
<1> QED
  BY <1>2, <1>7, <1>8, <1>9 DEF t, c

(* A text that has each page's bytes where the page has them.              *)
LEMMA FlattenEqual ==
    ASSUME NEW pt \in Seq(AnyPage), NEW t \in Seq(Byte), Len(t) = Len(Flatten(pt)),
           \A i \in 1..Len(pt) : \A j \in 1..Len(pt[i].data) :
             t[End(pt, i - 1) + j] = pt[i].data[j]
    PROVE  Flatten(pt) = t
<1> DEFINE u == Flatten(pt)
<1>1. u \in Seq(Byte) /\ Len(u) \in Nat
  BY FlattenType
<1>2. ASSUME NEW x \in 1..Len(u) PROVE u[x] = t[x]
  <2>1. x - 1 \in Nat /\ x - 1 < Len(u) /\ x \in Nat
    BY <1>1
  <2>2. PICK k \in 1..Len(pt) : End(pt, k - 1) <= x - 1 /\ x - 1 < End(pt, k)
    BY <2>1, PageAt
  <2> HIDE DEF u
  <2> DEFINE o == x - End(pt, k - 1)
             c == pt[k].data
  <2>3. /\ End(pt, k - 1) \in Nat /\ End(pt, k) = End(pt, k - 1) + Len(c)
        /\ Len(c) \in Nat
    BY EndNext
  <2>4. o \in 1..Len(c) /\ End(pt, k - 1) + o = x
    <3> HIDE DEF c
    <3> QED
      BY <2>1, <2>2, <2>3
  <2> HIDE DEF o
  <2>5. u[End(pt, k - 1) + o] = pt[k].data[o]
    BY <2>4, FlattenAt DEF u
  <2>6. t[End(pt, k - 1) + o] = pt[k].data[o]
    BY <2>4
  <2> QED
    BY <2>4, <2>5, <2>6
<1>3. Len(u) = Len(t)
  OBVIOUS
<1> HIDE DEF u
<1>4. u = t
  BY <1>1, <1>2, <1>3, SeqEqual
<1> QED
  BY <1>4 DEF u

(* Pages that have the same sizes.                                         *)
SameSizes(pt, q) ==
    /\ Len(q) = Len(pt)
    /\ \A i \in 1..Len(pt) : Len(q[i].data) = Len(pt[i].data)

LEMMA SameEnds ==
    ASSUME NEW pt \in Seq(AnyPage), NEW q \in Seq(AnyPage), SameSizes(pt, q)
    PROVE  \A i \in 0..Len(pt) : End(q, i) = End(pt, i)
<1> DEFINE T == {i \in 0..Len(pt) : End(q, i) = End(pt, i)}
<1>0. Len(pt) \in Nat /\ Len(q) = Len(pt)
  BY PageType DEF SameSizes
<1>1. 0 \in T
  BY <1>0, EndBounds
<1>2. ASSUME NEW n \in 0..(Len(pt) - 1), n \in T PROVE n + 1 \in T
  <2>1. n + 1 \in 1..Len(pt) /\ n + 1 \in 1..Len(q) /\ (n + 1) - 1 = n
        /\ n + 1 \in 0..Len(pt)
    BY <1>0
  <2>2. End(pt, n + 1) = End(pt, n) + Len(pt[n + 1].data)
    BY <2>1, EndStep
  <2>3. End(q, n + 1) = End(q, n) + Len(q[n + 1].data)
    BY <2>1, EndStep
  <2>4. Len(q[n + 1].data) = Len(pt[n + 1].data)
    BY <2>1 DEF SameSizes
  <2> QED
    BY <1>2, <2>1, <2>2, <2>3, <2>4
<1>3. ASSUME NEW i \in 0..Len(pt) PROVE i \in T
  <2>1. i \in Nat /\ \A n \in 0..(i - 1) : n \in T => n + 1 \in T
    BY <1>0, <1>2
  <2> HIDE DEF T
  <2> QED
    BY <1>1, <2>1, UpTo
<1> QED
  BY <1>3

(* Pages that have the same bytes.                                         *)
LEMMA SameText ==
    ASSUME NEW pt \in Seq(AnyPage), NEW q \in Seq(AnyPage), Len(q) = Len(pt),
           \A i \in 1..Len(pt) : q[i].data = pt[i].data
    PROVE  /\ Flatten(q) = Flatten(pt)
           /\ \A i \in 0..Len(pt) : End(q, i) = End(pt, i)
<1>0. Len(pt) \in Nat /\ \A i \in 1..Len(pt) : i - 1 \in 0..Len(pt)
  BY PageType
<1>1. \A i \in 0..Len(pt) : End(q, i) = End(pt, i)
  BY SameEnds DEF SameSizes
<1> DEFINE t == Flatten(pt)
<1>2. t \in Seq(Byte) /\ Len(t) = Len(Flatten(q))
  <2>1. Len(pt) \in 0..Len(pt)
    BY <1>0
  <2> QED
    BY <1>1, <2>1, EndBounds, FlattenType
<1>3. ASSUME NEW i \in 1..Len(q), NEW j \in 1..Len(q[i].data)
      PROVE  t[End(q, i - 1) + j] = q[i].data[j]
  <2>1. i \in 1..Len(pt) /\ q[i].data = pt[i].data /\ End(q, i - 1) = End(pt, i - 1)
    BY <1>0, <1>1
  <2>2. j \in 1..Len(pt[i].data)
    BY <2>1
  <2>3. t[End(pt, i - 1) + j] = pt[i].data[j]
    BY <2>1, <2>2, FlattenAt
  <2> QED
    BY <2>1, <2>3
<1> HIDE DEF t
<1>4. Flatten(q) = t
  BY <1>2, <1>3, FlattenEqual
<1> QED
  BY <1>1, <1>4 DEF t

---------------------------------------------------------------------------
(* Writing.                                                                *)

(* The bytes t with d written over those at offset.                        *)
Overwritten(t, offset, d) ==
    Joined(Joined(Before(t, offset), d), From(t, offset + Len(d)))

LEMMA OverwrittenAt ==
    ASSUME NEW t \in Texts, NEW d \in Texts, NEW offset \in Nat,
           offset + Len(d) <= Len(t)
    PROVE  LET w == Overwritten(t, offset, d)
           IN  /\ w \in Seq(Byte) /\ Len(w) = Len(t)
               /\ \A x \in 1..Len(t) :
                    w[x] = IF offset < x /\ x <= offset + Len(d)
                           THEN d[x - offset] ELSE t[x]
<1> DEFINE end == offset + Len(d)
           a == Before(t, offset)
           c == From(t, end)
           ad == a \o d
           w == ad \o c
<1>0. t \in Seq(Byte) /\ d \in Seq(Byte) /\ Len(t) \in Nat /\ Len(d) \in Nat /\ end \in Nat
      /\ offset <= Len(t)
  BY DEF Texts
<1>1. /\ a \in Seq(Byte) /\ Len(a) = offset /\ \A x \in 1..offset : a[x] = t[x]
  BY <1>0 DEF Before
<1>2. /\ c \in Seq(Byte) /\ Len(c) = Len(t) - end
      /\ \A x \in 1..(Len(t) - end) : c[x] = t[end + x]
  <2> HIDE DEF end
  <2> QED
    BY <1>0 DEF From, end
<1> HIDE DEF a, c
<1>3. /\ ad \in Seq(Byte) /\ Len(ad) = end
      /\ \A x \in 1..offset : ad[x] = a[x]
      /\ \A x \in 1..Len(d) : ad[offset + x] = d[x]
  <2>1. a \in Seq(Byte) /\ d \in Seq(Byte)
    BY <1>0, <1>1
  <2>2. /\ ad \in Seq(Byte) /\ Len(ad) = Len(a) + Len(d)
        /\ \A x \in 1..Len(a) : ad[x] = a[x]
        /\ \A x \in 1..Len(d) : ad[Len(a) + x] = d[x]
    BY <2>1, Cat
  <2> HIDE DEF ad
  <2> QED
    BY <1>1, <2>2
<1> HIDE DEF ad
<1>4. /\ w \in Seq(Byte) /\ Len(w) = Len(ad) + Len(c)
      /\ \A x \in 1..Len(ad) : w[x] = ad[x]
      /\ \A x \in 1..Len(c) : w[Len(ad) + x] = c[x]
  <2>1. ad \in Seq(Byte) /\ c \in Seq(Byte)
    BY <1>2, <1>3
  <2> QED
    BY <2>1, Cat
<1> HIDE DEF w
<1>5. Len(w) = Len(t)
  BY <1>0, <1>2, <1>3, <1>4
<1>6. ASSUME NEW x \in 1..Len(t)
      PROVE  w[x] = IF offset < x /\ x <= end THEN d[x - offset] ELSE t[x]
  <2>1. CASE x <= offset
    <3>1. x \in 1..Len(ad) /\ x \in 1..offset /\ ~(offset < x)
      BY <1>0, <1>3, <2>1
    <3> QED
      BY <1>1, <1>3, <1>4, <3>1
  <2>2. CASE offset < x /\ x <= end
    <3>1. x \in 1..Len(ad) /\ x - offset \in 1..Len(d) /\ offset + (x - offset) = x
      BY <1>0, <1>3, <2>2
    <3>2. ad[offset + (x - offset)] = d[x - offset]
      BY <1>3, <3>1
    <3> QED
      BY <1>4, <2>2, <3>1, <3>2
  <2>3. CASE end < x
    <3>1. x - end \in 1..Len(c) /\ end + (x - end) = x /\ ~(x <= end)
          /\ x - end \in 1..(Len(t) - end)
      BY <1>0, <1>2, <2>3
    <3>2. w[end + (x - end)] = c[x - end] /\ c[x - end] = t[end + (x - end)]
      BY <1>2, <1>3, <1>4, <3>1
    <3> QED
      BY <3>1, <3>2
  <2> QED
    BY <1>0, <2>1, <2>2, <2>3
<1>7. w = Overwritten(t, offset, d)
  BY DEF w, ad, a, c, Overwritten, Joined
<1>8. /\ w \in Seq(Byte) /\ Len(w) = Len(t)
      /\ \A x \in 1..Len(t) :
           w[x] = IF offset < x /\ x <= offset + Len(d) THEN d[x - offset] ELSE t[x]
  BY <1>4, <1>5, <1>6
<1> QED
  BY <1>7, <1>8

(* The starts that eb_rw and eb_delete add up from the page found on.      *)
LEMMA FoundStarts ==
    ASSUME NEW pt \in Seq(AnyPage), NEW k \in 1..Len(pt), NEW i \in k..Len(pt)
    PROVE  LET start == Starts(pt, k, End(pt, k - 1))
           IN  start[i] = End(pt, i - 1) /\ start[i + 1] = End(pt, i)
<1> DEFINE o == End(pt, k - 1)
           start == Starts(pt, k, o)
<1>0. Len(pt) \in Nat /\ k - 1 \in 0..Len(pt) /\ i - 1 \in 0..Len(pt) /\ i \in 0..Len(pt)
  BY PageType
<1>1. o \in Nat /\ End(pt, i - 1) \in Nat /\ End(pt, i) \in Nat
  BY <1>0, EndBounds
<1>2. k \in 1..(Len(pt) + 1) /\ i \in k..(Len(pt) + 1) /\ i + 1 \in k..(Len(pt) + 1)
      /\ (i + 1) - 1 = i
  BY <1>0
<1>3. \A j \in k..(Len(pt) + 1) : start[j] = o + (End(pt, j - 1) - End(pt, k - 1))
  BY <1>1, <1>2, StartsAre
<1> HIDE DEF start
<1>4. /\ start[i] = o + (End(pt, i - 1) - o)
      /\ start[i + 1] = o + (End(pt, (i + 1) - 1) - o)
  BY <1>2, <1>3
<1> HIDE DEF o
<1>5. start[i] = End(pt, i - 1) /\ start[i + 1] = End(pt, i)
  BY <1>1, <1>2, <1>4
<1> QED
  BY <1>5 DEF start, o

(* The table that eb_rw makes, from page k on.                             *)
RWTable(pt, k, offset, d) ==
    LET start == Starts(pt, k, End(pt, k - 1))
        end   == offset + Len(d)
        Touched(i) == /\ i >= k
                      /\ start[i] < end /\ offset < start[i + 1]
        Written(i) ==
            [j \in 1..Len(pt[i].data) |->
               IF offset < start[i] + j /\ start[i] + j <= end
               THEN d[start[i] + j - offset] ELSE pt[i].data[j]]
    IN  [i \in 1..Len(pt) |-> IF Touched(i) THEN NewPage(Written(i)) ELSE pt[i]]

LEMMA WrittenTable ==
    ASSUME NEW f, NEW pt \in Tables(f), NEW k \in 1..Len(pt), NEW d \in Texts,
           NEW offset \in Nat, End(pt, k - 1) <= offset,
           offset + Len(d) <= Len(Flatten(pt))
    PROVE  LET q == RWTable(pt, k, offset, d)
           IN  /\ q \in Tables(f) /\ SameSizes(pt, q)
               /\ Flatten(q) = Overwritten(Flatten(pt), offset, d)
<1> DEFINE start == Starts(pt, k, End(pt, k - 1))
           end   == offset + Len(d)
           Touched(i) == /\ i >= k
                         /\ start[i] < end /\ offset < start[i + 1]
           Written(i) ==
              [j \in 1..Len(pt[i].data) |->
                 IF offset < start[i] + j /\ start[i] + j <= end
                 THEN d[start[i] + j - offset] ELSE pt[i].data[j]]
           q == [i \in 1..Len(pt) |-> IF Touched(i) THEN NewPage(Written(i))
                                      ELSE pt[i]]
           s(i) == End(pt, i - 1)
           t == Flatten(pt)
           w == Overwritten(t, offset, d)
<1>0. /\ pt \in Seq(AnyPage) /\ Len(pt) \in Nat /\ t \in Texts /\ d \in Seq(Byte)
      /\ Len(t) \in Nat /\ Len(d) \in Nat /\ end \in Nat
  BY TableType DEF Texts
<1>1. ASSUME NEW i \in 1..Len(pt)
      PROVE  /\ pt[i] \in GoodPage(f) /\ pt[i].data \in Seq(Byte)
             /\ Len(pt[i].data) \in 1..MaxPageSize
             /\ s(i) \in Nat /\ End(pt, i) = s(i) + Len(pt[i].data)
  BY <1>0, EndNext, TableType
<1>2. ASSUME NEW i \in 1..Len(pt), i >= k
      PROVE  start[i] = s(i) /\ start[i + 1] = End(pt, i)
  <2>1. i \in k..Len(pt)
    BY <1>2
  <2> QED
    BY <1>0, <2>1, FoundStarts
<1> HIDE DEF start, t, w
<1>3. ASSUME NEW i \in 1..Len(pt)
      PROVE  /\ q[i] \in GoodPage(f) /\ Len(q[i].data) = Len(pt[i].data)
             /\ \A j \in 1..Len(pt[i].data) :
                  q[i].data[j] = IF offset < s(i) + j /\ s(i) + j <= end
                                 THEN d[s(i) + j - offset] ELSE pt[i].data[j]
  <2> DEFINE D == pt[i].data
             S == s(i)
             W == [j \in 1..Len(D) |-> IF offset < S + j /\ S + j <= end
                                       THEN d[S + j - offset] ELSE D[j]]
  <2>0. /\ pt[i] \in GoodPage(f) /\ D \in Seq(Byte) /\ Len(D) \in 1..MaxPageSize
        /\ S \in Nat /\ End(pt, i) = S + Len(D) /\ Len(D) \in Nat
    BY <1>1
  <2>1. CASE Touched(i)
    <3>1. start[i] = S
      BY <1>2, <2>1
    <3>2. q[i] = NewPage(W)
      <4>1. Written(i) = W
        BY <3>1
      <4>2. q[i] = NewPage(Written(i))
        BY <2>1
      <4> HIDE DEF q, Written, W
      <4> QED
        BY <4>1, <4>2
    <3> HIDE DEF D, S, q
    <3>3. ASSUME NEW j \in 1..Len(D) PROVE W[j] \in Byte
      <4>1. W[j] = IF offset < S + j /\ S + j <= end
                   THEN d[S + j - offset] ELSE D[j]
        OBVIOUS
      <4> HIDE DEF W
      <4>2. offset < S + j /\ S + j <= end => S + j - offset \in 1..Len(d)
        BY <1>0, <2>0
      <4>3. D[j] \in Byte
        BY <2>0
      <4>4. \A x \in 1..Len(d) : d[x] \in Byte
        BY <1>0
      <4> QED
        BY <4>1, <4>2, <4>3, <4>4
    <3>4. W \in Seq(Byte) /\ Len(W) = Len(D)
      <4>1. W \in [1..Len(D) -> Byte]
        BY <3>3
      <4> HIDE DEF W
      <4> QED
        BY <2>0, <4>1
    <3>5. \A j \in 1..Len(D) : W[j] = IF offset < S + j /\ S + j <= end
                                      THEN d[S + j - offset] ELSE D[j]
      OBVIOUS
    <3> HIDE DEF W
    <3>6. q[i] \in GoodPage(f) /\ q[i].data = W
      BY <2>0, <3>2, <3>4, NewPageGood
    <3>7. /\ q[i] \in GoodPage(f) /\ Len(q[i].data) = Len(D)
          /\ \A j \in 1..Len(D) :
               q[i].data[j] = IF offset < S + j /\ S + j <= end
                              THEN d[S + j - offset] ELSE D[j]
      BY <3>4, <3>5, <3>6
    <3> QED
      BY <3>7 DEF D, S
  <2>2. CASE ~Touched(i)
    <3>1. q[i] = pt[i]
      BY <2>2
    <3>2. S + Len(D) <= offset \/ end <= S
      <4>1. CASE i < k
        <5>1. End(pt, i) <= End(pt, k - 1)
          <6>1. i \in 0..Len(pt) /\ k - 1 \in i..Len(pt)
            BY <1>0, <4>1
          <6> QED
            BY <1>0, <6>1, EndMonotone
        <5>2. End(pt, k - 1) \in Nat /\ End(pt, i) \in Nat
          BY <1>0, EndNext
        <5> HIDE DEF S, D
        <5> QED
          BY <2>0, <5>1, <5>2
      <4>2. CASE i >= k
        <5>1. start[i] = S /\ start[i + 1] = S + Len(D)
          BY <1>2, <2>0, <4>2
        <5>2. ~(start[i] < end /\ offset < start[i + 1])
          BY <2>2, <4>2
        <5> HIDE DEF S, D, end
        <5> QED
          BY <1>0, <2>0, <5>1, <5>2
      <4> QED
        BY <4>1, <4>2
    <3> HIDE DEF S, D, q, end
    <3>3. \A j \in 1..Len(D) : ~(offset < S + j /\ S + j <= end)
      BY <1>0, <2>0, <3>2
    <3>4. /\ q[i] \in GoodPage(f) /\ Len(q[i].data) = Len(D)
          /\ \A j \in 1..Len(D) :
               q[i].data[j] = IF offset < S + j /\ S + j <= end
                              THEN d[S + j - offset] ELSE D[j]
      BY <2>0, <3>1, <3>3 DEF D
    <3> QED
      BY <3>4 DEF D, S, end
  <2> QED
    BY <2>1, <2>2
<1>4. q = [i \in 1..Len(pt) |-> q[i]]
  OBVIOUS
<1> HIDE DEF q
<1>5. q \in Tables(f) /\ Len(q) = Len(pt)
  BY <1>0, <1>3, <1>4 DEF Tables
<1>6. SameSizes(pt, q)
  BY <1>3, <1>5 DEF SameSizes
<1>7. q \in Seq(AnyPage)
  BY <1>5, TableType
<1>8. \A i \in 0..Len(pt) : End(q, i) = End(pt, i)
  BY <1>0, <1>6, <1>7, SameEnds
<1>9. Len(Flatten(q)) = Len(t)
  <2>1. Len(pt) \in 0..Len(pt)
    BY <1>0
  <2> QED
    BY <1>0, <1>5, <1>7, <1>8, <2>1, EndBounds DEF t
<1>10. /\ w \in Seq(Byte) /\ Len(w) = Len(t)
       /\ \A x \in 1..Len(t) :
            w[x] = IF offset < x /\ x <= offset + Len(d)
                   THEN d[x - offset] ELSE t[x]
  <2>1. offset + Len(d) <= Len(t)
    BY DEF t
  <2> QED
    BY <1>0, <2>1, OverwrittenAt DEF w
<1>11. ASSUME NEW i \in 1..Len(q), NEW j \in 1..Len(q[i].data)
       PROVE  w[End(q, i - 1) + j] = q[i].data[j]
  <2>0. i \in 1..Len(pt) /\ i - 1 \in 0..Len(pt)
    BY <1>0, <1>5
  <2>6. /\ Len(q[i].data) = Len(pt[i].data)
        /\ \A m \in 1..Len(pt[i].data) :
             q[i].data[m] = IF offset < s(i) + m /\ s(i) + m <= end
                            THEN d[s(i) + m - offset] ELSE pt[i].data[m]
    <3> HIDE DEF s, end
    <3> QED
      BY <1>3, <2>0
  <2>1. i \in 1..Len(pt) /\ j \in 1..Len(pt[i].data) /\ i - 1 \in 0..Len(pt)
    BY <2>0, <2>6
  <2>2. End(q, i - 1) = s(i)
    BY <1>8, <2>1
  <2>3. /\ s(i) + j \in 1..Len(t) /\ t[s(i) + j] = pt[i].data[j]
    BY <1>0, <2>1, FlattenAt DEF t
  <2>4. w[s(i) + j] = IF offset < s(i) + j /\ s(i) + j <= end
                      THEN d[(s(i) + j) - offset] ELSE t[s(i) + j]
    BY <1>10, <2>3
  <2>5. q[i].data[j] = IF offset < s(i) + j /\ s(i) + j <= end
                       THEN d[(s(i) + j) - offset] ELSE pt[i].data[j]
    <3> DEFINE Q == q[i].data
               D == pt[i].data
               S == s(i)
    <3>1. /\ j \in 1..Len(D)
          /\ \A m \in 1..Len(D) : Q[m] = IF offset < S + m /\ S + m <= end
                                         THEN d[S + m - offset] ELSE D[m]
      BY <2>1, <2>6
    <3> HIDE DEF Q, D, S, end
    <3>2. Q[j] = IF offset < S + j /\ S + j <= end
                 THEN d[S + j - offset] ELSE D[j]
      BY <3>1
    <3>3. S + j - offset = (S + j) - offset
      <4>1. S \in Nat
        BY <1>1, <2>1 DEF S
      <4> QED
        BY <4>1
    <3>4. Q[j] = IF offset < S + j /\ S + j <= end
                 THEN d[(S + j) - offset] ELSE D[j]
      BY <3>2, <3>3
    <3> QED
      BY <3>4 DEF Q, D, S, end
  <2> QED
    BY <2>2, <2>3, <2>4, <2>5
<1>12. Flatten(q) = w
  BY <1>7, <1>9, <1>10, <1>11, FlattenEqual
<1>13. q \in Tables(f) /\ SameSizes(pt, q) /\ Flatten(q) = Overwritten(Flatten(pt), offset, d)
  BY <1>5, <1>6, <1>12 DEF w, t
<1>14. q = RWTable(pt, k, offset, d)
  BY DEF RWTable, q, start
<1> QED
  BY <1>13, <1>14

(* A table with pages of the same sizes takes the place of another.        *)
LEMMA KeepsCache ==
    ASSUME NEW f, NEW e, Valid(e, f), NEW q \in Tables(f), SameSizes(e.page_table, q)
    PROVE  LET r == [e EXCEPT !.page_table = q]
           IN  /\ Valid(r, f) /\ r.page_table = q /\ r.total_size = e.total_size
<1> DEFINE r == [e EXCEPT !.page_table = q]
           pt == e.page_table
<1>0. /\ e \in Buffers(f) /\ pt \in Tables(f) /\ e.total_size = Len(Flatten(pt))
  BY ValidParts
<1>1. /\ r \in Buffers(f) /\ r.page_table = q /\ r.total_size = e.total_size
      /\ r.cur_page = e.cur_page /\ r.cur_offset = e.cur_offset
  BY <1>0 DEF Buffers
<1> HIDE DEF r
<1>2. pt \in Seq(AnyPage) /\ q \in Seq(AnyPage) /\ Len(pt) \in Nat /\ Len(q) = Len(pt)
  BY <1>0, TableType DEF SameSizes
<1>3. \A i \in 0..Len(pt) : End(q, i) = End(pt, i)
  BY <1>2, SameEnds
<1>4. Len(Flatten(q)) = Len(Flatten(pt))
  <2>1. Len(pt) \in 0..Len(pt)
    BY <1>2
  <2> QED
    BY <1>2, <1>3, <2>1, EndBounds
<1>5. e.cur_page # 0 => /\ e.cur_page \in 1..Len(pt)
                        /\ e.cur_offset = End(pt, e.cur_page - 1)
  BY DEF Valid
<1> HIDE DEF pt
<1>6. e.cur_page # 0 => /\ e.cur_page \in 1..Len(q)
                        /\ e.cur_offset = End(q, e.cur_page - 1)
  BY <1>2, <1>3, <1>5
<1>7. Valid(r, f)
  BY <1>0, <1>1, <1>4, <1>6 DEF Valid, Buffers
<1> QED
  BY <1>1, <1>7 DEF r

(* eb_rw writes over the bytes of the buffer.                              *)
LEMMA WriteInside ==
    ASSUME NEW f, NEW e, Valid(e, f), NEW offset \in Nat, NEW d \in Texts,
           offset + Len(d) <= e.total_size
    PROVE  LET r == eb_rw(e, offset, d)
           IN  /\ Valid(r, f) /\ r.total_size = e.total_size
               /\ Flatten(r.page_table)
                    = Overwritten(Flatten(e.page_table), offset, d)
<1> DEFINE pt == e.page_table
           t  == Flatten(pt)
           r  == eb_rw(e, offset, d)
<1>0. /\ e \in Buffers(f) /\ pt \in Tables(f) /\ t \in Texts
      /\ e.total_size = Len(t) /\ e.total_size \in Nat /\ Len(d) \in Nat
  BY ValidParts, JoinedLen
<1>1. CASE d = << >>
  <2>1. r = e
    BY <1>1 DEF eb_rw
  <2>2. Overwritten(t, offset, d) = t
    <3> HIDE DEF t
    <3>1. Len(d) = 0 /\ offset + Len(d) = offset /\ offset \in 0..Len(t) /\ d = NoText
      BY <1>0, <1>1 DEF NoText
    <3>2. Before(t, offset) \in Texts /\ t = Joined(Before(t, offset), From(t, offset))
      BY <1>0, <3>1, TextParts
    <3> QED
      BY <3>1, <3>2, JoinedEmpty DEF Overwritten
  <2> HIDE DEF r
  <2>3. /\ Valid(r, f) /\ r.total_size = e.total_size
        /\ Flatten(r.page_table) = Overwritten(t, offset, d)
    BY <2>1, <2>2
  <2> QED
    BY <2>3 DEF r
<1>2. CASE d # << >>
  <2>0. Len(d) > 0
    BY <1>2 DEF Texts
  <2>1. offset < e.total_size
    BY <1>0, <2>0
  <2> DEFINE g == find_page(e, offset)
             k == g.cur_page
             q == RWTable(pt, k, offset, d)
  <2>2. /\ Valid(g, f) /\ g.page_table = pt /\ g.total_size = e.total_size
        /\ k \in 1..Len(pt) /\ g.cur_offset = End(pt, k - 1)
        /\ g.cur_offset <= offset
    BY <2>1, FindPage
  <2>3. r = [g EXCEPT !.page_table = q]
    BY <1>2, <2>2 DEF eb_rw, update_page, RWTable
  <2> HIDE DEF g, k
  <2>4. /\ q \in Tables(f) /\ SameSizes(pt, q)
        /\ Flatten(q) = Overwritten(t, offset, d)
    <3>1. offset + Len(d) <= Len(Flatten(pt)) /\ End(pt, k - 1) <= offset
      BY <1>0, <2>2
    <3> HIDE DEF pt
    <3> QED
      BY <1>0, <2>2, <3>1, WrittenTable
  <2> HIDE DEF q, pt
  <2> DEFINE v == [g EXCEPT !.page_table = q]
  <2>5. Valid(v, f) /\ v.page_table = q /\ v.total_size = g.total_size
    BY <2>2, <2>4, KeepsCache
  <2> HIDE DEF v, r
  <2>6. /\ Valid(r, f) /\ r.total_size = e.total_size
        /\ Flatten(r.page_table) = Overwritten(t, offset, d)
    BY <2>2, <2>3, <2>4, <2>5 DEF v
  <2> QED
    BY <2>6 DEF r, pt
<1> QED
  BY <1>1, <1>2

(* eb_write writes over what is there, and appends the rest.               *)
LEMMA WriteAnywhere ==
    ASSUME NEW f, NEW e, Valid(e, f), NEW offset \in 0..e.total_size, NEW d \in Texts
    PROVE  LET r == eb_write(e, offset, d)
           IN  /\ Valid(r, f)
               /\ Flatten(r.page_table)
                    = Overwritten(Flatten(e.page_table), offset, d)
<1> DEFINE t   == Flatten(e.page_table)
           len == Minimum(Len(d), e.total_size - offset)
           d1  == Before(d, len)
           d2  == From(d, len)
           e1  == eb_rw(e, offset, d1)
           t1  == Flatten(e1.page_table)
           r   == eb_write(e, offset, d)
<1>0. /\ t \in Texts /\ e.total_size = Len(t) /\ e.total_size \in Nat
      /\ Len(d) \in Nat /\ offset \in Nat /\ offset <= Len(t) /\ offset \in 0..Len(t)
  BY ValidParts, JoinedLen
<1>1. /\ len \in 0..Len(d) /\ offset + len <= e.total_size
      /\ len # Len(d) => len < Len(d) /\ offset + len = Len(t)
  BY <1>0 DEF Minimum
<1>2. r = IF len = Len(d) THEN e1 ELSE eb_insert_lowlevel(e1, offset + len, d2)
  BY DEF eb_write, eb_insert
<1> HIDE DEF len, t
<1>3. /\ d1 \in Texts /\ d2 \in Texts /\ Len(d1) = len /\ d = Joined(d1, d2)
      /\ len = Len(d) => d1 = d
  BY <1>1, TextParts
<1> HIDE DEF d1, d2
<1>4. /\ Valid(e1, f) /\ e1.total_size = e.total_size
      /\ t1 = Overwritten(t, offset, d1)
  BY <1>0, <1>1, <1>3, WriteInside DEF t
<1> HIDE DEF e1
<1>5. CASE len = Len(d)
  BY <1>2, <1>3, <1>4, <1>5 DEF t
<1>6. CASE len # Len(d)
  <2> DEFINE x == Before(t, offset)
  <2>1. r = eb_insert_lowlevel(e1, offset + len, d2)
    BY <1>2, <1>6
  <2>2. offset + len = Len(t) /\ offset + len \in 0..e1.total_size
    BY <1>0, <1>1, <1>4, <1>6
  <2> HIDE DEF r, t1
  <2>3. /\ Valid(r, f) /\ Flatten(r.page_table) = Inserted(t1, offset + len, d2)
    BY <1>3, <1>4, <2>1, <2>2, InsertLow DEF t1
  <2>4. x \in Texts
    BY <1>0, TextParts
  <2>5. From(t, Len(t)) = NoText
    <3>1. Len(t) \in 0..Len(t)
      BY <1>0
    <3> QED
      BY <1>0, <3>1, TextParts
  <2>6. From(t, offset + Len(d)) = NoText
    <3>1. offset + Len(d) > Len(t) /\ offset + Len(d) \in Nat
      BY <1>0, <1>1, <1>6
    <3> QED
      BY <1>0, <3>1 DEF From, NoText, Texts
  <2> HIDE DEF x
  <2>7. t1 = Joined(x, d1) /\ t1 \in Texts
    <3>1. Joined(x, d1) \in Texts
      BY <1>3, <2>4, JoinedType
    <3>2. t1 = Joined(Joined(x, d1), NoText)
      BY <1>3, <1>4, <2>2, <2>5 DEF Overwritten, x
    <3> QED
      BY <3>1, <3>2, JoinedEmpty
  <2>8. Len(t1) = offset + len
    BY <1>4, <2>2, <1>0, ValidParts DEF t1
  <2>9. Inserted(t1, offset + len, d2) = Joined(t1, d2)
    <3>1. offset + len \in 0..Len(t1)
      BY <1>0, <2>2, <2>8
    <3>2. Before(t1, offset + len) = t1 /\ From(t1, offset + len) = NoText
      BY <2>7, <2>8, <3>1, TextParts
    <3>3. Joined(t1, d2) \in Texts
      BY <1>3, <2>7, JoinedType
    <3> QED
      BY <3>2, <3>3, JoinedEmpty DEF Inserted
  <2>10. Overwritten(t, offset, d) = Joined(x, d)
    <3>1. Joined(x, d) \in Texts
      BY <2>4, JoinedType
    <3> QED
      BY <2>6, <3>1, JoinedEmpty DEF Overwritten, x
  <2>11. Joined(t1, d2) = Joined(x, d)
    BY <1>3, <2>4, <2>7, JoinedAssoc
  <2>12. Valid(r, f) /\ Flatten(r.page_table) = Overwritten(t, offset, d)
    BY <2>3, <2>9, <2>10, <2>11
  <2> QED
    BY <2>12 DEF r, t
<1> QED
  BY <1>5, <1>6

---------------------------------------------------------------------------
(* Pages without bytes are left out.                                       *)

IsKept(g, pt, n) ==
    /\ g \in [0..n -> Seq(AnyPage)]
    /\ g[0] = << >>
    /\ \A i \in 0..(n - 1) :
         g[i + 1] = IF pt[i + 1].data = << >> THEN g[i]
                    ELSE Append(g[i], pt[i + 1])

LEMMA KeptExists ==
    ASSUME NEW pt \in Seq(AnyPage)
    PROVE  \E g : IsKept(g, pt, Len(pt))
<1> DEFINE T == {n \in 0..Len(pt) : \E g : IsKept(g, pt, n)}
<1>0. Len(pt) \in Nat
  BY PageType
<1>1. 0 \in T
  <2>1. IsKept([i \in 0..0 |-> << >>], pt, 0)
    BY DEF IsKept
  <2> QED
    BY <1>0, <2>1
<1>2. ASSUME NEW n \in 0..(Len(pt) - 1), n \in T PROVE n + 1 \in T
  <2>1. PICK f : IsKept(f, pt, n)
    BY <1>2
  <2> DEFINE pg == pt[n + 1]
             v == IF pg.data = << >> THEN f[n] ELSE Append(f[n], pg)
             g == [i \in 0..(n + 1) |-> IF i = n + 1 THEN v ELSE f[i]]
  <2>2. pg \in AnyPage
    BY <1>0, PageType
  <2>3. f[n] \in Seq(AnyPage) /\ n \in Nat
    BY <2>1 DEF IsKept
  <2> HIDE DEF pg
  <2>4. v \in Seq(AnyPage)
    BY <2>2, <2>3
  <2>10. v = IF pt[n + 1].data = << >> THEN f[n] ELSE Append(f[n], pt[n + 1])
    BY DEF pg
  <2> HIDE DEF v
  <2>5. g \in [0..(n + 1) -> Seq(AnyPage)]
    BY <2>1, <2>3, <2>4 DEF IsKept
  <2>6. g[n + 1] = v /\ \A i \in 0..n : g[i] = f[i]
    BY <2>3
  <2> HIDE DEF g
  <2>9. g[0] = << >>
    BY <2>1, <2>3, <2>6 DEF IsKept
  <2>7. ASSUME NEW i \in 0..n
        PROVE  g[i + 1] = IF pt[i + 1].data = << >> THEN g[i]
                          ELSE Append(g[i], pt[i + 1])
    <3>1. CASE i = n
      BY <2>3, <2>6, <2>10, <3>1
    <3>2. CASE i # n
      <4>1. i \in 0..(n - 1) /\ i + 1 \in 0..n
        BY <2>3, <3>2
      <4>2. f[i + 1] = IF pt[i + 1].data = << >> THEN f[i]
                       ELSE Append(f[i], pt[i + 1])
        BY <2>1, <4>1 DEF IsKept
      <4> QED
        BY <2>6, <4>1, <4>2
    <3> QED
      BY <3>1, <3>2
  <2>8. IsKept(g, pt, n + 1)
    <3>1. (n + 1) - 1 = n
      BY <2>3
    <3> QED
      BY <2>5, <2>7, <2>9, <3>1 DEF IsKept
  <2> QED
    BY <1>0, <2>8
<1> HIDE DEF T
<1>3. Len(pt) \in T
  BY <1>0, <1>1, <1>2, UpTo
<1> QED
  BY <1>3 DEF T

LEMMA NotEmptyIs ==
    ASSUME NEW pt \in Seq(AnyPage)
    PROVE  \E g : IsKept(g, pt, Len(pt)) /\ NotEmpty(pt) = g[Len(pt)]
<1> DEFINE m == Len(pt)
           f == CHOOSE g : g = [i \in 0..m |->
                  IF i = 0 THEN << >>
                  ELSE IF pt[i].data = << >> THEN g[i - 1]
                  ELSE Append(g[i - 1], pt[i])]
<1>0. m \in Nat
  BY PageType
<1>1. NotEmpty(pt) = f[m]
  BY DEF NotEmpty
<1>4. PICK g : IsKept(g, pt, m)
  BY KeptExists
<1> HIDE DEF m
<1>2. g = [i \in 0..m |-> IF i = 0 THEN << >>
                          ELSE IF pt[i].data = << >> THEN g[i - 1]
                          ELSE Append(g[i - 1], pt[i])]
  <2>1. ASSUME NEW i \in 0..m
        PROVE  g[i] = IF i = 0 THEN << >>
                      ELSE IF pt[i].data = << >> THEN g[i - 1]
                      ELSE Append(g[i - 1], pt[i])
    <3>1. CASE i = 0
      BY <1>4, <3>1 DEF IsKept
    <3>2. CASE i # 0
      <4>1. i - 1 \in 0..(m - 1) /\ (i - 1) + 1 = i
        BY <1>0, <3>2
      <4> QED
        BY <1>4, <3>2, <4>1 DEF IsKept
    <3> QED
      BY <3>1, <3>2
  <2>2. g = [i \in 0..m |-> g[i]]
    BY <1>4 DEF IsKept
  <2> QED
    BY <2>1, <2>2
<1>3. f = [i \in 0..m |-> IF i = 0 THEN << >>
                          ELSE IF pt[i].data = << >> THEN f[i - 1]
                          ELSE Append(f[i - 1], pt[i])]
  BY <1>2
<1> HIDE DEF f
<1> DEFINE T == {n \in 0..m : f[n] = g[n]}
<1>5. 0 \in T
  BY <1>0, <1>3, <1>4 DEF IsKept
<1>6. ASSUME NEW n \in 0..(m - 1), n \in T PROVE n + 1 \in T
  <2>1. n + 1 \in 0..m /\ n + 1 # 0 /\ (n + 1) - 1 = n
    BY <1>0
  <2>2. f[n + 1] = IF pt[n + 1].data = << >> THEN f[n] ELSE Append(f[n], pt[n + 1])
    BY <1>3, <2>1
  <2>3. g[n + 1] = IF pt[n + 1].data = << >> THEN g[n] ELSE Append(g[n], pt[n + 1])
    BY <1>4 DEF IsKept
  <2> QED
    BY <1>6, <2>1, <2>2, <2>3
<1>7. m \in T
  <2> HIDE DEF T
  <2> QED
    BY <1>0, <1>5, <1>6, UpTo
<1> QED
  BY <1>1, <1>4, <1>7 DEF m

LEMMA KeptTable ==
    ASSUME NEW f, NEW q \in Seq(AnyPage),
           \A i \in 1..Len(q) : q[i].data # << >> => q[i] \in GoodPage(f)
    PROVE  NotEmpty(q) \in Tables(f) /\ Flatten(NotEmpty(q)) = Flatten(q)
<1>0. Len(q) \in Nat
  BY PageType
<1>1. PICK g : IsKept(g, q, Len(q)) /\ NotEmpty(q) = g[Len(q)]
  BY NotEmptyIs
<1> DEFINE T == {n \in 0..Len(q) :
                   g[n] \in Tables(f) /\ Flatten(g[n]) = Flatten(First(q, n))}
<1>2. 0 \in T
  <2>1. First(q, 0) = << >> /\ << >> \in Tables(f)
    BY DEF First, Tables
  <2>2. g[0] = << >>
    BY <1>1 DEF IsKept
  <2> QED
    BY <1>0, <2>1, <2>2
<1>3. ASSUME NEW n \in 0..(Len(q) - 1), n \in T PROVE n + 1 \in T
  <2> DEFINE pg == q[n + 1]
             x == g[n]
             y == g[n + 1]
  <2>1. n + 1 \in 1..Len(q) /\ (n + 1) - 1 = n /\ n + 1 \in 0..Len(q)
    BY <1>0
  <2>2. y = IF pg.data = << >> THEN x ELSE Append(x, pg)
    BY <1>1 DEF IsKept
  <2>3. /\ pg \in AnyPage /\ pg.data \in Texts
        /\ pg.data # << >> => pg \in GoodPage(f)
    BY <2>1, PageType DEF Texts
  <2>4. x \in Tables(f) /\ Flatten(x) = Flatten(First(q, n))
    BY <1>3
  <2>5. /\ Flatten(First(q, n + 1)) = Joined(Flatten(First(q, n)), pg.data)
        /\ Flatten(First(q, n)) \in Texts
    BY <2>1, EndStep DEF Joined, Texts
  <2> HIDE DEF pg, x, y
  <2>6. y \in Tables(f) /\ Flatten(y) = Flatten(First(q, n + 1))
    <3>1. CASE pg.data = << >>
      <4>1. Joined(Flatten(First(q, n)), pg.data) = Flatten(First(q, n))
        BY <2>5, <3>1, JoinedEmpty DEF NoText
      <4> QED
        BY <2>2, <2>4, <2>5, <3>1, <4>1
    <3>2. CASE pg.data # << >>
      <4>1. x \in Seq(AnyPage)
        BY <2>4, TableType
      <4>2. Flatten(Append(x, pg)) = Joined(Flatten(x), pg.data)
        BY <2>3, <4>1, FlattenAppend DEF Joined
      <4>3. Append(x, pg) \in Tables(f)
        BY <2>3, <2>4, <3>2 DEF Tables
      <4>4. y = Append(x, pg)
        BY <2>2, <3>2
      <4> QED
        BY <2>4, <2>5, <4>2, <4>3, <4>4
    <3> QED
      BY <3>1, <3>2
  <2> QED
    BY <2>1, <2>6 DEF y
<1>4. Len(q) \in T
  <2> HIDE DEF T
  <2> QED
    BY <1>0, <1>2, <1>3, UpTo
<1>5. First(q, Len(q)) = q
  BY DEF First
<1> QED
  BY <1>1, <1>4, <1>5

---------------------------------------------------------------------------
(* Deletion.                                                               *)

(* The bytes u without those from offset to end; all of u may come before. *)
Without(u, offset, end) ==
    Joined(Before(u, Minimum(Len(u), offset)), From(u, end))

LEMMA FromBehind ==
    ASSUME NEW u \in Texts, NEW n \in Nat, n >= Len(u)
    PROVE  From(u, n) = NoText
BY DEF From, NoText, Texts

LEMMA FromJoined ==
    ASSUME NEW u \in Texts, NEW d \in Texts, NEW n \in Nat, n >= Len(u)
    PROVE  /\ From(Joined(u, d), n) = From(d, n - Len(u))
           /\ From(d, n - Len(u)) \in Texts
           /\ Len(From(d, n - Len(u))) <= Len(d)
<1> DEFINE m == n - Len(u)
<1>0. /\ Len(u) \in Nat /\ Len(d) \in Nat /\ Len(Joined(u, d)) = Len(u) + Len(d)
      /\ Joined(u, d) \in Texts
  BY JoinedLen, JoinedType
<1>1. m \in Nat /\ n = Len(u) + m
  BY <1>0
<1>2. CASE m <= Len(d)
  <2>1. m \in 0..Len(d) /\ u \in Seq(Byte) /\ d \in Seq(Byte)
    BY <1>0, <1>1, <1>2 DEF Texts
  <2> HIDE DEF m
  <2>2. From(u \o d, Len(u) + m) = From(d, m)
    BY <2>1, CutRight
  <2>3. From(d, m) \in Texts /\ Len(From(d, m)) = Len(d) - m
    BY <2>1, TextParts
  <2>4. Len(From(d, m)) <= Len(d)
    BY <1>0, <1>1, <2>3
  <2> QED
    BY <1>1, <2>2, <2>3, <2>4 DEF Joined, m
<1>3. CASE ~(m <= Len(d))
  <2> HIDE DEF m
  <2>1. n >= Len(Joined(u, d)) /\ m >= Len(d)
    BY <1>0, <1>1, <1>3
  <2>2. From(Joined(u, d), n) = NoText /\ From(d, m) = NoText
    BY <1>0, <1>1, <2>1, FromBehind
  <2>3. NoText \in Texts /\ Len(NoText) = 0
    BY JoinedEmpty DEF NoText
  <2> QED
    BY <1>0, <2>2, <2>3 DEF m
<1> QED
  BY <1>2, <1>3

(* What a page of bytes d that starts at offset s keeps.                   *)
Left(d, s, offset, end) ==
    Joined(Before(d, Maximum(0, offset - s)), From(d, end - s))

LEMMA LeftType ==
    ASSUME NEW d \in Texts, NEW s \in Nat, NEW offset \in Nat, NEW end \in Nat,
           offset < end, s < end, offset < s + Len(d)
    PROVE  Left(d, s, offset, end) \in Texts /\ Len(Left(d, s, offset, end)) <= Len(d)
<1> DEFINE m == Maximum(0, offset - s)
           n == end - s
<1>0. Len(d) \in Nat
  BY JoinedLen
<1>1. m \in 0..Len(d) /\ n \in Nat /\ m <= n
  BY <1>0 DEF Maximum
<1> HIDE DEF m, n
<1>2. Before(d, m) \in Texts /\ Len(Before(d, m)) = m
  BY <1>1, TextParts
<1>3. From(d, n) \in Texts /\ m + Len(From(d, n)) <= Len(d)
  <2>1. CASE n <= Len(d)
    <3>1. n \in 0..Len(d)
      BY <1>0, <1>1, <2>1
    <3>2. From(d, n) \in Texts /\ Len(From(d, n)) = Len(d) - n
      BY <3>1, TextParts
    <3> QED
      BY <1>0, <1>1, <3>2
  <2>2. CASE ~(n <= Len(d))
    <3>1. From(d, n) = NoText
      BY <1>0, <1>1, <2>2, FromBehind
    <3>2. NoText \in Texts /\ Len(NoText) = 0
      BY JoinedEmpty DEF NoText
    <3> QED
      BY <1>0, <1>1, <3>1, <3>2
  <2> QED
    BY <2>1, <2>2
<1>4. Joined(Before(d, m), From(d, n)) \in Texts
  BY <1>2, <1>3, JoinedType
<1>5. Len(Joined(Before(d, m), From(d, n))) = m + Len(From(d, n))
  BY <1>2, <1>3, JoinedLen
<1> QED
  BY <1>3, <1>4, <1>5 DEF Left, m, n

(* Deletion goes on by one page.                                           *)
LEMMA WithoutStep ==
    ASSUME NEW u \in Texts, NEW d \in Texts, NEW offset \in Nat, NEW end \in Nat,
           offset < end
    PROVE  /\ Len(u) + Len(d) <= offset \/ end <= Len(u) =>
                Without(Joined(u, d), offset, end)
                  = Joined(Without(u, offset, end), d)
           /\ Len(u) < end /\ offset < Len(u) + Len(d) =>
                Without(Joined(u, d), offset, end)
                  = Joined(Without(u, offset, end), Left(d, Len(u), offset, end))
<1> DEFINE s == Len(u)
           ud == Joined(u, d)
<1>0. /\ s \in Nat /\ Len(d) \in Nat /\ Len(ud) = s + Len(d) /\ ud \in Texts
  BY JoinedLen, JoinedType
<1>1. s <= offset => Without(u, offset, end) = u
  <2> SUFFICES ASSUME s <= offset PROVE Without(u, offset, end) = u
    OBVIOUS
  <2>1. Minimum(s, offset) = s /\ s \in 0..s
    BY <1>0 DEF Minimum
  <2>2. Before(u, s) = u
    BY <2>1, TextParts
  <2>3. From(u, end) = NoText
    BY <1>0, FromBehind
  <2> QED
    BY <2>1, <2>2, <2>3, JoinedEmpty DEF Without
<1>2. ASSUME s > offset
      PROVE  /\ Minimum(s, offset) = offset /\ offset \in 0..s
             /\ Minimum(Len(ud), offset) = offset
             /\ Before(u, offset) \in Texts
             /\ Before(ud, offset) = Before(u, offset)
  <2>1. /\ Minimum(s, offset) = offset /\ offset \in 0..s
        /\ Minimum(Len(ud), offset) = offset
    BY <1>0, <1>2 DEF Minimum
  <2>2. Before(u, offset) \in Texts
    BY <2>1, TextParts
  <2>3. Before(ud, offset) = Before(u, offset)
    <3>1. u \in Seq(Byte) /\ d \in Seq(Byte) /\ offset \in 0..Len(u)
      BY <2>1 DEF Texts
    <3> QED
      BY <3>1, CutLeft DEF Joined
  <2> QED
    BY <2>1, <2>2, <2>3
<1>3. ASSUME s + Len(d) <= offset PROVE Without(ud, offset, end) = Joined(Without(u, offset, end), d)
  <2>1. Without(u, offset, end) = u
    BY <1>0, <1>1, <1>3
  <2>2. Without(ud, offset, end) = ud
    <3>1. Minimum(Len(ud), offset) = Len(ud) /\ Len(ud) \in 0..Len(ud)
      BY <1>0, <1>3 DEF Minimum
    <3>2. Before(ud, Len(ud)) = ud
      BY <1>0, <3>1, TextParts
    <3>3. From(ud, end) = NoText
      BY <1>0, <1>3, FromBehind
    <3> HIDE DEF ud
    <3> QED
      BY <1>0, <3>1, <3>2, <3>3, JoinedEmpty DEF Without
  <2> QED
    BY <2>1, <2>2
<1>4. ASSUME end <= s PROVE Without(ud, offset, end) = Joined(Without(u, offset, end), d)
  <2>1. s > offset /\ end \in 0..s
    BY <1>0, <1>4
  <2>2. /\ Minimum(s, offset) = offset /\ Minimum(Len(ud), offset) = offset
        /\ Before(u, offset) \in Texts /\ Before(ud, offset) = Before(u, offset)
    BY <1>2, <2>1
  <2>3. From(ud, end) = Joined(From(u, end), d)
    <3>1. u \in Seq(Byte) /\ d \in Seq(Byte) /\ end \in 0..Len(u)
      BY <2>1 DEF Texts
    <3> QED
      BY <3>1, CutLeft DEF Joined
  <2>4. From(u, end) \in Texts
    BY <2>1, TextParts
  <2>5. Joined(Before(u, offset), Joined(From(u, end), d))
          = Joined(Joined(Before(u, offset), From(u, end)), d)
    BY <2>2, <2>4, JoinedAssoc
  <2> HIDE DEF ud
  <2> QED
    BY <2>2, <2>3, <2>5 DEF Without
<1>5. ASSUME s < end, offset < s + Len(d)
      PROVE  Without(ud, offset, end)
               = Joined(Without(u, offset, end), Left(d, s, offset, end))
  <2>1. /\ From(ud, end) = From(d, end - s) /\ From(d, end - s) \in Texts
    BY <1>0, <1>5, FromJoined
  <2>2. CASE s <= offset
    <3> DEFINE m == offset - s
               z == From(d, end - s)
    <3>1. m \in 0..Len(d) /\ Maximum(0, m) = m /\ Minimum(Len(ud), offset) = offset
          /\ s + m = offset
      BY <1>0, <1>5, <2>2 DEF Maximum, Minimum
    <3>2. Before(ud, offset) = Joined(u, Before(d, m)) /\ Before(d, m) \in Texts
      <4>1. u \in Seq(Byte) /\ d \in Seq(Byte)
        BY DEF Texts
      <4> HIDE DEF m
      <4>2. Before(u \o d, Len(u) + m) = u \o Before(d, m)
        BY <3>1, <4>1, CutRight
      <4>3. Before(d, m) \in Texts
        BY <3>1, TextParts
      <4> QED
        BY <3>1, <4>2, <4>3 DEF Joined
    <3>3. Without(u, offset, end) = u
      BY <1>1, <2>2
    <3>4. Left(d, s, offset, end) = Joined(Before(d, m), z)
      BY <3>1 DEF Left
    <3>5. z \in Texts /\ From(ud, end) = z
      BY <2>1
    <3> HIDE DEF m, z, ud, s
    <3>6. Without(ud, offset, end) = Joined(Joined(u, Before(d, m)), z)
      BY <3>1, <3>2, <3>5 DEF Without
    <3> QED
      BY <3>2, <3>3, <3>4, <3>5, <3>6, JoinedAssoc
  <2>3. CASE s > offset
    <3> DEFINE z == From(d, end - s)
    <3>1. /\ Minimum(s, offset) = offset /\ Minimum(Len(ud), offset) = offset
          /\ Before(u, offset) \in Texts /\ Before(ud, offset) = Before(u, offset)
      BY <1>2, <2>3
    <3>2. Maximum(0, offset - s) = 0 /\ 0 \in 0..Len(d)
      BY <1>0, <2>3 DEF Maximum
    <3>3. Before(d, 0) = NoText
      BY <3>2, TextParts
    <3>4. Left(d, s, offset, end) = z
      BY <2>1, <3>2, <3>3, JoinedEmpty DEF Left
    <3>5. From(u, end) = NoText
      BY <1>0, <1>5, FromBehind
    <3>6. Without(u, offset, end) = Before(u, offset)
      BY <3>1, <3>5, JoinedEmpty DEF Without
    <3> HIDE DEF z, ud
    <3>7. Without(ud, offset, end) = Joined(Before(u, offset), z)
      BY <2>1, <3>1 DEF Without, z
    <3> QED
      BY <3>4, <3>6, <3>7
  <2> QED
    BY <1>0, <2>2, <2>3
<1> QED
  BY <1>3, <1>4, <1>5

(* The table that eb_delete makes, from page k on.                         *)
CutTable(pt, k, offset, end) ==
    LET start == Starts(pt, k, End(pt, k - 1))
        Touched(i) == /\ i >= k
                      /\ start[i] < end /\ offset < start[i + 1]
    IN  [i \in 1..Len(pt) |->
           IF Touched(i)
           THEN NewPage(Before(pt[i].data, Maximum(0, offset - start[i]))
                          \o From(pt[i].data, end - start[i]))
           ELSE pt[i]]

LEMMA CutTablePage ==
    ASSUME NEW f, NEW pt \in Tables(f), NEW k \in 1..Len(pt),
           NEW offset \in Nat, NEW end \in Nat, offset < end,
           End(pt, k - 1) <= offset, NEW i \in 1..Len(pt)
    PROVE  LET pg == CutTable(pt, k, offset, end)[i]
               s  == End(pt, i - 1)
               d  == pt[i].data
           IN  /\ pg \in AnyPage
               /\ pg.data # << >> => pg \in GoodPage(f)
               /\ \/ /\ s + Len(d) <= offset \/ end <= s
                     /\ pg.data = d
                  \/ /\ s < end /\ offset < s + Len(d)
                     /\ pg.data = Left(d, s, offset, end)
<1> DEFINE start == Starts(pt, k, End(pt, k - 1))
           hit == i >= k /\ start[i] < end /\ offset < start[i + 1]
           d  == pt[i].data
           L  == Before(d, Maximum(0, offset - start[i])) \o From(d, end - start[i])
           pg == CutTable(pt, k, offset, end)[i]
           s  == End(pt, i - 1)
<1>0. /\ pt \in Seq(AnyPage) /\ Len(pt) \in Nat
  BY TableType
<1>1. /\ pt[i] \in GoodPage(f) /\ d \in Texts
      /\ Len(d) \in 1..MaxPageSize /\ Len(d) \in Nat
      /\ s \in Nat /\ End(pt, i) = s + Len(d)
  BY <1>0, EndNext, TableType DEF Texts
<1>2. i >= k => start[i] = s /\ start[i + 1] = s + Len(d)
  <2> SUFFICES ASSUME i >= k PROVE start[i] = s /\ start[i + 1] = s + Len(d)
    OBVIOUS
  <2>1. i \in k..Len(pt)
    OBVIOUS
  <2> QED
    BY <1>0, <1>1, <2>1, FoundStarts
<1>3. pg = IF hit THEN NewPage(L) ELSE pt[i]
  BY DEF CutTable
<1> HIDE DEF start, pg
<1>4. CASE hit
  <2>1. start[i] = s /\ s < end /\ offset < s + Len(d)
    BY <1>2, <1>4
  <2>2. L = Left(d, s, offset, end)
    BY <2>1 DEF Left, Joined
  <2> HIDE DEF L, d, s
  <2>3. L \in Texts /\ Len(L) <= Len(d)
    BY <1>1, <2>1, <2>2, LeftType
  <2>4. pg = NewPage(L)
    BY <1>3, <1>4
  <2>5. pg \in AnyPage /\ pg.data = L
    <3>1. L \in Seq(Byte)
      BY <2>3 DEF Texts
    <3> QED
      BY <2>4, <3>1 DEF NewPage, AnyPage
  <2>6. pg.data # << >> => pg \in GoodPage(f)
    <3> SUFFICES ASSUME L # << >> PROVE pg \in GoodPage(f)
      BY <2>5
    <3>1. L \in Seq(Byte)
      BY <2>3 DEF Texts
    <3>2. Len(L) \in Nat /\ Len(L) # 0
      BY <3>1
    <3>3. Len(L) \in 1..MaxPageSize
      BY <1>1, <2>3, <3>2, PageSizeAssumption
    <3> QED
      BY <2>4, <3>1, <3>3, NewPageGood
  <2>7. /\ pg \in AnyPage
        /\ pg.data # << >> => pg \in GoodPage(f)
        /\ s < end /\ offset < s + Len(d)
        /\ pg.data = Left(d, s, offset, end)
    BY <2>1, <2>2, <2>5, <2>6
  <2> QED
    BY <2>7 DEF pg, s, d
<1>5. CASE ~hit
  <2>1. pg = pt[i]
    BY <1>3, <1>5
  <2>2. s + Len(d) <= offset \/ end <= s
    <3>1. CASE i < k
      <4>1. End(pt, i) <= End(pt, k - 1)
        <5>1. i \in 0..Len(pt) /\ k - 1 \in i..Len(pt)
          BY <1>0, <3>1
        <5> QED
          BY <1>0, <5>1, EndMonotone
      <4>2. End(pt, k - 1) \in Nat /\ End(pt, i) \in Nat
        BY <1>0, EndNext
      <4> HIDE DEF s, d
      <4> QED
        BY <1>1, <4>1, <4>2
    <3>2. CASE i >= k
      <4>1. ~(start[i] < end /\ offset < start[i + 1])
        BY <1>5, <3>2
      <4> HIDE DEF s, d
      <4> QED
        BY <1>1, <1>2, <3>2, <4>1
    <3> QED
      BY <1>0, <3>1, <3>2
  <2>3. pt[i] \in AnyPage
    BY <1>0, PageType
  <2>4. /\ pg \in AnyPage
        /\ pg.data # << >> => pg \in GoodPage(f)
        /\ s + Len(d) <= offset \/ end <= s
        /\ pg.data = d
    BY <1>1, <2>1, <2>2, <2>3
  <2> QED
    BY <2>4 DEF pg, s, d
<1> QED
  BY <1>4, <1>5

LEMMA CutTableText ==
    ASSUME NEW f, NEW pt \in Tables(f), NEW k \in 1..Len(pt),
           NEW offset \in Nat, NEW end \in Nat, offset < end,
           End(pt, k - 1) <= offset
    PROVE  LET q == CutTable(pt, k, offset, end)
           IN  /\ q \in Seq(AnyPage)
               /\ \A i \in 1..Len(q) : q[i].data # << >> => q[i] \in GoodPage(f)
               /\ Flatten(q) = Without(Flatten(pt), offset, end)
<1> DEFINE q == CutTable(pt, k, offset, end)
           T == {n \in 0..Len(pt) :
                   Flatten(First(q, n)) = Without(Flatten(First(pt, n)), offset, end)}
<1>0. Len(pt) \in Nat /\ pt \in Seq(AnyPage)
  BY TableType
<1>1. q = [i \in 1..Len(pt) |-> q[i]]
  BY DEF CutTable
<1>2. \A i \in 1..Len(pt) :
        /\ q[i] \in AnyPage
        /\ q[i].data # << >> => q[i] \in GoodPage(f)
  BY CutTablePage
<1> HIDE DEF q
<1>3. q \in Seq(AnyPage) /\ Len(q) = Len(pt)
  BY <1>0, <1>1, <1>2
<1>4. 0 \in T
  <2>1. First(q, 0) = << >> /\ First(pt, 0) = << >>
    BY DEF First
  <2>2. Without(<< >>, offset, end) = << >>
    <3>1. Minimum(Len(NoText), offset) = 0 /\ Len(NoText) = 0
      BY DEF Minimum, NoText
    <3>2. Before(NoText, 0) = NoText /\ From(NoText, end) = NoText
      <4>1. 0 \in 0..Len(NoText) /\ end >= Len(NoText)
        BY <3>1
      <4> QED
        BY <4>1, JoinedEmpty, TextParts, FromBehind
    <3>3. Without(NoText, offset, end) = NoText
      BY <3>1, <3>2, JoinedEmpty DEF Without
    <3> QED
      BY <3>3 DEF NoText
  <2> QED
    BY <1>0, <2>1, <2>2, FlattenEmpty
<1>5. ASSUME NEW n \in 0..(Len(pt) - 1), n \in T PROVE n + 1 \in T
  <2> DEFINE u == Flatten(First(pt, n))
             d == pt[n + 1].data
             c == q[n + 1].data
             v == Flatten(First(q, n))
  <2>1. n + 1 \in 1..Len(pt) /\ n + 1 \in 1..Len(q) /\ (n + 1) - 1 = n
        /\ n + 1 \in 0..Len(pt)
    BY <1>0, <1>3
  <2>2. /\ Flatten(First(pt, n + 1)) = Joined(u, d)
        /\ u \in Texts /\ d \in Texts /\ Len(u) = End(pt, n)
    <3>1. /\ Flatten(First(pt, n + 1)) = Flatten(First(pt, n)) \o pt[n + 1].data
          /\ Flatten(First(pt, n)) \in Seq(Byte) /\ pt[n + 1].data \in Seq(Byte)
      BY <1>0, <2>1, EndStep, PageType
    <3> QED
      BY <3>1 DEF Joined, Texts, End
  <2>3. Flatten(First(q, n + 1)) = Joined(v, c)
    <3>1. Flatten(First(q, n + 1)) = Flatten(First(q, n)) \o q[n + 1].data
      BY <1>3, <2>1, EndStep
    <3> QED
      BY <3>1 DEF Joined
  <2>4. \/ /\ Len(u) + Len(d) <= offset \/ end <= Len(u)
           /\ c = d
        \/ /\ Len(u) < end /\ offset < Len(u) + Len(d)
           /\ c = Left(d, Len(u), offset, end)
    <3> DEFINE s == End(pt, (n + 1) - 1)
    <3>1. \/ /\ s + Len(d) <= offset \/ end <= s
             /\ c = d
          \/ /\ s < end /\ offset < s + Len(d)
             /\ c = Left(d, s, offset, end)
      BY ZenonT(60), <2>1, CutTablePage DEF q
    <3> HIDE DEF c, d, u
    <3> QED
      BY <2>1, <2>2, <3>1
  <2>5. v = Without(u, offset, end)
    BY <1>5
  <2> HIDE DEF u, d, c, v
  <2>6. Without(Joined(u, d), offset, end) = Joined(Without(u, offset, end), c)
    <3>1. /\ Len(u) + Len(d) <= offset \/ end <= Len(u) =>
               Without(Joined(u, d), offset, end)
                 = Joined(Without(u, offset, end), d)
          /\ Len(u) < end /\ offset < Len(u) + Len(d) =>
               Without(Joined(u, d), offset, end)
                 = Joined(Without(u, offset, end), Left(d, Len(u), offset, end))
      BY <2>2, WithoutStep
    <3> QED
      BY <2>4, <3>1
  <2>7. Flatten(First(q, n + 1)) = Without(Flatten(First(pt, n + 1)), offset, end)
    BY <2>2, <2>3, <2>5, <2>6
  <2> QED
    BY <2>1, <2>7
<1>6. Len(pt) \in T
  <2> HIDE DEF T
  <2> QED
    BY <1>0, <1>4, <1>5, UpTo
<1>7. First(q, Len(pt)) = q /\ First(pt, Len(pt)) = pt
  BY <1>0, <1>3 DEF First
<1>8. /\ q \in Seq(AnyPage)
      /\ \A i \in 1..Len(q) : q[i].data # << >> => q[i] \in GoodPage(f)
      /\ Flatten(q) = Without(Flatten(pt), offset, end)
  BY <1>2, <1>3, <1>6, <1>7
<1> QED
  BY <1>8 DEF q

(* The bytes t without size bytes at offset.                               *)
Removed(t, offset, size) == Joined(Before(t, offset), From(t, offset + size))

LEMMA RemovedIs ==
    ASSUME NEW t \in Texts, NEW offset \in Nat, NEW size \in Nat,
           offset + size <= Len(t)
    PROVE  /\ Without(t, offset, offset + size) = Removed(t, offset, size)
           /\ Len(Removed(t, offset, size)) = Len(t) - size
<1>0. /\ Len(t) \in Nat /\ Minimum(Len(t), offset) = offset
      /\ offset \in 0..Len(t) /\ offset + size \in 0..Len(t)
  BY JoinedLen DEF Minimum
<1> DEFINE x == Before(t, offset)
           y == From(t, offset + size)
<1>1. x \in Texts /\ Len(x) = offset
  BY <1>0, TextParts
<1>2. y \in Texts /\ Len(y) = Len(t) - (offset + size)
  <2> DEFINE n == offset + size
  <2>1. n \in 0..Len(t)
    BY <1>0
  <2> HIDE DEF n
  <2>2. From(t, n) \in Texts /\ Len(From(t, n)) = Len(t) - n
    BY <2>1, TextParts
  <2> QED
    BY <2>2 DEF n
<1> HIDE DEF x, y
<1>3. Len(Joined(x, y)) = Len(x) + Len(y)
  BY <1>1, <1>2, JoinedLen
<1>4. Len(Joined(x, y)) = Len(t) - size
  BY <1>0, <1>1, <1>2, <1>3
<1> QED
  BY <1>0, <1>4 DEF Without, Removed, x, y

(* eb_delete removes the bytes.                                            *)
LEMMA DeleteBytes ==
    ASSUME NEW f, NEW e, Valid(e, f), NEW offset \in Nat, NEW size \in Nat, size > 0,
           offset + size <= e.total_size
    PROVE  LET r == eb_delete(e, offset, size)
           IN  /\ Valid(r, f)
               /\ Flatten(r.page_table)
                    = Removed(Flatten(e.page_table), offset, size)
<1> DEFINE pt == e.page_table
           t  == Flatten(pt)
           r  == eb_delete(e, offset, size)
           g  == find_page(e, offset)
           k  == g.cur_page
           q  == CutTable(pt, k, offset, offset + size)
           start == Starts(pt, k, End(pt, k - 1))
           Touched(i) == /\ i >= k
                         /\ start[i] < offset + size /\ offset < start[i + 1]
           p  == [i \in 1..Len(pt) |->
                    IF Touched(i)
                    THEN NewPage(Before(pt[i].data, Maximum(0, offset - start[i]))
                                   \o From(pt[i].data, offset + size - start[i]))
                    ELSE pt[i]]
<1>0. /\ e \in Buffers(f) /\ pt \in Tables(f) /\ t \in Texts
      /\ e.total_size = Len(t) /\ e.total_size \in Nat
      /\ offset < e.total_size /\ offset < offset + size /\ offset + size \in Nat
  BY ValidParts
<1>1. /\ Valid(g, f) /\ g.page_table = pt /\ g.total_size = e.total_size
      /\ k \in 1..Len(pt) /\ g.cur_offset = End(pt, k - 1)
      /\ g.cur_offset <= offset
  BY <1>0, FindPage
<1>2. r = ForgetPage([g EXCEPT !.page_table = NotEmpty(p),
                               !.total_size = @ - size])
  BY <1>0, <1>1 DEF eb_delete, update_page
<1>3. g \in Buffers(f)
  BY <1>1, ValidParts
<1> HIDE DEF g, k, r, t, pt
<1>4. p = q
  <2>1. ASSUME NEW i \in 1..Len(pt), Touched(i)
        PROVE  (offset + size) - start[i] = offset + size - start[i]
    <3>1. i \in k..Len(pt) /\ pt \in Seq(AnyPage)
      BY <1>0, <1>1, <2>1, TableType
    <3>2. start[i] = End(pt, i - 1) /\ End(pt, i - 1) \in Nat
      BY <1>1, <3>1, FoundStarts, EndNext
    <3> HIDE DEF start
    <3> QED
      BY <3>2
  <2> HIDE DEF start
  <2>2. \A i \in 1..Len(pt) : p[i] = q[i]
    BY <2>1 DEF CutTable, start
  <2>3. p = [i \in 1..Len(pt) |-> p[i]]
    OBVIOUS
  <2>4. q = [i \in 1..Len(pt) |-> q[i]]
    BY DEF CutTable
  <2> HIDE DEF p, q
  <2> QED
    BY <2>2, <2>3, <2>4
<1> HIDE DEF p
<1>5. /\ q \in Seq(AnyPage)
      /\ \A i \in 1..Len(q) : q[i].data # << >> => q[i] \in GoodPage(f)
      /\ Flatten(q) = Without(t, offset, offset + size)
  <2>1. End(pt, k - 1) <= offset
    BY <1>1
  <2> QED
    BY <1>0, <1>1, <2>1, CutTableText DEF t
<1> HIDE DEF q
<1> DEFINE w == NotEmpty(q)
<1>6. w \in Tables(f) /\ Flatten(w) = Removed(t, offset, size)
  <2>1. Without(t, offset, offset + size) = Removed(t, offset, size)
    BY <1>0, RemovedIs
  <2> QED
    BY <1>5, <2>1, KeptTable
<1>7. e.total_size - size = Len(Flatten(w))
  BY <1>0, <1>6, RemovedIs
<1>8. IsFresh(r, f, w, e.total_size - size)
  <2>1. r = ForgetPage(Renewed(g, w, e.total_size - size))
    BY <1>1, <1>2, <1>4 DEF Renewed
  <2> QED
    BY <1>3, <2>1 DEF IsFresh
<1> HIDE DEF w
<1>9. Valid(r, f) /\ r.page_table = w
  BY <1>6, <1>7, <1>8, FreshIsValid
<1> QED
  BY <1>6, <1>9 DEF r, t, pt

---------------------------------------------------------------------------
(* Pages that are copied from one buffer to another.                       *)

(* CutPage makes a cut at offset and leaves the bytes alone.               *)
LEMMA CutPageAt ==
    ASSUME NEW f, NEW e, Valid(e, f), NEW offset \in 0..e.total_size
    PROVE  LET c == CutPage(e, offset)
               q == c.e.page_table
               t == Flatten(e.page_table)
           IN  /\ c.e \in Buffers(f) /\ c.e.total_size = e.total_size
               /\ q \in Tables(f) /\ c.n \in 0..Len(q)
               /\ Flatten(First(q, c.n)) = Before(t, offset)
               /\ Flatten(Rest(q, c.n)) = From(t, offset)
<1> DEFINE c  == CutPage(e, offset)
           q  == c.e.page_table
           pt == e.page_table
           t  == Flatten(pt)
           g  == find_page(e, offset)
           k  == g.cur_page
           o  == offset - g.cur_offset
           d  == pt[k].data
<1>0. /\ e \in Buffers(f) /\ pt \in Tables(f) /\ t \in Texts /\ Len(pt) \in Nat
      /\ e.total_size = Len(t) /\ e.total_size \in Nat /\ offset \in Nat
      /\ pt \in Seq(AnyPage)
  BY ValidParts, TableType
<1>1. CASE offset >= e.total_size
  <2>1. c = [e |-> e, n |-> Len(pt)]
    BY <1>1 DEF CutPage
  <2>2. offset = Len(t)
    BY <1>0, <1>1
  <2> HIDE DEF c
  <2>3. c.e = e /\ c.n = Len(pt) /\ q = pt
    BY <2>1
  <2>4. First(pt, Len(pt)) = pt /\ Rest(pt, Len(pt)) = << >>
    BY <1>0 DEF First, Rest
  <2>5. Before(t, offset) = t /\ From(t, offset) = << >>
    <3>1. offset \in 0..Len(t)
      BY <1>0, <2>2
    <3> QED
      BY <1>0, <2>2, <3>1, TextParts DEF NoText
  <2> QED
    BY <1>0, <2>3, <2>4, <2>5, FlattenEmpty DEF c
<1>2. CASE ~(offset >= e.total_size)
  <2>0. offset < e.total_size
    BY <1>0, <1>2
  <2>1. /\ Valid(g, f) /\ g.page_table = pt /\ g.total_size = e.total_size
        /\ k \in 1..Len(pt) /\ g.cur_offset = End(pt, k - 1)
        /\ g.cur_offset <= offset /\ offset < g.cur_offset + Len(d)
    BY <2>0, FindPage
  <2>2. c = IF o = 0 THEN [e |-> g, n |-> k - 1]
            ELSE [e |-> [g EXCEPT !.page_table =
                           [eb_insert1(pt, k, From(d, o)) EXCEPT
                              ![k] = NewPage(Before(d, o))]],
                  n |-> k]
    BY <1>2, <2>1 DEF CutPage, update_page
  <2>3. g \in Buffers(f)
    BY <2>1, ValidParts
  <2> DEFINE A == Flatten(First(pt, k - 1))
             Z == Flatten(Rest(pt, k))
  <2> HIDE DEF g, k
  <2>4. /\ A \in Texts /\ Z \in Texts /\ d \in Texts
        /\ t = Joined(Joined(A, d), Z) /\ Len(A) = g.cur_offset
        /\ Flatten(First(pt, k)) = Joined(A, d)
    BY <1>0, <2>1, FirstTexts
  <2>5. /\ g.cur_offset \in Nat /\ Len(d) \in 1..MaxPageSize /\ Len(d) \in Nat
    BY <1>0, <2>1, <2>3, TableType, EndNext DEF Buffers
  <2>6. o \in 0..Len(d) /\ o < Len(d) /\ Len(A) + o = offset
    <3> HIDE DEF d, A
    <3> QED
      BY <1>0, <2>1, <2>4, <2>5
  <2> HIDE DEF o, A, Z, d
  <2>7. /\ Before(t, offset) = Joined(A, Before(d, o))
        /\ From(t, offset) = Joined(From(d, o), Z)
    <3>1. /\ Before(Joined(Joined(A, d), Z), Len(A) + o) = Joined(A, Before(d, o))
          /\ From(Joined(Joined(A, d), Z), Len(A) + o) = Joined(From(d, o), Z)
      BY ZenonT(60), <2>4, <2>6, CutMiddle
    <3> QED
      BY <2>4, <2>6, <3>1
  <2>8. /\ Before(d, o) \in Texts /\ From(d, o) \in Texts /\ Len(Before(d, o)) = o
        /\ o = 0 => From(d, o) = d /\ Before(d, o) = NoText
    BY <2>4, <2>6, TextParts
  <2>9. CASE o = 0
    <3>1. c = [e |-> g, n |-> k - 1]
      BY <2>2, <2>9
    <3> HIDE DEF c
    <3>2. c.e = g /\ c.n = k - 1 /\ q = pt /\ k - 1 \in 0..Len(pt)
      BY <1>0, <2>1, <3>1
    <3>3. Before(t, offset) = A
      BY <2>4, <2>7, <2>8, <2>9, JoinedEmpty
    <3>4. From(t, offset) = Flatten(Rest(pt, k - 1))
      <4>1. k - 1 \in 0..(Len(pt) - 1) /\ (k - 1) + 1 = k
        BY <1>0, <2>1
      <4>2. Flatten(Rest(pt, k - 1)) = pt[(k - 1) + 1].data \o Flatten(Rest(pt, (k - 1) + 1))
        BY <1>0, <4>1, RestStep
      <4>3. Flatten(Rest(pt, k - 1)) = Joined(d, Z)
        BY <4>1, <4>2 DEF Joined, d, Z
      <4> QED
        BY <2>7, <2>8, <2>9, <4>3
    <3>5. /\ c.e \in Buffers(f) /\ c.e.total_size = e.total_size
          /\ q \in Tables(f) /\ c.n \in 0..Len(q)
          /\ Flatten(First(q, c.n)) = Before(t, offset)
          /\ Flatten(Rest(q, c.n)) = From(t, offset)
      BY <1>0, <2>1, <2>3, <3>2, <3>3, <3>4 DEF A
    <3> QED
      BY <3>5 DEF c
  <2>10. CASE o # 0
    <3> DEFINE q1 == eb_insert1(pt, k, From(d, o))
               pg == NewPage(Before(d, o))
               q2 == [q1 EXCEPT ![k] = pg]
               e2 == [g EXCEPT !.page_table = q2]
    <3>1. c = [e |-> e2, n |-> k]
      BY <2>2, <2>10
    <3>2. k \in 0..Len(pt) /\ k \in Nat
      BY <1>0, <2>1
    <3>3. /\ q1 \in Tables(f) /\ k \in 0..Len(q1)
          /\ First(q1, k) = First(pt, k)
          /\ Flatten(Rest(q1, k)) = Joined(From(d, o), Flatten(Rest(pt, k)))
      BY <1>0, <2>8, <3>2, Insert1Texts
    <3>4. pg \in GoodPage(f) /\ pg.data = Before(d, o)
      <4>1. Before(d, o) \in Seq(Byte)
        BY <2>8 DEF Texts
      <4>2. Len(Before(d, o)) \in 1..MaxPageSize
        BY <2>5, <2>6, <2>8, <2>10, PageSizeAssumption
      <4> QED
        BY <4>1, <4>2, NewPageGood
    <3> HIDE DEF q1, pg
    <3>5. k \in 1..Len(q1) /\ k <= Len(q1)
      BY <1>0, <2>1, <3>3
    <3>6. First(q1, k - 1) = First(pt, k - 1)
      <4>1. q1 \in Seq(GoodPage(f)) /\ pt \in Seq(GoodPage(f)) /\ k <= Len(pt)
        BY <1>0, <3>2, <3>3 DEF Tables
      <4> QED
        BY <3>3, <3>5, <4>1, SameFirst
    <3>7. /\ q2 \in Tables(f) /\ Len(q2) = Len(q1) /\ q2[k] = pg
          /\ First(q2, k - 1) = First(q1, k - 1) /\ Rest(q2, k) = Rest(q1, k)
      BY <3>3, <3>4, <3>5, Replaced DEF Tables
    <3> HIDE DEF q2
    <3>8. k \in 1..Len(q2) /\ k \in 0..Len(q2)
      BY <3>2, <3>5, <3>7
    <3>9. Flatten(First(q2, k)) = Joined(Flatten(First(q2, k - 1)), q2[k].data)
      BY <3>7, <3>8, FirstTexts
    <3>10. Flatten(First(q2, k)) = Before(t, offset)
      BY <2>7, <3>4, <3>6, <3>7, <3>9 DEF A
    <3>11. Flatten(Rest(q2, k)) = From(t, offset)
      BY <2>7, <3>3, <3>7 DEF Z
    <3>12. e2 \in Buffers(f) /\ e2.page_table = q2 /\ e2.total_size = g.total_size
      BY <2>3, <3>7 DEF Buffers
    <3> HIDE DEF e2, c
    <3>13. c.e = e2 /\ c.n = k
      BY <3>1
    <3>14. /\ c.e \in Buffers(f) /\ c.e.total_size = e.total_size
           /\ q \in Tables(f) /\ c.n \in 0..Len(q)
           /\ Flatten(First(q, c.n)) = Before(t, offset)
           /\ Flatten(Rest(q, c.n)) = From(t, offset)
      BY <2>1, <3>7, <3>8, <3>10, <3>11, <3>12, <3>13
    <3> QED
      BY <3>14 DEF c
  <2> QED
    BY <2>9, <2>10
<1> QED
  BY <1>1, <1>2

LEMMA CopyPageGood ==
    ASSUME NEW f, NEW pg \in GoodPage(f)
    PROVE  CopyPage(pg) \in GoodPage(f) /\ CopyPage(pg).data = pg.data
<1> DEFINE d == pg.data
<1>1. /\ pg \in Page /\ pg.src \in Nat
      /\ pg.readonly => d = Part(f, pg.src, Len(d))
  BY DEF GoodPage, Page
<1>2. d \in Seq(Byte) /\ Len(d) \in 1..MaxPageSize
  BY <1>1, PageData
<1>3. NewPage(d) \in GoodPage(f) /\ NewPage(d).data = d
  BY <1>2, NewPageGood
<1>4. pg.readonly => /\ MappedPage(d, pg.src) \in GoodPage(f)
                     /\ MappedPage(d, pg.src).data = d
  BY <1>1, <1>2, MappedPageGood
<1> HIDE DEF d
<1>5. CopyPage(pg) = IF pg.readonly THEN MappedPage(d, pg.src) ELSE NewPage(d)
  BY DEF CopyPage, d
<1>6. CopyPage(pg) \in GoodPage(f) /\ CopyPage(pg).data = d
  BY <1>3, <1>4, <1>5
<1> QED
  BY <1>6 DEF d

(* The starts of all pages.                                                *)
LEMMA AllStarts ==
    ASSUME NEW pt \in Seq(AnyPage), NEW i \in 0..Len(pt)
    PROVE  Starts(pt, 1, 0)[i + 1] = End(pt, i)
<1>0. Len(pt) \in Nat /\ 1 \in 1..(Len(pt) + 1) /\ i + 1 \in 1..(Len(pt) + 1)
      /\ (i + 1) - 1 = i /\ 1 - 1 = 0
  BY PageType
<1>1. End(pt, 0) = 0 /\ End(pt, i) \in Nat
  BY EndBounds
<1> DEFINE s == Starts(pt, 1, 0)
<1>2. \A j \in 1..(Len(pt) + 1) : s[j] = 0 + (End(pt, j - 1) - End(pt, 1 - 1))
  BY <1>0, StartsAre
<1> HIDE DEF s
<1>3. s[i + 1] = 0 + (End(pt, (i + 1) - 1) - End(pt, 1 - 1))
  BY <1>0, <1>2
<1>4. s[i + 1] = End(pt, i)
  BY <1>0, <1>1, <1>3
<1> QED
  BY <1>4 DEF s

(* WholePages is defined: m pages fit, and no more.                        *)
LEMMA WholePagesIs ==
    ASSUME NEW src \in Seq(AnyPage), NEW left \in Nat, left <= Len(Flatten(src))
    PROVE  LET m == WholePages(src, left)
           IN  /\ m \in 0..Len(src) /\ End(src, m) <= left
               /\ m < Len(src) => End(src, m + 1) > left
<1> DEFINE start == Starts(src, 1, 0)
           P(m) == /\ start[m + 1] <= left
                   /\ m < Len(src) => start[m + 2] > left
           w == CHOOSE m \in 0..Len(src) : P(m)
<1>0. Len(src) \in Nat
  BY PageType
<1>1. \A i \in 0..Len(src) : start[i + 1] = End(src, i)
  BY AllStarts
<1>2. w = WholePages(src, left)
  BY DEF WholePages
<1> HIDE DEF start
<1>3. \E m \in 0..Len(src) : P(m)
  <2>1. CASE left < Len(Flatten(src))
    <3>1. PICK k \in 1..Len(src) : End(src, k - 1) <= left /\ left < End(src, k)
      BY <2>1, PageAt
    <3>2. /\ k - 1 \in 0..Len(src) /\ k \in 0..Len(src)
          /\ (k - 1) + 1 = k /\ (k - 1) + 2 = k + 1
      BY <1>0
    <3>3. start[(k - 1) + 1] = End(src, k - 1) /\ start[k + 1] = End(src, k)
      BY <1>1, <3>2
    <3>5. End(src, k) \in Nat
      BY <3>2, EndBounds
    <3>4. P(k - 1)
      BY <3>1, <3>2, <3>3, <3>5
    <3> QED
      BY <3>2, <3>4
  <2>2. CASE ~(left < Len(Flatten(src)))
    <3>1. Len(src) \in 0..Len(src) /\ ~(Len(src) < Len(src))
      BY <1>0
    <3>2. End(src, Len(src)) = Len(Flatten(src)) /\ End(src, Len(src)) \in Nat
      BY <3>1, EndBounds
    <3>3. P(Len(src))
      BY <1>1, <2>2, <3>1, <3>2
    <3> QED
      BY <3>1, <3>3
  <2> QED
    BY <2>1, <2>2
<1>4. w \in 0..Len(src) /\ P(w)
  BY <1>3
<1> HIDE DEF w
<1>5. End(src, w) <= left
  BY <1>1, <1>4
<1>6. w < Len(src) => End(src, w + 1) > left
  <2> SUFFICES ASSUME w < Len(src) PROVE End(src, w + 1) > left
    OBVIOUS
  <2>1. w + 1 \in 0..Len(src) /\ (w + 1) + 1 = w + 2
    BY <1>0, <1>4
  <2> QED
    BY <1>1, <1>4, <2>1
<1> QED
  BY <1>2, <1>4, <1>5, <1>6

(* Copies of the first m pages.                                            *)
Copies(src, m) == [i \in 1..m |-> CopyPage(src[i])]

LEMMA CopiesText ==
    ASSUME NEW f, NEW src \in Tables(f), NEW m \in 0..Len(src)
    PROVE  /\ Copies(src, m) \in Tables(f) /\ Len(Copies(src, m)) = m
           /\ Flatten(Copies(src, m)) = Flatten(First(src, m))
<1> DEFINE q == Copies(src, m)
           p == First(src, m)
<1>0. Len(src) \in Nat /\ m \in Nat
  BY TableType
<1>1. ASSUME NEW i \in 1..m
      PROVE  q[i] \in GoodPage(f) /\ q[i].data = src[i].data
  <2>1. i \in 1..Len(src)
    BY <1>0
  <2>2. src[i] \in GoodPage(f)
    BY <2>1, TableType
  <2>3. q[i] = CopyPage(src[i])
    BY DEF Copies
  <2> HIDE DEF q
  <2> QED
    BY <2>2, <2>3, CopyPageGood
<1>2. q = [i \in 1..m |-> q[i]]
  BY DEF Copies
<1>3. p \in Tables(f) /\ Len(p) = m /\ \A i \in 1..m : p[i] = src[i]
  BY CutType DEF Tables
<1> HIDE DEF q, p
<1>4. q \in Tables(f) /\ Len(q) = m
  BY <1>0, <1>1, <1>2 DEF Tables
<1>5. q \in Seq(AnyPage) /\ p \in Seq(AnyPage)
  BY <1>3, <1>4, TableType
<1>6. Len(q) = Len(p) /\ \A i \in 1..Len(p) : q[i].data = p[i].data
  BY <1>1, <1>3, <1>4
<1>7. Flatten(q) = Flatten(p)
  BY <1>5, <1>6, SameText
<1> QED
  BY <1>4, <1>7 DEF q, p

(* Three tables, cut behind the second.                                    *)
LEMMA GluedSecond ==
    ASSUME NEW f, NEW p \in Tables(f), NEW q \in Tables(f), NEW r \in Tables(f)
    PROVE  LET t == Glued(p, q, r)
               n == Len(p) + Len(q)
           IN  /\ t \in Tables(f) /\ n \in 0..Len(t)
               /\ Flatten(First(t, n)) = Joined(Flatten(p), Flatten(q))
               /\ Rest(t, n) = r
<1> DEFINE pq == p \o q
           t  == pq \o r
           n  == Len(p) + Len(q)
<1>1. pq \in Tables(f) /\ Len(pq) = n /\ Flatten(pq) = Flatten(p) \o Flatten(q)
  BY TableCat
<1>2. t = Glued(p, q, r)
  BY DEF Glued
<1>3. Len(p) \in Nat /\ Len(q) \in Nat /\ Len(r) \in Nat
  BY TableType
<1>4. n \in Nat
  BY <1>3
<1> HIDE DEF pq, n
<1>5. t \in Tables(f) /\ Len(t) = Len(pq) + Len(r)
  BY <1>1, TableCat
<1>6. First(t, Len(pq)) = pq /\ Rest(t, Len(pq)) = r
  BY <1>1, Glue DEF Tables
<1> HIDE DEF t
<1>7. n \in 0..Len(t)
  BY <1>1, <1>3, <1>4, <1>5
<1>8. Flatten(First(t, n)) = Joined(Flatten(p), Flatten(q)) /\ Rest(t, n) = r
  BY <1>1, <1>6 DEF Joined
<1> QED
  BY <1>2, <1>5, <1>7, <1>8 DEF n

(* InsertPages inserts the first left bytes of the pages src.              *)
LEMMA InsertPagesText ==
    ASSUME NEW f, NEW pt \in Tables(f), NEW n \in 0..Len(pt), NEW src \in Tables(f),
           NEW left \in Nat, left <= Len(Flatten(src))
    PROVE  LET r == InsertPages(pt, n, src, left, WholePages(src, left))
           IN  /\ r \in Tables(f)
               /\ Flatten(r) = Joined(Joined(Flatten(First(pt, n)),
                                             Before(Flatten(src), left)),
                                      Flatten(Rest(pt, n)))
<1> DEFINE m    == WholePages(src, left)
           F    == First(pt, n)
           R    == Rest(pt, n)
           pt1  == Glued(F, Copies(src, m), R)
           nm   == n + m
           rest == left - End(src, m)
           S    == Flatten(src)
           r    == InsertPages(pt, n, src, left, m)
           x    == Flatten(F)
           z    == Flatten(R)
           c    == Flatten(First(src, m))
<1>0. /\ src \in Seq(AnyPage) /\ Len(src) \in Nat /\ S \in Texts
      /\ n \in Nat /\ Len(S) \in Nat /\ left <= Len(S)
  BY TableType DEF Texts
<1>1. /\ m \in 0..Len(src) /\ End(src, m) <= left /\ m \in Nat
      /\ m < Len(src) => End(src, m + 1) > left
  BY <1>0, WholePagesIs
<1>2. r = IF rest = 0 THEN pt1
          ELSE eb_insert1(pt1, nm, Before(src[m + 1].data, rest))
  <2>1. Starts(src, 1, 0)[m + 1] = End(src, m)
    BY <1>0, <1>1, AllStarts
  <2> HIDE DEF m
  <2> QED
    BY <2>1 DEF InsertPages, Glued, Copies, First, Rest
<1> HIDE DEF m, S
<1>3. F \in Tables(f) /\ R \in Tables(f) /\ Len(F) = n /\ x \in Texts /\ z \in Texts
  BY TableCut DEF Texts
<1>4. /\ Copies(src, m) \in Tables(f) /\ Len(Copies(src, m)) = m
      /\ Flatten(Copies(src, m)) = c
  BY <1>1, CopiesText
<1>5. c \in Texts /\ Len(c) = End(src, m) /\ S = Joined(c, Flatten(Rest(src, m)))
      /\ Flatten(Rest(src, m)) \in Texts
  BY <1>1, TableTexts DEF S
<1> HIDE DEF F, R, c
<1>6. /\ pt1 \in Tables(f) /\ nm \in 0..Len(pt1)
      /\ Flatten(First(pt1, nm)) = Joined(x, c) /\ Rest(pt1, nm) = R
  <2> DEFINE k == Len(F) + Len(Copies(src, m))
  <2>1. /\ pt1 \in Tables(f) /\ k \in 0..Len(pt1)
        /\ Flatten(First(pt1, k)) = Joined(Flatten(F), Flatten(Copies(src, m)))
        /\ Rest(pt1, k) = R
    BY <1>3, <1>4, GluedSecond
  <2>2. k = nm
    BY <1>3, <1>4
  <2> HIDE DEF k, pt1, nm
  <2> QED
    BY <1>4, <2>1, <2>2
<1> HIDE DEF pt1, nm
<1>7. rest \in Nat /\ End(src, m) \in Nat /\ left = End(src, m) + rest
  <2>1. End(src, m) \in Nat
    BY <1>0, <1>1, EndBounds
  <2> QED
    BY <1>1, <2>1
<1> HIDE DEF rest, x, z
<1>8. /\ r \in Tables(f)
      /\ Flatten(r) = Joined(Joined(x, Before(S, left)), z)
  <2>1. CASE rest = 0
    <3>1. r = pt1 /\ left = Len(c)
      BY <1>2, <1>5, <1>7, <2>1
    <3>2. Before(S, left) = c
      <4> DEFINE y == Flatten(Rest(src, m))
      <4>1. c \in Seq(Byte) /\ y \in Seq(Byte) /\ S = c \o y
        BY <1>5 DEF Texts, Joined
      <4> HIDE DEF y
      <4>2. Len(c) \in 0..Len(c)
        BY <4>1
      <4>3. Before(c \o y, Len(c)) = Before(c, Len(c))
        BY <4>1, <4>2, CutLeft
      <4>4. Before(c, Len(c)) = c
        BY <4>1, BeforeAll
      <4> QED
        BY <3>1, <4>1, <4>3, <4>4
    <3>3. Flatten(pt1) = Joined(Flatten(First(pt1, nm)), Flatten(Rest(pt1, nm)))
      BY <1>6, TableTexts
    <3> HIDE DEF r
    <3> QED
      BY <1>6, <3>1, <3>2, <3>3 DEF z
  <2>2. CASE rest # 0
    <3> DEFINE D == src[m + 1].data
               d == Before(D, rest)
    <3>1. m < Len(src)
      <4>1. End(src, Len(src)) = Len(S)
        BY <1>0, EndBounds DEF S
      <4>2. m # Len(src)
        BY <1>0, <1>7, <2>2, <4>1
      <4> QED
        BY <1>0, <1>1, <4>2
    <3>2. m + 1 \in 1..Len(src) /\ (m + 1) - 1 = m
      BY <1>0, <1>1, <3>1
    <3>3. /\ D \in Texts
          /\ Flatten(First(src, m + 1)) = Joined(c, D)
          /\ S = Joined(Flatten(First(src, m + 1)), Flatten(Rest(src, m + 1)))
          /\ Flatten(Rest(src, m + 1)) \in Texts
      <4> DEFINE k == m + 1
      <4>1. k \in 1..Len(src) /\ k - 1 = m
        BY <3>2
      <4> HIDE DEF k
      <4>2. /\ src[k].data \in Texts
            /\ Flatten(First(src, k)) = Joined(Flatten(First(src, k - 1)), src[k].data)
            /\ Flatten(src) = Joined(Flatten(First(src, k)), Flatten(Rest(src, k)))
            /\ Flatten(Rest(src, k)) \in Texts
        BY <4>1, FirstTexts
      <4> QED
        BY <4>1, <4>2 DEF k, c, S
    <3>4. End(src, m + 1) = End(src, m) + Len(D) /\ Len(D) \in Nat
      BY <1>0, <3>2, EndNext
    <3> HIDE DEF D
    <3>5. rest \in 0..Len(D)
      BY <1>1, <1>7, <3>1, <3>4
    <3>6. d \in Texts
      BY <3>3, <3>5, TextParts
    <3>7. Before(S, left) = Joined(c, d)
      <4> DEFINE y == Flatten(Rest(src, m + 1))
      <4>1. y \in Texts /\ S = Joined(Joined(c, D), y)
        BY <3>3
      <4> HIDE DEF y
      <4>2. Before(Joined(Joined(c, D), y), Len(c) + rest) = Joined(c, Before(D, rest))
        <5>1. c \in Texts /\ D \in Texts /\ y \in Texts /\ rest \in 0..Len(D)
          BY <1>5, <3>3, <3>5, <4>1
        <5> HIDE DEF c, rest
        <5> QED
          BY ONLY <5>1, CutMiddle
      <4> QED
        BY <1>5, <1>7, <4>1, <4>2
    <3>8. r = eb_insert1(pt1, nm, d)
      BY <1>2, <2>2 DEF D
    <3> HIDE DEF r, d
    <3>9. /\ r \in Tables(f) /\ nm \in 0..Len(r)
          /\ First(r, nm) = First(pt1, nm)
          /\ Flatten(Rest(r, nm)) = Joined(d, Flatten(Rest(pt1, nm)))
      BY <1>6, <3>6, <3>8, Insert1Texts
    <3>10. Flatten(r) = Joined(Flatten(First(r, nm)), Flatten(Rest(r, nm)))
      BY <3>9, TableTexts
    <3>11. Flatten(r) = Joined(Joined(x, c), Joined(d, z))
      BY <1>6, <3>9, <3>10 DEF z
    <3>12. Joined(Joined(x, c), Joined(d, z)) = Joined(Joined(x, Joined(c, d)), z)
      <4>1. Joined(x, c) \in Texts
        BY <1>3, <1>5, JoinedType
      <4>2. Joined(Joined(x, c), Joined(d, z)) = Joined(Joined(Joined(x, c), d), z)
        BY <1>3, <3>6, <4>1, JoinedAssoc
      <4>3. Joined(Joined(x, c), d) = Joined(x, Joined(c, d))
        BY <1>3, <1>5, <3>6, JoinedAssoc
      <4> QED
        BY <4>2, <4>3
    <3> QED
      BY <3>7, <3>9, <3>11, <3>12
  <2> QED
    BY <2>1, <2>2
<1> QED
  BY <1>8 DEF r, m, x, z, F, R, S

(* InsertAtCut inserts them at the cut.                                    *)
LEMMA InsertAtCutText ==
    ASSUME NEW f, NEW e, Valid(e, f), NEW offset \in 0..e.total_size,
           NEW src \in Tables(f), NEW left \in Nat, left <= Len(Flatten(src)),
           NEW size
    PROVE  LET r == InsertAtCut(CutPage(e, offset), src, size, left)
           IN  /\ Valid(r, f)
               /\ Flatten(r.page_table)
                    = Inserted(Flatten(e.page_table), offset,
                               Before(Flatten(src), left))
<1> DEFINE c == CutPage(e, offset)
           q == c.e.page_table
           t == Flatten(e.page_table)
           d == Before(Flatten(src), left)
           w == InsertPages(q, c.n, src, left, WholePages(src, left))
           r == InsertAtCut(c, src, size, left)
<1>1. /\ c.e \in Buffers(f) /\ c.e.total_size = e.total_size
      /\ q \in Tables(f) /\ c.n \in 0..Len(q)
      /\ Flatten(First(q, c.n)) = Before(t, offset)
      /\ Flatten(Rest(q, c.n)) = From(t, offset)
  BY CutPageAt
<1>2. r = ForgetPage([c.e EXCEPT !.page_table = w,
                                 !.total_size = c.e.total_size + left])
  BY DEF InsertAtCut, SizeAfter
<1> HIDE DEF c, r
<1>3. /\ w \in Tables(f)
      /\ Flatten(w) = Joined(Joined(Flatten(First(q, c.n)), d), Flatten(Rest(q, c.n)))
  BY <1>1, InsertPagesText
<1> HIDE DEF w, d
<1>4. Flatten(w) = Inserted(t, offset, d)
  BY <1>1, <1>3 DEF Inserted
<1>5. t \in Texts /\ e.total_size = Len(t) /\ e.total_size \in Nat
  BY ValidParts
<1>6. d \in Texts /\ Len(d) = left
  <2>1. Flatten(src) \in Texts /\ left \in 0..Len(Flatten(src))
    BY TableType DEF Texts
  <2> QED
    BY <2>1, TextParts DEF d
<1>7. c.e.total_size + left = Len(Flatten(w))
  <2>1. offset \in 0..Len(t)
    BY <1>5
  <2>2. Len(Inserted(t, offset, d)) = Len(t) + Len(d)
    BY <1>5, <1>6, <2>1, InsertedType
  <2> QED
    BY <1>1, <1>4, <1>5, <1>6, <2>2
<1>8. IsFresh(r, f, w, c.e.total_size + left)
  <2>1. r = ForgetPage(Renewed(c.e, w, c.e.total_size + left))
    BY <1>2 DEF Renewed
  <2> QED
    BY <1>1, <2>1 DEF IsFresh
<1>9. Valid(r, f) /\ r.page_table = w
  BY <1>3, <1>7, <1>8, FreshIsValid
<1> QED
  BY <1>4, <1>9 DEF r, c, d

---------------------------------------------------------------------------
(* eb_insert_buffer.                                                       *)

(* Two texts inserted one behind the other are inserted as one.            *)
LEMMA InsertedTwice ==
    ASSUME NEW t \in Texts, NEW offset \in 0..Len(t), NEW d1 \in Texts, NEW d2 \in Texts
    PROVE  Inserted(Inserted(t, offset, d1), offset + Len(d1), d2)
             = Inserted(t, offset, Joined(d1, d2))
<1> DEFINE x == Before(t, offset)
           z == From(t, offset)
           u == Joined(Joined(x, d1), z)
<1>1. x \in Texts /\ z \in Texts /\ Len(x) = offset
  BY TextParts
<1>2. Len(d1) \in 0..Len(d1)
  BY DEF Texts
<1>3. Before(d1, Len(d1)) = d1 /\ From(d1, Len(d1)) = NoText
  BY <1>2, TextParts
<1> HIDE DEF x, z
<1>4. /\ Before(u, Len(x) + Len(d1)) = Joined(x, d1)
      /\ From(u, Len(x) + Len(d1)) = Joined(NoText, z)
  BY SMTT(30), <1>1, <1>2, <1>3, CutMiddle
<1>5. Joined(NoText, z) = z
  BY <1>1, JoinedEmpty
<1>6. Joined(Joined(x, d1), d2) = Joined(x, Joined(d1, d2))
  BY <1>1, JoinedAssoc
<1>7. Inserted(u, Len(x) + Len(d1), d2) = Joined(Joined(x, Joined(d1, d2)), z)
  BY <1>4, <1>5, <1>6 DEF Inserted
<1> QED
  BY <1>1, <1>7 DEF Inserted, x, z

(* What the pages from number n + 1 on hold.                               *)
LEMMA RestText ==
    ASSUME NEW f, NEW pt \in Tables(f), NEW n \in 0..Len(pt)
    PROVE  /\ Flatten(Rest(pt, n)) = From(Flatten(pt), End(pt, n))
           /\ Flatten(Rest(pt, n)) \in Texts /\ Rest(pt, n) \in Tables(f)
<1> DEFINE x == Flatten(First(pt, n))
           z == Flatten(Rest(pt, n))
<1>1. /\ x \in Texts /\ z \in Texts /\ Flatten(pt) = Joined(x, z)
      /\ Len(x) = End(pt, n)
  BY TableTexts
<1>2. Rest(pt, n) \in Tables(f)
  BY TableCut
<1> HIDE DEF x, z
<1>3. x \o z = Joined(x, z) /\ 0 \in 0..Len(z) /\ Len(x) + 0 = Len(x)
  BY <1>1 DEF Joined, Texts
<1>4. From(x \o z, Len(x) + 0) = From(z, 0)
  BY <1>1, <1>3, CutRight DEF Texts
<1>5. From(z, 0) = z
  BY <1>1, BeforeAll DEF Texts
<1> QED
  BY <1>1, <1>2, <1>3, <1>4, <1>5 DEF z

(* The bytes from some byte of a page on: those that are left in the page, *)
(* then the pages that follow.                                             *)
LEMMA FromPage ==
    ASSUME NEW f, NEW pt \in Tables(f), NEW k \in 1..Len(pt),
           NEW o \in 0..Len(pt[k].data)
    PROVE  /\ From(Flatten(pt), End(pt, k - 1) + o)
                = Joined(From(pt[k].data, o), Flatten(Rest(pt, k)))
           /\ From(pt[k].data, o) \in Texts
           /\ Len(From(pt[k].data, o)) = Len(pt[k].data) - o
           /\ Flatten(Rest(pt, k)) \in Texts
<1> DEFINE x == Flatten(First(pt, k - 1))
           D == pt[k].data
           z == Flatten(Rest(pt, k))
<1>1. /\ x \in Texts /\ D \in Texts /\ z \in Texts
      /\ Flatten(pt) = Joined(Joined(x, D), z)
      /\ Len(x) = End(pt, k - 1)
  BY FirstTexts
<1>2. o \in 0..Len(D)
  OBVIOUS
<1>3. From(D, o) \in Texts /\ Len(From(D, o)) = Len(D) - o
  BY <1>1, <1>2, TextParts
<1> HIDE DEF x, D, z
<1>4. From(Joined(Joined(x, D), z), Len(x) + o) = Joined(From(D, o), z)
  BY ONLY ZenonT(60), <1>1, <1>2, CutMiddle
<1> QED
  BY <1>1, <1>3, <1>4 DEF D, z

(* The first bytes of two texts joined.                                    *)
LEMMA BeforeJoined ==
    ASSUME NEW x \in Texts, NEW y \in Texts, NEW n \in 0..(Len(x) + Len(y))
    PROVE  /\ n <= Len(x) => Before(Joined(x, y), n) = Before(x, n)
           /\ n >= Len(x) => Before(Joined(x, y), n) = Joined(x, Before(y, n - Len(x)))
<1>1. x \in Seq(Byte) /\ y \in Seq(Byte) /\ Len(x) \in Nat /\ Len(y) \in Nat
  BY DEF Texts
<1>2. ASSUME n <= Len(x) PROVE Before(x \o y, n) = Before(x, n)
  <2>1. n \in 0..Len(x)
    BY <1>1, <1>2
  <2> QED
    BY <1>1, <2>1, CutLeft
<1>3. ASSUME n >= Len(x) PROVE Before(x \o y, n) = x \o Before(y, n - Len(x))
  <2> DEFINE m == n - Len(x)
  <2>1. m \in 0..Len(y) /\ Len(x) + m = n
    BY <1>1, <1>3
  <2> HIDE DEF m
  <2>2. Before(x \o y, Len(x) + m) = x \o Before(y, m)
    BY <1>1, <2>1, CutRight
  <2> QED
    BY <2>1, <2>2 DEF m
<1> QED
  BY <1>2, <1>3 DEF Joined

(* eb_insert_buffer inserts a part of the bytes of the other buffer, which *)
(* keeps its pages.                                                        *)
LEMMA InsertBuffer ==
    ASSUME NEW f, NEW e, Valid(e, f), NEW src, Valid(src, f),
           NEW offset \in 0..e.total_size, NEW from \in Nat, NEW size \in Nat,
           size > 0, from + size <= src.total_size
    PROVE  LET r == eb_insert_buffer(e, offset, src, from, size)
           IN  /\ Valid(r.dest, f) /\ Valid(r.src, f)
               /\ r.src.page_table = src.page_table
               /\ Flatten(r.dest.page_table)
                    = Inserted(Flatten(e.page_table), offset,
                               Part(Flatten(src.page_table), from, size))
<1> DEFINE g == find_page(src, from)
           pt == src.page_table
           k == g.cur_page
           o == from - g.cur_offset
           page == g.page_table[k].data
           t == Flatten(e.page_table)
           S == Flatten(pt)
           d == Part(S, from, size)
           r == eb_insert_buffer(e, offset, src, from, size)
<1>1. pt \in Tables(f) /\ S \in Texts /\ src.total_size = Len(S) /\ Len(S) \in Nat
  BY ValidParts
<1>2. /\ Valid(g, f) /\ g.page_table = pt
      /\ k \in 1..Len(pt) /\ g.cur_offset = End(pt, k - 1)
      /\ g.cur_offset <= from /\ from < g.cur_offset + Len(pt[k].data)
  <2>1. from < src.total_size
    BY <1>1
  <2> QED
    BY <2>1, FindPage
<1>3. /\ t \in Texts /\ e.total_size = Len(t) /\ Len(t) \in Nat
  BY ValidParts
<1>4. /\ pt \in Seq(AnyPage) /\ page \in Texts /\ page = pt[k].data
      /\ Len(page) \in Nat /\ End(pt, k - 1) \in Nat /\ Len(pt) \in Nat
  <2>1. pt \in Seq(AnyPage) /\ Len(pt) \in Nat
    BY <1>1, TableType
  <2>2. End(pt, k - 1) \in Nat /\ Len(pt[k].data) \in Nat
    BY <1>2, <2>1, EndNext
  <2>3. pt[k].data \in Texts
    BY <1>1, <1>2, FirstTexts
  <2> QED
    BY <1>2, <2>1, <2>2, <2>3
<1>5. o \in Nat /\ o < Len(page) /\ from = End(pt, k - 1) + o
  <2> HIDE DEF g, pt, page
  <2> QED
    BY SMTT(30), <1>2, <1>4
<1>6. /\ From(S, from) = Joined(From(page, o), Flatten(Rest(pt, k)))
      /\ From(page, o) \in Texts /\ Len(From(page, o)) = Len(page) - o
      /\ Flatten(Rest(pt, k)) \in Texts
  <2> DEFINE x == From(page, o)
  <2>1. o \in 0..Len(pt[k].data)
    BY SMTT(30), <1>4, <1>5
  <2> HIDE DEF o, g, pt
  <2>2. /\ From(Flatten(pt), End(pt, k - 1) + o)
             = Joined(From(pt[k].data, o), Flatten(Rest(pt, k)))
        /\ From(pt[k].data, o) \in Texts
        /\ Len(From(pt[k].data, o)) = Len(pt[k].data) - o
        /\ Flatten(Rest(pt, k)) \in Texts
    BY <1>1, <1>2, <2>1, FromPage
  <2> QED
    BY <1>4, <1>5, <2>2
<1>7. d = Before(From(S, from), size) /\ d \in Texts /\ Len(d) = size
  BY <1>1, PartIs DEF Texts
<1> HIDE DEF g, pt, k, S, d, t
<1>8. CASE o = 0
  <2> DEFINE pages == SubSeq(g.page_table, k, Len(g.page_table))
             q == Rest(pt, k - 1)
  <2>1. k - 1 \in 0..Len(pt) /\ (k - 1) + 1 = k
    BY <1>2, <1>4
  <2>2. pages = q
    BY <1>2, <2>1 DEF Rest
  <2>3. Flatten(q) = From(S, from) /\ Flatten(q) \in Texts /\ q \in Tables(f)
    <3>1. Flatten(q) = From(Flatten(pt), End(pt, k - 1)) /\ Flatten(q) \in Texts /\ q \in Tables(f)
      BY <1>1, <2>1, RestText
    <3>2. End(pt, k - 1) = from
      BY <1>4, <1>5, <1>8
    <3> QED
      BY <3>1, <3>2 DEF S
  <2>4. r.src = g /\ r.dest = InsertAtCut(CutPage(e, offset + 0), pages, size, size - 0)
    BY <1>8 DEF eb_insert_buffer, g, k
  <2>5. offset + 0 = offset /\ size - 0 = size
    OBVIOUS
  <2> DEFINE w == InsertAtCut(CutPage(e, offset), q, size, size)
  <2>6. r.dest = w
    BY <2>2, <2>4, <2>5
  <2>7. size <= Len(Flatten(q))
    <3>1. Len(From(S, from)) = Len(S) - from
      <4>1. from \in 0..Len(S)
        BY <1>1
      <4> QED
        BY <1>1, <4>1, TextParts
    <3> QED
      BY <1>1, <2>3, <3>1
  <2> HIDE DEF pages, q, r, o, page
  <2>8. Valid(w, f) /\ Flatten(w.page_table) = Inserted(t, offset, Before(Flatten(q), size))
    BY <2>3, <2>7, InsertAtCutText DEF t
  <2> HIDE DEF w
  <2> QED
    BY <1>2, <1>7, <2>3, <2>4, <2>6, <2>8 DEF S, t, d, r, pt
<1>9. CASE o # 0
  <2> DEFINE len == Minimum(Len(page) - o, size)
             first == Part(page, o, len)
             pages == SubSeq(g.page_table, k + 1, Len(g.page_table))
             q == Rest(pt, k)
             left == size - Len(first)
             e1 == eb_insert_lowlevel(e, offset, first)
  <2>1. len \in Nat /\ len <= size /\ len <= Len(page) - o /\ o + len <= Len(page)
        /\ (len < size => len = Len(page) - o)
    <3>1. o \in Nat /\ Len(page) \in Nat /\ o < Len(page)
      BY <1>4, <1>5
    <3> HIDE DEF o, page
    <3> QED
      BY <3>1 DEF Minimum
  <2>2. first = Before(From(page, o), len) /\ first \in Texts /\ Len(first) = len
    <3>1. page \in Seq(Byte) /\ o \in Nat
      BY <1>4, <1>5 DEF Texts
    <3> HIDE DEF len, page, o
    <3> QED
      BY <2>1, <3>1, PartIs DEF Texts
  <2>3. pages = q
    BY <1>2 DEF Rest
  <2>4. /\ r.src = g
        /\ r.dest = IF left = 0 THEN e1
                    ELSE InsertAtCut(CutPage(e1, offset + Len(first)), pages, size, left)
    BY <1>9 DEF eb_insert_buffer, g, k
  <2>5. /\ Valid(e1, f) /\ e1.total_size = e.total_size + Len(first)
        /\ Flatten(e1.page_table) = Inserted(t, offset, first)
    <3> HIDE DEF first
    <3> QED
      BY <2>2, InsertLow DEF t
  <2>6. Valid(r.src, f) /\ r.src.page_table = src.page_table
    BY <1>2, <2>4 DEF pt
  <2> DEFINE y == Flatten(q)
             x == From(page, o)
  <2>7. x \in Texts /\ y \in Texts /\ From(S, from) = Joined(x, y)
        /\ Len(x) = Len(page) - o /\ Len(y) \in Nat
    BY <1>6 DEF Texts
  <2>8. size <= Len(x) + Len(y)
    <3>1. Len(From(S, from)) = Len(S) - from
      <4>1. from \in 0..Len(S)
        BY <1>1
      <4> QED
        BY <1>1, <4>1, TextParts
    <3>2. Len(Joined(x, y)) = Len(x) + Len(y)
      <4> HIDE DEF x, y
      <4> QED
        BY <2>7, JoinedLen
    <3> QED
      BY <1>1, <2>7, <3>1, <3>2
  <2> HIDE DEF r, o, page, y, x
  <2>9. Len(x) \in Nat /\ size \in 0..(Len(x) + Len(y))
    BY <2>7, <2>8 DEF Texts
  <2>10. /\ size <= Len(x) => d = Before(x, size)
         /\ size >= Len(x) => d = Joined(x, Before(y, size - Len(x)))
    <3>1. /\ size <= Len(x) => Before(Joined(x, y), size) = Before(x, size)
          /\ size >= Len(x) => Before(Joined(x, y), size) = Joined(x, Before(y, size - Len(x)))
      BY ONLY <2>7, <2>9, BeforeJoined
    <3> QED
      BY <1>7, <2>7, <3>1
  <2> HIDE DEF first, e1, len
  <2>11. CASE left = 0
    <3>1. len = size /\ size <= Len(x)
      BY <2>1, <2>2, <2>7, <2>11
    <3>2. first = d
      BY <2>2, <2>10, <3>1 DEF x
    <3>3. r.dest = e1
      BY <2>4, <2>11
    <3> QED
      BY <2>5, <2>6, <3>2, <3>3 DEF r, t, d, S, pt
  <2>12. CASE left # 0
    <3>1. len < size /\ len = Len(x) /\ left = size - Len(x) /\ left \in Nat
          /\ left <= Len(y)
      BY <2>1, <2>2, <2>7, <2>9, <2>12
    <3>2. first = x
      <4>1. Len(x) \in 0..Len(x)
        BY <2>9
      <4>2. Before(x, Len(x)) = x
        BY <2>7, <4>1, TextParts
      <4> QED
        BY <2>2, <3>1, <4>2 DEF x
    <3>3. d = Joined(first, Before(y, left))
      BY <2>9, <2>10, <3>1, <3>2
    <3> DEFINE p == offset + Len(first)
               c == Before(y, left)
               w == InsertAtCut(CutPage(e1, p), q, size, left)
    <3>4. r.dest = w
      BY <2>3, <2>4, <2>12
    <3>5. p \in 0..e1.total_size
      BY <1>3, <2>2, <2>5, <2>1
    <3>6. q \in Tables(f)
      <4>1. k \in 0..Len(pt)
        BY <1>2, <1>4
      <4> QED
        BY <1>1, <4>1, TableCut
    <3>7. left <= Len(Flatten(q))
      BY <3>1 DEF y
    <3> HIDE DEF p, left, q
    <3>8. /\ Valid(w, f)
          /\ Flatten(w.page_table)
               = Inserted(Flatten(e1.page_table), p, Before(Flatten(q), left))
      BY <2>5, <3>1, <3>5, <3>6, <3>7, InsertAtCutText
    <3>9. c \in Texts
      <4>1. left \in 0..Len(y)
        BY <2>7, <3>1
      <4> QED
        BY <2>7, <4>1, TextParts
    <3>10. Flatten(w.page_table) = Inserted(Inserted(t, offset, first), offset + Len(first), c)
      BY <2>5, <3>8 DEF y, p
    <3> HIDE DEF w, c
    <3>11. Inserted(Inserted(t, offset, first), offset + Len(first), c)
             = Inserted(t, offset, Joined(first, c))
      <4>1. offset \in 0..Len(t)
        BY <1>3
      <4> QED
        BY ZenonT(60), <1>3, <2>2, <3>9, <4>1, InsertedTwice
    <3> QED
      BY <2>6, <3>3, <3>4, <3>8, <3>10, <3>11 DEF r, t, d, S, pt, c
  <2> QED
    BY <2>11, <2>12
<1> QED
  BY <1>8, <1>9

---------------------------------------------------------------------------
(* Loading.                                                                *)

LEMMA EmptyBufferIs ==
    ASSUME NEW f
    PROVE  /\ Valid(EmptyBuffer, f) /\ EmptyBuffer.total_size = 0
           /\ Flatten(EmptyBuffer.page_table) = NoText
<1>1. << >> \in Tables(f) /\ Len(<< >>) = 0
  BY DEF Tables
<1>2. EmptyBuffer \in [page_table : Tables(f), total_size : Nat, cur_page : Nat,
                       cur_offset : Nat]
  BY <1>1 DEF EmptyBuffer
<1>3. /\ EmptyBuffer.page_table = << >> /\ EmptyBuffer.total_size = 0
      /\ EmptyBuffer.cur_page = 0
  BY DEF EmptyBuffer
<1> QED
  BY <1>1, <1>2, <1>3, FlattenEmpty DEF Valid, NoText

(* raw_load_buffer1 yields sound pages.                                    *)
LEMMA LoadBuffer ==
    ASSUME NEW f \in Seq(Byte)
    PROVE  Valid(raw_load_buffer1(f), f)
<1>1. Valid(EmptyBuffer, f) /\ 0 \in 0..EmptyBuffer.total_size /\ f \in Texts
  BY EmptyBufferIs DEF Texts
<1>2. Valid(eb_insert_lowlevel(EmptyBuffer, 0, f), f)
  BY <1>1, InsertLow
<1> QED
  BY <1>1, <1>2 DEF raw_load_buffer1, eb_insert

(* So does mmap_buffer, whose pages refer to the file.                     *)
LEMMA MapBuffer ==
    ASSUME NEW f \in Seq(Byte)
    PROVE  Valid(mmap_buffer(f), f)
<1> DEFINE c == Len(Chunks(f))
           q == [i \in 1..c |-> MappedPage(Chunks(f)[i], (i - 1) * MaxPageSize)]
<1>0. c = NbChunks(Len(f)) /\ c \in Nat /\ Len(f) \in Nat
  BY ChunkType, ChunkCount
<1>1. ASSUME NEW i \in 0..(c - 1)
      PROVE  /\ i * MaxPageSize \in Nat
             /\ Chunks(f)[i + 1] \in Seq(Byte)
             /\ Len(Chunks(f)[i + 1]) \in 1..MaxPageSize
             /\ Chunks(f)[i + 1]
                  = Part(f, i * MaxPageSize, Len(Chunks(f)[i + 1]))
  <2> DEFINE x == i * MaxPageSize
             size == Minimum(MaxPageSize, Len(f) - x)
  <2>1. Chunks(f)[i + 1] = Part(f, x, size) /\ size \in 1..MaxPageSize
    BY <1>0, ChunkType
  <2>2. x \in Nat /\ x < Len(f)
    BY <1>0, ChunkCount
  <2>3. size \in Nat /\ x + size <= Len(f)
    <3>1. MaxPageSize \in Nat
      BY PageSizeAssumption
    <3> HIDE DEF x
    <3> QED
      BY <1>0, <2>2, <3>1 DEF Minimum
  <2>4. x = i * MaxPageSize
    OBVIOUS
  <2> HIDE DEF x, size
  <2>5. Part(f, x, size) \in Seq(Byte) /\ Len(Part(f, x, size)) = size
    BY <2>2, <2>3, PartIs
  <2> QED
    BY <2>1, <2>2, <2>4, <2>5
<1>2. ASSUME NEW i \in 1..c
      PROVE  q[i] \in GoodPage(f) /\ q[i].data = Chunks(f)[i]
  <2> DEFINE d == Chunks(f)[i]
             s == (i - 1) * MaxPageSize
  <2>1. i - 1 \in 0..(c - 1) /\ (i - 1) + 1 = i
    BY <1>0
  <2>2. /\ s \in Nat /\ d \in Seq(Byte) /\ Len(d) \in 1..MaxPageSize
        /\ d = Part(f, s, Len(d))
    BY <1>1, <2>1
  <2>3. q[i] = MappedPage(d, s)
    OBVIOUS
  <2> HIDE DEF q, d, s
  <2>4. MappedPage(d, s) \in GoodPage(f) /\ MappedPage(d, s).data = d
    BY <2>2, MappedPageGood
  <2> QED
    BY <2>3, <2>4 DEF d
<1>3. q \in Tables(f) /\ Len(q) = c
  <2>1. q = [i \in 1..c |-> q[i]]
    OBVIOUS
  <2> HIDE DEF q, c
  <2> QED
    BY <1>0, <1>2, <2>1 DEF Tables
<1>4. mmap_buffer(f) = Renewed(EmptyBuffer, q, Len(f))
  BY DEF mmap_buffer, Renewed
<1>5. EmptyBuffer \in Buffers(f)
  BY EmptyBufferIs, ValidParts
<1> HIDE DEF q
<1>6. q \in Seq(AnyPage)
  BY <1>3, TableType
<1>7. \A i \in 0..(Len(q) - 1) : q[i + 1].data = Chunks(f)[i + 1]
  <2>1. \A i \in 0..(Len(q) - 1) : i + 1 \in 1..c
    BY <1>0, <1>3
  <2> QED
    BY <1>2, <2>1
<1>8. Flatten(q) = f
  BY <1>0, <1>3, <1>6, <1>7, ChunksFlat
<1> DEFINE r == Renewed(EmptyBuffer, q, Len(f))
<1>9. r \in Buffers(f) /\ r.page_table = q /\ r.total_size = Len(f) /\ r.cur_page = 0
  BY <1>0, <1>3, <1>5 DEF Renewed, Buffers, EmptyBuffer
<1> HIDE DEF r
<1>10. Valid(r, f)
  BY <1>8, <1>9 DEF Valid, Buffers
<1> QED
  BY <1>4, <1>10 DEF r

---------------------------------------------------------------------------
(* Counts of lines and characters.                                         *)

LEMMA WidthType == \A c, cs : Width(c, cs) \in {1, 2}
  BY DEF Width

(* The recursion of CountChars, which goes forwards, holds at i.           *)
CountsAt(g, d, cs, i) ==
    g[i] = IF i > Len(d) THEN 0 ELSE 1 + g[i + Width(d[i], cs)]

(* It is well defined.                                                     *)
LEMMA CountExists ==
    ASSUME NEW d \in Texts, NEW cs
    PROVE  \E g \in [1..(Len(d) + 2) -> Nat] :
             \A i \in 1..(Len(d) + 2) : CountsAt(g, d, cs, i)
<1> DEFINE n == Len(d)
           F == [1..(n + 2) -> Nat]
           T == {k \in Nat : \E g \in F : \A i \in 1..(n + 2) :
                               i > n - k => CountsAt(g, d, cs, i)}
<1>0. n \in Nat
  BY DEF Texts
<1>1. 0 \in T
  <2> DEFINE g == [i \in 1..(n + 2) |-> 0]
  <2>1. g \in F /\ \A i \in 1..(n + 2) : g[i] = 0
    OBVIOUS
  <2> HIDE DEF g
  <2>2. \A i \in 1..(n + 2) : i > n - 0 => CountsAt(g, d, cs, i)
    BY <1>0, <2>1 DEF CountsAt
  <2> QED
    BY <2>1, <2>2
<1>2. ASSUME NEW k \in 0..(n - 1), k \in T PROVE k + 1 \in T
  <2>1. PICK g \in F : \A i \in 1..(n + 2) : i > n - k => CountsAt(g, d, cs, i)
    BY <1>2
  <2> DEFINE j == n - k
             w == Width(d[j], cs)
             h == [i \in 1..(n + 2) |-> IF i = j THEN 1 + g[j + w] ELSE g[i]]
  <2>2. w \in {1, 2}
    BY WidthType
  <2> HIDE DEF w
  <2>3. j \in 1..n /\ j + w \in 1..(n + 2) /\ j + w # j
    BY <1>0, <2>2
  <2>4. h \in F
    BY <2>3
  <2>5. h[j] = 1 + g[j + w] /\ \A i \in 1..(n + 2) : i # j => h[i] = g[i]
    BY <1>0, <2>3
  <2> HIDE DEF h
  <2>6. ASSUME NEW i \in 1..(n + 2), i > n - (k + 1) PROVE CountsAt(h, d, cs, i)
    <3>1. CASE i = j
      <4>1. h[j] = 1 + h[j + w]
        BY <2>3, <2>5
      <4>2. ~(j > Len(d))
        BY <1>0, <2>3
      <4> QED
        BY <3>1, <4>1, <4>2 DEF CountsAt, w
    <3>2. CASE i # j
      <4>1. i > n - k /\ i > j
        BY <1>0, <2>6, <3>2
      <4>2. CountsAt(g, d, cs, i)
        BY <2>1, <4>1
      <4>3. h[i] = g[i]
        BY <2>5, <3>2
      <4> DEFINE v == Width(d[i], cs)
      <4>4. v \in {1, 2}
        BY WidthType
      <4>5. g[i] = IF i > Len(d) THEN 0 ELSE 1 + g[i + v]
        BY <4>2 DEF CountsAt
      <4> HIDE DEF v
      <4>6. CASE i > Len(d)
        BY <4>3, <4>5, <4>6 DEF CountsAt
      <4>7. CASE ~(i > Len(d))
        <5>1. i + v \in 1..(n + 2) /\ i + v # j
          BY <1>0, <2>3, <4>1, <4>4, <4>7
        <5>2. h[i + v] = g[i + v]
          BY <2>5, <5>1
        <5> QED
          BY <4>3, <4>5, <4>7, <5>2 DEF CountsAt, v
      <4> QED
        BY <4>6, <4>7
    <3> QED
      BY <3>1, <3>2
  <2>7. k + 1 \in Nat
    BY <1>0
  <2> QED
    BY <2>4, <2>6, <2>7
<1>3. n \in T
  <2> HIDE DEF T, n
  <2> QED
    BY <1>0, <1>1, <1>2, UpTo
<1>4. PICK g \in F : \A i \in 1..(n + 2) : i > n - n => CountsAt(g, d, cs, i)
  BY <1>3
<1>5. \A i \in 1..(n + 2) : i > n - n
  BY <1>0
<1> QED
  BY <1>4, <1>5

LEMMA CountType ==
    ASSUME NEW d \in Texts, NEW cs
    PROVE  CountChars(d, cs) \in Nat
<1> DEFINE n == Len(d)
           f == CHOOSE g : g = [i \in 1..(n + 2) |->
                  IF i > n THEN 0 ELSE 1 + g[i + Width(d[i], cs)]]
<1>0. n \in Nat
  BY DEF Texts
<1>1. CountChars(d, cs) = f[1]
  BY DEF CountChars
<1>2. PICK g \in [1..(n + 2) -> Nat] : \A i \in 1..(n + 2) : CountsAt(g, d, cs, i)
  BY CountExists
<1>3. g = [i \in 1..(n + 2) |-> IF i > n THEN 0 ELSE 1 + g[i + Width(d[i], cs)]]
  <2>1. g = [i \in 1..(n + 2) |-> g[i]]
    OBVIOUS
  <2>2. \A i \in 1..(n + 2) :
           g[i] = IF i > n THEN 0 ELSE 1 + g[i + Width(d[i], cs)]
    BY <1>2 DEF CountsAt
  <2> QED
    BY <2>1, <2>2
<1>4. f = [i \in 1..(n + 2) |-> IF i > n THEN 0 ELSE 1 + f[i + Width(d[i], cs)]]
  BY <1>3
<1> HIDE DEF f
<1> DEFINE T == {k \in 0..n : \A i \in 1..(n + 2) : i > n - k => f[i] \in Nat}
<1>5. 0 \in T
  <2>1. \A i \in 1..(n + 2) : i > n - 0 => f[i] = 0
    BY <1>0, <1>4
  <2> QED
    BY <1>0, <2>1
<1>6. ASSUME NEW k \in 0..(n - 1), k \in T PROVE k + 1 \in T
  <2> DEFINE j == n - k
             w == Width(d[j], cs)
  <2>1. w \in {1, 2}
    BY WidthType
  <2>2. j \in 1..(n + 2) /\ ~(j > n)
    BY <1>0
  <2>3. f[j] = 1 + f[j + w]
    BY <1>4, <2>2
  <2> HIDE DEF w
  <2>4. j + w \in 1..(n + 2) /\ j + w > n - k
    BY <1>0, <2>1, <2>2
  <2>5. f[j + w] \in Nat
    BY <1>6, <2>4
  <2>6. f[j] \in Nat
    BY <2>3, <2>5
  <2>7. ASSUME NEW i \in 1..(n + 2), i > n - (k + 1) PROVE f[i] \in Nat
    <3>1. i = j \/ i > n - k
      BY <1>0, <2>7
    <3> QED
      BY <1>6, <2>6, <3>1
  <2>8. k + 1 \in 0..n
    BY <1>0
  <2> QED
    BY <2>7, <2>8
<1>7. n \in T
  <2> HIDE DEF T, n
  <2> QED
    BY <1>0, <1>5, <1>6, UpTo
<1>8. f[1] \in Nat
  <2>1. 1 \in 1..(n + 2) /\ 1 > n - n
    BY <1>0
  <2> QED
    BY <1>7, <2>1
<1> QED
  BY <1>1, <1>8

(* Cardinality yields a number for a set of places in a text.              *)
LEMMA PlacesType ==
    ASSUME NEW d \in Texts, NEW I \in SUBSET (1..Len(d))
    PROVE  /\ IsFiniteSet(I) /\ Cardinality(I) \in Nat
           /\ Cardinality(I) <= Len(d)
<1>0. Len(d) \in Nat /\ Len(d) \in Int
  BY DEF Texts
<1>1. IsFiniteSet(1..Len(d)) /\ Cardinality(1..Len(d)) = IF 1 > Len(d) THEN 0 ELSE Len(d)-1+1
  BY SMTT(30), <1>0, FS_Interval
<1>2. IsFiniteSet(I) /\ Cardinality(I) <= Cardinality(1..Len(d))
  BY <1>1, FS_Subset
<1>3. Cardinality(I) \in Nat
  BY <1>2, FS_CardinalityType
<1> QED
  BY <1>0, <1>1, <1>2, <1>3

LEMMA LineStartType ==
    ASSUME NEW d \in Texts
    PROVE  LineStart(d) \in 0..Len(d)
<1> DEFINE I == Newlines(d)
<1>0. Len(d) \in Nat
  BY DEF Texts
<1>1. CASE I = {}
  BY <1>0, <1>1 DEF LineStart
<1>2. CASE I # {}
  <2>1. \E i \in I : \A j \in I : j <= i
    <3> DEFINE U == {Len(d) - i : i \in I}
    <3>1. I \subseteq 1..Len(d)
      BY DEF Newlines
    <3>2. U \in SUBSET Nat /\ U # {}
      BY <1>0, <1>2, <3>1
    <3> HIDE DEF U
    <3>3. PICK x \in U : \A y \in U : x <= y
      BY <3>2, LeastNumber
    <3>4. PICK i \in I : x = Len(d) - i
      BY <3>3 DEF U
    <3>5. ASSUME NEW j \in I PROVE j <= i
      <4>1. Len(d) - j \in U
        BY DEF U
      <4>2. i \in 1..Len(d) /\ j \in 1..Len(d)
        BY <3>1
      <4> QED
        BY <1>0, <3>3, <3>4, <4>1, <4>2
    <3> QED
      BY <3>5
  <2>2. LineStart(d) \in I
    BY <1>2, <2>1 DEF LineStart
  <2> QED
    BY <1>0, <2>2 DEF Newlines
<1> QED
  BY <1>1, <1>2

LEMMA PosType ==
    ASSUME NEW d \in Texts, NEW cs
    PROVE  get_pos(d, cs).line \in Nat /\ get_pos(d, cs).col \in Nat
<1>1. Newlines(d) \in SUBSET (1..Len(d))
  BY DEF Newlines
<1>2. Cardinality(Newlines(d)) \in Nat
  BY <1>1, PlacesType
<1>3. From(d, LineStart(d)) \in Texts
  BY LineStartType, TextParts
<1>4. CountChars(From(d, LineStart(d)), cs) \in Nat
  BY <1>3, CountType
<1> QED
  BY <1>2, <1>4 DEF get_pos

LEMMA CharsType ==
    ASSUME NEW d \in Texts, NEW cs
    PROVE  get_chars(d, cs) \in Nat
<1>1. {i \in 1..Len(d) : d[i] # Cont} \in SUBSET (1..Len(d))
  OBVIOUS
<1>2. Cardinality({i \in 1..Len(d) : d[i] # Cont}) \in Nat
  BY <1>1, PlacesType
<1>3. Len(d) \in Nat
  BY DEF Texts
<1> QED
  BY <1>2, <1>3 DEF get_chars

(* Pages with the same bytes take the place of others, as they do when     *)
(* counts are cached.                                                      *)
SameBytes(q, pt, f) ==
    /\ q = [i \in 1..Len(pt) |-> q[i]]
    /\ \A i \in 1..Len(pt) : q[i] \in GoodPage(f) /\ q[i].data = pt[i].data

LEMMA Recounted ==
    ASSUME NEW f, NEW e, Valid(e, f), NEW q, SameBytes(q, e.page_table, f)
    PROVE  LET r == [e EXCEPT !.page_table = q]
           IN  Valid(r, f) /\ Flatten(r.page_table) = Flatten(e.page_table)
<1> DEFINE pt == e.page_table
<1>1. pt \in Tables(f)
  BY ValidParts
<1>2. pt \in Seq(AnyPage) /\ Len(pt) \in Nat
  BY <1>1, TableType
<1>3. SameBytes(q, pt, f)
  OBVIOUS
<1> HIDE DEF pt
<1>4. q \in Tables(f) /\ Len(q) = Len(pt)
  BY <1>2, <1>3 DEF SameBytes, Tables
<1>5. q \in Seq(AnyPage)
  BY <1>4, TableType
<1>6. \A i \in 1..Len(pt) : q[i].data = pt[i].data
  BY <1>3 DEF SameBytes
<1>7. SameSizes(pt, q)
  BY <1>4, <1>6 DEF SameSizes
<1>8. Flatten(q) = Flatten(pt)
  BY <1>2, <1>4, <1>5, <1>6, SameText
<1> QED
  BY <1>4, <1>7, <1>8, KeepsCache DEF pt

LEMMA ValidPosGood ==
    ASSUME NEW f, NEW pg \in GoodPage(f), NEW cs
    PROVE  ValidPos(pg, cs) \in GoodPage(f) /\ ValidPos(pg, cs).data = pg.data
<1> DEFINE l == get_pos(pg.data, cs).line
           c == get_pos(pg.data, cs).col
           q == [pg EXCEPT !.valid_pos = TRUE, !.nb_lines = l, !.col = c]
<1>1. pg \in Page /\ pg.data \in Texts
  BY PageData DEF GoodPage, Texts
<1>2. l \in Nat /\ c \in Nat
  BY <1>1, PosType
<1>3. ValidPos(pg, cs) = IF pg.valid_pos THEN pg ELSE q
  BY DEF ValidPos
<1> HIDE DEF l, c
<1>4. q \in Page /\ q.data = pg.data /\ q.readonly = pg.readonly /\ q.src = pg.src
  BY <1>1, <1>2 DEF Page
<1> HIDE DEF q
<1>5. q \in GoodPage(f)
  BY <1>4 DEF GoodPage
<1> QED
  BY <1>3, <1>4, <1>5

LEMMA WithPosBytes ==
    ASSUME NEW f, NEW pt \in Tables(f), NEW n, NEW cs
    PROVE  SameBytes(WithPos(pt, n, cs), pt, f)
<1> DEFINE q == WithPos(pt, n, cs)
<1>1. q = [i \in 1..Len(pt) |-> IF i <= n THEN ValidPos(pt[i], cs) ELSE pt[i]]
  BY DEF WithPos
<1> HIDE DEF q
<1>2. ASSUME NEW i \in 1..Len(pt)
      PROVE  q[i] \in GoodPage(f) /\ q[i].data = pt[i].data
  <2>1. pt[i] \in GoodPage(f)
    BY TableType
  <2>2. ValidPos(pt[i], cs) \in GoodPage(f) /\ ValidPos(pt[i], cs).data = pt[i].data
    BY <2>1, ValidPosGood
  <2>3. q[i] = ValidPos(pt[i], cs) \/ q[i] = pt[i]
    BY <1>1
  <2> QED
    BY <2>1, <2>2, <2>3
<1>3. q = [i \in 1..Len(pt) |-> q[i]]
  BY <1>1
<1> QED
  BY <1>2, <1>3 DEF SameBytes, q

LEMMA WithCharsBytes ==
    ASSUME NEW f, NEW pt \in Tables(f), NEW n, NEW cs
    PROVE  SameBytes(WithChars(pt, n, cs), pt, f)
<1> DEFINE q == WithChars(pt, n, cs)
           Counted(pg) == [pg EXCEPT !.valid_char = TRUE,
                                     !.nb_chars = get_chars(pg.data, cs)]
<1>1. q = [i \in 1..Len(pt) |-> IF i <= n /\ ~pt[i].valid_char
                                THEN Counted(pt[i]) ELSE pt[i]]
  BY DEF WithChars
<1> HIDE DEF q
<1>2. ASSUME NEW i \in 1..Len(pt)
      PROVE  q[i] \in GoodPage(f) /\ q[i].data = pt[i].data
  <2> DEFINE pg == pt[i]
             c == get_chars(pg.data, cs)
             r == [pg EXCEPT !.valid_char = TRUE, !.nb_chars = c]
  <2>1. pg \in GoodPage(f)
    BY TableType
  <2>2. pg \in Page /\ pg.data \in Texts
    BY <2>1, PageData DEF GoodPage, Texts
  <2>3. c \in Nat
    BY <2>2, CharsType
  <2>4. q[i] = r \/ q[i] = pg
    BY <1>1
  <2> HIDE DEF c, pg
  <2>5. r \in Page /\ r.data = pg.data /\ r.readonly = pg.readonly /\ r.src = pg.src
    BY <2>2, <2>3 DEF Page
  <2> HIDE DEF r
  <2>6. r \in GoodPage(f)
    BY <2>1, <2>5 DEF GoodPage
  <2> QED
    BY <2>1, <2>4, <2>5, <2>6 DEF pg
<1>3. q = [i \in 1..Len(pt) |-> q[i]]
  BY <1>1
<1> QED
  BY <1>2, <1>3 DEF SameBytes, q

(* The buffer after one of the operations that ask for a position or go to *)
(* one.                                                                    *)
Asked(e, cs, x) == {eb_get_pos(e, cs, x).e, eb_goto_pos(e, cs, x).e,
                    eb_get_char_offset(e, cs, x).e, eb_goto_char(e, cs, x).e}

(* None of them changes the bytes.                                         *)
LEMMA PositionsKeep ==
    ASSUME NEW f, NEW e, Valid(e, f), NEW cs, NEW x,
           NEW r \in Asked(e, cs, x)
    PROVE  Valid(r, f) /\ Flatten(r.page_table) = Flatten(e.page_table)
<1> DEFINE Pos(n) == [e EXCEPT !.page_table = WithPos(e.page_table, n, cs)]
           Chars(n) == [e EXCEPT !.page_table = WithChars(e.page_table, n, cs)]
<1>1. \E n : r = Pos(n) \/ r = Chars(n) \/ r = e
  <2>1. \E n : eb_get_pos(e, cs, x).e = Pos(n)
    BY DEF eb_get_pos
  <2>2. \E n : eb_goto_pos(e, cs, x).e = Pos(n)
    BY DEF eb_goto_pos
  <2>3. \E n : \/ eb_get_char_offset(e, cs, x).e = Chars(n)
               \/ eb_get_char_offset(e, cs, x).e = e
    BY DEF eb_get_char_offset
  <2>4. \E n : \/ eb_goto_char(e, cs, x).e = Chars(n)
               \/ eb_goto_char(e, cs, x).e = e
    BY DEF eb_goto_char
  <2> HIDE DEF Pos, Chars
  <2> QED
    BY <2>1, <2>2, <2>3, <2>4 DEF Asked
<1>2. PICK n : r = Pos(n) \/ r = Chars(n) \/ r = e
  BY <1>1
<1>3. e.page_table \in Tables(f)
  BY ValidParts
<1>4. Valid(Pos(n), f) /\ Flatten(Pos(n).page_table) = Flatten(e.page_table)
  <2>1. SameBytes(WithPos(e.page_table, n, cs), e.page_table, f)
    BY <1>3, WithPosBytes
  <2> QED
    BY <2>1, Recounted
<1>5. Valid(Chars(n), f) /\ Flatten(Chars(n).page_table) = Flatten(e.page_table)
  <2>1. SameBytes(WithChars(e.page_table, n, cs), e.page_table, f)
    BY <1>3, WithCharsBytes
  <2> QED
    BY <2>1, Recounted
<1> HIDE DEF Pos, Chars
<1> QED
  BY <1>2, <1>4, <1>5

---------------------------------------------------------------------------
(* The inductive invariant, and what every operation does to the bytes.    *)

(* Both buffers are sound: TypeOK and MappedIntact.                        *)
PageInv ==
    /\ Valid(b, file) /\ Valid(other, file)
    /\ file \in Files
    /\ charset \in Charset \cup {"8859-1"}

LEMMA RangeParts ==
    ASSUME NEW e, e.total_size \in Nat, NEW r \in Ranges(e)
    PROVE  /\ r[1] \in Nat /\ r[2] \in Nat /\ r[2] > 0
           /\ r[1] + r[2] <= e.total_size /\ r[1] < e.total_size
BY DEF Ranges

LEMMA InitPages ==
    ASSUME Init PROVE PageInv
<1>1. file \in Seq(Byte) /\ file \in Files
  BY FilesAssumption DEF Init
<1>2. Valid(mmap_buffer(file), file) /\ Valid(raw_load_buffer1(file), file)
  BY <1>1, MapBuffer, LoadBuffer
<1>3. Valid(other, file)
  BY EmptyBufferIs DEF Init
<1> QED
  BY <1>1, <1>2, <1>3 DEF Init, PageInv

(* The texts of the two buffers.                                           *)
LEMMA InvParts ==
    ASSUME PageInv
    PROVE  /\ Valid(b, file) /\ Valid(other, file)
           /\ Flatten(b.page_table) \in Texts /\ Flatten(other.page_table) \in Texts
           /\ b.total_size \in Nat /\ b.total_size = Len(Flatten(b.page_table))
           /\ other.total_size \in Nat
           /\ other.total_size = Len(Flatten(other.page_table))
BY ValidParts DEF PageInv

LEMMA ReadStep ==
    ASSUME PageInv, NEW r \in Ranges(b), Read(r[1])
    PROVE  PageInv' /\ UNCHANGED <<Flatten(b.page_table), Flatten(other.page_table)>>
<1> DEFINE o == r[1]
<1>1. Valid(b, file) /\ o \in Nat /\ o < b.total_size
  BY InvParts, RangeParts
<1>2. b' = find_page(b, o) /\ UNCHANGED <<other, file, charset>>
  BY DEF Read
<1> HIDE DEF o
<1>3. Valid(b', file) /\ b'.page_table = b.page_table
  BY <1>1, <1>2, FindPage
<1> QED
  BY <1>2, <1>3 DEF PageInv

LEMMA InsertStep ==
    ASSUME PageInv, NEW offset \in 0..b.total_size, NEW d \in Data, Insert(offset, d)
    PROVE  PageInv' /\ Bytes!Insert(offset, d)
<1> DEFINE t == Flatten(b.page_table)
<1>1. Valid(b, file) /\ d \in Texts
  BY DataAssumption DEF PageInv, Texts
<1>2. b' = eb_insert_lowlevel(b, offset, d) /\ UNCHANGED <<other, file, charset>>
  BY DEF Insert, eb_insert
<1>3. Valid(b', file) /\ Flatten(b'.page_table) = Inserted(t, offset, d)
  BY <1>1, <1>2, InsertLow
<1>4. PageInv'
  BY <1>2, <1>3 DEF PageInv
<1>5. Inserted(t, offset, d) = Bytes!Before(t, offset) \o d \o Bytes!From(t, offset)
  BY DEF Inserted, Joined, Before, From, Bytes!Before, Bytes!From
<1> QED
  BY <1>2, <1>3, <1>4, <1>5 DEF Bytes!Insert

LEMMA DeleteStep ==
    ASSUME PageInv, NEW r \in Ranges(b), Delete(r[1], r[2])
    PROVE  PageInv' /\ Bytes!Delete(r[1], r[2])
<1> DEFINE t == Flatten(b.page_table)
           o == r[1]
           size == r[2]
<1>1. /\ Valid(b, file) /\ o \in Nat /\ size \in Nat /\ size > 0
      /\ o + size <= b.total_size
  BY InvParts, RangeParts
<1>2. b' = eb_delete(b, o, size) /\ UNCHANGED <<other, file, charset>>
  BY DEF Delete
<1> HIDE DEF o, size
<1>3. Valid(b', file) /\ Flatten(b'.page_table) = Removed(t, o, size)
  BY <1>1, <1>2, DeleteBytes
<1>4. PageInv'
  BY <1>2, <1>3 DEF PageInv
<1>5. Removed(t, o, size) = Bytes!Before(t, o) \o Bytes!From(t, o + size)
  BY DEF Removed, Joined, Before, From, Bytes!Before, Bytes!From
<1> QED
  BY <1>2, <1>3, <1>4, <1>5 DEF Bytes!Delete, o, size

LEMMA WriteStep ==
    ASSUME PageInv, NEW offset \in 0..b.total_size, NEW d \in Data, Write(offset, d)
    PROVE  PageInv' /\ Bytes!Write(offset, d)
<1> DEFINE t == Flatten(b.page_table)
<1>1. Valid(b, file) /\ d \in Texts
  BY DataAssumption DEF PageInv, Texts
<1>2. b' = eb_write(b, offset, d) /\ UNCHANGED <<other, file, charset>>
  BY DEF Write
<1>3. Valid(b', file) /\ Flatten(b'.page_table) = Overwritten(t, offset, d)
  BY <1>1, <1>2, WriteAnywhere
<1>4. PageInv'
  BY <1>2, <1>3 DEF PageInv
<1>5. Overwritten(t, offset, d)
        = Bytes!Before(t, offset) \o d \o Bytes!From(t, offset + Len(d))
  BY DEF Overwritten, Joined, Before, From, Bytes!Before, Bytes!From
<1> QED
  BY <1>2, <1>3, <1>4, <1>5 DEF Bytes!Write

LEMMA CopyStep ==
    ASSUME PageInv, NEW r \in Ranges(b), Copy(r[1], r[2])
    PROVE  PageInv' /\ Bytes!Copy(r[1], r[2])
<1> DEFINE t == Flatten(b.page_table)
           o == r[1]
           size == r[2]
           d == Part(t, o, size)
           x == eb_insert_buffer(EmptyBuffer, 0, b, o, size)
<1>1. /\ Valid(b, file) /\ o \in Nat /\ size \in Nat /\ size > 0
      /\ o + size <= b.total_size /\ t \in Texts /\ b.total_size = Len(t)
  BY InvParts, RangeParts
<1>2. other' = x.dest /\ b' = x.src /\ UNCHANGED <<file, charset>>
  BY DEF Copy
<1>3. /\ Valid(EmptyBuffer, file) /\ 0 \in 0..EmptyBuffer.total_size
      /\ Flatten(EmptyBuffer.page_table) = NoText
  BY EmptyBufferIs
<1> HIDE DEF o, size
<1>4. /\ Valid(x.dest, file) /\ Valid(x.src, file)
      /\ x.src.page_table = b.page_table
      /\ Flatten(x.dest.page_table)
           = Inserted(Flatten(EmptyBuffer.page_table), 0, d)
  BY <1>1, <1>3, InsertBuffer
<1> HIDE DEF x
<1>5. PageInv'
  BY <1>2, <1>4 DEF PageInv
<1>6. d \in Texts
  BY <1>1, PartIs DEF Texts
<1>7. Inserted(NoText, 0, d) = d
  <2>1. NoText \in Texts /\ 0 \in 0..Len(NoText)
    BY DEF NoText, Texts
  <2>2. Before(NoText, 0) = NoText /\ From(NoText, 0) = NoText
    BY <2>1, TextParts
  <2> QED
    BY <1>6, <2>1, <2>2, JoinedEmpty DEF Inserted
<1>8. d = Bytes!Part(t, o, size)
  BY DEF Part, Bytes!Part
<1> HIDE DEF d
<1> QED
  BY <1>2, <1>3, <1>4, <1>5, <1>7, <1>8 DEF Bytes!Copy, o, size

LEMMA PasteStep ==
    ASSUME PageInv, NEW offset \in 0..b.total_size, NEW r \in Ranges(other),
           Paste(offset, r[1], r[2])
    PROVE  PageInv' /\ Bytes!Paste(offset, r[1], r[2])
<1> DEFINE t == Flatten(b.page_table)
           u == Flatten(other.page_table)
           o == r[1]
           size == r[2]
           d == Part(u, o, size)
           x == eb_insert_buffer(b, offset, other, o, size)
<1>1. /\ Valid(b, file) /\ Valid(other, file)
      /\ o \in Nat /\ size \in Nat /\ size > 0
      /\ o + size <= other.total_size
  BY InvParts, RangeParts
<1>2. b' = x.dest /\ other' = x.src /\ UNCHANGED <<file, charset>>
  BY DEF Paste
<1> HIDE DEF o, size
<1>4. /\ Valid(x.dest, file) /\ Valid(x.src, file)
      /\ x.src.page_table = other.page_table
      /\ Flatten(x.dest.page_table) = Inserted(t, offset, d)
  BY <1>1, InsertBuffer
<1> HIDE DEF x
<1>5. PageInv'
  BY <1>2, <1>4 DEF PageInv
<1>6. Inserted(t, offset, d)
        = Bytes!Before(t, offset) \o Bytes!Part(u, o, size) \o Bytes!From(t, offset)
  BY DEF Inserted, Joined, Before, From, Part, Bytes!Before, Bytes!From, Bytes!Part
<1> HIDE DEF d
<1> QED
  BY <1>2, <1>4, <1>5, <1>6 DEF Bytes!Paste, o, size

LEMMA PositionStep ==
    ASSUME PageInv, NEW x,
           GetPos(x) \/ GotoPos(x) \/ GetChar(x) \/ GotoChar(x)
    PROVE  PageInv' /\ UNCHANGED <<Flatten(b.page_table), Flatten(other.page_table)>>
<1>1. /\ b' \in Asked(b, charset, x)
      /\ UNCHANGED <<other, file, charset>>
  BY DEF GetPos, GotoPos, GetChar, GotoChar, Asked
<1>2. Valid(b, file)
  BY DEF PageInv
<1>3. Valid(b', file) /\ Flatten(b'.page_table) = Flatten(b.page_table)
  BY <1>1, <1>2, PositionsKeep
<1> QED
  BY <1>1, <1>3 DEF PageInv

LEMMA NextStep ==
    ASSUME PageInv, Next
    PROVE  PageInv' /\ [Bytes!Next]_(Bytes!vars)
<1> DEFINE t == Flatten(b.page_table)
           u == Flatten(other.page_table)
<1>0. /\ b.total_size = Len(t) /\ other.total_size = Len(u)
  BY InvParts
<1>1. /\ Ranges(b) = Bytes!Ranges(t) /\ Ranges(other) = Bytes!Ranges(u)
      /\ 0..b.total_size = 0..Len(t)
  BY <1>0 DEF Ranges, Bytes!Ranges
<1>2. ASSUME NEW r \in Ranges(b), Read(r[1]) \/ Delete(r[1], r[2]) \/ Copy(r[1], r[2])
      PROVE  PageInv' /\ [Bytes!Next]_(Bytes!vars)
  <2>1. CASE Read(r[1])
    BY <2>1, ReadStep DEF Bytes!vars
  <2>2. CASE Delete(r[1], r[2])
    <3>1. PageInv' /\ Bytes!Delete(r[1], r[2])
      BY <2>2, DeleteStep
    <3> QED
      BY <1>1, <3>1 DEF Bytes!Next
  <2>3. CASE Copy(r[1], r[2])
    <3>1. PageInv' /\ Bytes!Copy(r[1], r[2])
      BY <2>3, CopyStep
    <3> QED
      BY <1>1, <3>1 DEF Bytes!Next
  <2> QED
    BY <1>2, <2>1, <2>2, <2>3
<1>3. ASSUME NEW offset \in 0..b.total_size, NEW d \in Data,
             Insert(offset, d) \/ Write(offset, d)
      PROVE  PageInv' /\ [Bytes!Next]_(Bytes!vars)
  <2>1. CASE Insert(offset, d)
    <3>1. PageInv' /\ Bytes!Insert(offset, d)
      BY <2>1, InsertStep
    <3> QED
      BY <1>1, <3>1 DEF Bytes!Next
  <2>2. CASE Write(offset, d)
    <3>1. PageInv' /\ Bytes!Write(offset, d)
      BY <2>2, WriteStep
    <3> QED
      BY <1>1, <3>1 DEF Bytes!Next
  <2> QED
    BY <1>3, <2>1, <2>2
<1>4. ASSUME NEW offset \in 0..b.total_size, NEW r \in Ranges(other),
             Paste(offset, r[1], r[2])
      PROVE  PageInv' /\ [Bytes!Next]_(Bytes!vars)
  <2>1. PageInv' /\ Bytes!Paste(offset, r[1], r[2])
    BY <1>4, PasteStep
  <2> QED
    BY <1>1, <2>1 DEF Bytes!Next
<1>5. ASSUME NEW x, GetPos(x) \/ GotoPos(x) \/ GetChar(x) \/ GotoChar(x)
      PROVE  PageInv' /\ [Bytes!Next]_(Bytes!vars)
  BY <1>5, PositionStep DEF Bytes!vars
<1>6. ASSUME NEW cs \in Charset, eb_set_charset(cs)
      PROVE  PageInv' /\ [Bytes!Next]_(Bytes!vars)
  BY <1>6 DEF eb_set_charset, PageInv, Bytes!vars
<1> QED
  BY <1>2, <1>3, <1>4, <1>5, <1>6 DEF Next

(* A step that changes nothing changes no bytes.                           *)
LEMMA StepOrStutter ==
    ASSUME PageInv, [Next]_vars
    PROVE  PageInv' /\ [Bytes!Next]_(Bytes!vars)
<1>1. CASE UNCHANGED vars
  BY <1>1 DEF vars, PageInv, Bytes!vars
<1> QED
  BY <1>1, NextStep

LEMMA PagesSound == Spec => []PageInv
<1>1. Init => PageInv
  BY InitPages
<1>2. PageInv /\ [Next]_vars => PageInv'
  BY StepOrStutter
<1> QED
  BY <1>1, <1>2, PTL DEF Spec

(* What the invariant says of one buffer.                                  *)
LEMMA ValidIsSound ==
    ASSUME NEW f, NEW e, Valid(e, f)
    PROVE  /\ e \in Buffer /\ e.total_size = Len(Flatten(e.page_table))
           /\ CacheSound(e)
           /\ \A i \in 1..Len(e.page_table) :
                e.page_table[i].readonly =>
                  e.page_table[i].data
                    = Part(f, e.page_table[i].src, Len(e.page_table[i].data))
<1> DEFINE pt == e.page_table
           k == e.cur_page
<1>1. e \in Buffers(f) /\ pt \in Tables(f)
  BY ValidParts
<1>2. pt \in Seq(AnyPage) /\ Len(pt) \in Nat /\ \A i \in 1..Len(pt) : pt[i] \in GoodPage(f)
  BY <1>1, TableType
<1>3. pt \in Seq(Page)
  BY <1>1 DEF Tables, GoodPage
<1>4. e \in Buffer
  BY <1>1, <1>3 DEF Buffers, Buffer
<1>5. ASSUME k # 0
      PROVE  k \in 1..Len(pt) /\ e.cur_offset = Starts(pt, 1, 0)[k]
  <2>1. k \in 1..Len(pt) /\ e.cur_offset = End(pt, k - 1)
    BY <1>5 DEF Valid
  <2>2. k - 1 \in 0..Len(pt) /\ (k - 1) + 1 = k
    BY <1>2, <2>1
  <2> HIDE DEF pt, k
  <2>3. Starts(pt, 1, 0)[(k - 1) + 1] = End(pt, k - 1)
    BY <1>2, <2>2, AllStarts
  <2> QED
    BY <2>1, <2>2, <2>3
<1>6. CacheSound(e)
  BY <1>5 DEF CacheSound
<1>7. \A i \in 1..Len(pt) : pt[i].readonly => pt[i].data = Part(f, pt[i].src, Len(pt[i].data))
  BY <1>2 DEF GoodPage
<1> QED
  BY <1>4, <1>6, <1>7 DEF Valid

LEMMA InvIsTypeOK == PageInv => TypeOK
<1> SUFFICES ASSUME PageInv PROVE TypeOK
  OBVIOUS
<1>1. ASSUME NEW e \in {b, other}
      PROVE  e \in Buffer /\ e.total_size = Len(Flatten(e.page_table)) /\ CacheSound(e)
  <2>1. Valid(e, file)
    BY DEF PageInv
  <2> QED
    BY <2>1, ValidIsSound
<1> QED
  BY <1>1 DEF PageInv, TypeOK

LEMMA InvIsMapped == PageInv => MappedIntact
<1> SUFFICES ASSUME PageInv, NEW e \in {b, other}, NEW i \in 1..Len(e.page_table)
             PROVE  e.page_table[i].readonly =>
                      e.page_table[i].data
                        = Part(file, e.page_table[i].src, Len(e.page_table[i].data))
  BY DEF MappedIntact
<1>1. Valid(e, file)
  BY DEF PageInv
<1> QED
  BY <1>1, ValidIsSound

(* eb_read begins in the page found and goes on in the ones behind.        *)
LEMMA ReadBytes ==
    ASSUME NEW f, NEW e, Valid(e, f), NEW offset \in Nat, NEW size \in Nat,
           offset + size <= e.total_size, offset < e.total_size
    PROVE  eb_read(e, offset, size) = Part(Flatten(e.page_table), offset, size)
<1> DEFINE g == find_page(e, offset)
           pt == e.page_table
           k == g.cur_page
           o == offset - g.cur_offset
           t == Flatten(pt)
           q == Rest(pt, k - 1)
           s == End(pt, k - 1)
<1>1. pt \in Tables(f) /\ t \in Texts /\ e.total_size = Len(t) /\ Len(t) \in Nat
  BY ValidParts
<1>2. /\ g.page_table = pt /\ k \in 1..Len(pt) /\ g.cur_offset = s
      /\ g.cur_offset <= offset
  BY FindPage
<1>3. pt \in Seq(AnyPage) /\ Len(pt) \in Nat
  BY <1>1, TableType
<1>4. k - 1 \in 0..Len(pt) /\ (k - 1) + 1 = k
  BY <1>2, <1>3
<1> HIDE DEF g, k, pt
<1>5. s \in Nat
  BY <1>3, <1>4, EndBounds
<1>6. Flatten(q) = From(t, s) /\ Flatten(q) \in Texts
  BY <1>1, <1>4, RestText
<1>7. SubSeq(g.page_table, k, Len(g.page_table)) = q
  BY <1>2, <1>4 DEF Rest
<1>8. eb_read(e, offset, size) = Part(From(t, s), o, size)
  BY <1>6, <1>7 DEF eb_read, g, k
<1>9. o \in Nat /\ s + o = offset
  BY <1>2, <1>5
<1> HIDE DEF t, s, o, q
<1>10. t \in Seq(Byte) /\ s + o <= Len(t) /\ (s + o) + size <= Len(t)
  BY <1>1, <1>5, <1>9 DEF Texts
<1>11. Part(From(t, s), o, size) = Part(t, s + o, size)
  BY <1>5, <1>9, <1>10 DEF Part, From
<1> QED
  BY <1>8, <1>9, <1>11 DEF t, pt

LEMMA InvIsRead == PageInv => ReadCorrect
<1> SUFFICES ASSUME PageInv, NEW r \in Ranges(b)
             PROVE  eb_read(b, r[1], r[2]) = Part(Flatten(b.page_table), r[1], r[2])
  BY DEF ReadCorrect, Text
<1> DEFINE o == r[1]
           size == r[2]
<1>1. /\ Valid(b, file) /\ o \in Nat /\ size \in Nat
      /\ o + size <= b.total_size /\ o < b.total_size
  BY InvParts, RangeParts
<1> HIDE DEF o, size
<1>2. eb_read(b, o, size) = Part(Flatten(b.page_table), o, size)
  BY <1>1, ReadBytes
<1> QED
  BY <1>2 DEF o, size

---------------------------------------------------------------------------
(* Theorems.                                                               *)

(* The page tables keep their integrity, whatever the page size, the bytes *)
(* and the sequence of operations: no page is empty or too large,          *)
(* total_size is what the pages hold, and the page cache may be trusted    *)
(* (buffer.c: find_page, eb_insert_lowlevel, eb_insert_buffer, eb_delete). *)
THEOREM PagesStaySound == Spec => []TypeOK
<1> QED
  BY PagesSound, InvIsTypeOK, PTL

(* Nothing writes into the mapped file, and every reference to it, copied  *)
(* by eb_insert_buffer or not, shows its bytes (buffer.c: update_page).    *)
THEOREM MappingIntact == Spec => []MappedIntact
<1> QED
  BY PagesSound, InvIsMapped, PTL

(* Reading through the page cache yields the bytes of the text (buffer.c:  *)
(* eb_rw, find_page).                                                      *)
THEOREM ReadsAreCorrect == Spec => []ReadCorrect
<1> QED
  BY PagesSound, InvIsRead, PTL

(* The pages implement plain sequences of bytes: under the refinement      *)
(* mapping that joins the bytes of the pages, every step of the page table *)
(* is a step of ByteBuffer or changes no bytes (buffer.c: eb_insert,       *)
(* eb_insert_buffer, eb_delete, eb_write).                                 *)
THEOREM PagesImplementBytes == Spec => ImplementsByteBuffer
<1>1. Init => Bytes!Init
  BY EmptyBufferIs DEF Init, Bytes!Init, NoText
<1>2. PageInv /\ [Next]_vars => [Bytes!Next]_(Bytes!vars)
  BY StepOrStutter
<1> QED
  BY <1>1, <1>2, PagesSound, PTL DEF Spec, ImplementsByteBuffer, Bytes!Spec

================================================================================
