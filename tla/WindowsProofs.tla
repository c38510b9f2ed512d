----------------------------- MODULE WindowsProofs -----------------------------
(***************************************************************************)
(* Theorems about Windows: for any number of windows, buffers, files and   *)
(* screen sizes, a careful user never meets a dangling pointer, a name     *)
(* that two buffers have, a file that find-file opened twice, a window in  *)
(* a wrong mode, or a cell of the screen that no window or more than one   *)
(* covers.                                                                 *)
(***************************************************************************)
EXTENDS Windows, TLAPS, NaturalsInduction, WellFoundedInduction, FiniteSetTheorems

---------------------------------------------------------------------------
(* Numbers.                                                                *)

LEMMA LeastNumber ==
    ASSUME NEW T \in SUBSET Nat, T # {}
    PROVE  \E x \in T : \A y \in T : x <= y
<1> DEFINE R == {ss \in Nat \X Nat : ss[1] < ss[2]}
<1>1. IsWellFoundedOn(R, Nat)
  BY NatLessThanWellFounded DEF OpToRel
<1> HIDE DEF R
<1>2. PICK x \in T : \A y \in T : ~(<<y, x>> \in R)
  BY <1>1, WFMin
<1>3. ASSUME NEW y \in T PROVE x <= y
  <2> SUFFICES ASSUME ~(x <= y) PROVE FALSE
    OBVIOUS
  <2>1. <<y, x>> \in R
    BY DEF R
  <2> QED
    BY <1>2, <2>1
<1> QED
  BY <1>3

LEMMA MinIn ==
    ASSUME NEW T \in SUBSET Nat, T # {}
    PROVE  Min(T) \in T
<1>1. PICK x \in T : \A y \in T : x <= y
  BY LeastNumber
<1> QED
  BY <1>1 DEF Min

(* Sets of numbers that have a bound.                                      *)
Bounded(S) == S \subseteq Nat /\ \E k \in Nat : \A s \in S : s <= k

LEMMA MaxIn ==
    ASSUME NEW S, Bounded(S), S # {}
    PROVE  Max(S) \in S /\ \A y \in S : y <= Max(S)
<1>1. PICK k \in Nat : \A s \in S : s <= k
  BY DEF Bounded
<1> DEFINE T == {k - s : s \in S}
<1>2. S \subseteq Nat
  BY DEF Bounded
<1>3. T \in SUBSET Nat /\ T # {}
  <2>1. \A s \in S : k - s \in Nat
    BY <1>1, <1>2
  <2>2. PICK s \in S : TRUE
    OBVIOUS
  <2>3. k - s \in T
    BY <2>2
  <2> QED
    BY <2>1, <2>3
<1>4. PICK t \in T : \A y \in T : t <= y
  <2> HIDE DEF T
  <2> QED
    BY <1>3, LeastNumber
<1>5. PICK x \in S : t = k - x
  BY <1>4
<1>6. ASSUME NEW y \in S PROVE x >= y
  <2>1. k - y \in T
    OBVIOUS
  <2>2. k - x <= k - y
    BY <1>4, <1>5, <2>1
  <2> QED
    BY <1>2, <2>2
<1>7. Max(S) \in S /\ \A y \in S : Max(S) >= y
  BY <1>6 DEF Max
<1> QED
  BY <1>2, <1>7

LEMMA BoundedFinite ==
    ASSUME NEW S, Bounded(S)
    PROVE  IsFiniteSet(S) /\ Cardinality(S) \in Nat
  BY FS_BoundedSetOfNaturals, FS_CardinalityType DEF Bounded

(* FirstOf of a set of numbers.                                            *)
LEMMA FirstIs ==
    ASSUME NEW S, Bounded(S)
    PROVE  /\ S = {} => FirstOf(S) = None
           /\ S # {} => FirstOf(S) \in S /\ FirstOf(S) # None /\ First(S) \in S
  BY MaxIn, NullAssumption DEF FirstOf, First, Bounded

LEMMA BoundedSubset ==
    ASSUME NEW S, Bounded(S), NEW T \in SUBSET S
    PROVE  Bounded(T)
  BY DEF Bounded

LEMMA BoundedAdd ==
    ASSUME NEW S, Bounded(S), NEW n \in Nat
    PROVE  Bounded(S \cup {n})
<1>1. PICK k \in Nat : \A s \in S : s <= k
  BY DEF Bounded
<1>2. \A s \in S \cup {n} : s <= k + n
  BY <1>1 DEF Bounded
<1>3. k + n \in Nat
  OBVIOUS
<1>4. S \cup {n} \subseteq Nat
  BY DEF Bounded
<1> QED
  BY <1>2, <1>3, <1>4 DEF Bounded

---------------------------------------------------------------------------
(* Heaps: functions from numbers to items of T.                            *)

Heap(T) == UNION {[S -> T] : S \in {U \in SUBSET Nat : Bounded(U)}}

LEMMA HeapIs ==
    ASSUME NEW T, NEW f
    PROVE  f \in Heap(T) <=> Bounded(DOMAIN f) /\ f \in [DOMAIN f -> T]
<1>1. ASSUME f \in Heap(T) PROVE Bounded(DOMAIN f) /\ f \in [DOMAIN f -> T]
  <2>1. PICK S \in {U \in SUBSET Nat : Bounded(U)} : f \in [S -> T]
    BY <1>1 DEF Heap
  <2> QED
    BY <2>1
<1>2. ASSUME Bounded(DOMAIN f), f \in [DOMAIN f -> T] PROVE f \in Heap(T)
  <2>1. DOMAIN f \in {U \in SUBSET Nat : Bounded(U)}
    BY <1>2 DEF Bounded
  <2> QED
    BY <1>2, <2>1 DEF Heap
<1> QED
  BY <1>1, <1>2

LEMMA HeapAt ==
    ASSUME NEW T, NEW f \in Heap(T)
    PROVE  /\ DOMAIN f \subseteq Nat /\ Bounded(DOMAIN f)
           /\ \A n \in DOMAIN f : f[n] \in T /\ n # None /\ n # Gone
  BY HeapIs, NullAssumption DEF Bounded

LEMMA FreshIs ==
    ASSUME NEW T, NEW f \in Heap(T)
    PROVE  Fresh(f) \in Nat /\ Fresh(f) \notin DOMAIN f /\ Fresh(f) # None /\ Fresh(f) # Gone
<1> DEFINE S == DOMAIN f \cup {0}
<1>1. Bounded(S) /\ S # {}
  BY HeapIs, BoundedAdd
<1> HIDE DEF S
<1>2. Max(S) \in S /\ \A y \in S : y <= Max(S)
  BY <1>1, MaxIn
<1>3. Max(S) \in Nat
  BY <1>1, <1>2 DEF Bounded
<1>4. Max(S) + 1 \notin S
  BY <1>2, <1>3
<1>5. Max(S) + 1 \notin DOMAIN f
  BY <1>4 DEF S
<1>6. Fresh(f) = Max(S) + 1
  BY DEF Fresh, S
<1> QED
  BY <1>3, <1>5, <1>6, NullAssumption

(* g is f with r at n.                                                     *)
IsWith(g, f, n, r) ==
    DOMAIN g = DOMAIN f \cup {n} /\ g[n] = r /\ \A i \in DOMAIN f \ {n} : g[i] = f[i]

LEMMA HeapWith ==
    ASSUME NEW T, NEW f \in Heap(T), NEW n \in Nat, NEW r \in T
    PROVE  With(f, n, r) \in Heap(T) /\ IsWith(With(f, n, r), f, n, r)
<1> DEFINE g == With(f, n, r)
<1>1. DOMAIN g = DOMAIN f \cup {n} /\ \A i \in DOMAIN g : g[i] = IF i = n THEN r ELSE f[i]
  BY DEF With
<1>2. Bounded(DOMAIN g)
  BY <1>1, HeapIs, BoundedAdd
<1>3. g \in [DOMAIN g -> T]
  <2>1. \A i \in DOMAIN g : g[i] \in T
    BY <1>1, HeapIs
  <2> QED
    BY <2>1 DEF With
<1>4. g \in Heap(T)
  <2> HIDE DEF g
  <2> QED
    BY <1>2, <1>3, HeapIs
<1>5. IsWith(g, f, n, r)
  <2> HIDE DEF g
  <2> QED
    BY <1>1 DEF IsWith
<1> QED
  BY <1>4, <1>5

(* A function on numbers of f.                                             *)
LEMMA HeapMap ==
    ASSUME NEW T, NEW f \in Heap(T), NEW g, NEW D \in SUBSET (DOMAIN f), g \in [D -> T]
    PROVE  g \in Heap(T)
<1>1. Bounded(D)
  BY HeapIs, BoundedSubset
<1> QED
  BY <1>1, HeapIs

---------------------------------------------------------------------------
(* Types.                                                                  *)

Ptr     == Nat \cup {None, Gone}
Kinds   == {"tiled", "popup", "minibuf"}
Bases   == {"*minibuf*", "*completion*", "*Help*", "*bufed*", "*scratch*", "", Base}
NameSet == Bases \X Nat

BufRec == [name : NameSet, system : BOOLEAN, file : Files \cup {NoFile}, modified : BOOLEAN,
           saved : Modes \cup {None}, own : Modes, written : BOOLEAN]
WinRec == [b : Ptr, mode : Modes, kind : Kinds, items : SUBSET NameSet,
           x1 : Int, y1 : Int, x2 : Int, y2 : Int]
CbRec  == [cmd : {"none", "argument", "kill_buffer_confirm"}, win : Ptr, buf : Ptr]

Eds == [bufs : Heap(BufRec), wins : Heap(WinRec), active : Ptr, cb : CbRec, saved : Ptr,
        popup_saved : Ptr, completion : Ptr, width : Nat \ {0}, height : Nat \ {0},
        fault : {"none", "null window", "freed window"}]

(* f has the pointers and the size of e, and no new fault.                 *)
SameRest(e, f) ==
    /\ f.active = e.active /\ f.cb = e.cb /\ f.saved = e.saved
    /\ f.popup_saved = e.popup_saved /\ f.completion = e.completion
    /\ f.width = e.width /\ f.height = e.height /\ f.fault = e.fault

LEMMA EdIs ==
    ASSUME NEW e \in Eds
    PROVE  /\ e.bufs \in Heap(BufRec) /\ Bounded(BufsOf(e))
           /\ \A b \in BufsOf(e) : e.bufs[b] \in BufRec /\ b \in Nat /\ b # None /\ b # Gone
           /\ e.wins \in Heap(WinRec) /\ Bounded(WinsOf(e))
           /\ \A w \in WinsOf(e) : e.wins[w] \in WinRec /\ w \in Nat /\ w # None /\ w # Gone
           /\ e.width \in Nat \ {0} /\ e.height \in Nat \ {0} /\ e.active \in Ptr /\ e.cb \in CbRec
<1>1. /\ e.bufs \in Heap(BufRec) /\ e.wins \in Heap(WinRec)
      /\ e.width \in Nat \ {0} /\ e.height \in Nat \ {0} /\ e.active \in Ptr /\ e.cb \in CbRec
  BY DEF Eds
<1> QED
  BY <1>1, HeapAt DEF BufsOf, WinsOf

(* Buffers and windows that take the place of those of e.                  *)
LEMMA WithBufs ==
    ASSUME NEW e \in Eds, NEW h \in Heap(BufRec)
    PROVE  LET f == [e EXCEPT !.bufs = h]
           IN  f \in Eds /\ f.bufs = h /\ f.wins = e.wins /\ SameRest(e, f)
  BY DEF Eds, SameRest

LEMMA WithWins ==
    ASSUME NEW e \in Eds, NEW h \in Heap(WinRec)
    PROVE  LET f == [e EXCEPT !.wins = h]
           IN  f \in Eds /\ f.wins = h /\ f.bufs = e.bufs /\ SameRest(e, f)
  BY DEF Eds, SameRest

LEMMA NewBufIs ==
    ASSUME NEW name \in NameSet, NEW system \in BOOLEAN
    PROVE  NewBuf(name, system) \in BufRec
<1>1. OpenMode(name, system) \in Modes
  BY DEF OpenMode, Modes
<1> QED
  BY <1>1 DEF NewBuf, BufRec

(* f has one buffer more than e.                                           *)
Added(e, f, n, r) ==
    /\ f \in Eds /\ f.wins = e.wins /\ SameRest(e, f)
    /\ n \in Nat /\ n \notin BufsOf(e)
    /\ BufsOf(f) = BufsOf(e) \cup {n}
    /\ f.bufs[n] = r
    /\ \A b \in BufsOf(e) : f.bufs[b] = e.bufs[b]

LEMMA EbNewIs ==
    ASSUME NEW e \in Eds, NEW name \in NameSet, NEW system \in BOOLEAN
    PROVE  Added(e, eb_new(e, name, system), Fresh(e.bufs), NewBuf(name, system))
<1> DEFINE f == eb_new(e, name, system)
           n == Fresh(e.bufs)
           r == NewBuf(name, system)
           h == With(e.bufs, n, r)
<1>1. e.bufs \in Heap(BufRec)
  BY EdIs
<1>2. n \in Nat /\ n \notin DOMAIN e.bufs
  BY <1>1, FreshIs
<1>3. r \in BufRec
  BY NewBufIs
<1>4. /\ h \in Heap(BufRec) /\ DOMAIN h = DOMAIN e.bufs \cup {n} /\ h[n] = r
      /\ \A i \in DOMAIN e.bufs \ {n} : h[i] = e.bufs[i]
  <2> DEFINE q == e.bufs
  <2>1. q \in Heap(BufRec) /\ n \in Nat /\ r \in BufRec
    BY <1>1, <1>2, <1>3
  <2> HIDE DEF n, r, q
  <2>2. With(q, n, r) \in Heap(BufRec) /\ IsWith(With(q, n, r), q, n, r)
    BY <2>1, HeapWith
  <2> QED
    BY <2>2 DEF q, IsWith
<1>5. f = [e EXCEPT !.bufs = h]
  BY DEF eb_new
<1> HIDE DEF h, r, f
<1>6. f \in Eds /\ f.bufs = h /\ f.wins = e.wins /\ SameRest(e, f)
  BY <1>4, <1>5, WithBufs
<1>7. /\ BufsOf(f) = BufsOf(e) \cup {n} /\ f.bufs[n] = r /\ n \notin BufsOf(e)
      /\ \A b \in BufsOf(e) : f.bufs[b] = e.bufs[b]
  BY <1>2, <1>4, <1>6 DEF BufsOf
<1>8. Added(e, f, n, r)
  BY <1>2, <1>6, <1>7 DEF Added
<1> QED
  BY <1>8 DEF f, r

(* The mode in which a buffer was opened.                                  *)
OwnMode(r) == r.own

SameBuf(r, s) ==
    /\ r.name = s.name /\ r.system = s.system /\ r.file = s.file
    /\ r.own = s.own /\ r.written = s.written

LEMMA SameOwn ==
    ASSUME NEW r, NEW s, SameBuf(r, s)
    PROVE  OwnMode(r) = OwnMode(s)
  BY Zenon DEF SameBuf, OwnMode

LEMMA ShowsIs ==
    ASSUME NEW e \in Eds, NEW b
    PROVE  /\ Shows(e, b) \in SUBSET WinsOf(e) /\ Bounded(Shows(e, b))
           /\ \A w : w \in Shows(e, b) <=> w \in WinsOf(e) /\ e.wins[w].b = b
           /\ Shows(e, b) # {} => /\ Min(Shows(e, b)) \in Shows(e, b)
                                  /\ First(Shows(e, b)) \in Shows(e, b)
<1> DEFINE S == Shows(e, b)
<1>1. S \in SUBSET WinsOf(e) /\ \A w : w \in S <=> w \in WinsOf(e) /\ e.wins[w].b = b
  BY DEF Shows
<1>2. Bounded(WinsOf(e))
  BY EdIs
<1> HIDE DEF S
<1>3. Bounded(S)
  BY <1>1, <1>2, BoundedSubset
<1>4. S \in SUBSET Nat
  BY <1>3 DEF Bounded
<1>5. S # {} => Min(S) \in S /\ First(S) \in S
  BY <1>3, <1>4, MinIn, FirstIs
<1> QED
  BY <1>1, <1>3, <1>5 DEF S

(* All windows that show b are in C.                                       *)
Left(e, C, b) == Shows(e, b) # {} /\ Shows(e, b) \subseteq C

LEMMA SavedIs ==
    ASSUME NEW r \in BufRec, NEW m \in Modes
    PROVE  LET s == [r EXCEPT !.saved = m]
           IN  s \in BufRec /\ SameBuf(s, r) /\ s.saved = m /\ s.modified = r.modified
  BY DEF BufRec, SameBuf

(* f has the buffers of e, with the modes that the windows in C leave.     *)
Keeps(e, f, C) ==
    /\ BufsOf(f) = BufsOf(e)
    /\ \A b \in BufsOf(e) :
          /\ SameBuf(f.bufs[b], e.bufs[b])
          /\ f.bufs[b].modified = e.bufs[b].modified
          /\ Left(e, C, b) => \E w \in Shows(e, b) : f.bufs[b].saved = e.wins[w].mode
          /\ ~Left(e, C, b) => f.bufs[b] = e.bufs[b]

LEMMA SaveModeIs ==
    ASSUME NEW e \in Eds, NEW C
    PROVE  LET f == save_mode(e, C)
           IN  f \in Eds /\ f.wins = e.wins /\ SameRest(e, f) /\ Keeps(e, f, C)
<1> DEFINE f == save_mode(e, C)
           m(b) == e.wins[Min(Shows(e, b))].mode
           h == [b \in BufsOf(e) |-> IF Left(e, C, b) THEN [e.bufs[b] EXCEPT !.saved = m(b)]
                                                      ELSE e.bufs[b]]
<1>1. f = [e EXCEPT !.bufs = h]
  BY DEF save_mode, Left, BufsOf
<1>2. ASSUME NEW b \in BufsOf(e), Left(e, C, b)
      PROVE  Min(Shows(e, b)) \in Shows(e, b) /\ m(b) \in Modes
  <2>1. Min(Shows(e, b)) \in Shows(e, b) /\ Shows(e, b) \in SUBSET WinsOf(e)
    BY <1>2, ShowsIs DEF Left
  <2>2. \A w \in WinsOf(e) : e.wins[w] \in WinRec
    BY EdIs
  <2> QED
    BY <2>1, <2>2 DEF WinRec
<1>3. ASSUME NEW b \in BufsOf(e)
      PROVE  /\ h[b] \in BufRec /\ SameBuf(h[b], e.bufs[b])
             /\ h[b].modified = e.bufs[b].modified
             /\ Left(e, C, b) => h[b].saved = m(b)
             /\ ~Left(e, C, b) => h[b] = e.bufs[b]
  <2>0. e.bufs[b] \in BufRec
    BY EdIs
  <2>1. h[b] = IF Left(e, C, b) THEN [e.bufs[b] EXCEPT !.saved = m(b)] ELSE e.bufs[b]
    OBVIOUS
  <2>2. CASE Left(e, C, b)
    <3>1. m(b) \in Modes
      BY <1>2, <2>2
    <3> HIDE DEF h, m
    <3> QED
      BY <2>0, <2>1, <2>2, <3>1, SavedIs
  <2>3. CASE ~Left(e, C, b)
    <3> HIDE DEF h, m
    <3> QED
      BY <2>0, <2>1, <2>3 DEF SameBuf
  <2> QED
    BY <2>2, <2>3
<1>4. DOMAIN h = BufsOf(e)
  OBVIOUS
<1>5. h \in [BufsOf(e) -> BufRec]
  <2>1. \A b \in BufsOf(e) : h[b] \in BufRec
    BY <1>3
  <2> QED
    BY <2>1
<1> HIDE DEF h
<1>6. h \in Heap(BufRec)
  BY <1>5, EdIs, HeapMap DEF BufsOf
<1> HIDE DEF f, m
<1>7. f \in Eds /\ f.bufs = h /\ f.wins = e.wins /\ SameRest(e, f)
  BY <1>1, <1>6, WithBufs
<1>8. \A b \in BufsOf(e) : Left(e, C, b) => \E w \in Shows(e, b) : h[b].saved = e.wins[w].mode
  BY <1>2, <1>3 DEF m
<1>9. Keeps(e, f, C)
  BY <1>3, <1>4, <1>7, <1>8 DEF Keeps, BufsOf
<1> QED
  BY <1>7, <1>9 DEF f

(* Where a window is.                                                      *)
At(r, x1, y1, x2, y2) == r.x1 = x1 /\ r.y1 = y1 /\ r.x2 = x2 /\ r.y2 = y2
SamePlace(t, r) == At(t, r.x1, r.y1, r.x2, r.y2)

IsIn(t, r, b, mode) ==
    t \in WinRec /\ t.b = b /\ t.mode = mode /\ t.kind = r.kind /\ SamePlace(t, r)

LEMMA InModeIs ==
    ASSUME NEW e \in Eds, NEW r \in WinRec, NEW b \in Ptr, NEW mode \in Modes
    PROVE  /\ IsIn(InMode(e, [r EXCEPT !.b = b], mode), r, b, mode)
           /\ IsIn(InMode(e, r, mode), r, r.b, mode)
<1> DEFINE i == IF mode = "bufed" THEN build_bufed_list(e) ELSE {}
           q == [r EXCEPT !.b = b]
<1>1. i \in SUBSET NameSet
  <2>1. \A k \in BufsOf(e) : e.bufs[k] \in BufRec
    BY EdIs
  <2>2. \A k \in BufsOf(e) : e.bufs[k].name \in NameSet
    BY <2>1 DEF BufRec
  <2> QED
    BY <2>2 DEF build_bufed_list
<1>2. InMode(e, q, mode) = [q EXCEPT !.mode = mode, !.items = i]
  BY DEF InMode
<1>3. InMode(e, r, mode) = [r EXCEPT !.mode = mode, !.items = i]
  BY DEF InMode
<1> HIDE DEF i
<1>4. q \in WinRec /\ q.b = b /\ q.kind = r.kind /\ SamePlace(q, r)
  BY DEF WinRec, SamePlace, At
<1> HIDE DEF q
<1>5. \A k \in WinRec : LET t == [k EXCEPT !.mode = mode, !.items = i]
                        IN  IsIn(t, k, k.b, mode)
  BY <1>1 DEF WinRec, IsIn, SamePlace, At
<1>6. IsIn(InMode(e, q, mode), q, q.b, mode) /\ IsIn(InMode(e, r, mode), r, r.b, mode)
  BY <1>2, <1>3, <1>4, <1>5
<1>7. IsIn(InMode(e, q, mode), r, b, mode)
  BY <1>4, <1>6 DEF IsIn, SamePlace, At
<1> QED
  BY <1>6, <1>7 DEF q

LEMMA ModeForIs ==
    ASSUME NEW e \in Eds, NEW C, NEW b \in BufsOf(e)
    PROVE  LET m == ModeFor(e, C, b)
           IN  /\ m \in Modes
               /\ \/ \E w \in Shows(e, b) \ C : m = e.wins[w].mode
                  \/ Shows(e, b) \subseteq C /\ e.bufs[b].saved # None /\ m = e.bufs[b].saved
                  \/ Shows(e, b) \subseteq C /\ e.bufs[b].saved = None /\ m = "text"
<1> DEFINE m == ModeFor(e, C, b)
           S == Shows(e, b) \ C
<1>1. m = IF S # {} THEN e.wins[First(S)].mode
          ELSE IF e.bufs[b].saved # None THEN e.bufs[b].saved ELSE "text"
  BY DEF ModeFor
<1>2. Bounded(S)
  BY ShowsIs, BoundedSubset
<1>3. S # {} => First(S) \in S
  <2> HIDE DEF S
  <2> QED
    BY <1>2, FirstIs
<1>4. \A w \in S : w \in WinsOf(e)
  BY ShowsIs
<1>5. \A w \in WinsOf(e) : e.wins[w].mode \in Modes
  BY EdIs DEF WinRec
<1>6. e.bufs[b].saved \in Modes \cup {None} /\ "text" \in Modes
  BY EdIs DEF BufRec, Modes
<1> HIDE DEF m
<1>7. S = {} <=> Shows(e, b) \subseteq C
  OBVIOUS
<1> HIDE DEF S
<1>8. /\ m \in Modes
      /\ \/ \E w \in S : m = e.wins[w].mode
         \/ S = {} /\ e.bufs[b].saved # None /\ m = e.bufs[b].saved
         \/ S = {} /\ e.bufs[b].saved = None /\ m = "text"
  BY <1>1, <1>3, <1>4, <1>5, <1>6
<1> QED
  BY <1>7, <1>8 DEF S, m

(* In f, the windows in C show b in the mode m.                            *)
Switched(e, f, C, b, m) ==
    /\ f \in Eds /\ SameRest(e, f) /\ Keeps(e, f, C)
    /\ WinsOf(f) = WinsOf(e)
    /\ \A w \in WinsOf(e) \ C : f.wins[w] = e.wins[w]
    /\ \A w \in C : IsIn(f.wins[w], e.wins[w], b, m)

LEMMA SwitchIs ==
    ASSUME NEW e \in Eds, NEW C, C \subseteq WinsOf(e), NEW b \in BufsOf(e)
    PROVE  /\ Switched(e, SwitchTo(e, C, b), C, b, ModeFor(save_mode(e, C), C, b))
           /\ SwitchTo(e, C, b).bufs = save_mode(e, C).bufs
<1> DEFINE s == save_mode(e, C)
           f == SwitchTo(e, C, b)
           m == ModeFor(s, C, b)
           h == [w \in WinsOf(e) |-> IF w \in C THEN InMode(s, [e.wins[w] EXCEPT !.b = b], m)
                                                ELSE e.wins[w]]
<1>0. s \in Eds /\ s.wins = e.wins /\ SameRest(e, s) /\ Keeps(e, s, C)
  BY SaveModeIs
<1>1. s \in Eds /\ s.wins = e.wins /\ SameRest(e, s) /\ BufsOf(s) = BufsOf(e)
  BY <1>0 DEF Keeps
<1>2. f = [s EXCEPT !.wins = h]
  <2>1. s.wins = e.wins
    BY <1>1
  <2> QED
    BY <2>1 DEF SwitchTo, WinsOf
<1>3. m \in Modes
  <2> HIDE DEF s
  <2> QED
    BY <1>1, ModeForIs
<1>4. b \in Ptr
  BY EdIs DEF Ptr
<1> HIDE DEF s, m
<1>5. ASSUME NEW w \in WinsOf(e)
      PROVE  /\ h[w] \in WinRec
             /\ w \notin C => h[w] = e.wins[w]
             /\ w \in C => IsIn(h[w], e.wins[w], b, m)
  <2>1. e.wins[w] \in WinRec
    BY EdIs
  <2>2. h[w] = IF w \in C THEN InMode(s, [e.wins[w] EXCEPT !.b = b], m) ELSE e.wins[w]
    OBVIOUS
  <2> HIDE DEF h
  <2> DEFINE r == e.wins[w]
  <2>3. IsIn(InMode(s, [r EXCEPT !.b = b], m), r, b, m)
    BY <1>1, <1>3, <1>4, <2>1, InModeIs
  <2> QED
    BY <2>1, <2>2, <2>3 DEF IsIn
<1>6. DOMAIN h = WinsOf(e)
  OBVIOUS
<1>7. h \in [WinsOf(e) -> WinRec]
  <2>1. \A w \in WinsOf(e) : h[w] \in WinRec
    BY <1>5
  <2> QED
    BY <2>1
<1> HIDE DEF h
<1>8. h \in Heap(WinRec)
  BY <1>7, EdIs, HeapMap DEF WinsOf
<1> HIDE DEF f
<1>9. f \in Eds /\ f.wins = h /\ f.bufs = s.bufs /\ SameRest(s, f)
  BY <1>1, <1>2, <1>8, WithWins
<1>10. SameRest(e, f)
  BY <1>1, <1>9 DEF SameRest
<1>11. WinsOf(f) = WinsOf(e)
  BY <1>1, <1>6, <1>9 DEF WinsOf
<1>12. Keeps(e, f, C)
  BY <1>0, <1>9 DEF Keeps, BufsOf
<1>13. Switched(e, f, C, b, m)
  BY <1>5, <1>9, <1>10, <1>11, <1>12 DEF Switched, IsIn
<1> QED
  BY <1>9, <1>13 DEF f, s, m

---------------------------------------------------------------------------
(* The modes.                                                              *)

(* Every buffer but x is shown in its own mode, and finds it again after   *)
(* it was hidden.                                                          *)
ModesOK(e, x) ==
    /\ \A w \in WinsOf(e) : e.wins[w].b \in BufsOf(e) \ {x} =>
          e.wins[w].mode = OwnMode(e.bufs[e.wins[w].b])
    /\ \A b \in BufsOf(e) \ {x} : e.bufs[b].saved # None => e.bufs[b].saved = OwnMode(e.bufs[b])
    /\ \A b \in BufsOf(e) \ {x} :
          Shows(e, b) = {} /\ e.bufs[b].saved = None => OwnMode(e.bufs[b]) = "text"

(* What leaving a buffer keeps.                                            *)
LEMMA SaveModes ==
    ASSUME NEW e \in Eds, NEW x, ModesOK(e, x), NEW C, NEW s, Keeps(e, s, C)
    PROVE  /\ \A b \in BufsOf(e) : OwnMode(s.bufs[b]) = OwnMode(e.bufs[b])
           /\ \A b \in BufsOf(e) \ {x} :
                 /\ s.bufs[b].saved # None => s.bufs[b].saved = OwnMode(e.bufs[b])
                 /\ Shows(e, b) \subseteq C /\ s.bufs[b].saved = None =>
                       OwnMode(e.bufs[b]) = "text"
<1>1. \A b \in BufsOf(e) :
         /\ SameBuf(s.bufs[b], e.bufs[b])
         /\ Left(e, C, b) => \E w \in Shows(e, b) : s.bufs[b].saved = e.wins[w].mode
         /\ ~Left(e, C, b) => s.bufs[b] = e.bufs[b]
  BY DEF Keeps
<1>2. \A b \in BufsOf(e) : OwnMode(s.bufs[b]) = OwnMode(e.bufs[b])
  BY <1>1, SameOwn
<1>3. ASSUME NEW b \in BufsOf(e) \ {x}
      PROVE  /\ s.bufs[b].saved # None => s.bufs[b].saved = OwnMode(e.bufs[b])
             /\ Shows(e, b) \subseteq C /\ s.bufs[b].saved = None =>
                   OwnMode(e.bufs[b]) = "text"
  <2>1. CASE Left(e, C, b)
    <3>1. PICK w \in Shows(e, b) : s.bufs[b].saved = e.wins[w].mode
      BY <1>1, <2>1
    <3>2. w \in WinsOf(e) /\ e.wins[w].b = b
      BY ShowsIs
    <3>3. e.wins[w].mode = OwnMode(e.bufs[b]) /\ e.wins[w] \in WinRec
      BY <3>2, EdIs DEF ModesOK
    <3>4. e.wins[w].mode \in Modes
      BY <3>3 DEF WinRec
    <3> QED
      BY <3>1, <3>3, <3>4, ModeAssumption
  <2>2. CASE ~Left(e, C, b)
    <3>1. s.bufs[b] = e.bufs[b]
      BY <1>1, <2>2
    <3>2. Shows(e, b) \subseteq C => Shows(e, b) = {}
      BY <2>2 DEF Left
    <3> QED
      BY <3>1, <3>2 DEF ModesOK
  <2> QED
    BY <2>1, <2>2
<1> QED
  BY <1>2, <1>3

LEMMA SwitchModes ==
    ASSUME NEW e \in Eds, NEW x, ModesOK(e, x), NEW C, C \subseteq WinsOf(e), NEW b \in BufsOf(e)
    PROVE  ModesOK(SwitchTo(e, C, b), x)
<1> DEFINE s == save_mode(e, C)
           f == SwitchTo(e, C, b)
           m == ModeFor(s, C, b)
<1>0. s \in Eds /\ s.wins = e.wins /\ Keeps(e, s, C)
  BY SaveModeIs
<1>1. s \in Eds /\ s.wins = e.wins /\ BufsOf(s) = BufsOf(e)
  BY <1>0 DEF Keeps
<1>2. /\ \A c \in BufsOf(e) : OwnMode(s.bufs[c]) = OwnMode(e.bufs[c])
      /\ \A c \in BufsOf(e) \ {x} :
            /\ s.bufs[c].saved # None => s.bufs[c].saved = OwnMode(e.bufs[c])
            /\ Shows(e, c) \subseteq C /\ s.bufs[c].saved = None => OwnMode(e.bufs[c]) = "text"
  <2> HIDE DEF s
  <2> QED
    BY <1>0, SaveModes
<1>3. /\ f \in Eds /\ f.bufs = s.bufs /\ WinsOf(f) = WinsOf(e) /\ BufsOf(f) = BufsOf(e)
      /\ \A w \in WinsOf(e) \ C : f.wins[w] = e.wins[w]
      /\ \A w \in C : f.wins[w].b = b /\ f.wins[w].mode = m
  <2>1. Switched(e, f, C, b, m) /\ f.bufs = s.bufs
    BY SwitchIs
  <2> HIDE DEF f, m, s
  <2> QED
    BY <2>1 DEF Switched, IsIn, Keeps
<1>4. \/ \E w \in Shows(s, b) \ C : m = s.wins[w].mode
      \/ Shows(s, b) \subseteq C /\ s.bufs[b].saved # None /\ m = s.bufs[b].saved
      \/ Shows(s, b) \subseteq C /\ s.bufs[b].saved = None /\ m = "text"
  <2> HIDE DEF s
  <2> QED
    BY <1>1, ModeForIs
<1> HIDE DEF s, f, m
<1>5. Shows(s, b) = Shows(e, b)
  BY <1>1 DEF Shows, WinsOf
<1>6. b # x => m = OwnMode(e.bufs[b])
  <2> HAVE b # x
  <2>1. CASE \E w \in Shows(s, b) \ C : m = s.wins[w].mode
    <3>1. PICK w \in Shows(e, b) : m = e.wins[w].mode
      BY <1>1, <1>5, <2>1
    <3>2. w \in WinsOf(e) /\ e.wins[w].b = b
      BY ShowsIs
    <3> QED
      BY <3>1, <3>2 DEF ModesOK
  <2> QED
    BY <1>2, <1>4, <1>5, <2>1
<1>7. ASSUME NEW w \in WinsOf(f), f.wins[w].b \in BufsOf(f) \ {x}
      PROVE  f.wins[w].mode = OwnMode(f.bufs[f.wins[w].b])
  <2>1. CASE w \in C
    BY <1>2, <1>3, <1>6, <1>7, <2>1
  <2>2. CASE w \notin C
    <3>1. f.wins[w] = e.wins[w] /\ e.wins[w].b \in BufsOf(e) \ {x} /\ w \in WinsOf(e)
      BY <1>3, <1>7, <2>2
    <3> QED
      BY <1>2, <1>3, <3>1 DEF ModesOK
  <2> QED
    BY <2>1, <2>2
<1>8. ASSUME NEW c \in BufsOf(f) \ {x}, Shows(f, c) = {}
      PROVE  Shows(e, c) \subseteq C
  <2> SUFFICES ASSUME NEW w \in Shows(e, c), w \notin C PROVE FALSE
    OBVIOUS
  <2>1. w \in WinsOf(e) /\ e.wins[w].b = c
    BY ShowsIs
  <2>2. w \in Shows(f, c)
    BY <1>3, <2>1 DEF Shows
  <2> QED
    BY <1>8, <2>2
<1>9. ModesOK(f, x)
  BY <1>2, <1>3, <1>7, <1>8 DEF ModesOK
<1> QED
  BY <1>9 DEF f

---------------------------------------------------------------------------
(* Windows that are opened and closed.                                     *)

(* f has one window more than e, which shows b.                            *)
Opened(e, f, w, b, kind) ==
    /\ f \in Eds /\ SameRest(e, f) /\ f.bufs = e.bufs
    /\ w \in Nat /\ w \notin WinsOf(e)
    /\ WinsOf(f) = WinsOf(e) \cup {w}
    /\ f.wins[w].b = b /\ f.wins[w].kind = kind
    /\ \A v \in WinsOf(e) : f.wins[v] = e.wins[v]

LEMMA NewWinIs ==
    ASSUME NEW kind \in Kinds, NEW x1 \in Int, NEW y1 \in Int, NEW x2 \in Int, NEW y2 \in Int
    PROVE  LET r == NewWin(kind, x1, y1, x2, y2)
           IN  r \in WinRec /\ r.b = None /\ r.kind = kind /\ At(r, x1, y1, x2, y2)
  BY DEF NewWin, WinRec, Ptr, Modes, At

LEMMA EditNewIs ==
    ASSUME NEW e \in Eds, e.active # None, NEW b \in BufsOf(e), NEW kind \in Kinds,
           NEW x1 \in Int, NEW y1 \in Int, NEW x2 \in Int, NEW y2 \in Int
    PROVE  /\ Opened(e, edit_new(e, b, x1, y1, x2, y2, kind), Fresh(e.wins), b, kind)
           /\ At(edit_new(e, b, x1, y1, x2, y2, kind).wins[Fresh(e.wins)], x1, y1, x2, y2)
           /\ \A x : ModesOK(e, x) => ModesOK(edit_new(e, b, x1, y1, x2, y2, kind), x)
<1> DEFINE f  == edit_new(e, b, x1, y1, x2, y2, kind)
           w  == Fresh(e.wins)
           r  == NewWin(kind, x1, y1, x2, y2)
           h  == With(e.wins, w, r)
           a  == IF e.active = None THEN w ELSE e.active
           e1 == [e EXCEPT !.wins = h, !.active = a]
<1>1. r \in WinRec /\ r.b = None /\ r.kind = kind /\ At(r, x1, y1, x2, y2)
  BY NewWinIs
<1>2. e.wins \in Heap(WinRec)
  BY EdIs
<1>3. w \in Nat /\ w \notin DOMAIN e.wins
  BY <1>2, FreshIs
<1>4. /\ h \in Heap(WinRec) /\ DOMAIN h = DOMAIN e.wins \cup {w} /\ h[w] = r
      /\ \A i \in DOMAIN e.wins : h[i] = e.wins[i]
  <2> DEFINE q == e.wins
  <2>1. q \in Heap(WinRec) /\ w \in Nat /\ r \in WinRec /\ w \notin DOMAIN q
    BY <1>1, <1>2, <1>3
  <2> HIDE DEF w, r, q
  <2>2. With(q, w, r) \in Heap(WinRec) /\ IsWith(With(q, w, r), q, w, r)
    BY <2>1, HeapWith
  <2> QED
    BY <2>1, <2>2 DEF q, IsWith
<1>5. f = SwitchTo(e1, {w}, b)
  BY DEF edit_new, switch_to_buffer
<1>6. a = e.active
  OBVIOUS
<1> HIDE DEF r, h, w, a
<1>7. e1 \in Eds /\ e1.wins = h /\ e1.bufs = e.bufs /\ SameRest(e, e1)
  BY <1>4, <1>6 DEF Eds, SameRest
<1> HIDE DEF e1, f
<1>8. /\ WinsOf(e1) = WinsOf(e) \cup {w} /\ BufsOf(e1) = BufsOf(e) /\ w \notin WinsOf(e)
      /\ e1.wins[w] = r /\ \A v \in WinsOf(e) : e1.wins[v] = e.wins[v]
  BY <1>3, <1>4, <1>7 DEF WinsOf, BufsOf
<1>9. \A c \in BufsOf(e) : Shows(e1, c) = Shows(e, c) /\ w \notin Shows(e1, c) /\ c # None
  BY <1>1, <1>8, EdIs DEF Shows
<1>10. \A c \in BufsOf(e) : ~Left(e1, {w}, c)
  BY <1>9 DEF Left
<1> DEFINE m == ModeFor(save_mode(e1, {w}), {w}, b)
<1>11. Switched(e1, f, {w}, b, m)
  BY <1>5, <1>7, <1>8, SwitchIs
<1> HIDE DEF m
<1>12. /\ f \in Eds /\ SameRest(e1, f) /\ BufsOf(f) = BufsOf(e)
       /\ \A c \in BufsOf(e) : f.bufs[c] = e.bufs[c]
       /\ WinsOf(f) = WinsOf(e) \cup {w} /\ f.wins[w].b = b /\ f.wins[w].kind = kind
       /\ \A v \in WinsOf(e) : f.wins[v] = e.wins[v]
  BY <1>1, <1>7, <1>8, <1>10, <1>11 DEF Switched, IsIn, Keeps
<1>16. At(f.wins[w], x1, y1, x2, y2)
  BY <1>1, <1>8, <1>11 DEF Switched, IsIn, SamePlace, At
<1>13. f.bufs = e.bufs
  <2>1. f.bufs \in Heap(BufRec) /\ e.bufs \in Heap(BufRec)
    BY <1>12, EdIs
  <2>2. f.bufs \in [DOMAIN f.bufs -> BufRec] /\ e.bufs \in [DOMAIN e.bufs -> BufRec]
    BY <2>1, HeapIs
  <2> QED
    BY <1>12, <2>2 DEF BufsOf
<1>14. Opened(e, f, w, b, kind)
  BY <1>3, <1>7, <1>8, <1>12, <1>13 DEF Opened, SameRest
<1>15. ASSUME NEW x, ModesOK(e, x) PROVE ModesOK(f, x)
  <2>1. None \notin BufsOf(e)
    BY EdIs
  <2>2. \A c \in BufsOf(e) : e1.bufs[c] = e.bufs[c]
    BY <1>7
  <2>3. ModesOK(e1, x)
    BY <1>1, <1>8, <1>9, <1>15, <2>1, <2>2 DEF ModesOK
  <2> QED
    BY <1>5, <1>7, <1>8, <2>3, SwitchModes
<1> QED
  BY <1>14, <1>15, <1>16 DEF f, w

Forgets(p, q, C) == q = IF p \in C THEN Gone ELSE p

(* f is e without the windows in C.                                        *)
Closed(e, f, C) ==
    /\ f \in Eds /\ Keeps(e, f, C)
    /\ WinsOf(f) = WinsOf(e) \ C
    /\ \A w \in WinsOf(f) : f.wins[w] = e.wins[w]
    /\ f.active = IF e.active \in C THEN FirstOf(WinsOf(e) \ C) ELSE e.active
    /\ Forgets(e.saved, f.saved, C) /\ Forgets(e.popup_saved, f.popup_saved, C)
    /\ Forgets(e.completion, f.completion, C) /\ Forgets(e.cb.win, f.cb.win, C)
    /\ f.cb.cmd = e.cb.cmd /\ f.cb.buf = e.cb.buf
    /\ f.width = e.width /\ f.height = e.height /\ f.fault = e.fault

LEMMA CloseAllIs ==
    ASSUME NEW e \in Eds, NEW C
    PROVE  Closed(e, CloseAll(e, C), C)
<1> DEFINE s == save_mode(e, C)
           f == CloseAll(e, C)
           L == WinsOf(e) \ C
           h == [w \in L |-> e.wins[w]]
           G(p) == IF p \in C THEN Gone ELSE p
           a == IF e.active \in C THEN FirstOf(L) ELSE e.active
<1>1. s \in Eds /\ s.wins = e.wins /\ SameRest(e, s) /\ Keeps(e, s, C)
  BY SaveModeIs
<1>2. f = [s EXCEPT !.wins = h, !.active = a, !.saved = G(e.saved),
                    !.popup_saved = G(e.popup_saved), !.completion = G(e.completion),
                    !.cb = [e.cb EXCEPT !.win = G(e.cb.win)]]
  <2>1. /\ s.wins = e.wins /\ s.active = e.active /\ s.saved = e.saved
        /\ s.popup_saved = e.popup_saved /\ s.completion = e.completion /\ s.cb = e.cb
    BY <1>1 DEF SameRest
  <2>2. f = [s EXCEPT !.wins = [w \in L |-> s.wins[w]],
                      !.active = IF s.active \in C THEN FirstOf(L) ELSE s.active,
                      !.saved = G(s.saved), !.popup_saved = G(s.popup_saved),
                      !.completion = G(s.completion), !.cb = [s.cb EXCEPT !.win = G(s.cb.win)]]
    BY DEF CloseAll
  <2> HIDE DEF s, f, L, G
  <2> QED
    BY <2>1, <2>2
<1>3. h \in Heap(WinRec) /\ DOMAIN h = L /\ \A w \in L : h[w] = e.wins[w]
  <2>1. h \in [L -> WinRec]
    BY EdIs
  <2>2. L \in SUBSET (DOMAIN e.wins) /\ e.wins \in Heap(WinRec)
    BY EdIs DEF WinsOf
  <2>3. h \in Heap(WinRec)
    <3> HIDE DEF h, L
    <3> QED
      BY <2>1, <2>2, HeapMap
  <2> QED
    BY <2>3
<1>4. a \in Ptr
  <2>1. Bounded(L)
    BY EdIs, BoundedSubset
  <2>2. FirstOf(L) \in Ptr
    <3>1. L \subseteq Nat
      BY <2>1 DEF Bounded
    <3> HIDE DEF L
    <3> QED
      BY <2>1, <3>1, FirstIs DEF Ptr
  <2> QED
    BY <2>2 DEF Eds
<1>5. \A p \in Ptr : G(p) \in Ptr
  BY DEF Ptr
<1>6. /\ e.saved \in Ptr /\ e.popup_saved \in Ptr /\ e.completion \in Ptr
      /\ e.cb \in CbRec /\ e.cb.win \in Ptr
  BY DEF Eds, CbRec
<1> DEFINE c == [e.cb EXCEPT !.win = G(e.cb.win)]
<1>7. c \in CbRec /\ c.win = G(e.cb.win) /\ c.cmd = e.cb.cmd /\ c.buf = e.cb.buf
  <2>1. G(e.cb.win) \in Ptr
    BY <1>5, <1>6
  <2> DEFINE g == G(e.cb.win)
  <2> HIDE DEF g
  <2> SUFFICES LET d == [e.cb EXCEPT !.win = g]
               IN  d \in CbRec /\ d.win = g /\ d.cmd = e.cb.cmd /\ d.buf = e.cb.buf
    BY DEF g
  <2> QED
    BY <1>6, <2>1 DEF CbRec, g
<1>8. G(e.saved) \in Ptr /\ G(e.popup_saved) \in Ptr /\ G(e.completion) \in Ptr
  BY <1>5, <1>6
<1> HIDE DEF h, a, s, G, c
<1>9. /\ f \in Eds /\ f.wins = h /\ f.bufs = s.bufs /\ f.active = a /\ f.saved = G(e.saved)
      /\ f.popup_saved = G(e.popup_saved) /\ f.completion = G(e.completion) /\ f.cb = c
      /\ f.width = s.width /\ f.height = s.height /\ f.fault = s.fault
  <2>1. f = [s EXCEPT !.wins = h, !.active = a, !.saved = G(e.saved),
                    !.popup_saved = G(e.popup_saved), !.completion = G(e.completion), !.cb = c]
    BY <1>2 DEF c
  <2> HIDE DEF f
  <2> QED
    BY <1>1, <1>3, <1>4, <1>7, <1>8, <2>1 DEF Eds
<1> HIDE DEF f
<1>10. Keeps(e, f, C)
  BY <1>1, <1>9 DEF Keeps, BufsOf
<1>11. WinsOf(f) = L /\ \A w \in L : f.wins[w] = e.wins[w]
  BY <1>3, <1>9 DEF WinsOf
<1>12. Closed(e, f, C)
  BY <1>1, <1>7, <1>9, <1>10, <1>11 DEF Closed, Forgets, SameRest, a, G
<1> QED
  BY <1>12 DEF f

LEMMA CloseModes ==
    ASSUME NEW e \in Eds, NEW x, ModesOK(e, x), NEW C, NEW f, Closed(e, f, C)
    PROVE  ModesOK(f, x)
<1>1. Keeps(e, f, C) /\ BufsOf(f) = BufsOf(e)
  BY DEF Closed, Keeps
<1>2. WinsOf(f) = WinsOf(e) \ C /\ \A w \in WinsOf(f) : f.wins[w] = e.wins[w]
  BY DEF Closed
<1>3. /\ \A c \in BufsOf(e) : OwnMode(f.bufs[c]) = OwnMode(e.bufs[c])
      /\ \A c \in BufsOf(e) \ {x} :
            /\ f.bufs[c].saved # None => f.bufs[c].saved = OwnMode(e.bufs[c])
            /\ Shows(e, c) \subseteq C /\ f.bufs[c].saved = None => OwnMode(e.bufs[c]) = "text"
  BY <1>1, SaveModes
<1>4. ASSUME NEW c, Shows(f, c) = {}
      PROVE  Shows(e, c) \subseteq C
  <2> SUFFICES ASSUME NEW w \in Shows(e, c), w \notin C PROVE FALSE
    OBVIOUS
  <2>1. w \in WinsOf(e) /\ e.wins[w].b = c
    BY ShowsIs
  <2>2. w \in Shows(f, c)
    BY <1>2, <2>1 DEF Shows
  <2> QED
    BY <1>4, <2>2
<1> QED
  BY <1>1, <1>2, <1>3, <1>4 DEF ModesOK

(* f is e without the buffer b.                                            *)
Freed(e, f, b) ==
    /\ f \in Eds /\ f.wins = e.wins
    /\ BufsOf(f) = BufsOf(e) \ {b}
    /\ \A c \in BufsOf(f) : f.bufs[c] = e.bufs[c]
    /\ f.active = e.active /\ f.saved = e.saved
    /\ f.popup_saved = e.popup_saved /\ f.completion = e.completion
    /\ f.cb.cmd = e.cb.cmd /\ f.cb.win = e.cb.win
    /\ f.cb.buf = IF e.cb.buf = b THEN Gone ELSE e.cb.buf
    /\ f.width = e.width /\ f.height = e.height /\ f.fault = e.fault

LEMMA FreeIs ==
    ASSUME NEW e \in Eds, NEW b, Shows(e, b) = {}
    PROVE  Freed(e, eb_free(e, b), b)
<1> DEFINE f == eb_free(e, b)
           L == BufsOf(e) \ {b}
           h == [i \in L |-> e.bufs[i]]
           v == [w \in WinsOf(e) |-> IF e.wins[w].b = b THEN [e.wins[w] EXCEPT !.b = Gone]
                                                        ELSE e.wins[w]]
           g == IF e.cb.buf = b THEN Gone ELSE e.cb.buf
           c == [e.cb EXCEPT !.buf = g]
<1>1. f = [e EXCEPT !.bufs = h, !.wins = v, !.cb = c]
  BY DEF eb_free, BufsOf, WinsOf
<1>2. v = e.wins
  <2>1. \A w \in WinsOf(e) : e.wins[w].b # b
    BY DEF Shows
  <2>2. e.wins \in [WinsOf(e) -> WinRec]
    BY EdIs, HeapIs DEF WinsOf
  <2> QED
    BY <2>1, <2>2
<1>3. h \in Heap(BufRec) /\ DOMAIN h = L /\ \A i \in L : h[i] = e.bufs[i]
  <2>1. h \in [L -> BufRec]
    BY EdIs
  <2>2. L \in SUBSET (DOMAIN e.bufs) /\ e.bufs \in Heap(BufRec)
    BY EdIs DEF BufsOf
  <2>3. h \in Heap(BufRec)
    <3> HIDE DEF h, L
    <3> QED
      BY <2>1, <2>2, HeapMap
  <2> QED
    BY <2>3
<1>4. e.cb \in CbRec /\ g \in Ptr
  BY DEF Eds, CbRec, Ptr
<1> HIDE DEF g
<1>5. c \in CbRec /\ c.win = e.cb.win /\ c.cmd = e.cb.cmd /\ c.buf = g
  BY <1>4 DEF CbRec
<1> HIDE DEF h, v, c
<1>6. /\ f \in Eds /\ f.bufs = h /\ f.wins = e.wins /\ f.cb = c /\ f.active = e.active
      /\ f.saved = e.saved /\ f.popup_saved = e.popup_saved /\ f.completion = e.completion
      /\ f.width = e.width /\ f.height = e.height /\ f.fault = e.fault
  <2> HIDE DEF f
  <2>1. e.wins \in Heap(WinRec)
    BY EdIs
  <2> QED
    BY <1>1, <1>2, <1>3, <1>5, <2>1 DEF Eds
<1> HIDE DEF f
<1>7. BufsOf(f) = L /\ \A i \in L : f.bufs[i] = e.bufs[i]
  BY <1>3, <1>6 DEF BufsOf
<1>8. Freed(e, f, b)
  BY <1>5, <1>6, <1>7 DEF Freed, g
<1> QED
  BY <1>8 DEF f

LEMMA FreeModes ==
    ASSUME NEW e \in Eds, NEW x, ModesOK(e, x), NEW b, NEW f, Freed(e, f, b)
    PROVE  ModesOK(f, x)
<1>1. f.wins = e.wins /\ BufsOf(f) = BufsOf(e) \ {b} /\ \A c \in BufsOf(f) : f.bufs[c] = e.bufs[c]
  BY DEF Freed
<1>2. WinsOf(f) = WinsOf(e) /\ \A c : Shows(f, c) = Shows(e, c)
  BY <1>1 DEF WinsOf, Shows
<1> QED
  BY <1>1, <1>2 DEF ModesOK

(* f is e with the mode of w changed to m.                                 *)
ModeSet(e, f, w, m) ==
    /\ f \in Eds /\ SameRest(e, f) /\ f.bufs = e.bufs /\ WinsOf(f) = WinsOf(e)
    /\ IsIn(f.wins[w], e.wins[w], e.wins[w].b, m)
    /\ \A v \in WinsOf(e) \ {w} : f.wins[v] = e.wins[v]

(* A window changes.                                                       *)
LEMMA SetWinIs ==
    ASSUME NEW e \in Eds, NEW w \in WinsOf(e), NEW r \in WinRec
    PROVE  LET f == [e EXCEPT !.wins[w] = r]
           IN  /\ f \in Eds /\ SameRest(e, f) /\ f.bufs = e.bufs /\ WinsOf(f) = WinsOf(e)
               /\ f.wins[w] = r /\ \A v \in WinsOf(e) \ {w} : f.wins[v] = e.wins[v]
<1> DEFINE f == [e EXCEPT !.wins[w] = r]
           h == [e.wins EXCEPT ![w] = r]
<1>1. e.wins \in Heap(WinRec) /\ e.wins \in [WinsOf(e) -> WinRec]
  BY EdIs, HeapIs DEF WinsOf
<1>2. /\ h \in [WinsOf(e) -> WinRec] /\ DOMAIN h = WinsOf(e) /\ h[w] = r
      /\ \A v \in WinsOf(e) \ {w} : h[v] = e.wins[v]
  BY <1>1
<1>3. f = [e EXCEPT !.wins = h]
  OBVIOUS
<1> HIDE DEF h, f
<1>4. h \in Heap(WinRec)
  BY <1>1, <1>2, HeapMap DEF WinsOf
<1>5. f \in Eds /\ f.wins = h /\ f.bufs = e.bufs /\ SameRest(e, f)
  BY <1>3, <1>4, WithWins
<1> QED
  BY <1>2, <1>5 DEF f, WinsOf

LEMMA SetModeIs ==
    ASSUME NEW e \in Eds, NEW w \in WinsOf(e), NEW m \in Modes
    PROVE  ModeSet(e, do_set_mode(e, w, m), w, m)
<1> DEFINE r == InMode(e, e.wins[w], m)
           f == do_set_mode(e, w, m)
<1>0. e.wins[w] \in WinRec /\ e.wins[w].b \in Ptr
  BY EdIs DEF WinRec
<1>1. r \in WinRec /\ IsIn(r, e.wins[w], e.wins[w].b, m)
  <2> DEFINE q == e.wins[w]
  <2>1. q \in WinRec /\ q.b \in Ptr
    BY <1>0
  <2> HIDE DEF q
  <2>2. IsIn(InMode(e, q, m), q, q.b, m)
    BY <2>1, InModeIs
  <2> QED
    BY <2>2 DEF q, IsIn
<1>2. f = [e EXCEPT !.wins[w] = r]
  BY DEF do_set_mode
<1> HIDE DEF r, f
<1>3. /\ f \in Eds /\ SameRest(e, f) /\ f.bufs = e.bufs /\ WinsOf(f) = WinsOf(e)
      /\ f.wins[w] = r /\ \A v \in WinsOf(e) \ {w} : f.wins[v] = e.wins[v]
  BY <1>1, <1>2, SetWinIs
<1>4. ModeSet(e, f, w, m)
  BY <1>1, <1>3 DEF ModeSet, IsIn
<1> QED
  BY <1>4 DEF f

(* The new buffer n gets its own mode in the only window that shows it.    *)
LEMMA SetModes ==
    ASSUME NEW e \in Eds, NEW n \in BufsOf(e), ModesOK(e, n), e.bufs[n].saved = None,
           NEW w \in WinsOf(e), Shows(e, n) = {w}, NEW f, ModeSet(e, f, w, OwnMode(e.bufs[n]))
    PROVE  ModesOK(f, None)
<1>1. /\ f.bufs = e.bufs /\ WinsOf(f) = WinsOf(e) /\ BufsOf(f) = BufsOf(e)
      /\ f.wins[w].b = e.wins[w].b /\ f.wins[w].mode = OwnMode(e.bufs[n])
      /\ \A v \in WinsOf(e) \ {w} : f.wins[v] = e.wins[v]
  BY DEF ModeSet, IsIn, BufsOf
<1>2. \A v \in WinsOf(e) : f.wins[v].b = e.wins[v].b
  BY <1>1
<1>3. \A c : Shows(f, c) = Shows(e, c)
  BY <1>1, <1>2 DEF Shows
<1>4. e.wins[w].b = n /\ \A v \in WinsOf(e) \ {w} : e.wins[v].b # n
  BY ShowsIs
<1>5. ASSUME NEW v \in WinsOf(f), f.wins[v].b \in BufsOf(f)
      PROVE  f.wins[v].mode = OwnMode(f.bufs[f.wins[v].b])
  <2>1. CASE v = w
    BY <1>1, <1>4, <2>1
  <2>2. CASE v # w
    BY <1>1, <1>4, <1>5, <2>2 DEF ModesOK
  <2> QED
    BY <2>1, <2>2
<1>6. ASSUME NEW c \in BufsOf(f)
      PROVE  /\ f.bufs[c].saved # None => f.bufs[c].saved = OwnMode(f.bufs[c])
             /\ Shows(f, c) = {} /\ f.bufs[c].saved = None => OwnMode(f.bufs[c]) = "text"
  BY <1>1, <1>3 DEF ModesOK
<1> QED
  BY <1>5, <1>6 DEF ModesOK

---------------------------------------------------------------------------
(* What holds of the windows and the buffers.                              *)

(* A buffer that is freed with the window that shows it.                   *)
Transient(r) == r.system /\ r.own # "bufed"

(* It visits no file; another buffer is in none of the modes of popups.    *)
OwnOK(r) ==
    IF Transient(r) THEN r.file = NoFile ELSE r.own # "less" /\ r.own # "minibuffer"

Live(e) == \A w \in WinsOf(e) : e.wins[w].b \in BufsOf(e)

(* No other name or file is that of another buffer, but for those of x.    *)
NamesOK(e, x) ==
    \A i, j \in BufsOf(e) \ {x} :
       i # j /\ ~e.bufs[i].system /\ ~e.bufs[j].system =>
          /\ e.bufs[i].name # e.bufs[j].name
          /\ \/ e.bufs[i].file = NoFile \/ e.bufs[i].file # e.bufs[j].file
             \/ e.bufs[i].written \/ e.bufs[j].written

(* The minibuffer and popups show buffers of their own, which no other     *)
(* window shows; but for n, they are shown.                                *)
Separate(e, n) ==
    /\ \A w \in WinsOf(e) : e.wins[w].kind = "tiled" <=> ~Transient(e.bufs[e.wins[w].b])
    /\ \A v, w \in WinsOf(e) : e.wins[v].kind # "tiled" /\ e.wins[v].b = e.wins[w].b => v = w
    /\ \A b \in BufsOf(e) : Transient(e.bufs[b]) => b = n \/ \E w \in WinsOf(e) : e.wins[w].b = b
    /\ \A b \in BufsOf(e) : OwnOK(e.bufs[b])

Sound(e, x, n) == e \in Eds /\ Live(e) /\ ModesOK(e, n) /\ NamesOK(e, x) /\ Separate(e, n)

LEMMA SoundLess ==
    ASSUME NEW e, NEW x, Sound(e, None, None)
    PROVE  Sound(e, x, None)
  BY EdIs DEF Sound, NamesOK

(* The buffers of f are those of e, or some of them.                       *)
LEMMA SameNames ==
    ASSUME NEW e, NEW f, NEW x, NamesOK(e, x), BufsOf(f) \subseteq BufsOf(e),
           \A b \in BufsOf(f) : SameBuf(f.bufs[b], e.bufs[b])
    PROVE  NamesOK(f, x)
  BY DEF NamesOK, SameBuf

LEMMA SameTransient ==
    ASSUME NEW r, NEW s, SameBuf(r, s)
    PROVE  (Transient(r) <=> Transient(s)) /\ (OwnOK(r) <=> OwnOK(s))
  BY DEF Transient, OwnOK, SameBuf

(* In f, the windows in C show b, and everything is as sound as before.    *)
SwitchedWell(e, f, C, b, x, n) ==
    /\ Sound(f, x, n) /\ SameRest(e, f) /\ WinsOf(f) = WinsOf(e) /\ BufsOf(f) = BufsOf(e)
    /\ \A w \in WinsOf(e) : f.wins[w].kind = e.wins[w].kind /\ SamePlace(f.wins[w], e.wins[w])
    /\ \A w \in WinsOf(e) \ C : f.wins[w] = e.wins[w]
    /\ \A w \in C : f.wins[w].b = b
    /\ \A c \in BufsOf(e) : SameBuf(f.bufs[c], e.bufs[c])

LEMMA SwitchSound ==
    ASSUME NEW e, NEW x, NEW n, Sound(e, x, n), NEW C, C \subseteq Tiled(e), NEW b \in BufsOf(e),
           ~Transient(e.bufs[b])
    PROVE  SwitchedWell(e, SwitchTo(e, C, b), C, b, x, n)
<1> DEFINE f == SwitchTo(e, C, b)
           m == ModeFor(save_mode(e, C), C, b)
<1>0. /\ e \in Eds /\ Live(e) /\ ModesOK(e, n) /\ NamesOK(e, x) /\ Separate(e, n)
      /\ C \subseteq WinsOf(e) /\ \A w \in C : e.wins[w].kind = "tiled"
  BY DEF Sound, Tiled
<1>1. Switched(e, f, C, b, m)
  BY <1>0, SwitchIs
<1>2. ModesOK(f, n)
  BY <1>0, SwitchModes
<1> HIDE DEF f, m
<1>3. /\ f \in Eds /\ SameRest(e, f) /\ WinsOf(f) = WinsOf(e) /\ BufsOf(f) = BufsOf(e)
      /\ \A w \in WinsOf(e) \ C : f.wins[w] = e.wins[w]
      /\ \A w \in C : f.wins[w].b = b /\ f.wins[w].kind = e.wins[w].kind
      /\ \A c \in BufsOf(e) : SameBuf(f.bufs[c], e.bufs[c])
  BY <1>1 DEF Switched, IsIn, Keeps
<1>10. \A w \in WinsOf(e) : SamePlace(f.wins[w], e.wins[w])
  BY <1>1, <1>3 DEF Switched, IsIn, SamePlace, At
<1>4. \A c \in BufsOf(e) : Transient(f.bufs[c]) <=> Transient(e.bufs[c])
  BY <1>3, SameTransient
<1>5. Live(f)
  BY <1>0, <1>3 DEF Live
<1>6. NamesOK(f, x)
  BY <1>0, <1>3, SameNames
<1>7. Separate(f, n)
  <2>1. ASSUME NEW w \in WinsOf(f)
        PROVE  f.wins[w].kind = "tiled" <=> ~Transient(f.bufs[f.wins[w].b])
    BY <1>0, <1>3, <1>4 DEF Separate, Live
  <2>2. ASSUME NEW v \in WinsOf(f), NEW w \in WinsOf(f), f.wins[v].kind # "tiled",
               f.wins[v].b = f.wins[w].b
        PROVE  v = w
    <3>1. v \notin C /\ f.wins[v] = e.wins[v] /\ e.wins[v].kind # "tiled" /\ v \in WinsOf(e)
      BY <1>0, <1>3, <2>2
    <3>2. w \notin C
      BY <1>0, <1>3, <2>2, <3>1 DEF Separate
    <3> QED
      BY <1>0, <1>3, <2>2, <3>1, <3>2 DEF Separate
  <2>3. ASSUME NEW c \in BufsOf(f), Transient(f.bufs[c]), c # n
        PROVE  \E w \in WinsOf(f) : f.wins[w].b = c
    <3>1. PICK w \in WinsOf(e) : e.wins[w].b = c
      BY <1>0, <1>3, <1>4, <2>3 DEF Separate
    <3>2. w \notin C
      BY <1>0, <1>3, <1>4, <2>3, <3>1 DEF Separate
    <3> QED
      BY <1>3, <3>1, <3>2
  <2>4. ASSUME NEW c \in BufsOf(f)
        PROVE  OwnOK(f.bufs[c])
    BY <1>0, <1>3, SameTransient DEF Separate
  <2> QED
    BY <2>1, <2>2, <2>3, <2>4 DEF Separate
<1>8. Sound(f, x, n)
  BY <1>2, <1>3, <1>5, <1>6, <1>7 DEF Sound
<1>9. SwitchedWell(e, f, C, b, x, n)
  BY <1>3, <1>8, <1>10 DEF SwitchedWell
<1> QED
  BY <1>9 DEF f

(* Only places and items of windows change.                                *)
LEMMA PlacesSound ==
    ASSUME NEW e, NEW x, NEW n, Sound(e, x, n), NEW f \in Eds, f.bufs = e.bufs, WinsOf(f) = WinsOf(e),
           \A w \in WinsOf(e) : /\ f.wins[w].b = e.wins[w].b /\ f.wins[w].mode = e.wins[w].mode
                                /\ f.wins[w].kind = e.wins[w].kind
    PROVE  Sound(f, x, n)
<1>1. BufsOf(f) = BufsOf(e) /\ \A c : Shows(f, c) = Shows(e, c)
  BY DEF BufsOf, Shows
<1>2. ModesOK(f, n)
  BY <1>1 DEF Sound, ModesOK
<1>3. Live(f)
  BY <1>1 DEF Sound, Live
<1>4. NamesOK(f, x)
  BY <1>1 DEF Sound, NamesOK
<1>5. Separate(f, n)
  BY <1>1 DEF Sound, Separate
<1> QED
  BY <1>2, <1>3, <1>4, <1>5 DEF Sound

LEMMA CloseSound ==
    ASSUME NEW e, NEW n, Sound(e, None, n), NEW C, C \subseteq Tiled(e), NEW f, Closed(e, f, C)
    PROVE  Sound(f, None, n)
<1>0. /\ e \in Eds /\ Live(e) /\ ModesOK(e, n) /\ NamesOK(e, None) /\ Separate(e, n)
      /\ \A w \in C : w \in WinsOf(e) /\ e.wins[w].kind = "tiled"
  BY DEF Sound, Tiled
<1>1. ModesOK(f, n)
  BY <1>0, CloseModes
<1>2. /\ f \in Eds /\ BufsOf(f) = BufsOf(e) /\ WinsOf(f) = WinsOf(e) \ C
      /\ \A w \in WinsOf(f) : f.wins[w] = e.wins[w]
      /\ \A c \in BufsOf(e) : SameBuf(f.bufs[c], e.bufs[c])
  BY DEF Closed, Keeps
<1>3. \A c \in BufsOf(e) : Transient(f.bufs[c]) <=> Transient(e.bufs[c])
  BY <1>2, SameTransient
<1>4. Live(f)
  BY <1>0, <1>2 DEF Live
<1>5. NamesOK(f, None)
  BY <1>0, <1>2, SameNames
<1>6. Separate(f, n)
  <2>1. ASSUME NEW w \in WinsOf(f)
        PROVE  f.wins[w].kind = "tiled" <=> ~Transient(f.bufs[f.wins[w].b])
    BY <1>0, <1>2, <1>3 DEF Separate, Live
  <2>2. ASSUME NEW v \in WinsOf(f), NEW w \in WinsOf(f), f.wins[v].kind # "tiled",
               f.wins[v].b = f.wins[w].b
        PROVE  v = w
    BY <1>0, <1>2, <2>2 DEF Separate
  <2>3. ASSUME NEW c \in BufsOf(f), Transient(f.bufs[c]), c # n
        PROVE  \E w \in WinsOf(f) : f.wins[w].b = c
    <3>1. PICK w \in WinsOf(e) : e.wins[w].b = c
      BY <1>0, <1>2, <1>3, <2>3 DEF Separate
    <3>2. w \notin C
      BY <1>0, <1>2, <1>3, <2>3, <3>1 DEF Separate
    <3> QED
      BY <1>2, <3>1, <3>2
  <2>4. ASSUME NEW c \in BufsOf(f)
        PROVE  OwnOK(f.bufs[c])
    BY <1>0, <1>2, SameTransient DEF Separate
  <2> QED
    BY <2>1, <2>2, <2>3, <2>4 DEF Separate
<1> QED
  BY <1>1, <1>2, <1>4, <1>5, <1>6 DEF Sound

LEMMA NewBufFields ==
    ASSUME NEW name \in NameSet, NEW system \in BOOLEAN
    PROVE  LET r == NewBuf(name, system)
           IN  /\ r.name = name /\ r.system = system /\ r.file = NoFile /\ r.saved = None
               /\ r.own = OpenMode(name, system) /\ OwnOK(r)
               /\ ~system => OwnMode(r) = "text" /\ ~Transient(r)
<1> DEFINE r == NewBuf(name, system)
<1>1. /\ r.name = name /\ r.system = system /\ r.file = NoFile /\ r.saved = None
      /\ r.own = OpenMode(name, system)
  BY DEF NewBuf
<1> HIDE DEF r
<1>2. ~system => OwnMode(r) = "text" /\ ~Transient(r)
  BY <1>1 DEF OwnMode, OpenMode, Transient
<1>3. OwnOK(r)
  <2>1. CASE Transient(r)
    BY <1>1, <2>1 DEF OwnOK
  <2>2. CASE ~Transient(r)
    <3>1. r.own = "text" \/ r.own = "bufed"
      BY <1>1, <1>2, <2>2 DEF Transient, OwnMode
    <3> QED
      BY <2>2, <3>1 DEF OwnOK
  <2> QED
    BY <2>1, <2>2
<1> QED
  BY <1>1, <1>2, <1>3 DEF r

(* A new buffer that the user asked for.                                   *)
LEMMA AddSound ==
    ASSUME NEW e, NEW x, Sound(e, x, None), NEW name \in NameSet,
           \A b \in BufsOf(e) \ {x} : ~e.bufs[b].system => e.bufs[b].name # name
    PROVE  Sound(eb_new(e, name, FALSE), x, None)
<1> DEFINE f == eb_new(e, name, FALSE)
           n == Fresh(e.bufs)
           r == NewBuf(name, FALSE)
<1>0. e \in Eds /\ Live(e) /\ ModesOK(e, None) /\ NamesOK(e, x) /\ Separate(e, None)
  BY DEF Sound
<1>1. Added(e, f, n, r)
  BY <1>0, EbNewIs
<1>2. /\ r.name = name /\ r.system = FALSE /\ r.file = NoFile /\ OwnMode(r) = "text" /\ r.saved = None
      /\ OwnOK(r)
  BY NewBufFields
<1> HIDE DEF f, n, r
<1>3. /\ f \in Eds /\ f.wins = e.wins /\ n \notin BufsOf(e) /\ BufsOf(f) = BufsOf(e) \cup {n}
      /\ f.bufs[n] = r /\ \A b \in BufsOf(e) : f.bufs[b] = e.bufs[b]
      /\ WinsOf(f) = WinsOf(e) /\ \A c : Shows(f, c) = Shows(e, c)
  BY <1>1 DEF Added, WinsOf, Shows
<1>4. Live(f)
  BY <1>0, <1>3 DEF Live
<1>5. ModesOK(f, None)
  <2>1. \A w \in WinsOf(f) : f.wins[w].mode = OwnMode(f.bufs[f.wins[w].b])
    <3> TAKE w \in WinsOf(f)
    <3>1. e.wins[w].b \in BufsOf(e) /\ None \notin BufsOf(e)
      BY <1>0, <1>3, EdIs DEF Live
    <3> QED
      BY <1>0, <1>3, <3>1 DEF ModesOK
  <2>2. ASSUME NEW b \in BufsOf(f) \ {None}
        PROVE  /\ f.bufs[b].saved # None => f.bufs[b].saved = OwnMode(f.bufs[b])
               /\ Shows(f, b) = {} /\ f.bufs[b].saved = None => OwnMode(f.bufs[b]) = "text"
    BY <1>0, <1>2, <1>3 DEF ModesOK
  <2> QED
    BY <2>1, <2>2 DEF ModesOK
<1>6. NamesOK(f, x)
  <2> SUFFICES ASSUME NEW i \in BufsOf(f) \ {x}, NEW j \in BufsOf(f) \ {x}, i # j,
                      ~f.bufs[i].system, ~f.bufs[j].system
               PROVE  /\ f.bufs[i].name # f.bufs[j].name
                      /\ \/ f.bufs[i].file = NoFile \/ f.bufs[i].file # f.bufs[j].file
                         \/ f.bufs[i].written \/ f.bufs[j].written
    BY DEF NamesOK
  <2>1. CASE i = n
    BY <1>2, <1>3, <2>1
  <2>2. CASE j = n /\ i \in BufsOf(e)
    <3>1. f.bufs[i].name # f.bufs[j].name
      BY <1>2, <1>3, <2>2
    <3>2. f.bufs[j].file = NoFile
      BY <1>2, <1>3, <2>2
    <3> QED
      BY <3>1, <3>2
  <2>3. CASE i \in BufsOf(e) /\ j \in BufsOf(e)
    BY <1>0, <1>3, <2>3 DEF NamesOK
  <2> QED
    BY <1>3, <2>1, <2>2, <2>3
<1>7. Separate(f, None)
  <2>1. ~Transient(r)
    BY NewBufFields DEF r
  <2>2. ASSUME NEW w \in WinsOf(f)
        PROVE  f.wins[w].kind = "tiled" <=> ~Transient(f.bufs[f.wins[w].b])
    BY <1>0, <1>3 DEF Separate, Live
  <2>3. ASSUME NEW c \in BufsOf(f), Transient(f.bufs[c])
        PROVE  c = None \/ \E w \in WinsOf(f) : f.wins[w].b = c
    BY <1>0, <1>3, <2>1, <2>3 DEF Separate
  <2>4. ASSUME NEW c \in BufsOf(f)
        PROVE  OwnOK(f.bufs[c])
    BY <1>0, <1>2, <1>3 DEF Separate
  <2>5. \A v, w \in WinsOf(f) : f.wins[v].kind # "tiled" /\ f.wins[v].b = f.wins[w].b => v = w
    BY <1>0, <1>3 DEF Separate
  <2> QED
    BY <2>2, <2>3, <2>4, <2>5 DEF Separate
<1>8. Sound(f, x, None)
  BY <1>3, <1>4, <1>5, <1>6, <1>7 DEF Sound
<1> QED
  BY <1>8 DEF f

(* A buffer that no window shows any more is freed.                        *)
LEMMA FreeSound ==
    ASSUME NEW e, NEW b, Sound(e, b, None), Shows(e, b) = {}, NEW f, Freed(e, f, b)
    PROVE  Sound(f, None, None)
<1>0. e \in Eds /\ Live(e) /\ ModesOK(e, None) /\ NamesOK(e, b) /\ Separate(e, None)
  BY DEF Sound
<1>1. ModesOK(f, None)
  BY <1>0, FreeModes
<1>2. /\ f \in Eds /\ f.wins = e.wins /\ BufsOf(f) = BufsOf(e) \ {b}
      /\ \A c \in BufsOf(f) : f.bufs[c] = e.bufs[c]
      /\ WinsOf(f) = WinsOf(e) /\ \A w \in WinsOf(e) : e.wins[w].b # b
  BY DEF Freed, WinsOf, Shows
<1>3. Live(f)
  BY <1>0, <1>2 DEF Live
<1>4. NamesOK(f, None)
  BY <1>0, <1>2 DEF NamesOK
<1>5. Separate(f, None)
  <2>1. ASSUME NEW w \in WinsOf(f)
        PROVE  f.wins[w].kind = "tiled" <=> ~Transient(f.bufs[f.wins[w].b])
    BY <1>0, <1>2, <1>3 DEF Separate, Live
  <2>2. ASSUME NEW c \in BufsOf(f), Transient(f.bufs[c])
        PROVE  c = None \/ \E w \in WinsOf(f) : f.wins[w].b = c
    BY <1>0, <1>2, <2>2 DEF Separate
  <2>3. ASSUME NEW c \in BufsOf(f)
        PROVE  OwnOK(f.bufs[c])
    BY <1>0, <1>2 DEF Separate
  <2>4. \A v, w \in WinsOf(f) : f.wins[v].kind # "tiled" /\ f.wins[v].b = f.wins[w].b => v = w
    BY <1>0, <1>2 DEF Separate
  <2> QED
    BY <2>1, <2>2, <2>3, <2>4 DEF Separate
<1> QED
  BY <1>1, <1>2, <1>3, <1>4, <1>5 DEF Sound

(* f is e without the window w and its buffer b.                           *)
ClosedWith(e, f, w, b) ==
    /\ WinsOf(f) = WinsOf(e) \ {w}
    /\ \A v \in WinsOf(f) : f.wins[v] = e.wins[v]
    /\ BufsOf(f) = BufsOf(e) \ {b}
    /\ \A c \in BufsOf(f) : SameBuf(f.bufs[c], e.bufs[c])
    /\ f.active = IF e.active = w THEN FirstOf(WinsOf(e) \ {w}) ELSE e.active
    /\ Forgets(e.saved, f.saved, {w}) /\ Forgets(e.popup_saved, f.popup_saved, {w})
    /\ Forgets(e.completion, f.completion, {w}) /\ Forgets(e.cb.win, f.cb.win, {w})
    /\ f.cb.cmd = e.cb.cmd /\ f.cb.buf = IF e.cb.buf = b THEN Gone ELSE e.cb.buf
    /\ f.fault = e.fault /\ f.width = e.width /\ f.height = e.height

LEMMA CloseWithBufferSound ==
    ASSUME NEW e, Sound(e, None, None), NEW w \in WinsOf(e), e.wins[w].kind # "tiled"
    PROVE  /\ Sound(CloseWithBuffer(e, w), None, None)
           /\ ClosedWith(e, CloseWithBuffer(e, w), w, e.wins[w].b)
<1> DEFINE f == CloseWithBuffer(e, w)
           b == e.wins[w].b
           g == CloseAll(e, {w})
<1>0. e \in Eds /\ Live(e) /\ ModesOK(e, None) /\ NamesOK(e, None) /\ Separate(e, None)
  BY DEF Sound
<1>1. Closed(e, g, {w})
  BY <1>0, CloseAllIs
<1>2. f = eb_free(g, b)
  BY DEF CloseWithBuffer, edit_close
<1> HIDE DEF g
<1>3. /\ g \in Eds /\ BufsOf(g) = BufsOf(e) /\ WinsOf(g) = WinsOf(e) \ {w}
      /\ \A v \in WinsOf(g) : g.wins[v] = e.wins[v]
      /\ \A c \in BufsOf(e) : SameBuf(g.bufs[c], e.bufs[c])
  BY <1>1 DEF Closed, Keeps
<1>4. Shows(g, b) = {}
  <2>1. \A v \in WinsOf(e) \ {w} : e.wins[v].b # b
    BY <1>0 DEF Separate
  <2> QED
    BY <1>3, <2>1 DEF Shows
<1>5. Freed(g, f, b)
  BY <1>2, <1>3, <1>4, FreeIs
<1> HIDE DEF f
<1>6. ModesOK(f, None)
  BY <1>0, <1>1, <1>3, <1>5, CloseModes, FreeModes
<1>7. /\ f \in Eds /\ WinsOf(f) = WinsOf(e) \ {w} /\ BufsOf(f) = BufsOf(e) \ {b}
      /\ \A v \in WinsOf(f) : f.wins[v] = e.wins[v]
      /\ \A c \in BufsOf(f) : SameBuf(f.bufs[c], e.bufs[c])
  BY <1>3, <1>5 DEF Freed, WinsOf
<1>8. \A c \in BufsOf(f) : Transient(f.bufs[c]) <=> Transient(e.bufs[c])
  BY <1>7, SameTransient
<1>9. \A v \in WinsOf(f) : f.wins[v].b # b
  BY <1>0, <1>7 DEF Separate
<1>10. Live(f)
  BY <1>0, <1>7, <1>9 DEF Live
<1>11. NamesOK(f, None)
  BY <1>0, <1>7, SameNames
<1>12. Separate(f, None)
  <2>1. ASSUME NEW v \in WinsOf(f)
        PROVE  f.wins[v].kind = "tiled" <=> ~Transient(f.bufs[f.wins[v].b])
    BY <1>0, <1>7, <1>8, <1>10 DEF Separate, Live
  <2>2. \A u, v \in WinsOf(f) : f.wins[u].kind # "tiled" /\ f.wins[u].b = f.wins[v].b => u = v
    BY <1>0, <1>7 DEF Separate
  <2>3. ASSUME NEW c \in BufsOf(f), Transient(f.bufs[c]), c # None
        PROVE  \E v \in WinsOf(f) : f.wins[v].b = c
    <3>1. PICK v \in WinsOf(e) : e.wins[v].b = c
      BY <1>0, <1>7, <1>8, <2>3 DEF Separate
    <3>2. v # w
      BY <1>7, <3>1
    <3> QED
      BY <1>7, <3>1, <3>2
  <2>4. ASSUME NEW c \in BufsOf(f)
        PROVE  OwnOK(f.bufs[c])
    BY <1>0, <1>7, SameTransient DEF Separate
  <2> QED
    BY <2>1, <2>2, <2>3, <2>4 DEF Separate
<1>13. Sound(f, None, None)
  BY <1>6, <1>7, <1>10, <1>11, <1>12 DEF Sound
<1>14. ClosedWith(e, f, w, b)
  BY <1>1, <1>5, <1>7 DEF ClosedWith, Closed, Freed, Forgets
<1> QED
  BY <1>13, <1>14 DEF f

(* A new system buffer, which no window shows yet.                         *)
LEMMA AddSystem ==
    ASSUME NEW e, Sound(e, None, None), NEW name \in NameSet
    PROVE  LET f == eb_new(e, name, TRUE)
               n == Fresh(e.bufs)
           IN  /\ Sound(f, None, n) /\ Shows(f, n) = {}
               /\ Added(e, f, n, NewBuf(name, TRUE))
<1> DEFINE f == eb_new(e, name, TRUE)
           n == Fresh(e.bufs)
           r == NewBuf(name, TRUE)
<1>0. e \in Eds /\ Live(e) /\ ModesOK(e, None) /\ NamesOK(e, None) /\ Separate(e, None)
  BY DEF Sound
<1>1. Added(e, f, n, r)
  BY <1>0, EbNewIs
<1>2. r.name = name /\ r.system = TRUE /\ r.file = NoFile /\ r.saved = None /\ OwnOK(r)
  BY NewBufFields
<1> HIDE DEF f, n, r
<1>3. /\ f \in Eds /\ f.wins = e.wins /\ n \notin BufsOf(e) /\ BufsOf(f) = BufsOf(e) \cup {n}
      /\ f.bufs[n] = r /\ \A b \in BufsOf(e) : f.bufs[b] = e.bufs[b]
      /\ WinsOf(f) = WinsOf(e) /\ \A c : Shows(f, c) = Shows(e, c)
  BY <1>1 DEF Added, WinsOf, Shows
<1>4. Live(f) /\ \A w \in WinsOf(e) : e.wins[w].b \in BufsOf(e)
  BY <1>0, <1>3 DEF Live
<1>5. \A b \in BufsOf(e) : b # None /\ b # n
  BY <1>0, <1>3, EdIs
<1>6. ModesOK(f, n)
  BY <1>0, <1>3, <1>4, <1>5 DEF ModesOK
<1>7. NamesOK(f, None)
  BY <1>0, <1>2, <1>3 DEF NamesOK
<1>8. Separate(f, n)
  <2>2. ASSUME NEW w \in WinsOf(f)
        PROVE  f.wins[w].kind = "tiled" <=> ~Transient(f.bufs[f.wins[w].b])
    BY <1>0, <1>3, <1>4 DEF Separate
  <2>3. ASSUME NEW c \in BufsOf(f), Transient(f.bufs[c])
        PROVE  c = n \/ \E w \in WinsOf(f) : f.wins[w].b = c
    BY <1>0, <1>3, <1>5, <2>3 DEF Separate
  <2>4. ASSUME NEW c \in BufsOf(f)
        PROVE  OwnOK(f.bufs[c])
    BY <1>0, <1>2, <1>3 DEF Separate
  <2>5. \A v, w \in WinsOf(f) : f.wins[v].kind # "tiled" /\ f.wins[v].b = f.wins[w].b => v = w
    BY <1>0, <1>3 DEF Separate
  <2> QED
    BY <2>2, <2>3, <2>4, <2>5 DEF Separate
<1>9. Shows(f, n) = {}
  BY <1>3, <1>4 DEF Shows
<1>10. Sound(f, None, n)
  BY <1>3, <1>4, <1>6, <1>7, <1>8 DEF Sound
<1> QED
  BY <1>1, <1>9, <1>10 DEF f, n, r

(* It is shown in a window of its own, which gets the mode of the buffer.  *)
LEMMA OpenSound ==
    ASSUME NEW e, NEW n \in BufsOf(e), Sound(e, None, n), Shows(e, n) = {}, e.active # None,
           e.bufs[n].saved = None, NEW kind \in Kinds,
           NEW x1 \in Int, NEW y1 \in Int, NEW x2 \in Int, NEW y2 \in Int,
           NEW m \in Modes, m = OwnMode(e.bufs[n]),
           kind = "tiled" <=> ~Transient(e.bufs[n])
    PROVE  LET e2 == edit_new(e, n, x1, y1, x2, y2, kind)
               w  == Fresh(e.wins)
               f  == do_set_mode(e2, w, m)
           IN  /\ Sound(f, None, None) /\ Opened(e, f, w, n, kind) /\ f.wins[w].mode = m
               /\ SameRest(e, e2) /\ At(f.wins[w], x1, y1, x2, y2)
<1> DEFINE w  == Fresh(e.wins)
           e2 == edit_new(e, n, x1, y1, x2, y2, kind)
           f  == do_set_mode(e2, w, m)
<1>0. /\ e \in Eds /\ Live(e) /\ ModesOK(e, n) /\ NamesOK(e, None) /\ Separate(e, n)
  BY DEF Sound
<1>1. /\ Opened(e, e2, w, n, kind) /\ At(e2.wins[w], x1, y1, x2, y2)
      /\ \A x : ModesOK(e, x) => ModesOK(e2, x)
  BY <1>0, EditNewIs
<1> HIDE DEF e2, w
<1>2. /\ e2 \in Eds /\ SameRest(e, e2) /\ e2.bufs = e.bufs /\ w \in Nat /\ w \notin WinsOf(e)
      /\ WinsOf(e2) = WinsOf(e) \cup {w} /\ e2.wins[w].b = n /\ e2.wins[w].kind = kind
      /\ \A v \in WinsOf(e) : e2.wins[v] = e.wins[v]
  BY <1>1 DEF Opened
<1>3. ModeSet(e2, f, w, m)
  BY <1>2, SetModeIs
<1> HIDE DEF f
<1>4. /\ f \in Eds /\ SameRest(e2, f) /\ f.bufs = e.bufs /\ WinsOf(f) = WinsOf(e) \cup {w}
      /\ f.wins[w].b = n /\ f.wins[w].kind = kind /\ f.wins[w].mode = m
      /\ \A v \in WinsOf(e) : f.wins[v] = e.wins[v]
  BY <1>2, <1>3 DEF ModeSet, IsIn
<1>13. At(f.wins[w], x1, y1, x2, y2)
  BY <1>1, <1>2, <1>3 DEF ModeSet, IsIn, SamePlace, At
<1>5. BufsOf(f) = BufsOf(e)
  BY <1>4 DEF BufsOf
<1>6. Opened(e, f, w, n, kind)
  BY <1>2, <1>4 DEF Opened, SameRest
<1>7. \A v \in WinsOf(e) : e.wins[v].b \in BufsOf(e) /\ e.wins[v].b # n
  BY <1>0 DEF Live, Shows
<1>8. ModesOK(f, None)
  <2>1. ModesOK(e2, n)
    BY <1>0, <1>1
  <2>2. Shows(e2, n) = {w}
    BY <1>2, <1>7 DEF Shows
  <2>3. n \in BufsOf(e2) /\ w \in WinsOf(e2) /\ e2.bufs[n].saved = None
    BY <1>2 DEF BufsOf
  <2>4. ModeSet(e2, f, w, OwnMode(e2.bufs[n]))
    BY <1>2, <1>3
  <2> QED
    BY <1>2, <2>1, <2>2, <2>3, <2>4, SetModes
<1>9. Live(f)
  BY <1>4, <1>5, <1>7 DEF Live
<1>10. NamesOK(f, None)
  BY <1>0, <1>4, <1>5 DEF NamesOK
<1>11. Separate(f, None)
  <2>1. ASSUME NEW v \in WinsOf(f)
        PROVE  f.wins[v].kind = "tiled" <=> ~Transient(f.bufs[f.wins[v].b])
    <3>1. CASE v = w
      BY <1>4, <3>1
    <3>2. CASE v # w
      BY <1>0, <1>4, <3>2 DEF Separate
    <3> QED
      BY <3>1, <3>2
  <2>2. \A u, v \in WinsOf(f) : f.wins[u].kind # "tiled" /\ f.wins[u].b = f.wins[v].b => u = v
    BY <1>0, <1>4, <1>7 DEF Separate
  <2>3. ASSUME NEW c \in BufsOf(f), Transient(f.bufs[c])
        PROVE  \E v \in WinsOf(f) : f.wins[v].b = c
    <3>1. CASE c = n
      BY <1>4, <3>1
    <3>2. CASE c # n
      <4>1. PICK v \in WinsOf(e) : e.wins[v].b = c
        BY <1>0, <1>4, <1>5, <2>3, <3>2 DEF Separate
      <4> QED
        BY <1>4, <4>1
    <3> QED
      BY <3>1, <3>2
  <2>4. \A c \in BufsOf(f) : OwnOK(f.bufs[c])
    BY <1>0, <1>4, <1>5 DEF Separate
  <2> QED
    BY <2>1, <2>2, <2>3, <2>4 DEF Separate
<1>12. Sound(f, None, None)
  BY <1>4, <1>8, <1>9, <1>10, <1>11 DEF Sound
<1> QED
  BY <1>2, <1>4, <1>6, <1>12, <1>13 DEF f, w, e2

---------------------------------------------------------------------------
(* The screen: every cell is in one tiled window, and in no other.         *)

Tiles(e) ==
    /\ \A w \in Tiled(e) : Inside(e, e.wins[w])
    /\ \A x \in 0..(e.width - 1), y \in 0..(e.height - 1) :
          \E w \in Tiled(e) : \A v \in Tiled(e) : Has(e.wins[v], x, y) <=> v = w

SameSize(e, f) == f.width = e.width /\ f.height = e.height

LEMMA TilesKept ==
    ASSUME NEW e, NEW f, SameSize(e, f), Tiled(f) = Tiled(e),
           \A w \in Tiled(e) : SamePlace(f.wins[w], e.wins[w])
    PROVE  Tiles(e) => Tiles(f)
<1> SUFFICES ASSUME Tiles(e) PROVE Tiles(f)
  OBVIOUS
<1>1. \A w \in Tiled(f) : Inside(f, f.wins[w])
  BY DEF Tiles, Inside, SamePlace, At, SameSize
<1>2. \A w \in Tiled(e) : \A x, y : Has(f.wins[w], x, y) <=> Has(e.wins[w], x, y)
  BY DEF Has, SamePlace, At
<1>3. ASSUME NEW x \in 0..(f.width - 1), NEW y \in 0..(f.height - 1)
      PROVE  \E w \in Tiled(f) : \A v \in Tiled(f) : Has(f.wins[v], x, y) <=> v = w
  <2>1. x \in 0..(e.width - 1) /\ y \in 0..(e.height - 1)
    BY DEF SameSize
  <2>2. PICK w \in Tiled(e) : \A v \in Tiled(e) : Has(e.wins[v], x, y) <=> v = w
    BY <2>1 DEF Tiles
  <2> QED
    BY <1>2, <2>2
<1> QED
  BY <1>1, <1>3 DEF Tiles

(* Windows besides the tiled ones come and go.                             *)
LEMMA TilesBesides ==
    ASSUME NEW e, NEW f, SameSize(e, f), NEW w,
           \/ WinsOf(f) = WinsOf(e)
           \/ WinsOf(f) = WinsOf(e) \cup {w} /\ w \notin WinsOf(e) /\ f.wins[w].kind # "tiled"
           \/ WinsOf(f) = WinsOf(e) \ {w} /\ e.wins[w].kind # "tiled",
           \A v \in WinsOf(e) \cap WinsOf(f) : f.wins[v] = e.wins[v]
    PROVE  Tiles(e) => Tiles(f)
<1>1. Tiled(f) = Tiled(e)
  BY DEF Tiled
<1>2. \A v \in Tiled(e) : f.wins[v] = e.wins[v]
  BY <1>1 DEF Tiled
<1>3. \A v \in Tiled(e) : SamePlace(f.wins[v], e.wins[v])
  BY <1>2 DEF SamePlace, At
<1> QED
  BY <1>1, <1>3, TilesKept

(* One window takes the cells of another one, which is closed.             *)
LEMMA TilesMerge ==
    ASSUME NEW e, NEW f, SameSize(e, f), NEW w \in Tiled(e), NEW v \in Tiled(e), v # w,
           Tiled(f) = Tiled(e) \ {w}, Inside(f, f.wins[v]),
           \A u \in Tiled(e) \ {v, w} : SamePlace(f.wins[u], e.wins[u]),
           \A x, y \in Int : Has(f.wins[v], x, y) <=> Has(e.wins[v], x, y) \/ Has(e.wins[w], x, y),
           e.width \in Nat, e.height \in Nat
    PROVE  Tiles(e) => Tiles(f)
<1> SUFFICES ASSUME Tiles(e) PROVE Tiles(f)
  OBVIOUS
<1>1. \A u \in Tiled(f) : Inside(f, f.wins[u])
  BY DEF Tiles, Inside, SamePlace, At, SameSize
<1>2. \A u \in Tiled(e) \ {v, w} : \A x, y : Has(f.wins[u], x, y) <=> Has(e.wins[u], x, y)
  BY DEF Has, SamePlace, At
<1>3. ASSUME NEW x \in 0..(f.width - 1), NEW y \in 0..(f.height - 1)
      PROVE  \E u \in Tiled(f) : \A t \in Tiled(f) : Has(f.wins[t], x, y) <=> t = u
  <2>1. x \in 0..(e.width - 1) /\ y \in 0..(e.height - 1) /\ x \in Int /\ y \in Int
    BY DEF SameSize
  <2>2. PICK u \in Tiled(e) : \A t \in Tiled(e) : Has(e.wins[t], x, y) <=> t = u
    BY <2>1 DEF Tiles
  <2>3. Has(f.wins[v], x, y) <=> u \in {v, w}
    BY <2>1, <2>2
  <2>4. \A t \in Tiled(f) \ {v} : Has(f.wins[t], x, y) <=> t = u
    BY <1>2, <2>2
  <2>5. CASE u \in {v, w}
    <3>1. \A t \in Tiled(f) : Has(f.wins[t], x, y) <=> t = v
      BY <2>3, <2>4, <2>5
    <3> QED
      BY <3>1
  <2>6. CASE u \notin {v, w}
    <3>1. u \in Tiled(f) /\ \A t \in Tiled(f) : Has(f.wins[t], x, y) <=> t = u
      BY <2>3, <2>4, <2>6
    <3> QED
      BY <3>1
  <2> QED
    BY <2>5, <2>6
<1> QED
  BY <1>1, <1>3 DEF Tiles

(* A cell of s is in one of t and r.                                       *)
Parts(s, t, r) ==
    \A x, y \in Int : /\ Has(s, x, y) <=> Has(t, x, y) \/ Has(r, x, y)
                      /\ ~(Has(t, x, y) /\ Has(r, x, y))

(* A new window takes some of the cells of another one.                    *)
LEMMA TilesSplit ==
    ASSUME NEW e, NEW f, SameSize(e, f), NEW w \in Tiled(e), NEW n, n \notin Tiled(e),
           Tiled(f) = Tiled(e) \cup {n}, Inside(f, f.wins[w]), Inside(f, f.wins[n]),
           \A u \in Tiled(e) \ {w} : SamePlace(f.wins[u], e.wins[u]),
           Parts(e.wins[w], f.wins[w], f.wins[n]),
           e.width \in Nat, e.height \in Nat
    PROVE  Tiles(e) => Tiles(f)
<1> SUFFICES ASSUME Tiles(e) PROVE Tiles(f)
  OBVIOUS
<1>1. \A u \in Tiled(f) : Inside(f, f.wins[u])
  BY DEF Tiles, Inside, SamePlace, At, SameSize
<1>2. \A u \in Tiled(e) \ {w} : \A x, y : Has(f.wins[u], x, y) <=> Has(e.wins[u], x, y)
  BY DEF Has, SamePlace, At
<1>3. ASSUME NEW x \in 0..(f.width - 1), NEW y \in 0..(f.height - 1)
      PROVE  \E u \in Tiled(f) : \A t \in Tiled(f) : Has(f.wins[t], x, y) <=> t = u
  <2>1. x \in 0..(e.width - 1) /\ y \in 0..(e.height - 1) /\ x \in Int /\ y \in Int
    BY DEF SameSize
  <2>2. PICK u \in Tiled(e) : \A t \in Tiled(e) : Has(e.wins[t], x, y) <=> t = u
    BY <2>1 DEF Tiles
  <2>3. \A t \in Tiled(e) \ {w} : Has(f.wins[t], x, y) <=> t = u
    BY <1>2, <2>2
  <2>4. /\ u = w <=> Has(f.wins[w], x, y) \/ Has(f.wins[n], x, y)
        /\ ~(Has(f.wins[w], x, y) /\ Has(f.wins[n], x, y))
    BY <2>1, <2>2 DEF Parts
  <2>5. CASE Has(f.wins[n], x, y)
    <3>1. \A t \in Tiled(f) : Has(f.wins[t], x, y) <=> t = n
      BY <2>3, <2>4, <2>5
    <3> QED
      BY <3>1
  <2>6. CASE ~Has(f.wins[n], x, y)
    <3>1. \A t \in Tiled(f) : Has(f.wins[t], x, y) <=> t = u
      BY <2>2, <2>3, <2>4, <2>6
    <3> QED
      BY <2>2, <3>1
  <2> QED
    BY <2>5, <2>6
<1> QED
  BY <1>1, <1>3 DEF Tiles

(* t is what is right of the column x of r.                                *)
RightOf(t, r, x) == At(t, IF r.x1 < x THEN x ELSE r.x1, r.y1, r.x2, r.y2)

(* A new window n takes the cells left of a column; the windows C that had *)
(* no others are closed.                                                   *)
LEMMA TilesInsert ==
    ASSUME NEW e, NEW f, SameSize(e, f), e.width \in Nat, e.height \in Nat,
           NEW z \in 0..e.width, NEW n, NEW C, C = {w \in Tiled(e) : e.wins[w].x2 <= z},
           n \notin Tiled(e) \ C, Tiled(f) = (Tiled(e) \ C) \cup {n},
           At(f.wins[n], 0, 0, z, e.height),
           \A w \in Tiled(e) \ C : RightOf(f.wins[w], e.wins[w], z),
           \A w \in Tiled(e) : e.wins[w] \in WinRec
    PROVE  Tiles(e) => Tiles(f)
<1> SUFFICES ASSUME Tiles(e) PROVE Tiles(f)
  OBVIOUS
<1>0. \A w \in Tiled(e) : /\ e.wins[w].x1 \in Int /\ e.wins[w].x2 \in Int
                          /\ e.wins[w].y1 \in Int /\ e.wins[w].y2 \in Int
  BY DEF WinRec
<1>1. ASSUME NEW w \in Tiled(f) PROVE Inside(f, f.wins[w])
  <2>1. CASE w = n
    BY <2>1 DEF Inside, At, SameSize
  <2>2. CASE w # n
    <3>1. w \in Tiled(e) \ C /\ ~(e.wins[w].x2 <= z) /\ Inside(e, e.wins[w])
      BY <2>2 DEF Tiles
    <3> QED
      BY <1>0, <3>1 DEF Inside, RightOf, At, SameSize
  <2> QED
    BY <2>1, <2>2
<1>2. ASSUME NEW x \in 0..(f.width - 1), NEW y \in 0..(f.height - 1)
      PROVE  \E u \in Tiled(f) : \A t \in Tiled(f) : Has(f.wins[t], x, y) <=> t = u
  <2>1. x \in 0..(e.width - 1) /\ y \in 0..(e.height - 1) /\ x \in Int /\ y \in Int
    BY DEF SameSize
  <2>2. Has(f.wins[n], x, y) <=> x < z
    BY <2>1 DEF Has, At
  <2>3. \A t \in Tiled(e) \ C : Has(f.wins[t], x, y) <=> Has(e.wins[t], x, y) /\ z <= x
    BY <1>0, <2>1 DEF Has, RightOf, At
  <2>4. CASE x < z
    <3>1. \A t \in Tiled(f) : Has(f.wins[t], x, y) <=> t = n
      BY <2>1, <2>2, <2>3, <2>4
    <3> QED
      BY <3>1
  <2>5. CASE ~(x < z)
    <3>1. PICK u \in Tiled(e) : \A t \in Tiled(e) : Has(e.wins[t], x, y) <=> t = u
      BY <2>1 DEF Tiles
    <3>2. u \notin C
      <4>1. x < e.wins[u].x2
        BY <3>1 DEF Has
      <4> QED
        BY <1>0, <2>1, <2>5, <4>1
    <3>3. \A t \in Tiled(f) : Has(f.wins[t], x, y) <=> t = u
      BY <2>1, <2>2, <2>3, <2>5, <3>1, <3>2
    <3> QED
      BY <3>2, <3>3
  <2> QED
    BY <2>4, <2>5
<1> QED
  BY <1>1, <1>2 DEF Tiles

---------------------------------------------------------------------------
(* What is open: nothing but tiled windows, a text to read, or a question. *)

AllTiled(e, S) == \A w \in WinsOf(e) \ S : e.wins[w].kind = "tiled"

Calm(e) ==
    /\ e.cb = NoCb /\ e.saved = None /\ e.popup_saved = None /\ e.completion = None
    /\ AllTiled(e, {})

Reading(e) ==
    /\ e.cb = NoCb /\ e.saved = None /\ e.completion = None /\ e.popup_saved \in Tiled(e)
    /\ e.wins[e.active].kind = "popup" /\ e.wins[e.active].mode = "less"
    /\ AllTiled(e, {e.active})

(* The command that waits still has what it is for.                        *)
Waits(e, cb) ==
    \/ cb.cmd = "argument" /\ cb.win \in Tiled(e) /\ cb.buf = None
    \/ /\ cb.cmd = "kill_buffer_confirm" /\ cb.win = None
       /\ cb.buf \in BufsOf(e) /\ ~Transient(e.bufs[cb.buf])

Asking(e) ==
    /\ Waits(e, e.cb) /\ e.saved \in Tiled(e) /\ e.popup_saved = None
    /\ e.wins[e.active].kind = "minibuf" /\ e.wins[e.active].mode = "minibuffer"
    /\ AllTiled(e, {e.active, e.completion})
    /\ \/ e.completion = None
       \/ /\ e.completion \in WinsOf(e) \ {e.active}
          /\ e.wins[e.completion].kind = "popup" /\ e.wins[e.completion].mode = "list"

Inv(e) ==
    /\ Sound(e, None, None) /\ e.fault = "none" /\ e.active \in WinsOf(e)
    /\ Calm(e) \/ Reading(e) \/ Asking(e)

(* The modes of the buffers of questions and popups.                       *)
LEMMA SystemModes ==
    /\ \A r : r = NewBuf(Name("*minibuf*", 1), TRUE) => OwnMode(r) = "minibuffer" /\ Transient(r)
    /\ \A r : r = NewBuf(Name("*completion*", 1), TRUE) => OwnMode(r) = "list" /\ Transient(r)
    /\ \A r : r = NewBuf(Name("*Help*", 1), TRUE) => OwnMode(r) = "less" /\ Transient(r)
    /\ \A r : r = NewBuf(Name("*bufed*", 1), TRUE) => OwnMode(r) = "bufed" /\ ~Transient(r)
<1>1. ASSUME NEW s, NEW r, r = NewBuf(Name(s, 1), TRUE)
      PROVE  r.system = TRUE /\ r.own = OpenMode(Name(s, 1), TRUE) /\ Name(s, 1)[1] = s
  BY <1>1 DEF NewBuf, Name
<1>2. ASSUME NEW r, r = NewBuf(Name("*minibuf*", 1), TRUE)
      PROVE  OwnMode(r) = "minibuffer" /\ Transient(r)
  <2>1. /\ r.system = TRUE /\ r.own = OpenMode(Name("*minibuf*", 1), TRUE)
        /\ Name("*minibuf*", 1)[1] = "*minibuf*"
    BY <1>1, <1>2
  <2> QED
    BY <2>1 DEF OwnMode, OpenMode, Transient
<1>3. ASSUME NEW r, r = NewBuf(Name("*completion*", 1), TRUE)
      PROVE  OwnMode(r) = "list" /\ Transient(r)
  <2>1. /\ r.system = TRUE /\ r.own = OpenMode(Name("*completion*", 1), TRUE)
        /\ Name("*completion*", 1)[1] = "*completion*"
    BY <1>1, <1>3
  <2> QED
    BY <2>1 DEF OwnMode, OpenMode, Transient
<1>4. ASSUME NEW r, r = NewBuf(Name("*Help*", 1), TRUE)
      PROVE  OwnMode(r) = "less" /\ Transient(r)
  <2>1. /\ r.system = TRUE /\ r.own = OpenMode(Name("*Help*", 1), TRUE)
        /\ Name("*Help*", 1)[1] = "*Help*"
    BY <1>1, <1>4
  <2> QED
    BY <2>1 DEF OwnMode, OpenMode, Transient
<1>5. ASSUME NEW r, r = NewBuf(Name("*bufed*", 1), TRUE)
      PROVE  OwnMode(r) = "bufed" /\ ~Transient(r)
  <2>1. /\ r.system = TRUE /\ r.own = OpenMode(Name("*bufed*", 1), TRUE)
        /\ Name("*bufed*", 1)[1] = "*bufed*"
    BY <1>1, <1>5
  <2> QED
    BY <2>1 DEF OwnMode, OpenMode, Transient
<1> QED
  BY <1>2, <1>3, <1>4, <1>5

LEMMA NamesAre ==
    /\ Name("*minibuf*", 1) \in NameSet /\ Name("*completion*", 1) \in NameSet
    /\ Name("*Help*", 1) \in NameSet /\ Name("*bufed*", 1) \in NameSet
    /\ Scratch \in NameSet /\ Name("", 1) \in NameSet
    /\ \A k \in Nat : Name(Base, k) \in NameSet
<1>1. \A s \in Bases : \A k \in Nat : Name(s, k) \in NameSet
  BY DEF Name, NameSet
<1>2. /\ "*minibuf*" \in Bases /\ "*completion*" \in Bases /\ "*Help*" \in Bases
      /\ "*bufed*" \in Bases /\ "*scratch*" \in Bases /\ "" \in Bases /\ Base \in Bases
  BY Zenon DEF Bases
<1>3. 1 \in Nat
  OBVIOUS
<1>4. \A k \in Nat : Name(Base, k) \in NameSet
  BY <1>1, <1>2, Zenon
<1> QED
  BY <1>1, <1>2, <1>3, <1>4, Zenon DEF Scratch

(* Only pointers change.                                                   *)
LEMMA PointersSound ==
    ASSUME NEW e, NEW x, NEW n, Sound(e, x, n), NEW f \in Eds, f.wins = e.wins, f.bufs = e.bufs
    PROVE  Sound(f, x, n)
<1>1. WinsOf(f) = WinsOf(e)
  BY DEF WinsOf
<1> QED
  BY <1>1, PlacesSound

(* The state with a question, which keeps the windows and buffers of e.    *)
Contains(f, e) ==
    /\ WinsOf(e) \subseteq WinsOf(f) /\ \A w \in WinsOf(e) : f.wins[w] = e.wins[w]
    /\ BufsOf(e) \subseteq BufsOf(f) /\ \A b \in BufsOf(e) : f.bufs[b] = e.bufs[b]

LEMMA CalmActive ==
    ASSUME NEW e, Sound(e, None, None), e.active \in WinsOf(e)
    PROVE  e \in Eds /\ e.active # None
  BY EdIs DEF Sound

LEMMA MinibufferEditIs ==
    ASSUME NEW e, Inv(e), Calm(e), NEW cb \in CbRec, Waits(e, cb)
    PROVE  LET f == minibuffer_edit(e, cb)
           IN  /\ Inv(f) /\ Asking(f) /\ f.cb = cb /\ Contains(f, e)
               /\ Tiles(e) => Tiles(f)
<1> DEFINE n  == Fresh(e.bufs)
           w  == Fresh(e.wins)
           nm == Name("*minibuf*", 1)
           r  == NewBuf(nm, TRUE)
           e0 == eb_new(e, nm, TRUE)
           e1 == [e0 EXCEPT !.cb = cb]
           e2 == edit_new(e1, n, 0, e.height, e.width, e.height + 1, "minibuf")
           d  == do_set_mode(e2, w, "minibuffer")
           f  == [d EXCEPT !.saved = e2.active, !.active = w, !.completion = None]
<1>0. Sound(e, None, None) /\ e.active \in WinsOf(e) /\ e.fault = "none" /\ e.cb = NoCb
  BY DEF Inv, Calm
<1>1. minibuffer_edit(e, cb) = f
  BY <1>0 DEF minibuffer_edit
<1>2. Sound(e0, None, n) /\ Shows(e0, n) = {} /\ Added(e, e0, n, r)
  BY <1>0, NamesAre, AddSystem
<1>3. OwnMode(r) = "minibuffer" /\ Transient(r) /\ r.saved = None
  BY SystemModes, NamesAre, NewBufFields
<1>4. e \in Eds /\ e.active # None /\ e.height \in Int /\ e.width \in Int
  <2>1. e \in Eds /\ e.active # None
    BY <1>0, CalmActive
  <2> QED
    BY <2>1, EdIs
<1> HIDE DEF e0, n, r, nm
<1>5. /\ e0 \in Eds /\ e0.wins = e.wins /\ SameRest(e, e0) /\ n \in BufsOf(e0) /\ e0.bufs[n] = r
      /\ \A b \in BufsOf(e) : b \in BufsOf(e0) /\ e0.bufs[b] = e.bufs[b]
  BY <1>2 DEF Added
<1>6. /\ e1 \in Eds /\ e1.wins = e0.wins /\ e1.bufs = e0.bufs /\ e1.cb = cb /\ e1.active = e0.active
      /\ e1.popup_saved = e0.popup_saved /\ e1.fault = e0.fault /\ SameSize(e0, e1)
  BY <1>5 DEF Eds, SameSize
<1> HIDE DEF e1
<1>7. Sound(e1, None, n)
  BY <1>2, <1>6, PointersSound
<1>8. /\ Shows(e1, n) = {} /\ n \in BufsOf(e1) /\ e1.active # None /\ e1.bufs[n] = r
      /\ w = Fresh(e1.wins)
  BY <1>2, <1>4, <1>5, <1>6 DEF Shows, BufsOf, WinsOf, SameRest
<1>9. /\ Sound(d, None, None) /\ Opened(e1, d, w, n, "minibuf") /\ d.wins[w].mode = "minibuffer"
      /\ SameRest(e1, e2)
  <2>1. "minibuffer" \in Modes /\ "minibuf" \in Kinds /\ "minibuf" # "tiled"
    BY DEF Modes, Kinds
  <2> HIDE DEF w
  <2>2. 0 \in Int /\ e.height + 1 \in Int
    BY <1>4
  <2>3. e1.bufs[n].saved = None /\ "minibuffer" = OwnMode(e1.bufs[n]) /\ Transient(e1.bufs[n])
    BY <1>3, <1>8
  <2> QED
    BY <1>4, <1>7, <1>8, <2>1, <2>2, <2>3, OpenSound
<1> HIDE DEF d, e2, w
<1>10. /\ d \in Eds /\ SameRest(e1, d) /\ d.bufs = e1.bufs /\ w \in Nat /\ w \notin WinsOf(e1)
       /\ WinsOf(d) = WinsOf(e1) \cup {w} /\ d.wins[w].kind = "minibuf"
       /\ \A v \in WinsOf(e1) : d.wins[v] = e1.wins[v]
  BY <1>9 DEF Opened
<1>11. e2.active = e.active /\ e.active \in Ptr /\ w \in Ptr /\ None \in Ptr
  BY <1>4, <1>5, <1>6, <1>9, <1>10 DEF SameRest, Eds, Ptr
<1>12. /\ f \in Eds /\ f.wins = d.wins /\ f.bufs = d.bufs /\ f.cb = d.cb /\ f.saved = e.active
       /\ f.active = w /\ f.completion = None /\ f.popup_saved = d.popup_saved
       /\ f.fault = d.fault /\ SameSize(d, f)
  BY <1>10, <1>11 DEF Eds, SameSize
<1> HIDE DEF f
<1>13. Sound(f, None, None)
  BY <1>9, <1>12, PointersSound
<1>14. WinsOf(e1) = WinsOf(e) /\ WinsOf(f) = WinsOf(e) \cup {w} /\ w \notin WinsOf(e)
  BY <1>5, <1>6, <1>10, <1>12 DEF WinsOf
<1>15. /\ \A v \in WinsOf(e) : f.wins[v] = e.wins[v]
       /\ \A b \in BufsOf(e) : b \in BufsOf(f) /\ f.bufs[b] = e.bufs[b]
  BY <1>5, <1>6, <1>10, <1>12, <1>14 DEF BufsOf
<1>16. Contains(f, e)
  BY <1>14, <1>15 DEF Contains
<1>17. f.cb = cb /\ f.popup_saved = None /\ f.fault = "none"
  BY <1>0, <1>5, <1>6, <1>10, <1>12 DEF SameRest, Calm
<1>18. \A v \in Tiled(e) : v \in Tiled(f)
  BY <1>14, <1>15 DEF Tiled
<1>19. AllTiled(f, {w, None}) /\ e.active \in Tiled(e)
  BY <1>0, <1>14, <1>15 DEF AllTiled, Calm, Tiled
<1>20. Waits(f, cb)
  BY <1>15, <1>18 DEF Waits
<1>21. Asking(f)
  BY <1>9, <1>10, <1>12, <1>17, <1>18, <1>19, <1>20 DEF Asking
<1>22. Inv(f)
  BY <1>12, <1>13, <1>14, <1>17, <1>21 DEF Inv
<1>23. Tiles(e) => Tiles(f)
  <2>1. SameSize(e, f)
    BY <1>5, <1>6, <1>10, <1>12 DEF SameSize, SameRest
  <2>2. f.wins[w].kind # "tiled"
    BY <1>10, <1>12
  <2> QED
    BY <1>14, <1>15, <2>1, <2>2, TilesBesides
<1> QED
  BY <1>1, <1>16, <1>17, <1>21, <1>22, <1>23 DEF f

---------------------------------------------------------------------------
(* Commands on windows.                                                    *)

LEMMA CbEqual ==
    ASSUME NEW c \in CbRec, NEW d \in CbRec, c.cmd = d.cmd, c.win = d.win, c.buf = d.buf
    PROVE  c = d
  BY DEF CbRec

LEMMA NoCbIs ==
    /\ NoCb \in CbRec /\ NoCb.cmd = "none" /\ NoCb.win = None /\ NoCb.buf = None
    /\ \A c : c.cmd # "none" => c # NoCb
  BY DEF NoCb, CbRec, Ptr

(* Only tiled windows are open before and after.                           *)
LEMMA CalmSame ==
    ASSUME NEW e, Inv(e), Calm(e), NEW f, Sound(f, None, None), SameRest(e, f),
           WinsOf(e) \subseteq WinsOf(f), \A w \in WinsOf(f) : f.wins[w].kind = "tiled"
    PROVE  Inv(f) /\ Calm(f)
  BY DEF Inv, Calm, SameRest, AllTiled

LEMMA CalmPlaces ==
    ASSUME NEW e, Inv(e), Calm(e), NEW f \in Eds, f.bufs = e.bufs, SameRest(e, f),
           WinsOf(f) = WinsOf(e),
           \A w \in WinsOf(e) : /\ f.wins[w].b = e.wins[w].b /\ f.wins[w].mode = e.wins[w].mode
                                /\ f.wins[w].kind = e.wins[w].kind
    PROVE  Inv(f) /\ Calm(f)
<1>1. Sound(f, None, None)
  BY PlacesSound DEF Inv
<1>2. \A w \in WinsOf(f) : f.wins[w].kind = "tiled"
  BY DEF Calm, AllTiled
<1> QED
  BY <1>1, <1>2, CalmSame

LEMMA CalmWindows ==
    ASSUME NEW e, Inv(e), Calm(e)
    PROVE  /\ Tiled(e) = WinsOf(e) /\ NotMini(e) = WinsOf(e) /\ e \in Eds /\ e.active \in WinsOf(e)
           /\ \A b \in BufsOf(e) : ~Transient(e.bufs[b])
<1>1. \A w \in WinsOf(e) : e.wins[w].kind = "tiled"
  BY DEF Calm, AllTiled
<1>2. Separate(e, None) /\ e \in Eds /\ e.active \in WinsOf(e)
  BY DEF Inv, Sound
<1>3. \A b \in BufsOf(e) : b # None
  BY <1>2, EdIs
<1>4. \A b \in BufsOf(e) : ~Transient(e.bufs[b])
  BY <1>1, <1>2, <1>3 DEF Separate
<1> QED
  BY <1>1, <1>2, <1>4 DEF Tiled, NotMini

(* Some windows are closed, but not all of them.                           *)
LEMMA CalmClose ==
    ASSUME NEW e, Inv(e), Calm(e), NEW C, C \subseteq WinsOf(e), WinsOf(e) \ C # {}
    PROVE  LET f == CloseAll(e, C)
           IN  Inv(f) /\ Calm(f) /\ Closed(e, f, C)
<1> DEFINE f == CloseAll(e, C)
<1>0. e \in Eds /\ Tiled(e) = WinsOf(e) /\ Sound(e, None, None) /\ e.active \in WinsOf(e)
  BY CalmWindows DEF Inv
<1>1. Closed(e, f, C)
  BY <1>0, CloseAllIs
<1> HIDE DEF f
<1>2. Sound(f, None, None)
  BY <1>0, <1>1, CloseSound
<1>3. None \notin C
  BY <1>0, EdIs
<1>4. /\ f \in Eds /\ WinsOf(f) = WinsOf(e) \ C /\ \A w \in WinsOf(f) : f.wins[w] = e.wins[w]
      /\ f.active = IF e.active \in C THEN FirstOf(WinsOf(e) \ C) ELSE e.active
      /\ f.saved = None /\ f.popup_saved = None /\ f.completion = None
      /\ f.cb.cmd = "none" /\ f.cb.win = None /\ f.cb.buf = None /\ f.fault = "none"
  BY <1>1, <1>3, NoCbIs DEF Closed, Forgets, Calm, Inv
<1>5. f.active \in WinsOf(f)
  <2> DEFINE L == WinsOf(e) \ C
  <2>1. Bounded(L)
    BY <1>0, EdIs, BoundedSubset
  <2>2. L # {}
    OBVIOUS
  <2>3. FirstOf(L) \in L
    <3> HIDE DEF L
    <3> QED
      BY <2>1, <2>2, FirstIs
  <2> QED
    BY <1>0, <1>4, <2>3
<1>6. f.cb = NoCb
  <2>1. f.cb \in CbRec
    BY <1>4, EdIs
  <2> QED
    BY <1>4, <2>1, NoCbIs, CbEqual
<1>7. AllTiled(f, {})
  BY <1>4 DEF AllTiled, Calm
<1>8. Calm(f)
  BY <1>4, <1>6, <1>7 DEF Calm
<1>9. Inv(f)
  BY <1>2, <1>4, <1>5, <1>8 DEF Inv
<1> QED
  BY <1>1, <1>8, <1>9 DEF f

LEMMA OtherWindowIs ==
    ASSUME NEW e, Inv(e), Calm(e), NEW w \in WinsOf(e)
    PROVE  LET f == do_other_window(e, w)
           IN  Inv(f) /\ (Tiles(e) => Tiles(f))
<1> DEFINE S == {v \in WinsOf(e) : v < w}
           T == IF S = {} THEN WinsOf(e) ELSE S
           f == do_other_window(e, w)
<1>0. e \in Eds
  BY CalmWindows
<1>1. Bounded(WinsOf(e)) /\ Bounded(S)
  BY <1>0, EdIs, BoundedSubset
<1>2. Bounded(T) /\ T # {} /\ T \subseteq WinsOf(e)
  BY <1>1
<1>3. First(T) \in WinsOf(e)
  <2> HIDE DEF T
  <2> QED
    BY <1>2, FirstIs
<1>4. f = [e EXCEPT !.active = First(T)]
  BY DEF do_other_window
<1> DEFINE a == First(T)
<1>5. a \in WinsOf(e) /\ f = [e EXCEPT !.active = a]
  BY <1>3, <1>4
<1>6. a \in Ptr
  BY <1>0, <1>5, EdIs DEF Ptr
<1> HIDE DEF a, f
<1>7. /\ f \in Eds /\ f.wins = e.wins /\ f.bufs = e.bufs /\ f.active = a /\ f.cb = e.cb
      /\ f.saved = e.saved /\ f.popup_saved = e.popup_saved /\ f.completion = e.completion
      /\ f.fault = e.fault /\ SameSize(e, f)
  BY <1>0, <1>5, <1>6 DEF Eds, SameSize
<1>8. Sound(f, None, None)
  BY <1>7, PointersSound DEF Inv
<1>9. Calm(f)
  BY <1>7 DEF Calm, AllTiled, WinsOf
<1>10. Inv(f)
  BY <1>5, <1>7, <1>8, <1>9 DEF Inv, WinsOf
<1>11. Tiles(e) => Tiles(f)
  BY <1>7, TilesBesides DEF WinsOf
<1> QED
  BY <1>10, <1>11 DEF f

(* t is r in another place.                                                *)
Moved(t, r) == t \in WinRec /\ t.b = r.b /\ t.mode = r.mode /\ t.kind = r.kind

LEMMA MovedIs ==
    ASSUME NEW r \in WinRec, NEW z \in Int
    PROVE  /\ Moved([r EXCEPT !.x1 = z], r) /\ Moved([r EXCEPT !.x2 = z], r)
           /\ Moved([r EXCEPT !.y1 = z], r) /\ Moved([r EXCEPT !.y2 = z], r)
<1>1. Moved([r EXCEPT !.x1 = z], r)
  BY DEF WinRec, Moved
<1>2. Moved([r EXCEPT !.x2 = z], r)
  BY DEF WinRec, Moved
<1>3. Moved([r EXCEPT !.y1 = z], r)
  BY DEF WinRec, Moved
<1>4. Moved([r EXCEPT !.y2 = z], r)
  BY DEF WinRec, Moved
<1> QED
  BY <1>1, <1>2, <1>3, <1>4

LEMMA PlaceIs ==
    ASSUME NEW r \in WinRec, NEW x1 \in Int, NEW y1 \in Int, NEW x2 \in Int, NEW y2 \in Int
    PROVE  LET t == Place(r, x1, y1, x2, y2)
           IN  Moved(t, r) /\ At(t, x1, y1, x2, y2)
  BY DEF Place, WinRec, Moved, At

LEMMA CoverIs ==
    ASSUME NEW r \in WinRec, NEW s \in WinRec
    PROVE  Moved(Cover(r, s), r)
<1>0. s.x1 \in Int /\ s.x2 \in Int /\ s.y1 \in Int /\ s.y2 \in Int
  BY DEF WinRec
<1>1. /\ Moved([r EXCEPT !.x1 = s.x1], r) /\ Moved([r EXCEPT !.x2 = s.x2], r)
      /\ Moved([r EXCEPT !.y1 = s.y1], r) /\ Moved([r EXCEPT !.y2 = s.y2], r)
  BY <1>0, MovedIs
<1> QED
  BY <1>1, Zenon DEF Cover

(* It has the cells of both.                                               *)
LEMMA CoverCells ==
    ASSUME NEW e, NEW r \in WinRec, NEW s \in WinRec, Covers(r, s), Inside(e, r), Inside(e, s),
           e.width \in Nat, e.height \in Nat
    PROVE  /\ Inside(e, Cover(r, s))
           /\ \A x, y \in Int : Has(Cover(r, s), x, y) <=> Has(r, x, y) \/ Has(s, x, y)
<1> DEFINE t == Cover(r, s)
<1>0. /\ r.x1 \in Int /\ r.x2 \in Int /\ r.y1 \in Int /\ r.y2 \in Int
      /\ s.x1 \in Int /\ s.x2 \in Int /\ s.y1 \in Int /\ s.y2 \in Int
  BY DEF WinRec
<1>1. CASE s.x1 = r.x2 /\ s.y1 = r.y1 /\ s.y2 = r.y2
  <2>1. At(t, r.x1, r.y1, s.x2, r.y2)
    BY <1>1 DEF Cover, WinRec, At
  <2> HIDE DEF t
  <2>2. Inside(e, t) /\ \A x, y \in Int : Has(t, x, y) <=> Has(r, x, y) \/ Has(s, x, y)
    BY <1>0, <1>1, <2>1 DEF At, Inside, Has
  <2> QED
    BY <2>2 DEF t
<1>2. CASE ~(s.x1 = r.x2 /\ s.y1 = r.y1 /\ s.y2 = r.y2) /\ s.x2 = r.x1 /\ s.y1 = r.y1 /\ s.y2 = r.y2
  <2>1. At(t, s.x1, r.y1, r.x2, r.y2)
    BY <1>2 DEF Cover, WinRec, At
  <2> HIDE DEF t
  <2>2. Inside(e, t) /\ \A x, y \in Int : Has(t, x, y) <=> Has(r, x, y) \/ Has(s, x, y)
    BY <1>0, <1>2, <2>1 DEF At, Inside, Has
  <2> QED
    BY <2>2 DEF t
<1>3. CASE /\ ~(s.x1 = r.x2 /\ s.y1 = r.y1 /\ s.y2 = r.y2)
           /\ ~(s.x2 = r.x1 /\ s.y1 = r.y1 /\ s.y2 = r.y2)
  <2>1. \/ s.y1 = r.y2 /\ s.x1 = r.x1 /\ s.x2 = r.x2 /\ At(t, r.x1, r.y1, r.x2, s.y2)
        \/ s.y2 = r.y1 /\ s.x1 = r.x1 /\ s.x2 = r.x2 /\ At(t, r.x1, s.y1, r.x2, r.y2)
    <3>1. s.x1 = r.x1 /\ s.x2 = r.x2 /\ (s.y1 = r.y2 \/ s.y2 = r.y1)
      BY <1>3 DEF Covers
    <3>2. t = IF s.y1 = r.y2 THEN [r EXCEPT !.y2 = s.y2] ELSE [r EXCEPT !.y1 = s.y1]
      BY <1>3, <3>1, Zenon DEF Cover
    <3>3. At([r EXCEPT !.y2 = s.y2], r.x1, r.y1, r.x2, s.y2)
          /\ At([r EXCEPT !.y1 = s.y1], r.x1, s.y1, r.x2, r.y2)
      BY DEF WinRec, At
    <3> HIDE DEF t
    <3> QED
      BY <3>1, <3>2, <3>3
  <2> HIDE DEF t
  <2>2. Inside(e, t) /\ \A x, y \in Int : Has(t, x, y) <=> Has(r, x, y) \/ Has(s, x, y)
    BY <1>0, <2>1 DEF At, Inside, Has
  <2> QED
    BY <2>2 DEF t
<1> QED
  BY <1>1, <1>2, <1>3

(* The window w is closed, another one grows over it.                      *)
Deleted(e, f, w) ==
    /\ WinsOf(f) = WinsOf(e) \ {w} /\ BufsOf(f) = BufsOf(e)
    /\ \A c \in BufsOf(e) : SameBuf(f.bufs[c], e.bufs[c])

LEMMA DeleteWindowIs ==
    ASSUME NEW e, Inv(e), Calm(e), NEW w \in WinsOf(e), NEW force \in BOOLEAN,
           Neighbours(e, w) # {}
    PROVE  LET f == do_delete_window(e, w, force)
           IN  /\ Inv(f) /\ Calm(f) /\ (f = e \/ Deleted(e, f, w)) /\ (force => Deleted(e, f, w))
               /\ Tiles(e) => Tiles(f)
<1> DEFINE N == Neighbours(e, w)
           v == First(N)
           r == Cover(e.wins[v], e.wins[w])
           g == GrowOver(e, w)
           f == CloseAll(g, {w})
<1>0. e \in Eds /\ NotMini(e) = WinsOf(e)
  BY CalmWindows
<1>1. N \subseteq WinsOf(e) \ {w} /\ Bounded(N)
  <2>1. N \in SUBSET WinsOf(e) /\ N \subseteq WinsOf(e) \ {w}
    BY <1>0 DEF Neighbours
  <2> QED
    BY <1>0, <2>1, EdIs, BoundedSubset
<1>2. v \in WinsOf(e) /\ v # w /\ Covers(e.wins[v], e.wins[w])
  <2>1. First(N) \in N
    BY <1>1, FirstIs
  <2>2. \A i \in N : Covers(e.wins[i], e.wins[w])
    BY DEF Neighbours
  <2> QED
    BY <1>1, <2>1, <2>2
<1>3. g = [e EXCEPT !.wins[v] = r]
  BY DEF GrowOver
<1> HIDE DEF v, N
<1>4. r \in WinRec /\ r.b = e.wins[v].b /\ r.mode = e.wins[v].mode /\ r.kind = e.wins[v].kind
  <2>1. e.wins[v] \in WinRec /\ e.wins[w] \in WinRec
    BY <1>0, <1>2, EdIs
  <2> QED
    BY <2>1, CoverIs DEF Moved
<1> HIDE DEF r, g
<1>5. /\ g \in Eds /\ SameRest(e, g) /\ g.bufs = e.bufs /\ WinsOf(g) = WinsOf(e)
      /\ g.wins[v] = r /\ \A u \in WinsOf(e) \ {v} : g.wins[u] = e.wins[u]
  BY <1>0, <1>2, <1>3, <1>4, SetWinIs
<1>6. \A u \in WinsOf(e) : /\ g.wins[u].b = e.wins[u].b /\ g.wins[u].mode = e.wins[u].mode
                           /\ g.wins[u].kind = e.wins[u].kind
  BY <1>4, <1>5
<1>7. Inv(g) /\ Calm(g)
  BY <1>5, <1>6, CalmPlaces
<1>8. {w} \subseteq WinsOf(g) /\ WinsOf(g) \ {w} # {}
  BY <1>2, <1>5
<1>9. Inv(f) /\ Calm(f) /\ Closed(g, f, {w})
  BY <1>7, <1>8, CalmClose
<1>10. do_delete_window(e, w, force) = f \/ (~force /\ do_delete_window(e, w, force) = e)
  BY Zenon DEF do_delete_window, edit_close, g
<1> HIDE DEF f
<1>11. Deleted(e, f, w)
  BY <1>5, <1>9 DEF Closed, Keeps, Deleted, BufsOf
<1>12. ASSUME Tiles(e) PROVE Tiles(f)
  <2>1. Tiled(e) = WinsOf(e) /\ Tiled(f) = WinsOf(e) \ {w}
    BY <1>9, <1>11 DEF Tiled, Calm, AllTiled, Deleted
  <2>2. SameSize(e, f) /\ e.width \in Nat /\ e.height \in Nat
    BY <1>0, <1>5, <1>9, EdIs DEF SameSize, SameRest, Closed
  <2>3. f.wins[v] = r /\ \A u \in WinsOf(e) \ {v, w} : f.wins[u] = e.wins[u]
    BY <1>2, <1>5, <1>9, <1>11 DEF Closed, Deleted
  <2>4. e.wins[v] \in WinRec /\ e.wins[w] \in WinRec /\ Inside(e, e.wins[v]) /\ Inside(e, e.wins[w])
    BY <1>0, <1>2, <1>12, <2>1, EdIs DEF Tiles
  <2>5. /\ Inside(e, r)
        /\ \A x, y \in Int : Has(r, x, y) <=> Has(e.wins[v], x, y) \/ Has(e.wins[w], x, y)
    BY <1>2, <2>2, <2>4, CoverCells DEF r
  <2>6. Inside(f, f.wins[v])
    BY <2>2, <2>3, <2>5 DEF Inside, SameSize
  <2>7. \A u \in Tiled(e) \ {v, w} : SamePlace(f.wins[u], e.wins[u])
    BY <2>1, <2>3 DEF SamePlace, At
  <2>8. \A x, y \in Int : Has(f.wins[v], x, y) <=> Has(e.wins[v], x, y) \/ Has(e.wins[w], x, y)
    BY <2>3, <2>5
  <2> QED
    BY <1>2, <1>12, <2>1, <2>2, <2>6, <2>7, <2>8, TilesMerge
<1> QED
  BY <1>9, <1>10, <1>11, <1>12

LEMMA CalmMove ==
    ASSUME NEW e, Inv(e), Calm(e), NEW w \in WinsOf(e), NEW t, Moved(t, e.wins[w])
    PROVE  LET f == [e EXCEPT !.wins[w] = t]
           IN  Inv(f) /\ Calm(f)
<1> DEFINE f == [e EXCEPT !.wins[w] = t]
<1>0. e \in Eds /\ t \in WinRec
  BY CalmWindows DEF Moved
<1>1. /\ f \in Eds /\ SameRest(e, f) /\ f.bufs = e.bufs /\ WinsOf(f) = WinsOf(e)
      /\ f.wins[w] = t /\ \A v \in WinsOf(e) \ {w} : f.wins[v] = e.wins[v]
  BY <1>0, SetWinIs
<1> HIDE DEF f
<1>2. \A u \in WinsOf(e) : /\ f.wins[u].b = e.wins[u].b /\ f.wins[u].mode = e.wins[u].mode
                           /\ f.wins[u].kind = e.wins[u].kind
  BY <1>1 DEF Moved
<1>3. Inv(f) /\ Calm(f)
  BY <1>1, <1>2, CalmPlaces
<1> QED
  BY <1>3 DEF f

LEMMA DeleteOthersIs ==
    ASSUME NEW e, Inv(e), Calm(e), NEW w \in WinsOf(e)
    PROVE  LET f == do_delete_other_windows(e, w)
           IN  Inv(f) /\ Tiles(f)
<1> DEFINE C == NotMini(e) \ {w}
           g == CloseAll(e, C)
           t == Place(g.wins[w], 0, 0, e.width, e.height)
<1>0. C \subseteq WinsOf(e) /\ WinsOf(e) \ C = {w} /\ e \in Eds
  BY CalmWindows
<1>1. Inv(g) /\ Calm(g) /\ Closed(e, g, C)
  BY <1>0, CalmClose
<1>2. do_delete_other_windows(e, w) = [g EXCEPT !.wins[w] = t]
  BY DEF do_delete_other_windows
<1> HIDE DEF C, g
<1>3. g \in Eds /\ w \in WinsOf(g)
  BY <1>0, <1>1 DEF Closed
<1>4. Moved(t, g.wins[w]) /\ At(t, 0, 0, e.width, e.height)
  <2>1. g.wins[w] \in WinRec /\ 0 \in Int /\ e.width \in Int /\ e.height \in Int
    BY <1>0, <1>3, EdIs
  <2> QED
    BY <2>1, PlaceIs
<1> HIDE DEF t
<1> DEFINE f == [g EXCEPT !.wins[w] = t]
<1>5. Inv(f) /\ Calm(f)
  BY <1>1, <1>3, <1>4, CalmMove
<1>6. WinsOf(f) = WinsOf(g) /\ f.wins[w] = t /\ SameRest(g, f)
  BY <1>3, <1>4, SetWinIs DEF Moved
<1> HIDE DEF f
<1>7. Tiles(f)
  <2>1. Tiled(f) = {w}
    BY <1>0, <1>1, <1>5, <1>6 DEF Tiled, Calm, AllTiled, Closed
  <2>2. f.width = e.width /\ f.height = e.height /\ e.width \in Nat /\ e.height \in Nat
    BY <1>0, <1>1, <1>6, EdIs DEF SameRest, Closed
  <2>3. Inside(f, f.wins[w])
    BY <1>4, <1>6, <2>2 DEF Inside, At
  <2>4. \A x \in 0..(f.width - 1), y \in 0..(f.height - 1) : Has(f.wins[w], x, y)
    BY <1>4, <1>6, <2>2 DEF Has, At
  <2> QED
    BY <2>1, <2>3, <2>4 DEF Tiles
<1> QED
  BY <1>2, <1>5, <1>7 DEF f

(* A new window shows the buffer that another one shows.                   *)
LEMMA SplitCalm ==
    ASSUME NEW e, Inv(e), Calm(e), NEW b \in BufsOf(e),
           NEW x1 \in Int, NEW y1 \in Int, NEW x2 \in Int, NEW y2 \in Int
    PROVE  LET f == edit_new(e, b, x1, y1, x2, y2, "tiled")
           IN  /\ Inv(f) /\ Calm(f) /\ Opened(e, f, Fresh(e.wins), b, "tiled")
               /\ At(f.wins[Fresh(e.wins)], x1, y1, x2, y2)
<1> DEFINE f == edit_new(e, b, x1, y1, x2, y2, "tiled")
           w == Fresh(e.wins)
<1>0. /\ e \in Eds /\ e.active # None /\ ~Transient(e.bufs[b])
      /\ \A v \in WinsOf(e) : e.wins[v].kind = "tiled"
  BY CalmWindows, CalmActive DEF Inv, Calm, AllTiled
<1>1. Live(e) /\ ModesOK(e, None) /\ NamesOK(e, None) /\ Separate(e, None)
  BY DEF Inv, Sound
<1>2. "tiled" \in Kinds
  BY DEF Kinds
<1>3. Opened(e, f, w, b, "tiled") /\ ModesOK(f, None) /\ At(f.wins[w], x1, y1, x2, y2)
  BY <1>0, <1>1, <1>2, EditNewIs
<1> HIDE DEF f, w
<1>4. /\ f \in Eds /\ SameRest(e, f) /\ f.bufs = e.bufs /\ WinsOf(f) = WinsOf(e) \cup {w}
      /\ f.wins[w].b = b /\ f.wins[w].kind = "tiled" /\ BufsOf(f) = BufsOf(e)
      /\ \A v \in WinsOf(e) : f.wins[v] = e.wins[v]
  BY <1>3 DEF Opened, BufsOf
<1>5. Live(f)
  BY <1>1, <1>4 DEF Live
<1>6. NamesOK(f, None)
  BY <1>1, <1>4 DEF NamesOK
<1>7. \A v \in WinsOf(f) : f.wins[v].kind = "tiled"
  BY <1>0, <1>4
<1>8. Separate(f, None)
  <2>1. \A v \in WinsOf(f) : ~Transient(f.bufs[f.wins[v].b])
    BY <1>0, <1>1, <1>4 DEF Separate
  <2>2. ASSUME NEW c \in BufsOf(f), Transient(f.bufs[c])
        PROVE  c = None \/ \E v \in WinsOf(f) : f.wins[v].b = c
    BY <1>1, <1>4, <2>2 DEF Separate
  <2>3. \A c \in BufsOf(f) : OwnOK(f.bufs[c])
    BY <1>1, <1>4 DEF Separate
  <2> QED
    BY <1>7, <2>1, <2>2, <2>3 DEF Separate
<1>9. Sound(f, None, None)
  BY <1>3, <1>4, <1>5, <1>6, <1>8 DEF Sound
<1>10. Inv(f) /\ Calm(f)
  BY <1>4, <1>7, <1>9, CalmSame
<1> QED
  BY <1>3, <1>10 DEF f, w

(* The window w of e keeps a part of its cells, the new window n gets the  *)
(* others.                                                                 *)
LEMMA SplitTiles ==
    ASSUME NEW e, Inv(e), Calm(e), NEW w \in WinsOf(e), NEW g, NEW n, NEW b,
           Opened(e, g, n, b, "tiled"), NEW t, Moved(t, e.wins[w]),
           LET s == e.wins[w]
               r == g.wins[n]
           IN  \/ \E x \in Int : /\ s.x1 <= s.x2 => s.x1 <= x /\ x <= s.x2
                                 /\ At(r, x, s.y1, s.x2, s.y2) /\ At(t, s.x1, s.y1, x, s.y2)
               \/ \E y \in Int : /\ s.y1 <= s.y2 => s.y1 <= y /\ y <= s.y2
                                 /\ At(r, s.x1, y, s.x2, s.y2) /\ At(t, s.x1, s.y1, s.x2, y)
    PROVE  Tiles(e) => Tiles([g EXCEPT !.wins[w] = t])
<1> SUFFICES ASSUME Tiles(e) PROVE Tiles([g EXCEPT !.wins[w] = t])
  OBVIOUS
<1> DEFINE s == e.wins[w]
           r == g.wins[n]
           f == [g EXCEPT !.wins[w] = t]
<1>0. e \in Eds /\ \A v \in WinsOf(e) : e.wins[v].kind = "tiled"
  BY CalmWindows DEF Calm, AllTiled
<1>1. /\ g \in Eds /\ SameRest(e, g) /\ n \notin WinsOf(e) /\ WinsOf(g) = WinsOf(e) \cup {n}
      /\ r.kind = "tiled" /\ \A v \in WinsOf(e) : g.wins[v] = e.wins[v]
  BY DEF Opened
<1>2. t \in WinRec /\ t.kind = s.kind
  BY DEF Moved
<1>3. /\ f \in Eds /\ SameRest(g, f) /\ WinsOf(f) = WinsOf(g) /\ f.wins[w] = t
      /\ \A v \in WinsOf(g) \ {w} : f.wins[v] = g.wins[v]
  BY <1>1, <1>2, SetWinIs
<1>4. s \in WinRec /\ e.width \in Nat /\ e.height \in Nat
  BY <1>0, EdIs
<1>5. s.x1 \in Int /\ s.x2 \in Int /\ s.y1 \in Int /\ s.y2 \in Int
  BY <1>4 DEF WinRec
<1>14. \/ \E x \in Int : /\ s.x1 <= s.x2 => s.x1 <= x /\ x <= s.x2
                         /\ At(r, x, s.y1, s.x2, s.y2) /\ At(t, s.x1, s.y1, x, s.y2)
       \/ \E y \in Int : /\ s.y1 <= s.y2 => s.y1 <= y /\ y <= s.y2
                         /\ At(r, s.x1, y, s.x2, s.y2) /\ At(t, s.x1, s.y1, s.x2, y)
  BY Zenon
<1> HIDE DEF f
<1>6. Tiled(e) = WinsOf(e) /\ Tiled(f) = WinsOf(e) \cup {n} /\ f.wins[n] = r
  BY <1>0, <1>1, <1>2, <1>3 DEF Tiled
<1>7. Inside(e, s)
  BY <1>6 DEF Tiles
<1>8. SameSize(e, f)
  BY <1>1, <1>3 DEF SameRest, SameSize
<1>9. Inside(e, t) /\ Inside(e, r) /\ Parts(s, t, r)
  <2> HIDE DEF s, r
  <2>1. ASSUME NEW x \in Int, s.x1 <= s.x2 => s.x1 <= x /\ x <= s.x2,
               At(r, x, s.y1, s.x2, s.y2), At(t, s.x1, s.y1, x, s.y2)
        PROVE  Inside(e, t) /\ Inside(e, r) /\ Parts(s, t, r)
    BY <1>4, <1>5, <1>7, <2>1 DEF At, Inside, Has, Parts
  <2>2. ASSUME NEW y \in Int, s.y1 <= s.y2 => s.y1 <= y /\ y <= s.y2,
               At(r, s.x1, y, s.x2, s.y2), At(t, s.x1, s.y1, s.x2, y)
        PROVE  Inside(e, t) /\ Inside(e, r) /\ Parts(s, t, r)
    BY <1>4, <1>5, <1>7, <2>2 DEF At, Inside, Has, Parts
  <2> QED
    BY <1>14, <2>1, <2>2
<1>10. Inside(f, f.wins[w]) /\ Inside(f, f.wins[n])
  BY <1>3, <1>6, <1>8, <1>9 DEF Inside, SameSize
<1>11. \A u \in Tiled(e) \ {w} : SamePlace(f.wins[u], e.wins[u])
  BY <1>1, <1>3, <1>6 DEF SamePlace, At
<1>12. Parts(e.wins[w], f.wins[w], f.wins[n])
  BY <1>3, <1>6, <1>9
<1>13. Tiles(f)
  <2>1. w \in Tiled(e) /\ n \notin Tiled(e) /\ Tiled(f) = Tiled(e) \cup {n}
    BY <1>1, <1>6
  <2> HIDE DEF s, r
  <2> QED
    BY <1>4, <1>8, <1>10, <1>11, <1>12, <2>1, TilesSplit
<1> QED
  BY <1>13 DEF f

LEMMA SplitWindowIs ==
    ASSUME NEW e, Inv(e), Calm(e), NEW w \in WinsOf(e), NEW horiz \in BOOLEAN
    PROVE  LET f == do_split_window(e, w, horiz)
           IN  Inv(f) /\ (Tiles(e) => Tiles(f))
<1> DEFINE s == e.wins[w]
           x == (s.x1 + s.x2) \div 2
           y == (s.y1 + s.y2) \div 2
           g == edit_new(e, s.b, x, s.y1, s.x2, s.y2, "tiled")
           h == edit_new(e, s.b, s.x1, y, s.x2, s.y2, "tiled")
<1>0. e \in Eds /\ Live(e)
  BY CalmWindows DEF Inv, Sound
<1>1. s \in WinRec /\ s.b \in BufsOf(e)
  BY <1>0, EdIs DEF Live
<1>2. s.x1 \in Int /\ s.x2 \in Int /\ s.y1 \in Int /\ s.y2 \in Int
  BY <1>1 DEF WinRec
<1>3. /\ x \in Int /\ (s.x1 <= s.x2 => s.x1 <= x /\ x <= s.x2)
      /\ y \in Int /\ (s.y1 <= s.y2 => s.y1 <= y /\ y <= s.y2)
  BY <1>2
<1>4. do_split_window(e, w, horiz) = e
      \/ do_split_window(e, w, horiz) = [g EXCEPT !.wins[w].x2 = x]
      \/ do_split_window(e, w, horiz) = [h EXCEPT !.wins[w].y2 = y]
  BY Zenon DEF do_split_window
<1> HIDE DEF x, y
<1> DEFINE n == Fresh(e.wins)
<1>5. /\ Inv(g) /\ Calm(g) /\ w \in WinsOf(g) /\ g.wins[w] = s
      /\ Opened(e, g, n, s.b, "tiled") /\ At(g.wins[n], x, s.y1, s.x2, s.y2)
  <2>1. /\ Inv(g) /\ Calm(g) /\ Opened(e, g, n, s.b, "tiled") /\ At(g.wins[n], x, s.y1, s.x2, s.y2)
    BY <1>1, <1>2, <1>3, SplitCalm
  <2> QED
    BY <2>1 DEF Opened
<1>6. /\ Inv(h) /\ Calm(h) /\ w \in WinsOf(h) /\ h.wins[w] = s
      /\ Opened(e, h, n, s.b, "tiled") /\ At(h.wins[n], s.x1, y, s.x2, s.y2)
  <2>1. /\ Inv(h) /\ Calm(h) /\ Opened(e, h, n, s.b, "tiled") /\ At(h.wins[n], s.x1, y, s.x2, s.y2)
    BY <1>1, <1>2, <1>3, SplitCalm
  <2> QED
    BY <2>1 DEF Opened
<1> HIDE DEF g, h, n
<1> DEFINE t == [g.wins[w] EXCEPT !.x2 = x]
           u == [h.wins[w] EXCEPT !.y2 = y]
<1>7. Moved(t, g.wins[w]) /\ Moved(u, h.wins[w])
  BY <1>1, <1>3, <1>5, <1>6, MovedIs
<1>11. At(t, s.x1, s.y1, x, s.y2) /\ At(u, s.x1, s.y1, s.x2, y)
  <2>1. g.wins[w] = s /\ h.wins[w] = s /\ s \in WinRec
    BY <1>1, <1>5, <1>6
  <2> HIDE DEF s
  <2> QED
    BY <2>1 DEF WinRec, At
<1>8. [g EXCEPT !.wins[w].x2 = x] = [g EXCEPT !.wins[w] = t]
  OBVIOUS
<1>9. [h EXCEPT !.wins[w].y2 = y] = [h EXCEPT !.wins[w] = u]
  OBVIOUS
<1> HIDE DEF t, u
<1>10. Inv([g EXCEPT !.wins[w] = t]) /\ Inv([h EXCEPT !.wins[w] = u])
  BY <1>5, <1>6, <1>7, CalmMove
<1>12. Tiles(e) => Tiles([g EXCEPT !.wins[w] = t])
  BY <1>3, <1>5, <1>7, <1>11, SplitTiles
<1>13. Tiles(e) => Tiles([h EXCEPT !.wins[w] = u])
  BY <1>3, <1>6, <1>7, <1>11, SplitTiles
<1> QED
  BY <1>4, <1>8, <1>9, <1>10, <1>12, <1>13

(* The windows are cut, and keep their buffers, modes and kinds.           *)
LEMMA CutIs ==
    ASSUME NEW e \in Eds, NEW width \in Int
    PROVE  LET f == CutAt(e, width)
           IN  /\ f \in Eds /\ SameRest(e, f) /\ f.bufs = e.bufs /\ WinsOf(f) = WinsOf(e)
               /\ \A w \in WinsOf(e) : /\ Moved(f.wins[w], e.wins[w])
                                       /\ e.wins[w].kind # "minibuf" => RightOf(f.wins[w], e.wins[w], width)
<1> DEFINE f == CutAt(e, width)
           h == [w \in WinsOf(e) |->
                   IF e.wins[w].kind # "minibuf" /\ e.wins[w].x1 < width
                   THEN [e.wins[w] EXCEPT !.x1 = width] ELSE e.wins[w]]
<1>1. f = [e EXCEPT !.wins = h]
  BY DEF CutAt, WinsOf
<1>2. ASSUME NEW w \in WinsOf(e)
      PROVE  /\ Moved(h[w], e.wins[w])
             /\ e.wins[w].kind # "minibuf" => RightOf(h[w], e.wins[w], width)
  <2> DEFINE r == e.wins[w]
  <2>1. r \in WinRec
    BY EdIs
  <2>2. h[w] = IF r.kind # "minibuf" /\ r.x1 < width THEN [r EXCEPT !.x1 = width] ELSE r
    OBVIOUS
  <2> HIDE DEF h, r
  <2>3. Moved(r, r) /\ Moved([r EXCEPT !.x1 = width], r)
    BY <2>1, MovedIs DEF Moved
  <2>4. At([r EXCEPT !.x1 = width], width, r.y1, r.x2, r.y2)
    BY <2>1 DEF WinRec, At
  <2>5. r.kind # "minibuf" => RightOf(h[w], r, width)
    BY <2>2, <2>4 DEF RightOf, At
  <2> QED
    BY <2>2, <2>3, <2>5 DEF r
<1>3. DOMAIN h = WinsOf(e) /\ h \in [WinsOf(e) -> WinRec]
  <2>1. \A w \in WinsOf(e) : h[w] \in WinRec
    BY <1>2 DEF Moved
  <2> QED
    BY <2>1
<1> HIDE DEF h, f
<1>4. h \in Heap(WinRec)
  BY <1>3, EdIs, HeapMap DEF WinsOf
<1>5. f \in Eds /\ f.wins = h /\ f.bufs = e.bufs /\ SameRest(e, f)
  BY <1>1, <1>4, WithWins
<1> QED
  BY <1>2, <1>3, <1>5 DEF f, WinsOf

LEMMA ListBuffersIs ==
    ASSUME NEW e, Inv(e), Calm(e), e.active \notin Under(e, e.width \div 4)
    PROVE  LET f == do_list_buffers(e, e.active)
           IN  Inv(f) /\ (Tiles(e) => Tiles(f))
<1> DEFINE width == e.width \div 4
           nm == Name("*bufed*", 1)
           n  == Fresh(e.bufs)
           r  == NewBuf(nm, TRUE)
           e1 == eb_new(e, nm, TRUE)
           C  == Under(e1, width)
           c  == CloseAll(e1, C)
           u  == CutAt(c, width)
           w  == Fresh(u.wins)
           d  == do_set_mode(edit_new(u, n, 0, 0, width, e1.height, "tiled"), w, "bufed")
           f  == [d EXCEPT !.active = w]
<1>0. /\ Sound(e, None, None) /\ e \in Eds /\ e.active \in WinsOf(e) /\ e.fault = "none"
      /\ e.active # None /\ Tiled(e) = WinsOf(e)
  BY CalmWindows, CalmActive DEF Inv
<1>1. /\ width \in Int /\ e.height \in Int /\ e.width \in Nat /\ e.height \in Nat
      /\ width \in 0..e.width
  <2>1. e.width \in Nat /\ e.height \in Nat
    BY <1>0, EdIs
  <2> QED
    BY <2>1
<1>2. do_list_buffers(e, e.active) = f
  BY DEF do_list_buffers, insert_window_left, Uncovered
<1>3. Sound(e1, None, n) /\ Shows(e1, n) = {} /\ Added(e, e1, n, r)
  BY <1>0, NamesAre, AddSystem
<1>4. OwnMode(r) = "bufed" /\ ~Transient(r) /\ r.saved = None
  BY SystemModes, NamesAre, NewBufFields
<1> HIDE DEF e1, n, r, nm, width
<1>5. /\ e1 \in Eds /\ e1.wins = e.wins /\ SameRest(e, e1) /\ n \in BufsOf(e1) /\ e1.bufs[n] = r
  BY <1>3 DEF Added
<1>6. C \subseteq Tiled(e1) /\ e1.active \notin C /\ WinsOf(e1) = WinsOf(e) /\ Tiled(e1) = WinsOf(e)
  <2>1. WinsOf(e1) = WinsOf(e) /\ C = Under(e, width) /\ Tiled(e1) = Tiled(e) /\ e1.active = e.active
    BY <1>5 DEF WinsOf, Under, NotMini, Tiled, SameRest
  <2>2. Under(e, width) \subseteq WinsOf(e)
    BY DEF Under, NotMini
  <2> QED
    BY <1>0, <2>1, <2>2 DEF width
<1>26. C = {v \in Tiled(e) : e.wins[v].x2 <= width}
  <2>1. NotMini(e1) = Tiled(e)
    BY <1>0, <1>5 DEF NotMini, Tiled, WinsOf
  <2> QED
    BY <1>5, <2>1 DEF Under
<1> HIDE DEF C
<1>7. Closed(e1, c, C)
  BY <1>5, CloseAllIs
<1> HIDE DEF c
<1>8. Sound(c, None, n)
  BY <1>3, <1>6, <1>7, CloseSound
<1>9. None \notin C
  BY <1>0, <1>6, EdIs
<1>10. /\ c \in Eds /\ WinsOf(c) = WinsOf(e) \ C /\ \A v \in WinsOf(c) : c.wins[v] = e.wins[v]
       /\ c.active = e.active /\ c.active \in WinsOf(c)
       /\ c.saved = None /\ c.popup_saved = None /\ c.completion = None
       /\ c.cb.cmd = "none" /\ c.cb.win = None /\ c.cb.buf = None /\ c.fault = "none"
       /\ BufsOf(c) = BufsOf(e1) /\ c.bufs[n] = r /\ SameSize(e, c)
  <2>1. /\ c \in Eds /\ WinsOf(c) = WinsOf(e) \ C /\ \A v \in WinsOf(c) : c.wins[v] = e.wins[v]
    BY <1>5, <1>6, <1>7 DEF Closed
  <2>2. e1.active = e.active /\ e1.cb = NoCb /\ e1.saved = None /\ e1.popup_saved = None
        /\ e1.completion = None /\ e1.fault = "none"
    BY <1>0, <1>5 DEF SameRest, Calm
  <2>3. c.active = e.active /\ c.saved = None /\ c.popup_saved = None /\ c.completion = None
        /\ c.cb.cmd = "none" /\ c.cb.win = None /\ c.cb.buf = None /\ c.fault = "none"
    BY <1>6, <1>7, <1>9, <2>2, NoCbIs DEF Closed, Forgets
  <2>4. BufsOf(c) = BufsOf(e1) /\ c.bufs[n] = r
    <3>1. ~Left(e1, C, n)
      BY <1>3 DEF Left
    <3> QED
      BY <1>5, <1>7, <3>1 DEF Closed, Keeps
  <2>5. e.active \in WinsOf(c)
    BY <1>0, <1>6, <2>1, <2>2
  <2>6. SameSize(e, c)
    BY <1>5, <1>7 DEF SameRest, Closed, SameSize
  <2> QED
    BY <2>1, <2>3, <2>4, <2>5, <2>6
<1>11. c.cb = NoCb
  <2>1. c.cb \in CbRec
    BY <1>10, EdIs
  <2> QED
    BY <1>10, <2>1, NoCbIs, CbEqual
<1>12. /\ u \in Eds /\ SameRest(c, u) /\ u.bufs = c.bufs /\ WinsOf(u) = WinsOf(c)
       /\ \A v \in WinsOf(c) : /\ Moved(u.wins[v], c.wins[v])
                               /\ c.wins[v].kind # "minibuf" => RightOf(u.wins[v], c.wins[v], width)
  BY <1>1, <1>10, CutIs
<1> HIDE DEF u
<1>13. Sound(u, None, n)
  BY <1>8, <1>12, PlacesSound DEF Moved
<1>14. Shows(u, n) = {}
  <2>1. \A v \in WinsOf(e) : e.wins[v].b # n
    BY <1>3, <1>5, <1>6 DEF Shows
  <2> QED
    BY <1>10, <1>12, <2>1 DEF Shows, Moved
<1>15. n \in BufsOf(u) /\ u.bufs[n] = r /\ u.active # None
  BY <1>0, <1>5, <1>10, <1>12 DEF BufsOf, SameRest
<1>16. /\ Sound(d, None, None) /\ Opened(u, d, w, n, "tiled")
       /\ At(d.wins[w], 0, 0, width, e1.height)
  <2>1. "bufed" \in Modes /\ "tiled" \in Kinds
    BY DEF Modes, Kinds
  <2>2. 0 \in Int /\ e1.height \in Int
    BY <1>1, <1>5 DEF SameRest
  <2>3. u.bufs[n].saved = None /\ "bufed" = OwnMode(u.bufs[n]) /\ ~Transient(u.bufs[n])
    BY <1>4, <1>15
  <2> QED
    BY <1>1, <1>13, <1>14, <1>15, <2>1, <2>2, <2>3, OpenSound
<1> HIDE DEF d, w
<1>17. /\ d \in Eds /\ SameRest(u, d) /\ w \in Nat /\ WinsOf(d) = WinsOf(u) \cup {w}
       /\ d.wins[w].kind = "tiled" /\ \A v \in WinsOf(u) : d.wins[v] = u.wins[v]
       /\ w \notin WinsOf(u)
  BY <1>16 DEF Opened
<1>18. w \in Ptr
  BY <1>17 DEF Ptr
<1>19. /\ f \in Eds /\ f.wins = d.wins /\ f.bufs = d.bufs /\ f.cb = d.cb /\ f.saved = d.saved
       /\ f.active = w /\ f.completion = d.completion /\ f.popup_saved = d.popup_saved
       /\ f.fault = d.fault /\ SameSize(d, f)
  BY <1>17, <1>18 DEF Eds, SameSize
<1> HIDE DEF f
<1>20. Sound(f, None, None)
  BY <1>16, <1>19, PointersSound
<1>21. /\ f.cb = NoCb /\ f.saved = None /\ f.popup_saved = None /\ f.completion = None
       /\ f.fault = "none"
  BY <1>10, <1>11, <1>12, <1>17, <1>19 DEF SameRest
<1>22. \A v \in WinsOf(f) : f.wins[v].kind = "tiled"
  <2>1. \A v \in WinsOf(u) : u.wins[v].kind = "tiled"
    <3>1. \A v \in WinsOf(e) : e.wins[v].kind = "tiled"
      BY DEF Calm, AllTiled
    <3> QED
      BY <1>10, <1>12, <3>1 DEF Moved
  <2> QED
    BY <1>17, <1>19, <2>1 DEF WinsOf
<1>23. Calm(f)
  BY <1>21, <1>22 DEF Calm, AllTiled
<1>24. f.active \in WinsOf(f)
  BY <1>17, <1>19 DEF WinsOf
<1>25. Inv(f)
  BY <1>20, <1>21, <1>23, <1>24 DEF Inv
<1>27. Tiles(e) => Tiles(f)
  <2>1. SameSize(e, f)
    BY <1>10, <1>12, <1>17, <1>19 DEF SameSize, SameRest
  <2>2. w \notin Tiled(e) \ C /\ Tiled(f) = (Tiled(e) \ C) \cup {w}
    <3>1. Tiled(f) = WinsOf(f) /\ WinsOf(f) = WinsOf(d)
      BY <1>19, <1>22 DEF Tiled, WinsOf
    <3> QED
      BY <1>0, <1>10, <1>12, <1>17, <3>1
  <2>3. At(f.wins[w], 0, 0, width, e.height)
    BY <1>5, <1>16, <1>19 DEF SameRest
  <2>4. \A v \in Tiled(e) \ C : RightOf(f.wins[v], e.wins[v], width)
    <3>1. \A v \in Tiled(e) \ C : /\ v \in WinsOf(c) /\ c.wins[v] = e.wins[v] /\ f.wins[v] = u.wins[v]
                                  /\ e.wins[v].kind = "tiled"
      BY <1>0, <1>10, <1>12, <1>17, <1>19 DEF Tiled
    <3> QED
      BY <1>12, <3>1
  <2>5. \A v \in Tiled(e) : e.wins[v] \in WinRec
    BY <1>0, EdIs
  <2> QED
    BY <1>1, <1>26, <2>1, <2>2, <2>3, <2>4, <2>5, TilesInsert
<1> QED
  BY <1>2, <1>25, <1>27

---------------------------------------------------------------------------
(* Commands on buffers.                                                    *)

LEMMA EbFindIs ==
    ASSUME NEW e \in Eds, NEW name
    PROVE  LET b == eb_find(e, name)
           IN  /\ b # None => b \in BufsOf(e) /\ e.bufs[b].name = name
               /\ b = None => \A c \in BufsOf(e) : e.bufs[c].name # name
<1> DEFINE S == {b \in BufsOf(e) : e.bufs[b].name = name}
<1>1. Bounded(S)
  BY EdIs, BoundedSubset
<1>2. eb_find(e, name) = FirstOf(S)
  BY DEF eb_find
<1>3. (S = {} /\ FirstOf(S) = None) \/ (FirstOf(S) \in S /\ FirstOf(S) # None)
  <2> HIDE DEF S
  <2> QED
    BY <1>1, FirstIs
<1> QED
  BY <1>2, <1>3

(* A window is switched to another buffer.                                 *)
LEMMA SwitchCalm ==
    ASSUME NEW e, Inv(e), Calm(e), NEW w \in WinsOf(e), NEW b \in BufsOf(e)
    PROVE  LET f == switch_to_buffer(e, w, b)
           IN  Inv(f) /\ Calm(f) /\ (Tiles(e) => Tiles(f))
<1> DEFINE f == SwitchTo(e, {w}, b)
<1>0. Sound(e, None, None) /\ {w} \subseteq Tiled(e) /\ ~Transient(e.bufs[b])
  BY CalmWindows DEF Inv
<1>1. /\ Sound(f, None, None) /\ SameRest(e, f) /\ WinsOf(f) = WinsOf(e)
      /\ \A v \in WinsOf(e) : f.wins[v].kind = e.wins[v].kind /\ SamePlace(f.wins[v], e.wins[v])
  <2>1. SwitchedWell(e, f, {w}, b, None, None)
    BY <1>0, SwitchSound
  <2> QED
    BY <2>1 DEF SwitchedWell
<1>2. f = switch_to_buffer(e, w, b)
  BY DEF switch_to_buffer
<1> HIDE DEF f
<1>3. \A v \in WinsOf(f) : f.wins[v].kind = "tiled"
  BY <1>1 DEF Calm, AllTiled
<1>4. Tiles(e) => Tiles(f)
  <2>1. Tiled(f) = Tiled(e) /\ \A v \in Tiled(e) : SamePlace(f.wins[v], e.wins[v])
    BY <1>1 DEF Tiled
  <2>2. SameSize(e, f)
    BY <1>1 DEF SameRest, SameSize
  <2> QED
    BY <2>1, <2>2, TilesKept
<1> QED
  BY <1>1, <1>2, <1>3, <1>4, CalmSame

LEMMA BufedSelectIs ==
    ASSUME NEW e, Inv(e), Calm(e), NEW w \in WinsOf(e), Neighbours(e, w) # {},
           e.wins[w].x1 < e.wins[w].x2, NEW item
    PROVE  LET f == bufed_select(e, w, item)
           IN  Inv(f) /\ (Tiles(e) => Tiles(f))
<1> DEFINE right == find_window_right(e, w)
           e1    == do_delete_window(e, w, TRUE)
           b     == eb_find(e, item)
           S     == {v \in NotMini(e) : e.wins[v].x1 = e.wins[w].x2}
<1>0. e \in Eds /\ NotMini(e) = WinsOf(e)
  BY CalmWindows
<1>1. Inv(e1) /\ Calm(e1) /\ Deleted(e, e1, w) /\ (Tiles(e) => Tiles(e1))
  BY DeleteWindowIs
<1>2. b # None => b \in BufsOf(e)
  BY <1>0, EbFindIs
<1>3. right # None => right \in WinsOf(e) /\ right # w
  <2>1. S \in SUBSET WinsOf(e) /\ w \notin S
    <3>1. e.wins[w] \in WinRec
      BY <1>0, EdIs
    <3>2. e.wins[w].x1 \in Int /\ e.wins[w].x2 \in Int
      BY <3>1 DEF WinRec
    <3>3. e.wins[w].x1 # e.wins[w].x2
      BY <3>2
    <3> QED
      BY <1>0, <3>3
  <2>2. Bounded(S) /\ right = FirstOf(S)
    BY <1>0, <2>1, EdIs, BoundedSubset DEF find_window_right
  <2> HIDE DEF S, right
  <2> QED
    BY <2>1, <2>2, FirstIs
<1>4. e1.fault = "none"
  BY <1>1 DEF Inv
<1>5. \/ bufed_select(e, w, item) = e
      \/ right # None /\ b # None /\ bufed_select(e, w, item) = switch_to_buffer(e1, right, b)
  BY <1>3, <1>4, Zenon DEF bufed_select
<1> HIDE DEF right, e1, b
<1>6. ASSUME right # None, b # None
      PROVE  LET f == switch_to_buffer(e1, right, b)
             IN  Inv(f) /\ (Tiles(e) => Tiles(f))
  <2>1. right \in WinsOf(e1) /\ b \in BufsOf(e1)
    BY <1>1, <1>2, <1>3, <1>6 DEF Deleted
  <2> QED
    BY <1>1, <2>1, SwitchCalm
<1> QED
  BY <1>5, <1>6

(* b1 takes the place of b, which is freed.                                *)
LEMMA ReplaceSound ==
    ASSUME NEW e, NEW b \in BufsOf(e), Sound(e, b, None), Shows(e, b) \subseteq Tiled(e),
           NEW b1 \in BufsOf(e), b1 # b, ~Transient(e.bufs[b1]), e.cb = NoCb
    PROVE  LET f == eb_free(SwitchAll(e, b, b1), b)
           IN  /\ Sound(f, None, None) /\ SameRest(e, f) /\ WinsOf(f) = WinsOf(e)
               /\ \A w \in WinsOf(e) : f.wins[w].kind = e.wins[w].kind
               /\ BufsOf(f) = BufsOf(e) \ {b}
               /\ Tiles(e) => Tiles(f)
<1> DEFINE C == Shows(e, b)
           g == SwitchTo(e, C, b1)
           f == eb_free(g, b)
<1>0. e \in Eds /\ b # None
  BY EdIs DEF Sound
<1>1. f = eb_free(SwitchAll(e, b, b1), b)
  BY DEF SwitchAll
<1>2. /\ Sound(g, b, None) /\ SameRest(e, g) /\ WinsOf(g) = WinsOf(e) /\ BufsOf(g) = BufsOf(e)
      /\ \A w \in WinsOf(e) : g.wins[w].kind = e.wins[w].kind /\ SamePlace(g.wins[w], e.wins[w])
      /\ \A w \in WinsOf(e) \ C : g.wins[w] = e.wins[w]
      /\ \A w \in C : g.wins[w].b = b1
  <2>1. SwitchedWell(e, g, C, b1, b, None)
    BY SwitchSound
  <2> QED
    BY <2>1 DEF SwitchedWell
<1> HIDE DEF g
<1>3. Shows(g, b) = {}
  BY <1>2 DEF Shows
<1>4. g \in Eds
  BY <1>2 DEF Sound
<1>5. Freed(g, f, b)
  BY <1>3, <1>4, FreeIs
<1> HIDE DEF f
<1>6. Sound(f, None, None)
  BY <1>2, <1>3, <1>5, FreeSound
<1>7. f.cb = NoCb /\ g.cb = NoCb
  <2>1. g.cb = NoCb
    BY <1>2 DEF SameRest
  <2>2. f.cb \in CbRec
    BY <1>5, EdIs DEF Freed
  <2>3. f.cb.cmd = NoCb.cmd /\ f.cb.win = NoCb.win /\ f.cb.buf = NoCb.buf
    BY <1>0, <1>5, <2>1, NoCbIs DEF Freed
  <2> QED
    BY <2>1, <2>2, <2>3, NoCbIs, CbEqual
<1>8. SameRest(e, f)
  BY <1>2, <1>5, <1>7 DEF SameRest, Freed
<1>9. /\ WinsOf(f) = WinsOf(e) /\ \A w \in WinsOf(e) : f.wins[w].kind = e.wins[w].kind
      /\ BufsOf(f) = BufsOf(e) \ {b}
  BY <1>2, <1>5 DEF Freed, WinsOf
<1>10. Tiles(e) => Tiles(f)
  <2>1. Tiled(f) = Tiled(e) /\ \A v \in Tiled(e) : SamePlace(f.wins[v], e.wins[v])
    BY <1>2, <1>5, <1>9 DEF Tiled, Freed
  <2>2. SameSize(e, f)
    BY <1>8 DEF SameRest, SameSize
  <2> QED
    BY <2>1, <2>2, TilesKept
<1> QED
  BY <1>1, <1>6, <1>8, <1>9, <1>10

LEMMA KillIs ==
    ASSUME NEW e, Inv(e), Calm(e), NEW b \in BufsOf(e)
    PROVE  LET f == kill_buffer_noconfirm(e, b)
           IN  Inv(f) /\ Calm(f) /\ WinsOf(f) = WinsOf(e) /\ (Tiles(e) => Tiles(f))
<1> DEFINE S  == {i \in BufsOf(e) : i # b /\ ~e.bufs[i].system}
           b1 == FirstOf(S)
           f  == kill_buffer_noconfirm(e, b)
           n  == Fresh(e.bufs)
           e0 == eb_new(e, Scratch, FALSE)
<1>0. /\ e \in Eds /\ Sound(e, None, None) /\ Tiled(e) = WinsOf(e) /\ e.cb = NoCb
      /\ \A c \in BufsOf(e) : ~Transient(e.bufs[c])
      /\ \A w \in WinsOf(e) : e.wins[w].kind = "tiled"
  BY CalmWindows DEF Inv, Calm, AllTiled
<1>1. Sound(e, b, None)
  BY <1>0, SoundLess
<1>2. /\ S = {} => b1 = None
      /\ S # {} => b1 \in BufsOf(e) /\ b1 # b /\ b1 # None
  <2>1. Bounded(S) /\ S \subseteq BufsOf(e) /\ b \notin S
    BY <1>0, EdIs, BoundedSubset
  <2> HIDE DEF S
  <2> QED
    BY <2>1, FirstIs
<1>3. f = IF b1 # None THEN eb_free(SwitchAll(e, b, b1), b)
          ELSE eb_free(SwitchAll(e0, b, n), b)
  BY DEF kill_buffer_noconfirm
<1> DEFINE Replaces(d) ==
             /\ Sound(f, None, None) /\ SameRest(d, f) /\ WinsOf(f) = WinsOf(d)
             /\ \A w \in WinsOf(d) : f.wins[w].kind = d.wins[w].kind
             /\ Tiles(d) => Tiles(f)
<1>4. CASE S # {}
  <2>1. f = eb_free(SwitchAll(e, b, b1), b) /\ b1 \in BufsOf(e) /\ b1 # b
    BY <1>2, <1>3, <1>4
  <2>2. Shows(e, b) \subseteq Tiled(e)
    BY <1>0, ShowsIs
  <2> HIDE DEF f, b1
  <2>3. Replaces(e)
    BY <1>0, <1>1, <2>1, <2>2, ReplaceSound
  <2>4. \A w \in WinsOf(f) : f.wins[w].kind = "tiled"
    BY <1>0, <2>3
  <2>5. Inv(f) /\ Calm(f)
    BY <2>3, <2>4, CalmSame
  <2> QED
    BY <2>3, <2>5 DEF f
<1>5. CASE S = {}
  <2>1. f = eb_free(SwitchAll(e0, b, n), b)
    BY <1>2, <1>3, <1>5
  <2>2. \A c \in BufsOf(e) \ {b} : e.bufs[c].system
    BY <1>5
  <2>3. Sound(e0, b, None)
    BY <1>1, <2>2, NamesAre, AddSound
  <2>4. Added(e, e0, n, NewBuf(Scratch, FALSE))
    BY <1>0, NamesAre, EbNewIs
  <2>5. ~Transient(NewBuf(Scratch, FALSE))
    BY NewBufFields, NamesAre
  <2> HIDE DEF f, e0, n
  <2>6. /\ e0 \in Eds /\ e0.wins = e.wins /\ SameRest(e, e0) /\ n \in BufsOf(e0) /\ n # b
        /\ b \in BufsOf(e0) /\ ~Transient(e0.bufs[n]) /\ WinsOf(e0) = WinsOf(e)
        /\ Tiled(e0) = Tiled(e)
    BY <2>4, <2>5 DEF Added, WinsOf, Tiled
  <2>7. Shows(e0, b) \subseteq Tiled(e0) /\ e0.cb = NoCb
    <3>1. Shows(e0, b) \subseteq WinsOf(e0)
      BY DEF Shows
    <3> QED
      BY <1>0, <2>6, <3>1 DEF SameRest
  <2>8. Replaces(e0)
    BY <2>1, <2>3, <2>6, <2>7, ReplaceSound
  <2>9. \A w \in WinsOf(f) : f.wins[w].kind = "tiled"
    BY <1>0, <2>6, <2>8
  <2>10. SameRest(e, f)
    BY <2>6, <2>8 DEF SameRest
  <2>11. Inv(f) /\ Calm(f)
    BY <2>6, <2>8, <2>9, <2>10, CalmSame
  <2>12. Tiles(e) => Tiles(e0)
    <3>1. SameSize(e, e0)
      BY <2>6 DEF SameSize, SameRest
    <3> QED
      BY <2>6, <3>1, TilesBesides
  <2> QED
    BY <2>6, <2>8, <2>11, <2>12 DEF f
<1> QED
  BY <1>4, <1>5

(* Places and items of windows change, whatever is open.                   *)
SamePointers(e, f) ==
    /\ f.active = e.active /\ f.cb = e.cb /\ f.saved = e.saved
    /\ f.popup_saved = e.popup_saved /\ f.completion = e.completion /\ f.fault = e.fault

LEMMA InvPlaces ==
    ASSUME NEW e, Inv(e), NEW f \in Eds, f.bufs = e.bufs, SamePointers(e, f),
           WinsOf(f) = WinsOf(e),
           \A w \in WinsOf(e) : /\ f.wins[w].b = e.wins[w].b /\ f.wins[w].mode = e.wins[w].mode
                                /\ f.wins[w].kind = e.wins[w].kind
    PROVE  Inv(f)
<1>0. Sound(e, None, None) /\ e.fault = "none" /\ e.active \in WinsOf(e)
  BY DEF Inv
<1>1. Sound(f, None, None)
  BY <1>0, PlacesSound
<1>2. Tiled(f) = Tiled(e) /\ BufsOf(f) = BufsOf(e)
  BY DEF Tiled, BufsOf
<1>3. \A S : AllTiled(e, S) => AllTiled(f, S)
  BY DEF AllTiled
<1>4. CASE Calm(e)
  BY <1>0, <1>1, <1>3, <1>4 DEF Inv, Calm, SamePointers
<1>5. CASE Reading(e)
  <2>1. Reading(f)
    BY <1>0, <1>2, <1>3, <1>5 DEF Reading, SamePointers
  <2> QED
    BY <1>0, <1>1, <2>1 DEF Inv, SamePointers
<1>6. CASE Asking(e)
  <2>1. Waits(f, f.cb)
    BY <1>2, <1>6 DEF Asking, Waits, SamePointers
  <2>2. Asking(f)
    BY <1>0, <1>2, <1>3, <1>6, <2>1 DEF Asking, SamePointers
  <2> QED
    BY <1>0, <1>1, <2>2 DEF Inv, SamePointers
<1> QED
  BY <1>4, <1>5, <1>6 DEF Inv

(* A buffer is killed, or the user is asked first.                         *)
LEMMA KillBufferIs ==
    ASSUME NEW e, Inv(e), Calm(e), NEW name
    PROVE  LET f == do_kill_buffer(e, name)
           IN  /\ Inv(f) /\ WinsOf(e) \subseteq WinsOf(f) /\ \A w \in WinsOf(e) : f.wins[w].kind = "tiled"
               /\ Calm(f) \/ Asking(f)
               /\ Tiles(e) => Tiles(f)
<1> DEFINE b == eb_find(e, name)
           f == do_kill_buffer(e, name)
           cb == [cmd |-> "kill_buffer_confirm", win |-> None, buf |-> b]
<1>0. /\ e \in Eds /\ \A c \in BufsOf(e) : ~Transient(e.bufs[c])
      /\ \A w \in WinsOf(e) : e.wins[w].kind = "tiled"
  BY CalmWindows DEF Calm, AllTiled
<1>1. b = None \/ b \in BufsOf(e)
  BY <1>0, EbFindIs
<1>2. CASE b = None
  <2>1. f = e
    BY <1>2 DEF do_kill_buffer
  <2> QED
    BY <1>0, <2>1
<1>3. CASE b \in BufsOf(e)
  <2>0. b # None
    BY <1>0, <1>3, EdIs
  <2>1. f = minibuffer_edit(e, cb) \/ f = kill_buffer_noconfirm(e, b)
    BY <2>0, Zenon DEF do_kill_buffer
  <2> HIDE DEF f, b
  <2>2. CASE f = kill_buffer_noconfirm(e, b)
    <3>1. Inv(f) /\ Calm(f) /\ WinsOf(f) = WinsOf(e) /\ (Tiles(e) => Tiles(f))
      BY <1>3, <2>2, KillIs
    <3> QED
      BY <3>1 DEF Calm, AllTiled, f
  <2>3. CASE f = minibuffer_edit(e, cb)
    <3>1. cb \in CbRec /\ cb.cmd = "kill_buffer_confirm" /\ cb.win = None /\ cb.buf = b
      <4>1. b \in Ptr
        BY <1>0, <1>3, EdIs DEF Ptr
      <4> QED
        BY <4>1 DEF CbRec, Ptr
    <3> HIDE DEF cb
    <3>2. Waits(e, cb)
      BY <1>0, <1>3, <3>1 DEF Waits
    <3>3. Inv(f) /\ Asking(f) /\ Contains(f, e) /\ (Tiles(e) => Tiles(f))
      BY <2>3, <3>1, <3>2, MinibufferEditIs
    <3> QED
      BY <1>0, <3>3 DEF Contains, f
  <2> QED
    BY <2>1, <2>2, <2>3
<1> QED
  BY <1>1, <1>2, <1>3

LEMMA BufedKillIs ==
    ASSUME NEW e, Inv(e), Calm(e), NEW w \in WinsOf(e), NEW item
    PROVE  LET f == bufed_kill_buffer(e, w, item)
           IN  Inv(f) /\ (Tiles(e) => Tiles(f))
<1> DEFINE g == do_kill_buffer(e, item)
           i == build_bufed_list(g)
           t == [g.wins[w] EXCEPT !.items = i]
           f == [g EXCEPT !.wins[w] = t]
<1>1. Inv(g) /\ w \in WinsOf(g) /\ (Tiles(e) => Tiles(g))
  BY KillBufferIs
<1>2. bufed_kill_buffer(e, w, item) = f
  BY DEF bufed_kill_buffer
<1> HIDE DEF g
<1>3. g \in Eds
  BY <1>1 DEF Inv, Sound
<1>4. i \in SUBSET NameSet
  <2>1. \A k \in BufsOf(g) : g.bufs[k] \in BufRec
    BY <1>3, EdIs
  <2>2. \A k \in BufsOf(g) : g.bufs[k].name \in NameSet
    BY <2>1 DEF BufRec
  <2> QED
    BY <2>2 DEF build_bufed_list
<1> HIDE DEF i
<1>5. /\ t \in WinRec /\ t.b = g.wins[w].b /\ t.mode = g.wins[w].mode /\ t.kind = g.wins[w].kind
      /\ SamePlace(t, g.wins[w])
  <2>1. g.wins[w] \in WinRec
    BY <1>1, <1>3, EdIs
  <2> QED
    BY <1>4, <2>1 DEF WinRec, SamePlace, At
<1> HIDE DEF t
<1>6. /\ f \in Eds /\ SameRest(g, f) /\ f.bufs = g.bufs /\ WinsOf(f) = WinsOf(g)
      /\ f.wins[w] = t /\ \A v \in WinsOf(g) \ {w} : f.wins[v] = g.wins[v]
  BY <1>1, <1>3, <1>5, SetWinIs
<1> HIDE DEF f
<1>7. SamePointers(g, f)
  BY <1>6 DEF SameRest, SamePointers
<1>8. \A v \in WinsOf(g) : /\ f.wins[v].b = g.wins[v].b /\ f.wins[v].mode = g.wins[v].mode
                           /\ f.wins[v].kind = g.wins[v].kind
  BY <1>5, <1>6
<1>9. Inv(f)
  BY <1>1, <1>6, <1>7, <1>8, InvPlaces
<1>10. Tiles(g) => Tiles(f)
  <2>1. Tiled(f) = Tiled(g)
    BY <1>6, <1>8 DEF Tiled
  <2>2. \A v \in Tiled(g) : SamePlace(f.wins[v], g.wins[v])
    BY <1>5, <1>6 DEF Tiled, SamePlace, At
  <2>3. SameSize(g, f)
    BY <1>6 DEF SameRest, SameSize
  <2> QED
    BY <2>1, <2>2, <2>3, TilesKept
<1> QED
  BY <1>1, <1>2, <1>9, <1>10

LEMMA AskIs ==
    ASSUME NEW e, Inv(e), Calm(e)
    PROVE  LET f == minibuffer_edit(e, [cmd |-> "argument", win |-> e.active, buf |-> None])
           IN  Inv(f) /\ (Tiles(e) => Tiles(f))
<1> DEFINE cb == [cmd |-> "argument", win |-> e.active, buf |-> None]
<1>0. e \in Eds /\ e.active \in Tiled(e)
  BY CalmWindows
<1>1. cb \in CbRec /\ cb.cmd = "argument" /\ cb.win = e.active /\ cb.buf = None
  <2>1. e.active \in Ptr
    BY <1>0, EdIs
  <2> QED
    BY <2>1 DEF CbRec, Ptr
<1> HIDE DEF cb
<1>2. Waits(e, cb)
  BY <1>0, <1>1 DEF Waits
<1>3. Inv(minibuffer_edit(e, cb)) /\ (Tiles(e) => Tiles(minibuffer_edit(e, cb)))
  BY <1>1, <1>2, MinibufferEditIs
<1> QED
  BY <1>3 DEF cb

---------------------------------------------------------------------------
(* Popups and questions.                                                   *)

(* The sizes of a popup are numbers.                                       *)
LEMMA PopupIs ==
    ASSUME NEW e \in Eds, NEW b, NEW n \in Nat, NEW d \in Nat \ {0}
    PROVE  \E x1, y1, x2, y2 \in Int : Popup(e, b, n, d) = edit_new(e, b, x1, y1, x2, y2, "popup")
<1> DEFINE w == (e.width * n) \div d
           h == (e.height * 3) \div 4
           x == (e.width - w) \div 2
           y == (e.height - h) \div 2
<1>0. e.width \in Nat /\ e.height \in Nat
  BY EdIs
<1>1. e.width * n \in Int
  BY <1>0
<1>2. w \in Int /\ h \in Int
  BY <1>0, <1>1
<1>3. Popup(e, b, n, d) = edit_new(e, b, x, y, x + w, y + h, "popup")
  BY DEF Popup
<1> HIDE DEF w, h
<1>4. x \in Int /\ y \in Int
  BY <1>0, <1>2
<1> HIDE DEF x, y
<1>5. x + w \in Int /\ y + h \in Int
  BY <1>2, <1>4
<1> QED
  BY <1>3, <1>4, <1>5

(* f is e with a popup w in the mode m, which shows a new buffer.          *)
PopsUp(e, f, w, m) ==
    /\ Sound(f, None, None) /\ f \in Eds /\ SameRest(e, f) /\ Contains(f, e)
    /\ w \in Nat /\ w \notin WinsOf(e) /\ WinsOf(f) = WinsOf(e) \cup {w}
    /\ f.wins[w].kind = "popup" /\ f.wins[w].mode = m
    /\ Tiles(e) => Tiles(f)

LEMMA PopupSound ==
    ASSUME NEW e, Sound(e, None, None), e.active # None, NEW nm \in NameSet, NEW m \in Modes,
           OwnMode(NewBuf(nm, TRUE)) = m, Transient(NewBuf(nm, TRUE)),
           NEW k \in Nat, NEW l \in Nat \ {0}
    PROVE  LET e1 == Popup(eb_new(e, nm, TRUE), Fresh(e.bufs), k, l)
           IN  /\ PopsUp(e, do_set_mode(e1, Fresh(e.wins), m), Fresh(e.wins), m)
               /\ e1.active = e.active
<1> DEFINE n  == Fresh(e.bufs)
           w  == Fresh(e.wins)
           r  == NewBuf(nm, TRUE)
           e0 == eb_new(e, nm, TRUE)
           e1 == Popup(e0, n, k, l)
           f  == do_set_mode(e1, w, m)
<1>1. Sound(e0, None, n) /\ Shows(e0, n) = {} /\ Added(e, e0, n, r)
  BY AddSystem
<1>2. r.saved = None /\ OwnMode(r) = m /\ Transient(r)
  BY NewBufFields
<1> HIDE DEF e0, n, r
<1>3. /\ e0 \in Eds /\ e0.wins = e.wins /\ SameRest(e, e0) /\ n \in BufsOf(e0) /\ e0.bufs[n] = r
      /\ \A b \in BufsOf(e) : b \in BufsOf(e0) /\ e0.bufs[b] = e.bufs[b]
  BY <1>1 DEF Added
<1>4. e0.active # None /\ e0.active = e.active /\ w = Fresh(e0.wins) /\ WinsOf(e0) = WinsOf(e)
  BY <1>3 DEF SameRest, WinsOf
<1>5. PICK x1, y1, x2, y2 \in Int : e1 = edit_new(e0, n, x1, y1, x2, y2, "popup")
  BY <1>3, PopupIs
<1>6. Sound(f, None, None) /\ Opened(e0, f, w, n, "popup") /\ f.wins[w].mode = m /\ SameRest(e0, e1)
  <2>1. "popup" \in Kinds /\ "popup" # "tiled"
    BY DEF Kinds
  <2>2. e0.bufs[n].saved = None /\ m = OwnMode(e0.bufs[n]) /\ Transient(e0.bufs[n])
    BY <1>2, <1>3
  <2> HIDE DEF e1, w
  <2> QED
    BY <1>1, <1>3, <1>4, <1>5, <2>1, <2>2, OpenSound
<1> HIDE DEF f, e1, w
<1>7. /\ f \in Eds /\ SameRest(e, f) /\ e1.active = e.active
  BY <1>3, <1>6 DEF Opened, SameRest
<1>8. /\ w \in Nat /\ w \notin WinsOf(e) /\ WinsOf(f) = WinsOf(e) \cup {w}
      /\ f.wins[w].kind = "popup" /\ \A v \in WinsOf(e) : f.wins[v] = e.wins[v]
      /\ \A b \in BufsOf(e) : b \in BufsOf(f) /\ f.bufs[b] = e.bufs[b]
  BY <1>3, <1>4, <1>6 DEF Opened, BufsOf
<1>9. Contains(f, e)
  BY <1>8 DEF Contains
<1>11. Tiles(e) => Tiles(f)
  <2>1. SameSize(e, f)
    BY <1>7 DEF SameRest, SameSize
  <2> QED
    BY <1>8, <2>1, TilesBesides
<1>10. PopsUp(e, f, w, m)
  BY <1>6, <1>7, <1>8, <1>9, <1>11 DEF PopsUp
<1> QED
  BY <1>7, <1>10 DEF f, e1, e0, n, w

LEMMA HelpIs ==
    ASSUME NEW e, Inv(e), Calm(e)
    PROVE  LET f == do_help(e, FALSE)
           IN  Inv(f) /\ (Tiles(e) => Tiles(f))
<1> DEFINE nm == Name("*Help*", 1)
           w  == Fresh(e.wins)
           e0 == eb_new(e, nm, TRUE)
           e1 == Popup(e0, Fresh(e.bufs), 4, 5)
           d  == do_set_mode(e1, w, "less")
           f  == [d EXCEPT !.popup_saved = e1.active, !.active = w]
<1>0. /\ Sound(e, None, None) /\ e \in Eds /\ e.active \in Tiled(e) /\ e.active # None
      /\ e.fault = "none" /\ \A v \in WinsOf(e) : e.wins[v].kind = "tiled"
  BY CalmWindows, CalmActive DEF Inv, Calm, AllTiled
<1>1. e0.wins = e.wins
  BY DEF eb_new
<1>2. do_help(e, FALSE) = e \/ do_help(e, FALSE) = f
  BY <1>1 DEF do_help, show_popup
<1>3. PopsUp(e, d, w, "less") /\ e1.active = e.active
  <2>1. nm \in NameSet /\ OwnMode(NewBuf(nm, TRUE)) = "less" /\ Transient(NewBuf(nm, TRUE))
    BY NamesAre, SystemModes
  <2>2. "less" \in Modes /\ 4 \in Nat /\ 5 \in Nat \ {0}
    BY DEF Modes
  <2> HIDE DEF nm
  <2> QED
    BY <1>0, <2>1, <2>2, PopupSound
<1> HIDE DEF d, e1, w
<1>4. /\ Sound(d, None, None) /\ d \in Eds /\ SameRest(e, d) /\ Contains(d, e)
      /\ w \in Nat /\ w \notin WinsOf(e) /\ WinsOf(d) = WinsOf(e) \cup {w}
      /\ d.wins[w].kind = "popup" /\ d.wins[w].mode = "less" /\ (Tiles(e) => Tiles(d))
  BY <1>3 DEF PopsUp
<1>5. e1.active \in Ptr /\ w \in Ptr
  BY <1>0, <1>3, <1>4, EdIs DEF Ptr
<1>6. /\ f \in Eds /\ f.wins = d.wins /\ f.bufs = d.bufs /\ f.cb = d.cb /\ f.saved = d.saved
      /\ f.active = w /\ f.completion = d.completion /\ f.popup_saved = e.active
      /\ f.fault = d.fault /\ SameSize(d, f)
  BY <1>3, <1>4, <1>5 DEF Eds, SameSize
<1> HIDE DEF f
<1>7. Sound(f, None, None)
  BY <1>4, <1>6, PointersSound
<1>8. /\ f.cb = NoCb /\ f.saved = None /\ f.completion = None /\ f.fault = "none"
  BY <1>0, <1>4, <1>6 DEF SameRest, Calm
<1>9. WinsOf(f) = WinsOf(e) \cup {w} /\ \A v \in WinsOf(e) : f.wins[v] = e.wins[v]
  BY <1>4, <1>6 DEF Contains, WinsOf
<1>10. e.active \in Tiled(f) /\ AllTiled(f, {w})
  BY <1>0, <1>9 DEF Tiled, AllTiled
<1>11. Reading(f)
  BY <1>4, <1>6, <1>8, <1>10 DEF Reading
<1>12. Inv(f)
  BY <1>6, <1>7, <1>8, <1>9, <1>11 DEF Inv
<1>13. Tiles(e) => Tiles(f)
  <2>1. Tiles(d) => Tiles(f)
    BY <1>6, TilesBesides DEF WinsOf
  <2> QED
    BY <1>4, <2>1
<1> QED
  BY <1>2, <1>12, <1>13

LEMMA CompletionIs ==
    ASSUME NEW e, Inv(e), Asking(e)
    PROVE  LET f == do_completion(e, e.active)
           IN  Inv(f) /\ (Tiles(e) => Tiles(f))
<1> DEFINE nm == Name("*completion*", 1)
           w  == Fresh(e.wins)
           e0 == eb_new(e, nm, TRUE)
           e1 == Popup(e0, Fresh(e.bufs), 3, 4)
           d  == do_set_mode(e1, w, "list")
           f  == [d EXCEPT !.completion = w]
<1>0. /\ Sound(e, None, None) /\ e \in Eds /\ e.active \in WinsOf(e) /\ e.active # None
      /\ e.fault = "none"
  BY CalmActive DEF Inv
<1>2. \/ do_completion(e, e.active) = e
      \/ e.completion = None /\ do_completion(e, e.active) = f
  BY DEF do_completion
<1>3. PopsUp(e, d, w, "list")
  <2>1. nm \in NameSet /\ OwnMode(NewBuf(nm, TRUE)) = "list" /\ Transient(NewBuf(nm, TRUE))
    BY NamesAre, SystemModes
  <2>2. "list" \in Modes /\ 3 \in Nat /\ 4 \in Nat \ {0}
    BY DEF Modes
  <2> HIDE DEF nm
  <2> QED
    BY <1>0, <2>1, <2>2, PopupSound
<1> HIDE DEF d, w
<1>4. /\ Sound(d, None, None) /\ d \in Eds /\ SameRest(e, d) /\ Contains(d, e)
      /\ w \in Nat /\ w \notin WinsOf(e) /\ WinsOf(d) = WinsOf(e) \cup {w}
      /\ d.wins[w].kind = "popup" /\ d.wins[w].mode = "list" /\ (Tiles(e) => Tiles(d))
  BY <1>3 DEF PopsUp
<1>5. w \in Ptr
  BY <1>4 DEF Ptr
<1>6. /\ f \in Eds /\ f.wins = d.wins /\ f.bufs = d.bufs /\ f.cb = d.cb /\ f.saved = d.saved
      /\ f.active = d.active /\ f.completion = w /\ f.popup_saved = d.popup_saved
      /\ f.fault = d.fault /\ SameSize(d, f)
  BY <1>4, <1>5 DEF Eds, SameSize
<1> HIDE DEF f
<1>7. Sound(f, None, None)
  BY <1>4, <1>6, PointersSound
<1>8. f.active = e.active /\ f.cb = e.cb /\ f.saved = e.saved /\ f.popup_saved = e.popup_saved
      /\ f.fault = "none"
  BY <1>0, <1>4, <1>6 DEF SameRest
<1>9. /\ WinsOf(f) = WinsOf(e) \cup {w} /\ \A v \in WinsOf(e) : f.wins[v] = e.wins[v]
      /\ \A b \in BufsOf(e) : b \in BufsOf(f) /\ f.bufs[b] = e.bufs[b]
  BY <1>4, <1>6 DEF Contains, WinsOf, BufsOf
<1>10. \A v \in Tiled(e) : v \in Tiled(f)
  BY <1>9 DEF Tiled
<1>11. ASSUME e.completion = None PROVE Asking(f)
  <2>1. Waits(f, f.cb)
    BY <1>8, <1>9, <1>10 DEF Asking, Waits
  <2>2. None \notin WinsOf(e)
    BY <1>0, EdIs
  <2>3. AllTiled(f, {f.active, f.completion})
    BY <1>6, <1>8, <1>9, <1>11, <2>2 DEF Asking, AllTiled
  <2>4. w \in WinsOf(f) \ {e.active} /\ f.wins[w].kind = "popup" /\ f.wins[w].mode = "list"
    BY <1>0, <1>4, <1>6, <1>9
  <2>5. f.wins[f.active].kind = "minibuf" /\ f.wins[f.active].mode = "minibuffer"
    BY <1>0, <1>8, <1>9 DEF Asking
  <2>6. f.saved \in Tiled(f) /\ f.popup_saved = None
    BY <1>8, <1>10 DEF Asking
  <2> QED
    BY <1>6, <1>8, <2>1, <2>3, <2>4, <2>5, <2>6 DEF Asking
<1>12. e.completion = None => Inv(f)
  BY <1>0, <1>7, <1>8, <1>9, <1>11 DEF Inv
<1>13. Tiles(e) => Tiles(f)
  <2>1. Tiles(d) => Tiles(f)
    BY <1>6, TilesBesides DEF WinsOf
  <2> QED
    BY <1>4, <2>1
<1> QED
  BY <1>2, <1>12, <1>13

LEMMA LessQuitIs ==
    ASSUME NEW e, Inv(e), Reading(e)
    PROVE  LET f == do_less_quit(e, e.active)
           IN  Inv(f) /\ (Tiles(e) => Tiles(f))
<1> DEFINE w == e.active
           g == [e EXCEPT !.active = e.popup_saved]
           c == CloseWithBuffer(g, w)
           f == [c EXCEPT !.popup_saved = None]
<1>0. /\ Sound(e, None, None) /\ e \in Eds /\ w \in WinsOf(e) /\ e.fault = "none"
      /\ e.wins[w].kind = "popup" /\ e.popup_saved \in WinsOf(e) /\ e.popup_saved # w
      /\ AllTiled(e, {w}) /\ e.cb = NoCb /\ e.saved = None /\ e.completion = None
  BY DEF Inv, Sound, Reading, Tiled
<1>1. do_less_quit(e, w) = f
  BY DEF do_less_quit
<1>2. /\ g \in Eds /\ g.wins = e.wins /\ g.bufs = e.bufs /\ g.active = e.popup_saved /\ g.cb = NoCb
      /\ g.saved = None /\ g.completion = None /\ g.fault = "none"
      /\ SameSize(e, g)
  <2>1. e.popup_saved \in Ptr
    BY <1>0 DEF Eds
  <2> QED
    BY <1>0, <2>1 DEF Eds, SameSize
<1> HIDE DEF g, w
<1>3. Sound(g, None, None) /\ WinsOf(g) = WinsOf(e) /\ g.wins[w].kind # "tiled"
  BY <1>0, <1>2, PointersSound DEF WinsOf
<1>4. Sound(c, None, None) /\ ClosedWith(g, c, w, g.wins[w].b)
  BY <1>0, <1>3, CloseWithBufferSound
<1> HIDE DEF c
<1>5. w # None /\ g.wins[w].b # None
  <2>1. g.wins[w].b \in BufsOf(g)
    BY <1>0, <1>3 DEF Sound, Live
  <2> QED
    BY <1>0, <1>2, <2>1, EdIs
<1>6. /\ c \in Eds /\ WinsOf(c) = WinsOf(e) \ {w} /\ \A v \in WinsOf(c) : c.wins[v] = e.wins[v]
      /\ c.active = e.popup_saved /\ c.saved = None /\ c.completion = None /\ c.fault = "none"
      /\ c.cb.cmd = NoCb.cmd /\ c.cb.win = NoCb.win /\ c.cb.buf = NoCb.buf
  BY <1>0, <1>2, <1>3, <1>4, <1>5, NoCbIs DEF ClosedWith, Forgets, Sound
<1>14. SameSize(e, c)
  BY <1>2, <1>4 DEF ClosedWith, SameSize
<1>7. c.cb = NoCb
  BY <1>6, EdIs, NoCbIs, CbEqual
<1>8. /\ f \in Eds /\ f.wins = c.wins /\ f.bufs = c.bufs /\ f.active = c.active /\ f.cb = c.cb
      /\ f.saved = c.saved /\ f.completion = c.completion /\ f.popup_saved = None
      /\ f.fault = c.fault /\ SameSize(c, f)
  <2>1. None \in Ptr
    BY DEF Ptr
  <2> QED
    BY <1>6, <2>1 DEF Eds, SameSize
<1> HIDE DEF f
<1>9. Sound(f, None, None)
  BY <1>4, <1>8, PointersSound
<1>10. WinsOf(f) = WinsOf(e) \ {w} /\ f.active \in WinsOf(f)
  BY <1>0, <1>6, <1>8 DEF WinsOf
<1>11. AllTiled(f, {})
  BY <1>0, <1>6, <1>8, <1>10 DEF AllTiled
<1>12. Calm(f)
  BY <1>6, <1>7, <1>8, <1>11 DEF Calm
<1>13. Inv(f)
  BY <1>6, <1>8, <1>9, <1>10, <1>12 DEF Inv
<1>15. Tiles(e) => Tiles(f)
  <2>1. SameSize(e, f)
    BY <1>8, <1>14 DEF SameSize
  <2>2. \A v \in WinsOf(e) \cap WinsOf(f) : f.wins[v] = e.wins[v]
    BY <1>6, <1>8, <1>10
  <2> QED
    BY <1>0, <1>10, <2>1, <2>2, TilesBesides
<1> QED
  BY <1>1, <1>13, <1>15 DEF w

(* f has the tiled windows of e, and the buffers that are not transient.   *)
KeepsTiled(e, f) ==
    /\ \A v \in Tiled(e) : v \in Tiled(f)
    /\ \A b \in BufsOf(e) : ~Transient(e.bufs[b]) => b \in BufsOf(f) /\ ~Transient(f.bufs[b])

(* A window of a question, with its buffer, is none that is waited for.    *)
LEMMA CloseKeeps ==
    ASSUME NEW e, Sound(e, None, None), NEW w \in WinsOf(e), e.wins[w].kind # "tiled",
           NEW f, ClosedWith(e, f, w, e.wins[w].b)
    PROVE  KeepsTiled(e, f) /\ Transient(e.bufs[e.wins[w].b]) /\ w \notin Tiled(e)
<1> DEFINE b == e.wins[w].b
<1>0. Transient(e.bufs[b]) /\ w \notin Tiled(e)
  BY DEF Sound, Separate, Tiled
<1>1. \A v \in Tiled(e) : v \in Tiled(f)
  BY <1>0 DEF ClosedWith, Tiled
<1>2. \A c \in BufsOf(e) : ~Transient(e.bufs[c]) => c \in BufsOf(f)
  BY <1>0 DEF ClosedWith
<1>3. \A c \in BufsOf(f) : Transient(f.bufs[c]) <=> Transient(e.bufs[c])
  BY SameTransient DEF ClosedWith
<1> QED
  BY <1>0, <1>1, <1>2, <1>3 DEF KeepsTiled

LEMMA CloseCompletionIs ==
    ASSUME NEW e, Inv(e), Asking(e)
    PROVE  LET f == close_completion(e)
           IN  /\ Inv(f) /\ Asking(f) /\ f.completion = None /\ f.active = e.active /\ KeepsTiled(e, f)
               /\ Tiles(e) => Tiles(f)
<1> DEFINE p == e.completion
           c == CloseWithBuffer(e, p)
           b == e.wins[p].b
           f == [c EXCEPT !.completion = None]
<1>1. CASE p = None
  <2>1. close_completion(e) = e
    BY <1>1 DEF close_completion
  <2>2. KeepsTiled(e, e)
    BY DEF KeepsTiled
  <2> QED
    BY <1>1, <2>1, <2>2
<1>2. CASE p # None
  <2>0. /\ Sound(e, None, None) /\ e \in Eds /\ e.active \in WinsOf(e) /\ e.fault = "none"
        /\ p \in WinsOf(e) /\ p # e.active /\ e.wins[p].kind = "popup"
        /\ Waits(e, e.cb) /\ e.saved \in Tiled(e) /\ e.popup_saved = None
        /\ e.wins[e.active].kind = "minibuf" /\ e.wins[e.active].mode = "minibuffer"
        /\ AllTiled(e, {e.active, p})
    BY <1>2 DEF Inv, Sound, Asking
  <2>1. close_completion(e) = f
    BY <1>2 DEF close_completion
  <2>2. Sound(c, None, None) /\ ClosedWith(e, c, p, b)
    BY <2>0, CloseWithBufferSound
  <2> HIDE DEF c
  <2>3. KeepsTiled(e, c) /\ Transient(e.bufs[b]) /\ p \notin Tiled(e)
    BY <2>0, <2>2, CloseKeeps
  <2>4. b \in BufsOf(e) /\ b # None
    <3>1. b \in BufsOf(e)
      BY <2>0 DEF Sound, Live
    <3> QED
      BY <2>0, <3>1, EdIs
  <2> HIDE DEF p, b
  <2>5. e.cb.win # p /\ e.cb.buf # b
    BY <1>2, <2>0, <2>3, <2>4 DEF Waits
  <2>6. /\ c \in Eds /\ WinsOf(c) = WinsOf(e) \ {p} /\ \A v \in WinsOf(c) : c.wins[v] = e.wins[v]
        /\ c.active = e.active /\ c.saved = e.saved /\ c.popup_saved = None /\ c.fault = "none"
        /\ c.cb.cmd = e.cb.cmd /\ c.cb.win = e.cb.win /\ c.cb.buf = e.cb.buf
    BY <1>2, <2>0, <2>2, <2>3, <2>5 DEF ClosedWith, Forgets, Sound
  <2>7. c.cb = e.cb
    BY <2>0, <2>6, EdIs, CbEqual
  <2>8. /\ f \in Eds /\ f.wins = c.wins /\ f.bufs = c.bufs /\ f.active = c.active /\ f.cb = c.cb
        /\ f.saved = c.saved /\ f.completion = None /\ f.popup_saved = c.popup_saved
        /\ f.fault = c.fault /\ SameSize(c, f)
    <3>1. None \in Ptr
      BY DEF Ptr
    <3> QED
      BY <2>6, <3>1 DEF Eds, SameSize
  <2> HIDE DEF f
  <2>9. Sound(f, None, None)
    BY <2>2, <2>8, PointersSound
  <2>10. WinsOf(f) = WinsOf(c) /\ Tiled(f) = Tiled(c) /\ BufsOf(f) = BufsOf(c)
    BY <2>8 DEF WinsOf, Tiled, BufsOf
  <2>11. KeepsTiled(e, f)
    BY <2>3, <2>8, <2>10 DEF KeepsTiled
  <2>12. Waits(f, f.cb)
    BY <2>0, <2>7, <2>8, <2>11 DEF Waits, KeepsTiled
  <2>13. AllTiled(f, {f.active, f.completion})
    BY <2>0, <2>6, <2>8, <2>10 DEF AllTiled
  <2>14. f.active = e.active /\ f.active \in WinsOf(f) /\ f.wins[f.active] = e.wins[e.active]
    BY <2>0, <2>6, <2>8, <2>10
  <2>15. Asking(f)
    BY <2>0, <2>6, <2>8, <2>11, <2>12, <2>13, <2>14 DEF Asking, KeepsTiled
  <2>16. Inv(f)
    BY <2>6, <2>8, <2>9, <2>14, <2>15 DEF Inv
  <2>17. Tiles(e) => Tiles(f)
    <3>1. SameSize(e, f)
      BY <2>2, <2>8 DEF ClosedWith, SameSize
    <3>2. WinsOf(f) = WinsOf(e) \ {p} /\ \A v \in WinsOf(e) \cap WinsOf(f) : f.wins[v] = e.wins[v]
      BY <2>6, <2>8, <2>10
    <3> QED
      BY <2>0, <3>1, <3>2, TilesBesides
  <2> QED
    BY <2>1, <2>8, <2>11, <2>14, <2>15, <2>16, <2>17
<1> QED
  BY <1>1, <1>2

LEMMA MinibufferExitIs ==
    ASSUME NEW e, Inv(e), Asking(e)
    PROVE  LET f == do_minibuffer_exit(e, e.active)
           IN  Inv(f) /\ Calm(f) /\ KeepsTiled(e, f) /\ (Tiles(e) => Tiles(f))
<1> DEFINE w == e.active
           g == close_completion(e)
           c == CloseWithBuffer(g, w)
           f == [c EXCEPT !.active = c.saved, !.saved = None, !.cb = NoCb]
<1>1. do_minibuffer_exit(e, w) = f
  BY DEF do_minibuffer_exit
<1>2. /\ Inv(g) /\ Asking(g) /\ g.completion = None /\ g.active = w /\ KeepsTiled(e, g)
      /\ Tiles(e) => Tiles(g)
  BY CloseCompletionIs
<1> HIDE DEF g
<1>3. /\ Sound(g, None, None) /\ g \in Eds /\ w \in WinsOf(g) /\ g.fault = "none"
      /\ g.saved \in Tiled(g) /\ g.popup_saved = None
      /\ g.wins[w].kind = "minibuf" /\ AllTiled(g, {w, None})
  BY <1>2 DEF Inv, Sound, Asking
<1>4. Sound(c, None, None) /\ ClosedWith(g, c, w, g.wins[w].b)
  BY <1>3, CloseWithBufferSound
<1> HIDE DEF c, w
<1>5. KeepsTiled(g, c) /\ w \notin Tiled(g)
  BY <1>3, <1>4, CloseKeeps
<1>6. None \notin WinsOf(g)
  BY <1>3, EdIs
<1>7. /\ c \in Eds /\ WinsOf(c) = WinsOf(g) \ {w} /\ \A v \in WinsOf(c) : c.wins[v] = g.wins[v]
      /\ c.saved = g.saved /\ c.popup_saved = None /\ c.fault = "none" /\ c.completion = None
  BY <1>2, <1>3, <1>4, <1>5, <1>6 DEF ClosedWith, Forgets, Sound
<1>8. /\ f \in Eds /\ f.wins = c.wins /\ f.bufs = c.bufs /\ f.active = g.saved /\ f.cb = NoCb
      /\ f.saved = None /\ f.completion = c.completion /\ f.popup_saved = c.popup_saved
      /\ f.fault = c.fault /\ SameSize(c, f)
  <2>1. None \in Ptr /\ NoCb \in CbRec
    BY NoCbIs DEF Ptr
  <2>2. g.saved \in Ptr
    BY <1>3 DEF Eds
  <2> QED
    BY <1>7, <2>1, <2>2 DEF Eds, SameSize
<1> HIDE DEF f
<1>9. Sound(f, None, None)
  BY <1>4, <1>8, PointersSound
<1>10. WinsOf(f) = WinsOf(c) /\ Tiled(f) = Tiled(c) /\ BufsOf(f) = BufsOf(c)
  BY <1>8 DEF WinsOf, Tiled, BufsOf
<1>11. KeepsTiled(e, f)
  BY <1>2, <1>5, <1>8, <1>10 DEF KeepsTiled
<1>12. AllTiled(f, {})
  BY <1>3, <1>6, <1>7, <1>8, <1>10 DEF AllTiled
<1>13. Calm(f)
  BY <1>7, <1>8, <1>12 DEF Calm
<1>14. f.active \in WinsOf(f)
  BY <1>3, <1>5, <1>7, <1>8, <1>10 DEF Tiled
<1>15. Inv(f)
  BY <1>7, <1>8, <1>9, <1>13, <1>14 DEF Inv
<1>16. Tiles(e) => Tiles(f)
  <2>1. SameSize(g, f)
    BY <1>4, <1>8 DEF ClosedWith, SameSize
  <2>2. WinsOf(f) = WinsOf(g) \ {w} /\ \A v \in WinsOf(g) \cap WinsOf(f) : f.wins[v] = g.wins[v]
    BY <1>7, <1>8, <1>10
  <2>3. Tiles(g) => Tiles(f)
    BY <1>3, <2>1, <2>2, TilesBesides
  <2> QED
    BY <1>2, <2>3
<1> QED
  BY <1>1, <1>11, <1>13, <1>15, <1>16 DEF w

---------------------------------------------------------------------------
(* Other buffers and files in a window.                                    *)

(* What is open stays so.                                                  *)
LEMMA PhaseSame ==
    ASSUME NEW e, Inv(e), NEW f, Sound(f, None, None), SamePointers(e, f), WinsOf(f) = WinsOf(e),
           \A w \in WinsOf(e) : /\ f.wins[w].kind = e.wins[w].kind
                                /\ e.wins[w].kind # "tiled" => f.wins[w].mode = e.wins[w].mode,
           \A b \in BufsOf(e) : b \in BufsOf(f) /\ (Transient(f.bufs[b]) <=> Transient(e.bufs[b]))
    PROVE  Inv(f)
<1>0. e.fault = "none" /\ e.active \in WinsOf(e)
  BY DEF Inv
<1>2. Tiled(f) = Tiled(e)
  BY DEF Tiled
<1>3. \A S : AllTiled(e, S) => AllTiled(f, S)
  BY DEF AllTiled
<1>4. CASE Calm(e)
  BY <1>0, <1>3, <1>4 DEF Inv, Calm, SamePointers
<1>5. CASE Reading(e)
  <2>1. Reading(f)
    BY <1>0, <1>2, <1>3, <1>5 DEF Reading, SamePointers
  <2> QED
    BY <1>0, <2>1 DEF Inv, SamePointers
<1>6. CASE Asking(e)
  <2>1. Waits(f, f.cb)
    BY <1>2, <1>6 DEF Asking, Waits, SamePointers
  <2>2. Asking(f)
    BY <1>0, <1>2, <1>3, <1>6, <2>1 DEF Asking, SamePointers
  <2> QED
    BY <1>0, <2>2 DEF Inv, SamePointers
<1> QED
  BY <1>4, <1>5, <1>6 DEF Inv

LEMMA SwitchToBufferIs ==
    ASSUME NEW e, Inv(e), Calm(e), NEW w \in WinsOf(e), NEW name \in NameSet
    PROVE  LET f == do_switch_to_buffer(e, w, name)
           IN  Inv(f) /\ (Tiles(e) => Tiles(f))
<1> DEFINE b == eb_find(e, name)
           n == Fresh(e.bufs)
           g == eb_new(e, name, FALSE)
<1>0. Sound(e, None, None) /\ e \in Eds
  BY DEF Inv, Sound
<1>1. /\ b # None => b \in BufsOf(e)
      /\ b = None => \A c \in BufsOf(e) : e.bufs[c].name # name
  BY <1>0, EbFindIs
<1>2. do_switch_to_buffer(e, w, name)
        = IF b # None THEN switch_to_buffer(e, w, b) ELSE switch_to_buffer(g, w, n)
  BY DEF do_switch_to_buffer
<1> HIDE DEF b
<1>3. CASE b # None
  BY <1>1, <1>2, <1>3, SwitchCalm
<1>4. CASE b = None
  <2>1. Sound(g, None, None)
    BY <1>0, <1>1, <1>4, AddSound
  <2>2. Added(e, g, n, NewBuf(name, FALSE))
    BY <1>0, EbNewIs
  <2> HIDE DEF g, n
  <2>3. g.wins = e.wins /\ SameRest(e, g) /\ n \in BufsOf(g) /\ WinsOf(g) = WinsOf(e)
    BY <2>2 DEF Added, WinsOf
  <2>4. \A v \in WinsOf(g) : g.wins[v].kind = "tiled"
    BY <2>3 DEF Calm, AllTiled
  <2>5. Inv(g) /\ Calm(g)
    BY <2>1, <2>3, <2>4, CalmSame
  <2>6. LET f == switch_to_buffer(g, w, n)
        IN  Inv(f) /\ (Tiles(g) => Tiles(f))
    BY <2>3, <2>5, SwitchCalm
  <2>7. Tiles(e) => Tiles(g)
    <3>1. SameSize(e, g)
      BY <2>3 DEF SameRest, SameSize
    <3> QED
      BY <2>3, <3>1, TilesBesides
  <2> QED
    BY <1>2, <1>4, <2>6, <2>7
<1> QED
  BY <1>3, <1>4

(* Of the names with the numbers up to one more than there are buffers,    *)
(* one is unused.                                                          *)
OthersOf(S, n, name) == {name[i] : i \in S \ {n}}
UnusedIn(S, base, O) == {k \in 1..(Cardinality(S) + 1) : Name(base, k) \notin O}

LEMMA NameUnused ==
    ASSUME NEW S, IsFiniteSet(S), NEW n \in S, NEW base, NEW name
    PROVE  LET k == Min(UnusedIn(S, base, OthersOf(S, n, name)))
           IN  k \in Nat /\ Name(base, k) \notin OthersOf(S, n, name)
<1> DEFINE others == {name[i] : i \in S \ {n}}
           m == Cardinality(S)
           D == 1..(m + 1)
           unused == {k \in D : Name(base, k) \notin others}
           T == S \ {n}
           g == [k \in D |-> CHOOSE i \in T : name[i] = Name(base, k)]
<1>1. m \in Nat /\ IsFiniteSet(T) /\ Cardinality(T) = m - 1
  BY FS_CardinalityType, FS_RemoveElement
<1>2. IsFiniteSet(D) /\ Cardinality(D) = m + 1
  <2>1. 1 \in Int /\ m + 1 \in Int /\ ~(1 > m + 1)
    BY <1>1
  <2> HIDE DEF m
  <2> QED
    BY <1>1, <2>1, FS_Interval
<1>3. unused # {}
  <2> SUFFICES ASSUME unused = {} PROVE FALSE
    OBVIOUS
  <2>1. \A k \in D : \E i \in T : name[i] = Name(base, k)
    OBVIOUS
  <2>2. \A k \in D : g[k] \in T /\ name[g[k]] = Name(base, k)
    BY <2>1
  <2>3. g \in [D -> T]
    BY <2>2
  <2> HIDE DEF g, D, T, m, unused, others
  <2>4. Cardinality(T) < Cardinality(D)
    BY <1>1, <1>2
  <2>5. PICK x, y \in D : x # y /\ g[x] = g[y]
    BY <1>1, <1>2, <2>3, <2>4, FS_PigeonHole
  <2>6. Name(base, x) = Name(base, y)
    BY <2>2, <2>5
  <2> QED
    BY <2>5, <2>6 DEF Name
<1>4. unused \in SUBSET Nat
  BY <1>1
<1>5. Min(unused) \in unused
  <2> HIDE DEF unused
  <2> QED
    BY <1>3, <1>4, MinIn
<1>6. unused = UnusedIn(S, base, others) /\ others = OthersOf(S, n, name)
  BY DEF UnusedIn, OthersOf
<1> QED
  BY <1>4, <1>5, <1>6

(* A buffer changes.                                                       *)
LEMMA SetBufIs ==
    ASSUME NEW e \in Eds, NEW b \in BufsOf(e), NEW r \in BufRec
    PROVE  LET f == [e EXCEPT !.bufs[b] = r]
           IN  /\ f \in Eds /\ SameRest(e, f) /\ f.wins = e.wins /\ BufsOf(f) = BufsOf(e)
               /\ f.bufs[b] = r /\ \A c \in BufsOf(e) \ {b} : f.bufs[c] = e.bufs[c]
<1> DEFINE f == [e EXCEPT !.bufs[b] = r]
           h == [e.bufs EXCEPT ![b] = r]
<1>1. e.bufs \in Heap(BufRec) /\ e.bufs \in [BufsOf(e) -> BufRec]
  BY EdIs, HeapIs DEF BufsOf
<1>2. /\ h \in [BufsOf(e) -> BufRec] /\ DOMAIN h = BufsOf(e) /\ h[b] = r
      /\ \A c \in BufsOf(e) \ {b} : h[c] = e.bufs[c]
  BY <1>1
<1>3. f = [e EXCEPT !.bufs = h]
  OBVIOUS
<1> HIDE DEF h, f
<1>4. h \in Heap(BufRec)
  BY <1>1, <1>2, HeapMap DEF BufsOf
<1>5. f \in Eds /\ f.bufs = h /\ f.wins = e.wins /\ SameRest(e, f)
  BY <1>3, <1>4, WithBufs
<1> QED
  BY <1>2, <1>5 DEF f, BufsOf

(* g is e after the buffer b was given the file f, under a name of its own.*)
Filed(e, g, b, f) ==
    /\ g \in Eds /\ g.wins = e.wins /\ SameRest(e, g) /\ BufsOf(g) = BufsOf(e)
    /\ g.bufs[b].file = f /\ g.bufs[b].system = e.bufs[b].system
    /\ g.bufs[b].saved = e.bufs[b].saved /\ g.bufs[b].own = e.bufs[b].own
    /\ \A c \in BufsOf(e) \ {b} : g.bufs[c] = e.bufs[c] /\ e.bufs[c].name # g.bufs[b].name

LEMMA SetFilenameIs ==
    ASSUME NEW e \in Eds, NEW n \in BufsOf(e), NEW f \in Files
    PROVE  Filed(e, set_filename(e, n, f), n, f)
<1> DEFINE r  == e.bufs[n]
           r1 == [e.bufs[n] EXCEPT !.file = f]
           e1 == [e EXCEPT !.bufs[n] = r1]
           S  == BufsOf(e1)
           name == [i \in S |-> e1.bufs[i].name]
           others == OthersOf(S, n, name)
           k  == Min(UnusedIn(S, Base, others))
           r2 == [e1.bufs[n] EXCEPT !.name = Name(Base, k)]
           g  == [e1 EXCEPT !.bufs[n] = r2]
<1>1. r \in BufRec
  BY EdIs
<1>2. set_filename(e, n, f) = g
  <2>1. others = {e1.bufs[i].name : i \in BufsOf(e1) \ {n}}
    BY DEF OthersOf
  <2>2. set_filename(e, n, f) = set_buffer_name(e1, n, Base)
    BY DEF set_filename
  <2> HIDE DEF name, e1, others
  <2>3. set_buffer_name(e1, n, Base) = g
    BY <2>1 DEF set_buffer_name, UnusedIn
  <2> QED
    BY <2>2, <2>3
<1>4. /\ r1 \in BufRec /\ r1.system = r.system /\ r1.saved = r.saved /\ r1.own = r.own
      /\ r1.file = f
  BY <1>1 DEF BufRec
<1> HIDE DEF r1
<1>5. /\ e1 \in Eds /\ SameRest(e, e1) /\ e1.wins = e.wins /\ BufsOf(e1) = BufsOf(e)
      /\ e1.bufs[n] = r1 /\ \A c \in BufsOf(e) \ {n} : e1.bufs[c] = e.bufs[c]
  BY <1>4, SetBufIs
<1> HIDE DEF e1
<1>6. k \in Nat /\ Name(Base, k) \notin others
  <2>1. IsFiniteSet(S) /\ n \in S
    BY <1>5, EdIs, BoundedFinite
  <2> HIDE DEF S, name
  <2> QED
    BY <2>1, NameUnused
<1> HIDE DEF k
<1>7. /\ r2 \in BufRec /\ r2.system = r.system /\ r2.saved = r.saved /\ r2.own = r.own
      /\ r2.file = f /\ r2.name = Name(Base, k)
  <2>1. Name(Base, k) \in NameSet
    BY <1>6, NamesAre
  <2> QED
    BY <1>4, <1>5, <2>1 DEF BufRec
<1> HIDE DEF r2
<1>8. /\ g \in Eds /\ SameRest(e1, g) /\ g.wins = e1.wins /\ BufsOf(g) = BufsOf(e1)
      /\ g.bufs[n] = r2 /\ \A c \in BufsOf(e1) \ {n} : g.bufs[c] = e1.bufs[c]
  BY <1>5, <1>7, SetBufIs
<1> HIDE DEF g
<1>10. \A c \in BufsOf(e) \ {n} : e.bufs[c].name # r2.name
  BY <1>5, <1>6, <1>7 DEF OthersOf
<1> HIDE DEF S, others
<1>11. BufsOf(g) = BufsOf(e) /\ g.wins = e.wins /\ SameRest(e, g)
  BY <1>5, <1>8 DEF SameRest
<1>12. \A c \in BufsOf(e) \ {n} : g.bufs[c] = e.bufs[c] /\ e.bufs[c].name # g.bufs[n].name
  BY <1>5, <1>8, <1>10
<1>13. Filed(e, g, n, f)
  BY <1>7, <1>8, <1>11, <1>12 DEF Filed
<1> QED
  BY <1>2, <1>13

(* g is e with a new buffer n for the file f, under a name of its own.     *)
Named(e, g, n, f) ==
    /\ g \in Eds /\ g.wins = e.wins /\ SameRest(e, g) /\ n \in Nat /\ n \notin BufsOf(e)
    /\ BufsOf(g) = BufsOf(e) \cup {n}
    /\ g.bufs[n].system = FALSE /\ g.bufs[n].file = f /\ g.bufs[n].saved = None
    /\ g.bufs[n].own = FileMode[f]
    /\ \A b \in BufsOf(e) : g.bufs[b] = e.bufs[b] /\ e.bufs[b].name # g.bufs[n].name

LEMMA NamedIs ==
    ASSUME NEW e \in Eds, NEW f \in Files
    PROVE  LET n == Fresh(e.bufs)
               d == set_filename(eb_new(e, Name("", 1), FALSE), n, f)
           IN  Named(e, [d EXCEPT !.bufs[n].own = FileMode[f]], n, f)
<1> DEFINE n  == Fresh(e.bufs)
           nm == Name("", 1)
           r  == NewBuf(nm, FALSE)
           e0 == eb_new(e, nm, FALSE)
           d  == set_filename(e0, n, f)
           t  == [d.bufs[n] EXCEPT !.own = FileMode[f]]
           g  == [d EXCEPT !.bufs[n] = t]
<1>0. nm \in NameSet
  BY NamesAre
<1>1. Added(e, e0, n, r) /\ r \in BufRec /\ r.system = FALSE /\ r.saved = None
  BY <1>0, EbNewIs, NewBufIs, NewBufFields
<1>2. g = [d EXCEPT !.bufs[n].own = FileMode[f]]
  OBVIOUS
<1> HIDE DEF e0, n, r, nm, d
<1>3. e0 \in Eds /\ n \in BufsOf(e0) /\ e0.bufs[n] = r
  BY <1>1 DEF Added
<1>4. Filed(e0, d, n, f)
  BY <1>3, SetFilenameIs DEF d
<1>5. d \in Eds /\ BufsOf(d) = BufsOf(e0) /\ d.bufs[n] \in BufRec
  BY <1>3, <1>4, EdIs DEF Filed
<1>6. /\ t \in BufRec /\ t.name = d.bufs[n].name /\ t.system = d.bufs[n].system
      /\ t.saved = d.bufs[n].saved /\ t.file = d.bufs[n].file /\ t.own = FileMode[f]
  <2>1. FileMode[f] \in Modes
    BY DEF Modes
  <2> QED
    BY <1>5, <2>1 DEF BufRec
<1> HIDE DEF t
<1>7. /\ g \in Eds /\ SameRest(d, g) /\ g.wins = d.wins /\ BufsOf(g) = BufsOf(d)
      /\ g.bufs[n] = t /\ \A c \in BufsOf(d) \ {n} : g.bufs[c] = d.bufs[c]
  BY <1>3, <1>5, <1>6, SetBufIs
<1> HIDE DEF g
<1>8. \A b \in BufsOf(e) : g.bufs[b] = e.bufs[b] /\ e.bufs[b].name # g.bufs[n].name
  <2> TAKE b \in BufsOf(e)
  <2>1. b # n /\ b \in BufsOf(e0) /\ e0.bufs[b] = e.bufs[b]
    BY <1>1 DEF Added
  <2> QED
    BY <1>4, <1>5, <1>6, <1>7, <2>1 DEF Filed
<1>9. /\ n \in Nat /\ n \notin BufsOf(e) /\ BufsOf(g) = BufsOf(e) \cup {n} /\ g.wins = e.wins
      /\ SameRest(e, g)
  BY <1>1, <1>4, <1>5, <1>7 DEF Added, Filed, SameRest
<1>10. Named(e, g, n, f)
  BY <1>1, <1>3, <1>4, <1>6, <1>7, <1>8, <1>9 DEF Named, Filed
<1> QED
  BY <1>2, <1>10 DEF e0, n, nm, d

LEMMA NamedSound ==
    ASSUME NEW e, Sound(e, None, None), NEW f \in Files, \A b \in BufsOf(e) : e.bufs[b].file # f,
           NEW g, NEW n, Named(e, g, n, f)
    PROVE  Sound(g, None, n) /\ Shows(g, n) = {}
<1>0. e \in Eds /\ Live(e) /\ ModesOK(e, None) /\ NamesOK(e, None) /\ Separate(e, None)
  BY DEF Sound
<1>3. /\ g \in Eds /\ g.wins = e.wins /\ n \notin BufsOf(e) /\ BufsOf(g) = BufsOf(e) \cup {n}
      /\ \A b \in BufsOf(e) : g.bufs[b] = e.bufs[b] /\ e.bufs[b].name # g.bufs[n].name
      /\ g.bufs[n].system = FALSE /\ g.bufs[n].file = f /\ OwnOK(g.bufs[n])
      /\ WinsOf(g) = WinsOf(e) /\ \A c : Shows(g, c) = Shows(e, c)
  BY ModeAssumption DEF Named, WinsOf, Shows, OwnOK, Transient
<1>4. Live(g) /\ \A w \in WinsOf(e) : e.wins[w].b \in BufsOf(e)
  BY <1>0, <1>3 DEF Live
<1>5. \A b \in BufsOf(e) : b # None /\ b # n
  BY <1>0, <1>3, EdIs
<1>6. ModesOK(g, n)
  BY <1>0, <1>3, <1>4, <1>5 DEF ModesOK
<1>7. NamesOK(g, None)
  <2> SUFFICES ASSUME NEW i \in BufsOf(g) \ {None}, NEW j \in BufsOf(g) \ {None}, i # j,
                      ~g.bufs[i].system, ~g.bufs[j].system
               PROVE  /\ g.bufs[i].name # g.bufs[j].name
                      /\ \/ g.bufs[i].file = NoFile \/ g.bufs[i].file # g.bufs[j].file
                         \/ g.bufs[i].written \/ g.bufs[j].written
    BY DEF NamesOK
  <2>1. CASE i = n
    BY <1>3, <2>1
  <2>2. CASE j = n /\ i \in BufsOf(e)
    BY <1>3, <2>2
  <2>3. CASE i \in BufsOf(e) /\ j \in BufsOf(e)
    BY <1>0, <1>3, <2>3 DEF NamesOK
  <2> QED
    BY <1>3, <2>1, <2>2, <2>3
<1>8. Separate(g, n)
  <2>2. ASSUME NEW w \in WinsOf(g)
        PROVE  g.wins[w].kind = "tiled" <=> ~Transient(g.bufs[g.wins[w].b])
    BY <1>0, <1>3, <1>4 DEF Separate
  <2>3. ASSUME NEW c \in BufsOf(g), Transient(g.bufs[c])
        PROVE  c = n \/ \E w \in WinsOf(g) : g.wins[w].b = c
    BY <1>0, <1>3, <1>5, <2>3 DEF Separate
  <2>4. ASSUME NEW c \in BufsOf(g)
        PROVE  OwnOK(g.bufs[c])
    BY <1>0, <1>3 DEF Separate
  <2>5. \A v, w \in WinsOf(g) : g.wins[v].kind # "tiled" /\ g.wins[v].b = g.wins[w].b => v = w
    BY <1>0, <1>3 DEF Separate
  <2> QED
    BY <2>2, <2>3, <2>4, <2>5 DEF Separate
<1>9. Shows(g, n) = {}
  BY <1>3, <1>4 DEF Shows
<1> QED
  BY <1>3, <1>4, <1>6, <1>7, <1>8, <1>9 DEF Sound

(* A window is switched to another buffer, whatever is open.               *)
LEMMA SwitchInv ==
    ASSUME NEW e, Inv(e), NEW w \in Tiled(e), NEW b \in BufsOf(e), ~Transient(e.bufs[b])
    PROVE  LET f == switch_to_buffer(e, w, b)
           IN  Inv(f) /\ (Tiles(e) => Tiles(f))
<1> DEFINE f == SwitchTo(e, {w}, b)
<1>0. Sound(e, None, None) /\ {w} \subseteq Tiled(e) /\ e.wins[w].kind = "tiled"
  BY DEF Inv, Tiled
<1>1. SwitchedWell(e, f, {w}, b, None, None)
  BY <1>0, SwitchSound
<1>2. f = switch_to_buffer(e, w, b)
  BY DEF switch_to_buffer
<1> HIDE DEF f
<1>3. /\ Sound(f, None, None) /\ SamePointers(e, f) /\ WinsOf(f) = WinsOf(e) /\ BufsOf(f) = BufsOf(e)
  BY <1>1 DEF SwitchedWell, SameRest, SamePointers
<1>4. \A v \in WinsOf(e) : /\ f.wins[v].kind = e.wins[v].kind
                           /\ e.wins[v].kind # "tiled" => f.wins[v].mode = e.wins[v].mode
  BY <1>0, <1>1 DEF SwitchedWell
<1>5. \A c \in BufsOf(e) : Transient(f.bufs[c]) <=> Transient(e.bufs[c])
  BY <1>1, SameTransient DEF SwitchedWell
<1>6. Inv(f)
  BY <1>3, <1>4, <1>5, PhaseSame
<1>7. Tiles(e) => Tiles(f)
  <2>1. Tiled(f) = Tiled(e) /\ \A v \in Tiled(e) : SamePlace(f.wins[v], e.wins[v])
    BY <1>1 DEF Tiled, SwitchedWell
  <2>2. SameSize(e, f)
    BY <1>1 DEF SwitchedWell, SameRest, SameSize
  <2> QED
    BY <2>1, <2>2, TilesKept
<1> QED
  BY <1>2, <1>6, <1>7

(* The new buffer gets its mode in the window that shows it.               *)
LEMMA ModeSound ==
    ASSUME NEW e, NEW n \in BufsOf(e), Sound(e, None, n), e.bufs[n].saved = None, ~Transient(e.bufs[n]),
           NEW w \in WinsOf(e), Shows(e, n) = {w}, NEW f, ModeSet(e, f, w, OwnMode(e.bufs[n]))
    PROVE  Sound(f, None, None)
<1>0. e \in Eds /\ Live(e) /\ ModesOK(e, n) /\ NamesOK(e, None) /\ Separate(e, n)
  BY DEF Sound
<1>1. ModesOK(f, None)
  BY <1>0, SetModes
<1>2. /\ f \in Eds /\ f.bufs = e.bufs /\ WinsOf(f) = WinsOf(e) /\ BufsOf(f) = BufsOf(e)
      /\ \A v \in WinsOf(e) : f.wins[v].b = e.wins[v].b /\ f.wins[v].kind = e.wins[v].kind
  BY DEF ModeSet, IsIn, BufsOf
<1>3. Live(f)
  BY <1>0, <1>2 DEF Live
<1>4. NamesOK(f, None)
  BY <1>0, <1>2 DEF NamesOK
<1>5. Separate(f, None)
  BY <1>0, <1>2 DEF Separate
<1> QED
  BY <1>1, <1>2, <1>3, <1>4, <1>5 DEF Sound

LEMMA VisitIs ==
    ASSUME NEW e, Inv(e), NEW w \in Tiled(e), NEW f \in Files
    PROVE  Inv(Visit(e, w, f)) /\ (Tiles(e) => Tiles(Visit(e, w, f)))
<1> DEFINE S  == {b \in BufsOf(e) : e.bufs[b].file = f}
           n  == Fresh(e.bufs)
           g0 == set_filename(eb_new(e, Name("", 1), FALSE), n, f)
           g  == [g0 EXCEPT !.bufs[n].own = FileMode[f]]
           h  == SwitchTo(g, {w}, n)
           d  == do_set_mode(h, w, FileMode[f])
<1>0. Sound(e, None, None) /\ e \in Eds /\ w \in WinsOf(e) /\ Separate(e, None) /\ f # NoFile
  BY FileAssumption DEF Inv, Sound, Tiled
<1>1. Bounded(S) /\ eb_find_file(e, f) = FirstOf(S)
  BY <1>0, EdIs, BoundedSubset DEF eb_find_file
<1>2. Visit(e, w, f) = IF FirstOf(S) # None THEN switch_to_buffer(e, w, FirstOf(S)) ELSE d
  BY <1>1 DEF Visit, switch_to_buffer
<1>3. CASE S # {}
  <2> DEFINE b == FirstOf(S)
  <2>1. b \in S /\ b # None
    <3> HIDE DEF S
    <3> QED
      BY <1>1, <1>3, FirstIs
  <2>2. b \in BufsOf(e) /\ ~Transient(e.bufs[b])
    BY <1>0, <2>1 DEF Separate, OwnOK
  <2> HIDE DEF b, S
  <2>3. LET g1 == switch_to_buffer(e, w, b)
        IN  Inv(g1) /\ (Tiles(e) => Tiles(g1))
    BY <2>2, SwitchInv
  <2> QED
    BY <1>2, <2>1, <2>3 DEF b
<1>4. CASE S = {}
  <2>1. Visit(e, w, f) = d
    <3> HIDE DEF S, d
    <3> QED
      BY <1>1, <1>2, <1>4, FirstIs
  <2>2. Named(e, g, n, f)
    BY <1>0, NamedIs
  <2>3. \A b \in BufsOf(e) : e.bufs[b].file # f
    BY <1>4
  <2> HIDE DEF g, n, S
  <2>4. Sound(g, None, n) /\ Shows(g, n) = {}
    BY <1>0, <2>2, <2>3, NamedSound
  <2>5. /\ g \in Eds /\ g.wins = e.wins /\ SameRest(e, g) /\ n \in BufsOf(g)
        /\ WinsOf(g) = WinsOf(e) /\ Tiled(g) = Tiled(e)
        /\ g.bufs[n].system = FALSE /\ g.bufs[n].own = FileMode[f] /\ g.bufs[n].saved = None
        /\ \A b \in BufsOf(e) : b \in BufsOf(g) /\ g.bufs[b] = e.bufs[b]
    BY <2>2 DEF Named, WinsOf, Tiled
  <2>6. ~Transient(g.bufs[n])
    BY <2>5 DEF Transient
  <2>7. SwitchedWell(g, h, {w}, n, None, n)
    BY <2>4, <2>5, <2>6, SwitchSound
  <2>8. Keeps(g, h, {w})
    <3>1. {w} \subseteq WinsOf(g)
      BY <1>0, <2>5
    <3>2. Switched(g, h, {w}, n, ModeFor(save_mode(g, {w}), {w}, n))
      BY <2>5, <3>1, SwitchIs
    <3> QED
      BY <3>2 DEF Switched, IsIn
  <2> HIDE DEF h
  <2>9. h.bufs[n] = g.bufs[n]
    BY <2>4, <2>5, <2>8 DEF Keeps, Left
  <2>10. /\ Sound(h, None, n) /\ h \in Eds /\ SameRest(g, h) /\ WinsOf(h) = WinsOf(g)
         /\ BufsOf(h) = BufsOf(g)
         /\ \A v \in WinsOf(g) : h.wins[v].kind = g.wins[v].kind /\ SamePlace(h.wins[v], g.wins[v])
         /\ \A v \in WinsOf(g) \ {w} : h.wins[v] = g.wins[v]
         /\ h.wins[w].b = n
         /\ \A c \in BufsOf(g) : SameBuf(h.bufs[c], g.bufs[c])
    BY <2>7 DEF SwitchedWell, Sound
  <2>11. Shows(h, n) = {w}
    BY <1>0, <2>4, <2>5, <2>10 DEF Shows
  <2>12. OwnMode(h.bufs[n]) = FileMode[f] /\ FileMode[f] \in Modes
    BY <1>0, <2>5, <2>9 DEF OwnMode, Modes
  <2>13. ModeSet(h, d, w, FileMode[f])
    BY <1>0, <2>5, <2>10, <2>12, SetModeIs
  <2> HIDE DEF d
  <2>14. Sound(d, None, None)
    BY <1>0, <2>5, <2>6, <2>9, <2>10, <2>11, <2>12, <2>13, ModeSound
  <2>15. SamePointers(e, d) /\ WinsOf(d) = WinsOf(e) /\ d.bufs = h.bufs
    BY <2>5, <2>10, <2>13 DEF ModeSet, IsIn, SameRest, SamePointers
  <2>16. \A v \in WinsOf(e) : /\ d.wins[v].kind = e.wins[v].kind
                              /\ e.wins[v].kind # "tiled" => d.wins[v].mode = e.wins[v].mode
    BY <2>5, <2>10, <2>13 DEF ModeSet, IsIn, Tiled
  <2>17. \A b \in BufsOf(e) : b \in BufsOf(d) /\ (Transient(d.bufs[b]) <=> Transient(e.bufs[b]))
    BY <2>5, <2>10, <2>15, SameTransient DEF BufsOf
  <2>18. Inv(d)
    BY <2>14, <2>15, <2>16, <2>17, PhaseSame
  <2>19. Tiles(e) => Tiles(d)
    <3>1. Tiled(d) = Tiled(e) /\ \A v \in Tiled(e) : SamePlace(d.wins[v], e.wins[v])
      <4>1. \A v \in WinsOf(e) : SamePlace(d.wins[v], h.wins[v])
        BY <1>0, <2>5, <2>10, <2>13 DEF ModeSet, IsIn, SamePlace, At
      <4> QED
        BY <2>5, <2>10, <2>15, <2>16, <4>1 DEF Tiled, SamePlace, At
    <3>2. SameSize(e, d)
      BY <2>5, <2>10, <2>13 DEF ModeSet, SameRest, SameSize
    <3> QED
      BY <3>1, <3>2, TilesKept
  <2> QED
    BY <2>1, <2>18, <2>19
<1> QED
  BY <1>3, <1>4

LEMMA LoadIs ==
    ASSUME NEW e, Inv(e), Calm(e), NEW w \in WinsOf(e), NEW f \in Files, NEW kill \in BOOLEAN
    PROVE  LET g == do_load1(e, w, f, kill)
           IN  Inv(g) /\ (Tiles(e) => Tiles(g))
<1> DEFINE g == do_kill_buffer(e, e.bufs[e.wins[w].b].name)
<1>1. Inv(g) /\ w \in WinsOf(g) /\ g.wins[w].kind = "tiled" /\ (Tiles(e) => Tiles(g))
  BY KillBufferIs
<1>2. do_load1(e, w, f, kill) = IF kill THEN Visit(g, w, f) ELSE Visit(e, w, f)
  BY DEF do_load1
<1> HIDE DEF g
<1>3. w \in Tiled(g) /\ w \in Tiled(e)
  BY <1>1, CalmWindows DEF Tiled
<1> QED
  BY <1>1, <1>2, <1>3, VisitIs

(* A buffer that is no popup is written to any file.                       *)
LEMMA WriteIs ==
    ASSUME NEW e, Inv(e), NEW w \in Tiled(e), NEW f \in Files, NEW ok \in BOOLEAN
    PROVE  LET g == save_edit_cb(e, w, f, ok)
           IN  Inv(g) /\ (Tiles(e) => Tiles(g))
<1> DEFINE b == e.wins[w].b
           d == set_filename(e, b, f)
           r == [d.bufs[b] EXCEPT !.written = TRUE, !.modified = @ /\ ~ok]
           g == [d EXCEPT !.bufs[b] = r]
<1>0. /\ e \in Eds /\ Live(e) /\ ModesOK(e, None) /\ NamesOK(e, None) /\ Separate(e, None)
      /\ w \in WinsOf(e) /\ e.wins[w].kind = "tiled"
  BY DEF Inv, Sound, Tiled
<1>1. b \in BufsOf(e) /\ ~Transient(e.bufs[b])
  BY <1>0 DEF Live, Separate
<1>2. save_edit_cb(e, w, f, ok) = g
  BY DEF save_edit_cb
<1> HIDE DEF b, d
<1>3. Filed(e, d, b, f)
  BY <1>0, <1>1, SetFilenameIs DEF d
<1>4. d \in Eds /\ BufsOf(d) = BufsOf(e) /\ d.bufs[b] \in BufRec
  BY <1>1, <1>3, EdIs DEF Filed
<1>5. /\ r \in BufRec /\ r.name = d.bufs[b].name /\ r.system = d.bufs[b].system
      /\ r.saved = d.bufs[b].saved /\ r.own = d.bufs[b].own /\ r.written = TRUE
  <2>1. (d.bufs[b].modified /\ ~ok) \in BOOLEAN
    BY <1>4 DEF BufRec
  <2> QED
    BY <1>4, <2>1 DEF BufRec
<1> HIDE DEF r
<1>6. /\ g \in Eds /\ SameRest(d, g) /\ g.wins = d.wins /\ BufsOf(g) = BufsOf(d)
      /\ g.bufs[b] = r /\ \A c \in BufsOf(d) \ {b} : g.bufs[c] = d.bufs[c]
  BY <1>1, <1>4, <1>5, SetBufIs
<1> HIDE DEF g
<1>7. g.wins = e.wins /\ WinsOf(g) = WinsOf(e) /\ \A c : Shows(g, c) = Shows(e, c)
  BY <1>3, <1>6 DEF Filed, WinsOf, Shows
<1>8. \A c \in BufsOf(e) : g.bufs[c].saved = e.bufs[c].saved /\ OwnMode(g.bufs[c]) = OwnMode(e.bufs[c])
  BY <1>3, <1>4, <1>5, <1>6 DEF Filed, OwnMode
<1>9. \A c \in BufsOf(e) : (Transient(g.bufs[c]) <=> Transient(e.bufs[c])) /\ OwnOK(g.bufs[c])
  <2> TAKE c \in BufsOf(e)
  <2>1. OwnOK(e.bufs[c])
    BY <1>0 DEF Separate
  <2>2. CASE c = b
    BY <1>1, <1>3, <1>5, <1>6, <2>1, <2>2 DEF Filed, Transient, OwnOK
  <2>3. CASE c # b
    BY <1>3, <1>4, <1>6, <2>1, <2>3 DEF Filed
  <2> QED
    BY <2>2, <2>3
<1>10. ModesOK(g, None)
  BY <1>0, <1>4, <1>6, <1>7, <1>8 DEF ModesOK
<1>11. Live(g)
  BY <1>0, <1>4, <1>6, <1>7 DEF Live
<1>12. NamesOK(g, None)
  <2> SUFFICES ASSUME NEW i \in BufsOf(g) \ {None}, NEW j \in BufsOf(g) \ {None}, i # j,
                      ~g.bufs[i].system, ~g.bufs[j].system
               PROVE  /\ g.bufs[i].name # g.bufs[j].name
                      /\ \/ g.bufs[i].file = NoFile \/ g.bufs[i].file # g.bufs[j].file
                         \/ g.bufs[i].written \/ g.bufs[j].written
    BY DEF NamesOK
  <2>1. CASE i = b
    BY <1>3, <1>4, <1>5, <1>6, <2>1 DEF Filed
  <2>2. CASE j = b
    BY <1>3, <1>4, <1>5, <1>6, <2>2 DEF Filed
  <2>3. CASE i # b /\ j # b
    <3>1. /\ i \in BufsOf(e) \ {None} /\ j \in BufsOf(e) \ {None}
          /\ g.bufs[i] = e.bufs[i] /\ g.bufs[j] = e.bufs[j]
      BY <1>3, <1>4, <1>6, <2>3 DEF Filed
    <3> QED
      BY <1>0, <3>1 DEF NamesOK
  <2> QED
    BY <2>1, <2>2, <2>3
<1>13. Separate(g, None)
  BY <1>0, <1>4, <1>6, <1>7, <1>9, <1>11 DEF Separate, Live
<1>14. Sound(g, None, None)
  BY <1>6, <1>10, <1>11, <1>12, <1>13 DEF Sound
<1>15. SamePointers(e, g) /\ SameSize(e, g)
  BY <1>3, <1>6 DEF Filed, SameRest, SamePointers, SameSize
<1>16. Inv(g)
  BY <1>4, <1>6, <1>7, <1>9, <1>14, <1>15, PhaseSame
<1>17. Tiles(e) => Tiles(g)
  BY <1>7, <1>15, TilesBesides
<1> QED
  BY <1>2, <1>16, <1>17

(* The text of a buffer was edited or saved.                               *)
LEMMA EditIs ==
    ASSUME NEW e, Inv(e), NEW b \in BufsOf(e)
    PROVE  LET f == [e EXCEPT !.bufs[b].modified = ~@]
           IN  Inv(f) /\ (Tiles(e) => Tiles(f))
<1> DEFINE r == [e.bufs[b] EXCEPT !.modified = ~@]
           f == [e EXCEPT !.bufs[b] = r]
<1>0. Sound(e, None, None) /\ e \in Eds /\ Live(e) /\ ModesOK(e, None) /\ NamesOK(e, None)
      /\ Separate(e, None)
  BY DEF Inv, Sound
<1>1. [e EXCEPT !.bufs[b].modified = ~@] = f
  OBVIOUS
<1>2. r \in BufRec /\ SameBuf(r, e.bufs[b]) /\ r.saved = e.bufs[b].saved
  <2>1. e.bufs[b] \in BufRec
    BY <1>0, EdIs
  <2>2. (~e.bufs[b].modified) \in BOOLEAN
    BY <2>1 DEF BufRec
  <2> QED
    BY <2>1, <2>2 DEF BufRec, SameBuf
<1> HIDE DEF r
<1>3. /\ f \in Eds /\ SameRest(e, f) /\ f.wins = e.wins /\ BufsOf(f) = BufsOf(e)
      /\ f.bufs[b] = r /\ \A c \in BufsOf(e) \ {b} : f.bufs[c] = e.bufs[c]
  BY <1>0, <1>2, SetBufIs
<1> HIDE DEF f
<1>4. \A c \in BufsOf(e) : SameBuf(f.bufs[c], e.bufs[c]) /\ f.bufs[c].saved = e.bufs[c].saved
  BY <1>2, <1>3 DEF SameBuf
<1>5. WinsOf(f) = WinsOf(e) /\ \A c : Shows(f, c) = Shows(e, c)
  BY <1>3 DEF WinsOf, Shows
<1>6. \A c \in BufsOf(e) : /\ OwnMode(f.bufs[c]) = OwnMode(e.bufs[c])
                           /\ Transient(f.bufs[c]) <=> Transient(e.bufs[c])
                           /\ OwnOK(f.bufs[c]) <=> OwnOK(e.bufs[c])
  BY <1>4, SameOwn, SameTransient
<1>7. ModesOK(f, None)
  BY <1>0, <1>3, <1>4, <1>5, <1>6 DEF ModesOK
<1>8. Live(f)
  BY <1>0, <1>3, <1>5 DEF Live
<1>9. NamesOK(f, None)
  BY <1>0, <1>3, <1>4, SameNames
<1>10. Separate(f, None)
  BY <1>0, <1>3, <1>5, <1>6, <1>8 DEF Separate, Live
<1>11. Sound(f, None, None)
  BY <1>3, <1>7, <1>8, <1>9, <1>10 DEF Sound
<1>12. SamePointers(e, f)
  BY <1>3 DEF SameRest, SamePointers
<1>13. Inv(f)
  BY <1>3, <1>5, <1>6, <1>11, <1>12, PhaseSame
<1>14. Tiles(e) => Tiles(f)
  <2>1. SameSize(e, f)
    BY <1>3 DEF SameRest, SameSize
  <2> QED
    BY <1>3, <1>5, <2>1, TilesBesides
<1> QED
  BY <1>1, <1>13, <1>14

---------------------------------------------------------------------------
(* The screen gets another size.                                           *)

LEMMA TimesMonotone ==
    ASSUME NEW a \in Int, NEW b \in Int, NEW d \in Nat, a <= b
    PROVE  d * a <= d * b
<1>1. b - a \in Nat /\ d * b = d * a + d * (b - a)
  OBVIOUS
<1>2. \A m \in Nat : d * m \in Nat
  OBVIOUS
<1>3. d * (b - a) \in Nat /\ d * a \in Int
  BY <1>1, <1>2
<1> QED
  BY <1>1, <1>3

LEMMA DivIs ==
    ASSUME NEW n \in Nat, NEW d \in Nat \ {0}
    PROVE  LET q == n \div d
           IN  q \in Nat /\ d * q <= n /\ n < d * q + d
  OBVIOUS

LEMMA DivLess ==
    ASSUME NEW n \in Nat, NEW d \in Nat \ {0}, NEW c \in Int
    PROVE  n \div d <= c <=> n < d * (c + 1)
<1> DEFINE q == n \div d
<1>1. q \in Nat /\ d * q <= n /\ n < d * q + d /\ d * q \in Int
  <2>1. q \in Nat /\ d * q <= n /\ n < d * q + d
    BY DivIs
  <2> QED
    BY <2>1
<1> HIDE DEF q
<1>2. ASSUME q <= c PROVE n < d * (c + 1)
  <2>1. d * q <= d * c
    BY <1>1, <1>2, TimesMonotone
  <2>2. d * c \in Int /\ d * (c + 1) = d * c + d
    OBVIOUS
  <2> QED
    BY <1>1, <2>1, <2>2
<1>3. ASSUME c < q PROVE ~(n < d * (c + 1))
  <2>1. d * (c + 1) <= d * q /\ d * (c + 1) \in Int
    <3>1. c + 1 \in Int /\ c + 1 <= q
      BY <1>1, <1>3
    <3> QED
      BY <1>1, <3>1, TimesMonotone
  <2> QED
    BY <1>1, <2>1
<1>4. q <= c \/ c < q
  BY <1>1
<1> QED
  BY <1>2, <1>3, <1>4 DEF q

(* When a screen of width W gets the width w, the borders left of some     *)
(* column z are those that come to be left of the column c.                *)
LEMMA ScaleCell ==
    ASSUME NEW W \in Nat \ {0}, NEW w \in Nat \ {0}, NEW c \in 0..(w - 1)
    PROVE  \E z \in 0..(W - 1) : \A a \in Nat : (a * w) \div W <= c <=> a <= z
<1> DEFINE N == W * (c + 1) - 1
           z == N \div w
<1>1. c + 1 \in 1..w
  OBVIOUS
<1>2. W * (c + 1) \in Nat /\ W * (c + 1) >= 1 /\ W * (c + 1) <= W * w
  <2>1. W * 1 <= W * (c + 1) /\ W * (c + 1) <= W * w
    BY <1>1, TimesMonotone
  <2>2. W * (c + 1) \in Int /\ W * 1 >= 1
    OBVIOUS
  <2> QED
    BY <2>1, <2>2
<1>3. N \in Nat /\ N + 1 = W * (c + 1)
  BY <1>2
<1> HIDE DEF N
<1>4. z \in Nat
  BY <1>3, DivIs
<1>5. z <= W - 1
  <2>1. N < w * (W - 1 + 1)
    <3>1. W * w = w * (W - 1 + 1) /\ W * w \in Int
      OBVIOUS
    <3> QED
      BY <1>2, <1>3, <3>1
  <2>2. W - 1 \in Int
    OBVIOUS
  <2> QED
    BY <1>3, <2>1, <2>2, DivLess
<1>6. ASSUME NEW a \in Nat PROVE (a * w) \div W <= c <=> a <= z
  <2>1. a * w \in Nat /\ c \in Int
    OBVIOUS
  <2>2. (a * w) \div W <= c <=> a * w < W * (c + 1)
    BY <2>1, DivLess
  <2>3. ~(a <= z) <=> z <= a - 1
    BY <1>4
  <2>4. z <= a - 1 <=> N < w * (a - 1 + 1)
    BY <1>3, DivLess
  <2>5. w * (a - 1 + 1) = a * w
    OBVIOUS
  <2> QED
    BY <1>3, <2>1, <2>2, <2>3, <2>4, <2>5
<1> HIDE DEF z
<1>7. z \in 0..(W - 1)
  BY <1>4, <1>5
<1> QED
  BY <1>6, <1>7

(* Borders keep their order and stay on the screen.                        *)
LEMMA ScaleBounds ==
    ASSUME NEW W \in Nat \ {0}, NEW w \in Nat \ {0}, NEW a \in Nat, NEW b \in Nat, a <= b, b <= W
    PROVE  /\ (a * w) \div W \in Nat /\ (b * w) \div W \in Nat
           /\ (a * w) \div W <= (b * w) \div W /\ (b * w) \div W <= w
<1> DEFINE p == (a * w) \div W
           q == (b * w) \div W
<1>1. a * w \in Nat /\ b * w \in Nat /\ a * w <= b * w /\ b * w <= W * w
  <2>1. w * a <= w * b /\ w * b <= w * W
    BY TimesMonotone
  <2>2. w * a = a * w /\ w * b = b * w /\ w * W = W * w /\ a * w \in Nat /\ b * w \in Nat
    OBVIOUS
  <2> QED
    BY <2>1, <2>2
<1>2. p \in Nat /\ q \in Nat /\ b * w < W * q + W
  BY <1>1, DivIs
<1>3. W * (q + 1) = W * q + W /\ W * (w + 1) = W * w + W /\ W * q \in Int /\ W * w \in Int
  BY <1>2
<1>4. p <= q
  <2>1. a * w < W * (q + 1)
    BY <1>1, <1>2, <1>3
  <2> QED
    BY <1>1, <1>2, <2>1, DivLess
<1>5. q <= w
  <2>1. b * w < W * (w + 1)
    BY <1>1, <1>3
  <2> QED
    BY <1>1, <2>1, DivLess
<1> QED
  BY <1>2, <1>4, <1>5
(* The coordinates of the windows are scaled from the size of e to that of *)
(* f: what was in the cell (i, j) of e is now in (x, y).                   *)
LEMMA TilesScale ==
    ASSUME NEW e, NEW f, e.width \in Nat \ {0}, e.height \in Nat \ {0},
           f.width \in Nat \ {0}, f.height \in Nat \ {0}, Tiled(f) = Tiled(e),
           \A w \in Tiled(e) : e.wins[w] \in WinRec /\ SamePlace(f.wins[w], Scale(e.wins[w], e, f.width, f.height))
    PROVE  Tiles(e) => Tiles(f)
<1> SUFFICES ASSUME Tiles(e) PROVE Tiles(f)
  OBVIOUS
<1> DEFINE X(a) == (a * f.width) \div e.width
           Y(a) == (a * f.height) \div e.height
<1>1. ASSUME NEW w \in Tiled(e)
      PROVE  LET r == e.wins[w]
             IN  /\ r.x1 \in Nat /\ r.x2 \in Nat /\ r.x1 <= r.x2 /\ r.x2 <= e.width
                 /\ r.y1 \in Nat /\ r.y2 \in Nat /\ r.y1 <= r.y2 /\ r.y2 <= e.height
                 /\ At(f.wins[w], X(r.x1), Y(r.y1), X(r.x2), Y(r.y2))
  <2> DEFINE r == e.wins[w]
  <2>1. r \in WinRec /\ SamePlace(f.wins[w], Scale(r, e, f.width, f.height)) /\ Inside(e, r)
    BY DEF Tiles
  <2> HIDE DEF r
  <2>2. r.x1 \in Int /\ r.x2 \in Int /\ r.y1 \in Int /\ r.y2 \in Int
    BY <2>1 DEF WinRec
  <2>3. At(Scale(r, e, f.width, f.height), X(r.x1), Y(r.y1), X(r.x2), Y(r.y2))
    <3> HIDE DEF X, Y
    <3>1. Scale(r, e, f.width, f.height) = Place(r, X(r.x1), Y(r.y1), X(r.x2), Y(r.y2))
      BY DEF Scale, X, Y
    <3>2. \A a, b, c, d : At(Place(r, a, b, c, d), a, b, c, d)
      BY <2>1 DEF Place, WinRec, At
    <3> QED
      BY <3>1, <3>2
  <2> HIDE DEF X, Y
  <2>4. At(f.wins[w], X(r.x1), Y(r.y1), X(r.x2), Y(r.y2))
    BY <2>1, <2>3 DEF SamePlace, At
  <2> QED
    BY <2>1, <2>2, <2>4 DEF Inside, r
<1>2. ASSUME NEW w \in Tiled(f) PROVE Inside(f, f.wins[w])
  <2> DEFINE r == e.wins[w]
  <2>1. /\ X(r.x1) \in Nat /\ X(r.x2) \in Nat /\ X(r.x1) <= X(r.x2) /\ X(r.x2) <= f.width
    BY <1>1, ScaleBounds
  <2>2. /\ Y(r.y1) \in Nat /\ Y(r.y2) \in Nat /\ Y(r.y1) <= Y(r.y2) /\ Y(r.y2) <= f.height
    BY <1>1, ScaleBounds
  <2>3. At(f.wins[w], X(r.x1), Y(r.y1), X(r.x2), Y(r.y2))
    BY <1>1
  <2> HIDE DEF X, Y, r
  <2> QED
    BY <2>1, <2>2, <2>3 DEF Inside, At
<1>3. ASSUME NEW x \in 0..(f.width - 1), NEW y \in 0..(f.height - 1)
      PROVE  \E u \in Tiled(f) : \A t \in Tiled(f) : Has(f.wins[t], x, y) <=> t = u
  <2>1. PICK i \in 0..(e.width - 1) : \A a \in Nat : X(a) <= x <=> a <= i
    BY ScaleCell
  <2>2. PICK j \in 0..(e.height - 1) : \A a \in Nat : Y(a) <= y <=> a <= j
    BY ScaleCell
  <2>3. \A a \in Nat : X(a) \in Int /\ Y(a) \in Int
    <3>1. \A a \in Nat, z \in Nat, d \in Nat \ {0} : (a * z) \div d \in Int
      <4> TAKE a \in Nat, z \in Nat, d \in Nat \ {0}
      <4>1. a * z \in Int
        OBVIOUS
      <4> QED
        BY <4>1
    <3> QED
      BY <3>1
  <2> HIDE DEF X, Y
  <2>4. x \in Int /\ y \in Int /\ i \in Int /\ j \in Int
    OBVIOUS
  <2>5. ASSUME NEW t \in Tiled(f) PROVE Has(f.wins[t], x, y) <=> Has(e.wins[t], i, j)
    <3> DEFINE r == e.wins[t]
    <3>1. /\ r.x1 \in Nat /\ r.x2 \in Nat /\ r.y1 \in Nat /\ r.y2 \in Nat
          /\ At(f.wins[t], X(r.x1), Y(r.y1), X(r.x2), Y(r.y2))
      BY <1>1
    <3> HIDE DEF r
    <3>2. X(r.x1) <= x <=> r.x1 <= i
      BY <2>1, <3>1
    <3>3. x < X(r.x2) <=> i < r.x2
      <4>1. X(r.x2) <= x <=> r.x2 <= i
        BY <2>1, <3>1
      <4>2. X(r.x2) \in Int
        BY <2>3, <3>1
      <4> QED
        BY <2>4, <3>1, <4>1, <4>2
    <3>4. Y(r.y1) <= y <=> r.y1 <= j
      BY <2>2, <3>1
    <3>5. y < Y(r.y2) <=> j < r.y2
      <4>1. Y(r.y2) <= y <=> r.y2 <= j
        BY <2>2, <3>1
      <4>2. Y(r.y2) \in Int
        BY <2>3, <3>1
      <4> QED
        BY <2>4, <3>1, <4>1, <4>2
    <3> QED
      BY <3>1, <3>2, <3>3, <3>4, <3>5 DEF Has, At, r
  <2>6. PICK u \in Tiled(e) : \A t \in Tiled(e) : Has(e.wins[t], i, j) <=> t = u
    BY DEF Tiles
  <2> QED
    BY <2>5, <2>6
<1> QED
  BY <1>2, <1>3 DEF Tiles

LEMMA RefreshIs ==
    ASSUME NEW e, Inv(e), NEW w \in Sizes, NEW h \in Sizes
    PROVE  LET f == do_refresh(e, w, h)
           IN  Inv(f) /\ (Tiles(e) => Tiles(f))
<1> DEFINE v == [i \in WinsOf(e) |->
                  IF e.wins[i].kind = "minibuf" THEN Place(e.wins[i], 0, h, w, h + 1)
                                                ELSE Scale(e.wins[i], e, w, h)]
           f == [e EXCEPT !.wins = v, !.width = w, !.height = h]
<1>0. e \in Eds /\ e.width \in Nat \ {0} /\ e.height \in Nat \ {0} /\ w \in Nat \ {0} /\ h \in Nat \ {0}
  <2>1. e \in Eds
    BY DEF Inv, Sound
  <2> QED
    BY <2>1, EdIs, SizeAssumption
<1>1. do_refresh(e, w, h) = f
  BY DEF do_refresh, WinsOf
<1>2. \A a \in Int, z \in Nat, d \in Nat \ {0} : (a * z) \div d \in Int
  <2> TAKE a \in Int, z \in Nat, d \in Nat \ {0}
  <2>1. a * z \in Int
    OBVIOUS
  <2> QED
    BY <2>1
<1>3. ASSUME NEW i \in WinsOf(e) PROVE Moved(v[i], e.wins[i])
  <2> DEFINE r == e.wins[i]
  <2>1. r \in WinRec
    BY <1>0, EdIs
  <2>2. r.x1 \in Int /\ r.x2 \in Int /\ r.y1 \in Int /\ r.y2 \in Int
    BY <2>1 DEF WinRec
  <2>3. v[i] = Place(r, 0, h, w, h + 1) \/ v[i] = Scale(r, e, w, h)
    OBVIOUS
  <2> HIDE DEF r, v
  <2>4. Moved(Place(r, 0, h, w, h + 1), r)
    <3>1. 0 \in Int /\ h \in Int /\ w \in Int /\ h + 1 \in Int
      BY <1>0
    <3> QED
      BY <2>1, <3>1, PlaceIs
  <2>5. Moved(Scale(r, e, w, h), r)
    <3>1. /\ (r.x1 * w) \div e.width \in Int /\ (r.y1 * h) \div e.height \in Int
          /\ (r.x2 * w) \div e.width \in Int /\ (r.y2 * h) \div e.height \in Int
      BY <1>0, <1>2, <2>2
    <3> QED
      BY <2>1, <3>1, PlaceIs DEF Scale
  <2> QED
    BY <2>3, <2>4, <2>5 DEF r
<1>4. DOMAIN v = WinsOf(e) /\ v \in [WinsOf(e) -> WinRec]
  <2>1. \A i \in WinsOf(e) : v[i] \in WinRec
    BY <1>3 DEF Moved
  <2> QED
    BY <2>1
<1>9. \A i \in Tiled(e) : v[i] = Scale(e.wins[i], e, w, h)
  BY DEF Tiled
<1> HIDE DEF v
<1>5. v \in Heap(WinRec)
  BY <1>0, <1>4, EdIs, HeapMap DEF WinsOf
<1>6. /\ f \in Eds /\ f.wins = v /\ f.bufs = e.bufs /\ f.active = e.active /\ f.cb = e.cb
      /\ f.saved = e.saved /\ f.popup_saved = e.popup_saved /\ f.completion = e.completion
      /\ f.fault = e.fault /\ f.width = w /\ f.height = h
  BY <1>0, <1>5 DEF Eds
<1> HIDE DEF f
<1>7. SamePointers(e, f) /\ WinsOf(f) = WinsOf(e)
  BY <1>4, <1>6 DEF SamePointers, WinsOf
<1>8. Inv(f)
  BY <1>3, <1>6, <1>7, InvPlaces DEF Moved
<1>10. Tiles(e) => Tiles(f)
  <2>1. Tiled(f) = Tiled(e)
    BY <1>3, <1>6, <1>7 DEF Tiled, Moved
  <2>2. \A i \in Tiled(e) : /\ e.wins[i] \in WinRec
                            /\ SamePlace(f.wins[i], Scale(e.wins[i], e, f.width, f.height))
    <3>1. \A i \in Tiled(e) : i \in WinsOf(e)
      BY DEF Tiled
    <3> QED
      BY <1>0, <1>6, <1>9, <3>1, EdIs DEF SamePlace, At
  <2> QED
    BY <1>0, <1>6, <2>1, <2>2, TilesScale
<1> QED
  BY <1>1, <1>8, <1>10

---------------------------------------------------------------------------
(* Windows and buffers are numbered again.                                 *)

LEMMA RankIs ==
    ASSUME NEW S, Bounded(S)
    PROVE  /\ \A p \in S : Rank(S, p) \in Nat /\ Rank(S, p) <= Cardinality(S)
           /\ \A p, q \in S : Rank(S, p) = Rank(S, q) => p = q
           /\ \A p : p \notin S => Rank(S, p) = p
<1> DEFINE L(p) == {q \in S : q <= p}
<1>0. IsFiniteSet(S) /\ Cardinality(S) \in Nat /\ S \subseteq Nat
  BY BoundedFinite DEF Bounded
<1>1. ASSUME NEW p \in S
      PROVE  /\ Rank(S, p) = Cardinality(L(p)) /\ IsFiniteSet(L(p))
             /\ Cardinality(L(p)) \in Nat /\ Cardinality(L(p)) <= Cardinality(S)
  <2>1. Rank(S, p) = Cardinality(L(p)) /\ L(p) \in SUBSET S
    BY DEF Rank
  <2> HIDE DEF L
  <2>2. IsFiniteSet(L(p)) /\ Cardinality(L(p)) <= Cardinality(S)
    BY <1>0, <2>1, FS_Subset
  <2> QED
    BY <2>1, <2>2, FS_CardinalityType
<1>2. ASSUME NEW p \in S, NEW q \in S, p < q
      PROVE  Rank(S, p) # Rank(S, q)
  <2>0. p \in Nat /\ q \in Nat /\ q <= q /\ ~(q <= p)
    BY <1>0, <1>2
  <2>1. L(p) \in SUBSET L(q) /\ q \in L(q) /\ q \notin L(p)
    <3>1. \A x \in S : x <= p => x <= q
      <4> TAKE x \in S
      <4>1. x \in Nat
        BY <1>0
      <4> QED
        BY <1>2, <2>0, <4>1
    <3> QED
      BY <2>0, <3>1
  <2>2. L(p) # L(q)
    BY <2>1
  <2>3. Rank(S, p) = Cardinality(L(p)) /\ Rank(S, q) = Cardinality(L(q)) /\ IsFiniteSet(L(q))
    BY <1>1
  <2> HIDE DEF L
  <2> QED
    BY <2>1, <2>2, <2>3, FS_Subset
<1>3. \A p, q \in S : Rank(S, p) = Rank(S, q) => p = q
  <2> TAKE p, q \in S
  <2>1. p \in Nat /\ q \in Nat
    BY <1>0
  <2>2. p = q \/ p < q \/ q < p
    BY <2>1
  <2> QED
    BY <1>2, <2>2
<1>4. \A p : p \notin S => Rank(S, p) = p
  BY DEF Rank
<1> QED
  BY <1>1, <1>3, <1>4

(* g has the items of f, at their ranks.                                   *)
Compacts(f, g) ==
    /\ DOMAIN g = Ranks(DOMAIN f)
    /\ \A p \in DOMAIN f : g[Rank(DOMAIN f, p)] = f[p]

LEMMA CompactedIs ==
    ASSUME NEW T, NEW f \in Heap(T)
    PROVE  Compacted(f) \in Heap(T) /\ Compacts(f, Compacted(f))
<1> DEFINE D == DOMAIN f
           g == Compacted(f)
           Source(n) == CHOOSE p \in D : Rank(D, p) = n
<1>0. Bounded(D) /\ \A p \in D : f[p] \in T
  BY HeapAt
<1>1. DOMAIN g = Ranks(D) /\ \A n \in Ranks(D) : g[n] = f[Source(n)]
  BY DEF Compacted
<1>2. \A n \in Ranks(D) : Source(n) \in D /\ Rank(D, Source(n)) = n
  BY DEF Ranks
<1> HIDE DEF Source, g
<1>3. /\ \A p \in D : Rank(D, p) \in Nat /\ Rank(D, p) <= Cardinality(D)
      /\ \A p, q \in D : Rank(D, p) = Rank(D, q) => p = q
  <2> HIDE DEF D
  <2> QED
    BY <1>0, RankIs
<1>4. \A p \in D : Rank(D, p) \in Ranks(D)
  BY DEF Ranks
<1>5. \A p \in D : g[Rank(D, p)] = f[p]
  BY <1>1, <1>2, <1>3, <1>4
<1>6. Bounded(Ranks(D))
  <2>1. Cardinality(D) \in Nat
    BY <1>0, BoundedFinite
  <2>2. \A n \in Ranks(D) : n \in Nat /\ n <= Cardinality(D)
    BY <1>3 DEF Ranks
  <2> QED
    BY <2>1, <2>2 DEF Bounded
<1>7. g \in [Ranks(D) -> T]
  <2>1. g = [n \in Ranks(D) |-> f[Source(n)]]
    BY DEF Compacted, g, Source
  <2>2. \A n \in Ranks(D) : f[Source(n)] \in T
    BY <1>0, <1>2
  <2> QED
    BY <2>1, <2>2
<1>8. g \in Heap(T)
  <2>1. Bounded(DOMAIN g) /\ g \in [DOMAIN g -> T]
    BY <1>1, <1>6, <1>7
  <2> QED
    BY <2>1, HeapIs
<1>9. Compacts(f, g)
  BY <1>1, <1>5 DEF Compacts
<1> QED
  BY <1>8, <1>9 DEF g

(* The windows and buffers of f are those of e, under the names W and B.   *)
Renames(e, f, W, B) ==
    /\ \A w \in WinsOf(e) : /\ W[w] \in WinsOf(f) /\ f.wins[W[w]].b = B[e.wins[w].b]
                            /\ f.wins[W[w]].mode = e.wins[w].mode
                            /\ f.wins[W[w]].kind = e.wins[w].kind
    /\ \A v \in WinsOf(f) : \E w \in WinsOf(e) : v = W[w]
    /\ \A v, w \in WinsOf(e) : W[v] = W[w] => v = w
    /\ \A b \in BufsOf(e) : B[b] \in BufsOf(f) /\ f.bufs[B[b]] = e.bufs[b]
    /\ \A c \in BufsOf(f) : \E b \in BufsOf(e) : c = B[b]
    /\ \A b, c \in BufsOf(e) : B[b] = B[c] => b = c

LEMMA RenamesSound ==
    ASSUME NEW e, Sound(e, None, None), NEW f \in Eds, NEW W, NEW B, Renames(e, f, W, B)
    PROVE  Sound(f, None, None)
<1>0. e \in Eds /\ Live(e) /\ ModesOK(e, None) /\ NamesOK(e, None) /\ Separate(e, None)
  BY DEF Sound
<1>1. \A b \in BufsOf(e) : b # None
  BY <1>0, EdIs
<1>2. Live(f)
  BY <1>0 DEF Live, Renames
<1>3. ASSUME NEW v \in WinsOf(f)
      PROVE  \E w \in WinsOf(e) : /\ v = W[w] /\ e.wins[w].b \in BufsOf(e)
                                  /\ f.wins[v].b = B[e.wins[w].b] /\ f.wins[v].mode = e.wins[w].mode
                                  /\ f.wins[v].kind = e.wins[w].kind
                                  /\ f.bufs[f.wins[v].b] = e.bufs[e.wins[w].b]
  <2>1. PICK w \in WinsOf(e) : v = W[w]
    BY DEF Renames
  <2>2. e.wins[w].b \in BufsOf(e)
    BY <1>0 DEF Live
  <2> QED
    BY <2>1, <2>2 DEF Renames
<1>4. ASSUME NEW b \in BufsOf(e), Shows(f, B[b]) = {}
      PROVE  Shows(e, b) = {}
  <2> SUFFICES ASSUME NEW w \in WinsOf(e), e.wins[w].b = b PROVE FALSE
    BY DEF Shows
  <2>1. W[w] \in Shows(f, B[b])
    BY DEF Renames, Shows
  <2> QED
    BY <1>4, <2>1
<1>5. ModesOK(f, None)
  <2>1. ASSUME NEW v \in WinsOf(f)
        PROVE  f.wins[v].mode = OwnMode(f.bufs[f.wins[v].b])
    BY <1>0, <1>1, <1>3 DEF ModesOK
  <2>2. ASSUME NEW c \in BufsOf(f)
        PROVE  /\ f.bufs[c].saved # None => f.bufs[c].saved = OwnMode(f.bufs[c])
               /\ Shows(f, c) = {} /\ f.bufs[c].saved = None => OwnMode(f.bufs[c]) = "text"
    <3>1. PICK b \in BufsOf(e) : c = B[b]
      BY DEF Renames
    <3>2. f.bufs[c] = e.bufs[b] /\ b # None
      BY <1>1, <3>1 DEF Renames
    <3>3. Shows(f, c) = {} => Shows(e, b) = {}
      BY <1>4, <3>1
    <3> QED
      BY <1>0, <3>2, <3>3 DEF ModesOK
  <2> QED
    BY <2>1, <2>2 DEF ModesOK
<1>6. NamesOK(f, None)
  <2> SUFFICES ASSUME NEW i \in BufsOf(f), NEW j \in BufsOf(f), i # j,
                      ~f.bufs[i].system, ~f.bufs[j].system
               PROVE  /\ f.bufs[i].name # f.bufs[j].name
                      /\ \/ f.bufs[i].file = NoFile \/ f.bufs[i].file # f.bufs[j].file
                         \/ f.bufs[i].written \/ f.bufs[j].written
    BY DEF NamesOK
  <2>1. PICK b \in BufsOf(e), c \in BufsOf(e) : i = B[b] /\ j = B[c]
    BY DEF Renames
  <2>2. f.bufs[i] = e.bufs[b] /\ f.bufs[j] = e.bufs[c] /\ b # c
    BY <2>1 DEF Renames
  <2> QED
    BY <1>0, <1>1, <2>2 DEF NamesOK
<1>7. Separate(f, None)
  <2>1. ASSUME NEW v \in WinsOf(f)
        PROVE  f.wins[v].kind = "tiled" <=> ~Transient(f.bufs[f.wins[v].b])
    BY <1>0, <1>3 DEF Separate
  <2>2. ASSUME NEW u \in WinsOf(f), NEW v \in WinsOf(f), f.wins[u].kind # "tiled",
               f.wins[u].b = f.wins[v].b
        PROVE  u = v
    <3>1. PICK t \in WinsOf(e) : /\ u = W[t] /\ e.wins[t].b \in BufsOf(e)
                                 /\ f.wins[u].b = B[e.wins[t].b] /\ f.wins[u].kind = e.wins[t].kind
      BY <1>3
    <3>2. PICK w \in WinsOf(e) : v = W[w] /\ e.wins[w].b \in BufsOf(e) /\ f.wins[v].b = B[e.wins[w].b]
      BY <1>3
    <3>3. e.wins[t].b = e.wins[w].b
      BY <2>2, <3>1, <3>2 DEF Renames
    <3>4. t = w
      BY <1>0, <2>2, <3>1, <3>3 DEF Separate
    <3> QED
      BY <3>1, <3>2, <3>4
  <2>3. ASSUME NEW c \in BufsOf(f), Transient(f.bufs[c])
        PROVE  \E v \in WinsOf(f) : f.wins[v].b = c
    <3>1. PICK b \in BufsOf(e) : c = B[b]
      BY DEF Renames
    <3>2. Transient(e.bufs[b]) /\ b # None
      BY <1>1, <2>3, <3>1 DEF Renames
    <3>3. PICK w \in WinsOf(e) : e.wins[w].b = b
      BY <1>0, <3>2 DEF Separate
    <3> QED
      BY <3>1, <3>3 DEF Renames
  <2>4. ASSUME NEW c \in BufsOf(f)
        PROVE  OwnOK(f.bufs[c])
    <3>1. PICK b \in BufsOf(e) : c = B[b] /\ f.bufs[c] = e.bufs[b]
      BY DEF Renames
    <3> QED
      BY <1>0, <3>1 DEF Separate
  <2> QED
    BY <2>1, <2>2, <2>3, <2>4 DEF Separate
<1> QED
  BY <1>2, <1>5, <1>6, <1>7 DEF Sound

(* Every pointer is null or points to what is there.                       *)
LEMMA PointersIn ==
    ASSUME NEW e, Inv(e)
    PROVE  /\ e.active \in WinsOf(e) /\ e.saved \in WinsOf(e) \cup {None}
           /\ e.popup_saved \in WinsOf(e) \cup {None} /\ e.completion \in WinsOf(e) \cup {None}
           /\ e.cb.win \in WinsOf(e) \cup {None} /\ e.cb.buf \in BufsOf(e) \cup {None}
<1>1. Tiled(e) \subseteq WinsOf(e) /\ e.active \in WinsOf(e)
  BY DEF Tiled, Inv
<1>2. CASE Calm(e)
  BY <1>1, <1>2, NoCbIs DEF Calm
<1>3. CASE Reading(e)
  BY <1>1, <1>3, NoCbIs DEF Reading
<1>4. CASE Asking(e)
  BY <1>1, <1>4 DEF Asking, Waits
<1> QED
  BY <1>2, <1>3, <1>4 DEF Inv

(* The pointer q of f is p, under the name W or B.                         *)
Follows(p, q, S, W) == (p \in S /\ q = W[p]) \/ (p = None /\ q = None)

LEMMA RenamesInv ==
    ASSUME NEW e, Inv(e), NEW f \in Eds, NEW W, NEW B, Renames(e, f, W, B),
           f.active = W[e.active], Follows(e.saved, f.saved, WinsOf(e), W),
           Follows(e.popup_saved, f.popup_saved, WinsOf(e), W),
           Follows(e.completion, f.completion, WinsOf(e), W),
           Follows(e.cb.win, f.cb.win, WinsOf(e), W), Follows(e.cb.buf, f.cb.buf, BufsOf(e), B),
           f.cb.cmd = e.cb.cmd, f.fault = e.fault
    PROVE  Inv(f)
<1>0. Sound(e, None, None) /\ e.fault = "none" /\ e.active \in WinsOf(e) /\ e \in Eds
  BY DEF Inv, Sound
<1>1. Sound(f, None, None)
  BY <1>0, RenamesSound
<1>2. None \notin WinsOf(e) /\ None \notin BufsOf(e)
  BY <1>0, EdIs
<1>3. f.active \in WinsOf(f) /\ f.wins[f.active].kind = e.wins[e.active].kind
      /\ f.wins[f.active].mode = e.wins[e.active].mode
  BY <1>0 DEF Renames
<1>4. \A w \in Tiled(e) : w \in WinsOf(e) /\ W[w] \in Tiled(f)
  BY DEF Tiled, Renames
<1>5. e.cb = NoCb => f.cb = NoCb
  <2> HAVE e.cb = NoCb
  <2>1. f.cb \in CbRec
    BY EdIs
  <2>2. f.cb.cmd = NoCb.cmd /\ f.cb.win = NoCb.win /\ f.cb.buf = NoCb.buf
    BY <1>2, NoCbIs DEF Follows
  <2> QED
    BY <2>1, <2>2, NoCbIs, CbEqual
<1>6. CASE Calm(e)
  <2>1. f.saved = None /\ f.popup_saved = None /\ f.completion = None
    BY <1>2, <1>6 DEF Calm, Follows
  <2>2. AllTiled(f, {})
    BY <1>6 DEF AllTiled, Calm, Renames
  <2>3. Calm(f)
    BY <1>5, <1>6, <2>1, <2>2 DEF Calm
  <2> QED
    BY <1>0, <1>1, <1>3, <2>3 DEF Inv
<1>7. CASE Reading(e)
  <2>1. f.saved = None /\ f.completion = None
    BY <1>2, <1>7 DEF Reading, Follows
  <2>2. f.popup_saved \in Tiled(f)
    BY <1>2, <1>4, <1>7 DEF Reading, Follows
  <2>3. AllTiled(f, {f.active})
    BY <1>7 DEF AllTiled, Reading, Renames
  <2>4. Reading(f)
    BY <1>3, <1>5, <1>7, <2>1, <2>2, <2>3 DEF Reading
  <2> QED
    BY <1>0, <1>1, <1>3, <2>4 DEF Inv
<1>8. CASE Asking(e)
  <2>1. f.popup_saved = None
    BY <1>2, <1>8 DEF Asking, Follows
  <2>2. f.saved \in Tiled(f)
    BY <1>2, <1>4, <1>8 DEF Asking, Follows
  <2>3. AllTiled(f, {f.active, f.completion})
    <3> SUFFICES ASSUME NEW v \in WinsOf(f), v # f.active, v # f.completion
                 PROVE  f.wins[v].kind = "tiled"
      BY DEF AllTiled
    <3>1. PICK w \in WinsOf(e) : v = W[w] /\ f.wins[v].kind = e.wins[w].kind
      BY DEF Renames
    <3>2. w # e.active /\ w # e.completion
      BY <1>2, <3>1 DEF Follows
    <3> QED
      BY <1>8, <3>1, <3>2 DEF Asking, AllTiled
  <2>4. Waits(f, f.cb)
    <3>1. CASE e.cb.cmd = "argument" /\ e.cb.win \in Tiled(e) /\ e.cb.buf = None
      <4>1. f.cb.win \in Tiled(f) /\ f.cb.buf = None
        BY <1>2, <1>4, <3>1 DEF Follows
      <4> QED
        BY <3>1, <4>1 DEF Waits
    <3>2. CASE /\ e.cb.cmd = "kill_buffer_confirm" /\ e.cb.win = None
               /\ e.cb.buf \in BufsOf(e) /\ ~Transient(e.bufs[e.cb.buf])
      <4>1. f.cb.win = None /\ f.cb.buf = B[e.cb.buf]
        BY <1>2, <3>2 DEF Follows
      <4>2. f.cb.buf \in BufsOf(f) /\ f.bufs[f.cb.buf] = e.bufs[e.cb.buf]
        BY <3>2, <4>1 DEF Renames
      <4> QED
        BY <3>2, <4>1, <4>2 DEF Waits
    <3> QED
      BY <1>8, <3>1, <3>2 DEF Asking, Waits
  <2>5. \/ f.completion = None
        \/ /\ f.completion \in WinsOf(f) \ {f.active}
           /\ f.wins[f.completion].kind = "popup" /\ f.wins[f.completion].mode = "list"
    <3>1. CASE e.completion = None
      BY <1>2, <3>1 DEF Follows
    <3>2. CASE /\ e.completion \in WinsOf(e) \ {e.active}
               /\ e.wins[e.completion].kind = "popup" /\ e.wins[e.completion].mode = "list"
      <4>1. f.completion = W[e.completion]
        BY <1>2, <3>2 DEF Follows
      <4> QED
        BY <1>0, <3>2, <4>1 DEF Renames
    <3> QED
      BY <1>8, <3>1, <3>2 DEF Asking
  <2>6. Asking(f)
    BY <1>3, <1>8, <2>1, <2>2, <2>3, <2>4, <2>5 DEF Asking
  <2> QED
    BY <1>0, <1>1, <1>3, <2>6 DEF Inv
<1> QED
  BY <1>6, <1>7, <1>8 DEF Inv

LEMMA RenamesTiles ==
    ASSUME NEW e, NEW f, NEW W, NEW B, Renames(e, f, W, B), SameSize(e, f),
           \A w \in WinsOf(e) : SamePlace(f.wins[W[w]], e.wins[w])
    PROVE  Tiles(e) => Tiles(f)
<1> SUFFICES ASSUME Tiles(e) PROVE Tiles(f)
  OBVIOUS
<1>1. \A w \in Tiled(e) : W[w] \in Tiled(f)
  BY DEF Renames, Tiled
<1>2. \A v \in Tiled(f) : \E w \in Tiled(e) : v = W[w]
  BY DEF Renames, Tiled
<1>3. \A v, w \in Tiled(e) : W[v] = W[w] => v = w
  BY DEF Renames, Tiled
<1>4. \A w \in Tiled(e) : SamePlace(f.wins[W[w]], e.wins[w])
  BY DEF Tiled
<1>5. ASSUME NEW v \in Tiled(f) PROVE Inside(f, f.wins[v])
  <2>1. PICK w \in Tiled(e) : v = W[w]
    BY <1>2
  <2>2. Inside(e, e.wins[w]) /\ SamePlace(f.wins[v], e.wins[w])
    BY <1>4, <2>1 DEF Tiles
  <2> QED
    BY <2>2 DEF Inside, SamePlace, At, SameSize
<1>6. ASSUME NEW x \in 0..(f.width - 1), NEW y \in 0..(f.height - 1)
      PROVE  \E u \in Tiled(f) : \A v \in Tiled(f) : Has(f.wins[v], x, y) <=> v = u
  <2>1. x \in 0..(e.width - 1) /\ y \in 0..(e.height - 1)
    BY DEF SameSize
  <2>2. PICK u \in Tiled(e) : \A t \in Tiled(e) : Has(e.wins[t], x, y) <=> t = u
    BY <2>1 DEF Tiles
  <2>3. \A t \in Tiled(e) : Has(f.wins[W[t]], x, y) <=> Has(e.wins[t], x, y)
    BY <1>4 DEF Has, SamePlace, At
  <2>4. \A v \in Tiled(f) : Has(f.wins[v], x, y) <=> v = W[u]
    BY <1>2, <1>3, <2>2, <2>3
  <2> QED
    BY <1>1, <2>4
<1> QED
  BY <1>5, <1>6 DEF Tiles

LEMMA RenumberedIs ==
    ASSUME NEW e, Inv(e)
    PROVE  Inv(Renumbered(e)) /\ (Tiles(e) => Tiles(Renumbered(e)))
<1> DEFINE S == WinsOf(e)
           D == BufsOf(e)
           W == [p \in S |-> Rank(S, p)]
           B == [p \in D |-> Rank(D, p)]
           h == [w \in S |-> [e.wins[w] EXCEPT !.b = Rank(D, e.wins[w].b)]]
           c == [e.cb EXCEPT !.win = Rank(S, e.cb.win), !.buf = Rank(D, e.cb.buf)]
           v == Compacted(h)
           u == Compacted(e.bufs)
           f == [e EXCEPT !.bufs = u, !.wins = v, !.active = Rank(S, e.active),
                          !.saved = Rank(S, e.saved), !.popup_saved = Rank(S, e.popup_saved),
                          !.completion = Rank(S, e.completion), !.cb = c]
<1>0. e \in Eds /\ Live(e) /\ Bounded(S) /\ Bounded(D) /\ None \notin S /\ None \notin D
  <2>1. e \in Eds /\ Live(e)
    BY DEF Inv, Sound
  <2> QED
    BY <2>1, EdIs
<1>1. Renumbered(e) = f
  BY Zenon DEF Renumbered, WinsOf
<1>2. /\ e.active \in S /\ e.saved \in S \cup {None} /\ e.popup_saved \in S \cup {None}
      /\ e.completion \in S \cup {None} /\ e.cb.win \in S \cup {None} /\ e.cb.buf \in D \cup {None}
  BY PointersIn
<1> HIDE DEF S, D
<1>3. /\ \A p \in S : Rank(S, p) \in Nat
      /\ \A p, q \in S : Rank(S, p) = Rank(S, q) => p = q
      /\ Rank(S, None) = None
  BY <1>0, RankIs
<1>4. /\ \A p \in D : Rank(D, p) \in Nat
      /\ \A p, q \in D : Rank(D, p) = Rank(D, q) => p = q
      /\ Rank(D, None) = None
  BY <1>0, RankIs
<1>5. \A p \in S \cup {None} : Rank(S, p) \in Ptr /\ Follows(p, Rank(S, p), S, W)
  BY <1>3 DEF Ptr, Follows
<1>6. \A p \in D \cup {None} : Rank(D, p) \in Ptr /\ Follows(p, Rank(D, p), D, B)
  BY <1>4 DEF Ptr, Follows
<1>7. /\ DOMAIN h = S /\ h \in Heap(WinRec)
      /\ \A w \in S : /\ h[w].b = Rank(D, e.wins[w].b) /\ h[w].mode = e.wins[w].mode
                      /\ h[w].kind = e.wins[w].kind /\ SamePlace(h[w], e.wins[w])
  <2>1. ASSUME NEW w \in S
        PROVE  /\ h[w] \in WinRec /\ h[w].b = Rank(D, e.wins[w].b) /\ h[w].mode = e.wins[w].mode
               /\ h[w].kind = e.wins[w].kind /\ SamePlace(h[w], e.wins[w])
    <3> DEFINE r == e.wins[w]
               k == Rank(D, r.b)
    <3>1. r \in WinRec /\ r.b \in D
      BY <1>0, EdIs DEF S, D, Live
    <3>2. k \in Ptr
      BY <1>6, <3>1
    <3>3. h[w] = [r EXCEPT !.b = k]
      OBVIOUS
    <3> HIDE DEF r, k, h
    <3>4. /\ h[w] \in WinRec /\ h[w].b = k /\ h[w].mode = r.mode /\ h[w].kind = r.kind
          /\ SamePlace(h[w], r)
      BY <3>1, <3>2, <3>3 DEF WinRec, SamePlace, At
    <3> QED
      BY <3>4 DEF r, k
  <2>2. h \in [S -> WinRec]
    BY <2>1
  <2>3. h \in Heap(WinRec)
    <3> HIDE DEF h
    <3> QED
      BY <1>0, <2>2, EdIs, HeapMap DEF S, WinsOf
  <2> QED
    BY <2>1, <2>3
<1> HIDE DEF h
<1>8. v \in Heap(WinRec) /\ Compacts(h, v)
  BY <1>7, CompactedIs
<1>9. u \in Heap(BufRec) /\ Compacts(e.bufs, u)
  <2> DEFINE q == e.bufs
  <2>1. q \in Heap(BufRec)
    BY <1>0, EdIs
  <2> HIDE DEF q
  <2>2. Compacted(q) \in Heap(BufRec) /\ Compacts(q, Compacted(q))
    BY <2>1, CompactedIs
  <2> QED
    BY <2>2 DEF q
<1>10. /\ c \in CbRec /\ c.cmd = e.cb.cmd /\ c.win = Rank(S, e.cb.win) /\ c.buf = Rank(D, e.cb.buf)
  <2> DEFINE x == Rank(S, e.cb.win)
             y == Rank(D, e.cb.buf)
  <2>1. x \in Ptr /\ y \in Ptr /\ e.cb \in CbRec
    BY <1>0, <1>2, <1>5, <1>6, EdIs
  <2>2. c = [e.cb EXCEPT !.win = x, !.buf = y]
    OBVIOUS
  <2> HIDE DEF x, y, c
  <2>3. c \in CbRec /\ c.cmd = e.cb.cmd /\ c.win = x /\ c.buf = y
    BY <2>1, <2>2 DEF CbRec
  <2> QED
    BY <2>3 DEF x, y
<1>11. /\ Rank(S, e.active) \in Ptr /\ Rank(S, e.saved) \in Ptr /\ Rank(S, e.popup_saved) \in Ptr
       /\ Rank(S, e.completion) \in Ptr
  BY <1>2, <1>5
<1> HIDE DEF u, v, c
<1>12. /\ f \in Eds /\ f.bufs = u /\ f.wins = v /\ f.active = Rank(S, e.active)
       /\ f.saved = Rank(S, e.saved) /\ f.popup_saved = Rank(S, e.popup_saved)
       /\ f.completion = Rank(S, e.completion) /\ f.cb = c /\ f.fault = e.fault
       /\ SameSize(e, f)
  BY <1>0, <1>8, <1>9, <1>10, <1>11 DEF Eds, SameSize
<1> HIDE DEF f
<1>13. WinsOf(f) = Ranks(S) /\ BufsOf(f) = Ranks(D)
  BY <1>7, <1>8, <1>9, <1>12 DEF WinsOf, BufsOf, Compacts, D
<1>14. \A w \in S : f.wins[W[w]] = h[w] /\ W[w] = Rank(S, w) /\ W[w] \in Ranks(S)
  BY <1>7, <1>8, <1>12 DEF Compacts, Ranks
<1>15. \A b \in D : f.bufs[B[b]] = e.bufs[b] /\ B[b] = Rank(D, b) /\ B[b] \in Ranks(D)
  BY <1>9, <1>12 DEF Compacts, Ranks, D, BufsOf
<1>16. \A w \in S : e.wins[w].b \in D
  BY <1>0 DEF S, D, Live
<1>17. /\ \A x \in Ranks(S) : \E w \in S : x = W[w]
       /\ \A x \in Ranks(D) : \E b \in D : x = B[b]
  BY <1>14, <1>15 DEF Ranks
<1> HIDE DEF W, B
<1>18. Renames(e, f, W, B)
  <2>1. /\ \A w \in S : /\ W[w] \in WinsOf(f) /\ f.wins[W[w]].b = B[e.wins[w].b]
                        /\ f.wins[W[w]].mode = e.wins[w].mode
                        /\ f.wins[W[w]].kind = e.wins[w].kind
    BY <1>7, <1>13, <1>14, <1>15, <1>16
  <2>2. \A x, y \in S : W[x] = W[y] => x = y
    BY <1>3, <1>14
  <2>3. \A x, y \in D : B[x] = B[y] => x = y
    BY <1>4, <1>15
  <2> QED
    BY <1>13, <1>15, <1>17, <2>1, <2>2, <2>3 DEF Renames, S, D
<1>19. f.active = W[e.active]
  BY <1>2, <1>12, <1>14
<1>20. /\ Follows(e.saved, f.saved, S, W) /\ Follows(e.popup_saved, f.popup_saved, S, W)
       /\ Follows(e.completion, f.completion, S, W) /\ Follows(e.cb.win, f.cb.win, S, W)
       /\ Follows(e.cb.buf, f.cb.buf, D, B)
  BY <1>2, <1>5, <1>6, <1>10, <1>12
<1>21. Inv(f)
  BY <1>10, <1>12, <1>18, <1>19, <1>20, RenamesInv DEF S, D
<1>22. Tiles(e) => Tiles(f)
  <2>1. \A w \in S : SamePlace(f.wins[W[w]], e.wins[w])
    BY <1>7, <1>14
  <2> QED
    BY <1>12, <1>18, <2>1, RenamesTiles DEF S
<1> QED
  BY <1>1, <1>21, <1>22

---------------------------------------------------------------------------
(* What is open, told from the active window.                              *)

LEMMA TiledModes ==
    ASSUME NEW e, Inv(e), NEW w \in Tiled(e)
    PROVE  e.wins[w].mode # "less" /\ e.wins[w].mode # "minibuffer"
<1> DEFINE b == e.wins[w].b
<1>0. /\ e \in Eds /\ Live(e) /\ ModesOK(e, None) /\ Separate(e, None)
      /\ w \in WinsOf(e) /\ e.wins[w].kind = "tiled"
  BY DEF Inv, Sound, Tiled
<1>1. b \in BufsOf(e) /\ ~Transient(e.bufs[b]) /\ OwnOK(e.bufs[b])
  BY <1>0 DEF Live, Separate
<1>2. b # None
  BY <1>0, <1>1, EdIs
<1>3. e.wins[w].mode = OwnMode(e.bufs[b])
  BY <1>0, <1>1, <1>2 DEF ModesOK
<1> QED
  BY <1>1, <1>3 DEF OwnOK, OwnMode

LEMMA PhaseIs ==
    ASSUME NEW e, Inv(e)
    PROVE  LET a == e.wins[e.active]
           IN  /\ a.kind = "tiled" \/ a.mode = "bufed" => Calm(e)
               /\ a.mode = "less" => Reading(e)
               /\ a.mode = "minibuffer" => Asking(e)
<1>1. e.active \in WinsOf(e)
  BY DEF Inv
<1>2. CASE Calm(e)
  <2>1. e.active \in Tiled(e)
    BY <1>1, <1>2 DEF Calm, AllTiled, Tiled
  <2> QED
    BY <1>2, <2>1, TiledModes
<1>3. CASE Reading(e)
  BY <1>3 DEF Reading
<1>4. CASE Asking(e)
  BY <1>4 DEF Asking
<1> QED
  BY <1>2, <1>3, <1>4 DEF Inv

---------------------------------------------------------------------------
(* The invariant.                                                          *)

Good(e) == Inv(e) /\ Tiles(e)

LEMMA InitInv ==
    Init => Good(ed)
<1> SUFFICES ASSUME Init PROVE Good(ed)
  OBVIOUS
<1> DEFINE r == NewBuf(Scratch, FALSE)
           B == [b \in {1} |-> r]
           V(k) == [n \in {1} |-> NewWin("tiled", 0, 0, k, k)]
           E(k) == [bufs |-> B, wins |-> V(k),
                    active |-> 1, cb |-> NoCb, saved |-> None, popup_saved |-> None,
                    completion |-> None, width |-> k, height |-> k, fault |-> "none"]
<1>1. PICK k \in Sizes : ed = SwitchTo(E(k), {1}, 1)
  BY DEF Init, switch_to_buffer
<1> DEFINE e == E(k)
           t == NewWin("tiled", 0, 0, k, k)
           m == ModeFor(save_mode(e, {1}), {1}, 1)
<1>2. k \in Nat \ {0} /\ k \in Int
  BY SizeAssumption
<1>3. /\ r \in BufRec /\ r.saved = None /\ r.file = NoFile /\ r.system = FALSE
      /\ OwnMode(r) = "text" /\ ~Transient(r) /\ OwnOK(r)
  BY NamesAre, NewBufIs, NewBufFields
<1>4. t \in WinRec /\ t.b = None /\ t.kind = "tiled" /\ At(t, 0, 0, k, k)
  <2>1. "tiled" \in Kinds /\ 0 \in Int
    BY DEF Kinds
  <2> QED
    BY <1>2, <2>1, NewWinIs
<1> HIDE DEF r, t
<1>5. Bounded({1})
  <2>1. {1} \subseteq Nat /\ \A s \in {1} : s <= 1
    OBVIOUS
  <2> QED
    BY <2>1 DEF Bounded
<1>6. B \in Heap(BufRec) /\ V(k) \in Heap(WinRec)
  <2>1. DOMAIN B = {1} /\ B \in [{1} -> BufRec]
    BY <1>3
  <2>2. DOMAIN V(k) = {1} /\ V(k) \in [{1} -> WinRec]
    BY <1>4 DEF t
  <2> HIDE DEF B, V
  <2> QED
    BY <1>5, <2>1, <2>2, HeapIs
<1>7. /\ e.bufs = B /\ e.wins = V(k) /\ e.active = 1 /\ e.cb = NoCb /\ e.saved = None
      /\ e.popup_saved = None /\ e.completion = None /\ e.fault = "none"
      /\ e.width = k /\ e.height = k
  OBVIOUS
<1>8. e \in Eds
  <2> HIDE DEF B, V
  <2>1. 1 \in Ptr /\ None \in Ptr /\ NoCb \in CbRec
    BY NoCbIs DEF Ptr
  <2> QED
    BY <1>2, <1>6, <2>1 DEF Eds
<1>9. WinsOf(e) = {1} /\ BufsOf(e) = {1} /\ e.bufs[1] = r /\ e.wins[1] = t
  BY DEF WinsOf, BufsOf, t
<1>10. ed = SwitchTo(e, {1}, 1)
  BY <1>1
<1> HIDE DEF e, B, V
<1>11. Switched(e, ed, {1}, 1, m)
  BY <1>8, <1>9, <1>10, SwitchIs
<1>12. ModesOK(ed, None)
  <2>1. None # 1
    BY NullAssumption
  <2>2. ModesOK(e, None)
    BY <1>3, <1>4, <1>9, <2>1 DEF ModesOK
  <2> QED
    BY <1>8, <1>9, <1>10, <2>2, SwitchModes
<1> HIDE DEF m
<1>13. /\ ed \in Eds /\ SameRest(e, ed) /\ WinsOf(ed) = {1} /\ BufsOf(ed) = {1}
       /\ ed.wins[1].b = 1 /\ ed.wins[1].kind = "tiled" /\ SameBuf(ed.bufs[1], r)
  BY <1>4, <1>9, <1>11 DEF Switched, IsIn, Keeps
<1>14. Live(ed) /\ NamesOK(ed, None)
  BY <1>13 DEF Live, NamesOK
<1>15. ~Transient(ed.bufs[1]) /\ OwnOK(ed.bufs[1])
  BY <1>3, <1>13, SameTransient
<1>16. Separate(ed, None)
  BY <1>13, <1>15 DEF Separate
<1>17. Sound(ed, None, None)
  BY <1>12, <1>13, <1>14, <1>16 DEF Sound
<1>18. Calm(ed) /\ ed.active \in WinsOf(ed) /\ ed.fault = "none"
  BY <1>7, <1>13 DEF Calm, AllTiled, SameRest
<1>19. Tiles(ed)
  <2>1. At(ed.wins[1], 0, 0, k, k) /\ Tiled(ed) = {1} /\ ed.width = k /\ ed.height = k
    BY <1>4, <1>7, <1>9, <1>11, <1>13 DEF Switched, IsIn, SamePlace, At, Tiled, SameRest
  <2>2. Inside(ed, ed.wins[1])
    BY <1>2, <2>1 DEF Inside, At
  <2>3. \A x \in 0..(ed.width - 1), y \in 0..(ed.height - 1) : Has(ed.wins[1], x, y)
    BY <1>2, <2>1 DEF Has, At
  <2> QED
    BY <2>1, <2>2, <2>3 DEF Tiles
<1> QED
  BY <1>17, <1>18, <1>19 DEF Inv, Good

LEMMA BecomesInv ==
    ASSUME NEW e, Good(e), Becomes(e)
    PROVE  Good(ed')
<1>1. ed' = Renumbered(e)
  BY DEF Becomes
<1> QED
  BY <1>1, RenumberedIs DEF Good

(* The question is answered: what it was asked for is there.               *)
LEMMA ResumeIs ==
    ASSUME Inv(ed), Asking(ed), NEW e, NEW result, Resume(ed.cb, e, result)
    PROVE  Becomes(result)
<1>1. ed \in Eds
  BY DEF Inv, Sound
<1>2. ed.cb.win # Gone /\ ed.cb.buf # Gone
  BY <1>1, PointersIn, EdIs, NullAssumption
<1> QED
  BY <1>2 DEF Resume

LEMMA NextInv ==
    ASSUME Slips = {}, Inv(ed), Tiles(ed), Next
    PROVE  Good(ed')
<1> DEFINE w == ed.active
           e == do_minibuffer_exit(ed, ed.active)
<1>0. w \in WinsOf(ed) /\ ed \in Eds /\ Active = ed.wins[w]
  BY DEF Inv, Sound, Active
<1>1. Global => Calm(ed)
  BY <1>0, PhaseIs DEF Global
<1>2. InMinibuffer => Asking(ed)
  BY <1>0, PhaseIs DEF InMinibuffer
<1>3. Asking(ed) => Good(e) /\ Calm(e) /\ KeepsTiled(ed, e)
  BY MinibufferExitIs DEF Good
<1> HIDE DEF e
<1>4. CASE OtherWindow
  <2>1. Good(do_other_window(ed, w))
    BY <1>0, <1>1, <1>4, OtherWindowIs DEF OtherWindow, Good
  <2> QED
    BY <1>4, <2>1, BecomesInv DEF OtherWindow
<1>5. CASE DeleteOtherWindows
  <2>1. Good(do_delete_other_windows(ed, w))
    BY <1>0, <1>1, <1>5, DeleteOthersIs DEF DeleteOtherWindows, Good
  <2> QED
    BY <1>5, <2>1, BecomesInv DEF DeleteOtherWindows
<1>6. CASE ListBuffers
  <2>1. Calm(ed) /\ ed.active \notin Under(ed, ed.width \div 4) /\ Becomes(do_list_buffers(ed, ed.active))
    BY <1>1, <1>6 DEF ListBuffers
  <2>2. Good(do_list_buffers(ed, ed.active))
    BY <2>1, ListBuffersIs DEF Good
  <2> QED
    BY <2>1, <2>2, BecomesInv
<1>7. ASSUME NEW n \in 1..2, DeleteWindow(n) PROVE Good(ed')
  <2>1. ~(n > 1) /\ Neighbours(ed, w) # {} /\ Calm(ed)
    BY <1>1, <1>7 DEF DeleteWindow
  <2>2. Becomes(do_delete_window(ed, w, FALSE))
    BY <1>7, <2>1 DEF DeleteWindow
  <2>3. Good(do_delete_window(ed, w, FALSE))
    BY <1>0, <2>1, DeleteWindowIs DEF Good
  <2> QED
    BY <2>2, <2>3, BecomesInv
<1>8. ASSUME NEW horiz \in BOOLEAN, SplitWindow(horiz) PROVE Good(ed')
  <2>1. Good(do_split_window(ed, w, horiz))
    BY <1>0, <1>1, <1>8, SplitWindowIs DEF SplitWindow, Good
  <2> QED
    BY <1>8, <2>1, BecomesInv DEF SplitWindow
<1>9. ASSUME NEW item, BufedSelect(item) PROVE Good(ed')
  <2>1. /\ Calm(ed) /\ Neighbours(ed, w) # {} /\ ed.wins[w].x1 < ed.wins[w].x2
        /\ Becomes(bufed_select(ed, w, item))
    BY <1>0, <1>9, PhaseIs DEF BufedSelect
  <2>2. Good(bufed_select(ed, w, item))
    BY <1>0, <2>1, BufedSelectIs DEF Good
  <2> QED
    BY <2>1, <2>2, BecomesInv
<1>10. ASSUME NEW item, BufedKill(item) PROVE Good(ed')
  <2>1. Calm(ed) /\ Becomes(bufed_kill_buffer(ed, w, item))
    BY <1>0, <1>10, PhaseIs DEF BufedKill
  <2>2. Good(bufed_kill_buffer(ed, w, item))
    BY <1>0, <2>1, BufedKillIs DEF Good
  <2> QED
    BY <2>1, <2>2, BecomesInv
<1>11. ASSUME NEW describe \in BOOLEAN, Help(describe) PROVE Good(ed')
  <2>1. describe = FALSE /\ Calm(ed) /\ Becomes(do_help(ed, FALSE))
    BY <1>1, <1>11 DEF Help
  <2>2. Good(do_help(ed, FALSE))
    BY <2>1, HelpIs DEF Good
  <2> QED
    BY <2>1, <2>2, BecomesInv
<1>12. CASE LessQuit
  <2>1. Reading(ed) /\ Becomes(do_less_quit(ed, ed.active))
    BY <1>0, <1>12, PhaseIs DEF LessQuit
  <2>2. Good(do_less_quit(ed, ed.active))
    BY <2>1, LessQuitIs DEF Good
  <2> QED
    BY <2>1, <2>2, BecomesInv
<1>13. CASE Ask
  <2>1. Calm(ed)
    BY <1>1, <1>13 DEF Ask
  <2>2. Good(minibuffer_edit(ed, [cmd |-> "argument", win |-> ed.active, buf |-> None]))
    BY <2>1, AskIs DEF Good
  <2> QED
    BY <1>13, <2>2, BecomesInv DEF Ask
<1>14. CASE Completion
  <2>1. Asking(ed) /\ Becomes(do_completion(ed, ed.active))
    BY <1>2, <1>14 DEF Completion
  <2>2. Good(do_completion(ed, ed.active))
    BY <2>1, CompletionIs DEF Good
  <2> QED
    BY <2>1, <2>2, BecomesInv
<1>15. CASE Abort
  <2>1. Good(e) /\ Becomes(e)
    BY <1>2, <1>3, <1>15 DEF Abort, e
  <2> QED
    BY <2>1, BecomesInv
<1>16. CASE AnswerYes
  <2>1. Asking(ed) /\ ed.cb.cmd = "kill_buffer_confirm"
        /\ Resume(ed.cb, e, kill_buffer_noconfirm(e, ed.cb.buf))
    BY <1>2, <1>16 DEF AnswerYes, e
  <2>2. ed.cb.buf \in BufsOf(e) /\ Good(e) /\ Calm(e)
    BY <1>3, <2>1 DEF Asking, Waits, KeepsTiled
  <2>3. Good(kill_buffer_noconfirm(e, ed.cb.buf))
    BY <2>2, KillIs DEF Good
  <2>4. Becomes(kill_buffer_noconfirm(e, ed.cb.buf))
    BY <2>1, ResumeIs
  <2> QED
    BY <2>3, <2>4, BecomesInv
<1>17. ASSUME InMinibuffer, ed.cb.cmd = "argument"
       PROVE  ed.cb.win \in WinsOf(e) /\ Good(e) /\ Calm(e)
  BY <1>2, <1>3, <1>17 DEF Asking, Waits, KeepsTiled, Tiled
<1>18. ASSUME NEW f \in Files, NEW alternate \in BOOLEAN, AnswerFile(f, alternate) PROVE Good(ed')
  <2>1. /\ InMinibuffer /\ ed.cb.cmd = "argument"
        /\ Resume(ed.cb, e, do_load1(e, ed.cb.win, f, alternate))
    BY <1>18 DEF AnswerFile, e
  <2>2. Good(do_load1(e, ed.cb.win, f, alternate))
    BY <1>17, <2>1, LoadIs DEF Good
  <2>3. Becomes(do_load1(e, ed.cb.win, f, alternate))
    BY <1>2, <2>1, ResumeIs
  <2> QED
    BY <2>2, <2>3, BecomesInv
<1>22. ASSUME NEW f \in Files, NEW ok \in BOOLEAN, AnswerWrite(f, ok) PROVE Good(ed')
  <2>1. /\ InMinibuffer /\ ed.cb.cmd = "argument"
        /\ Resume(ed.cb, e, save_edit_cb(e, ed.cb.win, f, ok))
    BY <1>22 DEF AnswerWrite, e
  <2>2. Good(e) /\ Calm(e) /\ ed.cb.win \in WinsOf(e)
    BY <1>17, <2>1
  <2>5. ed.cb.win \in Tiled(e)
    BY <2>2, CalmWindows DEF Tiled, Good
  <2>3. Good(save_edit_cb(e, ed.cb.win, f, ok))
    BY <2>2, <2>5, WriteIs DEF Good
  <2>4. Becomes(save_edit_cb(e, ed.cb.win, f, ok))
    BY <1>2, <2>1, ResumeIs
  <2> QED
    BY <2>3, <2>4, BecomesInv
<1>19. CASE AnswerBuffer
  <2>1. PICK name \in Names(e) :
          \/ Resume(ed.cb, e, do_switch_to_buffer(e, ed.cb.win, name))
          \/ Resume(ed.cb, e, do_kill_buffer(e, name))
    BY <1>19 DEF AnswerBuffer, e
  <2>2. InMinibuffer /\ ed.cb.cmd = "argument" /\ Asking(ed)
    BY <1>2, <1>19 DEF AnswerBuffer
  <2>3. ed.cb.win \in WinsOf(e) /\ Good(e) /\ Calm(e)
    BY <1>17, <2>2
  <2>4. name \in NameSet
    <3>1. e \in Eds
      BY <2>3 DEF Good, Inv, Sound
    <3>2. \A b \in BufsOf(e) : e.bufs[b] \in BufRec
      BY <3>1, EdIs
    <3>3. \A b \in BufsOf(e) : e.bufs[b].name \in NameSet
      BY <3>2 DEF BufRec
    <3> QED
      BY <3>3, NamesAre DEF Names
  <2>5. Good(do_switch_to_buffer(e, ed.cb.win, name)) /\ Good(do_kill_buffer(e, name))
    BY <2>3, <2>4, SwitchToBufferIs, KillBufferIs DEF Good
  <2>6. \/ Becomes(do_switch_to_buffer(e, ed.cb.win, name))
        \/ Becomes(do_kill_buffer(e, name))
    BY <2>1, <2>2, ResumeIs
  <2> QED
    BY <2>5, <2>6, BecomesInv
<1>20. CASE EditOrSave
  <2> DEFINE b == ed.wins[w].b
  <2>1. b \in BufsOf(ed) /\ Becomes([ed EXCEPT !.bufs[b].modified = ~@])
    BY <1>0, <1>20 DEF EditOrSave
  <2> HIDE DEF b
  <2>2. Good([ed EXCEPT !.bufs[b].modified = ~@])
    BY <2>1, EditIs DEF Good
  <2> QED
    BY <2>1, <2>2, BecomesInv
<1>21. ASSUME NEW k \in Sizes, Resize(k, k) PROVE Good(ed')
  <2>1. Good(do_refresh(ed, k, k))
    BY RefreshIs DEF Good
  <2> QED
    BY <1>21, <2>1, BecomesInv DEF Resize
<1> QED
  BY <1>4, <1>5, <1>6, <1>7, <1>8, <1>9, <1>10, <1>11, <1>12, <1>13, <1>14, <1>15, <1>16, <1>18,
     <1>19, <1>20, <1>21, <1>22 DEF Next

Invariant == Good(ed)

LEMMA InvariantHolds ==
    ASSUME Slips = {}
    PROVE  Spec => []Invariant
<1>1. Init => Invariant
  BY InitInv DEF Invariant
<1>2. Invariant /\ [Next]_ed => Invariant'
  <2> SUFFICES ASSUME Good(ed), [Next]_ed PROVE Good(ed')
    BY DEF Invariant
  <2>1. CASE UNCHANGED ed
    BY <2>1
  <2> QED
    BY <2>1, NextInv DEF Good
<1> QED
  BY <1>1, <1>2, PTL DEF Spec

---------------------------------------------------------------------------
(* The theorems.                                                           *)

(* For every number of windows, buffers and files and every screen size, a *)
(* user who gives no command of the global map while a question or a popup *)
(* is open and avoids the four commands with known faults never meets a    *)
(* freed or missing window or buffer: the active window, what every window *)
(* shows, and what a question, a list of completions or a popup comes back *)
(* to are there (qe.c, edit_close, do_minibuffer_exit, do_less_quit,       *)
(* kill_buffer_noconfirm and do_delete_window).                            *)
THEOREM NothingDangles ==
    ASSUME Slips = {}
    PROVE  Spec => []NoDangling
<1>1. Invariant => NoDangling
  <2> SUFFICES ASSUME Inv(ed) PROVE NoDangling
    BY DEF Invariant, Good
  <2>1. ed.fault = "none" /\ ed.active \in WinsOf(ed) /\ Live(ed)
    BY DEF Inv, Sound
  <2>2. /\ ed.completion \in WinsOf(ed) \cup {None}
        /\ ed.cb.win \in WinsOf(ed) \cup {None} /\ ed.cb.buf \in BufsOf(ed) \cup {None}
    BY PointersIn
  <2>3. ed.cb # NoCb => ed.saved \in WinsOf(ed)
    BY DEF Inv, Calm, Reading, Asking, Tiled
  <2>4. ASSUME NEW w \in WinsOf(ed), ed.wins[w].mode = "less"
        PROVE  ed.popup_saved \in WinsOf(ed)
    <3>1. w \notin Tiled(ed)
      BY <2>4, TiledModes
    <3>2. ed.wins[w].kind # "tiled"
      BY <3>1 DEF Tiled
    <3>3. ~Calm(ed)
      BY <3>2 DEF Calm, AllTiled
    <3>4. ~Asking(ed)
      <4>1. w # None
        BY EdIs DEF Inv, Sound
      <4> QED
        BY <2>4, <3>2, <4>1 DEF Asking, AllTiled
    <3>5. Reading(ed)
      BY <3>3, <3>4 DEF Inv
    <3> QED
      BY <3>5 DEF Reading, Tiled
  <2> QED
    BY <2>1, <2>2, <2>3, <2>4 DEF NoDangling, Live
<1>2. Spec => []Invariant
  BY InvariantHolds
<1> QED
  BY <1>1, <1>2, PTL

(* Two buffers of the list never have one name, and two visit one file     *)
(* only if one of them was given it by write-file, however many were       *)
(* created, visited, written and killed (buffer.c, set_buffer_name; qe.c,  *)
(* do_load1, save_edit_cb and do_switch_to_buffer).                        *)
THEOREM NamesStayUnique ==
    ASSUME Slips = {}
    PROVE  Spec => []NamesUnique
<1>1. Invariant => NamesUnique
  <2> SUFFICES ASSUME Inv(ed) PROVE NamesUnique
    BY DEF Invariant, Good
  <2>1. ed \in Eds /\ NamesOK(ed, None)
    BY DEF Inv, Sound
  <2>2. None \notin BufsOf(ed)
    BY <2>1, EdIs
  <2> QED
    BY <2>1, <2>2 DEF NamesOK, NamesUnique
<1>2. Spec => []Invariant
  BY InvariantHolds
<1> QED
  BY <1>1, <1>2, PTL

(* Every window is in the mode in which its buffer was opened, in          *)
(* whichever windows the buffer was shown, hidden and shown again, and     *)
(* whatever file it was written to (qe.c, switch_to_buffer, do_set_mode).  *)
THEOREM ModesStayKept ==
    ASSUME Slips = {}
    PROVE  Spec => []ModeKept
<1>1. Invariant => ModeKept
  <2> SUFFICES ASSUME Inv(ed) PROVE ModeKept
    BY DEF Invariant, Good
  <2>1. ed \in Eds /\ ModesOK(ed, None)
    BY DEF Inv, Sound
  <2>2. None \notin BufsOf(ed)
    BY <2>1, EdIs
  <2> QED
    BY <2>1, <2>2 DEF ModesOK, ModeKept, OwnMode
<1>2. Spec => []Invariant
  BY InvariantHolds
<1> QED
  BY <1>1, <1>2, PTL

(* Every cell of the screen is in one tiled window and in one only, for    *)
(* every size of the screen, however it was split, merged, covered by the  *)
(* list of buffers and resized; a question has its minibuffer, and there   *)
(* is none without (qe.c, do_split_window, do_delete_window,               *)
(* do_delete_other_windows, insert_window_left, do_refresh).               *)
THEOREM ScreenStaysTiled ==
    ASSUME Slips = {}
    PROVE  Spec => []TilesScreen
<1>1. Invariant => TilesScreen
  <2> SUFFICES ASSUME Inv(ed), Tiles(ed) PROVE TilesScreen
    BY DEF Invariant, Good
  <2> DEFINE M == {w \in WinsOf(ed) : ed.wins[w].kind = "minibuf"}
  <2>1. ed.active \in WinsOf(ed) /\ None \notin WinsOf(ed)
    BY EdIs DEF Inv, Sound
  <2>2. CASE Calm(ed) \/ Reading(ed)
    <3>1. ed.cb = NoCb /\ ed.completion = None /\ M = {}
      BY <2>2 DEF Calm, Reading, AllTiled
    <3>2. Cardinality(M) = 0
      BY <3>1, FS_EmptySet
    <3> QED
      BY <3>1, <3>2 DEF TilesScreen, Tiles
  <2>3. CASE Asking(ed)
    <3>1. M = {ed.active}
      BY <2>1, <2>3 DEF Asking, AllTiled
    <3>2. Cardinality(M) = 1
      BY <3>1, FS_Singleton
    <3>3. ed.cb # NoCb
      BY <2>3, NoCbIs DEF Asking, Waits
    <3> QED
      BY <3>2, <3>3 DEF TilesScreen, Tiles
  <2> QED
    BY <2>2, <2>3 DEF Inv
<1>2. Spec => []Invariant
  BY InvariantHolds
<1> QED
  BY <1>1, <1>2, PTL
================================================================================
