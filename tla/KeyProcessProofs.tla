---------------------------- MODULE KeyProcessProofs ----------------------------
(***************************************************************************)
(* Proofs about KeyProcess: keys are read as they were sent, commands get  *)
(* the argument that was typed, and macros are replayed as they were       *)
(* recorded.                                                               *)
(***************************************************************************)
EXTENDS KeyProcess, TLAPS, NaturalsInduction, WellFoundedInduction, FiniteSetTheorems

---------------------------------------------------------------------------
(* Numbers and recursion.                                                  *)

(* A set of numbers that is not empty has a least element.                 *)
LEMMA LeastNumber ==
    ASSUME NEW T \in SUBSET Nat, T # {}
    PROVE  \E x \in T : \A y \in T : x <= y
<1> DEFINE R == {ss \in Nat \X Nat : ss[1] < ss[2]}
<1>1. IsWellFoundedOn(R, Nat)
  BY NatLessThanWellFounded DEF OpToRel
<1> HIDE DEF R
<1>2. PICK x \in T : \A y \in T : ~(<<y, x>> \in R)
  BY <1>1, WFMin
<1>3. ASSUME NEW y \in T PROVE x <= y
  <2> SUFFICES ASSUME ~(x <= y) PROVE FALSE
    OBVIOUS
  <2>1. <<y, x>> \in R
    BY DEF R
  <2> QED
    BY <1>2, <2>1
<1> QED
  BY <1>3

(* Induction up to m, on a set of numbers.                                 *)
LEMMA UpTo ==
    ASSUME NEW m \in Nat, NEW T, 0 \in T,
           \A n \in 0..(m - 1) : n \in T => n + 1 \in T
    PROVE  m \in T
<1> DEFINE U == {n \in 0..m : n \notin T}
<1> SUFFICES ASSUME U # {} PROVE FALSE
  OBVIOUS
<1>0. U \in SUBSET Nat
  OBVIOUS
<1>1. PICK x \in U : \A y \in U : x <= y
  <2> HIDE DEF U
  <2> QED
    BY <1>0, LeastNumber
<1>2. x # 0 /\ x - 1 \in 0..(m - 1) /\ x - 1 \notin U
  BY <1>1
<1> QED
  BY <1>2

(* f is computed from z on by the steps H.                                 *)
Computes(f, m, V, z, H) ==
    f \in [0..m -> V] /\ f[0] = z /\ \A i \in 1..m : f[i] = H[<<i, f[i - 1]>>]

(* Each sequence of steps computes some function.                          *)
LEMMA Recursion ==
    ASSUME NEW m \in Nat, NEW V, NEW z \in V, NEW H \in [(1..m) \X V -> V]
    PROVE  \E f : Computes(f, m, V, z, H)
<1> DEFINE T == {j \in 0..m : \E f : Computes(f, j, V, z, H)}
<1>1. 0 \in T
  <2> DEFINE f == [i \in 0..0 |-> z]
  <2>1. Computes(f, 0, V, z, H)
    BY DEF Computes
  <2> QED
    BY <2>1
<1>2. ASSUME NEW j \in 0..(m - 1), j \in T PROVE j + 1 \in T
  <2>1. PICK f : Computes(f, j, V, z, H)
    BY <1>2
  <2> DEFINE v == H[<<j + 1, f[j]>>]
             g == [i \in 0..(j + 1) |-> IF i = j + 1 THEN v ELSE f[i]]
  <2>2. /\ f \in [0..j -> V] /\ f[0] = z
        /\ \A i \in 1..j : f[i] = H[<<i, f[i - 1]>>]
    BY <2>1 DEF Computes
  <2>3. v \in V
    <3>1. f[j] \in V /\ j + 1 \in 1..m
      BY <2>2
    <3> QED
      BY <3>1
  <2>4. g \in [0..(j + 1) -> V] /\ g[0] = z
    BY <2>2, <2>3
  <2>5. ASSUME NEW i \in 1..(j + 1) PROVE g[i] = H[<<i, g[i - 1]>>]
    <3>1. CASE i = j + 1
      <4>1. g[i] = v /\ g[i - 1] = f[j]
        BY <3>1
      <4> QED
        BY <3>1, <4>1
    <3>2. CASE i # j + 1
      <4>1. i \in 1..j /\ g[i] = f[i] /\ g[i - 1] = f[i - 1]
        BY <3>2
      <4> QED
        BY <2>2, <4>1
    <3> QED
      BY <3>1, <3>2
  <2> HIDE DEF g
  <2>6. Computes(g, j + 1, V, z, H)
    BY <2>4, <2>5 DEF Computes
  <2> QED
    BY <2>6
<1> HIDE DEF T
<1>3. m \in T
  BY <1>1, <1>2, UpTo
<1> QED
  BY <1>3 DEF T

(* Only one.                                                               *)
LEMMA RecursionUnique ==
    ASSUME NEW m \in Nat, NEW n \in Nat, m <= n, NEW V, NEW z, NEW H,
           NEW f, Computes(f, m, V, z, H), NEW g, Computes(g, n, V, z, H)
    PROVE  \A i \in 0..m : f[i] = g[i]
<1> SUFFICES ASSUME NEW k \in 0..m PROVE f[k] = g[k]
  OBVIOUS
<1> DEFINE T == {i \in 0..m : f[i] = g[i]}
<1>1. 0 \in T
  BY DEF Computes
<1>2. ASSUME NEW i \in 0..(k - 1), i \in T PROVE i + 1 \in T
  <2>1. i + 1 \in 1..m /\ i + 1 \in 1..n /\ (i + 1) - 1 = i /\ i + 1 \in 0..m
    OBVIOUS
  <2>2. f[i + 1] = H[<<i + 1, f[i]>>] /\ g[i + 1] = H[<<i + 1, g[i]>>]
    BY <2>1 DEF Computes
  <2> QED
    BY <1>2, <2>1, <2>2
<1> HIDE DEF T
<1>3. k \in T
  BY <1>1, <1>2, UpTo
<1> QED
  BY <1>3 DEF T

---------------------------------------------------------------------------
(* Keys from bytes.                                                        *)

(* The state of tty_read_handler after n bytes of the sequence s.          *)
After(s, n) ==
    CASE n = 0 -> Norm
      [] n = 1 -> [state |-> "IS_ESC", param |-> << >>]
      [] n >= 2 /\ s[2] = "O" -> [state |-> "IS_ESC2", param |-> << >>]
      [] OTHER -> [state |-> "IS_CSI", param |-> SubSeq(s, 3, n)]

(* What has been read of the key sent, and what is still to be read.       *)
KeyInv ==
    /\ bytes \in Seq(STRING)
    /\ bytes = << >> => input = Norm
    /\ bytes # << >> =>
         /\ sent \in Keys
         /\ Len(bytes) <= Len(InputOf[sent])
         /\ LET s == InputOf[sent]
                n == Len(s) - Len(bytes)
            IN  bytes = SubSeq(s, n + 1, Len(s)) /\ input = After(s, n)

(* What the handler does with a byte in each of its states.                *)
LEMMA HandlerNorm ==
    ASSUME NEW c
    PROVE  tty_read_handler(Norm, c) = IF c = "ESC" THEN More("IS_ESC", << >>) ELSE Got(Plain(c))
BY DEF tty_read_handler, Norm

LEMMA HandlerEsc ==
    ASSUME NEW c, NEW par
    PROVE  tty_read_handler([state |-> "IS_ESC", param |-> par], c) =
             IF c = "[" THEN More("IS_CSI", << >>)
             ELSE IF c = "O" THEN More("IS_ESC2", << >>) ELSE Got(Meta(c))
BY DEF tty_read_handler

LEMMA HandlerEsc2 ==
    ASSUME NEW c \in {"P", "Q", "R", "S"}, NEW par
    PROVE  tty_read_handler([state |-> "IS_ESC2", param |-> par], c) = Got(Esc1(ParamOf[c]))
BY DEF tty_read_handler

LEMMA HandlerDigit ==
    ASSUME NEW c \in Digits, NEW par
    PROVE  tty_read_handler([state |-> "IS_CSI", param |-> par], c)
             = More("IS_CSI", Append(par, c))
<1> DEFINE in == [state |-> "IS_CSI", param |-> par]
<1>1. in.state = "IS_CSI" /\ in.param = par
  OBVIOUS
<1>2. c # "~" /\ c \notin {"H", "F"} /\ c \notin {"A", "B", "C", "D"}
  BY DEF Digits
<1> HIDE DEF in
<1>3. tty_read_handler(in, c) = More("IS_CSI", Append(in.param, c))
  BY <1>1, <1>2 DEF tty_read_handler
<1> QED
  BY <1>1, <1>3 DEF in

LEMMA HandlerLast ==
    ASSUME NEW c, c \notin Digits, NEW par
    PROVE  tty_read_handler([state |-> "IS_CSI", param |-> par], c) = Got(CSIKey(par, c))
<1> DEFINE in == [state |-> "IS_CSI", param |-> par]
<1>1. in.state = "IS_CSI" /\ in.param = par
  OBVIOUS
<1> HIDE DEF in
<1>2. CASE c = "~"
  BY <1>1, <1>2 DEF tty_read_handler, CSIKey
<1>3. CASE c \in {"H", "F"}
  BY <1>1, <1>3 DEF tty_read_handler, CSIKey
<1>4. CASE c \in {"A", "B", "C", "D"} /\ par = <<"5">>
  BY <1>1, <1>4 DEF tty_read_handler, CSIKey
<1>5. CASE c # "~" /\ c \notin {"H", "F"} /\ ~(c \in {"A", "B", "C", "D"} /\ par = <<"5">>)
  BY <1>1, <1>5 DEF tty_read_handler, CSIKey
<1> QED
  BY <1>2, <1>3, <1>4, <1>5 DEF in

(* The handler at byte n + 1 of the sequence of a key.                     *)
LEMMA HandlerStep ==
    ASSUME NEW k, NEW s \in Seq(STRING), Sends(k, s), NEW n \in 0..(Len(s) - 1)
    PROVE  LET r == tty_read_handler(After(s, n), s[n + 1])
           IN  IF n + 1 = Len(s) THEN r = Got(k)
               ELSE r.key = None /\ r.input = After(s, n + 1)
<1> DEFINE c == s[n + 1]
           r == tty_read_handler(After(s, n), c)
           esc == [state |-> "IS_ESC", param |-> << >>]
           z == Len(s)
<1> SUFFICES IF n + 1 = z THEN r = Got(k)
             ELSE r.key = None /\ r.input = After(s, n + 1)
  BY DEF r, c, z
<1>0. z \in Nat /\ n \in Nat /\ n < z
  OBVIOUS
<1>s. \/ z = 1 /\ s[1] # "ESC" /\ k = Plain(s[1])
      \/ z = 2 /\ s[1] = "ESC" /\ s[2] \notin {"[", "O"} /\ k = Meta(s[2])
      \/ /\ z = 3 /\ s[1] = "ESC" /\ s[2] = "O" /\ s[3] \in {"P", "Q", "R", "S"}
         /\ k = Esc1(ParamOf[s[3]])
      \/ /\ z >= 3 /\ s[1] = "ESC" /\ s[2] = "["
         /\ \A i \in 3..(z - 1) : s[i] \in Digits
         /\ s[z] \notin Digits
         /\ k = CSIKey(SubSeq(s, 3, z - 1), s[z])
  BY Zenon DEF Sends, z
<1>t. ASSUME NEW m \in Nat, 3 <= m + 1, m + 1 <= z
      PROVE  SubSeq(s, 3, m + 1) = Append(SubSeq(s, 3, m), s[m + 1])
  BY <1>t DEF z
<1>e. SubSeq(s, 3, 2) = << >>
  BY <1>0
<1> HIDE DEF z
<1>a. \A st, p : More(st, p).key = None /\ More(st, p).input = [state |-> st, param |-> p]
  BY DEF More
<1>1. CASE n = 0
  <2>1. After(s, n) = Norm /\ After(s, n + 1) = esc
    BY <1>1 DEF After
  <2>2. CASE z = 1
    <3>1. k = Plain(s[1]) /\ s[1] # "ESC"
      BY <1>s, <2>2
    <3> QED
      BY <1>1, <2>1, <2>2, <3>1, HandlerNorm
  <2>3. CASE z > 1
    <3>0. z # 1
      BY <1>0, <2>3
    <3>1. s[1] = "ESC"
      BY <1>s, <3>0
    <3>2. r = More("IS_ESC", << >>)
      BY <1>1, <2>1, <3>1, HandlerNorm
    <3> QED
      BY <1>0, <1>1, <1>a, <2>1, <2>3, <3>2
  <2> QED
    BY <1>0, <1>1, <2>2, <2>3
<1>2. CASE n = 1
  <2>1. After(s, n) = esc
    BY <1>2 DEF After
  <2>2. CASE z = 2
    <3>1. k = Meta(s[2]) /\ s[2] # "[" /\ s[2] # "O"
      BY <1>s, <2>2
    <3> QED
      BY <1>2, <2>1, <2>2, <3>1, HandlerEsc
  <2>3. CASE z > 2 /\ s[2] = "O"
    <3>1. After(s, n + 1) = [state |-> "IS_ESC2", param |-> << >>]
      BY <1>2, <2>3 DEF After
    <3>2. r = More("IS_ESC2", << >>)
      BY <1>2, <2>1, <2>3, HandlerEsc
    <3> QED
      BY <1>0, <1>2, <1>a, <2>3, <3>1, <3>2
  <2>4. CASE z > 2 /\ s[2] # "O"
    <3>0. z # 1 /\ z # 2
      BY <1>0, <2>4
    <3>1. s[2] = "["
      BY <1>s, <2>4, <3>0
    <3>3. After(s, n + 1) = [state |-> "IS_CSI", param |-> << >>]
      BY <1>2, <1>e, <2>4, <3>1 DEF After
    <3>4. r = More("IS_CSI", << >>)
      BY <1>2, <2>1, <3>1, HandlerEsc
    <3> QED
      BY <1>0, <1>2, <1>a, <2>4, <3>3, <3>4
  <2> QED
    BY <1>0, <1>2, <2>2, <2>3, <2>4
<1>3. CASE n >= 2
  <2>0. z >= 3
    BY <1>0, <1>3
  <2>1. CASE s[2] = "O"
    <3>1. z = 3 /\ s[3] \in {"P", "Q", "R", "S"} /\ k = Esc1(ParamOf[s[3]])
      BY <1>0, <1>s, <2>0, <2>1
    <3>2. After(s, n) = [state |-> "IS_ESC2", param |-> << >>] /\ n = 2
      BY <1>0, <1>3, <2>1, <3>1 DEF After
    <3> QED
      BY <3>1, <3>2, HandlerEsc2
  <2>2. CASE s[2] # "O"
    <3>1. /\ \A i \in 3..(z - 1) : s[i] \in Digits
          /\ s[z] \notin Digits
          /\ k = CSIKey(SubSeq(s, 3, z - 1), s[z])
      BY <1>0, <1>s, <2>0, <2>2
    <3> DEFINE par == SubSeq(s, 3, n)
    <3>2. After(s, n) = [state |-> "IS_CSI", param |-> par]
      BY <1>3, <2>2 DEF After
    <3>3. After(s, n + 1) = [state |-> "IS_CSI", param |-> SubSeq(s, 3, n + 1)]
      BY <1>0, <1>3, <2>2 DEF After
    <3>4. CASE n + 1 = z
      <4>1. k = CSIKey(par, c) /\ c \notin Digits
        <5>1. n = z - 1
          BY <1>0, <3>4
        <5> QED
          BY <3>1, <3>4, <5>1
      <4> HIDE DEF par, c
      <4>2. r = Got(CSIKey(par, c))
        BY <3>2, <4>1, HandlerLast
      <4> QED
        BY <3>4, <4>1, <4>2 DEF c
    <3>5. CASE n + 1 # z
      <4>1. c \in Digits
        BY <1>0, <1>3, <3>1, <3>5
      <4>2. SubSeq(s, 3, n + 1) = Append(par, c)
        BY <1>0, <1>3, <1>t, <3>5
      <4> HIDE DEF par, c
      <4>3. r = More("IS_CSI", Append(par, c))
        BY <3>2, <4>1, HandlerDigit
      <4>4. r.key = None /\ r.input = [state |-> "IS_CSI", param |-> Append(par, c)]
        <5> HIDE DEF r
        <5> QED
          BY <4>3 DEF More, None
      <4> HIDE DEF r
      <4> QED
        BY <3>3, <3>5, <4>2, <4>4
    <3> QED
      BY <3>4, <3>5
  <2> QED
    BY <2>1, <2>2
<1> QED
  BY <1>0, <1>1, <1>2, <1>3

LEMMA KeyNotNone ==
    ASSUME NEW k, NEW s, Sends(k, s)
    PROVE  k # None
<1>1. \A c : Plain(c) # << >> /\ Meta(c) # << >> /\ Esc1(c) # << >>
  BY DEF Plain, Meta, Esc1
<1>2. \A par, c : CSIKey(par, c) # << >>
  BY <1>1, Zenon DEF CSIKey
<1> QED
  BY <1>1, <1>2, Zenon DEF Sends, None

(* What the handler does with the next byte.                               *)
LEMMA HandlerNext ==
    ASSUME KeyInv, bytes # << >>
    PROVE  LET s == InputOf[sent]
               n == Len(s) - Len(bytes)
               r == tty_read_handler(input, Head(bytes))
           IN  /\ sent \in Keys /\ s \in Seq(STRING) /\ n \in 0..(Len(s) - 1)
               /\ Len(bytes) = 1 <=> n + 1 = Len(s)
               /\ Tail(bytes) = SubSeq(s, n + 2, Len(s))
               /\ Len(Tail(bytes)) = Len(s) - (n + 1)
               /\ sent # None
               /\ IF n + 1 = Len(s) THEN r = Got(sent)
                  ELSE r.key = None /\ r.input = After(s, n + 1)
<1> DEFINE s == InputOf[sent]
           n == Len(s) - Len(bytes)
           r == tty_read_handler(input, Head(bytes))
<1>1. /\ sent \in Keys /\ Len(bytes) <= Len(s) /\ bytes \in Seq(STRING)
      /\ bytes = SubSeq(s, n + 1, Len(s)) /\ input = After(s, n)
  BY DEF KeyInv
<1>2. s \in Seq(STRING) /\ Sends(sent, s)
  BY <1>1, KeyAssumption
<1> HIDE DEF s
<1>3. Len(bytes) \in Nat /\ Len(bytes) # 0 /\ Len(s) \in Nat
  BY <1>1, <1>2
<1>4. n \in 0..(Len(s) - 1) /\ n + 1 \in 1..Len(s) /\ (Len(bytes) = 1 <=> n + 1 = Len(s))
  <2> DEFINE x == Len(s)
             y == Len(bytes)
  <2>1. x \in Nat /\ y \in Nat /\ y # 0 /\ y <= x /\ n = x - y
    BY <1>1, <1>3
  <2> HIDE DEF x, y, n
  <2>2. n \in 0..(x - 1) /\ n + 1 \in 1..x /\ (y = 1 <=> n + 1 = x)
    BY <2>1
  <2> QED
    BY <2>2 DEF x, y
<1>5. Len(Tail(bytes)) = Len(s) - (n + 1)
  <2>1. Len(Tail(bytes)) = Len(bytes) - 1
    BY <1>1, <1>3
  <2> QED
    BY <1>3, <2>1
<1> HIDE DEF n
<1>6. Head(bytes) = s[n + 1] /\ Tail(bytes) = SubSeq(s, n + 2, Len(s))
  BY <1>1, <1>2, <1>3, <1>4
<1>7. IF n + 1 = Len(s) THEN r = Got(sent)
      ELSE r.key = None /\ r.input = After(s, n + 1)
  BY <1>1, <1>2, <1>4, <1>6, HandlerStep
<1>8. sent # None
  BY <1>2, KeyNotNone
<1> QED
  BY <1>1, <1>2, <1>4, <1>5, <1>6, <1>7, <1>8 DEF s, n

LEMMA KeyStep ==
    ASSUME KeyInv, [Next]_vars
    PROVE  KeyInv'
<1> USE DEF KeyInv
<1>1. ASSUME NEW k \in Keys, Press(k) PROVE KeyInv'
  <2> DEFINE s == InputOf[k]
  <2>1. /\ bytes' = s /\ sent' = k /\ input' = Norm
    BY <1>1 DEF Press
  <2>2. s \in Seq(STRING) /\ Sends(k, s)
    BY KeyAssumption
  <2> HIDE DEF s
  <2>3. Len(s) \in Nat /\ Len(s) - Len(s) = 0 /\ SubSeq(s, 0 + 1, Len(s)) = s
    BY <2>2
  <2>4. s # << >>
    BY <2>2, <2>3 DEF Sends
  <2>5. After(s, 0) = Norm
    BY DEF After
  <2> QED
    BY <2>1, <2>2, <2>3, <2>4, <2>5 DEF s
<1>2. CASE ReadByte
  <2> DEFINE s == InputOf[sent]
             n == Len(s) - Len(bytes)
             r == tty_read_handler(input, Head(bytes))
  <2>0. bytes # << >>
    BY <1>2 DEF ReadByte
  <2>1. /\ sent \in Keys /\ s \in Seq(STRING) /\ n \in 0..(Len(s) - 1)
        /\ Len(bytes) = 1 <=> n + 1 = Len(s)
        /\ Tail(bytes) = SubSeq(s, n + 2, Len(s))
        /\ Len(Tail(bytes)) = Len(s) - (n + 1)
        /\ sent # None
        /\ IF n + 1 = Len(s) THEN r = Got(sent)
           ELSE r.key = None /\ r.input = After(s, n + 1)
    BY <2>0, HandlerNext
  <2>2. /\ bytes' = Tail(bytes) /\ input' = r.input
        /\ IF r.key = None THEN sent' = sent ELSE sent' = None
    BY <1>2 DEF ReadByte
  <2>3. Tail(bytes) \in Seq(STRING)
    BY <2>0
  <2> HIDE DEF r, s, n
  <2>4. CASE n + 1 = Len(s)
    <3>1. r.key = sent /\ r.input = Norm
      BY <2>1, <2>4 DEF Got
    <3>2. Tail(bytes) = << >>
      BY <2>1, <2>3, <2>4
    <3>3. bytes' \in Seq(STRING) /\ bytes' = << >> /\ input' = Norm
      BY <2>2, <2>3, <3>1, <3>2
    <3> QED
      BY <3>3, Zenon
  <2>5. CASE n + 1 # Len(s)
    <3>0. Len(s) \in Nat /\ n \in Nat
      BY <2>1
    <3>1. sent' = sent /\ input' = After(s, n + 1)
      BY <2>1, <2>2, <2>5
    <3>2. Len(s) - Len(bytes') = n + 1 /\ Len(bytes') <= Len(s) /\ (n + 1) + 1 = n + 2
      <4> DEFINE x == Len(s)
                 y == Len(bytes')
      <4>1. y = x - (n + 1) /\ x \in Nat
        BY <2>1, <2>2, <3>0
      <4> HIDE DEF x, y
      <4>2. x - y = n + 1 /\ y <= x /\ (n + 1) + 1 = n + 2
        BY <3>0, <4>1
      <4> QED
        BY <4>2 DEF x, y
    <3>3. /\ s = InputOf[sent'] /\ sent' \in Keys /\ bytes' \in Seq(STRING) /\ bytes' # << >>
          /\ bytes' = SubSeq(s, (n + 1) + 1, Len(s))
      <4>1. s = InputOf[sent'] /\ sent' \in Keys
        BY <2>1, <3>1 DEF s
      <4>2. bytes' \in Seq(STRING) /\ bytes' = SubSeq(s, (n + 1) + 1, Len(s))
        BY <2>1, <2>2, <2>3, <3>2
      <4>3. bytes' # << >>
        <5>1. Len(bytes') # 0
          BY <2>1, <2>2, <2>5, <3>0
        <5> QED
          BY <5>1
      <4> QED
        BY <4>1, <4>2, <4>3
    <3> QED
      BY <3>1, <3>2, <3>3, Zenon
  <2> QED
    BY <2>4, <2>5
<1>3. CASE StartReplay \/ ReplayKey \/ EndReplay \/ Idle \/ UNCHANGED vars
  BY <1>3 DEF StartReplay, ReplayKey, EndReplay, Idle, vars
<1> QED
  BY <1>1, <1>2, <1>3 DEF Next

LEMMA KeysRead == Spec => []KeyInv
<1>1. Init => KeyInv
  BY DEF Init, KeyInv
<1> QED
  BY <1>1, KeyStep, PTL DEF Spec

(* tty_read_handler: for all keys whose bytes have the form that terminals *)
(* use, a key is complete with its last byte and not before, and it is the *)
(* one that was typed.                                                     *)
THEOREM KeysAsSent == Spec => []KeyAsSent
<1>1. KeyInv => KeyAsSent
  <2> SUFFICES ASSUME KeyInv, bytes # << >>
               PROVE  tty_read_handler(input, Head(bytes)).key
                        = IF Len(bytes) = 1 THEN sent ELSE None
    BY DEF KeyAsSent
  <2> DEFINE s == InputOf[sent]
             n == Len(s) - Len(bytes)
             r == tty_read_handler(input, Head(bytes))
  <2>1. /\ Len(bytes) = 1 <=> n + 1 = Len(s)
        /\ IF n + 1 = Len(s) THEN r = Got(sent) ELSE r.key = None
    BY HandlerNext
  <2> HIDE DEF r, s, n
  <2>2. Got(sent).key = sent
    BY DEF Got
  <2> QED
    BY <2>1, <2>2 DEF r
<1> QED
  BY <1>1, KeysRead, PTL

---------------------------------------------------------------------------
(* Types.                                                                  *)

Cmds  == {first_key[i].cmd : i \in DOMAIN first_key}
Calls == ({"describe", "quoted", "grabbed"} \X Keys) \cup (Cmds \X Keys \X Int)
Moves == [key : Keys, effect : Outcomes]
Grabs == {"none", "quote", "other"}

Eds == [argval : Int, noargval : Int, sign : Int, univ : BOOLEAN, keys : Seq(Keys),
        describe : BOOLEAN, grab : Grabs, defining : BOOLEAN, macro : Seq(Moves),
        index : Int, pending : Nat, mode : Modes, fault : BOOLEAN, typed : Seq(Keys),
        rec : Seq(Calls), run : Seq(Calls), recmode : Modes, same : BOOLEAN]

LEMMA AffectedType ==
    ASSUME NEW e \in Eds, NEW o \in Outcomes
    PROVE  Affected(e, o) \in Eds
<1> DEFINE g == IF o.grab = "other" THEN "other" ELSE "none"
<1>1. o.mode \in Modes /\ g \in Grabs
  BY DEF Outcomes, Grabs
<1>2. Affected(e, o) = [e EXCEPT !.mode = o.mode, !.grab = g]
  BY DEF Affected
<1> HIDE DEF g
<1> QED
  BY <1>1, <1>2 DEF Eds

LEMMA CallType ==
    ASSUME NEW e \in Eds, NEW cmd, NEW o \in Outcomes
    PROVE  Call(cmd, e, o) \in Eds
<1>0. << >> \in Seq(Moves) /\ << >> \in Seq(Calls) /\ e.mode \in Modes /\ e.pending + 1 \in Nat
  BY DEF Eds
<1>1. do_start_macro(e) \in Eds
  <2>1. [e EXCEPT !.defining = FALSE] \in Eds
    BY DEF Eds
  <2>2. [e EXCEPT !.defining = TRUE, !.macro = << >>, !.rec = << >>, !.recmode = e.mode] \in Eds
    BY <1>0 DEF Eds
  <2> QED
    BY <2>1, <2>2, Zenon DEF do_start_macro
<1>2. do_end_macro(e) \in Eds
  BY DEF do_end_macro, Eds
<1>3. do_call_macro(e) \in Eds
  <2>1. [e EXCEPT !.defining = FALSE] \in Eds
    BY DEF Eds
  <2>2. [e EXCEPT !.pending = @ + 1] \in Eds
    BY <1>0 DEF Eds
  <2> QED
    BY <2>1, <2>2, Zenon DEF do_call_macro
<1>4. Affected(e, o) \in Eds
  BY AffectedType
<1>5. [e EXCEPT !.grab = "quote"] \in Eds /\ [e EXCEPT !.describe = TRUE] \in Eds
  BY DEF Eds, Grabs
<1> QED
  BY <1>1, <1>2, <1>3, <1>4, <1>5, Zenon DEF Call

(* What the loop of exec_command computes.                                 *)
Called(e, cmd, n, o) ==
    CHOOSE called : called = [i \in 0..n |-> IF i = 0 THEN e ELSE Call(cmd, called[i - 1], o)]

Repeats(f, e, cmd, n, o) ==
    /\ f \in [0..n -> Eds] /\ f[0] = e
    /\ \A i \in 1..n : f[i] = Call(cmd, f[i - 1], o)

LEMMA CalledIs ==
    ASSUME NEW e \in Eds, NEW cmd, NEW n \in Nat, NEW o \in Outcomes
    PROVE  Repeats(Called(e, cmd, n, o), e, cmd, n, o)
<1> DEFINE H == [x \in (1..n) \X Eds |-> Call(cmd, x[2], o)]
           f == Called(e, cmd, n, o)
<1>1. H \in [(1..n) \X Eds -> Eds]
  BY CallType
<1>2. \A i \in 1..n, v \in Eds : H[<<i, v>>] = Call(cmd, v, o)
  OBVIOUS
<1> HIDE DEF H
<1>3. PICK g : Computes(g, n, Eds, e, H)
  BY <1>1, Recursion
<1>4. /\ g \in [0..n -> Eds] /\ g[0] = e
      /\ \A i \in 1..n : g[i] = Call(cmd, g[i - 1], o)
  <2>1. g \in [0..n -> Eds] /\ g[0] = e /\ \A i \in 1..n : g[i] = H[<<i, g[i - 1]>>]
    BY <1>3 DEF Computes
  <2>2. ASSUME NEW i \in 1..n PROVE g[i] = Call(cmd, g[i - 1], o)
    <3>1. g[i - 1] \in Eds
      BY <2>1
    <3> QED
      BY <1>2, <2>1, <3>1
  <2> QED
    BY <2>1, <2>2
<1>5. g = [i \in 0..n |-> IF i = 0 THEN e ELSE Call(cmd, g[i - 1], o)]
  BY <1>4
<1>6. f = [i \in 0..n |-> IF i = 0 THEN e ELSE Call(cmd, f[i - 1], o)]
  BY <1>5, Zenon DEF Called
<1> HIDE DEF f
<1>7. f[0] = e /\ \A i \in 1..n : f[i] = Call(cmd, f[i - 1], o)
  BY <1>6
<1>8. Computes(f, n, Eds, e, H)
  <2> DEFINE T == {i \in 0..n : f[i] \in Eds}
  <2>1. ASSUME NEW k \in 0..n PROVE f[k] \in Eds
    <3>1. 0 \in T
      BY <1>7
    <3>2. ASSUME NEW i \in 0..(k - 1), i \in T PROVE i + 1 \in T
      <4>1. i + 1 \in 1..n /\ (i + 1) - 1 = i /\ i + 1 \in 0..n
        OBVIOUS
      <4>2. f[i + 1] = Call(cmd, f[i], o)
        BY <1>7, <4>1
      <4> QED
        BY <3>2, <4>1, <4>2, CallType
    <3> HIDE DEF T
    <3>3. k \in T
      BY <3>1, <3>2, UpTo
    <3> QED
      BY <3>3 DEF T
  <2>2. f \in [0..n -> Eds]
    BY <1>6, <2>1
  <2>3. \A i \in 1..n : f[i - 1] \in Eds
    BY <2>1
  <2> QED
    BY <1>2, <1>7, <2>2, <2>3 DEF Computes
<1> QED
  BY <1>7, <1>8 DEF Computes, Repeats, f

Times(argval) == IF argval # NO_ARG /\ argval > 1 THEN argval ELSE 1

LEMMA TimesType ==
    ASSUME NEW a \in Int PROVE Times(a) \in Nat /\ Times(a) >= 1
BY DEF Times, NO_ARG

LEMMA ExecIs ==
    ASSUME NEW e, NEW cmd, NEW a, NEW o, cmd # "ask", cmd # "exit"
    PROVE  exec_command(e, cmd, a, o) = Called(e, cmd, Times(a), o)[Times(a)]
BY DEF exec_command, Called, Times

LEMMA ExecAsk ==
    ASSUME NEW e, NEW a, NEW o
    PROVE  /\ exec_command(e, "ask", a, o) = minibuffer_edit(e, o)
           /\ exec_command(e, "exit", a, o) = do_minibuffer_exit(e, Times(a), o)
BY DEF exec_command, Times

LEMMA ExecType ==
    ASSUME NEW e \in Eds, NEW cmd, NEW a \in Int, NEW o \in Outcomes
    PROVE  exec_command(e, cmd, a, o) \in Eds
<1>1. CASE cmd = "ask"
  <2>1. minibuffer_edit(e, o) \in Eds
    BY CommandAssumption DEF minibuffer_edit, Eds
  <2> QED
    BY <1>1, <2>1, ExecAsk
<1>2. CASE cmd = "exit"
  <2>1. [e EXCEPT !.fault = TRUE] \in Eds
    BY DEF Eds
  <2>2. do_minibuffer_exit(e, Times(a), o) \in Eds
    BY <2>1, AffectedType, Zenon DEF do_minibuffer_exit
  <2> QED
    BY <1>2, <2>2, ExecAsk
<1>3. CASE cmd # "ask" /\ cmd # "exit"
  <2> DEFINE n == Times(a)
  <2>1. n \in Nat /\ n \in 0..n
    BY TimesType
  <2> HIDE DEF n
  <2> DEFINE f == Called(e, cmd, n, o)
  <2>2. f \in [0..n -> Eds]
    BY <2>1, CalledIs DEF Repeats
  <2> HIDE DEF f
  <2>3. f[n] \in Eds
    BY <2>1, <2>2
  <2> QED
    BY <1>3, <2>3, ExecIs DEF n, f
<1> QED
  BY <1>1, <1>2, <1>3

---------------------------------------------------------------------------
(* What the keys typed mean.                                               *)

LEMMA CountEmpty == ASSUME NEW k PROVE Count(<< >>, k) = 0
<1>1. {i \in DOMAIN << >> : << >>[i] = k} = {}
  OBVIOUS
<1> QED
  BY <1>1, FS_EmptySet DEF Count

LEMMA CountAppend ==
    ASSUME NEW s \in Seq(Keys), NEW x \in Keys, NEW k
    PROVE  /\ Count(s, k) \in Nat
           /\ Count(Append(s, x), k) = IF x = k THEN Count(s, k) + 1 ELSE Count(s, k)
<1> DEFINE S == {i \in DOMAIN s : s[i] = k}
           t == Append(s, x)
           T == {i \in DOMAIN t : t[i] = k}
           n == Len(s)
<1>0. n \in Nat /\ DOMAIN s = 1..n
  OBVIOUS
<1>1. IsFiniteSet(S) /\ n + 1 \notin S
  <2>1. IsFiniteSet(1..n) /\ S \subseteq 1..n
    BY <1>0, FS_Interval
  <2> QED
    BY <1>0, <2>1, FS_Subset
<1>2. DOMAIN t = 1..(n + 1) /\ t[n + 1] = x /\ \A i \in 1..n : t[i] = s[i]
  BY <1>0
<1>3. T = IF x = k THEN S \cup {n + 1} ELSE S
  <2> HIDE DEF t, n
  <2>1. 1..(n + 1) = (1..n) \cup {n + 1}
    BY <1>0
  <2> QED
    BY <1>0, <1>2, <2>1
<1>4. Cardinality(S) \in Nat
  BY <1>1, FS_CardinalityType
<1>5. Cardinality(S \cup {n + 1}) = Cardinality(S) + 1
  BY <1>1, FS_AddElement
<1>6. Count(s, k) = Cardinality(S) /\ Count(t, k) = Cardinality(T)
  BY DEF Count
<1> HIDE DEF S, T, t, n
<1> QED
  BY <1>3, <1>4, <1>5, <1>6 DEF t

Power(n) == CHOOSE power : power = [i \in 0..n |-> IF i = 0 THEN 1 ELSE 4 * power[i - 1]]

LEMMA PowerIs ==
    ASSUME NEW n \in Nat
    PROVE  LET f == Power(n)
           IN  /\ FourTo(n) = f[n] /\ f[0] = 1
               /\ \A i \in 0..n : f[i] \in Nat
               /\ \A i \in 1..n : f[i] = 4 * f[i - 1]
<1> DEFINE H == [x \in (1..n) \X Nat |-> 4 * x[2]]
           f == Power(n)
<1>1. H \in [(1..n) \X Nat -> Nat]
  OBVIOUS
<1>2. \A i \in 1..n, v \in Nat : H[<<i, v>>] = 4 * v
  OBVIOUS
<1>0. FourTo(n) = f[n]
  BY DEF FourTo, Power
<1> HIDE DEF H
<1>3. PICK g : Computes(g, n, Nat, 1, H)
  BY <1>1, Recursion
<1>4. g = [i \in 0..n |-> IF i = 0 THEN 1 ELSE 4 * g[i - 1]]
  <2>1. g \in [0..n -> Nat] /\ g[0] = 1 /\ \A i \in 1..n : g[i] = H[<<i, g[i - 1]>>]
    BY <1>3 DEF Computes
  <2>2. ASSUME NEW i \in 1..n PROVE g[i] = 4 * g[i - 1]
    <3>1. g[i - 1] \in Nat
      BY <2>1
    <3> QED
      BY <1>2, <2>1, <3>1
  <2> QED
    BY <2>1, <2>2
<1>5. f = [i \in 0..n |-> IF i = 0 THEN 1 ELSE 4 * f[i - 1]]
  BY <1>4, Zenon DEF Power
<1> HIDE DEF f
<1>6. f[0] = 1 /\ \A i \in 1..n : f[i] = 4 * f[i - 1]
  BY <1>5
<1> DEFINE T == {i \in 0..n : f[i] \in Nat}
<1>7. ASSUME NEW k \in 0..n PROVE f[k] \in Nat
  <2>1. 0 \in T
    BY <1>6
  <2>2. ASSUME NEW i \in 0..(k - 1), i \in T PROVE i + 1 \in T
    <3>1. i + 1 \in 1..n /\ (i + 1) - 1 = i /\ i + 1 \in 0..n
      OBVIOUS
    <3>2. f[i + 1] = 4 * f[i]
      BY <1>6, <3>1
    <3> QED
      BY <2>2, <3>1, <3>2
  <2> HIDE DEF T
  <2>3. k \in T
    BY <2>1, <2>2, UpTo
  <2> QED
    BY <2>3 DEF T
<1> QED
  BY <1>0, <1>6, <1>7 DEF f

LEMMA FourToNext ==
    ASSUME NEW n \in Nat
    PROVE  FourTo(0) = 1 /\ FourTo(n) \in Nat /\ FourTo(n + 1) = 4 * FourTo(n)
<1> DEFINE f == Power(n)
           g == Power(n + 1)
<1>1. FourTo(0) = 1
  BY PowerIs
<1>2. /\ FourTo(n) = f[n] /\ f[0] = 1
      /\ \A i \in 0..n : f[i] \in Nat
      /\ \A i \in 1..n : f[i] = 4 * f[i - 1]
  BY PowerIs
<1>0. n + 1 \in Nat
  OBVIOUS
<1>3. /\ FourTo(n + 1) = g[n + 1] /\ g[0] = 1
      /\ \A i \in 0..(n + 1) : g[i] \in Nat
      /\ \A i \in 1..(n + 1) : g[i] = 4 * g[i - 1]
  BY <1>0, PowerIs
<1> HIDE DEF f, g
<1> DEFINE T == {i \in 0..n : f[i] = g[i]}
<1>7. 0 \in T
  BY <1>2, <1>3
<1>8. ASSUME NEW i \in 0..(n - 1), i \in T PROVE i + 1 \in T
  <2>1. i + 1 \in 1..n /\ i + 1 \in 1..(n + 1) /\ (i + 1) - 1 = i /\ i + 1 \in 0..n
    OBVIOUS
  <2> QED
    BY <1>2, <1>3, <1>8, <2>1
<1> HIDE DEF T
<1>9. n \in T
  BY <1>7, <1>8, UpTo
<1>10. f[n] = g[n] /\ g[n + 1] = 4 * g[n] /\ f[n] \in Nat
  <2>1. n + 1 \in 1..(n + 1) /\ (n + 1) - 1 = n /\ n \in 0..n
    OBVIOUS
  <2> QED
    BY <1>2, <1>3, <1>9, <2>1 DEF T
<1> QED
  BY <1>1, <1>2, <1>3, <1>10

Numbers(s) ==
    CHOOSE number : number = [i \in 0..Len(s) |->
          IF i = 0 THEN 0
          ELSE IF s[i] \in DOMAIN DigitOf THEN number[i - 1] * 10 + DigitOf[s[i]]
          ELSE number[i - 1]]

(* A number, with one more digit if the key is one.                        *)
WithDigit(n, x) == IF x \in DOMAIN DigitOf THEN n * 10 + DigitOf[x] ELSE n

LEMMA WithDigitType ==
    ASSUME NEW n \in Nat, NEW x PROVE WithDigit(n, x) \in Nat /\ WithDigit(n, x) >= n
<1>1. CASE x \in DOMAIN DigitOf
  <2>1. DigitOf[x] \in 0..9
    BY <1>1, DigitAssumption
  <2>2. n * 10 + DigitOf[x] \in Nat /\ n * 10 + DigitOf[x] >= n
    BY <2>1
  <2> QED
    BY <1>1, <2>2 DEF WithDigit
<1>2. CASE x \notin DOMAIN DigitOf
  BY <1>2 DEF WithDigit
<1> QED
  BY <1>1, <1>2

LEMMA NumbersIs ==
    ASSUME NEW s, Len(s) \in Nat
    PROVE  LET f == Numbers(s)
           IN  /\ Number(s) = f[Len(s)] /\ f[0] = 0
               /\ \A i \in 0..Len(s) : f[i] \in Nat
               /\ \A i \in 1..Len(s) : f[i] = WithDigit(f[i - 1], s[i])
<1> DEFINE n == Len(s)
           H == [x \in (1..n) \X Nat |-> WithDigit(x[2], s[x[1]])]
           f == Numbers(s)
<1>n. n \in Nat
  OBVIOUS
<1>0. Number(s) = f[n]
  BY DEF Number, Numbers
<1>5a. (\E g : g = [i \in 0..n |-> IF i = 0 THEN 0 ELSE WithDigit(g[i - 1], s[i])])
       => f = [i \in 0..n |-> IF i = 0 THEN 0 ELSE WithDigit(f[i - 1], s[i])]
  BY Zenon DEF Numbers, WithDigit
<1> HIDE DEF n
<1>1. H \in [(1..n) \X Nat -> Nat]
  BY WithDigitType
<1>2. \A i \in 1..n, v \in Nat : H[<<i, v>>] = WithDigit(v, s[i])
  OBVIOUS
<1> HIDE DEF H
<1>3. PICK g : Computes(g, n, Nat, 0, H)
  BY <1>1, <1>n, Recursion
<1>4. g = [i \in 0..n |-> IF i = 0 THEN 0 ELSE WithDigit(g[i - 1], s[i])]
  <2>1. g \in [0..n -> Nat] /\ g[0] = 0 /\ \A i \in 1..n : g[i] = H[<<i, g[i - 1]>>]
    BY <1>3 DEF Computes
  <2>2. ASSUME NEW i \in 1..n PROVE g[i] = WithDigit(g[i - 1], s[i])
    <3>1. g[i - 1] \in Nat
      BY <1>n, <2>1
    <3> QED
      BY <1>2, <2>1, <3>1
  <2> QED
    BY <1>n, <2>1, <2>2
<1>5. f = [i \in 0..n |-> IF i = 0 THEN 0 ELSE WithDigit(f[i - 1], s[i])]
  BY <1>4, <1>5a
<1> HIDE DEF f
<1>6. f[0] = 0 /\ \A i \in 1..n : f[i] = WithDigit(f[i - 1], s[i])
  BY <1>5, <1>n
<1> DEFINE T == {i \in 0..n : f[i] \in Nat}
<1>7. ASSUME NEW k \in 0..n PROVE f[k] \in Nat
  <2>1. 0 \in T
    BY <1>6, <1>n
  <2>2. ASSUME NEW i \in 0..(k - 1), i \in T PROVE i + 1 \in T
    <3>1. i + 1 \in 1..n /\ (i + 1) - 1 = i /\ i + 1 \in 0..n
      BY <1>n
    <3>2. f[i + 1] = WithDigit(f[i], s[i + 1])
      BY <1>6, <3>1
    <3> QED
      BY <2>2, <3>1, <3>2, WithDigitType
  <2> HIDE DEF T
  <2>3. k \in T
    BY <1>n, <2>1, <2>2, UpTo
  <2> QED
    BY <2>3 DEF T
<1> QED
  BY <1>0, <1>6, <1>7 DEF f, n

LEMMA NumberEmpty == Number(<< >>) = 0
<1>1. Len(<< >>) = 0
  OBVIOUS
<1> QED
  BY <1>1, NumbersIs

LEMMA NumberAppend ==
    ASSUME NEW s \in Seq(Keys), NEW x \in Keys
    PROVE  Number(s) \in Nat /\ Number(Append(s, x)) = WithDigit(Number(s), x)
<1> DEFINE t == Append(s, x)
           f == Numbers(s)
           g == Numbers(t)
           n == Len(s)
<1>0. n \in Nat /\ Len(t) = n + 1 /\ t[n + 1] = x /\ \A i \in 1..n : t[i] = s[i]
  OBVIOUS
<1>2. /\ Number(s) = f[n] /\ f[0] = 0
      /\ \A i \in 0..n : f[i] \in Nat
      /\ \A i \in 1..n : f[i] = WithDigit(f[i - 1], s[i])
  BY <1>0, NumbersIs
<1> HIDE DEF t, n
<1>1. Len(t) \in Nat
  BY <1>0
<1>3. /\ Number(t) = g[Len(t)] /\ g[0] = 0
      /\ \A i \in 1..Len(t) : g[i] = WithDigit(g[i - 1], t[i])
  BY <1>1, NumbersIs
<1>4. /\ Number(t) = g[n + 1] /\ g[0] = 0
      /\ \A i \in 1..(n + 1) : g[i] = WithDigit(g[i - 1], t[i])
  BY <1>0, <1>3
<1> HIDE DEF f, g
<1> DEFINE T == {i \in 0..n : f[i] = g[i]}
<1>7. 0 \in T
  BY <1>0, <1>2, <1>4
<1>8. ASSUME NEW i \in 0..(n - 1), i \in T PROVE i + 1 \in T
  <2>1. i + 1 \in 1..n /\ i + 1 \in 1..(n + 1) /\ (i + 1) - 1 = i /\ i + 1 \in 0..n
    BY <1>0
  <2> QED
    BY <1>0, <1>2, <1>4, <1>8, <2>1
<1> HIDE DEF T
<1>9. n \in T
  BY <1>0, <1>7, <1>8, UpTo
<1>10. f[n] = g[n] /\ g[n + 1] = WithDigit(g[n], x) /\ f[n] \in Nat
  <2>1. n + 1 \in 1..(n + 1) /\ (n + 1) - 1 = n /\ n \in 0..n
    BY <1>0
  <2> QED
    BY <1>0, <1>2, <1>4, <1>9, <2>1 DEF T
<1> QED
  BY <1>2, <1>4, <1>10 DEF t

---------------------------------------------------------------------------
(* What a key does, apart from what it does it to.                         *)

(* A binding is found, goes on, or there is none.                          *)
How(keys, univ, mode, key) ==
    LET kd == FindKey(keys, mode)
        def == FindDefault(mode)
        alone == Len(keys) = 1 /\ key \notin Special
    IN  IF kd # 0
        THEN IF first_key[kd].keys = keys THEN <<"cmd", first_key[kd].cmd>> ELSE <<"more", "">>
        ELSE IF alone /\ univ /\ key \in DOMAIN DigitOf THEN <<"digit", "">>
        ELSE IF alone /\ univ /\ key = Plain("-") THEN <<"sign", "">>
        ELSE IF alone /\ def # 0 THEN <<"cmd", first_key[def].cmd>>
        ELSE <<"none", "">>

Apply(h, e, key, recorded, o) ==
    IF h[1] = "cmd" THEN Execute(e, h[2], key, recorded, o)
    ELSE IF h[1] = "digit"
    THEN [e EXCEPT !.argval = (IF @ = NO_ARG THEN 0 ELSE @) * 10 + DigitOf[key], !.keys = << >>]
    ELSE IF h[1] = "sign" THEN [e EXCEPT !.sign = -@, !.keys = << >>]
    ELSE IF h[1] = "none" THEN Abandon(e)
    ELSE e

LEMMA DispatchIs ==
    ASSUME NEW e, NEW key, NEW recorded, NEW o
    PROVE  Dispatch(e, key, recorded, o)
             = Apply(How(e.keys, e.univ, e.mode, key), e, key, recorded, o)
<1> DEFINE kd == FindKey(e.keys, e.mode)
           def == FindDefault(e.mode)
           alone == Len(e.keys) = 1 /\ key \notin Special
           h == How(e.keys, e.univ, e.mode, key)
<1>0. Plain("-") \notin DOMAIN DigitOf
  BY DigitAssumption
<1>1. CASE kd # 0 /\ first_key[kd].keys = e.keys
  <2>1. h = <<"cmd", first_key[kd].cmd>>
    BY <1>1, Zenon DEF How
  <2>2. Dispatch(e, key, recorded, o) = Execute(e, first_key[kd].cmd, key, recorded, o)
    BY <1>1, Zenon DEF Dispatch
  <2>3. h[1] = "cmd" /\ h[2] = first_key[kd].cmd
    BY <2>1
  <2> QED
    BY <2>2, <2>3, Zenon DEF Apply
<1>2. CASE kd # 0 /\ first_key[kd].keys # e.keys
  <2>1. h = <<"more", "">>
    BY <1>2, Zenon DEF How
  <2>2. Dispatch(e, key, recorded, o) = e
    BY <1>2, Zenon DEF Dispatch
  <2> HIDE DEF h
  <2>3. h[1] = "more"
    BY <2>1
  <2>4. Apply(h, e, key, recorded, o) = e
    BY <2>3 DEF Apply
  <2> QED
    BY <2>2, <2>4 DEF h
<1>3. CASE kd = 0
  <2>1. Dispatch(e, key, recorded, o) = Unbound(e, key, recorded, o)
    BY <1>3, Zenon DEF Dispatch
  <2>2. CASE alone /\ e.univ /\ key \in DOMAIN DigitOf
    <3>1. h = <<"digit", "">>
      BY <1>3, <2>2, Zenon DEF How
    <3>2. h[1] = "digit"
      <4> HIDE DEF h
      <4> QED
        BY <3>1
    <3>3. Unbound(e, key, recorded, o) =
            [e EXCEPT !.argval = (IF @ = NO_ARG THEN 0 ELSE @) * 10 + DigitOf[key], !.keys = << >>]
      BY <1>0, <2>2, Zenon DEF Unbound
    <3> HIDE DEF h
    <3>4. Apply(h, e, key, recorded, o) =
            [e EXCEPT !.argval = (IF @ = NO_ARG THEN 0 ELSE @) * 10 + DigitOf[key], !.keys = << >>]
      BY <3>2 DEF Apply
    <3> QED
      BY <2>1, <3>3, <3>4 DEF h
  <2>3. CASE alone /\ e.univ /\ key = Plain("-")
    <3>1. h = <<"sign", "">>
      BY <1>0, <1>3, <2>3, Zenon DEF How
    <3>2. h[1] = "sign"
      <4> HIDE DEF h
      <4> QED
        BY <3>1
    <3>3. Unbound(e, key, recorded, o) = [e EXCEPT !.sign = -@, !.keys = << >>]
      BY <1>0, <2>3, Zenon DEF Unbound
    <3> HIDE DEF h
    <3>4. Apply(h, e, key, recorded, o) = [e EXCEPT !.sign = -@, !.keys = << >>]
      BY <3>2 DEF Apply
    <3> QED
      BY <2>1, <3>3, <3>4 DEF h
  <2>4. CASE alone /\ ~(e.univ /\ key \in DOMAIN DigitOf \cup {Plain("-")}) /\ def # 0
    <3>1. h = <<"cmd", first_key[def].cmd>>
      BY <1>3, <2>4, Zenon DEF How
    <3>2. h[1] = "cmd" /\ h[2] = first_key[def].cmd
      BY <3>1
    <3>3. Unbound(e, key, recorded, o) = Execute(e, first_key[def].cmd, key, recorded, o)
      BY <2>4, Zenon DEF Unbound
    <3> QED
      BY <2>1, <3>2, <3>3, Zenon DEF Apply
  <2>5. CASE /\ ~(alone /\ e.univ /\ key \in DOMAIN DigitOf)
             /\ ~(alone /\ e.univ /\ key = Plain("-"))
             /\ ~(alone /\ ~(e.univ /\ key \in DOMAIN DigitOf \cup {Plain("-")}) /\ def # 0)
    <3>0. ~(alone /\ def # 0)
      BY <2>5, Zenon
    <3>1. h = <<"none", "">>
      BY <1>3, <2>5, <3>0, Zenon DEF How
    <3>2. h[1] = "none"
      <4> HIDE DEF h
      <4> QED
        BY <3>1
    <3>3. Unbound(e, key, recorded, o) = Abandon(e)
      BY <2>5, Zenon DEF Unbound
    <3> HIDE DEF h
    <3>4. Apply(h, e, key, recorded, o) = Abandon(e)
      BY <3>2 DEF Apply
    <3> QED
      BY <2>1, <3>3, <3>4 DEF h
  <2> QED
    BY <2>2, <2>3, <2>4, <2>5, Zenon
<1> QED
  BY <1>1, <1>2, <1>3, Zenon

LEMMA Found ==
    ASSUME NEW keys, NEW mode, FindKey(keys, mode) # 0
    PROVE  LET kd == FindKey(keys, mode)
           IN  kd \in DOMAIN first_key /\ IsPrefix(keys, first_key[kd].keys)
<1> DEFINE hits == {i \in DOMAIN first_key : /\ IsPrefix(keys, first_key[i].keys)
                                             /\ first_key[i].mode \in {"any", mode}}
           kd == FindKey(keys, mode)
<1>1. kd = IF hits = {} THEN 0 ELSE Min(hits)
  BY DEF FindKey
<1>2. hits \in SUBSET Nat
  <2>1. DOMAIN first_key = 1..Len(first_key)
    BY BindingAssumption
  <2>2. \A a, b, i : i \in a..b /\ a = 1 => i \in Nat
    OBVIOUS
  <2> QED
    BY <2>1, <2>2
<1>3. hits # {} /\ kd = Min(hits)
  <2> HIDE DEF hits
  <2> QED
    BY <1>1
<1>4. \E x \in hits : \A y \in hits : x <= y
  <2> HIDE DEF hits
  <2> QED
    BY <1>2, <1>3, LeastNumber
<1>5. Min(hits) \in hits
  <2> HIDE DEF hits
  <2> QED
    BY <1>4 DEF Min
<1> QED
  BY <1>3, <1>5

ArgKeys == DOMAIN DigitOf \cup {Plain("-"), Plain("C-u")}

HowOK(h, univ, key) ==
    \/ h[1] = "cmd" /\ h[2] \in Cmds /\ (h[2] = "universal" => key = Plain("C-u"))
    \/ h[1] = "digit" /\ univ /\ key \in DOMAIN DigitOf
    \/ h[1] = "sign" /\ univ /\ key = Plain("-")
    \/ h[1] = "none"
    \/ h[1] = "more" /\ key \notin ArgKeys

LEMMA HowIs ==
    ASSUME NEW keys \in Seq(Keys), NEW key \in Keys, keys # << >>, keys[Len(keys)] = key,
           NEW univ, NEW mode
    PROVE  HowOK(How(keys, univ, mode, key), univ, key)
<1> USE DEF HowOK
<1> DEFINE kd == FindKey(keys, mode)
           def == FindDefault(mode)
           alone == Len(keys) = 1 /\ key \notin Special
           h == How(keys, univ, mode, key)
           z == Len(keys)
<1>0. h = IF kd # 0
          THEN IF first_key[kd].keys = keys THEN <<"cmd", first_key[kd].cmd>> ELSE <<"more", "">>
          ELSE IF alone /\ univ /\ key \in DOMAIN DigitOf THEN <<"digit", "">>
          ELSE IF alone /\ univ /\ key = Plain("-") THEN <<"sign", "">>
          ELSE IF alone /\ def # 0 THEN <<"cmd", first_key[def].cmd>>
          ELSE <<"none", "">>
  BY Zenon DEF How
<1>a. z \in Nat /\ z # 0
  OBVIOUS
<1> HIDE DEF h
<1>1. CASE kd # 0
  <2>1. kd \in DOMAIN first_key /\ IsPrefix(keys, first_key[kd].keys)
    BY <1>1, Found
  <2> DEFINE b == first_key[kd].keys
  <2>2. first_key[kd].cmd \in Cmds
    BY <2>1 DEF Cmds
  <2>3. /\ b \in Seq(Keys \cup {Default})
        /\ first_key[kd].cmd = "universal" => b = <<Plain("C-u")>>
        /\ \A j \in 1..(Len(b) - 1) : b[j] \notin ArgKeys
    <3> HIDE DEF kd
    <3> QED
      BY <2>1, BindingAssumption DEF ArgKeys
  <2>4. CASE b = keys
    <3>1. h = <<"cmd", first_key[kd].cmd>>
      <4> HIDE DEF kd
      <4> QED
        BY <1>0, <1>1, <2>4
    <3>2. h[1] = "cmd" /\ h[2] = first_key[kd].cmd
      <4> HIDE DEF kd
      <4> QED
        BY <3>1
    <3>3. ASSUME first_key[kd].cmd = "universal" PROVE key = Plain("C-u")
      <4>1. keys = <<Plain("C-u")>>
        BY <2>3, <2>4, <3>3
      <4> QED
        BY <4>1
    <3> QED
      BY <2>2, <3>2, <3>3 DEF h
  <2>5. CASE b # keys
    <3>1. h = <<"more", "">>
      <4> HIDE DEF kd
      <4> QED
        BY <1>0, <1>1, <2>5
    <3> HIDE DEF b, kd
    <3>2. Len(keys) <= Len(b) /\ SubSeq(keys, 1, Len(keys)) = SubSeq(b, 1, Len(keys))
      BY <2>1 DEF IsPrefix, b
    <3>3. keys = SubSeq(b, 1, z)
      BY <3>2
    <3>4. z # Len(b)
      BY <2>3, <2>5, <3>3
    <3> DEFINE m == Len(b)
    <3>5. m \in Nat /\ z <= m /\ z # m
      BY <2>3, <3>2, <3>4
    <3>6. z \in 1..(m - 1)
      <4> HIDE DEF m, z
      <4> QED
        BY <1>a, <3>5
    <3>7. b[z] = key
      <4>1. b[z] = SubSeq(b, 1, z)[z]
        BY <1>a, <2>3, <3>5
      <4> QED
        BY <3>3, <4>1
    <3>8. key \notin ArgKeys
      BY <2>3, <3>6, <3>7
    <3>9. h[1] = "more"
      BY <3>1
    <3> QED
      BY <3>8, <3>9 DEF h
  <2> QED
    BY <2>4, <2>5
<1>2. CASE kd = 0
  <2>1. CASE alone /\ univ /\ key \in DOMAIN DigitOf
    <3> HIDE DEF kd, alone, def
    <3>1. h = <<"digit", "">>
      BY <1>0, <1>2, <2>1, Zenon
    <3>2. h[1] = "digit"
      BY <3>1
    <3> QED
      BY <2>1, <3>2 DEF h
  <2>2. CASE alone /\ univ /\ key \notin DOMAIN DigitOf /\ key = Plain("-")
    <3> HIDE DEF kd, alone, def
    <3>1. h = <<"sign", "">>
      BY <1>0, <1>2, <2>2, Zenon
    <3>2. h[1] = "sign"
      BY <3>1
    <3> QED
      BY <2>2, <3>2 DEF h
  <2>3. CASE /\ ~(alone /\ univ /\ key \in DOMAIN DigitOf)
             /\ ~(alone /\ univ /\ key = Plain("-"))
             /\ alone /\ def # 0
    <3>1. h = <<"cmd", first_key[def].cmd>>
      <4> HIDE DEF kd, alone, def
      <4> QED
        BY <1>0, <1>2, <2>3, Zenon
    <3>2. def \in DOMAIN first_key /\ IsPrefix(<<Default>>, first_key[def].keys)
      BY <2>3, Found DEF FindDefault
    <3> HIDE DEF def
    <3>3. h[1] = "cmd" /\ h[2] = first_key[def].cmd /\ h[2] \in Cmds
      <4>1. h[1] = "cmd" /\ h[2] = first_key[def].cmd
        BY <3>1
      <4> QED
        BY <3>2, <4>1 DEF Cmds
    <3>4. first_key[def].cmd # "universal"
      <4> SUFFICES ASSUME first_key[def].cmd = "universal" PROVE FALSE
        OBVIOUS
      <4>1. first_key[def].keys = <<Plain("C-u")>>
        BY <3>2, BindingAssumption
      <4>2. <<Default>> = <<Plain("C-u")>>
        BY <3>2, <4>1 DEF IsPrefix
      <4> QED
        BY <4>2 DEF Default, Plain
    <3> QED
      BY <3>3, <3>4 DEF h
  <2>4. CASE /\ ~(alone /\ univ /\ key \in DOMAIN DigitOf)
             /\ ~(alone /\ univ /\ key = Plain("-"))
             /\ ~(alone /\ def # 0)
    <3> HIDE DEF kd, alone, def
    <3>1. h = <<"none", "">>
      BY <1>0, <1>2, <2>4, Zenon
    <3>2. h[1] = "none"
      BY <3>1
    <3> QED
      BY <3>2 DEF h
  <2> QED
    BY <2>1, <2>2, <2>3, <2>4, Zenon
<1> QED
  BY <1>1, <1>2

(* The argument is reset.                                                  *)
Reset(e) ==
    /\ ~e.univ /\ e.noargval = 1 /\ e.argval = NO_ARG /\ e.sign = 1
    /\ e.keys = << >> /\ e.typed = << >>

LEMMA InitType ==
    ASSUME NEW e \in Eds
    PROVE  /\ qe_key_init(e) \in Eds /\ Reset(qe_key_init(e))
           /\ [qe_key_init(e) EXCEPT !.describe = FALSE] \in Eds
           /\ Reset([qe_key_init(e) EXCEPT !.describe = FALSE])
<1>1. << >> \in Seq(Keys) /\ NO_ARG \in Int
  BY DEF NO_ARG
<1>2. qe_key_init(e) \in Eds
  <2> DEFINE a(n, v, g) == [e EXCEPT !.noargval = n, !.argval = v, !.sign = g]
             b == a(1, NO_ARG, 1)
             c == [b EXCEPT !.univ = FALSE, !.keys = << >>, !.typed = << >>]
  <2>1. \A n, v, g \in Int : a(n, v, g) \in Eds
    BY DEF Eds
  <2>2. b \in Eds
    <3> HIDE DEF a
    <3> QED
      BY <1>1, <2>1
  <2>3. c = qe_key_init(e)
    BY DEF a, b, c, qe_key_init, Eds
  <2> HIDE DEF b
  <2>4. c \in Eds
    BY <1>1, <2>2 DEF Eds
  <2> QED
    BY <2>3, <2>4
<1>3. Reset(qe_key_init(e))
  BY DEF qe_key_init, Reset, Eds
<1> DEFINE i == qe_key_init(e)
<1> HIDE DEF i
<1>4. [i EXCEPT !.describe = FALSE] \in Eds /\ Reset([i EXCEPT !.describe = FALSE])
  <2>1. i \in Eds /\ Reset(i)
    BY <1>2, <1>3 DEF i
  <2> QED
    BY <2>1 DEF Eds, Reset
<1> QED
  BY <1>2, <1>3, <1>4 DEF i

LEMMA LoggedType ==
    ASSUME NEW e \in Eds, NEW call \in Calls, NEW recorded
    PROVE  Logged(e, call, recorded) \in Eds
<1>1. Append(e.rec, call) \in Seq(Calls) /\ Append(e.run, call) \in Seq(Calls)
  BY DEF Eds
<1> QED
  BY <1>1 DEF Logged, Eds

LEMMA ArgumentType == ASSUME NEW e \in Eds PROVE Argument(e) \in Int
<1>1. e.argval \in Int /\ e.noargval \in Int /\ e.sign \in Int
  BY DEF Eds
<1>2. e.argval * e.sign \in Int
  BY <1>1
<1>3. NO_ARG \in Int
  BY DEF NO_ARG
<1> QED
  BY <1>1, <1>2, <1>3, Zenon DEF Argument

Universal(e) == [e EXCEPT !.univ = TRUE, !.noargval = @ * 4, !.keys = << >>]

LEMMA ExecuteType ==
    ASSUME NEW e \in Eds, NEW cmd \in Cmds, NEW key \in Keys, NEW recorded, NEW o \in Outcomes
    PROVE  /\ Execute(e, cmd, key, recorded, o) \in Eds
           /\ \/ Reset(Execute(e, cmd, key, recorded, o))
              \/ cmd = "universal" /\ Execute(e, cmd, key, recorded, o) = Universal(e)
<1> DEFINE r == Execute(e, cmd, key, recorded, o)
           u == [e EXCEPT !.univ = TRUE, !.noargval = @ * 4, !.keys = << >>]
           d == Logged(e, <<"describe", key>>, recorded)
           l == Logged(e, <<cmd, key, Argument(e)>>, recorded)
           x == exec_command(l, cmd, Argument(e), o)
<1>1. u \in Eds
  <2>1. e.noargval * 4 \in Int /\ << >> \in Seq(Keys)
    BY DEF Eds
  <2> QED
    BY <2>1 DEF Eds
<1>2. d \in Eds
  <2>1. <<"describe", key>> \in Calls
    BY DEF Calls
  <2> QED
    BY <2>1, LoggedType
<1>3. x \in Eds
  <2>1. <<cmd, key, Argument(e)>> \in Calls
    BY ArgumentType DEF Calls
  <2> QED
    BY <2>1, LoggedType, ArgumentType, ExecType
<1>4. r = IF cmd = "universal" /\ ~e.describe THEN u
          ELSE IF e.describe THEN [qe_key_init(d) EXCEPT !.describe = FALSE]
          ELSE qe_key_init(x)
  BY Zenon DEF Execute
<1> HIDE DEF r, u, d, l, x
<1>5. r \in Eds /\ (Reset(r) \/ (cmd = "universal" /\ r = u))
  BY <1>1, <1>2, <1>3, <1>4, InitType
<1> QED
  BY <1>5 DEF r, u, Universal

(* A command was called or none found, or a part of its argument read.     *)
Applied(r, e, key) ==
    \/ Reset(r)
    \/ /\ key = Plain("C-u")
       /\ r = [e EXCEPT !.univ = TRUE, !.noargval = @ * 4, !.keys = << >>]
    \/ /\ key \in DOMAIN DigitOf /\ e.univ
       /\ r = [e EXCEPT !.argval = (IF @ = NO_ARG THEN 0 ELSE @) * 10 + DigitOf[key],
                        !.keys = << >>]
    \/ key = Plain("-") /\ e.univ /\ r = [e EXCEPT !.sign = -@, !.keys = << >>]
    \/ key \notin ArgKeys /\ r = e

LEMMA ApplyType ==
    ASSUME NEW e \in Eds, NEW key \in Keys, NEW recorded, NEW o \in Outcomes, e.keys # << >>,
           e.keys[Len(e.keys)] = key
    PROVE  LET r == Dispatch(e, key, recorded, o)
           IN  r \in Eds /\ Applied(r, e, key)
<1> USE DEF Applied
<1> DEFINE h == How(e.keys, e.univ, e.mode, key)
           r == Dispatch(e, key, recorded, o)
<1>1. r = Apply(h, e, key, recorded, o)
  BY DispatchIs
<1>2. HowOK(h, e.univ, key)
  <2>1. e.keys \in Seq(Keys)
    BY DEF Eds
  <2> QED
    BY <2>1, HowIs, Zenon
<1>0. << >> \in Seq(Keys) /\ e.argval \in Int /\ e.sign \in Int
  BY DEF Eds
<1> HIDE DEF h
<1>3. CASE h[1] = "cmd" /\ h[2] \in Cmds /\ (h[2] = "universal" => key = Plain("C-u"))
  <2>1. r = Execute(e, h[2], key, recorded, o)
    BY <1>1, <1>3, Zenon DEF Apply
  <2> HIDE DEF r
  <2>2. /\ r \in Eds
        /\ \/ Reset(r)
           \/ /\ h[2] = "universal"
              /\ r = [e EXCEPT !.univ = TRUE, !.noargval = @ * 4, !.keys = << >>]
    <3> DEFINE c == h[2]
    <3>1. c \in Cmds /\ r = Execute(e, c, key, recorded, o)
      BY <1>3, <2>1
    <3> HIDE DEF c
    <3>2. /\ r \in Eds
          /\ Reset(r) \/ (c = "universal" /\ r = Universal(e))
      BY <3>1, ExecuteType
    <3> QED
      BY <3>2 DEF c, Universal
  <2> QED
    BY <1>3, <2>2 DEF r
<1>4. CASE h[1] = "digit" /\ e.univ /\ key \in DOMAIN DigitOf
  <2> DEFINE v == (IF e.argval = NO_ARG THEN 0 ELSE e.argval) * 10 + DigitOf[key]
  <2>1. r = [e EXCEPT !.argval = v, !.keys = << >>]
    BY <1>1, <1>4 DEF Apply
  <2>2. v \in Int
    <3> DEFINE i == IF e.argval = NO_ARG THEN 0 ELSE e.argval
    <3>1. DigitOf[key] \in Int
      BY <1>4, DigitAssumption
    <3>2. i \in Int
      BY <1>0
    <3> HIDE DEF i
    <3>3. i * 10 + DigitOf[key] \in Int
      BY <3>1, <3>2
    <3> QED
      BY <3>3 DEF i
  <2> HIDE DEF v, r
  <2>3. r \in Eds
    BY <1>0, <2>1, <2>2 DEF Eds
  <2> QED
    BY <1>4, <2>1, <2>3 DEF v, r
<1>5. CASE h[1] = "sign" /\ e.univ /\ key = Plain("-")
  <2> DEFINE v == -e.sign
  <2>1. r = [e EXCEPT !.sign = v, !.keys = << >>]
    BY <1>1, <1>5 DEF Apply
  <2>2. v \in Int
    BY <1>0
  <2> HIDE DEF v, r
  <2>3. r \in Eds
    BY <1>0, <2>1, <2>2 DEF Eds
  <2> QED
    BY <1>5, <2>1, <2>3 DEF v, r
<1>6. CASE h[1] = "none"
  <2>1. r = Abandon(e)
    BY <1>1, <1>6 DEF Apply
  <2> HIDE DEF r
  <2>2. r \in Eds /\ Reset(r)
    BY <2>1, InitType DEF Abandon
  <2> QED
    BY <2>2 DEF r
<1>7. CASE h[1] = "more" /\ key \notin ArgKeys
  <2>1. r = e
    BY <1>1, <1>7 DEF Apply
  <2> QED
    BY <1>7, <2>1
<1> QED
  BY <1>2, <1>3, <1>4, <1>5, <1>6, <1>7 DEF HowOK

(* A macro that is being defined gets the key.                             *)
LEMMA AddKeyIs ==
    ASSUME NEW e \in Eds, NEW k \in Moves
    PROVE  LET a == macro_add_key(e, k.key, k.effect)
               x == [a EXCEPT !.keys = Append(@, k.key), !.typed = Append(@, k.key)]
           IN  /\ a \in Eds /\ a = [e EXCEPT !.macro = a.macro]
               /\ a.macro = IF e.defining THEN Append(e.macro, k) ELSE e.macro
               /\ x \in Eds /\ x.keys # << >> /\ x.keys[Len(x.keys)] = k.key
<1> DEFINE key == k.key
           a == macro_add_key(e, key, k.effect)
           x == [a EXCEPT !.keys = Append(@, key), !.typed = Append(@, key)]
<1>0. key \in Keys /\ k = [key |-> key, effect |-> k.effect]
  BY DEF Moves
<1>1. a \in Eds /\ a = [e EXCEPT !.macro = a.macro]
  <2>1. Append(e.macro, k) \in Seq(Moves)
    BY DEF Eds
  <2> HIDE DEF key
  <2> QED
    BY <1>0, <2>1 DEF macro_add_key, Eds
<1>2. a.macro = IF e.defining THEN Append(e.macro, k) ELSE e.macro
  <2> HIDE DEF key
  <2> QED
    BY <1>0 DEF macro_add_key, Eds
<1> HIDE DEF a, key
<1>3. Append(a.keys, key) \in Seq(Keys) /\ Append(a.typed, key) \in Seq(Keys) /\ a.keys \in Seq(Keys)
  BY <1>0, <1>1 DEF Eds
<1>4. x \in Eds /\ x.keys = Append(a.keys, key)
  BY <1>1, <1>3 DEF Eds
<1> HIDE DEF x
<1>5. x.keys # << >> /\ x.keys[Len(x.keys)] = key
  BY <1>0, <1>3, <1>4
<1> QED
  BY <1>1, <1>2, <1>4, <1>5 DEF x, a, key

LEMMA GrabType ==
    ASSUME NEW e \in Eds, NEW key \in Keys, NEW recorded, NEW o \in Outcomes,
           NEW r \in {quote_grab_key(e, key, recorded), grab_key_cb(e, key, recorded, o)}
    PROVE  /\ r \in Eds
           /\ r.typed = e.typed /\ r.univ = e.univ /\ r.noargval = e.noargval
           /\ r.sign = e.sign /\ r.argval = e.argval
<1>l. ASSUME NEW g \in Eds, NEW c \in Calls,
             g.typed = e.typed, g.univ = e.univ, g.noargval = e.noargval,
             g.sign = e.sign, g.argval = e.argval, r = Logged(g, c, recorded)
      PROVE  /\ r \in Eds
             /\ r.typed = e.typed /\ r.univ = e.univ /\ r.noargval = e.noargval
             /\ r.sign = e.sign /\ r.argval = e.argval
  <2>1. r \in Eds
    BY <1>l, LoggedType
  <2>2. /\ r.typed = g.typed /\ r.univ = g.univ /\ r.noargval = g.noargval
        /\ r.sign = g.sign /\ r.argval = g.argval
    BY <1>l DEF Logged, Eds
  <2> QED
    BY <1>l, <2>1, <2>2
<1>c. <<"quoted", key>> \in Calls /\ <<"grabbed", key>> \in Calls
  BY DEF Calls
<1>1. CASE r = quote_grab_key(e, key, recorded)
  <2> DEFINE g == [e EXCEPT !.grab = "none"]
  <2>1. g \in Eds
    BY DEF Eds, Grabs
  <2>2. /\ g.typed = e.typed /\ g.univ = e.univ /\ g.noargval = e.noargval
        /\ g.sign = e.sign /\ g.argval = e.argval
    BY DEF Eds
  <2>3. r = Logged(g, <<"quoted", key>>, recorded)
    BY <1>1 DEF quote_grab_key
  <2> HIDE DEF g
  <2> QED
    BY <1>l, <1>c, <2>1, <2>2, <2>3
<1>2. CASE r = grab_key_cb(e, key, recorded, o)
  <2> DEFINE g == Affected(e, o)
  <2>1. g \in Eds
    BY AffectedType
  <2>2. /\ g.typed = e.typed /\ g.univ = e.univ /\ g.noargval = e.noargval
        /\ g.sign = e.sign /\ g.argval = e.argval
    BY DEF Affected, Eds
  <2>3. r = Logged(g, <<"grabbed", key>>, recorded)
    BY <1>2 DEF grab_key_cb
  <2> HIDE DEF g
  <2> QED
    BY <1>l, <1>c, <2>1, <2>2, <2>3
<1> QED
  BY <1>1, <1>2

LEMMA ProcessIs ==
    ASSUME NEW e, NEW key, NEW o
    PROVE  LET a == macro_add_key(e, key, o)
               x == [a EXCEPT !.keys = Append(@, key), !.typed = Append(@, key)]
           IN  qe_key_process(e, key, o) =
                 IF a.grab = "quote" THEN quote_grab_key(a, key, e.defining)
                 ELSE IF a.grab = "other" THEN grab_key_cb(a, key, e.defining, o)
                 ELSE Dispatch(x, key, e.defining, o)
<1> DEFINE a == macro_add_key(e, key, o)
           x == [a EXCEPT !.keys = Append(@, key), !.typed = Append(@, key)]
<1>1. CASE a.grab = "quote"
  <2>1. a.grab # "other"
    BY <1>1
  <2>2. qe_key_process(e, key, o) = quote_grab_key(a, key, e.defining)
    BY <1>1, <2>1, Zenon DEF qe_key_process
  <2> QED
    BY <1>1, <2>2
<1>2. CASE a.grab = "other"
  <2>1. a.grab # "quote"
    BY <1>2
  <2>2. qe_key_process(e, key, o) = grab_key_cb(a, key, e.defining, o)
    BY <1>2, <2>1, Zenon DEF qe_key_process
  <2> QED
    BY <1>2, <2>1, <2>2
<1>3. CASE a.grab # "quote" /\ a.grab # "other"
  <2>1. qe_key_process(e, key, o) = Dispatch(x, key, e.defining, o)
    BY <1>3, Zenon DEF qe_key_process
  <2> QED
    BY <1>3, <2>1
<1> QED
  BY <1>1, <1>2, <1>3

LEMMA ProcessType ==
    ASSUME NEW e \in Eds, NEW k \in Moves
    PROVE  qe_key_process(e, k.key, k.effect) \in Eds
<1> DEFINE key == k.key
           o == k.effect
           a == macro_add_key(e, key, o)
           x == [a EXCEPT !.keys = Append(@, key), !.typed = Append(@, key)]
<1>0. key \in Keys /\ o \in Outcomes
  BY DEF Moves
<1>1. /\ a \in Eds /\ x \in Eds /\ x.keys # << >> /\ x.keys[Len(x.keys)] = key
  BY AddKeyIs
<1>2. qe_key_process(e, key, o) =
        IF a.grab = "quote" THEN quote_grab_key(a, key, e.defining)
        ELSE IF a.grab = "other" THEN grab_key_cb(a, key, e.defining, o)
        ELSE Dispatch(x, key, e.defining, o)
  BY ProcessIs
<1> HIDE DEF a, x, key, o
<1>3. quote_grab_key(a, key, e.defining) \in Eds /\ grab_key_cb(a, key, e.defining, o) \in Eds
  BY <1>0, <1>1, GrabType
<1>4. Dispatch(x, key, e.defining, o) \in Eds
  BY <1>0, <1>1, ApplyType
<1>5. qe_key_process(e, key, o) \in Eds
  BY <1>2, <1>3, <1>4
<1> QED
  BY <1>5 DEF key, o

---------------------------------------------------------------------------
(* The argument of a command.                                              *)

NoDigits(s) == \A i \in DOMAIN s : s[i] \notin DOMAIN DigitOf

Sign(n) == IF n % 2 = 0 THEN 1 ELSE -1

(* The fields that the argument is kept in, for the keys typed.            *)
ArgsFor(s, univ, noargval, sign, argval) ==
    /\ univ <=> Count(s, Plain("C-u")) # 0
    /\ noargval = FourTo(Count(s, Plain("C-u")))
    /\ sign = Sign(Count(s, Plain("-")))
    /\ Number(s) < NO_ARG => argval = IF NoDigits(s) THEN NO_ARG ELSE Number(s)

ArgOK(e) == ArgsFor(e.typed, e.univ, e.noargval, e.sign, e.argval)

LEMMA ResetOK == ASSUME NEW e, Reset(e) PROVE ArgOK(e)
<1>1. NoDigits(<< >>)
  BY DEF NoDigits
<1>2. FourTo(0) = 1
  BY FourToNext
<1>3. Sign(0) = 1
  BY DEF Sign
<1>4. \A k : Count(<< >>, k) = 0
  BY CountEmpty
<1> QED
  BY <1>1, <1>2, <1>3, <1>4 DEF Reset, ArgOK, ArgsFor

LEMMA SignNext ==
    ASSUME NEW n \in Nat
    PROVE  Sign(n) \in Int /\ Sign(n + 1) = -Sign(n)
<1>1. n % 2 \in 0..1
  OBVIOUS
<1>2. CASE n % 2 = 0
  <2>1. (n + 1) % 2 = 1
    BY <1>2
  <2> QED
    BY <1>2, <2>1 DEF Sign
<1>3. CASE n % 2 = 1
  <2>1. (n + 1) % 2 = 0
    BY <1>3
  <2>2. Sign(n) = -1 /\ Sign(n + 1) = 1
    BY <1>3, <2>1 DEF Sign
  <2> QED
    BY <2>2
<1> QED
  BY <1>1, <1>2, <1>3

LEMMA NoDigitsAppend ==
    ASSUME NEW s \in Seq(Keys), NEW key \in Keys
    PROVE  NoDigits(Append(s, key)) <=> NoDigits(s) /\ key \notin DOMAIN DigitOf
<1> DEFINE t == Append(s, key)
           n == Len(s)
<1>1. /\ n \in Nat /\ DOMAIN s = 1..n /\ DOMAIN t = 1..(n + 1)
      /\ t[n + 1] = key /\ \A i \in 1..n : t[i] = s[i]
  OBVIOUS
<1> HIDE DEF t, n
<1>2. 1..(n + 1) = (1..n) \cup {n + 1}
  BY <1>1
<1> QED
  BY <1>1, <1>2 DEF NoDigits, t

LEMMA NumberOfNone ==
    ASSUME NEW s \in Seq(Keys), NoDigits(s)
    PROVE  Number(s) = 0
<1> DEFINE f == Numbers(s)
           n == Len(s)
<1>0. n \in Nat /\ DOMAIN s = 1..n
  OBVIOUS
<1>1. /\ Number(s) = f[n] /\ f[0] = 0
      /\ \A i \in 1..n : f[i] = WithDigit(f[i - 1], s[i])
  BY <1>0, NumbersIs
<1> HIDE DEF f, n
<1> DEFINE T == {i \in 0..n : f[i] = 0}
<1>2. 0 \in T
  BY <1>0, <1>1
<1>3. ASSUME NEW i \in 0..(n - 1), i \in T PROVE i + 1 \in T
  <2>1. i + 1 \in 1..n /\ (i + 1) - 1 = i /\ i + 1 \in 0..n
    BY <1>0
  <2>2. f[i + 1] = WithDigit(f[i], s[i + 1]) /\ s[i + 1] \notin DOMAIN DigitOf
    BY <1>0, <1>1, <2>1 DEF NoDigits
  <2> QED
    BY <1>3, <2>1, <2>2 DEF WithDigit
<1> HIDE DEF T
<1>4. n \in T
  BY <1>0, <1>2, <1>3, UpTo
<1> QED
  BY <1>1, <1>4 DEF T

(* One more key: C-u, a digit, a sign, or none of these.                   *)
LEMMA ArgsNext ==
    ASSUME NEW s \in Seq(Keys), NEW key \in Keys,
           NEW univ \in BOOLEAN, NEW noargval \in Int, NEW sign \in Int, NEW argval \in Int,
           ArgsFor(s, univ, noargval, sign, argval)
    PROVE  LET t == Append(s, key)
           IN  /\ key = Plain("C-u") => ArgsFor(t, TRUE, noargval * 4, sign, argval)
               /\ key \in DOMAIN DigitOf =>
                    ArgsFor(t, univ, noargval, sign,
                            (IF argval = NO_ARG THEN 0 ELSE argval) * 10 + DigitOf[key])
               /\ key = Plain("-") => ArgsFor(t, univ, noargval, -sign, argval)
               /\ key \notin ArgKeys => ArgsFor(t, univ, noargval, sign, argval)
<1> DEFINE t == Append(s, key)
           cu == Plain("C-u")
           minus == Plain("-")
           u == Count(s, cu)
           m == Count(s, minus)
<1>1. cu # minus /\ cu \notin DOMAIN DigitOf /\ minus \notin DOMAIN DigitOf
  BY DigitAssumption DEF Plain
<1>2. /\ u \in Nat /\ m \in Nat
      /\ Count(t, cu) = (IF key = cu THEN u + 1 ELSE u)
      /\ Count(t, minus) = (IF key = minus THEN m + 1 ELSE m)
  BY CountAppend
<1>3. Number(s) \in Nat /\ Number(t) = WithDigit(Number(s), key) /\ Number(t) >= Number(s)
  BY NumberAppend, WithDigitType
<1>4. NoDigits(t) <=> NoDigits(s) /\ key \notin DOMAIN DigitOf
  BY NoDigitsAppend
<1>5. FourTo(u) \in Nat /\ FourTo(u + 1) = 4 * FourTo(u)
  BY <1>2, FourToNext
<1>6. Sign(m) \in Int /\ Sign(m + 1) = -Sign(m)
  BY <1>2, SignNext
<1>7. /\ univ <=> u # 0
      /\ noargval = FourTo(u)
      /\ sign = Sign(m)
      /\ Number(s) < NO_ARG => argval = IF NoDigits(s) THEN NO_ARG ELSE Number(s)
  BY DEF ArgsFor
<1>8. NO_ARG \in Nat
  BY DEF NO_ARG
<1>9. NoDigits(s) => Number(s) = 0
  BY NumberOfNone
<1> HIDE DEF t, cu, minus, u, m
<1>a. ASSUME key \notin DOMAIN DigitOf
      PROVE  Number(t) < NO_ARG => argval = IF NoDigits(t) THEN NO_ARG ELSE Number(t)
  <2>1. Number(t) = Number(s)
    BY <1>3, <1>a DEF WithDigit
  <2> QED
    BY <1>4, <1>7, <1>a, <2>1
<1>10. ASSUME key = cu PROVE ArgsFor(t, TRUE, noargval * 4, sign, argval)
  <2>1. key # minus /\ key \notin DOMAIN DigitOf
    BY <1>1, <1>10
  <2>2. Count(t, cu) = u + 1 /\ u + 1 # 0 /\ Count(t, minus) = m
    BY <1>2, <1>10, <2>1
  <2>3. noargval * 4 = FourTo(u + 1)
    BY <1>5, <1>7
  <2> QED
    BY <1>7, <1>a, <2>1, <2>2, <2>3 DEF ArgsFor, cu, minus
<1>11. ASSUME key \in DOMAIN DigitOf
       PROVE  ArgsFor(t, univ, noargval, sign,
                      (IF argval = NO_ARG THEN 0 ELSE argval) * 10 + DigitOf[key])
  <2>1. key # minus /\ key # cu
    BY <1>1, <1>11
  <2>2. Count(t, cu) = u /\ Count(t, minus) = m
    BY <1>2, <2>1
  <2> DEFINE v == (IF argval = NO_ARG THEN 0 ELSE argval) * 10 + DigitOf[key]
  <2>3. ASSUME Number(t) < NO_ARG PROVE v = Number(t)
    <3>1. Number(s) < NO_ARG
      BY <1>3, <1>8, <2>3, WithDigitType
    <3>2. (IF argval = NO_ARG THEN 0 ELSE argval) = Number(s)
      <4>1. CASE NoDigits(s)
        BY <1>7, <1>9, <3>1, <4>1
      <4>2. CASE ~NoDigits(s)
        <5>1. argval = Number(s) /\ argval # NO_ARG
          BY <1>3, <1>7, <1>8, <3>1, <4>2
        <5> QED
          BY <5>1
      <4> QED
        BY <4>1, <4>2
    <3>3. v = Number(s) * 10 + DigitOf[key]
      BY <3>2
    <3> HIDE DEF v
    <3> QED
      BY <1>3, <1>11, <3>3 DEF WithDigit
  <2> HIDE DEF v
  <2>4. ~NoDigits(t)
    BY <1>4, <1>11
  <2>5. ArgsFor(t, univ, noargval, sign, v)
    BY <1>7, <2>2, <2>3, <2>4 DEF ArgsFor, cu, minus
  <2> QED
    BY <2>5 DEF v
<1>12. ASSUME key = minus PROVE ArgsFor(t, univ, noargval, -sign, argval)
  <2>1. key # cu /\ key \notin DOMAIN DigitOf
    BY <1>1, <1>12
  <2>2. Count(t, cu) = u /\ Count(t, minus) = m + 1
    BY <1>2, <1>12, <2>1
  <2>3. -sign = Sign(m + 1)
    BY <1>6, <1>7
  <2> QED
    BY <1>7, <1>a, <2>1, <2>2, <2>3 DEF ArgsFor, cu, minus
<1>13. ASSUME key \notin ArgKeys PROVE ArgsFor(t, univ, noargval, sign, argval)
  <2>1. key # cu /\ key # minus /\ key \notin DOMAIN DigitOf
    BY <1>13 DEF ArgKeys, cu, minus
  <2>2. Count(t, cu) = u /\ Count(t, minus) = m
    BY <1>2, <2>1
  <2> QED
    BY <1>7, <1>a, <2>1, <2>2 DEF ArgsFor, cu, minus
<1> QED
  BY <1>10, <1>11, <1>12, <1>13 DEF t, cu, minus

LEMMA ProcessArgs ==
    ASSUME NEW e \in Eds, NEW k \in Moves, ArgOK(e)
    PROVE  ArgOK(qe_key_process(e, k.key, k.effect))
<1> DEFINE key == k.key
           o == k.effect
           a == macro_add_key(e, key, o)
           x == [a EXCEPT !.keys = Append(@, key), !.typed = Append(@, key)]
           d == Dispatch(x, key, e.defining, o)
<1>0. key \in Keys /\ o \in Outcomes
  BY DEF Moves
<1>1. /\ a \in Eds /\ a = [e EXCEPT !.macro = a.macro]
      /\ x \in Eds /\ x.keys # << >> /\ x.keys[Len(x.keys)] = key
  BY AddKeyIs
<1>2. qe_key_process(e, key, o) =
        IF a.grab = "quote" THEN quote_grab_key(a, key, e.defining)
        ELSE IF a.grab = "other" THEN grab_key_cb(a, key, e.defining, o) ELSE d
  BY ProcessIs
<1> HIDE DEF a, key, o
<1>3. /\ a.typed = e.typed /\ a.univ = e.univ /\ a.noargval = e.noargval
      /\ a.sign = e.sign /\ a.argval = e.argval
  BY <1>1 DEF Eds
<1>4. /\ x.typed = Append(e.typed, key) /\ x.univ = e.univ /\ x.noargval = e.noargval
      /\ x.sign = e.sign /\ x.argval = e.argval
  BY <1>1, <1>3 DEF Eds
<1> HIDE DEF x
<1>5. ASSUME NEW g \in {quote_grab_key(a, key, e.defining), grab_key_cb(a, key, e.defining, o)}
      PROVE  ArgOK(g)
  <2>1. /\ g.typed = a.typed /\ g.univ = a.univ /\ g.noargval = a.noargval
        /\ g.sign = a.sign /\ g.argval = a.argval
    BY <1>0, <1>1, GrabType
  <2>2. /\ g.typed = e.typed /\ g.univ = e.univ /\ g.noargval = e.noargval
        /\ g.sign = e.sign /\ g.argval = e.argval
    BY <1>3, <2>1
  <2> QED
    BY <2>2 DEF ArgOK
<1>6. ArgOK(d)
  <2>1. Applied(d, x, key)
    <3> DEFINE rec == e.defining
    <3> HIDE DEF rec
    <3>1. d = Dispatch(x, key, rec, o)
      BY DEF rec
    <3> HIDE DEF d
    <3> QED
      BY ONLY <1>0, <1>1, <3>1, ApplyType
  <2> HIDE DEF d
  <2> DEFINE t == Append(e.typed, key)
  <2>2. /\ key = Plain("C-u") => ArgsFor(t, TRUE, e.noargval * 4, e.sign, e.argval)
        /\ key \in DOMAIN DigitOf =>
             ArgsFor(t, e.univ, e.noargval, e.sign,
                     (IF e.argval = NO_ARG THEN 0 ELSE e.argval) * 10 + DigitOf[key])
        /\ key = Plain("-") => ArgsFor(t, e.univ, e.noargval, -e.sign, e.argval)
        /\ key \notin ArgKeys => ArgsFor(t, e.univ, e.noargval, e.sign, e.argval)
    <3>1. /\ e.typed \in Seq(Keys) /\ e.univ \in BOOLEAN /\ e.noargval \in Int
          /\ e.sign \in Int /\ e.argval \in Int
      BY DEF Eds
    <3>2. ArgsFor(e.typed, e.univ, e.noargval, e.sign, e.argval)
      BY DEF ArgOK
    <3> QED
      BY <1>0, <3>1, <3>2, ArgsNext, Zenon
  <2> HIDE DEF t
  <2>a. x.typed = t
    BY <1>4 DEF t
  <2>3. CASE Reset(d)
    BY <2>3, ResetOK
  <2>4. CASE /\ key = Plain("C-u")
             /\ d = [x EXCEPT !.univ = TRUE, !.noargval = @ * 4, !.keys = << >>]
    <3>1. /\ d.typed = t /\ d.univ = TRUE /\ d.noargval = e.noargval * 4
          /\ d.sign = e.sign /\ d.argval = e.argval
      BY <1>1, <1>4, <2>4, <2>a DEF Eds
    <3> QED
      BY <2>2, <2>4, <3>1, Zenon DEF ArgOK
  <2>5. CASE /\ key \in DOMAIN DigitOf /\ x.univ
             /\ d = [x EXCEPT !.argval = (IF @ = NO_ARG THEN 0 ELSE @) * 10 + DigitOf[key],
                              !.keys = << >>]
    <3>1. /\ d.typed = t /\ d.univ = e.univ /\ d.noargval = e.noargval
          /\ d.sign = e.sign
          /\ d.argval = (IF e.argval = NO_ARG THEN 0 ELSE e.argval) * 10 + DigitOf[key]
      BY <1>1, <1>4, <2>5, <2>a DEF Eds
    <3> QED
      BY <2>2, <2>5, <3>1, Zenon DEF ArgOK
  <2>6. CASE key = Plain("-") /\ x.univ /\ d = [x EXCEPT !.sign = -@, !.keys = << >>]
    <3>1. /\ d.typed = t /\ d.univ = e.univ /\ d.noargval = e.noargval
          /\ d.sign = -e.sign /\ d.argval = e.argval
      BY <1>1, <1>4, <2>6, <2>a DEF Eds
    <3> QED
      BY <2>2, <2>6, <3>1, Zenon DEF ArgOK
  <2>7. CASE key \notin ArgKeys /\ d = x
    BY <1>4, <2>2, <2>7, <2>a, Zenon DEF ArgOK
  <2> QED
    BY <2>1, <2>3, <2>4, <2>5, <2>6, <2>7 DEF Applied
<1>7. ArgOK(qe_key_process(e, key, o))
  BY <1>2, <1>5, <1>6
<1> QED
  BY <1>7 DEF key, o

(* The argument is the one that was typed, and all values have their type. *)
EdInv == ed \in Eds /\ ArgOK(ed) /\ ed.index >= -1

LEMMA Constructed ==
    ASSUME NEW e \in Eds, NEW i \in Int, NEW p \in Nat, NEW s \in BOOLEAN, NEW r \in Seq(Calls)
    PROVE  /\ [e EXCEPT !.index = i, !.run = r, !.same = s] \in Eds
           /\ [e EXCEPT !.index = i, !.pending = p, !.run = r, !.same = s] \in Eds
BY DEF Eds

LEMMA SameArgs ==
    ASSUME NEW e \in Eds, NEW r, ArgOK(e), r.typed = e.typed, r.univ = e.univ,
           r.noargval = e.noargval, r.sign = e.sign, r.argval = e.argval
    PROVE  ArgOK(r)
BY DEF ArgOK

---------------------------------------------------------------------------
(* What a command does to the keys that follow does not depend on macros.  *)

(* All that the meaning of the next keys depends on.                       *)
Core(e) == <<e.argval, e.noargval, e.sign, e.univ, e.keys, e.describe, e.grab, e.mode,
             e.typed, e.fault>>

(* Nothing else depends on the keys that a macro has collected.            *)
LEMMA MacroOnly ==
    ASSUME NEW e \in Eds, NEW m, NEW a, a = [e EXCEPT !.macro = m]
    PROVE  /\ Core(a) = Core(e) /\ a.index = e.index /\ a.same = e.same /\ a.run = e.run
           /\ a.rec = e.rec /\ a.recmode = e.recmode /\ a.defining = e.defining
           /\ a.pending = e.pending
<1>1. /\ a.argval = e.argval /\ a.noargval = e.noargval /\ a.sign = e.sign /\ a.univ = e.univ
      /\ a.keys = e.keys /\ a.describe = e.describe /\ a.grab = e.grab /\ a.mode = e.mode
      /\ a.typed = e.typed /\ a.fault = e.fault
  BY DEF Eds
<1>2. /\ a.index = e.index /\ a.same = e.same /\ a.run = e.run
      /\ a.rec = e.rec /\ a.recmode = e.recmode /\ a.defining = e.defining
      /\ a.pending = e.pending
  BY DEF Eds
<1> QED
  BY <1>1, <1>2, Zenon DEF Core

(* The calls of a command take e0 to e and d0 to d, where no definition is *)
(* under way in d0 and a macro is replayed: the keys that follow mean the  *)
(* same, and d shows whether a definition was begun.                       *)
Quiet(e0, e, d, cmd) ==
    /\ d.macro # << >> /\ ~d.defining
    /\ e.macro = e0.macro /\ e.rec = e0.rec /\ e.recmode = e0.recmode
    /\ e.defining => e0.defining
    /\ cmd = "start" => e.defining = e0.defining /\ Core(e) = Core(e0)

Anew(e0, e, d) ==
    /\ e.macro = << >> /\ e.rec = << >> /\ e.recmode = e.mode
    /\ e.defining = IF e0.defining THEN ~d.defining ELSE d.defining

Ended(e0, e, d) ==
    /\ e0.defining /\ ~e.defining /\ d.defining
    /\ e.macro = e0.macro /\ e.rec = e0.rec /\ e.recmode = e0.recmode

Follows(e0, d0, e, d, cmd) ==
    /\ Core(e) = Core(d)
    /\ e.index = e0.index /\ e.run = e0.run /\ e.same = e0.same
    /\ e.defining \/ cmd = "start" => e.pending = e0.pending
    /\ d.index = 0 /\ d.run = d0.run
    /\ \/ Quiet(e0, e, d, cmd)
       \/ /\ cmd = "start" /\ d.macro = << >> /\ Core(e) = Core(e0)
          /\ Anew(e0, e, d) \/ Ended(e0, e, d)

LEMMA CoreFields ==
    ASSUME NEW e, NEW d
    PROVE  Core(e) = Core(d) <=>
             /\ e.argval = d.argval /\ e.noargval = d.noargval /\ e.sign = d.sign
             /\ e.univ = d.univ /\ e.keys = d.keys /\ e.describe = d.describe
             /\ e.grab = d.grab /\ e.mode = d.mode /\ e.typed = d.typed /\ e.fault = d.fault
BY DEF Core

(* Two states that one field is changed in.                                *)
LEMMA StartFollows ==
    ASSUME NEW e0 \in Eds, NEW d0 \in Eds, NEW e \in Eds, NEW d \in Eds,
           Follows(e0, d0, e, d, "start")
    PROVE  Follows(e0, d0, do_start_macro(e), do_start_macro(d), "start")
<1> DEFINE x == do_start_macro(e)
           y == do_start_macro(d)
<1>1. /\ Core(x) = Core(e) /\ x.index = e.index /\ x.run = e.run /\ x.same = e.same
      /\ x.defining = ~e.defining /\ x.mode = e.mode /\ x.pending = e.pending
      /\ IF e.defining THEN x.macro = e.macro /\ x.rec = e.rec /\ x.recmode = e.recmode
         ELSE x.macro = << >> /\ x.rec = << >> /\ x.recmode = e.mode
  BY DEF do_start_macro, Eds, Core
<1>2. /\ Core(y) = Core(d) /\ y.index = d.index /\ y.run = d.run
      /\ y.defining = ~d.defining
      /\ y.macro = IF d.defining THEN d.macro ELSE << >>
  BY DEF do_start_macro, Eds, Core
<1>3. /\ e.defining \in BOOLEAN /\ d.defining \in BOOLEAN /\ e0.defining \in BOOLEAN
  BY DEF Eds
<1> HIDE DEF x, y
<1>4. /\ Core(x) = Core(y) /\ x.index = e0.index /\ x.run = e0.run /\ x.same = e0.same
      /\ y.index = 0 /\ y.run = d0.run /\ Core(x) = Core(e0) /\ x.pending = e0.pending
  BY <1>1, <1>2 DEF Follows, Quiet
<1>5. CASE Quiet(e0, e, d, "start")
  <2>1. y.macro = << >> /\ y.defining /\ e.defining = e0.defining
    BY <1>2, <1>3, <1>5 DEF Quiet
  <2>2. CASE e.defining
    <3>1. Ended(e0, x, y)
      BY <1>1, <1>3, <1>5, <2>1, <2>2 DEF Ended, Quiet
    <3> QED
      BY <1>4, <2>1, <3>1 DEF Follows, x, y
  <2>3. CASE ~e.defining
    <3>1. Anew(e0, x, y)
      BY <1>1, <1>3, <2>1, <2>3 DEF Anew
    <3> QED
      BY <1>4, <2>1, <3>1 DEF Follows, x, y
  <2> QED
    BY <2>2, <2>3
<1>6. CASE d.macro = << >> /\ Anew(e0, e, d)
  <2>1. Anew(e0, x, y) /\ y.macro = << >>
    BY <1>1, <1>2, <1>3, <1>6 DEF Anew
  <2> QED
    BY <1>4, <2>1 DEF Follows, x, y
<1>7. CASE d.macro = << >> /\ Ended(e0, e, d)
  <2>1. Anew(e0, x, y) /\ y.macro = << >>
    BY <1>1, <1>2, <1>3, <1>7 DEF Anew, Ended
  <2> QED
    BY <1>4, <2>1 DEF Follows, x, y
<1> QED
  BY <1>5, <1>6, <1>7 DEF Follows

(* What commands other than start-kbd-macro change.                        *)
LEMMA OtherFollows ==
    ASSUME NEW e0, NEW d0, NEW e, NEW d, NEW x, NEW y, NEW cmd, cmd # "start",
           Follows(e0, d0, e, d, cmd), Core(x) = Core(y),
           x.index = e.index, x.run = e.run, x.same = e.same,
           x.macro = e.macro, x.rec = e.rec, x.recmode = e.recmode, x.defining => e.defining,
           x.defining => x.pending = e.pending,
           y.index = d.index, y.run = d.run, y.macro = d.macro, y.defining = d.defining
    PROVE  Follows(e0, d0, x, y, cmd)
BY DEF Follows, Quiet

LEMMA AffectedFollows ==
    ASSUME NEW e0 \in Eds, NEW d0 \in Eds, NEW e \in Eds, NEW d \in Eds, NEW cmd,
           cmd # "start", NEW o \in Outcomes, Follows(e0, d0, e, d, cmd), Core(e) = Core(d)
    PROVE  Follows(e0, d0, Affected(e, o), Affected(d, o), cmd)
<1> DEFINE x == Affected(e, o)
           y == Affected(d, o)
<1>1. Core(x) = Core(y)
  BY DEF Affected, Eds, Core
<1>2. /\ x.index = e.index /\ x.run = e.run /\ x.same = e.same
      /\ x.macro = e.macro /\ x.rec = e.rec /\ x.recmode = e.recmode
      /\ x.defining = e.defining /\ x.pending = e.pending
  BY DEF Affected, Eds
<1>3. y.index = d.index /\ y.run = d.run /\ y.macro = d.macro /\ y.defining = d.defining
  BY DEF Affected, Eds
<1> HIDE DEF x, y
<1>4. Follows(e0, d0, x, y, cmd)
  BY <1>1, <1>2, <1>3, OtherFollows
<1> QED
  BY <1>4 DEF x, y

LEMMA CallIs ==
    ASSUME NEW e, NEW o
    PROVE  /\ Call("start", e, o) = do_start_macro(e)
           /\ Call("end", e, o) = do_end_macro(e)
           /\ Call("call", e, o) = do_call_macro(e)
           /\ Call("quote", e, o) = [e EXCEPT !.grab = "quote"]
           /\ Call("describe", e, o) = [e EXCEPT !.describe = TRUE]
<1>1. \A cmd \in {"start", "end", "call", "quote", "describe"} : cmd \notin Switching
  BY CommandAssumption
<1> QED
  BY <1>1 DEF Call

LEMMA CallFollows ==
    ASSUME NEW e0 \in Eds, NEW d0 \in Eds, NEW e \in Eds, NEW d \in Eds, NEW cmd,
           NEW o \in Outcomes, Follows(e0, d0, e, d, cmd)
    PROVE  Follows(e0, d0, Call(cmd, e, o), Call(cmd, d, o), cmd)
<1> DEFINE x == Call(cmd, e, o)
           y == Call(cmd, d, o)
<1>1. CASE cmd = "start"
  BY <1>1, StartFollows, CallIs
<1>q. ASSUME cmd # "start"
      PROVE  Core(e) = Core(d) /\ d.index = 0 /\ ~d.defining /\ d.macro # << >>
  BY <1>q DEF Follows, Quiet
<1>c. /\ e.describe = d.describe /\ e.grab = d.grab /\ e.mode = d.mode /\ e.fault = d.fault
  BY CoreFields DEF Follows
<1>2. CASE cmd = "end"
  <2>1. x = do_end_macro(e) /\ y = do_end_macro(d)
    BY <1>2, CallIs
  <2>2. d.index # -1
    BY <1>2, <1>q
  <2>3. y = d
    BY <2>1, <2>2 DEF do_end_macro
  <2> HIDE DEF x, y
  <2>4. /\ Core(x) = Core(e)
        /\ x.index = e.index /\ x.run = e.run /\ x.same = e.same
        /\ x.macro = e.macro /\ x.rec = e.rec /\ x.recmode = e.recmode
        /\ x.defining => e.defining
        /\ x.defining => x.pending = e.pending
    BY <2>1 DEF do_end_macro, Eds, Core
  <2>5. Follows(e0, d0, x, y, cmd)
    BY <1>2, <1>q, <2>3, <2>4, OtherFollows
  <2> QED
    BY <2>5 DEF x, y
<1>3. CASE cmd = "call"
  <2>1. x = do_call_macro(e) /\ y = do_call_macro(d)
    BY <1>3, CallIs
  <2> HIDE DEF x, y
  <2>4. /\ Core(x) = Core(e)
        /\ x.index = e.index /\ x.run = e.run /\ x.same = e.same
        /\ x.macro = e.macro /\ x.rec = e.rec /\ x.recmode = e.recmode
        /\ x.defining => e.defining
        /\ x.defining => x.pending = e.pending
    BY <2>1 DEF do_call_macro, Eds, Core
  <2>5. ~d.defining
    BY <1>3, <1>q
  <2>6. /\ Core(y) = Core(d) /\ y.index = d.index /\ y.run = d.run
        /\ y.macro = d.macro /\ y.defining = d.defining
    BY <2>1, <2>5 DEF do_call_macro, Eds, Core
  <2>7. Follows(e0, d0, x, y, cmd)
    BY <1>3, <1>q, <2>4, <2>6, OtherFollows
  <2> QED
    BY <2>7 DEF x, y
<1>4. CASE cmd \in Switching
  <2>0. cmd \notin {"universal", "start", "end", "call", "quote", "describe", "ask", "exit"}
    BY <1>4, CommandAssumption
  <2>1. x = Affected(e, o) /\ y = Affected(d, o)
    BY <1>4, <2>0, Zenon DEF Call
  <2>2. Core(e) = Core(d)
    BY <1>q, <2>0
  <2>3. Follows(e0, d0, Affected(e, o), Affected(d, o), cmd)
    BY <2>0, <2>2, AffectedFollows
  <2> QED
    BY <2>1, <2>3
<1>5. CASE cmd = "quote" \/ cmd = "describe"
  <2>0. CASE cmd = "quote"
    <3>1. x = [e EXCEPT !.grab = "quote"] /\ y = [d EXCEPT !.grab = "quote"]
      BY <2>0, CallIs
    <3> HIDE DEF x, y
    <3>2. Core(e) = Core(d)
      BY <2>0, <1>q
    <3>3. Core(x) = Core(y)
      BY <3>1, <3>2 DEF Eds, Core
    <3>4. /\ x.index = e.index /\ x.run = e.run /\ x.same = e.same
          /\ x.macro = e.macro /\ x.rec = e.rec /\ x.recmode = e.recmode
          /\ x.defining = e.defining /\ x.pending = e.pending
      BY <3>1 DEF Eds
    <3>6. /\ y.index = d.index /\ y.run = d.run
          /\ y.macro = d.macro /\ y.defining = d.defining
      BY <3>1 DEF Eds
    <3>7. Follows(e0, d0, x, y, cmd)
      BY <2>0, <3>3, <3>4, <3>6, OtherFollows
    <3> QED
      BY <3>7 DEF x, y
  <2>1. CASE cmd = "describe"
    <3>1. x = [e EXCEPT !.describe = TRUE] /\ y = [d EXCEPT !.describe = TRUE]
      BY <2>1, CallIs
    <3> HIDE DEF x, y
    <3>2. Core(e) = Core(d)
      BY <2>1, <1>q
    <3>3. Core(x) = Core(y)
      BY <3>1, <3>2 DEF Eds, Core
    <3>4. /\ x.index = e.index /\ x.run = e.run /\ x.same = e.same
          /\ x.macro = e.macro /\ x.rec = e.rec /\ x.recmode = e.recmode
          /\ x.defining = e.defining /\ x.pending = e.pending
      BY <3>1 DEF Eds
    <3>6. /\ y.index = d.index /\ y.run = d.run
          /\ y.macro = d.macro /\ y.defining = d.defining
      BY <3>1 DEF Eds
    <3>7. Follows(e0, d0, x, y, cmd)
      BY <2>1, <3>3, <3>4, <3>6, OtherFollows
    <3> QED
      BY <3>7 DEF x, y
  <2> QED
    BY <1>5, <2>0, <2>1
<1>6. CASE cmd \notin {"start", "end", "call", "quote", "describe"} \cup Switching
  <2>1. x = e /\ y = d
    BY <1>6 DEF Call
  <2> QED
    BY <2>1
<1> QED
  BY <1>1, <1>2, <1>3, <1>4, <1>5, <1>6

LEMMA ExecFollows ==
    ASSUME NEW e \in Eds, NEW d \in Eds, NEW cmd, NEW a \in Int, NEW o \in Outcomes,
           Core(e) = Core(d), d.index = 0, d.macro # << >>, ~d.defining
    PROVE  Follows(e, d, exec_command(e, cmd, a, o), exec_command(d, cmd, a, o), cmd)
<1>0. Follows(e, d, e, d, cmd)
  BY DEF Follows, Quiet
<1>m. \A x, y \in {e, d} : Core(x) = Core(y) /\ x.mode = y.mode
  BY CoreFields
<1>1. CASE cmd = "ask"
  <2>1. CASE o.mode = "minibuffer"
    <3> DEFINE x == [e EXCEPT !.mode = "minibuffer"]
               y == [d EXCEPT !.mode = "minibuffer"]
    <3>1. x = exec_command(e, cmd, a, o) /\ y = exec_command(d, cmd, a, o)
      BY <1>1, <2>1, ExecAsk DEF minibuffer_edit
    <3>2. /\ x.index = e.index /\ x.run = e.run /\ x.same = e.same
          /\ x.macro = e.macro /\ x.rec = e.rec /\ x.recmode = e.recmode
          /\ x.defining = e.defining /\ x.pending = e.pending
      BY DEF Eds
    <3>3. /\ y.index = d.index /\ y.run = d.run
          /\ y.macro = d.macro /\ y.defining = d.defining
      BY DEF Eds
    <3>4. Core(x) = Core(y)
      BY DEF Eds, Core
    <3> HIDE DEF x, y
    <3>5. Follows(e, d, x, y, cmd)
      BY <1>0, <1>1, <3>2, <3>3, <3>4, OtherFollows
    <3> QED
      BY <3>1, <3>5
  <2>2. CASE o.mode # "minibuffer"
    <3>1. e = exec_command(e, cmd, a, o) /\ d = exec_command(d, cmd, a, o)
      BY <1>1, <2>2, ExecAsk DEF minibuffer_edit
    <3> QED
      BY <1>0, <3>1
  <2> QED
    BY <2>1, <2>2
<1>3. CASE cmd = "exit"
  <2>1. CASE Times(a) > 1 \/ e.mode # "minibuffer"
    <3> DEFINE x == [e EXCEPT !.fault = TRUE]
               y == [d EXCEPT !.fault = TRUE]
    <3>1. x = exec_command(e, cmd, a, o) /\ y = exec_command(d, cmd, a, o)
      BY <1>3, <1>m, <2>1, ExecAsk DEF do_minibuffer_exit
    <3>2. /\ x.index = e.index /\ x.run = e.run /\ x.same = e.same
          /\ x.macro = e.macro /\ x.rec = e.rec /\ x.recmode = e.recmode
          /\ x.defining = e.defining /\ x.pending = e.pending
      BY DEF Eds
    <3>3. /\ y.index = d.index /\ y.run = d.run
          /\ y.macro = d.macro /\ y.defining = d.defining
      BY DEF Eds
    <3>4. Core(x) = Core(y)
      BY DEF Eds, Core
    <3> HIDE DEF x, y
    <3>5. Follows(e, d, x, y, cmd)
      BY <1>0, <1>3, <3>2, <3>3, <3>4, OtherFollows
    <3> QED
      BY <3>1, <3>5
  <2>2. CASE ~(Times(a) > 1 \/ e.mode # "minibuffer")
    <3>1. /\ Affected(e, o) = exec_command(e, cmd, a, o)
          /\ Affected(d, o) = exec_command(d, cmd, a, o)
      BY <1>3, <1>m, <2>2, ExecAsk DEF do_minibuffer_exit
    <3>2. Follows(e, d, Affected(e, o), Affected(d, o), cmd)
      BY <1>0, <1>3, AffectedFollows
    <3> QED
      BY <3>1, <3>2
  <2> QED
    BY <2>1, <2>2
<1>2. CASE cmd # "ask" /\ cmd # "exit"
  <2> DEFINE n == Times(a)
             f == Called(e, cmd, n, o)
             g == Called(d, cmd, n, o)
             T == {i \in 0..n : Follows(e, d, f[i], g[i], cmd)}
  <2>1. n \in Nat
    BY TimesType
  <2> HIDE DEF n
  <2>0. Repeats(f, e, cmd, n, o)
    BY <2>1, CalledIs
  <2>z. Repeats(g, d, cmd, n, o)
    BY <2>1, CalledIs
  <2> HIDE DEF f, g
  <2>2. /\ f \in [0..n -> Eds] /\ f[0] = e
        /\ \A i \in 1..n : f[i] = Call(cmd, f[i - 1], o)
    BY <2>0 DEF Repeats
  <2>3. /\ g \in [0..n -> Eds] /\ g[0] = d
        /\ \A i \in 1..n : g[i] = Call(cmd, g[i - 1], o)
    BY <2>z DEF Repeats
  <2>4. 0 \in T
    BY <1>0, <2>1, <2>2, <2>3
  <2>5. ASSUME NEW i \in 0..(n - 1), i \in T PROVE i + 1 \in T
    <3>1. i + 1 \in 1..n /\ (i + 1) - 1 = i /\ i + 1 \in 0..n /\ i \in 0..n
      BY <2>1
    <3>2. f[i] \in Eds /\ g[i] \in Eds /\ f[i + 1] = Call(cmd, f[i], o) /\ g[i + 1] = Call(cmd, g[i], o)
      BY <2>2, <2>3, <3>1
    <3>3. Follows(e, d, f[i], g[i], cmd)
      BY <2>5
    <3>4. Follows(e, d, Call(cmd, f[i], o), Call(cmd, g[i], o), cmd)
      BY <3>2, <3>3, CallFollows
    <3> QED
      BY <3>1, <3>2, <3>4
  <2> HIDE DEF T
  <2>6. n \in T
    BY <2>1, <2>4, <2>5, UpTo
  <2>7. Follows(e, d, f[n], g[n], cmd)
    BY <2>6 DEF T
  <2>8. exec_command(e, cmd, a, o) = f[n] /\ exec_command(d, cmd, a, o) = g[n]
    BY <1>2, ExecIs DEF f, g, n
  <2> QED
    BY <2>7, <2>8
<1> QED
  BY <1>1, <1>2, <1>3

---------------------------------------------------------------------------
(* One key.                                                                *)

(* A call is logged, or not.                                               *)
Logs(q, c, s) == IF q THEN Append(s, c) ELSE s

(* The state in which the definition of a macro begins.                    *)
Clean(mode) ==
    [argval |-> NO_ARG, noargval |-> 1, sign |-> 1, univ |-> FALSE, keys |-> << >>,
     describe |-> FALSE, grab |-> "none", defining |-> FALSE, macro |-> << >>,
     index |-> 0, pending |-> 0, mode |-> mode, fault |-> FALSE,
     typed |-> << >>, rec |-> << >>, run |-> << >>, recmode |-> mode, same |-> TRUE]

(* A key takes e to r and t, in which the same keys are pending, a macro   *)
(* is replayed and none is defined, to d; mac is the macro with the key.   *)
Silent(e, mac, r, d, q, c) ==
    /\ d.macro # << >> /\ ~d.defining /\ (r.defining => e.defining)
    /\ r.macro = mac /\ r.rec = Logs(q /\ e.defining, c, e.rec) /\ r.recmode = e.recmode

Begun(e, r, d) ==
    /\ d.macro = << >> /\ Anew(e, r, d) /\ Core(r) = Core(Clean(r.mode))

Closed(e, mac, r, d, q, c) ==
    /\ d.macro = << >> /\ e.defining /\ ~r.defining /\ d.defining
    /\ r.macro = mac /\ r.rec = Logs(q, c, e.rec) /\ r.recmode = e.recmode

Stepped(e, t, mac, r, d, q, c) ==
    /\ Core(r) = Core(d) /\ r.index = e.index /\ r.same = e.same
    /\ r.defining => r.pending = e.pending
    /\ d.run = Logs(q, c, t.run)
    /\ r.run = Logs(q /\ e.index # -1, c, e.run)
    /\ Silent(e, mac, r, d, q, c) \/ Begun(e, r, d) \/ Closed(e, mac, r, d, q, c)

Steps(e, t, mac, r, d) ==
    \E q \in BOOLEAN, c \in Calls \cup {None} : Stepped(e, t, mac, r, d, q, c)

LEMMA InitCore ==
    ASSUME NEW e \in Eds
    PROVE  LET i == qe_key_init(e)
           IN  /\ Core(i) = <<NO_ARG, 1, 1, FALSE, << >>, e.describe, e.grab, e.mode,
                              << >>, e.fault>>
               /\ i.index = e.index /\ i.run = e.run /\ i.same = e.same /\ i.macro = e.macro
               /\ i.rec = e.rec /\ i.recmode = e.recmode /\ i.defining = e.defining
               /\ i.mode = e.mode /\ i.pending = e.pending
BY DEF qe_key_init, Core, Eds

LEMMA InitSame ==
    ASSUME NEW e \in Eds, NEW d \in Eds, Core(e) = Core(d)
    PROVE  Core(qe_key_init(e)) = Core(qe_key_init(d))
<1>1. e.describe = d.describe /\ e.grab = d.grab /\ e.mode = d.mode /\ e.fault = d.fault
  BY CoreFields
<1> QED
  BY <1>1, InitCore

LEMMA LoggedCore ==
    ASSUME NEW e \in Eds, NEW c, NEW recorded
    PROVE  LET i == Logged(e, c, recorded)
           IN  /\ Core(i) = Core(e)
               /\ i.index = e.index /\ i.run = Logs(e.index # -1, c, e.run)
               /\ i.same = e.same /\ i.macro = e.macro
               /\ i.rec = Logs(recorded, c, e.rec)
               /\ i.recmode = e.recmode /\ i.defining = e.defining /\ i.pending = e.pending
BY DEF Logged, Core, Logs, Eds

LEMMA LoggedOnce ==
    ASSUME NEW y \in Eds, y.index = 0, NEW c
    PROVE  LET i == Logged(y, c, FALSE)
           IN  /\ Core(i) = Core(y) /\ i.run = Append(y.run, c) /\ i.macro = y.macro
               /\ i.defining = y.defining /\ i.index = y.index
<1> DEFINE i == Logged(y, c, FALSE)
<1>1. Core(i) = Core(y) /\ i.macro = y.macro /\ i.defining = y.defining /\ i.index = y.index
  BY DEF Logged, Core, Eds
<1>2. i.run = Append(y.run, c)
  BY DEF Logged, Eds
<1> QED
  BY <1>1, <1>2

(* Only the keys that follow are changed.                                  *)
LEMMA SilentStep ==
    ASSUME NEW e \in Eds, NEW t \in Eds, NEW r, NEW d, Core(r) = Core(d),
           t.macro # << >>, ~t.defining,
           r.index = e.index, r.same = e.same, r.run = e.run, r.macro = e.macro,
           r.rec = e.rec, r.recmode = e.recmode, r.defining = e.defining, r.pending = e.pending,
           d.run = t.run, d.macro = t.macro, d.defining = t.defining
    PROVE  Steps(e, t, e.macro, r, d)
<1>1. Stepped(e, t, e.macro, r, d, FALSE, None)
  BY DEF Stepped, Silent, Logs
<1> QED
  BY <1>1 DEF Steps

LEMMA ExecuteSteps ==
    ASSUME NEW x \in Eds, NEW y \in Eds, Core(x) = Core(y),
           y.index = 0, y.macro # << >>, ~y.defining, x.grab = "none", ~x.fault,
           NEW cmd \in Cmds, NEW key \in Keys, NEW o \in Outcomes
    PROVE  Steps(x, y, x.macro, Execute(x, cmd, key, x.defining, o),
                 Execute(y, cmd, key, FALSE, o))
<1> DEFINE r == Execute(x, cmd, key, x.defining, o)
           d == Execute(y, cmd, key, FALSE, o)
<1>0. /\ x.argval = y.argval /\ x.noargval = y.noargval /\ x.sign = y.sign
      /\ x.univ = y.univ /\ x.keys = y.keys /\ x.describe = y.describe
      /\ x.grab = y.grab /\ x.mode = y.mode /\ x.typed = y.typed /\ x.fault = y.fault
  BY CoreFields
<1>1. CASE cmd = "universal" /\ ~x.describe
  <2>1. /\ r = [x EXCEPT !.univ = TRUE, !.noargval = @ * 4, !.keys = << >>]
        /\ d = [y EXCEPT !.univ = TRUE, !.noargval = @ * 4, !.keys = << >>]
    BY <1>0, <1>1, Zenon DEF Execute
  <2> HIDE DEF r, d
  <2>2. Core(r) = Core(d)
    BY <1>0, <2>1 DEF Core, Eds
  <2>3. /\ r.index = x.index /\ r.same = x.same /\ r.run = x.run /\ r.macro = x.macro
        /\ r.rec = x.rec /\ r.recmode = x.recmode /\ r.defining = x.defining
        /\ r.pending = x.pending
    BY <2>1 DEF Eds
  <2>4. d.run = y.run /\ d.macro = y.macro /\ d.defining = y.defining
    BY <2>1 DEF Eds
  <2>5. Steps(x, y, x.macro, r, d)
    BY <2>2, <2>3, <2>4, SilentStep
  <2> QED
    BY <2>5 DEF r, d
<1>2. CASE x.describe
  <2> DEFINE c == <<"describe", key>>
             lx == Logged(x, c, x.defining)
             ly == Logged(y, c, FALSE)
             ix == qe_key_init(lx)
             iy == qe_key_init(ly)
  <2>1. r = [ix EXCEPT !.describe = FALSE] /\ d = [iy EXCEPT !.describe = FALSE]
    BY <1>0, <1>2, Zenon DEF Execute
  <2>2. c \in Calls
    BY DEF Calls
  <2> HIDE DEF c, r, d
  <2>3. lx \in Eds /\ ly \in Eds
    BY <2>2, LoggedType
  <2>4. /\ Core(lx) = Core(x)
        /\ lx.index = x.index /\ lx.run = Logs(x.index # -1, c, x.run)
        /\ lx.same = x.same /\ lx.macro = x.macro /\ lx.rec = Logs(x.defining, c, x.rec)
        /\ lx.recmode = x.recmode /\ lx.defining = x.defining /\ lx.pending = x.pending
    BY LoggedCore
  <2>5. /\ Core(ly) = Core(y) /\ ly.run = Append(y.run, c) /\ ly.macro = y.macro
        /\ ly.defining = y.defining
    BY LoggedOnce
  <2> HIDE DEF lx, ly
  <2>6. Core(ix) = Core(iy)
    BY <2>3, <2>4, <2>5, InitSame
  <2>7. ix \in Eds /\ iy \in Eds
    BY <2>3, InitType
  <2>8. /\ ix.index = lx.index /\ ix.run = lx.run /\ ix.same = lx.same /\ ix.macro = lx.macro
        /\ ix.rec = lx.rec /\ ix.recmode = lx.recmode /\ ix.defining = lx.defining
        /\ ix.pending = lx.pending
    BY <2>3, InitCore
  <2>9. iy.run = ly.run /\ iy.macro = ly.macro /\ iy.defining = ly.defining
    BY <2>3, InitCore
  <2> HIDE DEF ix, iy
  <2>10. Core(r) = Core(d)
    BY <2>1, <2>6, <2>7 DEF Core, Eds
  <2>11. /\ r.index = ix.index /\ r.run = ix.run /\ r.same = ix.same /\ r.macro = ix.macro
         /\ r.rec = ix.rec /\ r.recmode = ix.recmode /\ r.defining = ix.defining
         /\ r.pending = ix.pending
    BY <2>1, <2>7 DEF Eds
  <2>12. d.run = iy.run /\ d.macro = iy.macro /\ d.defining = iy.defining
    BY <2>1, <2>7 DEF Eds
  <2>13. Stepped(x, y, x.macro, r, d, TRUE, c)
    <3>1. Silent(x, x.macro, r, d, TRUE, c)
      BY <2>4, <2>5, <2>8, <2>9, <2>11, <2>12 DEF Silent, Logs
    <3>2. d.run = Logs(TRUE, c, y.run)
      BY <2>5, <2>9, <2>12 DEF Logs
    <3>3. r.run = Logs(TRUE /\ x.index # -1, c, x.run)
      BY <2>4, <2>8, <2>11 DEF Logs
    <3> QED
      BY <2>4, <2>8, <2>10, <2>11, <3>1, <3>2, <3>3 DEF Stepped
  <2> QED
    BY <2>2, <2>13 DEF Steps, r, d
<1>3. CASE cmd # "universal" /\ ~x.describe
  <2> DEFINE a == Argument(x)
             c == <<cmd, key, a>>
             lx == Logged(x, c, x.defining)
             ly == Logged(y, c, FALSE)
             fx == exec_command(lx, cmd, a, o)
             fy == exec_command(ly, cmd, a, o)
  <2>0. a \in Int /\ a = Argument(y)
    BY <1>0, ArgumentType DEF Argument
  <2>1. r = qe_key_init(fx) /\ d = qe_key_init(fy)
    <3> HIDE DEF a
    <3>1. r = qe_key_init(fx)
      BY <1>3, Zenon DEF Execute, a
    <3>2. d = qe_key_init(fy)
      BY <1>0, <1>3, <2>0, Zenon DEF Execute
    <3> QED
      BY <3>1, <3>2
  <2> HIDE DEF a, r, d
  <2>2. c \in Calls
    BY <2>0 DEF Calls
  <2> HIDE DEF c
  <2>3. lx \in Eds /\ ly \in Eds
    BY <2>2, LoggedType
  <2>4. /\ Core(lx) = Core(x)
        /\ lx.index = x.index /\ lx.run = Logs(x.index # -1, c, x.run)
        /\ lx.same = x.same /\ lx.macro = x.macro /\ lx.rec = Logs(x.defining, c, x.rec)
        /\ lx.recmode = x.recmode /\ lx.defining = x.defining /\ lx.pending = x.pending
    BY LoggedCore
  <2>5. /\ Core(ly) = Core(y) /\ ly.run = Append(y.run, c) /\ ly.macro = y.macro
        /\ ly.defining = y.defining /\ ly.index = y.index
    BY LoggedOnce
  <2> HIDE DEF lx, ly
  <2>6. Follows(lx, ly, fx, fy, cmd)
    BY <2>0, <2>3, <2>4, <2>5, ExecFollows
  <2>7. fx \in Eds /\ fy \in Eds
    BY <2>0, <2>3, ExecType
  <2> HIDE DEF fx, fy
  <2>8. Core(fx) = Core(fy) /\ fx.index = x.index /\ fx.run = lx.run /\ fx.same = x.same
        /\ fy.run = ly.run /\ (fx.defining => fx.pending = x.pending)
    BY <2>4, <2>6 DEF Follows
  <2>9. /\ r.index = fx.index /\ r.run = fx.run /\ r.same = fx.same /\ r.macro = fx.macro
        /\ r.rec = fx.rec /\ r.recmode = fx.recmode /\ r.defining = fx.defining
        /\ r.mode = fx.mode /\ r.pending = fx.pending
    BY <2>1, <2>7, InitCore
  <2>10. d.run = fy.run /\ d.macro = fy.macro /\ d.defining = fy.defining
    BY <2>1, <2>7, InitCore
  <2>11. Core(r) = Core(d)
    BY <2>1, <2>7, <2>8, InitSame
  <2>12. d.run = Logs(TRUE, c, y.run) /\ r.run = Logs(TRUE /\ x.index # -1, c, x.run)
    BY <2>4, <2>5, <2>8, <2>9, <2>10 DEF Logs
  <2>13. CASE Quiet(lx, fx, fy, cmd)
    <3>1. Silent(x, x.macro, r, d, TRUE, c)
      BY <2>4, <2>9, <2>10, <2>13 DEF Silent, Quiet, Logs
    <3>2. Stepped(x, y, x.macro, r, d, TRUE, c)
      BY <2>8, <2>9, <2>11, <2>12, <3>1 DEF Stepped
    <3> QED
      BY <2>2, <3>2 DEF Steps, r, d
  <2>14. CASE fy.macro = << >> /\ Core(fx) = Core(lx) /\ Anew(lx, fx, fy)
    <3>1. ~fx.describe /\ fx.grab = "none" /\ ~fx.fault
      BY <1>3, <2>4, <2>14, CoreFields
    <3>2. Core(r) = <<NO_ARG, 1, 1, FALSE, << >>, fx.describe, fx.grab, fx.mode, << >>, fx.fault>>
      BY <2>1, <2>7, InitCore
    <3>3. fx.describe = FALSE /\ fx.grab = "none" /\ fx.fault = FALSE
      BY <2>7, <3>1 DEF Eds
    <3>4. Core(Clean(r.mode)) = <<NO_ARG, 1, 1, FALSE, << >>, FALSE, "none", r.mode, << >>, FALSE>>
      BY DEF Core, Clean
    <3>5. Core(r) = Core(Clean(r.mode))
      BY <2>9, <3>2, <3>3, <3>4
    <3>6. Begun(x, r, d)
      BY <2>4, <2>9, <2>10, <2>14, <3>5 DEF Begun, Anew
    <3>7. Stepped(x, y, x.macro, r, d, TRUE, c)
      BY <2>8, <2>9, <2>11, <2>12, <3>6 DEF Stepped
    <3> QED
      BY <2>2, <3>7 DEF Steps, r, d
  <2>15. CASE fy.macro = << >> /\ Ended(lx, fx, fy)
    <3>1. Closed(x, x.macro, r, d, TRUE, c)
      BY <2>4, <2>9, <2>10, <2>15 DEF Closed, Ended, Logs
    <3>2. Stepped(x, y, x.macro, r, d, TRUE, c)
      BY <2>8, <2>9, <2>11, <2>12, <3>1 DEF Stepped
    <3> QED
      BY <2>2, <3>2 DEF Steps, r, d
  <2> QED
    BY <2>6, <2>13, <2>14, <2>15 DEF Follows
<1> QED
  BY <1>1, <1>2, <1>3

LEMMA DispatchSteps ==
    ASSUME NEW x \in Eds, NEW y \in Eds, Core(x) = Core(y),
           y.index = 0, y.macro # << >>, ~y.defining, x.grab = "none", ~x.fault,
           NEW key \in Keys, NEW o \in Outcomes, x.keys # << >>, x.keys[Len(x.keys)] = key
    PROVE  Steps(x, y, x.macro, Dispatch(x, key, x.defining, o), Dispatch(y, key, FALSE, o))
<1> DEFINE h == How(x.keys, x.univ, x.mode, key)
           r == Dispatch(x, key, x.defining, o)
           d == Dispatch(y, key, FALSE, o)
<1>0. /\ x.argval = y.argval /\ x.noargval = y.noargval /\ x.sign = y.sign
      /\ x.univ = y.univ /\ x.keys = y.keys /\ x.describe = y.describe
      /\ x.grab = y.grab /\ x.mode = y.mode /\ x.typed = y.typed /\ x.fault = y.fault
  BY CoreFields
<1>1. r = Apply(h, x, key, x.defining, o) /\ d = Apply(h, y, key, FALSE, o)
  <2>1. r = Apply(h, x, key, x.defining, o)
    BY DispatchIs
  <2>2. d = Apply(How(y.keys, y.univ, y.mode, key), y, key, FALSE, o)
    BY DispatchIs
  <2>3. h = How(y.keys, y.univ, y.mode, key)
    BY <1>0, Zenon
  <2> QED
    BY <2>1, <2>2, <2>3, Zenon
<1>2. HowOK(h, x.univ, key)
  <2>1. x.keys \in Seq(Keys)
    BY DEF Eds
  <2> QED
    BY <2>1, HowIs, Zenon
<1> HIDE DEF h, r, d
<1>3. CASE h[1] = "cmd" /\ h[2] \in Cmds
  <2>1. r = Execute(x, h[2], key, x.defining, o) /\ d = Execute(y, h[2], key, FALSE, o)
    BY <1>1, <1>3, Zenon DEF Apply
  <2>2. Steps(x, y, x.macro, Execute(x, h[2], key, x.defining, o), Execute(y, h[2], key, FALSE, o))
    BY <1>3, ExecuteSteps
  <2> QED
    BY <2>1, <2>2 DEF r, d
<1>s. ASSUME Core(r) = Core(d),
             r.index = x.index, r.same = x.same, r.run = x.run, r.macro = x.macro,
             r.rec = x.rec, r.recmode = x.recmode, r.defining = x.defining,
             r.pending = x.pending,
             d.run = y.run, d.macro = y.macro, d.defining = y.defining
      PROVE  Steps(x, y, x.macro, Dispatch(x, key, x.defining, o), Dispatch(y, key, FALSE, o))
  <2>1. Steps(x, y, x.macro, r, d)
    BY <1>s, SilentStep
  <2> QED
    BY <2>1 DEF r, d
<1>4. CASE h[1] = "digit"
  <2>1. /\ r = [x EXCEPT !.argval = (IF @ = NO_ARG THEN 0 ELSE @) * 10 + DigitOf[key], !.keys = << >>]
        /\ d = [y EXCEPT !.argval = (IF @ = NO_ARG THEN 0 ELSE @) * 10 + DigitOf[key], !.keys = << >>]
    BY <1>1, <1>4 DEF Apply
  <2>2. Core(r) = Core(d)
    BY <1>0, <2>1 DEF Core, Eds
  <2>3. /\ r.index = x.index /\ r.same = x.same /\ r.run = x.run /\ r.macro = x.macro
        /\ r.rec = x.rec /\ r.recmode = x.recmode /\ r.defining = x.defining
        /\ r.pending = x.pending
    BY <2>1 DEF Eds
  <2>4. d.run = y.run /\ d.macro = y.macro /\ d.defining = y.defining
    BY <2>1 DEF Eds
  <2> QED
    BY <1>s, <2>2, <2>3, <2>4
<1>5. CASE h[1] = "sign"
  <2>1. /\ r = [x EXCEPT !.sign = -@, !.keys = << >>]
        /\ d = [y EXCEPT !.sign = -@, !.keys = << >>]
    BY <1>1, <1>5 DEF Apply
  <2>2. Core(r) = Core(d)
    BY <1>0, <2>1 DEF Core, Eds
  <2>3. /\ r.index = x.index /\ r.same = x.same /\ r.run = x.run /\ r.macro = x.macro
        /\ r.rec = x.rec /\ r.recmode = x.recmode /\ r.defining = x.defining
        /\ r.pending = x.pending
    BY <2>1 DEF Eds
  <2>4. d.run = y.run /\ d.macro = y.macro /\ d.defining = y.defining
    BY <2>1 DEF Eds
  <2> QED
    BY <1>s, <2>2, <2>3, <2>4
<1>6. CASE h[1] = "none"
  <2> DEFINE ix == qe_key_init(x)
             iy == qe_key_init(y)
  <2>1. r = [ix EXCEPT !.describe = FALSE] /\ d = [iy EXCEPT !.describe = FALSE]
    BY <1>1, <1>6 DEF Apply, Abandon
  <2>6. Core(ix) = Core(iy)
    BY InitSame
  <2>7. ix \in Eds /\ iy \in Eds
    BY InitType
  <2>8. /\ ix.index = x.index /\ ix.run = x.run /\ ix.same = x.same /\ ix.macro = x.macro
        /\ ix.rec = x.rec /\ ix.recmode = x.recmode /\ ix.defining = x.defining
        /\ ix.pending = x.pending
    BY InitCore
  <2>9. iy.run = y.run /\ iy.macro = y.macro /\ iy.defining = y.defining
    BY InitCore
  <2> HIDE DEF ix, iy
  <2>10. Core(r) = Core(d)
    BY <2>1, <2>6, <2>7 DEF Core, Eds
  <2>11. /\ r.index = ix.index /\ r.run = ix.run /\ r.same = ix.same /\ r.macro = ix.macro
         /\ r.rec = ix.rec /\ r.recmode = ix.recmode /\ r.defining = ix.defining
         /\ r.pending = ix.pending
    BY <2>1, <2>7 DEF Eds
  <2>12. d.run = iy.run /\ d.macro = iy.macro /\ d.defining = iy.defining
    BY <2>1, <2>7 DEF Eds
  <2> QED
    BY <1>s, <2>8, <2>9, <2>10, <2>11, <2>12
<1>7. CASE h[1] = "more"
  <2>1. r = x /\ d = y
    BY <1>1, <1>7 DEF Apply
  <2> QED
    BY <1>s, <2>1
<1> QED
  BY <1>2, <1>3, <1>4, <1>5, <1>6, <1>7 DEF HowOK

(* The state in which a key of a macro is replayed.                        *)
Again(t, k) ==
    [t EXCEPT !.defining = FALSE, !.macro = <<k>>, !.index = 0, !.pending = 0, !.rec = << >>]

LEMMA AgainIs ==
    ASSUME NEW t \in Eds, NEW k \in Moves
    PROVE  LET y == Again(t, k)
           IN  /\ y \in Eds /\ Core(y) = Core(t) /\ y.index = 0 /\ y.macro # << >>
               /\ y.defining = FALSE /\ y.run = t.run
<1>1. <<k>> \in Seq(Moves) /\ << >> \in Seq(Calls) /\ <<k>> # << >>
  OBVIOUS
<1> DEFINE a(m, i, p, s) ==
             [t EXCEPT !.defining = FALSE, !.macro = m, !.index = i, !.pending = p, !.rec = s]
<1>2. \A m \in Seq(Moves), i \in Int, p \in Nat, s \in Seq(Calls) : a(m, i, p, s) \in Eds
  BY DEF Eds
<1>3. Again(t, k) \in Eds
  <2>1. Again(t, k) = a(<<k>>, 0, 0, << >>)
    BY DEF Again
  <2>2. 0 \in Int /\ 0 \in Nat
    OBVIOUS
  <2> HIDE DEF a
  <2> QED
    BY <1>1, <1>2, <2>1, <2>2
<1>4. LET y == Again(t, k)
      IN  /\ Core(y) = Core(t) /\ y.index = 0 /\ y.macro = <<k>>
          /\ y.defining = FALSE /\ y.run = t.run
  BY DEF Again, Core, Eds
<1> QED
  BY <1>1, <1>3, <1>4

(* A key that is grabbed.                                                  *)
LEMMA GrabSteps ==
    ASSUME NEW e \in Eds, NEW t \in Eds, NEW mac, NEW r, NEW d, NEW c \in Calls,
           NEW g \in Eds, NEW k \in Eds, Core(g) = Core(k),
           g.index = e.index, g.same = e.same, g.run = e.run, g.macro = mac,
           g.rec = e.rec, g.recmode = e.recmode, g.defining = e.defining,
           g.pending = e.pending,
           k.index = 0, k.run = t.run, k.macro # << >>, ~k.defining,
           r = Logged(g, c, e.defining), d = Logged(k, c, FALSE)
    PROVE  Steps(e, t, mac, r, d)
<1>7. /\ Core(r) = Core(g) /\ r.index = g.index /\ r.run = Logs(g.index # -1, c, g.run)
      /\ r.same = g.same /\ r.macro = g.macro /\ r.rec = Logs(e.defining, c, g.rec)
      /\ r.recmode = g.recmode /\ r.defining = g.defining /\ r.pending = g.pending
  BY LoggedCore
<1>8. /\ Core(d) = Core(k) /\ d.run = Append(k.run, c) /\ d.macro = k.macro
      /\ d.defining = k.defining
  BY LoggedOnce
<1>9. Silent(e, mac, r, d, TRUE, c)
  BY <1>7, <1>8 DEF Silent, Logs
<1>10. Stepped(e, t, mac, r, d, TRUE, c)
  <2>1. /\ Core(r) = Core(d) /\ r.index = e.index /\ r.same = e.same
        /\ r.pending = e.pending
    BY <1>7, <1>8
  <2>2. d.run = Logs(TRUE, c, t.run) /\ r.run = Logs(TRUE /\ e.index # -1, c, e.run)
    BY <1>7, <1>8 DEF Logs
  <2> QED
    BY <1>9, <2>1, <2>2 DEF Stepped
<1> QED
  BY <1>10 DEF Steps

LEMMA KeySteps ==
    ASSUME NEW e \in Eds, NEW t \in Eds, Core(e) = Core(t), ~e.fault, NEW k \in Moves
    PROVE  Steps(e, t, IF e.defining THEN Append(e.macro, k) ELSE e.macro,
                 qe_key_process(e, k.key, k.effect),
                 qe_key_process(Again(t, k), k.key, k.effect))
<1> DEFINE key == k.key
           o == k.effect
           y == Again(t, k)
           a == macro_add_key(e, key, o)
           x == [a EXCEPT !.keys = Append(@, key), !.typed = Append(@, key)]
           z == [y EXCEPT !.keys = Append(@, key), !.typed = Append(@, key)]
           mac == IF e.defining THEN Append(e.macro, k) ELSE e.macro
           r == qe_key_process(e, key, o)
           d == qe_key_process(y, key, o)
<1>0. key \in Keys /\ o \in Outcomes
  BY DEF Moves
<1>1. /\ y \in Eds /\ Core(y) = Core(t) /\ y.index = 0 /\ y.macro # << >>
      /\ y.defining = FALSE /\ y.run = t.run
  BY AgainIs
<1>2. /\ a \in Eds /\ a = [e EXCEPT !.macro = a.macro] /\ a.macro = mac
      /\ x \in Eds /\ x.keys # << >> /\ x.keys[Len(x.keys)] = key
  BY AddKeyIs
<1>3. r = IF a.grab = "quote" THEN quote_grab_key(a, key, e.defining)
          ELSE IF a.grab = "other" THEN grab_key_cb(a, key, e.defining, o)
          ELSE Dispatch(x, key, e.defining, o)
  BY ProcessIs
<1>n. macro_add_key(y, key, o) = y
  <2> HIDE DEF y
  <2> QED
    BY <1>1 DEF macro_add_key
<1>4. d = IF y.grab = "quote" THEN quote_grab_key(y, key, FALSE)
          ELSE IF y.grab = "other" THEN grab_key_cb(y, key, FALSE, o)
          ELSE Dispatch(z, key, FALSE, o)
  <2> HIDE DEF y, key, o
  <2> QED
    BY <1>1, <1>n, ProcessIs
<1>5. z \in Eds
  <2> DEFINE ay == macro_add_key(y, key, o)
             zy == [ay EXCEPT !.keys = Append(@, key), !.typed = Append(@, key)]
  <2>1. zy \in Eds
    BY <1>1, AddKeyIs
  <2> HIDE DEF y, key, o
  <2> QED
    BY <1>n, <2>1
<1> HIDE DEF a, y, mac, r, d, key, o
<1>6. /\ Core(a) = Core(e) /\ a.index = e.index /\ a.same = e.same /\ a.run = e.run
      /\ a.rec = e.rec /\ a.recmode = e.recmode /\ a.defining = e.defining
      /\ a.pending = e.pending
  <2>1. a = [e EXCEPT !.macro = a.macro]
    BY <1>2
  <2> QED
    BY ONLY <2>1, e \in Eds, MacroOnly, SMTT(30)
<1>7. /\ x.index = e.index /\ x.same = e.same /\ x.run = e.run /\ x.macro = mac
      /\ x.rec = e.rec /\ x.recmode = e.recmode /\ x.defining = e.defining /\ x.pending = e.pending
      /\ x.grab = a.grab /\ x.fault = a.fault /\ x.pending = e.pending
  BY <1>2, <1>6 DEF Eds
<1>8. /\ z.index = 0 /\ z.run = t.run /\ z.macro = y.macro /\ z.defining = FALSE
  BY <1>1 DEF Eds
<1>9. a.keys = y.keys /\ a.typed = y.typed /\ a.grab = y.grab /\ a.grab = e.grab /\ a.fault = e.fault
  BY <1>1, <1>6, CoreFields
<1>c. Core(a) = Core(y)
  BY <1>1, <1>6
<1>10. Core(x) = Core(z)
  BY <1>1, <1>2, <1>9, <1>c DEF Eds, Core
<1>11. CASE a.grab = "none"
  <2> HIDE DEF x, z
  <2>1. r = Dispatch(x, key, x.defining, o) /\ d = Dispatch(z, key, FALSE, o)
    BY <1>3, <1>4, <1>7, <1>9, <1>11
  <2>0. x.grab = "none" /\ ~x.fault /\ z.macro # << >> /\ ~z.defining
    BY <1>1, <1>7, <1>8, <1>9, <1>11
  <2>2. Steps(x, z, x.macro, Dispatch(x, key, x.defining, o), Dispatch(z, key, FALSE, o))
    BY <1>0, <1>2, <1>5, <1>8, <1>10, <2>0, DispatchSteps
  <2>3. Steps(x, z, mac, r, d)
    BY <1>7, <2>1, <2>2
  <2>4. PICK q \in BOOLEAN, c \in Calls \cup {None} : Stepped(x, z, mac, r, d, q, c)
    BY <2>3 DEF Steps
  <2>5. Stepped(e, t, mac, r, d, q, c)
    BY <1>7, <1>8, <2>4 DEF Stepped, Silent, Begun, Closed, Anew
  <2> QED
    BY <2>5 DEF Steps, r, d, mac, y, key, o
<1>12. CASE a.grab = "quote"
  <2> DEFINE c == <<"quoted", key>>
             g == [a EXCEPT !.grab = "none"]
             l == [y EXCEPT !.grab = "none"]
  <2>1. r = Logged(g, c, e.defining) /\ d = Logged(l, c, FALSE)
    BY <1>3, <1>4, <1>9, <1>12 DEF quote_grab_key
  <2>2. c \in Calls
    BY <1>0 DEF Calls
  <2>3. g \in Eds /\ l \in Eds
    BY <1>1, <1>2 DEF Eds, Grabs
  <2>4. Core(g) = Core(l)
    BY <1>1, <1>2, <1>c DEF Eds, Core
  <2>5. /\ g.index = e.index /\ g.same = e.same /\ g.run = e.run /\ g.macro = mac
        /\ g.rec = e.rec /\ g.recmode = e.recmode /\ g.defining = e.defining
        /\ g.pending = e.pending
    BY <1>2, <1>6 DEF Eds
  <2>6. l.index = 0 /\ l.run = t.run /\ l.macro # << >> /\ ~l.defining
    BY <1>1 DEF Eds
  <2> HIDE DEF g, l, c
  <2>7. Steps(e, t, mac, r, d)
    BY <2>1, <2>2, <2>3, <2>4, <2>5, <2>6, GrabSteps
  <2> QED
    BY <2>7 DEF r, d, mac, y, key, o
<1>13. CASE a.grab = "other"
  <2> DEFINE c == <<"grabbed", key>>
             g == Affected(a, o)
             l == Affected(y, o)
  <2>1. r = Logged(g, c, e.defining) /\ d = Logged(l, c, FALSE)
    BY <1>3, <1>4, <1>9, <1>13 DEF grab_key_cb
  <2>2. c \in Calls
    BY <1>0 DEF Calls
  <2>3. g \in Eds /\ l \in Eds
    BY <1>0, <1>1, <1>2, AffectedType
  <2>4. Core(g) = Core(l)
    BY <1>1, <1>2, <1>c DEF Affected, Eds, Core
  <2>5. /\ g.index = e.index /\ g.same = e.same /\ g.run = e.run /\ g.macro = mac
        /\ g.rec = e.rec /\ g.recmode = e.recmode /\ g.defining = e.defining
        /\ g.pending = e.pending
    BY <1>2, <1>6 DEF Affected, Eds
  <2>6. l.index = 0 /\ l.run = t.run /\ l.macro # << >> /\ ~l.defining
    BY <1>1 DEF Affected, Eds
  <2> HIDE DEF g, l, c
  <2>7. Steps(e, t, mac, r, d)
    BY <2>1, <2>2, <2>3, <2>4, <2>5, <2>6, GrabSteps
  <2> QED
    BY <2>7 DEF r, d, mac, y, key, o
<1>14. a.grab \in Grabs
  BY <1>2 DEF Eds
<1> QED
  BY <1>11, <1>12, <1>13, <1>14 DEF Grabs

---------------------------------------------------------------------------
(* The steps of the specification.                                         *)

LEMMA NextCases ==
    ASSUME KeyInv, [Next]_vars
    PROVE  \/ ed' = ed
           \/ \E k \in Moves : Waiting /\ ed' = qe_key_process(ed, k.key, k.effect)
           \/ StartReplay \/ ReplayKey \/ EndReplay
<1>1. CASE ReadByte
  <2> DEFINE s == InputOf[sent]
             n == Len(s) - Len(bytes)
             r == tty_read_handler(input, Head(bytes))
  <2>0. bytes # << >> /\ Waiting
    BY <1>1 DEF ReadByte
  <2>1. /\ sent \in Keys
        /\ IF n + 1 = Len(s) THEN r = Got(sent) ELSE r.key = None
    BY <2>0, HandlerNext
  <2>2. IF r.key = None THEN ed' = ed
        ELSE \E o \in Outcomes : ed' = qe_key_process(ed, r.key, o)
    BY <1>1 DEF ReadByte
  <2> HIDE DEF r, s, n
  <2>3. r.key = None \/ r.key = sent
    BY <2>1 DEF Got
  <2>4. CASE r.key # None
    <3>1. PICK o \in Outcomes : ed' = qe_key_process(ed, r.key, o)
      BY <2>2, <2>4
    <3> DEFINE k == [key |-> r.key, effect |-> o]
    <3>2. k \in Moves /\ k.key = r.key /\ k.effect = o
      BY <2>1, <2>3, <2>4 DEF Moves
    <3> HIDE DEF k
    <3>3. ed' = qe_key_process(ed, k.key, k.effect)
      BY <3>1, <3>2
    <3> QED
      BY <2>0, <3>2, <3>3
  <2> QED
    BY <2>2, <2>4
<1>2. CASE \E k \in Keys : Press(k)
  BY <1>2 DEF Press
<1>3. CASE Idle \/ UNCHANGED vars
  BY <1>3 DEF Idle, vars
<1> QED
  BY <1>1, <1>2, <1>3 DEF Next

LEMMA ProcessIndex ==
    ASSUME NEW e \in Eds, NEW k \in Moves, ~e.fault
    PROVE  LET r == qe_key_process(e, k.key, k.effect)
           IN  r.index = e.index /\ r.same = e.same
<1>1. Steps(e, e, IF e.defining THEN Append(e.macro, k) ELSE e.macro,
            qe_key_process(e, k.key, k.effect), qe_key_process(Again(e, k), k.key, k.effect))
  BY KeySteps
<1> QED
  BY <1>1 DEF Steps, Stepped

(* A round of the loop processes the next key, with some effect.           *)
LEMMA Replayed ==
    ASSUME ed \in Eds, ed.index >= -1, ReplayKey
    PROVE  /\ ~ed.fault /\ ed.index + 1 \in 1..Len(ed.macro)
           /\ ed.macro[ed.index + 1] \in Moves
           /\ \E k \in Moves : LET e == qe_key_process(ed, k.key, k.effect)
                                    f == k = ed.macro[ed.index + 1]
                                IN  ed' = [e EXCEPT !.index = @ + 1, !.same = @ /\ f]
<1> DEFINE m == ed.macro[ed.index + 1]
<1>0. PICK o \in Outcomes, j \in {m} : \E e \in {qe_key_process(ed, j.key, o)} :
        /\ o = Effect(e)
        /\ ed' = [e EXCEPT !.index = @ + 1, !.same = @ /\ o = j.effect]
  BY Zenon DEF ReplayKey
<1>1. LET e == qe_key_process(ed, m.key, o)
      IN  ed' = [e EXCEPT !.index = @ + 1, !.same = @ /\ o = m.effect]
  <2>1. j = m
    BY <1>0
  <2> QED
    BY <1>0, <2>1, Zenon
<1>2. ~ed.fault /\ ed.index + 1 \in 1..Len(ed.macro) /\ m \in Moves
  <2>1. ed.macro \in Seq(Moves) /\ ed.index \in Int
    BY DEF Eds
  <2>2. ~ed.fault /\ ed.index # -1 /\ ed.index < Len(ed.macro)
    BY DEF ReplayKey
  <2>3. ed.index + 1 \in 1..Len(ed.macro)
    BY <2>1, <2>2
  <2> QED
    BY <2>1, <2>2, <2>3
<1> HIDE DEF m
<1> DEFINE k == [key |-> m.key, effect |-> o]
<1>3. k \in Moves /\ k.key = m.key /\ k.effect = o
  BY <1>2 DEF Moves
<1>4. (k = m) = (o = m.effect)
  BY <1>2 DEF Moves
<1> HIDE DEF k
<1> DEFINE e == qe_key_process(ed, k.key, k.effect)
           f == k = m
<1>5. ed' = [e EXCEPT !.index = @ + 1, !.same = @ /\ f]
  BY <1>1, <1>3, <1>4
<1> QED
  BY <1>2, <1>3, <1>5 DEF m

LEMMA EdStep ==
    ASSUME EdInv, KeyInv, [Next]_vars
    PROVE  EdInv'
<1>0. ed \in Eds /\ ArgOK(ed) /\ ed.index >= -1
  BY DEF EdInv
<1>1. CASE ed' = ed
  BY <1>0, <1>1 DEF EdInv, ArgOK
<1>2. ASSUME NEW k \in Moves, Waiting, ed' = qe_key_process(ed, k.key, k.effect) PROVE EdInv'
  <2>1. ed' \in Eds
    BY <1>0, <1>2, ProcessType
  <2>2. ArgOK(ed')
    BY <1>0, <1>2, ProcessArgs
  <2>3. ed'.index = ed.index
    BY <1>0, <1>2, ProcessIndex DEF Waiting
  <2> QED
    BY <1>0, <2>1, <2>2, <2>3 DEF EdInv, ArgOK
<1>3. CASE StartReplay
  <2> DEFINE s == ed.mode = ed.recmode /\ Ready(ed)
  <2>1. ed' = [ed EXCEPT !.index = 0, !.pending = @ - 1, !.run = << >>, !.same = s] /\ ed.pending > 0
    BY <1>3 DEF StartReplay
  <2>2. ed.pending - 1 \in Nat /\ << >> \in Seq(Calls) /\ 0 \in Int
    BY <1>0, <2>1 DEF Eds
  <2>3. s \in BOOLEAN
    OBVIOUS
  <2> HIDE DEF s
  <2>4. ed' \in Eds
    BY <1>0, <2>1, <2>2, <2>3, Constructed
  <2>5. /\ ed'.typed = ed.typed /\ ed'.univ = ed.univ /\ ed'.noargval = ed.noargval
        /\ ed'.sign = ed.sign /\ ed'.argval = ed.argval /\ ed'.index = 0
    BY <1>0, <2>1 DEF Eds
  <2>6. ArgOK(ed')
    BY <1>0, <2>5, SameArgs
  <2> QED
    BY <2>4, <2>5, <2>6 DEF EdInv, ArgOK
<1>4. CASE ReplayKey
  <2>0. /\ ~ed.fault
        /\ \E k \in Moves : LET e == qe_key_process(ed, k.key, k.effect)
                                 f == k = ed.macro[ed.index + 1]
                             IN  ed' = [e EXCEPT !.index = @ + 1, !.same = @ /\ f]
    BY <1>0, <1>4, Replayed
  <2>2. PICK k \in Moves : LET e == qe_key_process(ed, k.key, k.effect)
                               f == k = ed.macro[ed.index + 1]
                           IN  ed' = [e EXCEPT !.index = @ + 1, !.same = @ /\ f]
    BY <2>0
  <2> DEFINE e == qe_key_process(ed, k.key, k.effect)
             s == e.same /\ k = ed.macro[ed.index + 1]
  <2>1. ed' = [e EXCEPT !.index = @ + 1, !.same = s]
    BY <2>2
  <2>3. e \in Eds /\ ArgOK(e) /\ e.index = ed.index
    BY <1>0, <2>0, ProcessType, ProcessArgs, ProcessIndex
  <2>s. s \in BOOLEAN
    OBVIOUS
  <2> HIDE DEF e, s
  <2>4. e.index + 1 \in Int /\ e.index + 1 >= -1
    <3>1. ed.index \in Int
      BY <1>0 DEF Eds
    <3> QED
      BY <1>0, <2>3, <3>1
  <2>5. ed' \in Eds
    <3> DEFINE i == e.index + 1
    <3>1. ed' = [e EXCEPT !.index = i, !.same = s] /\ i \in Int
      BY <2>1, <2>4
    <3> HIDE DEF i
    <3> QED
      BY <2>3, <2>s, <3>1 DEF Eds
  <2>6. /\ ed'.typed = e.typed /\ ed'.univ = e.univ /\ ed'.noargval = e.noargval
        /\ ed'.sign = e.sign /\ ed'.argval = e.argval /\ ed'.index = e.index + 1
    BY <2>1, <2>3 DEF Eds
  <2>7. ArgOK(ed')
    BY <2>3, <2>6, SameArgs
  <2> QED
    BY <2>4, <2>5, <2>6, <2>7 DEF EdInv, ArgOK
<1>5. CASE EndReplay
  <2>1. ed' = [ed EXCEPT !.index = -1, !.run = << >>, !.same = TRUE]
    BY <1>5 DEF EndReplay
  <2>2. << >> \in Seq(Calls) /\ -1 \in Int /\ TRUE \in BOOLEAN
    OBVIOUS
  <2>3. ed' \in Eds
    BY <1>0, <2>1, <2>2, Constructed
  <2>5. /\ ed'.typed = ed.typed /\ ed'.univ = ed.univ /\ ed'.noargval = ed.noargval
        /\ ed'.sign = ed.sign /\ ed'.argval = ed.argval /\ ed'.index = -1
    BY <1>0, <2>1 DEF Eds
  <2>6. ArgOK(ed')
    BY <1>0, <2>5, SameArgs
  <2> QED
    BY <2>3, <2>5, <2>6 DEF EdInv, ArgOK
<1> QED
  BY <1>1, <1>2, <1>3, <1>4, <1>5, NextCases

LEMMA EdInitial == Init => EdInv
<1> SUFFICES ASSUME Init PROVE EdInv
  OBVIOUS
<1>1. << >> \in Seq(Keys) /\ << >> \in Seq(Moves) /\ << >> \in Seq(Calls) /\ "text" \in Modes
  BY CommandAssumption
<1>2. ed \in Eds
  BY <1>1 DEF Init, Eds, Grabs, NO_ARG
<1>3. Reset(ed) /\ ed.index = -1
  BY DEF Init, Reset
<1> QED
  BY <1>2, <1>3, ResetOK DEF EdInv

LEMMA Typed == Spec => [](EdInv /\ KeyInv)
BY EdInitial, EdStep, KeyStep, KeysRead, PTL DEF Spec

LEMMA ArgumentIs ==
    ASSUME EdInv PROVE ArgumentAsTyped
<1> DEFINE s == ed.typed
           u == Count(s, Plain("C-u"))
           m == Count(s, Plain("-"))
<1> SUFFICES ASSUME Number(s) < NO_ARG PROVE Argument(ed) = Meant(s)
  BY DEF ArgumentAsTyped
<1>1. /\ ed.univ <=> u # 0
      /\ ed.noargval = FourTo(u)
      /\ ed.sign = Sign(m)
      /\ ed.argval = IF NoDigits(s) THEN NO_ARG ELSE Number(s)
  BY DEF EdInv, ArgOK, ArgsFor
<1>2. Meant(s) = IF u = 0 THEN NO_ARG
                 ELSE IF NoDigits(s) THEN FourTo(u)
                 ELSE IF m % 2 = 0 THEN Number(s) ELSE -Number(s)
  BY DEF Meant, NoDigits
<1>3. s \in Seq(Keys)
  BY DEF EdInv, Eds
<1> HIDE DEF u, m, s
<1>4. CASE u = 0
  BY <1>1, <1>2, <1>4 DEF Argument
<1>5. CASE u # 0 /\ NoDigits(s)
  BY <1>1, <1>2, <1>5 DEF Argument
<1>6. CASE u # 0 /\ ~NoDigits(s)
  <2>0. Number(s) \in Nat
    BY <1>3, NumbersIs DEF Number
  <2>1. ed.argval = Number(s) /\ ed.argval # NO_ARG
    BY <1>1, <1>6, <2>0 DEF NO_ARG
  <2>2. Argument(ed) = ed.argval * ed.sign
    BY <1>1, <1>6, <2>1 DEF Argument
  <2>3. CASE m % 2 = 0
    <3>1. ed.sign = 1
      BY <1>1, <2>3 DEF Sign
    <3> QED
      BY <1>2, <1>6, <2>0, <2>1, <2>2, <2>3, <3>1
  <2>4. CASE m % 2 # 0
    <3>1. ed.sign = -1
      BY <1>1, <2>4 DEF Sign
    <3>2. Argument(ed) = -Number(s)
      BY <2>0, <2>1, <2>2, <3>1
    <3> QED
      BY <1>2, <1>6, <2>4, <3>2
  <2> QED
    BY <2>3, <2>4
<1> QED
  BY <1>4, <1>5, <1>6

(* qe_key_process and qe_key_init: for all keys, bindings and bounds, a    *)
(* command gets the argument that was typed for it, unless the number is   *)
(* as large as NO_ARG.                                                     *)
THEOREM ArgumentsAsTyped == Spec => []ArgumentAsTyped
BY Typed, ArgumentIs, PTL

---------------------------------------------------------------------------
(* What the keys of a macro do.                                            *)

(* The key k of a macro is replayed, and has the effect that it had.       *)
Moved(t, k) == qe_key_process(Again(t, k), k.key, k.effect)

LEMMA MovedSteps ==
    ASSUME NEW e \in Eds, NEW t \in Eds, Core(e) = Core(t), ~e.fault, NEW k \in Moves
    PROVE  Steps(e, t, IF e.defining THEN Append(e.macro, k) ELSE e.macro,
                 qe_key_process(e, k.key, k.effect), Moved(t, k))
BY KeySteps DEF Moved

(* The states that the keys m lead through, from a clean one.              *)
Trace(m, mode) ==
    CHOOSE t : t = [i \in 0..Len(m) |->
                      IF i = 0 THEN Clean(mode) ELSE Moved(t[i - 1], m[i])]

LEMMA CleanType == ASSUME NEW mode \in Modes PROVE Clean(mode) \in Eds
<1>1. << >> \in Seq(Keys) /\ << >> \in Seq(Moves) /\ << >> \in Seq(Calls)
  OBVIOUS
<1> QED
  BY <1>1 DEF Clean, Eds, Grabs, NO_ARG

LEMMA AgainType ==
    ASSUME NEW t \in Eds, NEW k \in Moves PROVE Moved(t, k) \in Eds
<1>1. Again(t, k) \in Eds
  BY AgainIs
<1> QED
  BY <1>1, ProcessType DEF Moved

LEMMA TraceIs ==
    ASSUME NEW m \in Seq(Moves), NEW mode \in Modes
    PROVE  LET t == Trace(m, mode)
           IN  /\ t[0] = Clean(mode)
               /\ \A i \in 0..Len(m) : t[i] \in Eds
               /\ \A i \in 1..Len(m) : t[i] = Moved(t[i - 1], m[i])
<1> DEFINE n == Len(m)
           V == Eds
           H == [x \in (1..n) \X V |-> Moved(x[2], m[x[1]])]
           f == Trace(m, mode)
<1>0. n \in Nat /\ \A i \in 1..n : m[i] \in Moves
  OBVIOUS
<1>5a. (\E g : g = [i \in 0..n |-> IF i = 0 THEN Clean(mode)
                                   ELSE Moved(g[i - 1], m[i])])
       => f = [i \in 0..n |-> IF i = 0 THEN Clean(mode)
                              ELSE Moved(f[i - 1], m[i])]
  BY Zenon DEF Trace
<1> HIDE DEF n
<1>2. \A i \in 1..n, v \in V : H[<<i, v>>] = Moved(v, m[i])
  OBVIOUS
<1>1. H \in [(1..n) \X V -> V]
  BY <1>0, AgainType
<1> HIDE DEF H, V
<1>a. Clean(mode) \in V
  BY CleanType DEF V
<1>3. PICK g : Computes(g, n, V, Clean(mode), H)
  BY <1>0, <1>1, <1>a, Recursion
<1>4. g = [i \in 0..n |-> IF i = 0 THEN Clean(mode)
                          ELSE Moved(g[i - 1], m[i])]
  <2>1. /\ g \in [0..n -> V] /\ g[0] = Clean(mode)
        /\ \A i \in 1..n : g[i] = H[<<i, g[i - 1]>>]
    BY <1>3 DEF Computes
  <2>2. ASSUME NEW i \in 1..n PROVE g[i] = Moved(g[i - 1], m[i])
    <3>1. g[i - 1] \in V
      BY <1>0, <2>1
    <3> QED
      BY <1>2, <2>1, <3>1
  <2> QED
    BY <1>0, <2>1, <2>2
<1>5. f = [i \in 0..n |-> IF i = 0 THEN Clean(mode)
                          ELSE Moved(f[i - 1], m[i])]
  BY <1>4, <1>5a, Zenon
<1> HIDE DEF f
<1>6. f[0] = Clean(mode) /\ \A i \in 1..n : f[i] = Moved(f[i - 1], m[i])
  BY <1>0, <1>5
<1> DEFINE T == {i \in 0..n : f[i] \in V}
<1>7. ASSUME NEW k \in 0..n PROVE f[k] \in V
  <2>1. 0 \in T
    BY <1>0, <1>6, <1>a
  <2>2. ASSUME NEW i \in 0..(k - 1), i \in T PROVE i + 1 \in T
    <3>1. i + 1 \in 1..n /\ (i + 1) - 1 = i /\ i + 1 \in 0..n
      BY <1>0
    <3>2. f[i + 1] = Moved(f[i], m[i + 1])
      BY <1>6, <3>1
    <3> QED
      BY <1>0, <2>2, <3>1, <3>2, AgainType DEF V
  <2> HIDE DEF T
  <2>3. k \in T
    BY <1>0, <2>1, <2>2, UpTo
  <2> QED
    BY <2>3 DEF T
<1> QED
  BY <1>6, <1>7 DEF f, n, V

LEMMA TraceAppend ==
    ASSUME NEW m \in Seq(Moves), NEW mode \in Modes, NEW key \in Moves
    PROVE  LET t == Trace(m, mode)
               s == Trace(Append(m, key), mode)
               n == Len(m)
           IN  /\ \A i \in 0..n : s[i] = t[i]
               /\ s[n + 1] = Moved(t[n], key)
<1> DEFINE t == Trace(m, mode)
           k == Append(m, key)
           s == Trace(k, mode)
           n == Len(m)
<1>0. /\ n \in Nat /\ k \in Seq(Moves) /\ Len(k) = n + 1 /\ k[n + 1] = key
      /\ \A i \in 1..n : k[i] = m[i]
  OBVIOUS
<1>1. /\ t[0] = Clean(mode)
      /\ \A i \in 1..n : t[i] = Moved(t[i - 1], m[i])
  BY TraceIs
<1> HIDE DEF k
<1>2. /\ s[0] = Clean(mode)
      /\ \A i \in 1..(n + 1) : s[i] = Moved(s[i - 1], k[i])
  <2>1. /\ s[0] = Clean(mode)
        /\ \A i \in 1..Len(k) : s[i] = Moved(s[i - 1], k[i])
    BY <1>0, TraceIs
  <2> QED
    BY <1>0, <2>1
<1> HIDE DEF t, s, n
<1> DEFINE T == {i \in 0..n : s[i] = t[i]}
<1>3. ASSUME NEW j \in 0..n PROVE s[j] = t[j]
  <2>1. 0 \in T
    BY <1>0, <1>1, <1>2
  <2>2. ASSUME NEW i \in 0..(j - 1), i \in T PROVE i + 1 \in T
    <3>1. i + 1 \in 1..n /\ i + 1 \in 1..(n + 1) /\ (i + 1) - 1 = i /\ i + 1 \in 0..n
      BY <1>0
    <3> QED
      BY <1>0, <1>1, <1>2, <2>2, <3>1
  <2> HIDE DEF T
  <2>3. j \in T
    BY <1>0, <2>1, <2>2, UpTo
  <2> QED
    BY <2>3 DEF T
<1>4. s[n + 1] = Moved(s[n], key)
  <2>1. n + 1 \in 1..(n + 1) /\ (n + 1) - 1 = n
    BY <1>0
  <2> QED
    BY <1>0, <1>2, <2>1
<1>5. n \in 0..n
  BY <1>0
<1> QED
  BY <1>3, <1>4, <1>5 DEF t, s, n, k

(* The macro and what it was seen to do while it was defined; the replay   *)
(* is in the state that the definition was in after as many keys.          *)
MacroInv(e) ==
    LET t == Trace(e.macro, e.recmode)
        n == Len(e.macro)
    IN  /\ e.rec = t[n].run
        /\ e.defining => Core(e) = Core(t[n])
        /\ e.index # -1 /\ e.same /\ ~e.defining /\ ~e.fault =>
             /\ e.index <= n /\ Core(e) = Core(t[e.index]) /\ e.run = t[e.index].run
        /\ \A i \in 1..n : /\ t[i].macro # << >> \/ t[i].defining
                           /\ i < n \/ e.defining => t[i].macro # << >>
                           /\ ~t[i - 1].fault
        /\ e.defining /\ (e.index # -1 \/ e.pending > 0) => e.macro = << >>

(* A definition was begun.                                                 *)
LEMMA MacroBegun ==
    ASSUME NEW r \in Eds, r.macro = << >>, r.rec = << >>, r.recmode = r.mode,
           Core(r) = Core(Clean(r.mode)), r.index = -1 \/ r.defining \/ ~r.same
    PROVE  MacroInv(r)
<1> DEFINE t == Trace(r.macro, r.recmode)
           n == Len(r.macro)
<1>1. n = 0
  OBVIOUS
<1>2. t[0] = Clean(r.mode)
  <2>1. r.macro \in Seq(Moves) /\ r.recmode \in Modes
    BY DEF Eds
  <2> QED
    BY <2>1, TraceIs
<1>3. Clean(r.mode).run = << >>
  BY DEF Clean
<1> HIDE DEF t, n
<1>4. 1..n = {}
  BY <1>1
<1> QED
  BY <1>1, <1>2, <1>3, <1>4 DEF MacroInv, t, n

(* The macro is neither defined nor changed.                               *)
LEMMA MacroKept ==
    ASSUME NEW e \in Eds, NEW r \in Eds, MacroInv(e), ~e.defining, ~r.defining,
           r.macro = e.macro, r.rec = e.rec, r.recmode = e.recmode,
           LET t == Trace(e.macro, e.recmode)
           IN  r.index # -1 /\ r.same /\ ~r.fault =>
                 /\ r.index <= Len(e.macro)
                 /\ Core(r) = Core(t[r.index]) /\ r.run = t[r.index].run
    PROVE  MacroInv(r)
BY DEF MacroInv

(* A key is added to the macro.                                            *)
LEMMA MacroAdded ==
    ASSUME NEW e \in Eds, NEW r \in Eds, NEW key \in Moves, NEW d, MacroInv(e), e.defining, ~e.fault,
           d = Moved(Trace(e.macro, e.recmode)[Len(e.macro)], key),
           r.macro = Append(e.macro, key), r.rec = d.run, r.recmode = e.recmode,
           Core(r) = Core(d), r.index = -1, r.defining => r.pending = 0,
           d.macro # << >> \/ (d.defining /\ ~r.defining)
    PROVE  MacroInv(r)
<1> DEFINE m == e.macro
           t == Trace(m, e.recmode)
           n == Len(m)
           s == Trace(Append(m, key), e.recmode)
<1>1. m \in Seq(Moves) /\ e.recmode \in Modes /\ n \in Nat /\ Len(Append(m, key)) = n + 1
  BY DEF Eds
<1>2. (\A i \in 0..n : s[i] = t[i]) /\ s[n + 1] = d
  BY <1>1, TraceAppend
<1>3. /\ Core(e) = Core(t[n])
      /\ \A i \in 1..n : t[i].macro # << >> /\ ~t[i - 1].fault
  BY DEF MacroInv
<1>4. s = Trace(r.macro, r.recmode) /\ Len(r.macro) = n + 1
  BY <1>1
<1>5. ~t[n].fault
  BY <1>3, CoreFields
<1> HIDE DEF t, s, n, m
<1>6. ASSUME NEW i \in 1..(n + 1)
      PROVE  /\ s[i].macro # << >> \/ s[i].defining
             /\ i < n + 1 \/ r.defining => s[i].macro # << >>
             /\ ~s[i - 1].fault
  <2>1. CASE i = n + 1
    <3>1. i - 1 = n /\ n \in 0..n
      BY <1>1, <2>1
    <3>2. ~s[i - 1].fault
      BY <1>2, <1>5, <3>1
    <3>3. s[i] = d /\ ~(i < n + 1)
      BY <1>1, <1>2, <2>1
    <3> QED
      BY <3>2, <3>3
  <2>2. CASE i # n + 1
    <3>1. i \in 1..n /\ i \in 0..n /\ i - 1 \in 0..n
      BY <1>1, <2>2
    <3>2. s[i] = t[i] /\ s[i - 1] = t[i - 1]
      BY <1>2, <3>1
    <3> QED
      BY <1>3, <3>1, <3>2
  <2> QED
    BY <2>1, <2>2
<1>7. r.defining => ~(r.index # -1 \/ r.pending > 0)
  OBVIOUS
<1> QED
  BY <1>2, <1>4, <1>6, <1>7 DEF MacroInv

(* The user types a key.                                                   *)
LEMMA MacroTyped ==
    ASSUME NEW e \in Eds, MacroInv(e), e.index = -1, e.pending = 0, ~e.fault, NEW k \in Moves
    PROVE  MacroInv(qe_key_process(e, k.key, k.effect))
<1> DEFINE r == qe_key_process(e, k.key, k.effect)
           t == Trace(e.macro, e.recmode)
           n == Len(e.macro)
           mac == IF e.defining THEN Append(e.macro, k) ELSE e.macro
<1>1. r \in Eds
  BY ProcessType
<1>2. CASE e.defining
  <2> DEFINE d == Moved(t[n], k)
  <2>1. t[n] \in Eds
    <3>1. e.macro \in Seq(Moves) /\ e.recmode \in Modes /\ n \in 0..n
      BY DEF Eds
    <3> QED
      BY <3>1, TraceIs
  <2>2. Core(e) = Core(t[n]) /\ e.rec = t[n].run
    BY <1>2 DEF MacroInv
  <2> HIDE DEF t, n
  <2>3. Steps(e, t[n], mac, r, d)
    BY <2>1, <2>2, MovedSteps
  <2> HIDE DEF r, d, mac
  <2>4. PICK q \in BOOLEAN, c \in Calls \cup {None} : Stepped(e, t[n], mac, r, d, q, c)
    BY <2>3 DEF Steps
  <2>5. /\ Core(r) = Core(d) /\ r.index = -1 /\ (r.defining => r.pending = 0)
        /\ d.run = Logs(q, c, t[n].run)
    BY <2>4 DEF Stepped
  <2>6. mac = Append(e.macro, k)
    BY <1>2 DEF mac
  <2>7. CASE Silent(e, mac, r, d, q, c)
    <3>1. /\ d.macro # << >> /\ r.macro = mac /\ r.recmode = e.recmode /\ r.rec = d.run
      BY <1>2, <2>2, <2>5, <2>7 DEF Silent, Logs
    <3>2. MacroInv(r)
      BY <1>1, <1>2, <2>5, <2>6, <3>1, MacroAdded DEF d, t, n
    <3> QED
      BY <3>2 DEF r
  <2>8. CASE Begun(e, r, d)
    <3>1. MacroInv(r)
      BY <1>1, <2>5, <2>8, MacroBegun DEF Begun, Anew
    <3> QED
      BY <3>1 DEF r
  <2>9. CASE Closed(e, mac, r, d, q, c)
    <3>1. /\ d.defining /\ ~r.defining /\ r.macro = mac /\ r.recmode = e.recmode /\ r.rec = d.run
      BY <2>2, <2>5, <2>9 DEF Closed, Logs
    <3>2. MacroInv(r)
      BY <1>1, <1>2, <2>5, <2>6, <3>1, MacroAdded DEF d, t, n
    <3> QED
      BY <3>2 DEF r
  <2> QED
    BY <2>4, <2>7, <2>8, <2>9 DEF Stepped
<1>3. CASE ~e.defining
  <2> DEFINE d == Moved(e, k)
  <2>3. Steps(e, e, mac, r, d)
    BY MovedSteps
  <2> HIDE DEF r, d, mac
  <2>4. PICK q \in BOOLEAN, c \in Calls \cup {None} : Stepped(e, e, mac, r, d, q, c)
    BY <2>3 DEF Steps
  <2>5. r.index = -1
    BY <2>4 DEF Stepped
  <2>6. mac = e.macro
    BY <1>3 DEF mac
  <2>7. CASE Silent(e, mac, r, d, q, c)
    <3>1. ~r.defining /\ r.macro = e.macro /\ r.recmode = e.recmode /\ r.rec = e.rec
      BY <1>3, <2>6, <2>7 DEF Silent, Logs
    <3>2. MacroInv(r)
      BY <1>1, <1>3, <2>5, <3>1, MacroKept
    <3> QED
      BY <3>2 DEF r
  <2>8. CASE Begun(e, r, d)
    <3>1. MacroInv(r)
      BY <1>1, <2>5, <2>8, MacroBegun DEF Begun, Anew
    <3> QED
      BY <3>1 DEF r
  <2>9. ~Closed(e, mac, r, d, q, c)
    BY <1>3 DEF Closed
  <2> QED
    BY <2>4, <2>7, <2>8, <2>9 DEF Stepped
<1> QED
  BY <1>2, <1>3

(* One round of do_call_macro_bh.                                          *)
LEMMA MacroReplayed ==
    ASSUME NEW e \in Eds, MacroInv(e), ~e.fault, e.index >= 0, e.index < Len(e.macro),
           NEW k \in Moves, NEW f \in Eds,
           LET r    == qe_key_process(e, k.key, k.effect)
               same == k = e.macro[e.index + 1]
           IN  f = [r EXCEPT !.index = @ + 1, !.same = @ /\ same]
    PROVE  MacroInv(f)
<1> DEFINE t == Trace(e.macro, e.recmode)
           n == Len(e.macro)
           i == e.index
           r == qe_key_process(e, k.key, k.effect)
           w == k = e.macro[i + 1]
<1>1. e.macro \in Seq(Moves) /\ e.recmode \in Modes /\ n \in Nat /\ i \in Int
  BY DEF Eds
<1>a. i \in 0..n /\ i + 1 \in 1..n /\ i + 1 \in 0..n /\ (i + 1) - 1 = i /\ n # 0 /\ i # -1 /\ i + 1 # -1
  <2> HIDE DEF n
  <2> QED
    BY <1>1 DEF n
<1>3. /\ \A j \in 0..n : t[j] \in Eds
      /\ \A j \in 1..n : t[j] = Moved(t[j - 1], e.macro[j])
  BY <1>1, TraceIs
<1>4. ~e.defining
  <2>1. e.macro # << >>
    BY <1>a
  <2> QED
    BY <1>a, <2>1 DEF MacroInv
<1>5. r \in Eds /\ f = [r EXCEPT !.index = @ + 1, !.same = @ /\ w]
  BY ProcessType
<1>b. \A j \in 1..n : t[j].macro # << >> \/ t[j].defining
  BY DEF MacroInv
<1>s. e.same => Core(e) = Core(t[i]) /\ e.run = t[i].run
  BY <1>4, <1>a DEF MacroInv
<1> HIDE DEF r, t, n, w
<1>6. /\ f.index = r.index + 1 /\ f.same = (r.same /\ w) /\ f.run = r.run /\ f.macro = r.macro
      /\ f.rec = r.rec /\ f.recmode = r.recmode /\ f.defining = r.defining /\ f.fault = r.fault
      /\ f.mode = r.mode /\ Core(f) = Core(r)
  BY <1>5 DEF Eds, Core
<1>7. ASSUME NEW o \in Eds, Core(e) = Core(o), e.same => o = t[i]
      PROVE  MacroInv(f)
  <2> DEFINE d == Moved(o, k)
             mac == IF e.defining THEN Append(e.macro, k) ELSE e.macro
  <2>1. Steps(e, o, mac, r, d)
    BY <1>7, MovedSteps DEF r
  <2>2. e.same /\ w => d = t[i + 1]
    BY <1>3, <1>7, <1>a DEF w
  <2>3. mac = e.macro
    BY <1>4
  <2> HIDE DEF d, mac
  <2>4. PICK q \in BOOLEAN, c \in Calls \cup {None} : Stepped(e, o, mac, r, d, q, c)
    BY <2>1 DEF Steps
  <2>5. /\ Core(r) = Core(d) /\ r.index = i /\ r.same = e.same
        /\ d.run = Logs(q, c, o.run) /\ r.run = Logs(q, c, e.run)
    <3>1. (q /\ e.index # -1) = q
      BY <1>a
    <3> QED
      BY <2>4, <3>1 DEF Stepped
  <2>6. CASE Silent(e, mac, r, d, q, c)
    <3>1. ~f.defining /\ f.macro = e.macro /\ f.recmode = e.recmode /\ f.rec = e.rec
      BY <1>4, <1>6, <2>3, <2>6 DEF Silent, Logs
    <3>2. f.index = i + 1
      BY <1>6, <2>5
    <3>3. ASSUME f.same
          PROVE  f.index <= n /\ Core(f) = Core(t[f.index]) /\ f.run = t[f.index].run
      <4>1. e.same /\ w
        BY <1>6, <2>5, <3>3
      <4>2. d = t[f.index] /\ o.run = e.run
        BY <1>7, <1>s, <2>2, <3>2, <4>1
      <4>3. f.run = d.run /\ Core(f) = Core(d)
        BY <1>6, <2>5, <4>2
      <4>4. f.index <= n
        BY <1>1, <1>a, <3>2
      <4> QED
        BY <4>2, <4>3, <4>4
    <3>4. LET u == Trace(e.macro, e.recmode)
          IN  f.index # -1 /\ f.same /\ ~f.fault =>
                /\ f.index <= Len(e.macro)
                /\ Core(f) = Core(u[f.index]) /\ f.run = u[f.index].run
      BY <3>3 DEF t, n
    <3> QED
      BY <1>4, <3>1, <3>4, MacroKept
  <2>7. CASE Begun(e, r, d)
    <3>1. /\ f.macro = << >> /\ f.rec = << >> /\ f.recmode = f.mode /\ Core(f) = Core(Clean(f.mode))
          /\ f.defining = d.defining
      BY <1>4, <1>6, <2>7 DEF Begun, Anew
    <3>2. f.defining \/ ~f.same
      <4> SUFFICES ASSUME f.same PROVE f.defining
        OBVIOUS
      <4>1. d = t[i + 1] /\ d.macro = << >>
        BY <1>6, <2>2, <2>5, <2>7 DEF Begun
      <4>2. d.defining
        BY <1>a, <1>b, <4>1
      <4> QED
        BY <3>1, <4>2
    <3> QED
      BY <3>1, <3>2, MacroBegun
  <2>8. ~Closed(e, mac, r, d, q, c)
    BY <1>4 DEF Closed
  <2> QED
    BY <2>4, <2>6, <2>7, <2>8 DEF Stepped
<1>8. CASE e.same
  <2>1. t[i] \in Eds
    BY <1>3, <1>a
  <2> QED
    BY <1>7, <1>8, <1>s, <2>1
<1>9. CASE ~e.same
  BY <1>7, <1>9
<1> QED
  BY <1>8, <1>9

LEMMA MacroStep ==
    ASSUME EdInv, EdInv', KeyInv, [Next]_vars, MacroInv(ed)
    PROVE  MacroInv(ed')
<1>0. ed \in Eds /\ ed' \in Eds /\ ed.index >= -1 /\ ed.index \in Int
  BY DEF EdInv, Eds
<1>1. CASE ed' = ed
  BY <1>1
<1>2. ASSUME NEW k \in Moves, Waiting, ed' = qe_key_process(ed, k.key, k.effect)
      PROVE  MacroInv(ed')
  BY <1>0, <1>2, MacroTyped DEF Waiting
<1>3. CASE StartReplay
  <2> DEFINE s == ed.mode = ed.recmode /\ Ready(ed)
             t == Trace(ed.macro, ed.recmode)
             n == Len(ed.macro)
  <2>1. /\ ed' = [ed EXCEPT !.index = 0, !.pending = @ - 1, !.run = << >>, !.same = s]
        /\ ed.pending > 0 /\ ~ed.fault
    BY <1>3 DEF StartReplay
  <2>2. ed.macro \in Seq(Moves) /\ ed.recmode \in Modes /\ n \in Nat /\ 0 <= n
    BY <1>0 DEF Eds
  <2>3. t[0] = Clean(ed.recmode)
    BY <2>2, TraceIs
  <2>4. ed.defining => ed.macro = << >>
    BY <2>1 DEF MacroInv
  <2>5. s => Core(ed) = Core(Clean(ed.recmode))
    <3> SUFFICES ASSUME s PROVE Core(ed) = Core(Clean(ed.recmode))
      OBVIOUS
    <3>1. ed = qe_key_init(ed) /\ ~ed.describe /\ ed.grab = "none" /\ ed.mode = ed.recmode
      BY DEF Ready
    <3>2. Core(qe_key_init(ed)) = <<NO_ARG, 1, 1, FALSE, << >>, ed.describe, ed.grab, ed.mode,
                                    << >>, ed.fault>>
      BY <1>0, InitCore
    <3>3. ed.describe = FALSE /\ ed.grab = "none" /\ ed.fault = FALSE
      BY <1>0, <2>1, <3>1 DEF Eds
    <3>4. Core(Clean(ed.recmode))
            = <<NO_ARG, 1, 1, FALSE, << >>, FALSE, "none", ed.recmode, << >>, FALSE>>
      BY DEF Core, Clean
    <3>5. Core(ed) = Core(qe_key_init(ed))
      BY <3>1
    <3> QED
      BY <3>1, <3>2, <3>3, <3>4, <3>5
  <2> HIDE DEF s
  <2>6. /\ ed'.index = 0 /\ ed'.run = << >> /\ ed'.same = s /\ ed'.macro = ed.macro
        /\ ed'.rec = ed.rec /\ ed'.recmode = ed.recmode /\ ed'.defining = ed.defining
        /\ Core(ed') = Core(ed)
    BY <1>0, <2>1 DEF Eds, Core
  <2>7. t[0].run = << >>
    BY <2>3 DEF Clean
  <2>8. CASE ed.defining
    <3>1. /\ ed.rec = t[n].run /\ Core(ed) = Core(t[n])
          /\ \A i \in 1..n : /\ t[i].macro # << >> \/ t[i].defining
                             /\ t[i].macro # << >>
                             /\ ~t[i - 1].fault
      BY <2>8 DEF MacroInv
    <3> QED
      BY <2>4, <2>6, <2>8, <3>1 DEF MacroInv
  <2>9. CASE ~ed.defining
    <3>1. ed'.same => Core(ed') = Core(t[ed'.index]) /\ ed'.run = t[ed'.index].run
      BY <2>3, <2>5, <2>6, <2>7
    <3>2. ed'.index <= n
      BY <2>2, <2>6
    <3> HIDE DEF t, n
    <3> QED
      BY <1>0, <2>6, <2>9, <3>1, <3>2, MacroKept DEF t, n
  <2> QED
    BY <2>8, <2>9
<1>4. CASE ReplayKey
  <2>1. /\ ~ed.fault /\ ed.index + 1 \in 1..Len(ed.macro)
        /\ \E k \in Moves : LET e == qe_key_process(ed, k.key, k.effect)
                                 f == k = ed.macro[ed.index + 1]
                             IN  ed' = [e EXCEPT !.index = @ + 1, !.same = @ /\ f]
    BY <1>0, <1>4, Replayed
  <2>2. PICK k \in Moves : LET e == qe_key_process(ed, k.key, k.effect)
                               f == k = ed.macro[ed.index + 1]
                           IN  ed' = [e EXCEPT !.index = @ + 1, !.same = @ /\ f]
    BY <2>1
  <2>3. ed.index >= 0 /\ ed.index < Len(ed.macro)
    <3>1. ed.macro \in Seq(Moves)
      BY <1>0 DEF Eds
    <3> QED
      BY <1>0, <2>1, <3>1
  <2> QED
    BY <1>0, <2>1, <2>2, <2>3, MacroReplayed
<1>5. CASE EndReplay
  <2>1. ed' = [ed EXCEPT !.index = -1, !.run = << >>, !.same = TRUE] /\ ed.index # -1
    BY <1>5 DEF EndReplay
  <2>2. /\ ed'.index = -1 /\ ed'.macro = ed.macro /\ ed'.pending = ed.pending
        /\ ed'.rec = ed.rec /\ ed'.recmode = ed.recmode /\ ed'.defining = ed.defining
        /\ Core(ed') = Core(ed)
    BY <1>0, <2>1 DEF Eds, Core
  <2> QED
    BY <2>1, <2>2 DEF MacroInv
<1> QED
  BY <1>1, <1>2, <1>3, <1>4, <1>5, NextCases

LEMMA MacroInitial == Init => MacroInv(ed)
<1> SUFFICES ASSUME Init PROVE MacroInv(ed)
  OBVIOUS
<1>1. ed \in Eds
  BY EdInitial DEF EdInv
<1>2. /\ ed.macro = << >> /\ ed.rec = << >> /\ ed.recmode = ed.mode /\ ed.index = -1
  BY DEF Init
<1>3. Core(ed) = Core(Clean(ed.mode))
  BY DEF Init, Core, Clean
<1> QED
  BY <1>1, <1>2, <1>3, MacroBegun

LEMMA PrefixLogs ==
    ASSUME NEW s \in Seq(Calls), NEW r \in Seq(Calls), IsPrefix(s, r), NEW q \in BOOLEAN,
           NEW c, NEW u \in Seq(Calls), u = Logs(q, c, r)
    PROVE  IsPrefix(s, u)
<1>1. CASE ~q
  BY <1>1 DEF Logs
<1>2. CASE q
  <2>1. u = Append(r, c)
    BY <1>2 DEF Logs
  <2> DEFINE a == Len(s)
             b == Len(r)
  <2>2. a \in Nat /\ b \in Nat /\ a <= b /\ SubSeq(s, 1, a) = SubSeq(r, 1, a)
    BY DEF IsPrefix
  <2>3. Len(u) = b + 1
    BY <2>1
  <2>4. SubSeq(u, 1, a) = SubSeq(r, 1, a)
    <3>1. \A i \in 1..a : u[i] = r[i]
      BY <2>1, <2>2
    <3> QED
      BY <2>2, <2>3, <3>1
  <2>5. a <= b + 1
    <3> HIDE DEF a, b
    <3> QED
      BY <2>2
  <2> QED
    BY <2>2, <2>3, <2>4, <2>5 DEF IsPrefix
<1> QED
  BY <1>1, <1>2

(* What a part of the macro calls is a part of what all of it calls.       *)
LEMMA TracePrefix ==
    ASSUME NEW m \in Seq(Moves), NEW mode \in Modes, NEW i \in 0..Len(m),
           \A j \in 1..Len(m) : ~Trace(m, mode)[j - 1].fault
    PROVE  IsPrefix(Trace(m, mode)[i].run, Trace(m, mode)[Len(m)].run)
<1> DEFINE t == Trace(m, mode)
           n == Len(m)
<1>1. n \in Nat /\ \A j \in 1..n : m[j] \in Moves
  OBVIOUS
<1>2. /\ \A j \in 0..n : t[j] \in Eds
      /\ \A j \in 1..n : t[j] = Moved(t[j - 1], m[j])
  BY TraceIs
<1>3. \A j \in 1..n : ~t[j - 1].fault
  OBVIOUS
<1> HIDE DEF t, n
<1>4. \A j \in 0..n : t[j].run \in Seq(Calls)
  BY <1>2 DEF Eds
<1> DEFINE T == {j \in 0..(n - i) : IsPrefix(t[i].run, t[i + j].run)}
<1>5. 0 \in T
  <2>1. t[i].run \in Seq(Calls) /\ i + 0 = i /\ 0 \in 0..(n - i)
    BY <1>1, <1>4 DEF n
  <2>2. \A s \in Seq(Calls) : IsPrefix(s, s)
    BY DEF IsPrefix
  <2> QED
    BY <2>1, <2>2
<1>6. ASSUME NEW j \in 0..((n - i) - 1), j \in T PROVE j + 1 \in T
  <2> DEFINE a == i + j
             k == m[a + 1]
  <2>1. a \in 0..n /\ a + 1 \in 1..n /\ a + 1 \in 0..n /\ (a + 1) - 1 = a /\ i + (j + 1) = a + 1
        /\ j + 1 \in 0..(n - i) /\ i \in 0..n
    BY <1>1 DEF n
  <2> HIDE DEF a
  <2>2. k \in Moves /\ t[a] \in Eds /\ ~t[a].fault /\ t[a + 1] = Moved(t[a], k)
    BY <1>1, <1>2, <1>3, <2>1
  <2> DEFINE e == t[a]
  <2>3. Steps(e, e, IF e.defining THEN Append(e.macro, k) ELSE e.macro,
              qe_key_process(e, k.key, k.effect), Moved(e, k))
    <3> HIDE DEF k, e
    <3> QED
      BY <2>2, MovedSteps DEF e
  <2>4. PICK q \in BOOLEAN, c \in Calls \cup {None} : t[a + 1].run = Logs(q, c, t[a].run)
    <3> HIDE DEF k
    <3> QED
      BY <2>2, <2>3 DEF Steps, Stepped
  <2>5. IsPrefix(t[i].run, t[a].run)
    BY <1>6, <2>1 DEF a
  <2>6. IsPrefix(t[i].run, t[a + 1].run)
    BY <1>4, <2>1, <2>4, <2>5, PrefixLogs
  <2> QED
    BY <2>1, <2>6
<1> HIDE DEF T
<1>7. n - i \in Nat
  BY <1>1 DEF n
<1>8. n - i \in T
  BY <1>5, <1>6, <1>7, UpTo
<1>9. i + (n - i) = n
  BY <1>1 DEF n
<1> QED
  BY <1>8, <1>9 DEF T, t, n

LEMMA ReplayIs ==
    ASSUME EdInv, MacroInv(ed) PROVE ReplayFaithful
<1> DEFINE t == Trace(ed.macro, ed.recmode)
           n == Len(ed.macro)
           i == ed.index
<1> SUFFICES ASSUME i # -1, ed.same, ~ed.defining, ~ed.fault
             PROVE  IsPrefix(ed.run, ed.rec) /\ (i = n => ed.run = ed.rec)
  BY DEF ReplayFaithful
<1>1. ed.macro \in Seq(Moves) /\ ed.recmode \in Modes /\ i \in Int /\ i >= -1
  BY DEF EdInv, Eds
<1>2. /\ ed.rec = t[n].run /\ i <= n /\ ed.run = t[i].run
      /\ \A j \in 1..n : ~t[j - 1].fault
  BY DEF MacroInv
<1>3. i \in 0..n
  BY <1>1, <1>2
<1>4. IsPrefix(t[i].run, t[n].run)
  BY <1>1, <1>2, <1>3, TracePrefix
<1> QED
  BY <1>2, <1>4

(* macro_add_key and do_call_macro_bh: for all keys, bindings and bounds,  *)
(* a replay calls the commands that were called while the macro was        *)
(* defined, in the same order and with the same arguments.                 *)
THEOREM ReplaysFaithful == Spec => []ReplayFaithful
<1>1. EdInv /\ KeyInv /\ MacroInv(ed) /\ [Next]_vars => MacroInv(ed)'
  BY EdStep, MacroStep
<1>2. EdInv /\ MacroInv(ed) => ReplayFaithful
  BY ReplayIs
<1> QED
  BY <1>1, <1>2, MacroInitial, Typed, PTL DEF Spec

================================================================================
