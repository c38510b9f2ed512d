------------------------------- MODULE ShellProofs ------------------------------
(***************************************************************************)
(* Proofs about Shell: handlers are called with live state, process ids    *)
(* and descriptors belong to one shell, and output keeps its order, for    *)
(* any number of shells, processes and descriptors.                        *)
(***************************************************************************)
EXTENDS Shell, TLAPS, WellFoundedInduction, SequenceTheorems

---------------------------------------------------------------------------
(* The invariant, of the parts of the editor: the shells sh, the handlers  *)
(* ha of descriptors and ph of processes, the processes pr and the         *)
(* terminals pt; rf are the descriptors whose handlers will be called.     *)

ShellState == [freed : BOOLEAN, pty_fd : Fd \cup {None}, pid : Pid \cup {None},
               is_shell : BOOLEAN, shown : Seq(Nat), finished : BOOLEAN,
               wrote : Nat]
Pty        == [open : BOOLEAN, out : Seq(Nat), in : Nat]
PidHandler == [pid : Pid, opaque : Nat]

LiveIn(sh) == {s \in 1..Len(sh) : ~sh[s].freed}

Types(sh, ha, ph, pr, pt, rf) ==
    /\ sh \in Seq(ShellState)
    /\ ha \in [Fd -> Nat \cup {None}]
    /\ ph \in Seq(PidHandler)
    /\ pr \in [Pid -> {"none", "running", "zombie"}]
    /\ pt \in [Fd -> Pty]
    /\ rf \subseteq Fd \cup {Keyboard}

(* A shell has a descriptor as long as it has a process.                   *)
Paired(sh) ==
    \A s \in 1..Len(sh) : /\ sh[s].pid = None <=> sh[s].pty_fd = None
                          /\ sh[s].freed => sh[s].pid = None

(* The descriptor of a shell is open and its own, and the handler of a     *)
(* descriptor, if there is one, is the shell that has it.                  *)
FdsOwned(sh, ha, pt) ==
    /\ \A s \in LiveIn(sh) : sh[s].pty_fd # None =>
         /\ pt[sh[s].pty_fd].open
         /\ \A t \in LiveIn(sh) : sh[t].pty_fd = sh[s].pty_fd => t = s
    /\ \A fd \in Fd : ha[fd] # None =>
         /\ ha[fd] \in LiveIn(sh) /\ sh[ha[fd]].pty_fd = fd
         /\ pt[fd].open

(* A process that was not collected is that of one live shell.             *)
PidsOwned(sh, pr) ==
    /\ \A s \in LiveIn(sh) : sh[s].pid # None =>
         /\ pr[sh[s].pid] # "none"
         /\ \A t \in LiveIn(sh) : sh[t].pid = sh[s].pid => t = s
    /\ \A p \in Pid : pr[p] # "none" => \E s \in LiveIn(sh) : sh[s].pid = p

(* The first handler of a process in the list is the one of its shell:     *)
(* those that shell_close has left there come after it.                    *)
FirstHandler(ph, p, s) ==
    \E i \in 1..Len(ph) : /\ ph[i] = [pid |-> p, opaque |-> s]
                          /\ \A j \in 1..(i - 1) : ph[j].pid # p
HandlersFirst(sh, ph) ==
    \A s \in LiveIn(sh) : sh[s].pid # None => FirstHandler(ph, sh[s].pid, s)

(* What a shell shows and what its terminal holds is all that its process  *)
(* wrote, in this order.                                                   *)
Numbered(x) == \A i \in 1..Len(x.shown) : x.shown[i] = i
Continues(x, y) ==
    /\ x.wrote = Len(x.shown) + Len(y.out)
    /\ \A i \in 1..Len(y.out) : y.out[i] = Len(x.shown) + i
InOrder(sh, pt) ==
    \A s \in 1..Len(sh) :
       /\ Numbered(sh[s])
       /\ ~sh[s].freed /\ sh[s].pty_fd # None => Continues(sh[s], pt[sh[s].pty_fd])

(* Process and terminal are always to be had, and a shell is not closed in *)
(* a round in which its own descriptor is ready.                           *)
Careful == ~PtyFails /\ ~KillWhenReady

(* Then no handler is removed that will be called.                         *)
Watched(sh, ha, rf) ==
    Careful => /\ \A s \in LiveIn(sh) : sh[s].pty_fd # None => ha[sh[s].pty_fd] = s
               /\ \A fd \in rf \ {Keyboard} : ha[fd] # None

Inv(sh, ha, ph, pr, pt, rf) ==
    /\ Types(sh, ha, ph, pr, pt, rf)
    /\ Paired(sh)
    /\ FdsOwned(sh, ha, pt)
    /\ PidsOwned(sh, pr)
    /\ HandlersFirst(sh, ph)
    /\ InOrder(sh, pt)
    /\ Watched(sh, ha, rf)

ShellInv ==
    /\ Inv(shells, handlers, pid_handlers, proc, pty, loop.rfds)
    /\ loop \in [at : {"select", "handlers", "write"},
                 rfds : SUBSET (Fd \cup {Keyboard}), fd : Fd \cup {None}]
    /\ Careful => ~dangling

---------------------------------------------------------------------------
(* Numbers and sequences.                                                  *)

(* A set of numbers that is not empty has a least element.                 *)
LEMMA LeastNumber ==
    ASSUME NEW T \in SUBSET Nat, T # {}
    PROVE  \E x \in T : \A y \in T : x <= y
<1> DEFINE R == {ss \in Nat \X Nat : ss[1] < ss[2]}
<1>1. IsWellFoundedOn(R, Nat)
  BY NatLessThanWellFounded DEF OpToRel
<1> HIDE DEF R
<1>2. PICK x \in T : \A y \in T : ~(<<y, x>> \in R)
  BY <1>1, WFMin
<1>3. \A y \in T : x <= y
  <2> SUFFICES ASSUME NEW y \in T, ~(x <= y) PROVE FALSE
    OBVIOUS
  <2>1. y < x /\ x \in Nat /\ y \in Nat
    OBVIOUS
  <2>2. <<y, x>> \in R
    BY <2>1 DEF R
  <2> QED
    BY <1>2, <2>2
<1> QED
  BY <1>3

(* Element s of a sequence is replaced.                                    *)
LEMMA ReplacedAt ==
    ASSUME NEW S, NEW q \in Seq(S), NEW s \in 1..Len(q), NEW x \in S
    PROVE  /\ [q EXCEPT ![s] = x] \in Seq(S)
           /\ Len([q EXCEPT ![s] = x]) = Len(q)
           /\ \A t \in 1..Len(q) :
                [q EXCEPT ![s] = x][t] = IF t = s THEN x ELSE q[t]
OBVIOUS

LEMMA ConsProperties ==
    ASSUME NEW S, NEW q \in Seq(S), NEW x \in S
    PROVE  /\ <<x>> \o q \in Seq(S)
           /\ Len(<<x>> \o q) = Len(q) + 1
           /\ (<<x>> \o q)[1] = x
           /\ \A i \in 1..Len(q) : (<<x>> \o q)[i + 1] = q[i]
<1> DEFINE c == <<x>> \o q
           h == <<x>>
<1>1. h \in Seq(S) /\ Len(h) = 1 /\ h[1] = x
  OBVIOUS
<1>2. c = h \o q
  OBVIOUS
<1> HIDE DEF c, h
<1>3. /\ c \in Seq(S) /\ Len(c) = Len(h) + Len(q)
      /\ \A i \in 1 .. Len(h) + Len(q) : c[i] = IF i <= Len(h) THEN h[i] ELSE q[i - Len(h)]
  BY <1>1, <1>2, ConcatProperties
<1>4. c \in Seq(S) /\ Len(c) = Len(q) + 1 /\ c[1] = x /\ \A i \in 1..Len(q) : c[i + 1] = q[i]
  BY <1>1, <1>3
<1> QED
  BY <1>4 DEF c

LEMMA RemoveProperties ==
    ASSUME NEW S, NEW q \in Seq(S), NEW i \in 1..Len(q)
    PROVE  /\ RemoveAt(q, i) \in Seq(S)
           /\ Len(RemoveAt(q, i)) = Len(q) - 1
           /\ \A j \in 1..(Len(q) - 1) :
                RemoveAt(q, i)[j] = IF j < i THEN q[j] ELSE q[j + 1]
<1> DEFINE a == SubSeq(q, 1, i - 1)
           c == SubSeq(q, i + 1, Len(q))
           r == RemoveAt(q, i)
<1>1. a \in Seq(S) /\ Len(a) = i - 1 /\ \A j \in 1..(i - 1) : a[j] = q[j]
  <2> DEFINE m == 1
             n == i - 1
  <2>1. m \in Int /\ n \in Int /\ \A j \in m..n : q[j] \in S
    OBVIOUS
  <2>2. /\ SubSeq(q,m,n) \in Seq(S)
        /\ Len(SubSeq(q,m,n)) = IF m<=n THEN n-m+1 ELSE 0
        /\ \A j \in 1 .. n-m+1 : SubSeq(q,m,n)[j] = q[m+j-1]
    <3> HIDE DEF m, n
    <3> QED
      BY <2>1, SubSeqProperties
  <2> QED
    BY <2>2
<1>2. c \in Seq(S) /\ Len(c) = Len(q) - i /\ \A j \in 1..(Len(q) - i) : c[j] = q[j + i]
  <2> DEFINE m == i + 1
             n == Len(q)
  <2>1. m \in Int /\ n \in Int /\ \A j \in m..n : q[j] \in S
    OBVIOUS
  <2>2. /\ SubSeq(q,m,n) \in Seq(S)
        /\ Len(SubSeq(q,m,n)) = IF m<=n THEN n-m+1 ELSE 0
        /\ \A j \in 1 .. n-m+1 : SubSeq(q,m,n)[j] = q[m+j-1]
    <3> HIDE DEF m, n
    <3> QED
      BY <2>1, SubSeqProperties
  <2> QED
    BY <2>2
<1>3. r = a \o c
  BY DEF RemoveAt
<1> HIDE DEF a, c, r
<1>4. /\ r \in Seq(S) /\ Len(r) = Len(a) + Len(c)
      /\ \A j \in 1 .. Len(a) + Len(c) : r[j] = IF j <= Len(a) THEN a[j] ELSE c[j - Len(a)]
  BY <1>1, <1>2, <1>3, ConcatProperties
<1>5. Len(r) = Len(q) - 1
  BY <1>1, <1>2, <1>4
<1>6. \A j \in 1..(Len(q) - 1) : r[j] = IF j < i THEN q[j] ELSE q[j + 1]
  <2> TAKE j \in 1..(Len(q) - 1)
  <2>0. j \in 1 .. Len(a) + Len(c) /\ Len(a) = i - 1
    BY <1>1, <1>2
  <2>1. CASE j < i
    <3>1. j <= Len(a) /\ j \in 1..(i - 1)
      BY <2>0, <2>1
    <3>2. r[j] = a[j]
      BY <1>4, <2>0, <3>1
    <3> QED
      BY <1>1, <2>1, <3>1, <3>2
  <2>2. CASE ~(j < i)
    <3>0. ~(j <= Len(a))
      BY <2>0, <2>2
    <3>1. r[j] = c[j - (i - 1)] /\ j - (i - 1) \in 1..(Len(q) - i)
      BY <1>4, <2>0, <2>2, <3>0
    <3>2. c[j - (i - 1)] = q[j - (i - 1) + i]
      BY <1>2, <3>1
    <3>3. j - (i - 1) + i = j + 1
      OBVIOUS
    <3> QED
      BY <2>2, <3>1, <3>2, <3>3
  <2> QED
    BY <2>1, <2>2
<1> QED
  BY <1>4, <1>5, <1>6 DEF r

---------------------------------------------------------------------------
(* The list of process handlers.                                           *)

(* The handler that is called, or deleted, is the first one.               *)
LEMMA HandlerFound ==
    ASSUME NEW e, e.pid_handlers \in Seq(PidHandler), NEW p, NEW s,
           FirstHandler(e.pid_handlers, p, s)
    PROVE  LET i == HandlerIndex(e, p)
           IN  /\ i \in 1..Len(e.pid_handlers) /\ i # 0
               /\ e.pid_handlers[i] = [pid |-> p, opaque |-> s]
<1> DEFINE ph == e.pid_handlers
           I  == {j \in 1..Len(ph) : ph[j].pid = p}
           m  == CHOOSE x \in I : \A y \in I : x <= y
<1>1. PICK i \in 1..Len(ph) : /\ ph[i] = [pid |-> p, opaque |-> s]
                              /\ \A j \in 1..(i - 1) : ph[j].pid # p
  BY DEF FirstHandler
<1>2. i \in I /\ \A y \in I : i <= y
  BY <1>1
<1>3. HandlerIndex(e, p) = IF I # {} THEN m ELSE 0
  BY DEF HandlerIndex, SelectInSeq, Min
<1>4. m \in I /\ \A y \in I : m <= y
  BY <1>2
<1>5. \A y \in I : y \in Int
  OBVIOUS
<1> HIDE DEF m, I
<1>6. m = i
  BY <1>2, <1>4, <1>5
<1>7. HandlerIndex(e, p) = i
  BY <1>2, <1>3, <1>6
<1> QED
  BY <1>1, <1>7

(* Deleting a handler of another process leaves the first one first.       *)
LEMMA FirstAfterRemove ==
    ASSUME NEW ph \in Seq(PidHandler), NEW i \in 1..Len(ph), NEW q, NEW s,
           ph[i].pid # q, FirstHandler(ph, q, s)
    PROVE  FirstHandler(RemoveAt(ph, i), q, s)
<1> DEFINE r == RemoveAt(ph, i)
<1>1. PICK k \in 1..Len(ph) : /\ ph[k] = [pid |-> q, opaque |-> s]
                              /\ \A j \in 1..(k - 1) : ph[j].pid # q
  BY DEF FirstHandler
<1>2. /\ Len(r) = Len(ph) - 1 /\ Len(ph) \in Nat
      /\ \A j \in 1..(Len(ph) - 1) : r[j] = IF j < i THEN ph[j] ELSE ph[j + 1]
  <2>1. /\ Len(RemoveAt(ph, i)) = Len(ph) - 1
        /\ \A j \in 1..(Len(ph) - 1) :
             RemoveAt(ph, i)[j] = IF j < i THEN ph[j] ELSE ph[j + 1]
    BY RemoveProperties
  <2>2. Len(ph) \in Nat
    OBVIOUS
  <2> QED
    BY <2>1, <2>2
<1>3. k # i
  BY <1>1
<1> HIDE DEF r
<1>4. CASE k < i
  <2>1. k \in 1..Len(r) /\ r[k] = ph[k] /\ \A j \in 1..(k - 1) : r[j] = ph[j]
    BY <1>2, <1>4
  <2> QED
    BY <1>1, <2>1 DEF FirstHandler, r
<1>5. CASE k > i
  <2> DEFINE k1 == k - 1
  <2>1. k1 \in 1..Len(r) /\ r[k1] = ph[k]
    BY <1>2, <1>5
  <2>2. \A j \in 1..(k1 - 1) : r[j].pid # q
    <3> TAKE j \in 1..(k1 - 1)
    <3>1. j \in 1..(Len(ph) - 1) /\ j \in 1..(k - 1) /\ j + 1 \in 1..(k - 1)
      BY <1>2, <1>5
    <3> QED
      BY <1>1, <1>2, <3>1
  <2> HIDE DEF k1
  <2> QED
    BY <1>1, <2>1, <2>2 DEF FirstHandler, r
<1> QED
  BY <1>3, <1>4, <1>5

(* A new handler is the first one of its process, and of no other.         *)
LEMMA FirstAfterAdd ==
    ASSUME NEW ph \in Seq(PidHandler), NEW p \in Pid, NEW s \in Nat
    PROVE  LET h == <<[pid |-> p, opaque |-> s]>> \o ph
           IN  /\ h \in Seq(PidHandler)
               /\ FirstHandler(h, p, s)
               /\ \A q, t : q # p /\ FirstHandler(ph, q, t) => FirstHandler(h, q, t)
<1> DEFINE x == [pid |-> p, opaque |-> s]
           h == <<x>> \o ph
<1>1. x \in PidHandler /\ x.pid = p
  BY DEF PidHandler
<1>2. x = [pid |-> p, opaque |-> s]
  OBVIOUS
<1> HIDE DEF x
<1>3. /\ h \in Seq(PidHandler) /\ Len(h) = Len(ph) + 1 /\ Len(ph) \in Nat
      /\ h[1] = x /\ \A i \in 1..Len(ph) : h[i + 1] = ph[i]
  BY <1>1, ConsProperties
<1> HIDE DEF h
<1>4. FirstHandler(h, p, s)
  BY <1>2, <1>3 DEF FirstHandler
<1>5. ASSUME NEW q, NEW t, q # p, FirstHandler(ph, q, t) PROVE FirstHandler(h, q, t)
  <2>1. PICK k \in 1..Len(ph) : /\ ph[k] = [pid |-> q, opaque |-> t]
                                /\ \A j \in 1..(k - 1) : ph[j].pid # q
    BY <1>5 DEF FirstHandler
  <2> DEFINE k1 == k + 1
  <2>2. k1 \in 1..Len(h) /\ h[k1] = ph[k]
    BY <1>3
  <2>3. \A j \in 1..(k1 - 1) : h[j].pid # q
    <3> TAKE j \in 1..(k1 - 1)
    <3>1. CASE j = 1
      BY <1>1, <1>3, <1>5, <3>1
    <3>2. CASE j # 1
      <4> DEFINE j0 == j - 1
      <4>1. j0 \in 1..Len(ph) /\ j0 \in 1..(k - 1) /\ j = j0 + 1
        BY <3>2
      <4> HIDE DEF j0
      <4> QED
        BY <1>3, <2>1, <4>1
    <3> QED
      BY <3>1, <3>2
  <2> HIDE DEF k1
  <2> QED
    BY <2>1, <2>2, <2>3 DEF FirstHandler
<1> QED
  BY <1>3, <1>4, <1>5 DEF h, x

---------------------------------------------------------------------------
(* The parts of an editor after an operation.                              *)

Editors(A, B, C, D, E) ==
    [shells : A, handlers : B, pid_handlers : C, proc : D, pty : E]

(* A shell is closed.                                                      *)
Closes(sh, ha, pr, pt, s, sh1, ha1, pr1, pt1) ==
    /\ sh1 = [sh EXCEPT ![s] = Freed]
    /\ ha1 = IF sh[s].pty_fd = None THEN ha ELSE [ha EXCEPT ![sh[s].pty_fd] = None]
    /\ pr1 = IF sh[s].pid = None THEN pr ELSE [pr EXCEPT ![sh[s].pid] = "none"]
    /\ pt1 = IF sh[s].pty_fd = None THEN pt ELSE [pt EXCEPT ![sh[s].pty_fd] = UnusedPty]

LEMMA CloseParts ==
    ASSUME NEW A, NEW B, NEW C, NEW D, NEW E, NEW e \in Editors(A, B, C, D, E), NEW s
    PROVE  LET f == shell_close(e, s)
           IN  /\ Closes(e.shells, e.handlers, e.proc, e.pty, s,
                         f.shells, f.handlers, f.proc, f.pty)
               /\ f.pid_handlers = e.pid_handlers
               /\ f \in Editors({f.shells}, {f.handlers}, {f.pid_handlers}, {f.proc}, {f.pty})
BY DEF shell_close, set_read_handler, Editors, Closes

(* A shell is made, with descriptor d and process p.                       *)
Makes(sh, ha, ph, pr, pt, d, p, k, sh1, ha1, ph1, pr1, pt1) ==
    /\ sh1 = Append(sh, Fresh(d, p, k))
    /\ ha1 = [ha EXCEPT ![d] = Len(sh) + 1]
    /\ ph1 = <<[pid |-> p, opaque |-> Len(sh) + 1]>> \o ph
    /\ pr1 = [pr EXCEPT ![p] = "running"]
    /\ pt1 = [pt EXCEPT ![d] = UnusedPty]

LEMMA MakeParts ==
    ASSUME NEW A, NEW B, NEW C, NEW D, NEW E, NEW e \in Editors(A, B, C, D, E),
           NEW k, NEW p
    PROVE  LET f == new_shell_buffer(e, k, p)
           IN  Makes(e.shells, e.handlers, e.pid_handlers, e.proc, e.pty, get_pty(e), p, k,
                     f.shells, f.handlers, f.pid_handlers, f.proc, f.pty)
BY DEF new_shell_buffer, run_process, AddPidHandler, set_read_handler, Editors, Makes

(* The process of shell s was collected, and handler i of it is called.    *)
Collects(sh, ha, ph, pt, s, i, sh1, ha1, ph1, pt1) ==
    /\ sh1 = [sh EXCEPT ![s] = [sh[s] EXCEPT !.finished = TRUE, !.pid = None, !.pty_fd = None]]
    /\ ha1 = IF sh[s].pty_fd = None THEN ha ELSE [ha EXCEPT ![sh[s].pty_fd] = None]
    /\ ph1 = IF i = 0 THEN ph ELSE RemoveAt(ph, i)
    /\ pt1 = IF sh[s].pty_fd = None THEN pt ELSE [pt EXCEPT ![sh[s].pty_fd] = ClosedPty]

LEMMA CollectParts ==
    ASSUME NEW A, NEW B, NEW C, NEW D, NEW E, NEW e \in Editors(A, B, C, D, E), NEW s,
           s \in DOMAIN e.shells
    PROVE  LET f == shell_pid_cb(e, s)
           IN  /\ Collects(e.shells, e.handlers, e.pid_handlers, e.pty,
                           s, HandlerIndex(e, e.shells[s].pid),
                           f.shells, f.handlers, f.pid_handlers, f.pty)
               /\ f.proc = e.proc
BY DEF shell_pid_cb, set_read_handler, DeletePidHandler, HandlerIndex, Editors, Collects

---------------------------------------------------------------------------
(* Every operation keeps the invariant.                                    *)

(* The types of what is put into the state.                                *)
LEMMA Numbers ==
    /\ None \notin Fd /\ None \notin Pid /\ Keyboard \notin Fd
    /\ Fd \subseteq Nat /\ None \notin Nat
BY PidAssumption, SizeAssumption DEF None, Keyboard, Fd

LEMMA FreshType ==
    ASSUME NEW fd \in Fd \cup {None}, NEW p \in Pid \cup {None}, NEW k \in BOOLEAN
    PROVE  /\ Fresh(fd, p, k) \in ShellState /\ ~Fresh(fd, p, k).freed
           /\ Fresh(fd, p, k).pid = p /\ Fresh(fd, p, k).pty_fd = fd
           /\ Fresh(fd, p, k).shown = << >> /\ Fresh(fd, p, k).wrote = 0
BY DEF Fresh, ShellState

LEMMA FreedType ==
    /\ Freed \in ShellState /\ Freed.freed /\ Freed.pid = None /\ Freed.pty_fd = None
    /\ Freed.shown = << >>
<1> DEFINE x == Fresh(None, None, TRUE)
<1>1. /\ x \in ShellState /\ x.pid = None /\ x.pty_fd = None /\ x.shown = << >>
  BY ZenonT(60), FreshType
<1>2. Freed = [x EXCEPT !.freed = TRUE]
  BY DEF Freed
<1> HIDE DEF x
<1> QED
  BY <1>1, <1>2 DEF ShellState

LEMMA PtyType ==
    /\ ClosedPty \in Pty /\ ~ClosedPty.open
    /\ UnusedPty \in Pty /\ UnusedPty.open /\ UnusedPty.out = << >>
BY DEF ClosedPty, UnusedPty, Pty

(* The parts of a shell.                                                   *)
LEMMA ShellParts ==
    ASSUME NEW sh \in Seq(ShellState), NEW s \in 1..Len(sh)
    PROVE  /\ sh[s] \in ShellState
           /\ sh[s].freed \in BOOLEAN
           /\ sh[s].pty_fd \in Fd \cup {None} /\ sh[s].pid \in Pid \cup {None}
           /\ sh[s].shown \in Seq(Nat) /\ sh[s].wrote \in Nat
<1>1. sh[s] \in ShellState
  OBVIOUS
<1> DEFINE x == sh[s]
<1> HIDE DEF x
<1>2. x \in ShellState
  BY <1>1 DEF x
<1>3. /\ x.freed \in BOOLEAN
      /\ x.pty_fd \in Fd \cup {None} /\ x.pid \in Pid \cup {None}
      /\ x.shown \in Seq(Nat) /\ x.wrote \in Nat
  BY <1>2 DEF ShellState
<1> QED
  BY <1>1, <1>3 DEF x

(* The parts of the invariant.                                             *)
LEMMA InvParts ==
    ASSUME NEW sh, NEW ha, NEW ph, NEW pr, NEW pt, NEW rf,
           Inv(sh, ha, ph, pr, pt, rf)
    PROVE  /\ sh \in Seq(ShellState) /\ Len(sh) \in Nat
           /\ ha \in [Fd -> Nat \cup {None}] /\ pr \in [Pid -> {"none", "running", "zombie"}]
           /\ ph \in Seq(PidHandler) /\ pt \in [Fd -> Pty] /\ rf \subseteq Fd \cup {Keyboard}
           /\ \A t \in LiveIn(sh) : /\ t \in 1..Len(sh) /\ ~sh[t].freed /\ t # None
                                    /\ sh[t].pty_fd # None => sh[t].pty_fd \in Fd
                                    /\ sh[t].pid # None => sh[t].pid \in Pid
           /\ Paired(sh) /\ FdsOwned(sh, ha, pt) /\ PidsOwned(sh, pr)
           /\ HandlersFirst(sh, ph) /\ InOrder(sh, pt) /\ Watched(sh, ha, rf)
<1>1. sh \in Seq(ShellState)
  BY DEF Inv, Types
<1>2. ASSUME NEW t \in LiveIn(sh)
      PROVE  /\ t \in 1..Len(sh) /\ ~sh[t].freed /\ t # None
             /\ sh[t].pty_fd # None => sh[t].pty_fd \in Fd
             /\ sh[t].pid # None => sh[t].pid \in Pid
  <2>1. t \in 1..Len(sh) /\ ~sh[t].freed
    BY DEF LiveIn
  <2>2. t \in Nat /\ t # None
    BY <1>1, <2>1, Numbers
  <2> QED
    BY <1>1, <2>1, <2>2, ShellParts
<1> QED
  BY <1>1, <1>2 DEF Inv, Types

LEMMA CloseInv ==
    ASSUME NEW sh, NEW ha, NEW ph, NEW pr, NEW pt, NEW rf,
           Inv(sh, ha, ph, pr, pt, rf), NEW s \in LiveIn(sh),
           Careful => sh[s].pty_fd \notin rf,
           NEW sh1, NEW ha1, NEW pr1, NEW pt1,
           Closes(sh, ha, pr, pt, s, sh1, ha1, pr1, pt1)
    PROVE  Inv(sh1, ha1, ph, pr1, pt1, rf)
<1> DEFINE d == sh[s].pty_fd
           p == sh[s].pid
<1>1. /\ sh \in Seq(ShellState) /\ s \in 1..Len(sh) /\ ~sh[s].freed /\ Len(sh) \in Nat
      /\ s # None
  BY InvParts
<1>2. d \in Fd \cup {None} /\ p \in Pid \cup {None} /\ (d = None <=> p = None)
  BY <1>1, ShellParts, InvParts DEF Paired
<1>3. /\ sh1 \in Seq(ShellState) /\ Len(sh1) = Len(sh)
      /\ \A t \in 1..Len(sh) : sh1[t] = IF t = s THEN Freed ELSE sh[t]
  BY <1>1, FreedType, ReplacedAt DEF Closes
<1>4. /\ ha1 \in [Fd -> Nat \cup {None}]
      /\ \A fd \in Fd : ha1[fd] = IF fd = d THEN None ELSE ha[fd]
  BY <1>2, InvParts, Numbers DEF Closes
<1>5. /\ pr1 \in [Pid -> {"none", "running", "zombie"}]
      /\ \A q \in Pid : pr1[q] = IF q = p THEN "none" ELSE pr[q]
  BY <1>2, InvParts, Numbers DEF Closes
<1>6. /\ pt1 \in [Fd -> Pty]
      /\ \A fd \in Fd : pt1[fd] = IF fd = d THEN UnusedPty ELSE pt[fd]
  BY <1>2, InvParts, Numbers, PtyType DEF Closes
<1>7. LiveIn(sh1) = LiveIn(sh) \ {s}
  BY <1>1, <1>3, FreedType DEF LiveIn
<1>8. \A t \in LiveIn(sh1) : sh1[t] = sh[t] /\ t # s /\ t \in LiveIn(sh)
  BY <1>3, <1>7 DEF LiveIn
<1>9. \A t \in LiveIn(sh1) : sh[t].pty_fd # None => sh[t].pty_fd \in Fd /\ sh[t].pty_fd # d
  BY <1>8, InvParts DEF FdsOwned
<1>10. \A t \in LiveIn(sh1) : sh[t].pid # None => sh[t].pid \in Pid /\ sh[t].pid # p
  BY <1>8, InvParts DEF PidsOwned
<1>11. \A fd \in Fd : fd # d => ha[fd] # s
  BY <1>1, InvParts DEF FdsOwned
<1> HIDE DEF d, p
<1>12. Types(sh1, ha1, ph, pr1, pt1, rf)
  BY <1>3, <1>4, <1>5, <1>6, InvParts DEF Types
<1>13. Paired(sh1)
  BY <1>3, FreedType, InvParts DEF Paired
<1>14. FdsOwned(sh1, ha1, pt1)
  <2>0. FdsOwned(sh, ha, pt)
    BY InvParts
  <2>1. \A t \in LiveIn(sh1) : sh1[t].pty_fd # None =>
          /\ pt1[sh1[t].pty_fd].open
          /\ \A u \in LiveIn(sh1) : sh1[u].pty_fd = sh1[t].pty_fd => u = t
    BY <1>6, <1>8, <1>9, <2>0 DEF FdsOwned
  <2>2. \A fd \in Fd : ha1[fd] # None =>
          ha1[fd] \in LiveIn(sh1) /\ sh1[ha1[fd]].pty_fd = fd /\ pt1[fd].open
    <3> SUFFICES ASSUME NEW fd \in Fd, ha1[fd] # None
                 PROVE  ha1[fd] \in LiveIn(sh1) /\ sh1[ha1[fd]].pty_fd = fd /\ pt1[fd].open
      OBVIOUS
    <3>1. fd # d /\ ha1[fd] = ha[fd] /\ pt1[fd] = pt[fd] /\ ha[fd] # s
      BY <1>4, <1>6, <1>11
    <3>2. ha[fd] \in LiveIn(sh) /\ sh[ha[fd]].pty_fd = fd /\ pt[fd].open
      BY <2>0, <3>1 DEF FdsOwned
    <3> QED
      BY <1>7, <1>8, <3>1, <3>2
  <2> QED
    BY <2>1, <2>2 DEF FdsOwned
<1>15. PidsOwned(sh1, pr1)
  <2>0. PidsOwned(sh, pr)
    BY InvParts
  <2>1. \A t \in LiveIn(sh1) : sh1[t].pid # None =>
          /\ pr1[sh1[t].pid] # "none"
          /\ \A u \in LiveIn(sh1) : sh1[u].pid = sh1[t].pid => u = t
    BY <1>5, <1>8, <1>10, <2>0 DEF PidsOwned
  <2>2. ASSUME NEW q \in Pid, pr1[q] # "none" PROVE \E t \in LiveIn(sh1) : sh1[t].pid = q
    <3>1. q # p /\ pr[q] # "none"
      BY <1>5, <2>2
    <3>2. PICK t \in LiveIn(sh) : sh[t].pid = q
      BY <2>0, <3>1 DEF PidsOwned
    <3>3. t \in LiveIn(sh1)
      BY <1>7, <3>1, <3>2 DEF p
    <3> QED
      BY <1>8, <3>2, <3>3
  <2> QED
    BY <2>1, <2>2 DEF PidsOwned
<1>16. HandlersFirst(sh1, ph)
  BY <1>8, InvParts DEF HandlersFirst
<1>17. InOrder(sh1, pt1)
  <2>0. InOrder(sh, pt)
    BY InvParts
  <2> SUFFICES ASSUME NEW t \in 1..Len(sh)
               PROVE  /\ Numbered(sh1[t])
                      /\ ~sh1[t].freed /\ sh1[t].pty_fd # None =>
                           Continues(sh1[t], pt1[sh1[t].pty_fd])
    BY <1>3 DEF InOrder
  <2>1. CASE t = s
    <3>1. sh1[t] = Freed
      BY <1>3, <2>1
    <3>2. Freed.freed /\ Numbered(Freed)
      BY FreedType DEF Numbered
    <3> QED
      BY <3>1, <3>2
  <2>2. CASE t # s
    <3>1. sh1[t] = sh[t]
      BY <1>3, <2>2
    <3>2. ~sh[t].freed /\ sh[t].pty_fd # None => pt1[sh[t].pty_fd] = pt[sh[t].pty_fd]
      BY <1>6, <1>7, <1>9, <2>2 DEF LiveIn
    <3> QED
      BY <2>0, <3>1, <3>2 DEF InOrder
  <2> QED
    BY <2>1, <2>2
<1>18. Watched(sh1, ha1, rf)
  <2>0. Watched(sh, ha, rf)
    BY InvParts
  <2>1. Careful => \A t \in LiveIn(sh1) : sh1[t].pty_fd # None => ha1[sh1[t].pty_fd] = t
    BY <1>4, <1>8, <1>9, <2>0 DEF Watched
  <2>2. Careful => \A fd \in rf \ {Keyboard} : fd \in Fd /\ fd # d
    BY InvParts DEF d
  <2> QED
    BY <1>4, <2>0, <2>1, <2>2 DEF Watched
<1> QED
  BY <1>12, <1>13, <1>14, <1>15, <1>16, <1>17, <1>18 DEF Inv

(* The first free descriptor is found.                                     *)
LEMMA PtyFound ==
    ASSUME NEW e, FreeFds(e) # {}
    PROVE  get_pty(e) \in Fd /\ ~e.pty[get_pty(e)].open
<1>1. FreeFds(e) \in SUBSET Nat
  BY Numbers DEF FreeFds
<1>2. PICK f \in FreeFds(e) : \A g \in FreeFds(e) : f <= g
  BY <1>1, LeastNumber
<1>3. get_pty(e) \in FreeFds(e)
  BY <1>2 DEF get_pty
<1> QED
  BY <1>3 DEF FreeFds

LEMMA MakeInv ==
    ASSUME NEW sh, NEW ha, NEW ph, NEW pr, NEW pt, NEW rf,
           Inv(sh, ha, ph, pr, pt, rf),
           NEW d \in Fd, ~pt[d].open, NEW p \in Pid, pr[p] = "none", NEW k \in BOOLEAN,
           NEW sh1, NEW ha1, NEW ph1, NEW pr1, NEW pt1,
           Makes(sh, ha, ph, pr, pt, d, p, k, sh1, ha1, ph1, pr1, pt1)
    PROVE  Inv(sh1, ha1, ph1, pr1, pt1, rf)
<1> DEFINE s == Len(sh) + 1
           x == Fresh(d, p, k)
<1>1. sh \in Seq(ShellState) /\ Len(sh) \in Nat /\ s \in Nat /\ s # None
  BY InvParts, Numbers
<1>2. /\ x \in ShellState /\ ~x.freed /\ x.pid = p /\ x.pty_fd = d
      /\ x.shown = << >> /\ x.wrote = 0
  BY FreshType
<1>3. sh1 = Append(sh, x) /\ s = Len(sh) + 1
  BY DEF Makes
<1>4. /\ ha1 \in [Fd -> Nat \cup {None}]
      /\ \A fd \in Fd : ha1[fd] = IF fd = d THEN s ELSE ha[fd]
  BY <1>1, InvParts DEF Makes
<1>5. /\ pr1 \in [Pid -> {"none", "running", "zombie"}]
      /\ \A q \in Pid : pr1[q] = IF q = p THEN "running" ELSE pr[q]
  BY InvParts DEF Makes
<1>6. /\ pt1 \in [Fd -> Pty]
      /\ \A fd \in Fd : pt1[fd] = IF fd = d THEN UnusedPty ELSE pt[fd]
  BY InvParts, PtyType DEF Makes
<1>7. /\ ph1 \in Seq(PidHandler) /\ FirstHandler(ph1, p, s)
      /\ \A q, t : q # p /\ FirstHandler(ph, q, t) => FirstHandler(ph1, q, t)
  BY <1>1, InvParts, FirstAfterAdd DEF Makes
<1> HIDE DEF s, x
<1>8. /\ sh1 \in Seq(ShellState) /\ Len(sh1) = s
      /\ \A t \in 1..Len(sh) : sh1[t] = sh[t]
      /\ sh1[s] = x
  BY <1>1, <1>2, <1>3
<1>9. 1..Len(sh1) = (1..Len(sh)) \cup {s} /\ s \notin 1..Len(sh)
  BY <1>1, <1>3, <1>8
<1>10. LiveIn(sh1) = LiveIn(sh) \cup {s}
  BY <1>2, <1>8, <1>9 DEF LiveIn
<1>11. \A t \in LiveIn(sh) : sh1[t] = sh[t] /\ t # s
  BY <1>8, <1>9 DEF LiveIn
<1>12. \A t \in LiveIn(sh) : sh[t].pty_fd # None => sh[t].pty_fd \in Fd /\ sh[t].pty_fd # d
  BY InvParts DEF FdsOwned
<1>13. \A t \in LiveIn(sh) : sh[t].pid # None => sh[t].pid \in Pid /\ sh[t].pid # p
  BY InvParts DEF PidsOwned
<1>14. ha[d] = None
  BY InvParts DEF FdsOwned
<1>15. d # None /\ p # None
  BY Numbers
<1>16. Types(sh1, ha1, ph1, pr1, pt1, rf)
  BY <1>4, <1>5, <1>6, <1>7, <1>8, InvParts DEF Types
<1>17. Paired(sh1)
  BY <1>2, <1>8, <1>9, <1>15, InvParts DEF Paired
<1>18. FdsOwned(sh1, ha1, pt1)
  <2>0. FdsOwned(sh, ha, pt)
    BY InvParts
  <2>1. \A t \in LiveIn(sh1) : sh1[t].pty_fd # None =>
          /\ pt1[sh1[t].pty_fd].open
          /\ \A u \in LiveIn(sh1) : sh1[u].pty_fd = sh1[t].pty_fd => u = t
    BY <1>2, <1>6, <1>8, <1>10, <1>11, <1>12, <2>0, PtyType DEF FdsOwned
  <2>2. ASSUME NEW fd \in Fd, ha1[fd] # None
        PROVE  ha1[fd] \in LiveIn(sh1) /\ sh1[ha1[fd]].pty_fd = fd /\ pt1[fd].open
    <3>1. CASE fd = d
      BY <1>2, <1>4, <1>6, <1>8, <1>10, <3>1, PtyType
    <3>2. CASE fd # d
      <4>1. ha1[fd] = ha[fd] /\ pt1[fd] = pt[fd]
        BY <1>4, <1>6, <3>2
      <4> QED
        BY <1>10, <1>11, <2>0, <2>2, <4>1 DEF FdsOwned
    <3> QED
      BY <3>1, <3>2
  <2> QED
    BY <2>1, <2>2 DEF FdsOwned
<1>19. PidsOwned(sh1, pr1)
  <2>0. PidsOwned(sh, pr)
    BY InvParts
  <2>1. \A t \in LiveIn(sh1) : sh1[t].pid # None =>
          /\ pr1[sh1[t].pid] # "none"
          /\ \A u \in LiveIn(sh1) : sh1[u].pid = sh1[t].pid => u = t
    BY <1>2, <1>5, <1>8, <1>10, <1>11, <1>13, <2>0 DEF PidsOwned
  <2>2. ASSUME NEW q \in Pid, pr1[q] # "none" PROVE \E t \in LiveIn(sh1) : sh1[t].pid = q
    <3>1. CASE q = p
      BY <1>2, <1>8, <1>10, <3>1
    <3>2. CASE q # p
      BY <1>5, <1>10, <1>11, <2>0, <2>2, <3>2 DEF PidsOwned
    <3> QED
      BY <3>1, <3>2
  <2> QED
    BY <2>1, <2>2 DEF PidsOwned
<1>20. HandlersFirst(sh1, ph1)
  <2>0. HandlersFirst(sh, ph)
    BY InvParts
  <2> QED
    BY <1>2, <1>7, <1>8, <1>10, <1>11, <1>13, <2>0 DEF HandlersFirst
<1>21. InOrder(sh1, pt1)
  <2>0. InOrder(sh, pt)
    BY InvParts
  <2> SUFFICES ASSUME NEW t \in 1..Len(sh1)
               PROVE  /\ Numbered(sh1[t])
                      /\ ~sh1[t].freed /\ sh1[t].pty_fd # None =>
                           Continues(sh1[t], pt1[sh1[t].pty_fd])
    BY DEF InOrder
  <2>1. CASE t = s
    <3>1. sh1[t] = x /\ pt1[d] = UnusedPty
      BY <1>6, <1>8, <2>1
    <3>2. Numbered(x) /\ Continues(x, UnusedPty)
      BY <1>2, PtyType DEF Numbered, Continues
    <3> QED
      BY <1>2, <3>1, <3>2
  <2>2. CASE t # s
    <3>1. sh1[t] = sh[t] /\ t \in 1..Len(sh)
      BY <1>8, <1>9, <2>2
    <3>2. ~sh[t].freed /\ sh[t].pty_fd # None => pt1[sh[t].pty_fd] = pt[sh[t].pty_fd]
      BY <1>6, <1>12, <3>1 DEF LiveIn
    <3> QED
      BY <2>0, <3>1, <3>2 DEF InOrder
  <2> QED
    BY <2>1, <2>2
<1>22. Watched(sh1, ha1, rf)
  <2>0. Watched(sh, ha, rf)
    BY InvParts
  <2>1. Careful => \A t \in LiveIn(sh1) : sh1[t].pty_fd # None => ha1[sh1[t].pty_fd] = t
    BY <1>2, <1>4, <1>8, <1>10, <1>11, <1>12, <2>0 DEF Watched
  <2>2. \A fd \in rf \ {Keyboard} : fd \in Fd
    BY InvParts
  <2> QED
    BY <1>1, <1>4, <2>0, <2>1, <2>2 DEF Watched
<1> QED
  BY <1>16, <1>17, <1>18, <1>19, <1>20, <1>21, <1>22 DEF Inv

LEMMA CollectInv ==
    ASSUME NEW sh, NEW ha, NEW ph, NEW pr, NEW pt,
           Inv(sh, ha, ph, pr, pt, {}), NEW p \in Pid, NEW s \in LiveIn(sh), sh[s].pid = p,
           NEW i \in 1..Len(ph), ph[i].pid = p,
           NEW sh1, NEW ha1, NEW ph1, NEW pr1, NEW pt1,
           Collects(sh, ha, ph, pt, s, i, sh1, ha1, ph1, pt1),
           pr1 = [pr EXCEPT ![p] = "none"]
    PROVE  Inv(sh1, ha1, ph1, pr1, pt1, {})
<1> DEFINE d == sh[s].pty_fd
           x == [sh[s] EXCEPT !.finished = TRUE, !.pid = None, !.pty_fd = None]
<1>1. /\ sh \in Seq(ShellState) /\ s \in 1..Len(sh) /\ ~sh[s].freed /\ Len(sh) \in Nat
      /\ s # None
  BY InvParts
<1>2. d \in Fd /\ d # None /\ p # None
  BY <1>1, ShellParts, InvParts, Numbers DEF Paired
<1>3. /\ x \in ShellState /\ x.freed = sh[s].freed /\ x.pid = None /\ x.pty_fd = None
      /\ x.shown = sh[s].shown
  <2>1. sh[s] \in ShellState
    BY <1>1
  <2> QED
    BY <2>1 DEF ShellState
<1>4. sh1 = [sh EXCEPT ![s] = x]
  BY DEF Collects
<1>5. /\ ha1 \in [Fd -> Nat \cup {None}]
      /\ \A fd \in Fd : ha1[fd] = IF fd = d THEN None ELSE ha[fd]
  BY <1>2, InvParts, Numbers DEF Collects
<1>6. /\ pr1 \in [Pid -> {"none", "running", "zombie"}]
      /\ \A q \in Pid : pr1[q] = IF q = p THEN "none" ELSE pr[q]
  BY <1>2, InvParts, Numbers DEF Collects
<1>7. /\ pt1 \in [Fd -> Pty]
      /\ \A fd \in Fd : fd # d => pt1[fd] = pt[fd]
  BY <1>2, InvParts, Numbers, PtyType DEF Collects
<1>8. /\ ph1 \in Seq(PidHandler)
      /\ \A q, t : q # p /\ FirstHandler(ph, q, t) => FirstHandler(ph1, q, t)
  BY InvParts, RemoveProperties, FirstAfterRemove DEF Collects
<1> HIDE DEF d, x
<1>9. /\ sh1 \in Seq(ShellState) /\ Len(sh1) = Len(sh)
      /\ \A t \in 1..Len(sh) : sh1[t] = IF t = s THEN x ELSE sh[t]
  BY <1>1, <1>3, <1>4, ReplacedAt
<1>10. LiveIn(sh1) = LiveIn(sh)
  BY <1>1, <1>3, <1>9 DEF LiveIn
<1>11. \A t \in LiveIn(sh) : t # s =>
         /\ sh1[t] = sh[t]
         /\ sh[t].pty_fd # None => sh[t].pty_fd \in Fd /\ sh[t].pty_fd # d
         /\ sh[t].pid # None => sh[t].pid \in Pid /\ sh[t].pid # p
  BY <1>2, <1>9, InvParts DEF FdsOwned, PidsOwned, LiveIn, d
<1>12. sh1[s] = x
  BY <1>1, <1>9
<1>13. \A fd \in Fd : fd # d => ha[fd] # s
  BY <1>1, InvParts DEF FdsOwned, d
<1>14. Types(sh1, ha1, ph1, pr1, pt1, {})
  BY <1>5, <1>6, <1>7, <1>8, <1>9 DEF Types
<1>15. Paired(sh1)
  BY <1>3, <1>9, InvParts DEF Paired
<1>16. FdsOwned(sh1, ha1, pt1)
  <2>0. FdsOwned(sh, ha, pt)
    BY InvParts
  <2>1. \A t \in LiveIn(sh1) : sh1[t].pty_fd # None =>
          /\ pt1[sh1[t].pty_fd].open
          /\ \A u \in LiveIn(sh1) : sh1[u].pty_fd = sh1[t].pty_fd => u = t
    BY <1>3, <1>7, <1>10, <1>11, <1>12, <2>0 DEF FdsOwned
  <2>2. ASSUME NEW fd \in Fd, ha1[fd] # None
        PROVE  ha1[fd] \in LiveIn(sh1) /\ sh1[ha1[fd]].pty_fd = fd /\ pt1[fd].open
    <3>1. fd # d /\ ha1[fd] = ha[fd] /\ pt1[fd] = pt[fd] /\ ha[fd] # s
      BY <1>5, <1>7, <1>13, <2>2
    <3>2. ha[fd] \in LiveIn(sh) /\ sh[ha[fd]].pty_fd = fd /\ pt[fd].open
      BY <2>0, <2>2, <3>1 DEF FdsOwned
    <3> QED
      BY <1>10, <1>11, <3>1, <3>2
  <2> QED
    BY <2>1, <2>2 DEF FdsOwned
<1>17. PidsOwned(sh1, pr1)
  <2>0. PidsOwned(sh, pr)
    BY InvParts
  <2>1. \A t \in LiveIn(sh1) : sh1[t].pid # None =>
          /\ pr1[sh1[t].pid] # "none"
          /\ \A u \in LiveIn(sh1) : sh1[u].pid = sh1[t].pid => u = t
    BY <1>3, <1>6, <1>10, <1>11, <1>12, <2>0 DEF PidsOwned
  <2>2. ASSUME NEW q \in Pid, pr1[q] # "none" PROVE \E t \in LiveIn(sh1) : sh1[t].pid = q
    <3>1. q # p /\ pr[q] # "none"
      BY <1>6, <2>2
    <3>2. PICK t \in LiveIn(sh) : sh[t].pid = q
      BY <2>0, <3>1 DEF PidsOwned
    <3> QED
      BY <1>10, <1>11, <3>1, <3>2
  <2> QED
    BY <2>1, <2>2 DEF PidsOwned
<1>18. HandlersFirst(sh1, ph1)
  <2>0. HandlersFirst(sh, ph)
    BY InvParts
  <2> QED
    BY <1>3, <1>8, <1>10, <1>11, <1>12, <2>0 DEF HandlersFirst
<1>19. InOrder(sh1, pt1)
  <2>0. InOrder(sh, pt)
    BY InvParts
  <2> SUFFICES ASSUME NEW t \in 1..Len(sh)
               PROVE  /\ Numbered(sh1[t])
                      /\ ~sh1[t].freed /\ sh1[t].pty_fd # None =>
                           Continues(sh1[t], pt1[sh1[t].pty_fd])
    BY <1>9 DEF InOrder
  <2>1. CASE t = s
    BY <1>1, <1>3, <1>12, <2>0, <2>1 DEF InOrder, Numbered
  <2>2. CASE t # s
    <3>1. sh1[t] = sh[t]
      BY <1>9, <2>2
    <3>2. ~sh[t].freed /\ sh[t].pty_fd # None => pt1[sh[t].pty_fd] = pt[sh[t].pty_fd]
      BY <1>7, <1>11, <2>2 DEF LiveIn
    <3> QED
      BY <2>0, <3>1, <3>2 DEF InOrder
  <2> QED
    BY <2>1, <2>2
<1>20. Watched(sh1, ha1, {})
  <2>0. Watched(sh, ha, {})
    BY InvParts
  <2> QED
    BY <1>3, <1>5, <1>10, <1>11, <1>12, <2>0 DEF Watched
<1> QED
  BY <1>14, <1>15, <1>16, <1>17, <1>18, <1>19, <1>20 DEF Inv

(* A handler that was called is not called again in the round.             *)
LEMMA FewerInv ==
    ASSUME NEW sh, NEW ha, NEW ph, NEW pr, NEW pt, NEW rf, NEW rf1,
           Inv(sh, ha, ph, pr, pt, rf), rf1 \subseteq rf
    PROVE  Inv(sh, ha, ph, pr, pt, rf1)
BY DEF Inv, Types, Watched

(* A shell could not be made.                                              *)
LEMMA FailInv ==
    ASSUME NEW sh, NEW ha, NEW ph, NEW pr, NEW pt, NEW rf,
           Inv(sh, ha, ph, pr, pt, rf), PtyFails, NEW d \in Fd
    PROVE  Inv(sh, [ha EXCEPT ![d] = None], ph, pr, pt, rf)
<1> DEFINE ha1 == [ha EXCEPT ![d] = None]
<1>1. /\ ha1 \in [Fd -> Nat \cup {None}]
      /\ \A fd \in Fd : ha1[fd] = IF fd = d THEN None ELSE ha[fd]
  BY InvParts
<1> HIDE DEF ha1
<1>2. Types(sh, ha1, ph, pr, pt, rf)
  BY <1>1, InvParts DEF Types
<1>3. FdsOwned(sh, ha1, pt)
  BY <1>1, InvParts DEF FdsOwned
<1>4. Watched(sh, ha1, rf)
  BY DEF Watched, Careful
<1>5. Inv(sh, ha1, ph, pr, pt, rf)
  BY <1>2, <1>3, <1>4, InvParts DEF Inv
<1> QED
  BY <1>5 DEF ha1

(* Terminals whose state and output stay.                                  *)
LEMMA InputInv ==
    ASSUME NEW sh, NEW ha, NEW ph, NEW pr, NEW pt, NEW rf,
           Inv(sh, ha, ph, pr, pt, rf), NEW pt1 \in [Fd -> Pty],
           \A fd \in Fd : pt1[fd].open = pt[fd].open /\ pt1[fd].out = pt[fd].out
    PROVE  Inv(sh, ha, ph, pr, pt1, rf)
<1>1. Types(sh, ha, ph, pr, pt1, rf)
  BY InvParts DEF Types
<1>2. FdsOwned(sh, ha, pt1)
  BY InvParts DEF FdsOwned
<1>3. InOrder(sh, pt1)
  <2>0. InOrder(sh, pt)
    BY InvParts
  <2>1. \A s \in 1..Len(sh) : ~sh[s].freed /\ sh[s].pty_fd # None =>
          pt1[sh[s].pty_fd].out = pt[sh[s].pty_fd].out
    BY InvParts DEF LiveIn
  <2>2. \A x, y, z : y.out = z.out => (Continues(x, y) <=> Continues(x, z))
    BY DEF Continues
  <2> QED
    BY <2>0, <2>1, <2>2 DEF InOrder
<1> QED
  BY <1>1, <1>2, <1>3, InvParts DEF Inv

(* A process ends.                                                         *)
LEMMA ExitInv ==
    ASSUME NEW sh, NEW ha, NEW ph, NEW pr, NEW pt, NEW rf,
           Inv(sh, ha, ph, pr, pt, rf), NEW p \in Pid, pr[p] = "running"
    PROVE  Inv(sh, ha, ph, [pr EXCEPT ![p] = "zombie"], pt, rf)
<1> DEFINE pr1 == [pr EXCEPT ![p] = "zombie"]
<1>1. /\ pr1 \in [Pid -> {"none", "running", "zombie"}]
      /\ \A q \in Pid : pr1[q] = "none" <=> pr[q] = "none"
  BY InvParts
<1> HIDE DEF pr1
<1>2. Types(sh, ha, ph, pr1, pt, rf)
  BY <1>1, InvParts DEF Types
<1>3. PidsOwned(sh, pr1)
  BY <1>1, InvParts DEF PidsOwned
<1>4. Inv(sh, ha, ph, pr1, pt, rf)
  BY <1>2, <1>3, InvParts DEF Inv
<1> QED
  BY <1>4 DEF pr1

(* Shell s and its terminal d change, but neither their process nor which  *)
(* descriptor they have: what the process wrote and the buffer shows does. *)
LEMMA OutputInv ==
    ASSUME NEW sh, NEW ha, NEW ph, NEW pr, NEW pt, NEW rf,
           Inv(sh, ha, ph, pr, pt, rf), NEW s \in LiveIn(sh), sh[s].pty_fd # None,
           NEW x \in ShellState, NEW y \in Pty,
           x.freed = sh[s].freed, x.pid = sh[s].pid, x.pty_fd = sh[s].pty_fd,
           y.open = pt[sh[s].pty_fd].open,
           Numbered(x), Continues(x, y)
    PROVE  Inv([sh EXCEPT ![s] = x], ha, ph, pr, [pt EXCEPT ![sh[s].pty_fd] = y], rf)
<1> DEFINE d   == sh[s].pty_fd
           sh1 == [sh EXCEPT ![s] = x]
           pt1 == [pt EXCEPT ![d] = y]
<1>1. /\ sh \in Seq(ShellState) /\ s \in 1..Len(sh) /\ Len(sh) \in Nat
      /\ d \in Fd /\ x.pty_fd = d
  BY InvParts
<1>2. /\ sh1 \in Seq(ShellState) /\ Len(sh1) = Len(sh)
      /\ \A t \in 1..Len(sh) : sh1[t] = IF t = s THEN x ELSE sh[t]
  BY <1>1, ReplacedAt
<1>3. /\ pt1 \in [Fd -> Pty]
      /\ \A fd \in Fd : pt1[fd] = IF fd = d THEN y ELSE pt[fd]
  <2> HIDE DEF d
  <2> QED
    BY <1>1, InvParts
<1>4. \A fd \in Fd : pt1[fd].open = pt[fd].open
  BY <1>3
<1> HIDE DEF sh1, pt1
<1>5. LiveIn(sh1) = LiveIn(sh)
  BY <1>1, <1>2 DEF LiveIn
<1>6. \A t \in 1..Len(sh) : sh1[t].pid = sh[t].pid /\ sh1[t].pty_fd = sh[t].pty_fd /\ sh1[t].freed = sh[t].freed
  BY <1>1, <1>2
<1>7. \A t \in LiveIn(sh) : t \in 1..Len(sh)
  BY DEF LiveIn
<1>8. Types(sh1, ha, ph, pr, pt1, rf)
  BY <1>2, <1>3, InvParts DEF Types
<1>9. Paired(sh1)
  <2>0. Paired(sh)
    BY InvParts
  <2>1. 1..Len(sh1) = 1..Len(sh)
    BY <1>2
  <2> QED
    BY <1>6, <2>0, <2>1 DEF Paired
<1>10. FdsOwned(sh1, ha, pt1)
  <2>0. FdsOwned(sh, ha, pt)
    BY InvParts
  <2>1. \A t \in LiveIn(sh) : sh[t].pty_fd # None => sh[t].pty_fd \in Fd
    BY InvParts
  <2> QED
    BY <1>4, <1>5, <1>6, <1>7, <2>0, <2>1 DEF FdsOwned
<1>11. PidsOwned(sh1, pr)
  <2>0. PidsOwned(sh, pr)
    BY InvParts
  <2> QED
    BY <1>5, <1>6, <1>7, <2>0 DEF PidsOwned
<1>12. HandlersFirst(sh1, ph)
  <2>0. HandlersFirst(sh, ph)
    BY InvParts
  <2> QED
    BY <1>5, <1>6, <1>7, <2>0 DEF HandlersFirst
<1>13. InOrder(sh1, pt1)
  <2>0. InOrder(sh, pt) /\ FdsOwned(sh, ha, pt)
    BY InvParts
  <2> SUFFICES ASSUME NEW t \in 1..Len(sh)
               PROVE  /\ Numbered(sh1[t])
                      /\ ~sh1[t].freed /\ sh1[t].pty_fd # None =>
                           Continues(sh1[t], pt1[sh1[t].pty_fd])
    BY <1>2 DEF InOrder
  <2>1. CASE t = s
    BY <1>1, <1>2, <1>3, <2>1
  <2>2. CASE t # s
    <3>1. sh1[t] = sh[t]
      BY <1>2, <2>2
    <3>2. ~sh[t].freed /\ sh[t].pty_fd # None => pt1[sh[t].pty_fd] = pt[sh[t].pty_fd]
      <4> SUFFICES ASSUME ~sh[t].freed, sh[t].pty_fd # None
                   PROVE  pt1[sh[t].pty_fd] = pt[sh[t].pty_fd]
        OBVIOUS
      <4>1. t \in LiveIn(sh)
        BY DEF LiveIn
      <4>2. sh[t].pty_fd \in Fd
        BY <4>1, InvParts
      <4>3. sh[t].pty_fd # d
        BY <2>0, <2>2, <4>1 DEF FdsOwned
      <4> QED
        BY <1>3, <4>2, <4>3
    <3> QED
      BY <2>0, <3>1, <3>2 DEF InOrder
  <2> QED
    BY <2>1, <2>2
<1>14. Watched(sh1, ha, rf)
  <2>0. Watched(sh, ha, rf)
    BY InvParts
  <2> QED
    BY <1>5, <1>6, <1>7, <2>0 DEF Watched
<1>15. Inv(sh1, ha, ph, pr, pt1, rf)
  BY <1>8, <1>9, <1>10, <1>11, <1>12, <1>13, <1>14 DEF Inv
<1> QED
  BY <1>15 DEF sh1, pt1

---------------------------------------------------------------------------
(* The output of a process.                                                *)

(* h is shown, and o waits: the numbers 1 .. w in order.                   *)
Counted(h)       == \A i \in 1..Len(h) : h[i] = i
CountsOn(h, o, w) == w = Len(h) + Len(o) /\ \A i \in 1..Len(o) : o[i] = Len(h) + i

LEMMA AppendCounts ==
    ASSUME NEW h \in Seq(Nat), NEW o \in Seq(Nat), NEW w \in Nat, CountsOn(h, o, w)
    PROVE  Append(o, w + 1) \in Seq(Nat) /\ CountsOn(h, Append(o, w + 1), w + 1)
<1> DEFINE k == Len(h)
           l == Len(o)
           q == Append(o, w + 1)
<1>1. k \in Nat /\ l \in Nat /\ w = k + l /\ \A i \in 1..l : o[i] = k + i
  BY DEF CountsOn
<1>2. /\ q \in Seq(Nat) /\ Len(q) = l + 1 /\ q[l + 1] = w + 1
      /\ \A i \in 1..l : q[i] = o[i]
  OBVIOUS
<1> HIDE DEF k, l, q
<1>3. \A i \in 1..Len(q) : q[i] = k + i
  <2> TAKE i \in 1..Len(q)
  <2>1. CASE i = l + 1
    BY <1>1, <1>2, <2>1
  <2>2. CASE i # l + 1
    <3>1. i \in 1..l
      BY <1>1, <1>2, <2>2
    <3> QED
      BY <1>1, <1>2, <3>1
  <2> QED
    BY <2>1, <2>2
<1>4. w + 1 = k + Len(q)
  BY <1>1, <1>2
<1> QED
  BY <1>2, <1>3, <1>4 DEF CountsOn, k, q

LEMMA TakenCounts ==
    ASSUME NEW h \in Seq(Nat), NEW o \in Seq(Nat), NEW w \in Nat,
           Counted(h), CountsOn(h, o, w)
    PROVE  LET c == h \o Taken(o)
               r == SubSeq(o, Len(Taken(o)) + 1, Len(o))
           IN  c \in Seq(Nat) /\ r \in Seq(Nat) /\ Counted(c) /\ CountsOn(c, r, w)
<1> DEFINE a == Taken(o)
           k == Len(h)
           l == Len(o)
           n == IF l < ReadSize THEN l ELSE ReadSize
           m == n + 1
           c == h \o a
           r == SubSeq(o, Len(a) + 1, l)
<1>1. /\ k \in Nat /\ l \in Nat /\ w = k + l
      /\ \A i \in 1..l : o[i] = k + i /\ o[i] \in Nat
      /\ \A i \in 1..k : h[i] = i
  BY DEF Counted, CountsOn
<1>2. n \in Nat /\ n <= l
  <2> HIDE DEF l
  <2> QED
    BY <1>1, SizeAssumption
<1>3. a = SubSeq(o, 1, n) /\ c = h \o a /\ m = n + 1
  BY DEF Taken
<1> HIDE DEF k, l, a, n, c, m
<1>4. a \in Seq(Nat) /\ Len(a) = n /\ \A i \in 1..n : a[i] = o[i]
  <2>1. 1 \in Int /\ n \in Int /\ \A i \in 1..n : o[i] \in Nat
    BY <1>1, <1>2
  <2>2. /\ SubSeq(o, 1, n) \in Seq(Nat)
        /\ Len(SubSeq(o, 1, n)) = IF 1 <= n THEN n - 1 + 1 ELSE 0
        /\ \A i \in 1 .. n - 1 + 1 : SubSeq(o, 1, n)[i] = o[1 + i - 1]
    BY <2>1, SubSeqProperties
  <2> QED
    BY <1>2, <1>3, <2>2
<1>5. r = SubSeq(o, m, l)
  BY <1>3, <1>4
<1> HIDE DEF r
<1>6. r \in Seq(Nat) /\ Len(r) = l - n /\ \A i \in 1..(l - n) : r[i] = o[n + i]
  <2>1. m \in Int /\ l \in Int /\ \A i \in m..l : o[i] \in Nat
    BY <1>1, <1>2, <1>3
  <2>2. /\ SubSeq(o, m, l) \in Seq(Nat)
        /\ Len(SubSeq(o, m, l)) = IF m <= l THEN l - m + 1 ELSE 0
        /\ \A i \in 1 .. l - m + 1 : SubSeq(o, m, l)[i] = o[m + i - 1]
    BY <2>1, SubSeqProperties
  <2>3. r \in Seq(Nat) /\ Len(r) = l - n
    BY <1>1, <1>2, <1>3, <1>5, <2>2
  <2>4. ASSUME NEW i \in 1..(l - n) PROVE r[i] = o[n + i]
    <3>1. i \in 1 .. l - m + 1 /\ m + i - 1 = n + i
      BY <1>1, <1>2, <1>3
    <3>2. r[i] = o[m + i - 1]
      BY <1>5, <2>2, <3>1
    <3> QED
      BY <3>1, <3>2
  <2> QED
    BY <2>3, <2>4
<1>7. /\ c \in Seq(Nat) /\ Len(c) = k + n
      /\ \A i \in 1 .. k + n : c[i] = IF i <= k THEN h[i] ELSE a[i - k]
  <2>1. /\ h \o a \in Seq(Nat) /\ Len(h \o a) = Len(h) + Len(a)
        /\ \A i \in 1 .. Len(h) + Len(a) :
              (h \o a)[i] = IF i <= Len(h) THEN h[i] ELSE a[i - Len(h)]
    BY <1>4, ConcatProperties
  <2>2. Len(h) = k
    BY DEF k
  <2> QED
    BY <1>3, <1>4, <2>1, <2>2
<1>8. \A i \in 1..Len(c) : c[i] = i
  <2> TAKE i \in 1..Len(c)
  <2>1. CASE i <= k
    BY SMTT(30), <1>1, <1>2, <1>7, <2>1
  <2>2. CASE ~(i <= k)
    <3> DEFINE j == i - k
    <3>1. j \in 1..n /\ j \in 1..l /\ i = k + j /\ i \in 1..(k + n)
      BY <1>1, <1>2, <1>7, <2>2
    <3>2. c[i] = a[j]
      BY <1>7, <2>2, <3>1
    <3> HIDE DEF j
    <3> QED
      BY <1>1, <1>4, <3>1, <3>2
  <2> QED
    BY <2>1, <2>2
<1>9. \A i \in 1..Len(r) : r[i] = Len(c) + i
  <2> TAKE i \in 1..Len(r)
  <2> DEFINE j == n + i
  <2>1. i \in 1..(l - n) /\ j \in 1..l /\ k + j = Len(c) + i
    BY <1>1, <1>2, <1>6, <1>7
  <2>2. r[i] = o[j]
    BY <1>6, <2>1
  <2> HIDE DEF j
  <2> QED
    BY <1>1, <2>1, <2>2
<1>10. w = Len(c) + Len(r)
  BY <1>1, <1>2, <1>6, <1>7
<1>11. c \in Seq(Nat) /\ r \in Seq(Nat) /\ Counted(c) /\ CountsOn(c, r, w)
  BY <1>6, <1>7, <1>8, <1>9, <1>10 DEF Counted, CountsOn
<1> QED
  BY <1>11 DEF c, r, a, l

(* The process writes a byte.                                              *)
LEMMA WriteOutput ==
    ASSUME NEW x \in ShellState, NEW y \in Pty, Numbered(x), Continues(x, y)
    PROVE  LET x1 == [x EXCEPT !.wrote = @ + 1]
               y1 == [y EXCEPT !.out = Append(@, x.wrote + 1)]
           IN  /\ x1 \in ShellState /\ y1 \in Pty
               /\ x1.freed = x.freed /\ x1.pid = x.pid /\ x1.pty_fd = x.pty_fd
               /\ y1.open = y.open
               /\ Numbered(x1) /\ Continues(x1, y1)
<1> DEFINE h == x.shown
           o == Append(y.out, x.wrote + 1)
           w == x.wrote + 1
           x1 == [x EXCEPT !.wrote = w]
           y1 == [y EXCEPT !.out = o]
<1>1. x.wrote \in Nat /\ w \in Nat /\ h \in Seq(Nat) /\ y.out \in Seq(Nat)
  BY DEF ShellState, Pty
<1>2. Counted(h) /\ CountsOn(h, y.out, x.wrote)
  BY DEF Counted, CountsOn, Numbered, Continues
<1>3. o \in Seq(Nat) /\ CountsOn(h, o, w)
  BY <1>1, <1>2, AppendCounts
<1> HIDE DEF o, w
<1>4. /\ x1 \in ShellState /\ x1.freed = x.freed /\ x1.pid = x.pid /\ x1.pty_fd = x.pty_fd
      /\ x1.shown = h /\ x1.wrote = w
  BY <1>1 DEF ShellState
<1>5. y1 \in Pty /\ y1.open = y.open /\ y1.out = o
  BY <1>3 DEF Pty
<1> HIDE DEF x1, y1, h
<1>6. Numbered(x1) /\ Continues(x1, y1)
  BY <1>2, <1>3, <1>4, <1>5 DEF Counted, CountsOn, Numbered, Continues
<1> QED
  BY <1>4, <1>5, <1>6 DEF x1, y1, o, w

(* The editor reads from the front what it appends to the buffer.          *)
LEMMA ReadOutput ==
    ASSUME NEW x \in ShellState, NEW y \in Pty, Numbered(x), Continues(x, y)
    PROVE  LET x1 == [x EXCEPT !.shown = @ \o Taken(y.out)]
               y1 == [y EXCEPT !.out = SubSeq(@, Len(Taken(y.out)) + 1, Len(@))]
           IN  /\ x1 \in ShellState /\ y1 \in Pty
               /\ x1.freed = x.freed /\ x1.pid = x.pid /\ x1.pty_fd = x.pty_fd
               /\ y1.open = y.open
               /\ Numbered(x1) /\ Continues(x1, y1)
<1> DEFINE c == x.shown \o Taken(y.out)
           r == SubSeq(y.out, Len(Taken(y.out)) + 1, Len(y.out))
           w == x.wrote
           x1 == [x EXCEPT !.shown = c]
           y1 == [y EXCEPT !.out = r]
<1>1. w \in Nat /\ x.shown \in Seq(Nat) /\ y.out \in Seq(Nat)
  BY DEF ShellState, Pty
<1>2. Counted(x.shown) /\ CountsOn(x.shown, y.out, w)
  BY DEF Counted, CountsOn, Numbered, Continues
<1>3. c \in Seq(Nat) /\ r \in Seq(Nat) /\ Counted(c) /\ CountsOn(c, r, w)
  BY <1>1, <1>2, TakenCounts
<1> HIDE DEF c, r
<1>4. /\ x1 \in ShellState /\ x1.freed = x.freed /\ x1.pid = x.pid /\ x1.pty_fd = x.pty_fd
      /\ x1.shown = c /\ x1.wrote = w
  BY <1>3 DEF ShellState
<1>5. y1 \in Pty /\ y1.open = y.open /\ y1.out = r
  BY <1>3 DEF Pty
<1> HIDE DEF x1, y1, w
<1>6. Numbered(x1) /\ Continues(x1, y1)
  BY <1>3, <1>4, <1>5 DEF Counted, CountsOn, Numbered, Continues
<1> QED
  BY <1>4, <1>5, <1>6 DEF x1, y1, c, r

---------------------------------------------------------------------------
(* The actions.                                                            *)

Loops == [at : {"select", "handlers", "write"},
          rfds : SUBSET (Fd \cup {Keyboard}), fd : Fd \cup {None}]

LEMMA ShellInvParts ==
    ASSUME ShellInv
    PROVE  /\ Inv(shells, handlers, pid_handlers, proc, pty, loop.rfds)
           /\ loop \in Loops
           /\ Live = LiveIn(shells)
           /\ Editor \in Editors({shells}, {handlers}, {pid_handlers}, {proc}, {pty})
           /\ Editor.shells = shells /\ Editor.handlers = handlers
           /\ Editor.pid_handlers = pid_handlers /\ Editor.proc = proc /\ Editor.pty = pty
BY DEF ShellInv, Loops, Live, Shells, LiveIn, Editor, Editors

(* A process that was not collected has a shell, with a terminal.          *)
LEMMA OwnerFound ==
    ASSUME ShellInv, NEW p \in Pid, proc[p] # "none"
    PROVE  /\ OwnerOf(p) \in LiveIn(shells) /\ shells[OwnerOf(p)].pid = p
           /\ shells[OwnerOf(p)].pty_fd # None /\ TerminalOf(p) \in Fd
           /\ TerminalOf(p) = shells[OwnerOf(p)].pty_fd
<1>1. \E s \in Live : shells[s].pid = p
  BY ShellInvParts, InvParts DEF PidsOwned
<1>2. OwnerOf(p) \in Live /\ shells[OwnerOf(p)].pid = p
  BY <1>1 DEF OwnerOf
<1>3. p # None
  BY Numbers
<1>4. OwnerOf(p) \in 1..Len(shells)
  BY <1>2, ShellInvParts, InvParts
<1>5. shells[OwnerOf(p)].pty_fd # None
  BY <1>2, <1>3, <1>4, ShellInvParts, InvParts DEF Paired
<1> QED
  BY <1>2, <1>5, ShellInvParts, InvParts DEF TerminalOf

LEMMA ProcWriteStep ==
    ASSUME ShellInv, NEW p \in Pid, ProcWrite(p)
    PROVE  ShellInv'
<1> DEFINE s  == OwnerOf(p)
           d  == shells[s].pty_fd
           x1 == [shells[s] EXCEPT !.wrote = @ + 1]
           y1 == [pty[d] EXCEPT !.out = Append(@, shells[s].wrote + 1)]
<1>0. Inv(shells, handlers, pid_handlers, proc, pty, loop.rfds)
  BY ShellInvParts
<1>1. s \in LiveIn(shells) /\ d # None /\ d \in Fd /\ TerminalOf(p) = d
  BY OwnerFound DEF ProcWrite, Runs
<1>2. s \in 1..Len(shells) /\ ~shells[s].freed
  BY <1>0, <1>1, InvParts
<1>3. /\ shells[s] \in ShellState /\ pty[d] \in Pty
      /\ Numbered(shells[s]) /\ Continues(shells[s], pty[d])
  BY <1>0, <1>1, <1>2, InvParts DEF InOrder
<1>4. /\ x1 \in ShellState /\ y1 \in Pty
      /\ x1.freed = shells[s].freed /\ x1.pid = shells[s].pid /\ x1.pty_fd = d
      /\ y1.open = pty[d].open
      /\ Numbered(x1) /\ Continues(x1, y1)
  BY <1>3, WriteOutput
<1>5. shells' = [shells EXCEPT ![s] = x1] /\ pty' = [pty EXCEPT ![d] = y1]
  BY <1>1 DEF ProcWrite
<1> HIDE DEF x1, y1, s
<1>6. Inv(shells', handlers, pid_handlers, proc, pty', loop.rfds)
  BY <1>0, <1>1, <1>4, <1>5, OutputInv
<1> QED
  BY <1>6 DEF ShellInv, ProcWrite

LEMMA ProcReadStep ==
    ASSUME ShellInv, NEW p \in Pid, ProcRead(p)
    PROVE  ShellInv'
<1> DEFINE d == TerminalOf(p)
<1>0. Inv(shells, handlers, pid_handlers, proc, pty, loop.rfds)
  BY ShellInvParts
<1>1. d \in Fd
  BY OwnerFound DEF ProcRead, Runs
<1>2. pty \in [Fd -> Pty] /\ pty' = [pty EXCEPT ![d].in = @ - 1] /\ pty[d].in > 0
  BY <1>0, InvParts DEF ProcRead
<1> HIDE DEF d
<1>3. pty' \in [Fd -> Pty] /\ \A fd \in Fd : pty'[fd].open = pty[fd].open /\ pty'[fd].out = pty[fd].out
  BY <1>1, <1>2 DEF Pty
<1>4. Inv(shells, handlers, pid_handlers, proc, pty', loop.rfds)
  BY <1>0, <1>3, InputInv
<1> QED
  BY <1>4 DEF ShellInv, ProcRead

LEMMA ProcExitStep ==
    ASSUME ShellInv, NEW p \in Pid, ProcExit(p)
    PROVE  ShellInv'
<1>1. Inv(shells, handlers, pid_handlers, proc', pty, loop.rfds)
  BY ShellInvParts, ExitInv DEF ProcExit, Runs
<1> QED
  BY <1>1 DEF ShellInv, ProcExit

(* The descriptors that are left when a handler was called.                *)
LEMMA NextHandlerType ==
    ASSUME loop \in Loops, NEW fd
    PROVE  /\ NextHandler(fd) \in Loops
           /\ NextHandler(fd).rfds = loop.rfds \ {fd}
           /\ NextHandler(fd).rfds \subseteq loop.rfds
BY DEF Loops, NextHandler

(* The loop goes on after a command that changed the editor.               *)
LEMMA CommandStep ==
    ASSUME ShellInv, Inv(shells', handlers', pid_handlers', proc', pty', loop.rfds),
           loop' = NextHandler(Keyboard), UNCHANGED dangling
    PROVE  ShellInv'
<1>1. loop' \in Loops /\ loop'.rfds \subseteq loop.rfds
  BY ShellInvParts, NextHandlerType
<1>2. Inv(shells', handlers', pid_handlers', proc', pty', loop'.rfds)
  BY <1>1, FewerInv
<1> QED
  BY <1>1, <1>2 DEF ShellInv, Loops

(* Closing shell s, from the state.                                        *)
LEMMA CloseEditor ==
    ASSUME ShellInv, NEW s \in Live, MayClose(s)
    PROVE  LET f == shell_close(Editor, s)
           IN  /\ Inv(f.shells, f.handlers, f.pid_handlers, f.proc, f.pty, loop.rfds)
               /\ f \in Editors({f.shells}, {f.handlers}, {f.pid_handlers}, {f.proc}, {f.pty})
<1> DEFINE f == shell_close(Editor, s)
<1>1. /\ f \in Editors({f.shells}, {f.handlers}, {f.pid_handlers}, {f.proc}, {f.pty})
      /\ f.pid_handlers = pid_handlers
      /\ Closes(shells, handlers, proc, pty, s, f.shells, f.handlers, f.proc, f.pty)
  <2>1. Editor \in Editors({shells}, {handlers}, {pid_handlers}, {proc}, {pty})
    BY ShellInvParts
  <2>2. /\ Closes(Editor.shells, Editor.handlers, Editor.proc, Editor.pty, s,
                  f.shells, f.handlers, f.proc, f.pty)
        /\ f.pid_handlers = Editor.pid_handlers
        /\ f \in Editors({f.shells}, {f.handlers}, {f.pid_handlers}, {f.proc}, {f.pty})
    BY <2>1, CloseParts
  <2> HIDE DEF f
  <2> QED
    BY <2>2, ShellInvParts
<1>2. Careful => shells[s].pty_fd \notin loop.rfds
  BY DEF MayClose, Careful
<1> HIDE DEF f
<1>3. Inv(f.shells, f.handlers, f.pid_handlers, f.proc, f.pty, loop.rfds)
  BY <1>1, <1>2, ShellInvParts, CloseInv
<1> QED
  BY <1>1, <1>3 DEF f

LEMMA KillStep ==
    ASSUME ShellInv, NEW s \in Live, do_kill_buffer(s)
    PROVE  ShellInv'
<1>1. Inv(shells', handlers', pid_handlers', proc', pty', loop.rfds)
  BY CloseEditor DEF do_kill_buffer, Become
<1> QED
  BY <1>1, CommandStep DEF do_kill_buffer

(* A shell is made, or fails, in an editor for which the invariant holds.  *)
LEMMA LaunchStep ==
    ASSUME NEW e, NEW rf, Inv(e.shells, e.handlers, e.pid_handlers, e.proc, e.pty, rf),
           e \in Editors({e.shells}, {e.handlers}, {e.pid_handlers}, {e.proc}, {e.pty}),
           NEW k \in BOOLEAN, Launch(e, k)
    PROVE  Inv(shells', handlers', pid_handlers', proc', pty', rf)
<1>1. CASE \E p \in {q \in Pid : e.proc[q] = "none"} :
              FreeFds(e) # {} /\ Become(new_shell_buffer(e, k, p))
  <2> PICK p \in {q \in Pid : e.proc[q] = "none"} :
              FreeFds(e) # {} /\ Become(new_shell_buffer(e, k, p))
    BY <1>1
  <2> DEFINE d == get_pty(e)
             f == new_shell_buffer(e, k, p)
  <2>1. d \in Fd /\ ~e.pty[d].open
    BY PtyFound
  <2>2. Makes(e.shells, e.handlers, e.pid_handlers, e.proc, e.pty, d, p, k,
              f.shells, f.handlers, f.pid_handlers, f.proc, f.pty)
    BY MakeParts
  <2>3. /\ shells' = f.shells /\ handlers' = f.handlers /\ pid_handlers' = f.pid_handlers
        /\ proc' = f.proc /\ pty' = f.pty
    BY DEF Become
  <2> HIDE DEF d, f
  <2>4. Inv(f.shells, f.handlers, f.pid_handlers, f.proc, f.pty, rf)
    BY <2>1, <2>2, MakeInv
  <2> QED
    BY <2>3, <2>4
<1>2. CASE \E fd \in IF PtyFails THEN Fd \cup {None} ELSE {} : Become(FailedShell(e, fd))
  <2> PICK fd \in IF PtyFails THEN Fd \cup {None} ELSE {} : Become(FailedShell(e, fd))
    BY <1>2
  <2>1. PtyFails /\ fd \in Fd \cup {None}
    BY FailAssumption
  <2>2. CASE fd = None
    BY <2>2 DEF FailedShell, Become
  <2>3. CASE fd # None
    <3>1. fd \in Fd
      BY <2>1, <2>3
    <3>2. /\ shells' = e.shells /\ pid_handlers' = e.pid_handlers /\ proc' = e.proc
          /\ pty' = e.pty /\ handlers' = [e.handlers EXCEPT ![fd] = None]
      BY <2>3 DEF FailedShell, Become, set_read_handler, Editors
    <3> QED
      BY <2>1, <3>1, <3>2, FailInv
  <2> QED
    BY <2>2, <2>3
<1> QED
  BY <1>1, <1>2 DEF Launch

LEMMA ShellStep ==
    ASSUME ShellInv, do_shell
    PROVE  ShellInv'
<1>1. Inv(shells', handlers', pid_handlers', proc', pty', loop.rfds)
  BY ShellInvParts, LaunchStep DEF do_shell
<1> QED
  BY <1>1, CommandStep DEF do_shell

LEMMA CompileStep ==
    ASSUME ShellInv, do_compile
    PROVE  ShellInv'
<1> DEFINE c == CHOOSE s \in Compilation : TRUE
           e == IF Compilation = {} THEN Editor ELSE shell_close(Editor, c)
<1>1. Launch(e, FALSE)
  BY DEF do_compile
<1>2. /\ Inv(e.shells, e.handlers, e.pid_handlers, e.proc, e.pty, loop.rfds)
      /\ e \in Editors({e.shells}, {e.handlers}, {e.pid_handlers}, {e.proc}, {e.pty})
  <2>1. CASE Compilation = {}
    BY <2>1, ShellInvParts
  <2>2. CASE Compilation # {}
    <3>1. c \in Live /\ MayClose(c)
      BY <2>2 DEF Compilation, do_compile
    <3>2. e = shell_close(Editor, c)
      BY <2>2
    <3> HIDE DEF c, e
    <3> QED
      BY <3>1, <3>2, CloseEditor
  <2> QED
    BY <2>1, <2>2
<1> HIDE DEF e
<1>3. Inv(shells', handlers', pid_handlers', proc', pty', loop.rfds)
  BY <1>1, <1>2, LaunchStep
<1> QED
  BY <1>3, CommandStep DEF do_compile

LEMMA WriteCharStep ==
    ASSUME ShellInv, NEW s \in Live, shell_write_char(s)
    PROVE  ShellInv'
<1>1. loop \in Loops /\ NextHandler(Keyboard) \in Loops /\ NextHandler(Keyboard).rfds \subseteq loop.rfds
  BY ShellInvParts, NextHandlerType
<1>2. shells[s].pty_fd \in Fd \cup {None}
  BY ShellInvParts, InvParts, ShellParts
<1>3. loop' \in Loops /\ loop'.rfds = NextHandler(Keyboard).rfds
  <2> DEFINE n == NextHandler(Keyboard)
  <2>1. loop' = [n EXCEPT !.at = "write", !.fd = shells[s].pty_fd] /\ n \in Loops
    BY <1>1 DEF shell_write_char
  <2> HIDE DEF n
  <2>2. loop' \in Loops /\ loop'.rfds = n.rfds
    BY <1>2, <2>1 DEF Loops
  <2> QED
    BY <2>2 DEF n
<1>4. Inv(shells, handlers, pid_handlers, proc, pty, loop'.rfds)
  BY <1>1, <1>3, ShellInvParts, FewerInv
<1> QED
  BY <1>3, <1>4 DEF shell_write_char, ShellInv, Loops

LEMMA OtherKeyStep ==
    ASSUME ShellInv, OtherKey
    PROVE  ShellInv'
<1>1. Inv(shells', handlers', pid_handlers', proc', pty', loop.rfds)
  BY ShellInvParts DEF OtherKey
<1> QED
  BY <1>1, CommandStep DEF OtherKey

LEMMA TtyWriteStep ==
    ASSUME ShellInv, tty_write
    PROVE  ShellInv'
<1>0. Inv(shells, handlers, pid_handlers, proc, pty, loop.rfds) /\ loop \in Loops
  BY ShellInvParts
<1>1. loop' \in Loops /\ loop'.rfds = loop.rfds
  BY <1>0 DEF tty_write, Loops
<1>2. Inv(shells, handlers, pid_handlers, proc, pty', loop.rfds)
  <2>1. CASE UNCHANGED pty
    BY <1>0, <2>1
  <2>2. CASE Reader(loop.fd) # {} /\ pty' = [pty EXCEPT ![loop.fd].in = @ + 1]
    <3>1. PICK p \in Pid : Runs(p) /\ TerminalOf(p) = loop.fd
      BY <2>2 DEF Reader
    <3>2. loop.fd \in Fd
      BY <3>1, OwnerFound DEF Runs
    <3> DEFINE d == loop.fd
    <3>3. pty \in [Fd -> Pty] /\ d \in Fd /\ pty' = [pty EXCEPT ![d].in = @ + 1]
      BY <1>0, <2>2, <3>2, InvParts
    <3> HIDE DEF d
    <3> DEFINE z == pty[d]
               y == [pty[d] EXCEPT !.in = @ + 1]
    <3>4. y \in Pty /\ y.open = pty[d].open /\ y.out = pty[d].out
      <4>1. z \in Pty /\ y = [z EXCEPT !.in = @ + 1]
        BY <3>3
      <4> HIDE DEF z, y
      <4>2. y \in Pty /\ y.open = z.open /\ y.out = z.out
        BY SMTT(30), <4>1 DEF Pty
      <4> QED
        BY <4>2 DEF z
    <3>5. pty' = [pty EXCEPT ![d] = y]
      BY <3>3
    <3> HIDE DEF y
    <3>6. /\ pty' \in [Fd -> Pty]
          /\ \A fd \in Fd : pty'[fd].open = pty[fd].open /\ pty'[fd].out = pty[fd].out
      BY <3>3, <3>4, <3>5
    <3> QED
      BY <1>0, <3>6, InputInv
  <2> QED
    BY <2>1, <2>2 DEF tty_write
<1> QED
  BY <1>1, <1>2 DEF tty_write, ShellInv, Loops

LEMMA SelectStep ==
    ASSUME ShellInv, select
    PROVE  ShellInv'
<1>0. Inv(shells, handlers, pid_handlers, proc, pty, loop.rfds) /\ loop \in Loops
  BY ShellInvParts
<1>1. PICK keys \in {{}, {Keyboard}} :
        loop' = [loop EXCEPT !.at = "handlers", !.rfds = Ready \cup keys]
  BY DEF select
<1>2. Ready \subseteq Fd /\ \A fd \in Ready : handlers[fd] # None
  BY DEF Ready
<1> DEFINE rf == Ready \cup keys
<1>3. rf \subseteq Fd \cup {Keyboard} /\ \A fd \in rf \ {Keyboard} : handlers[fd] # None
  BY <1>2
<1>4. loop' = [loop EXCEPT !.at = "handlers", !.rfds = rf]
  BY <1>1
<1> HIDE DEF rf
<1>5. loop' \in Loops /\ loop'.rfds = rf
  BY <1>0, <1>3, <1>4 DEF Loops
<1>6. Inv(shells, handlers, pid_handlers, proc, pty, rf)
  BY <1>0, <1>3 DEF Inv, Types, Watched
<1> QED
  BY <1>5, <1>6 DEF select, ShellInv, Loops

LEMMA ReadStep ==
    ASSUME ShellInv, NEW fd \in Fd, shell_read_cb(fd)
    PROVE  ShellInv'
<1> DEFINE s == handlers[fd]
<1>0. Inv(shells, handlers, pid_handlers, proc, pty, loop.rfds) /\ loop \in Loops
      /\ Live = LiveIn(shells)
  BY ShellInvParts
<1>1. loop' \in Loops /\ loop'.rfds \subseteq loop.rfds
  BY <1>0, NextHandlerType DEF shell_read_cb
<1>2. CASE s = None \/ s \notin Live
  <2>1. ~Careful
    <3> SUFFICES ASSUME Careful PROVE FALSE
      OBVIOUS
    <3>1. fd \in loop.rfds \ {Keyboard}
      BY Numbers DEF shell_read_cb, Calling
    <3>2. s # None
      BY <1>0, <3>1, InvParts DEF Watched
    <3> QED
      BY <1>0, <1>2, <3>2, InvParts DEF FdsOwned
  <2>2. UNCHANGED <<shells, pty, handlers, pid_handlers, proc>>
    BY <1>2 DEF shell_read_cb
  <2>3. Inv(shells', handlers', pid_handlers', proc', pty', loop'.rfds)
    BY <1>0, <1>1, <2>2, FewerInv
  <2> QED
    BY <1>1, <2>1, <2>3 DEF ShellInv, Loops
<1>3. CASE ~(s = None \/ s \notin Live)
  <2> DEFINE x1 == [shells[s] EXCEPT !.shown = @ \o Taken(pty[fd].out)]
             y1 == [pty[fd] EXCEPT !.out = SubSeq(@, Len(Taken(pty[fd].out)) + 1, Len(@))]
  <2>1. s \in LiveIn(shells) /\ shells[s].pty_fd = fd /\ fd # None
    BY <1>0, <1>3, InvParts, Numbers DEF FdsOwned
  <2>2. s \in 1..Len(shells) /\ ~shells[s].freed
    BY <1>0, <2>1, InvParts
  <2>3. /\ shells[s] \in ShellState /\ pty[fd] \in Pty
        /\ Numbered(shells[s]) /\ Continues(shells[s], pty[fd])
    BY <1>0, <2>1, <2>2, InvParts DEF InOrder
  <2>4. /\ x1 \in ShellState /\ y1 \in Pty
        /\ x1.freed = shells[s].freed /\ x1.pid = shells[s].pid
        /\ x1.pty_fd = shells[s].pty_fd
        /\ y1.open = pty[shells[s].pty_fd].open
        /\ Numbered(x1) /\ Continues(x1, y1)
    BY <2>1, <2>3, ReadOutput
  <2>5. /\ shells' = [shells EXCEPT ![s] = x1]
        /\ pty' = [pty EXCEPT ![shells[s].pty_fd] = y1]
        /\ UNCHANGED <<handlers, pid_handlers, proc, dangling>>
    BY <1>3, <2>1 DEF shell_read_cb
  <2> HIDE DEF x1, y1, s
  <2>6. shells[s].pty_fd # None
    BY <2>1
  <2>7. Inv(shells', handlers, pid_handlers, proc, pty', loop.rfds)
    BY <1>0, <2>1, <2>4, <2>5, <2>6, OutputInv
  <2>8. Inv(shells', handlers', pid_handlers', proc', pty', loop'.rfds)
    BY <1>1, <2>5, <2>7, FewerInv
  <2> QED
    BY <1>1, <2>5, <2>8 DEF ShellInv, Loops
<1> QED
  BY <1>2, <1>3

(* The handler that waitpid finds is the one of the shell of the process.  *)
LEMMA WaitStep ==
    ASSUME ShellInv, NEW p \in Pid, waitpid(p)
    PROVE  ShellInv'
<1> DEFINE e == [Editor EXCEPT !.proc[p] = "none"]
           s == OwnerOf(p)
           i == HandlerIndex(e, p)
           f == shell_pid_cb(e, s)
<1>0. Inv(shells, handlers, pid_handlers, proc, pty, {}) /\ loop.rfds = {}
  BY ShellInvParts DEF waitpid, Reaping
<1>1. s \in LiveIn(shells) /\ shells[s].pid = p /\ p # None
  BY OwnerFound, Numbers DEF waitpid, Zombies
<1>2. FirstHandler(pid_handlers, p, s) /\ pid_handlers \in Seq(PidHandler)
  BY <1>0, <1>1, InvParts DEF HandlersFirst
<1>3. /\ e \in Editors({shells}, {handlers}, {pid_handlers}, {[proc EXCEPT ![p] = "none"]}, {pty})
      /\ e.shells = shells /\ e.handlers = handlers /\ e.pid_handlers = pid_handlers
      /\ e.proc = [proc EXCEPT ![p] = "none"] /\ e.pty = pty
  BY DEF Editor, Editors
<1>4. IF i = 0 THEN Become(e) /\ UNCHANGED dangling
      ELSE /\ Become(shell_pid_cb(e, pid_handlers[i].opaque))
           /\ dangling' = (dangling \/ shells[pid_handlers[i].opaque].freed)
  BY DEF waitpid
<1> HIDE DEF e
<1>5. i \in 1..Len(pid_handlers) /\ i # 0 /\ pid_handlers[i] = [pid |-> p, opaque |-> s]
  BY <1>2, <1>3, HandlerFound
<1> HIDE DEF i, s
<1>6. pid_handlers[i].opaque = s /\ pid_handlers[i].pid = p
  BY <1>5
<1>7. Become(f) /\ dangling' = (dangling \/ shells[s].freed)
  BY <1>4, <1>5, <1>6
<1>8. s \in 1..Len(shells) /\ ~shells[s].freed /\ s \in DOMAIN shells
  BY <1>0, <1>1, InvParts
<1>9. /\ Collects(shells, handlers, pid_handlers, pty, s, i,
                  f.shells, f.handlers, f.pid_handlers, f.pty)
      /\ f.proc = [proc EXCEPT ![p] = "none"]
  <2>1. s \in DOMAIN e.shells /\ e.shells[s].pid = p
    BY <1>1, <1>3, <1>8
  <2>2. /\ Collects(e.shells, e.handlers, e.pid_handlers, e.pty,
                    s, HandlerIndex(e, e.shells[s].pid),
                    f.shells, f.handlers, f.pid_handlers, f.pty)
        /\ f.proc = e.proc
    BY <1>3, <2>1, CollectParts
  <2> HIDE DEF f
  <2> QED
    BY <1>3, <2>1, <2>2 DEF i
<1> HIDE DEF f
<1>10. Inv(f.shells, f.handlers, f.pid_handlers, f.proc, f.pty, {})
  BY <1>0, <1>1, <1>5, <1>6, <1>9, CollectInv
<1>11. Inv(shells', handlers', pid_handlers', proc', pty', loop'.rfds) /\ loop' = loop
  BY <1>0, <1>7, <1>10 DEF Become, waitpid
<1>12. Careful => ~dangling'
  BY <1>7, <1>8 DEF ShellInv
<1> QED
  BY <1>11, <1>12 DEF ShellInv

LEMMA RoundStep ==
    ASSUME ShellInv, RoundDone
    PROVE  ShellInv'
<1>1. loop' \in Loops /\ loop'.rfds = {}
  BY DEF RoundDone, SelectNext, Loops
<1>2. Inv(shells, handlers, pid_handlers, proc, pty, loop'.rfds)
  BY <1>1, ShellInvParts, FewerInv
<1> QED
  BY <1>1, <1>2 DEF RoundDone, ShellInv, Loops

---------------------------------------------------------------------------

LEMMA ShellInvInit == Init => ShellInv
<1> SUFFICES ASSUME Init PROVE ShellInv
  OBVIOUS
<1>1. shells = << >> /\ Len(shells) = 0 /\ LiveIn(shells) = {}
  BY DEF Init, LiveIn
<1>2. /\ \A fd \in Fd : handlers[fd] = None
      /\ \A p \in Pid : proc[p] = "none"
      /\ loop.rfds = {}
  BY DEF Init, SelectNext
<1>3. Types(shells, handlers, pid_handlers, proc, pty, loop.rfds)
  <2>1. pty \in [Fd -> Pty]
    BY PtyType DEF Init
  <2> QED
    BY <1>2, <2>1 DEF Init, Types
<1>4. Inv(shells, handlers, pid_handlers, proc, pty, loop.rfds)
  BY <1>1, <1>2, <1>3 DEF Inv, Paired, FdsOwned, PidsOwned, HandlersFirst, InOrder, Watched
<1> QED
  BY <1>4 DEF Init, ShellInv, SelectNext

LEMMA ShellInvNext == ShellInv /\ [Next]_vars => ShellInv'
<1> SUFFICES ASSUME ShellInv, [Next]_vars PROVE ShellInv'
  OBVIOUS
<1>1. CASE select
  BY <1>1, SelectStep
<1>2. CASE Key
  <2>1. CASE \E s \in Live : do_kill_buffer(s) \/ shell_write_char(s)
    BY <2>1, KillStep, WriteCharStep
  <2> QED
    BY <1>2, <2>1, ShellStep, CompileStep, OtherKeyStep DEF Key
<1>3. CASE tty_write
  BY <1>3, TtyWriteStep
<1>4. CASE \E fd \in Fd : shell_read_cb(fd)
  BY <1>4, ReadStep
<1>5. CASE \E p \in Pid : waitpid(p)
  BY <1>5, WaitStep
<1>6. CASE RoundDone
  BY <1>6, RoundStep
<1>7. CASE \E p \in Pid : Process(p)
  BY <1>7, ProcWriteStep, ProcReadStep, ProcExitStep DEF Process
<1>8. CASE UNCHANGED vars
  BY <1>8 DEF vars, ShellInv
<1> QED
  BY <1>1, <1>2, <1>3, <1>4, <1>5, <1>6, <1>7, <1>8 DEF Next, url_block

(* No handler is called that was removed or whose state was freed, if the  *)
(* system can always make a process and a terminal, and if no shell is     *)
(* closed in a round of url_block in which its own descriptor is ready.    *)
(* The handlers that shell_close leaves in the list are never called.      *)
THEOREM HandlersLive ==
    ASSUME ~PtyFails, ~KillWhenReady
    PROVE  Spec => []NoDanglingCall
<1>1. ShellInv => NoDanglingCall
  BY DEF ShellInv, Careful, NoDanglingCall
<1> QED
  BY ShellInvInit, ShellInvNext, <1>1, PTL DEF Spec

(* The process that shell_close kills and waits for is the child of this   *)
(* shell and of no other, although shell_close leaves handlers behind, and *)
(* the system uses process ids again; without any assumption on what fails *)
(* or when buffers are killed.                                             *)
THEOREM PidsStayOwned == Spec => []PidOwned
<1>1. ShellInv => PidOwned
  <2> SUFFICES ASSUME ShellInv, NEW s \in Live, shells[s].pid # None
               PROVE  /\ proc[shells[s].pid] # "none"
                      /\ \A t \in Live \ {s} : shells[t].pid # shells[s].pid
                      /\ \E i \in 1..Len(pid_handlers) :
                           pid_handlers[i] = [pid |-> shells[s].pid, opaque |-> s]
    BY DEF PidOwned
  <2> QED
    BY ShellInvParts, InvParts DEF PidsOwned, HandlersFirst, FirstHandler
<1> QED
  BY ShellInvInit, ShellInvNext, <1>1, PTL DEF Spec

(* A buffer shows the output of its own process, complete and in order,    *)
(* and a descriptor that is watched is the open one of a live shell.       *)
THEOREM OutputStaysInOrder == Spec => []OutputInOrder
<1>1. ShellInv => OutputInOrder
  <2> SUFFICES ASSUME ShellInv PROVE OutputInOrder
    OBVIOUS
  <2>1. InOrder(shells, pty) /\ FdsOwned(shells, handlers, pty) /\ Live = LiveIn(shells)
    BY ShellInvParts, InvParts
  <2> QED
    BY <2>1 DEF OutputInOrder, InOrder, Numbered, FdsOwned, Shells
<1> QED
  BY ShellInvInit, ShellInvNext, <1>1, PTL DEF Spec
================================================================================
