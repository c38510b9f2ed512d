---------------------------- MODULE EditBufferProofs ----------------------------
(***************************************************************************)
(* Proofs about EditBuffer: the undo log, the chain of undos and what is   *)
(* saved; and the offsets it registers, which stay inside the text and     *)
(* move with it.                                                           *)
(***************************************************************************)
EXTENDS EditBuffer, TLAPS

---------------------------------------------------------------------------
(* Texts.                                                                  *)

(* Taking size bytes out of a text yields a text of that length.           *)
LEMMA ExtractType ==
    ASSUME NEW t \in Seq(Byte), NEW offset \in Nat, NEW size \in Nat,
           size = 0 \/ offset + size <= Len(t)
    PROVE  /\ Extract(t, offset, size) \in Seq(Byte)
           /\ Len(Extract(t, offset, size)) = size
BY DEF Extract

(* Inserting bytes in a text yields a longer text.                         *)
LEMMA InsertType ==
    ASSUME NEW t \in Seq(Byte), NEW offset \in Nat, NEW d \in Seq(Byte),
           offset <= Len(t)
    PROVE  /\ InsertText(t, offset, d) \in Seq(Byte)
           /\ Len(InsertText(t, offset, d)) = Len(t) + Len(d)
BY DEF InsertText

(* Deleting bytes of a text yields a shorter text.                         *)
LEMMA DeleteType ==
    ASSUME NEW t \in Seq(Byte), NEW offset \in Nat, NEW size \in Nat,
           offset + size <= Len(t)
    PROVE  /\ DeleteText(t, offset, size) \in Seq(Byte)
           /\ Len(DeleteText(t, offset, size)) = Len(t) - size
BY DEF DeleteText

(* Overwriting bytes of a text does not change its length.                 *)
LEMMA WriteType ==
    ASSUME NEW t \in Seq(Byte), NEW offset \in Nat, NEW d \in Seq(Byte),
           offset + Len(d) <= Len(t)
    PROVE  /\ WriteText(t, offset, d) \in Seq(Byte)
           /\ Len(WriteText(t, offset, d)) = Len(t)
BY DEF WriteText

(* Deleting what was inserted restores the text.                           *)
LEMMA DeleteInserted ==
    ASSUME NEW t \in Seq(Byte), NEW offset \in Nat, NEW d \in Seq(Byte),
           offset <= Len(t)
    PROVE  DeleteText(InsertText(t, offset, d), offset, Len(d)) = t
<1> DEFINE u == InsertText(t, offset, d)
           v == DeleteText(u, offset, Len(d))
<1>1. u \in Seq(Byte) /\ Len(u) = Len(t) + Len(d)
  BY InsertType
<1>2. v \in Seq(Byte) /\ Len(v) = Len(t)
  BY <1>1, DeleteType
<1>3. ASSUME NEW i \in 1..Len(t) PROVE v[i] = t[i]
  BY <1>1 DEF InsertText, DeleteText
<1> QED
  BY <1>2, <1>3

(* Inserting back what was deleted restores the text.                      *)
LEMMA InsertDeleted ==
    ASSUME NEW t \in Seq(Byte), NEW offset \in Nat, NEW size \in Nat,
           offset + size <= Len(t)
    PROVE  InsertText(DeleteText(t, offset, size), offset,
                      Extract(t, offset, size)) = t
<1> DEFINE d == Extract(t, offset, size)
           u == DeleteText(t, offset, size)
           v == InsertText(u, offset, d)
<1>1. u \in Seq(Byte) /\ Len(u) = Len(t) - size
  BY DeleteType
<1>2. d \in Seq(Byte) /\ Len(d) = size
  BY ExtractType
<1>3. v \in Seq(Byte) /\ Len(v) = Len(t)
  BY <1>1, <1>2, InsertType
<1>4. ASSUME NEW i \in 1..Len(t) PROVE v[i] = t[i]
  BY <1>1, <1>2 DEF InsertText, DeleteText, Extract
<1> QED
  BY <1>3, <1>4

---------------------------------------------------------------------------
(* Buffers.                                                                *)

(* The operations that are logged differ from one another.                 *)
LEMMA Operations ==
    /\ LogOperation = {LOGOP_INSERT, LOGOP_DELETE, LOGOP_WRITE}
    /\ LOGOP_INSERT # LOGOP_DELETE
    /\ LOGOP_INSERT # LOGOP_WRITE
    /\ LOGOP_DELETE # LOGOP_WRITE
BY DEF LogOperation, LOGOP_INSERT, LOGOP_DELETE, LOGOP_WRITE

(* What TypeOK says of the buffer.                                         *)
WellFormed(e) == /\ e \in Buffer
                 /\ e.log_current <= Len(e.log)
                 /\ Len(e.log) < NbLogsMax

(* The entry that eb_addlog appends.                                       *)
NewEntry(e, op, offset, size, before) ==
    [op |-> op, offset |-> offset, size |-> size,
     data |-> IF op = LOGOP_INSERT THEN << >> ELSE Extract(e.text, offset, size),
     was_modified |-> e.modified, before |-> before]

(* The log of e after entry was appended to it.                            *)
Logged(e, entry) ==
    Append(IF Len(e.log) >= NbLogsMax - 1 THEN Tail(e.log) ELSE e.log, entry)

(* r is e after eb_addlog when save_log is off.                            *)
NotLogged(e, r) ==
    /\ WellFormed(r)
    /\ r.text = e.text
    /\ r.modified = TRUE
    /\ r.save_log = e.save_log
    /\ r.overrun = e.overrun
    /\ r.log = e.log
    /\ r.log_current = e.log_current

(* r is e after eb_addlog appended entry to its log.                       *)
LogAdded(e, r, entry) ==
    /\ WellFormed(r)
    /\ r.text = e.text
    /\ r.modified = TRUE
    /\ r.save_log = e.save_log
    /\ r.overrun = e.overrun
    /\ r.log = Logged(e, entry)
    /\ r.log_current = IF Len(e.log) >= NbLogsMax - 1 /\ e.log_current > 1
                       THEN e.log_current - 1 ELSE e.log_current

(* A callback leaves a registered offset a natural number.                 *)
LEMMA CallbackType ==
    ASSUME NEW op, NEW offset \in Nat, NEW size \in Nat, NEW p \in Nat
    PROVE  eb_offset_callback(op, offset, size, p) \in Nat
BY DEF eb_offset_callback

(* eb_addlog with save_log off runs the callbacks and sets modified.       *)
LEMMA AddLogOff ==
    ASSUME NEW e, WellFormed(e), e.save_log = FALSE, NEW op \in LogOperation,
           NEW offset \in Nat, NEW size \in Nat, NEW before
    PROVE  NotLogged(e, eb_addlog(e, op, offset, size, before))
<1> DEFINE offs == [p \in Pointer |->
                      eb_offset_callback(op, offset, size, e.offsets[p])]
           r == eb_addlog(e, op, offset, size, before)
<1>1. offs \in [Pointer -> Nat]
  BY CallbackType DEF WellFormed, Buffer
<1>2. r = [e EXCEPT !.offsets = offs, !.modified = TRUE]
  BY DEF eb_addlog
<1> HIDE DEF offs, r
<1>3. QED
  BY <1>1, <1>2 DEF WellFormed, Buffer, NotLogged, r

(* eb_addlog with save_log on also appends an entry, after the oldest one  *)
(* made room for it, and keeps log_current on the entry it was on.         *)
LEMMA AddLogOn ==
    ASSUME NEW e, WellFormed(e), e.save_log = TRUE, NEW op \in LogOperation,
           NEW offset \in Nat, NEW size \in Nat, NEW before \in Seq(Byte),
           op # LOGOP_INSERT => size = 0 \/ offset + size <= Len(e.text)
    PROVE  LogAdded(e, eb_addlog(e, op, offset, size, before),
                    NewEntry(e, op, offset, size, before))
<1> DEFINE offs == [p \in Pointer |->
                      eb_offset_callback(op, offset, size, e.offsets[p])]
           full == Len(e.log) >= NbLogsMax - 1
           entry == NewEntry(e, op, offset, size, before)
           log == Append(IF full THEN Tail(e.log) ELSE e.log, entry)
           cur == IF full /\ e.log_current > 1
                  THEN e.log_current - 1 ELSE e.log_current
           r == eb_addlog(e, op, offset, size, before)
<1>1. offs \in [Pointer -> Nat]
  BY CallbackType DEF WellFormed, Buffer
<1>2. r = [[e EXCEPT !.offsets = offs, !.modified = TRUE]
             EXCEPT !.log = log, !.log_current = cur]
  BY DEF eb_addlog, NewEntry, LogFull, CurrentAfter
<1>3. entry \in LogEntry
  <2>1. (IF op = LOGOP_INSERT THEN << >> ELSE Extract(e.text, offset, size))
           \in Seq(Byte)
    BY ExtractType DEF WellFormed, Buffer
  <2>2. op # LOGOP_INSERT => Len(Extract(e.text, offset, size)) = size
    BY ExtractType DEF WellFormed, Buffer
  <2> QED
    BY <2>1, <2>2 DEF WellFormed, Buffer, NewEntry, LogEntry
<1>4. /\ log \in Seq(LogEntry) /\ Len(log) < NbLogsMax
      /\ cur \in Nat /\ cur <= Len(log)
  <2> HIDE DEF entry
  <2> QED
    BY <1>3, LogAssumption DEF WellFormed, Buffer
<1> HIDE DEF offs, r, log, cur, entry
<1>5. /\ WellFormed(r) /\ r.text = e.text /\ r.modified = TRUE
      /\ r.save_log = e.save_log /\ r.overrun = e.overrun
      /\ r.log = log /\ r.log_current = cur
  BY <1>1, <1>2, <1>4 DEF WellFormed, Buffer
<1> QED
  BY <1>5 DEF r, log, cur, entry, Logged, LogAdded

---------------------------------------------------------------------------
(* The log.                                                                *)

Sound(e) == WellFormed(e) /\ \A i \in 1..Len(e.log) : EntrySound(e, i)

(* Appending an entry whose `before' is the current text leaves the older  *)
(* entries sound, whether or not one of them is dropped.                   *)
LEMMA AppendSound ==
    ASSUME NEW e, Sound(e), NEW r, WellFormed(r), NEW entry \in LogEntry,
           r.log = Logged(e, entry), entry.before = e.text,
           EntrySound(r, Len(r.log))
    PROVE  Sound(r)
<1> DEFINE full == Len(e.log) >= NbLogsMax - 1
           n == Len(r.log)
<1>1. /\ e.log \in Seq(LogEntry) /\ r.log \in Seq(LogEntry)
      /\ n \in Nat \ {0} /\ r.log[n] = entry
      /\ n = IF full THEN Len(e.log) ELSE Len(e.log) + 1
  BY LogAssumption DEF Logged, Sound, WellFormed, Buffer
<1>2. SUFFICES ASSUME NEW i \in 1..(n - 1) PROVE EntrySound(r, i)
  BY <1>1 DEF Sound
<1> DEFINE j == IF full THEN i + 1 ELSE i
<1>3. j \in 1..Len(e.log) /\ r.log[i] = e.log[j]
  BY <1>1, LogAssumption DEF Logged
<1>4. TextAfter(r, i) = TextAfter(e, j)
  <2>1. CASE i + 1 = n
    BY <1>1, <2>1 DEF TextAfter
  <2>2. CASE i + 1 < n
    <3>1. r.log[i + 1] = e.log[j + 1] /\ j < Len(e.log)
      BY <1>1, <2>2, LogAssumption DEF Logged
    <3> QED
      BY <1>1, <2>2, <3>1 DEF TextAfter
  <2> QED
    BY <1>1, <2>1, <2>2
<1>5. EntrySound(e, j)
  BY <1>3 DEF Sound
<1> QED
  BY <1>3, <1>4, <1>5 DEF EntrySound

(* n is an entry with these fields, logged by e.                           *)
IsEntry(n, e, op, offset, size, before) ==
    /\ n \in LogEntry
    /\ n.op = op /\ n.offset = offset /\ n.size = size
    /\ n.before = before /\ n.was_modified = e.modified
    /\ op # LOGOP_INSERT => /\ n.data = Extract(e.text, offset, size)
                            /\ Len(n.data) = size

(* The fields of the entry that eb_addlog appends.                         *)
LEMMA NewEntryType ==
    ASSUME NEW e, WellFormed(e), NEW op \in LogOperation,
           NEW offset \in Nat, NEW size \in Nat, NEW before \in Seq(Byte),
           op # LOGOP_INSERT => size = 0 \/ offset + size <= Len(e.text)
    PROVE  IsEntry(NewEntry(e, op, offset, size, before),
                   e, op, offset, size, before)
<1>1. (IF op = LOGOP_INSERT THEN << >> ELSE Extract(e.text, offset, size))
         \in Seq(Byte)
  BY ExtractType DEF WellFormed, Buffer
<1>2. op # LOGOP_INSERT => Len(Extract(e.text, offset, size)) = size
  BY ExtractType DEF WellFormed, Buffer
<1> QED
  BY <1>1, <1>2 DEF WellFormed, Buffer, NewEntry, LogEntry, IsEntry

(* r is e after an operation that was logged as entry turned its text to t.*)
Edited(e, r, entry, t) ==
    /\ Sound(r)
    /\ r.text = t
    /\ r.modified = TRUE
    /\ r.save_log = TRUE
    /\ r.overrun = e.overrun
    /\ r.log = Logged(e, entry)
    /\ r.log_current = IF Len(e.log) >= NbLogsMax - 1 /\ e.log_current > 1
                       THEN e.log_current - 1 ELSE e.log_current

(* An operation whose entry reverts it keeps the log sound.                *)
LEMMA EditSound ==
    ASSUME NEW e, Sound(e), e.save_log = TRUE, NEW op \in LogOperation,
           NEW offset \in Nat, NEW size \in Nat, NEW t \in Seq(Byte),
           op # LOGOP_INSERT => offset + size <= Len(e.text),
           offset + (IF op = LOGOP_DELETE THEN 0 ELSE size) <= Len(t),
           Revert(NewEntry(e, op, offset, size, e.text), t) = e.text
    PROVE  Edited(e, [eb_addlog(e, op, offset, size, e.text) EXCEPT !.text = t],
                  NewEntry(e, op, offset, size, e.text), t)
<1> DEFINE l == eb_addlog(e, op, offset, size, e.text)
           r == [l EXCEPT !.text = t]
           entry == NewEntry(e, op, offset, size, e.text)
<1>0. WellFormed(e) /\ e.text \in Seq(Byte)
  BY DEF Sound, WellFormed, Buffer
<1>1. LogAdded(e, l, entry)
  BY <1>0, AddLogOn
<1>2. /\ entry \in LogEntry /\ entry.op = op /\ entry.offset = offset
      /\ entry.size = size /\ entry.before = e.text
      /\ op # LOGOP_INSERT => Len(entry.data) = size
  <2>1. IsEntry(entry, e, op, offset, size, e.text)
    BY <1>0, NewEntryType
  <2> QED
    BY <2>1 DEF IsEntry
<1>3. Revert(entry, t) = e.text
  OBVIOUS
<1> HIDE DEF l, entry
<1>4. /\ WellFormed(r) /\ r.text = t /\ r.modified = TRUE
      /\ r.save_log = TRUE /\ r.overrun = e.overrun
      /\ r.log = Logged(e, entry)
      /\ r.log_current = IF Len(e.log) >= NbLogsMax - 1 /\ e.log_current > 1
                         THEN e.log_current - 1 ELSE e.log_current
  BY <1>1 DEF LogAdded, WellFormed, Buffer
<1> HIDE DEF r
<1>5. /\ Len(r.log) \in 1..Len(r.log) /\ r.log[Len(r.log)] = entry
  BY <1>0, <1>2, <1>4, LogAssumption DEF Logged, WellFormed, Buffer
<1>6. EntrySound(r, Len(r.log))
  <2>1. TextAfter(r, Len(r.log)) = t
    BY <1>4, <1>5 DEF TextAfter
  <2> QED
    BY <1>2, <1>3, <1>5, <2>1 DEF EntrySound
<1>7. Sound(r)
  BY <1>2, <1>4, <1>6, AppendSound
<1> QED
  BY <1>4, <1>7 DEF Edited, r, l, entry

(* An overrun does not touch the log.                                      *)
LEMMA OverrunSound ==
    ASSUME NEW e, Sound(e), e.save_log = TRUE
    PROVE  /\ Sound(Overrun(e)) /\ Overrun(e).save_log = TRUE
           /\ Overrun(e).text = e.text /\ Overrun(e).log = e.log
           /\ Overrun(e).modified = e.modified
           /\ Overrun(e).log_current = e.log_current
           /\ Overrun(e).overrun = TRUE
BY DEF Overrun, Sound, WellFormed, Buffer, EntrySound, TextAfter

(* So is moving a registered offset.                                       *)
LEMMA SetOffsetSound ==
    ASSUME NEW e, Sound(e), e.save_log = TRUE, NEW p \in Pointer,
           NEW o \in Nat
    PROVE  LET r == SetOffset(e, p, o)
           IN  /\ Sound(r) /\ r.save_log = TRUE
               /\ r.text = e.text /\ r.log = e.log
               /\ r.modified = e.modified
               /\ r.log_current = e.log_current /\ r.overrun = e.overrun
BY DEF SetOffset, Sound, WellFormed, Buffer, EntrySound, TextAfter

(* eb_insert keeps the log sound.                                          *)
LEMMA InsertSound ==
    ASSUME NEW e, Sound(e), e.save_log = TRUE, NEW offset \in Nat,
           NEW d \in Seq(Byte), offset <= Len(e.text)
    PROVE  Edited(e, eb_insert(e, offset, d),
                  NewEntry(e, LOGOP_INSERT, offset, Len(d), e.text),
                  InsertText(e.text, offset, d))
<1> DEFINE entry == NewEntry(e, LOGOP_INSERT, offset, Len(d), e.text)
           t == InsertText(e.text, offset, d)
<1>0. /\ WellFormed(e) /\ e.text \in Seq(Byte) /\ Len(d) \in Nat
      /\ LOGOP_INSERT \in LogOperation /\ LOGOP_INSERT # LOGOP_DELETE
  BY Operations DEF Sound, WellFormed, Buffer
<1>1. eb_insert(e, offset, d)
        = [eb_addlog(e, LOGOP_INSERT, offset, Len(d), e.text) EXCEPT !.text = t]
  BY <1>0 DEF eb_insert
<1>2. t \in Seq(Byte) /\ Len(t) = Len(e.text) + Len(d)
  BY <1>0, InsertType
<1>3. /\ entry.op = LOGOP_INSERT /\ entry.offset = offset
      /\ entry.size = Len(d)
  <2>1. IsEntry(entry, e, LOGOP_INSERT, offset, Len(d), e.text)
    BY <1>0, NewEntryType
  <2> QED
    BY <2>1 DEF IsEntry
<1>4. Revert(entry, t) = e.text
  <2> HIDE DEF entry
  <2> QED
    BY <1>0, <1>3, DeleteInserted DEF Revert
<1>5. offset + (IF LOGOP_INSERT = LOGOP_DELETE THEN 0 ELSE Len(d)) <= Len(t)
  BY <1>0, <1>2
<1> HIDE DEF t
<1>6. Edited(e, [eb_addlog(e, LOGOP_INSERT, offset, Len(d), e.text)
                   EXCEPT !.text = t], entry, t)
  BY <1>0, <1>2, <1>4, <1>5, EditSound
<1> QED
  BY <1>1, <1>6 DEF t

(* eb_delete keeps the log sound.                                          *)
LEMMA DeleteSound ==
    ASSUME NEW e, Sound(e), e.save_log = TRUE, NEW offset \in Nat,
           NEW size \in Nat, offset < Len(e.text),
           offset + size <= Len(e.text)
    PROVE  Edited(e, eb_delete(e, offset, size),
                  NewEntry(e, LOGOP_DELETE, offset, size, e.text),
                  DeleteText(e.text, offset, size))
<1> DEFINE entry == NewEntry(e, LOGOP_DELETE, offset, size, e.text)
           t == DeleteText(e.text, offset, size)
<1>0. /\ WellFormed(e) /\ e.text \in Seq(Byte)
      /\ LOGOP_DELETE \in LogOperation /\ LOGOP_INSERT # LOGOP_DELETE
  BY Operations DEF Sound, WellFormed, Buffer
<1>1. eb_delete(e, offset, size)
        = [eb_addlog(e, LOGOP_DELETE, offset, size, e.text) EXCEPT !.text = t]
  BY <1>0 DEF eb_delete
<1>2. t \in Seq(Byte) /\ Len(t) = Len(e.text) - size
  BY <1>0, DeleteType
<1>3. /\ entry.op = LOGOP_DELETE /\ entry.offset = offset
      /\ entry.data = Extract(e.text, offset, size)
  <2>1. IsEntry(entry, e, LOGOP_DELETE, offset, size, e.text)
    BY <1>0, NewEntryType
  <2> QED
    BY <1>0, <2>1 DEF IsEntry
<1>4. Revert(entry, t) = e.text
  <2> HIDE DEF entry
  <2> QED
    BY <1>0, <1>3, InsertDeleted DEF Revert
<1>5. offset + (IF LOGOP_DELETE = LOGOP_DELETE THEN 0 ELSE size) <= Len(t)
  BY <1>0, <1>2
<1> HIDE DEF t
<1>6. Edited(e, [eb_addlog(e, LOGOP_DELETE, offset, size, e.text)
                   EXCEPT !.text = t], entry, t)
  BY <1>0, <1>2, <1>4, <1>5, EditSound
<1> QED
  BY <1>1, <1>6 DEF t

---------------------------------------------------------------------------
(* Undo.                                                                   *)

(* With respect to the file contents f: a buffer that is, or was when an   *)
(* entry was logged, unmodified has them; and no entry records a write.    *)
Clean(e, f) ==
    /\ e.modified = FALSE => e.text = f
    /\ \A i \in 1..Len(e.log) :
         /\ e.log[i].op # LOGOP_WRITE
         /\ e.log[i].was_modified = FALSE => e.log[i].before = f

(* The next undo of a chain finds the text that follows the entry it is to *)
(* revert.                                                                 *)
Chained(e) == e.log_current > 1 => e.text = e.log[e.log_current].before

(* Appending an entry that says the truth about the file keeps Clean.      *)
LEMMA LoggedClean ==
    ASSUME NEW e, WellFormed(e), NEW f, Clean(e, f), NEW r, WellFormed(r),
           NEW n \in LogEntry, r.log = Logged(e, n), n.op # LOGOP_WRITE,
           n.was_modified = FALSE => n.before = f,
           r.modified = FALSE => r.text = f
    PROVE  Clean(r, f)
<1>1. /\ e.log \in Seq(LogEntry) /\ r.log \in Seq(LogEntry)
  BY DEF WellFormed, Buffer
<1>2. ASSUME NEW i \in 1..Len(r.log)
      PROVE  r.log[i] = n \/ \E j \in 1..Len(e.log) : r.log[i] = e.log[j]
  <2> DEFINE full == Len(e.log) >= NbLogsMax - 1
             j == IF full THEN i + 1 ELSE i
  <2>1. CASE i = Len(r.log)
    BY <1>1, <2>1, LogAssumption DEF Logged
  <2>2. CASE i < Len(r.log)
    <3>1. j \in 1..Len(e.log) /\ r.log[i] = e.log[j]
      BY <1>1, <2>2, LogAssumption DEF Logged
    <3> QED
      BY <3>1
  <2> QED
    BY <1>1, <2>1, <2>2
<1> QED
  BY <1>2 DEF Clean

(* Inserting nothing, or deleting nothing, does not change a text.         *)
LEMMA EmptyEdits ==
    ASSUME NEW t \in Seq(Byte), NEW offset \in Nat, offset <= Len(t)
    PROVE  /\ \A d \in Seq(Byte) : Len(d) = 0 => InsertText(t, offset, d) = t
           /\ DeleteText(t, offset, 0) = t
<1>1. ASSUME NEW d \in Seq(Byte), Len(d) = 0 PROVE InsertText(t, offset, d) = t
  <2>1. InsertText(t, offset, d) \in Seq(Byte)
        /\ Len(InsertText(t, offset, d)) = Len(t) + Len(d)
    BY InsertType
  <2>2. ASSUME NEW i \in 1..Len(t) PROVE InsertText(t, offset, d)[i] = t[i]
    BY <1>1 DEF InsertText
  <2> QED
    BY <1>1, <2>1, <2>2
<1>2. DeleteText(t, offset, 0) = t
  <2>1. DeleteText(t, offset, 0) \in Seq(Byte)
        /\ Len(DeleteText(t, offset, 0)) = Len(t)
    BY DeleteType
  <2>2. ASSUME NEW i \in 1..Len(t) PROVE DeleteText(t, offset, 0)[i] = t[i]
    BY DEF DeleteText
  <2> QED
    BY <2>1, <2>2
<1> QED
  BY <1>1, <1>2

(* r is what reverting entry lb of e should give.                          *)
Undone(e, r, lb, f) ==
    /\ Sound(r) /\ Clean(r, f) /\ Chained(r)
    /\ r.text = lb.before
    /\ r.save_log = TRUE
    /\ r.overrun = e.overrun

(* The last two assignments of do_undo: the offset and the modified flag.  *)
LEMMA UndoLast ==
    ASSUME NEW e, NEW f, NEW x, Sound(x), x.save_log = TRUE, Chained(x),
           x.overrun = e.overrun, NEW lb \in LogEntry, x.text = lb.before,
           \A i \in 1..Len(x.log) :
               /\ x.log[i].op # LOGOP_WRITE
               /\ x.log[i].was_modified = FALSE => x.log[i].before = f,
           lb.was_modified = FALSE => lb.before = f,
           NEW w \in Window, NEW o \in Nat
    PROVE  Undone(e, [SetOffset(x, w, o) EXCEPT !.modified = lb.was_modified],
                  lb, f)
<1> DEFINE s == SetOffset(x, w, o)
           r == [s EXCEPT !.modified = lb.was_modified]
<1>1. /\ Sound(s) /\ s.save_log = TRUE /\ s.text = x.text /\ s.log = x.log
      /\ s.log_current = x.log_current /\ s.overrun = x.overrun
  BY SetOffsetSound DEF Pointer
<1> HIDE DEF s
<1>2. /\ WellFormed(r) /\ r.save_log = TRUE /\ r.text = x.text
      /\ r.log = x.log /\ r.log_current = x.log_current
      /\ r.overrun = x.overrun /\ r.modified = lb.was_modified
  BY <1>1 DEF Sound, WellFormed, Buffer, LogEntry
<1> HIDE DEF r
<1>3. \A i \in 1..Len(x.log) : EntrySound(r, i)
  BY <1>2 DEF Sound, EntrySound, TextAfter
<1>4. Undone(e, r, lb, f)
  BY <1>2, <1>3 DEF Undone, Sound, Clean, Chained
<1> QED
  BY <1>4 DEF r, s

(* Undo of an insertion.                                                   *)
LEMMA UndoInsert ==
    ASSUME NEW e, Sound(e), e.save_log = TRUE, NEW f, Clean(e, f),
           NEW k \in 1..Len(e.log), e.text = TextAfter(e, k),
           e.log[k].op = LOGOP_INSERT, NEW w \in Window
    PROVE  Undone(e, UndoEntry(e, w, k), e.log[k], f)
<1> DEFINE lb == e.log[k]
           c == [e EXCEPT !.log_current = k]
           x == eb_delete(c, lb.offset, lb.size)
<1>0. /\ WellFormed(e) /\ e.text \in Seq(Byte) /\ e.log \in Seq(LogEntry)
      /\ lb \in LogEntry /\ lb.offset \in Nat /\ lb.size \in Nat
      /\ k \in Nat /\ k <= Len(e.log)
      /\ LOGOP_INSERT # LOGOP_DELETE /\ LOGOP_DELETE # LOGOP_WRITE
      /\ LOGOP_DELETE \in LogOperation
  <2>1. WellFormed(e) /\ e.text \in Seq(Byte) /\ e.log \in Seq(LogEntry)
    BY DEF Sound, WellFormed, Buffer
  <2>2. lb \in LogEntry
    BY <2>1
  <2>3. lb.offset \in Nat /\ lb.size \in Nat
    BY <2>2 DEF LogEntry
  <2> QED
    BY <2>1, <2>2, <2>3, Operations
<1>1. /\ lb.offset + lb.size <= Len(e.text)
      /\ DeleteText(e.text, lb.offset, lb.size) = lb.before
  <2>1. EntrySound(e, k)
    BY DEF Sound
  <2> QED
    BY <1>0, <2>1 DEF EntrySound, Revert
<1>2. /\ WellFormed(c) /\ c.save_log = TRUE /\ c.text = e.text
      /\ c.log = e.log /\ c.overrun = e.overrun /\ c.log_current = k
      /\ c.modified = e.modified
  BY <1>0 DEF WellFormed, Buffer
<1> HIDE DEF c
<1>3. Sound(c) /\ Clean(c, f)
  BY <1>2 DEF Sound, EntrySound, TextAfter, Clean
<1>4. /\ Sound(x) /\ x.save_log = TRUE /\ Chained(x) /\ x.text = lb.before
      /\ x.overrun = e.overrun /\ Clean(x, f)
  <2>1. CASE lb.offset >= Len(e.text)
    <3>1. x = c /\ lb.size = 0
      BY <1>0, <1>1, <1>2, <2>1 DEF eb_delete
    <3>2. lb.before = e.text
      BY <1>0, <1>1, <3>1, EmptyEdits
    <3> QED
      BY <1>2, <1>3, <3>1, <3>2 DEF Chained
  <2>2. CASE lb.offset < Len(e.text)
    <3> DEFINE n == NewEntry(c, LOGOP_DELETE, lb.offset, lb.size, c.text)
    <3>1. Edited(c, x, n, lb.before)
      <4>1. /\ lb.offset \in Nat /\ lb.size \in Nat
            /\ lb.offset < Len(c.text)
            /\ lb.offset + lb.size <= Len(c.text)
            /\ DeleteText(c.text, lb.offset, lb.size) = lb.before
        BY <1>0, <1>1, <1>2, <2>2
      <4> HIDE DEF lb
      <4>2. Edited(c, x, n, DeleteText(c.text, lb.offset, lb.size))
        BY <1>2, <1>3, <4>1, DeleteSound
      <4> QED
        BY <4>1, <4>2
    <3>2. /\ n \in LogEntry /\ n.op = LOGOP_DELETE /\ n.before = e.text
          /\ n.was_modified = e.modified
      <4>1. IsEntry(n, c, LOGOP_DELETE, lb.offset, lb.size, c.text)
        BY <1>0, <1>1, <1>2, NewEntryType
      <4> HIDE DEF n
      <4> QED
        BY <1>2, <4>1 DEF IsEntry
    <3> HIDE DEF n, x
    <3>3. /\ Sound(x) /\ x.save_log = TRUE /\ x.text = lb.before
          /\ x.overrun = e.overrun /\ x.log = Logged(c, n)
          /\ x.modified = TRUE
          /\ x.log_current = IF Len(e.log) >= NbLogsMax - 1 /\ k > 1
                             THEN k - 1 ELSE k
      BY <1>2, <3>1 DEF Edited
    <3>4. Clean(x, f)
      <4>1. WellFormed(x) /\ (n.was_modified = FALSE => n.before = f)
        BY <3>2, <3>3 DEF Sound, Clean
      <4> QED
        BY <1>0, <1>2, <1>3, <3>2, <3>3, <4>1, LoggedClean
    <3>5. Chained(x)
      BY <1>0, <1>2, <3>2, <3>3, LogAssumption DEF Chained, Logged
    <3> QED
      BY <3>3, <3>4, <3>5
  <2>3. lb.offset >= Len(e.text) \/ lb.offset < Len(e.text)
    BY <1>0
  <2> HIDE DEF x
  <2> QED
    BY <2>1, <2>2, <2>3
<1>5. \A i \in 1..Len(x.log) :
        /\ x.log[i].op # LOGOP_WRITE
        /\ x.log[i].was_modified = FALSE => x.log[i].before = f
  BY <1>4 DEF Clean
<1>6. lb.was_modified = FALSE => lb.before = f
  BY DEF Clean
<1>7. UndoEntry(e, w, k)
        = [SetOffset(x, w, lb.offset) EXCEPT !.modified = lb.was_modified]
  BY <1>0 DEF UndoEntry, c
<1> HIDE DEF x, lb
<1>8. Undone(e, [SetOffset(x, w, lb.offset) EXCEPT !.modified = lb.was_modified],
             lb, f)
  BY <1>0, <1>4, <1>5, <1>6, UndoLast
<1> QED
  BY <1>7, <1>8 DEF lb

(* Undo of a deletion.                                                     *)
LEMMA UndoDelete ==
    ASSUME NEW e, Sound(e), e.save_log = TRUE, e.overrun = FALSE,
           NEW f, Clean(e, f),
           NEW k \in 1..Len(e.log), e.text = TextAfter(e, k),
           e.log[k].op = LOGOP_DELETE, NEW w \in Window
    PROVE  Undone(e, UndoEntry(e, w, k), e.log[k], f)
<1> DEFINE lb == e.log[k]
           u == [[e EXCEPT !.log_current = k] EXCEPT !.save_log = FALSE]
           x == eb_insert_buffer(u, lb.offset, lb.data)
           y == [x EXCEPT !.save_log = TRUE]
           n == NewEntry(y, LOGOP_INSERT, lb.offset, lb.size, e.text)
           z == eb_addlog(y, LOGOP_INSERT, lb.offset, lb.size, e.text)
<1>0. /\ WellFormed(e) /\ e.text \in Seq(Byte) /\ e.log \in Seq(LogEntry)
      /\ lb \in LogEntry /\ lb.offset \in Nat /\ lb.size \in Nat
      /\ lb.data \in Seq(Byte) /\ k \in Nat /\ k <= Len(e.log)
      /\ LOGOP_INSERT # LOGOP_DELETE /\ LOGOP_INSERT # LOGOP_WRITE
      /\ LOGOP_INSERT \in LogOperation /\ lb.op = LOGOP_DELETE
  <2>1. WellFormed(e) /\ e.text \in Seq(Byte) /\ e.log \in Seq(LogEntry)
    BY DEF Sound, WellFormed, Buffer
  <2>2. lb \in LogEntry
    BY <2>1
  <2>3. lb.offset \in Nat /\ lb.size \in Nat /\ lb.data \in Seq(Byte)
    BY <2>2 DEF LogEntry
  <2> QED
    BY <2>1, <2>2, <2>3, Operations
<1>1. /\ lb.offset <= Len(e.text) /\ Len(lb.data) = lb.size
      /\ InsertText(e.text, lb.offset, lb.data) = lb.before
  <2>1. EntrySound(e, k)
    BY DEF Sound
  <2>2. Len(lb.data) = lb.size
    BY <1>0 DEF LogEntry
  <2> QED
    BY <1>0, <2>1, <2>2 DEF EntrySound, Revert
<1>13. lb.was_modified = FALSE => lb.before = f
  BY DEF Clean
<1> HIDE DEF lb
<1>2. /\ WellFormed(u) /\ u.save_log = FALSE /\ u.text = e.text
      /\ u.log = e.log /\ u.overrun = e.overrun /\ u.log_current = k
      /\ u.modified = e.modified
  BY <1>0 DEF WellFormed, Buffer
<1> HIDE DEF u
<1>3. /\ WellFormed(x) /\ x.text = lb.before /\ x.log = e.log
      /\ x.overrun = e.overrun /\ x.log_current = k
      /\ x.modified = TRUE \/ x.modified = e.modified
  <2>1. CASE Len(lb.data) = 0
    <3>1. x = u
      BY <2>1 DEF eb_insert_buffer
    <3>2. lb.before = e.text
      BY <1>0, <1>1, <2>1, EmptyEdits
    <3> QED
      BY <1>2, <3>1, <3>2
  <2>2. CASE Len(lb.data) # 0
    <3> DEFINE l == eb_addlog(u, LOGOP_INSERT, lb.offset, Len(lb.data), e.text)
    <3>1. x = [l EXCEPT !.text = lb.before]
      BY <1>0, <1>1, <1>2, <2>2 DEF eb_insert_buffer, eb_insert
    <3>2. /\ WellFormed(l) /\ l.log = u.log /\ l.modified = TRUE
          /\ l.log_current = u.log_current /\ l.overrun = u.overrun
      <4>1. Len(lb.data) \in Nat
        BY <1>0
      <4>2. NotLogged(u, l)
        BY <1>0, <1>2, <4>1, AddLogOff
      <4> HIDE DEF l
      <4> QED
        BY <4>2 DEF NotLogged
    <3>3. lb.before \in Seq(Byte)
      BY <1>0 DEF LogEntry
    <3> HIDE DEF l
    <3> QED
      BY <1>2, <3>1, <3>2, <3>3 DEF WellFormed, Buffer
  <2> HIDE DEF x
  <2> QED
    BY <2>1, <2>2
<1> HIDE DEF x
<1>4. /\ WellFormed(y) /\ y.text = lb.before /\ y.log = e.log
      /\ y.overrun = FALSE /\ y.log_current = k /\ y.save_log = TRUE
      /\ y.modified = TRUE \/ y.modified = e.modified
  BY <1>3 DEF WellFormed, Buffer
<1>5. UndoEntry(e, w, k)
        = [SetOffset(z, w, lb.offset + lb.size) EXCEPT !.modified = lb.was_modified]
  BY <1>0, <1>4 DEF UndoEntry, Relog, u, x, lb
<1> HIDE DEF y
<1>6. LogAdded(y, z, n)
  BY <1>0, <1>4, AddLogOn
<1>7. /\ n \in LogEntry /\ n.op = LOGOP_INSERT /\ n.offset = lb.offset
      /\ n.size = lb.size /\ n.before = e.text /\ n.was_modified = y.modified
  <2>1. IsEntry(n, y, LOGOP_INSERT, lb.offset, lb.size, e.text)
    BY <1>0, <1>4, NewEntryType
  <2> HIDE DEF n
  <2> QED
    BY <2>1 DEF IsEntry
<1> HIDE DEF n, z
<1>8. /\ WellFormed(z) /\ z.text = lb.before /\ z.modified = TRUE
      /\ z.save_log = TRUE /\ z.overrun = e.overrun /\ z.log = Logged(e, n)
      /\ z.log_current = IF Len(e.log) >= NbLogsMax - 1 /\ k > 1
                         THEN k - 1 ELSE k
  BY <1>4, <1>6 DEF LogAdded, Logged
<1>9. Sound(z)
  <2>1. /\ Len(z.log) \in 1..Len(z.log) /\ z.log[Len(z.log)] = n
    BY <1>0, <1>7, <1>8, LogAssumption DEF Logged, WellFormed, Buffer
  <2>2. TextAfter(z, Len(z.log)) = lb.before
    BY <1>8, <2>1 DEF TextAfter
  <2>3. /\ Len(lb.before) = Len(e.text) + lb.size
        /\ DeleteText(lb.before, lb.offset, lb.size) = e.text
    <3>1. Len(InsertText(e.text, lb.offset, lb.data))
            = Len(e.text) + Len(lb.data)
      <4>1. /\ e.text \in Seq(Byte) /\ lb.offset \in Nat
            /\ lb.data \in Seq(Byte) /\ lb.offset <= Len(e.text)
        BY <1>0, <1>1
      <4> HIDE DEF lb
      <4> QED
        BY <4>1, InsertType
    <3>2. DeleteText(InsertText(e.text, lb.offset, lb.data), lb.offset,
                     Len(lb.data)) = e.text
      BY <1>0, <1>1, DeleteInserted
    <3> QED
      BY <1>1, <3>1, <3>2
  <2>4. EntrySound(z, Len(z.log))
    BY <1>0, <1>1, <1>7, <2>1, <2>2, <2>3 DEF EntrySound, Revert
  <2> QED
    BY <1>7, <1>8, <2>4, AppendSound
<1>10. Clean(z, f)
  <2>1. n.was_modified = FALSE => n.before = f
    BY <1>4, <1>7 DEF Clean
  <2> QED
    BY <1>0, <1>7, <1>8, <2>1, LoggedClean
<1>11. Chained(z)
  <2>1. lb = e.log[k]
    BY DEF lb
  <2> QED
    BY <1>0, <1>7, <1>8, <2>1, LogAssumption DEF Chained, Logged
<1>12. \A i \in 1..Len(z.log) :
        /\ z.log[i].op # LOGOP_WRITE
        /\ z.log[i].was_modified = FALSE => z.log[i].before = f
  BY <1>10 DEF Clean
<1>14. lb.offset + lb.size \in Nat
  BY <1>0
<1>15. Undone(e, [SetOffset(z, w, lb.offset + lb.size)
                   EXCEPT !.modified = lb.was_modified], lb, f)
  BY <1>0, <1>8, <1>9, <1>11, <1>12, <1>13, <1>14, UndoLast
<1> QED
  BY <1>5, <1>15 DEF lb

---------------------------------------------------------------------------
(* Type correctness.                                                       *)

(* r is a buffer that logs if and only if e does.                          *)
Typed(e, r) == WellFormed(r) /\ r.save_log = e.save_log

(* eb_addlog yields a buffer, with the same text.                          *)
LEMMA TypedAddLog ==
    ASSUME NEW e, WellFormed(e), NEW op \in LogOperation,
           NEW offset \in Nat, NEW size \in Nat, NEW before \in Seq(Byte),
           op # LOGOP_INSERT => size = 0 \/ offset + size <= Len(e.text)
    PROVE  LET r == eb_addlog(e, op, offset, size, before)
           IN  Typed(e, r) /\ r.text = e.text /\ r.overrun = e.overrun
<1> DEFINE r == eb_addlog(e, op, offset, size, before)
           n == NewEntry(e, op, offset, size, before)
<1>1. CASE e.save_log = TRUE
  <2>1. LogAdded(e, r, n)
    BY <1>1, AddLogOn
  <2> HIDE DEF r, n
  <2>2. Typed(e, r) /\ r.text = e.text /\ r.overrun = e.overrun
    BY <2>1 DEF LogAdded, Typed
  <2> QED
    BY <2>2 DEF r
<1>2. CASE e.save_log = FALSE
  <2>1. NotLogged(e, r)
    BY <1>2, AddLogOff
  <2> HIDE DEF r
  <2>2. Typed(e, r) /\ r.text = e.text /\ r.overrun = e.overrun
    BY <2>1 DEF NotLogged, Typed
  <2> QED
    BY <2>2 DEF r
<1>3. e.save_log = TRUE \/ e.save_log = FALSE
  BY DEF WellFormed, Buffer
<1> QED
  BY <1>1, <1>2, <1>3

(* An overrun buffer is a buffer.                                          *)
LEMMA TypedOverrun ==
    ASSUME NEW e, WellFormed(e) PROVE Typed(e, Overrun(e))
BY DEF Overrun, WellFormed, Buffer, Typed

(* Moving an offset yields a buffer.                                       *)
LEMMA TypedSetOffset ==
    ASSUME NEW e, WellFormed(e), NEW p \in Pointer, NEW o \in Nat
    PROVE  Typed(e, SetOffset(e, p, o))
BY DEF SetOffset, WellFormed, Buffer, Typed

(* Replacing the text of a buffer by another text.                         *)
LEMMA TypedText ==
    ASSUME NEW e, NEW l, Typed(e, l), NEW t \in Seq(Byte)
    PROVE  /\ Typed(e, [l EXCEPT !.text = t])
           /\ [l EXCEPT !.text = t].text = t
           /\ [l EXCEPT !.text = t].overrun = l.overrun
BY DEF WellFormed, Buffer, Typed

(* eb_insert yields a buffer, longer by the bytes inserted unless it       *)
(* overran.                                                                *)
LEMMA TypedInsert ==
    ASSUME NEW e, WellFormed(e), NEW offset \in Nat, NEW d \in Seq(Byte)
    PROVE  LET r == eb_insert(e, offset, d)
           IN  /\ Typed(e, r)
               /\ r.overrun = FALSE => /\ e.overrun = FALSE
                                       /\ offset <= Len(e.text)
                                       /\ Len(r.text) = Len(e.text) + Len(d)
<1> DEFINE r == eb_insert(e, offset, d)
           l == eb_addlog(e, LOGOP_INSERT, offset, Len(d), e.text)
           t == InsertText(e.text, offset, d)
<1>1. /\ e.text \in Seq(Byte) /\ Len(d) \in Nat
      /\ LOGOP_INSERT \in LogOperation
  BY Operations DEF WellFormed, Buffer
<1>2. CASE offset <= Len(e.text)
  <2>1. Typed(e, l) /\ l.overrun = e.overrun
    BY <1>1, TypedAddLog
  <2>2. t \in Seq(Byte) /\ Len(t) = Len(e.text) + Len(d)
    BY <1>1, <1>2, InsertType
  <2>3. r = [l EXCEPT !.text = t]
    BY <1>1, <1>2 DEF eb_insert
  <2> HIDE DEF l, t, r
  <2>4. Typed(e, r) /\ r.text = t /\ r.overrun = l.overrun
    BY <2>1, <2>2, <2>3, TypedText
  <2> QED
    BY <1>2, <2>1, <2>2, <2>4 DEF r
<1>3. CASE offset > Len(e.text)
  <2>1. r = Overrun(e)
    BY <1>1, <1>3 DEF eb_insert
  <2>2. Overrun(e).overrun = TRUE
    BY DEF Overrun, WellFormed, Buffer
  <2> HIDE DEF r
  <2> QED
    BY <2>1, <2>2, TypedOverrun DEF r
<1>4. offset <= Len(e.text) \/ offset > Len(e.text)
  BY <1>1
<1> QED
  BY <1>2, <1>3, <1>4

(* eb_insert_buffer yields a buffer that contains the bytes inserted.      *)
LEMMA TypedInsertBuffer ==
    ASSUME NEW e, WellFormed(e), NEW offset \in Nat, NEW d \in Seq(Byte)
    PROVE  LET r == eb_insert_buffer(e, offset, d)
           IN  /\ Typed(e, r)
               /\ r.overrun = FALSE => Len(d) = 0 \/ offset + Len(d) <= Len(r.text)
<1> DEFINE r == eb_insert_buffer(e, offset, d)
<1>1. CASE Len(d) = 0
  BY <1>1 DEF eb_insert_buffer, Typed
<1>2. CASE Len(d) # 0
  <2>1. r = eb_insert(e, offset, d)
    BY <1>2 DEF eb_insert_buffer
  <2>2. /\ Typed(e, r)
        /\ r.overrun = FALSE => /\ offset <= Len(e.text)
                                /\ Len(r.text) = Len(e.text) + Len(d)
    BY <2>1, TypedInsert
  <2>3. Len(e.text) \in Nat /\ Len(d) \in Nat
    BY DEF WellFormed, Buffer
  <2> HIDE DEF r
  <2>4. r.overrun = FALSE => offset + Len(d) <= Len(r.text)
    BY <2>2, <2>3
  <2> QED
    BY <2>2, <2>4 DEF r
<1> QED
  BY <1>1, <1>2

(* eb_delete yields a buffer.                                              *)
LEMMA TypedDelete ==
    ASSUME NEW e, WellFormed(e), NEW offset \in Nat, NEW size \in Nat
    PROVE  Typed(e, eb_delete(e, offset, size))
<1> DEFINE r == eb_delete(e, offset, size)
           l == eb_addlog(e, LOGOP_DELETE, offset, size, e.text)
           t == DeleteText(e.text, offset, size)
<1>1. e.text \in Seq(Byte) /\ LOGOP_DELETE \in LogOperation
  BY Operations DEF WellFormed, Buffer
<1>2. CASE offset >= Len(e.text)
  BY <1>2 DEF eb_delete, Typed
<1>3. CASE offset < Len(e.text) /\ offset + size > Len(e.text)
  <2>1. r = Overrun(e)
    BY <1>1, <1>3 DEF eb_delete
  <2> HIDE DEF r
  <2> QED
    BY <2>1, TypedOverrun DEF r
<1>4. CASE offset < Len(e.text) /\ offset + size <= Len(e.text)
  <2>1. Typed(e, l)
    BY <1>1, <1>4, TypedAddLog
  <2>2. t \in Seq(Byte)
    BY <1>1, <1>4, DeleteType
  <2>3. r = [l EXCEPT !.text = t]
    BY <1>1, <1>4 DEF eb_delete
  <2> HIDE DEF l, t, r
  <2> QED
    BY <2>1, <2>2, <2>3, TypedText DEF r
<1> QED
  BY <1>1, <1>2, <1>3, <1>4

(* eb_write yields a buffer.                                               *)
LEMMA TypedWrite ==
    ASSUME NEW e, WellFormed(e), NEW offset \in Nat, NEW d \in Seq(Byte)
    PROVE  Typed(e, eb_write(e, offset, d))
<1> DEFINE inside == IF offset + Len(d) > Len(e.text)
                     THEN Len(e.text) - offset ELSE Len(d)
           l == eb_addlog(e, LOGOP_WRITE, offset, inside, e.text)
           t == WriteText(e.text, offset, Extract(d, 0, inside))
           x == [l EXCEPT !.text = t]
           rest == Extract(d, inside, Len(d) - inside)
<1>1. /\ e.text \in Seq(Byte) /\ Len(d) \in Nat /\ Len(e.text) \in Nat
      /\ LOGOP_WRITE \in LogOperation
  BY Operations DEF WellFormed, Buffer
<1>2. CASE offset >= Len(e.text)
  <2>1. eb_write(e, offset, d) = eb_insert(e, offset, d)
    BY <1>2 DEF eb_write
  <2> QED
    BY <2>1, TypedInsert
<1>3. CASE offset < Len(e.text)
  <2>1. /\ inside \in Nat /\ offset + inside <= Len(e.text)
        /\ inside <= Len(d) /\ Len(d) - inside \in Nat
        /\ offset + inside \in Nat
    BY <1>1, <1>3
  <2>2. eb_write(e, offset, d) = IF inside = Len(d) THEN x
                                 ELSE eb_insert(x, offset + inside, rest)
    BY <1>1, <1>3 DEF eb_write
  <2> HIDE DEF inside
  <2>3. Typed(e, l)
    BY <1>1, <2>1, TypedAddLog
  <2>4. Extract(d, 0, inside) \in Seq(Byte) /\ Len(Extract(d, 0, inside)) = inside
    BY <2>1, <1>1, ExtractType
  <2>5. t \in Seq(Byte)
    BY <1>1, <2>1, <2>4, WriteType
  <2>6. rest \in Seq(Byte)
    BY <1>1, <2>1, ExtractType
  <2> HIDE DEF l, t, rest
  <2>7. Typed(e, x)
    BY <2>3, <2>5, TypedText
  <2> HIDE DEF x
  <2>8. Typed(x, eb_insert(x, offset + inside, rest))
    BY <2>1, <2>6, <2>7, TypedInsert DEF Typed
  <2> QED
    BY <2>2, <2>7, <2>8 DEF Typed
<1>4. offset >= Len(e.text) \/ offset < Len(e.text)
  BY <1>1
<1> QED
  BY <1>2, <1>3, <1>4

(* Logging the inverse of what an undo restored yields a buffer.           *)
LEMMA TypedRelog ==
    ASSUME NEW e, WellFormed(e), e.save_log = TRUE, NEW x, WellFormed(x),
           NEW op \in LogOperation, NEW lb \in LogEntry,
           lb.offset \in Nat, lb.size \in Nat,
           x.overrun = FALSE => lb.size = 0 \/ lb.offset + lb.size <= Len(x.text)
    PROVE  Typed(e, Relog(x, op, lb, e.text))
<1> DEFINE y == [x EXCEPT !.save_log = TRUE]
<1>1. /\ WellFormed(y) /\ y.save_log = e.save_log /\ y.text = x.text
      /\ y.overrun = x.overrun /\ y.overrun \in BOOLEAN
      /\ e.text \in Seq(Byte)
  BY DEF WellFormed, Buffer
<1>2. Relog(x, op, lb, e.text)
        = IF y.overrun THEN y
          ELSE eb_addlog(y, op, lb.offset, lb.size, e.text)
  BY DEF Relog
<1> HIDE DEF y
<1>3. CASE y.overrun = TRUE
  BY <1>1, <1>2, <1>3 DEF Typed
<1>4. CASE y.overrun = FALSE
  <2>1. Typed(y, eb_addlog(y, op, lb.offset, lb.size, e.text))
    BY <1>1, <1>4, TypedAddLog
  <2> QED
    BY <1>1, <1>2, <1>4, <2>1 DEF Typed
<1> QED
  BY <1>1, <1>3, <1>4

(* Undo yields a buffer, whatever the entry.                               *)
LEMMA TypedUndo ==
    ASSUME NEW e, WellFormed(e), e.save_log = TRUE, NEW k \in 1..Len(e.log),
           NEW w \in Window
    PROVE  Typed(e, UndoEntry(e, w, k))
<1> DEFINE lb == e.log[k]
           c == [e EXCEPT !.log_current = k]
           u == [c EXCEPT !.save_log = FALSE]
           relog(x, op) == Relog(x, op, lb, e.text)
           last(x, o) == [SetOffset(x, w, o) EXCEPT !.modified = lb.was_modified]
           xi == eb_delete(c, lb.offset, lb.size)
           xd == eb_insert_buffer(u, lb.offset, lb.data)
           xw == eb_insert_buffer(eb_delete(u, lb.offset, lb.size),
                                  lb.offset, lb.data)
<1>1. e.log \in Seq(LogEntry) /\ lb \in LogEntry
  BY DEF WellFormed, Buffer
<1>2. /\ lb.offset \in Nat /\ lb.size \in Nat /\ lb.data \in Seq(Byte)
      /\ lb.was_modified \in BOOLEAN /\ lb.op \in LogOperation
      /\ lb.op # LOGOP_INSERT => Len(lb.data) = lb.size
      /\ lb.offset + lb.size \in Nat
  <2> HIDE DEF lb
  <2>1. /\ lb.offset \in Nat /\ lb.size \in Nat /\ lb.data \in Seq(Byte)
        /\ lb.was_modified \in BOOLEAN /\ lb.op \in LogOperation
        /\ lb.op # LOGOP_INSERT => Len(lb.data) = lb.size
    BY <1>1 DEF LogEntry
  <2> QED
    BY <2>1
<1>3. UndoEntry(e, w, k) =
        IF lb.op = LOGOP_INSERT THEN last(xi, lb.offset)
        ELSE IF lb.op = LOGOP_DELETE
        THEN last(relog(xd, LOGOP_INSERT), lb.offset + lb.size)
        ELSE last(relog(xw, LOGOP_WRITE), lb.offset + lb.size)
  BY DEF UndoEntry
<1>4. /\ WellFormed(c) /\ c.save_log = TRUE
      /\ WellFormed(u) /\ u.save_log = FALSE
  <2>1. k \in Nat /\ k <= Len(e.log)
    BY <1>1
  <2>2. WellFormed(c) /\ c.save_log = TRUE
    BY <2>1 DEF WellFormed, Buffer
  <2> HIDE DEF c
  <2>3. WellFormed(u) /\ u.save_log = FALSE
    BY <2>2 DEF WellFormed, Buffer
  <2> QED
    BY <2>2, <2>3
<1>5. /\ LOGOP_INSERT \in LogOperation /\ LOGOP_DELETE \in LogOperation
      /\ LOGOP_WRITE \in LogOperation
      /\ LOGOP_INSERT # LOGOP_DELETE
  BY Operations
<1> HIDE DEF c, u, lb
<1>6. ASSUME NEW x, Typed(e, x), NEW o \in Nat PROVE Typed(e, last(x, o))
  <2>1. Typed(x, SetOffset(x, w, o))
    BY <1>6, TypedSetOffset DEF Typed, Pointer
  <2> QED
    BY <1>2, <1>6, <2>1 DEF Typed, WellFormed, Buffer
<1>7. CASE lb.op = LOGOP_INSERT
  <2>1. Typed(e, xi)
    BY <1>2, <1>4, TypedDelete DEF Typed
  <2> HIDE DEF xi, last
  <2> QED
    BY <1>2, <1>3, <1>6, <1>7, <2>1
<1>8. CASE lb.op = LOGOP_DELETE
  <2>1. WellFormed(xd)
        /\ (xd.overrun = FALSE => lb.size = 0 \/ lb.offset + lb.size <= Len(xd.text))
    BY <1>2, <1>4, <1>5, <1>8, TypedInsertBuffer DEF Typed
  <2> HIDE DEF xd
  <2>2. Typed(e, relog(xd, LOGOP_INSERT))
    BY <1>1, <1>2, <1>5, <2>1, TypedRelog
  <2> HIDE DEF relog, last
  <2> QED
    BY <1>2, <1>3, <1>5, <1>6, <1>8, <2>2
<1>9. CASE lb.op # LOGOP_INSERT /\ lb.op # LOGOP_DELETE
  <2>1. WellFormed(eb_delete(u, lb.offset, lb.size))
    BY <1>2, <1>4, TypedDelete DEF Typed
  <2>2. WellFormed(xw)
        /\ (xw.overrun = FALSE => lb.size = 0 \/ lb.offset + lb.size <= Len(xw.text))
    BY <1>2, <1>9, <2>1, TypedInsertBuffer DEF Typed
  <2> HIDE DEF xw
  <2>3. Typed(e, relog(xw, LOGOP_WRITE))
    BY <1>1, <1>2, <1>5, <2>2, TypedRelog
  <2> HIDE DEF relog, last
  <2> QED
    BY <1>2, <1>3, <1>6, <1>9, <2>3
<1> QED
  BY <1>7, <1>8, <1>9

(* What the actions need of TypeOK.                                        *)
LEMMA TypeFacts ==
    ASSUME TypeOK
    PROVE  /\ WellFormed(b) /\ b.save_log = TRUE
           /\ b.text \in Seq(Byte) /\ Len(b.text) \in Nat
           /\ b.overrun \in BOOLEAN
           /\ yank \in Seq(Byte) /\ Len(yank) \in Nat
           /\ \A p \in Pointer : b.offsets[p] \in Nat
           /\ "mark" \in Pointer /\ Window \subseteq Pointer
BY DEF TypeOK, WellFormed, Buffer, Pointer

(* A step that yields a buffer, and texts for yank and disk, keeps TypeOK. *)
LEMMA TypeStep ==
    ASSUME TypeOK, Typed(b, b'), readonly' \in BOOLEAN,
           insert' \in [Window -> BOOLEAN], yank' \in Seq(Byte),
           last_undo' \in BOOLEAN, disk' \in Seq(Byte)
    PROVE  TypeOK'
BY DEF TypeOK, Typed, WellFormed

(* The offsets of a buffer are natural numbers.                            *)
LEMMA TypedOffset ==
    ASSUME NEW e, NEW r, Typed(e, r), NEW p \in Pointer
    PROVE  r.offsets[p] \in Nat
BY DEF Typed, WellFormed, Buffer

(* Typed composes.                                                         *)
LEMMA TypedTrans ==
    ASSUME NEW e, NEW r, Typed(e, r), NEW x, Typed(r, x)
    PROVE  Typed(e, x)
BY DEF Typed

(* Where kill-line stops is an offset of the text.                         *)
LEMMA KillLineEndType ==
    ASSUME NEW t \in Seq(Byte), NEW o \in Nat
    PROVE  /\ KillLineEnd(t, o) \subseteq Nat
           /\ LineEnd(t, o) \subseteq o..Len(t)
BY DEF KillLineEnd, LineEnd

(* Every step of the editor keeps TypeOK.                                  *)
LEMMA TypeNext == TypeOK /\ [Next]_vars => TypeOK'
<1> SUFFICES ASSUME TypeOK, [Next]_vars PROVE TypeOK'
  OBVIOUS
<1>0. /\ readonly \in BOOLEAN /\ insert \in [Window -> BOOLEAN]
      /\ yank \in Seq(Byte) /\ last_undo \in BOOLEAN /\ disk \in Seq(Byte)
      /\ Typed(b, b) /\ NL \in Byte
  BY TypeFacts, ByteAssumption DEF TypeOK, Typed
<1>1. ASSUME NEW name, Issue(name) PROVE last_undo' \in BOOLEAN
  BY <1>1 DEF Issue
<1>2. ASSUME NEW e, WellFormed(e), NEW w \in Window, NEW o \in Nat
      PROVE  Typed(e, SetOffset(e, w, o))
  BY <1>2, TypedSetOffset DEF Pointer
<1>3. ASSUME NEW w \in Window, Move(w) PROVE TypeOK'
  <2>1. Typed(b, b')
    BY <1>2, <1>3, TypeFacts DEF Move
  <2> QED
    BY <1>0, <1>1, <1>3, <2>1, TypeStep DEF Move
<1>4. ASSUME NEW w \in Window, NEW c \in Byte, do_char(w, c) PROVE TypeOK'
  <2>1. Typed(b, b')
    <3> DEFINE o == b.offsets[w]
               e1 == eb_insert(b, o, <<c>>)
               e2 == eb_write(b, o, <<c>>)
    <3>1. <<c>> \in Seq(Byte) /\ o \in Nat /\ w \in Pointer
      BY TypeFacts
    <3>2. Typed(b, e1) /\ Typed(b, e2)
      BY <3>1, TypeFacts, TypedInsert, TypedWrite
    <3>3. \/ b' = b
          \/ b' = SetOffset(e1, w, e1.offsets[w] + 1)
          \/ b' = SetOffset(e2, w, e2.offsets[w] + 1)
      BY <1>4 DEF do_char, Refused
    <3> HIDE DEF e1, e2
    <3>4. e1.offsets[w] + 1 \in Nat /\ e2.offsets[w] + 1 \in Nat
      BY <3>1, <3>2, TypedOffset
    <3>5. /\ Typed(b, SetOffset(e1, w, e1.offsets[w] + 1))
          /\ Typed(b, SetOffset(e2, w, e2.offsets[w] + 1))
      BY <1>2, <3>2, <3>4 DEF Typed
    <3> QED
      BY <1>0, <3>3, <3>5
  <2> QED
    BY <1>0, <1>1, <1>4, <2>1, TypeStep DEF do_char
<1>5. ASSUME NEW w \in Window, do_insert(w) PROVE TypeOK'
  BY <1>0, <1>1, <1>5, TypeStep DEF do_insert
<1>6. ASSUME NEW w \in Window, do_open_line(w) PROVE TypeOK'
  <2>1. Typed(b, b')
    <3>1. <<NL>> \in Seq(Byte) /\ b.offsets[w] \in Nat
      BY <1>0, TypeFacts
    <3> QED
      BY <1>0, <1>6, <3>1, TypeFacts, TypedInsert DEF do_open_line, Refused
  <2> QED
    BY <1>0, <1>1, <1>6, <2>1, TypeStep DEF do_open_line
<1>7. ASSUME NEW w \in Window, do_return(w) PROVE TypeOK'
  <2>1. Typed(b, b')
    <3> DEFINE e == IF readonly THEN b ELSE eb_insert(b, b.offsets[w], <<NL>>)
    <3>1. <<NL>> \in Seq(Byte) /\ b.offsets[w] \in Nat /\ w \in Pointer
      BY <1>0, TypeFacts
    <3>2. Typed(b, e)
      BY <1>0, <3>1, TypeFacts, TypedInsert
    <3>3. b' = SetOffset(e, w, e.offsets[w] + 1)
      BY <1>7 DEF do_return
    <3> HIDE DEF e
    <3>4. e.offsets[w] + 1 \in Nat
      BY <3>1, <3>2, TypedOffset
    <3> QED
      BY <1>2, <3>2, <3>3, <3>4 DEF Typed
  <2> QED
    BY <1>0, <1>1, <1>7, <2>1, TypeStep DEF do_return
<1>8. ASSUME NEW w \in Window, do_delete_char(w) PROVE TypeOK'
  <2>1. Typed(b, b')
    BY <1>8, TypeFacts, TypedDelete DEF do_delete_char
  <2> QED
    BY <1>0, <1>1, <1>8, <2>1, TypeStep DEF do_delete_char
<1>9. ASSUME NEW w \in Window, do_backspace(w) PROVE TypeOK'
  <2>1. Typed(b, b')
    <3> DEFINE o == b.offsets[w]
               e == eb_delete(b, o - 1, 1)
    <3>1. CASE o = 0
      BY <1>0, <1>9, <3>1 DEF do_backspace
    <3>2. CASE o # 0
      <4>1. o - 1 \in Nat
        BY <3>2, TypeFacts
      <4>2. Typed(b, e)
        BY <4>1, TypeFacts, TypedDelete
      <4>3. b' = SetOffset(e, w, o - 1)
        BY <1>9, <3>2 DEF do_backspace
      <4> HIDE DEF e, o
      <4> QED
        BY <1>2, <4>1, <4>2, <4>3 DEF Typed
    <3> QED
      BY <3>1, <3>2
  <2> QED
    BY <1>0, <1>1, <1>9, <2>1, TypeStep DEF do_backspace
<1>10. ASSUME NEW w \in Window, do_delete_word(w) PROVE TypeOK'
  <2>1. Typed(b, b')
    <3>1. CASE b' = b
      BY <1>0, <3>1
    <3>2. CASE b' # b
      <4> DEFINE start == b.offsets[w]
      <4>1. start \in Nat
        BY TypeFacts
      <4>2. PICK end \in 0..Len(b.text) \cup {start} :
               b' = IF start < end
                    THEN eb_delete(SetOffset(b, w, end), start, end - start)
                    ELSE eb_delete(SetOffset(b, w, end), end, start - end)
        BY <1>10, <3>2 DEF do_delete_word, Refused
      <4> DEFINE e == SetOffset(b, w, end)
      <4>3. end \in Nat
        BY <4>1, TypeFacts
      <4>4. Typed(b, e)
        BY <1>2, <4>3, TypeFacts
      <4> HIDE DEF e, start
      <4>5. b' = IF start < end THEN eb_delete(e, start, end - start)
                                ELSE eb_delete(e, end, start - end)
        BY <4>2 DEF e, start
      <4>6. CASE start < end
        <5>1. end - start \in Nat
          BY <4>1, <4>3, <4>6
        <5>2. Typed(e, b')
          BY <4>1, <4>4, <4>5, <4>6, <5>1, TypedDelete DEF Typed
        <5> QED
          BY <4>4, <5>2, TypedTrans
      <4>7. CASE ~(start < end)
        <5>1. start - end \in Nat
          BY <4>1, <4>3, <4>7
        <5>2. Typed(e, b')
          BY <4>3, <4>4, <4>5, <4>7, <5>1, TypedDelete DEF Typed
        <5> QED
          BY <4>4, <5>2, TypedTrans
      <4> QED
        BY <4>6, <4>7
    <3> QED
      BY <3>1, <3>2
  <2> QED
    BY <1>0, <1>1, <1>10, <2>1, TypeStep DEF do_delete_word
<1>11. ASSUME NEW w \in Window, do_transpose_char(w) PROVE TypeOK'
  <2>1. Typed(b, b')
    <3> DEFINE o == b.offsets[w]
               d == eb_delete(b, o - 1, 2)
               t == <<b.text[o + 1], b.text[o]>>
               e == eb_insert(d, d.offsets[w], t)
    <3>1. o \in Nat /\ w \in Pointer
      BY TypeFacts
    <3>2. CASE o = 0
      BY <1>0, <1>11, <3>2 DEF do_transpose_char
    <3>3. CASE o # 0 /\ o >= Len(b.text)
      <4>1. b' = Overrun(b)
        BY <1>11, <3>3 DEF do_transpose_char
      <4> QED
        BY <4>1, TypeFacts, TypedOverrun
    <3>4. CASE o # 0 /\ o < Len(b.text)
      <4>1. o - 1 \in Nat /\ t \in Seq(Byte)
        BY <3>1, <3>4, TypeFacts
      <4>2. Typed(b, d)
        BY <4>1, TypeFacts, TypedDelete
      <4>3. b' = SetOffset(e, w, o)
        BY <1>11, <3>1, <3>4, TypeFacts DEF do_transpose_char
      <4> HIDE DEF d, t
      <4>4. d.offsets[w] \in Nat
        BY <3>1, <4>2, TypedOffset
      <4>5. Typed(d, e)
        BY <4>1, <4>2, <4>4, TypedInsert DEF Typed
      <4> HIDE DEF e, o
      <4>6. Typed(e, b')
        BY <1>2, <3>1, <4>3, <4>5 DEF Typed
      <4> QED
        BY <4>2, <4>5, <4>6, TypedTrans
    <3>5. o >= Len(b.text) \/ o < Len(b.text)
      BY <3>1, TypeFacts
    <3> QED
      BY <3>2, <3>3, <3>4, <3>5
  <2> QED
    BY <1>0, <1>1, <1>11, <2>1, TypeStep DEF do_transpose_char
<1>12. ASSUME NEW w \in Window, do_set_mark(w) PROVE TypeOK'
  <2>1. Typed(b, b')
    BY <1>12, TypeFacts, TypedSetOffset DEF do_set_mark
  <2> QED
    BY <1>0, <1>1, <1>12, <2>1, TypeStep DEF do_set_mark
<1>13. ASSUME NEW w \in Window, do_exchange_point_and_mark(w) PROVE TypeOK'
  <2>1. Typed(b, b')
    <3> DEFINE e == SetOffset(b, "mark", b.offsets[w])
    <3>1. Typed(b, e)
      BY TypeFacts, TypedSetOffset
    <3>2. b' = SetOffset(e, w, b.offsets["mark"])
      BY <1>13 DEF do_exchange_point_and_mark
    <3> HIDE DEF e
    <3>3. Typed(e, b')
      BY <1>2, <3>1, <3>2, TypeFacts DEF Typed
    <3> QED
      BY <3>1, <3>3, TypedTrans
  <2> QED
    BY <1>0, <1>1, <1>13, <2>1, TypeStep DEF do_exchange_point_and_mark
<1>14. ASSUME NEW w \in Window, NEW kill \in 0..2, do_kill_region(w, kill)
       PROVE  TypeOK'
  <2>1. CASE Refused /\ UNCHANGED yank
    <3>1. Typed(b, b')
      BY <1>0, <2>1 DEF Refused
    <3> QED
      BY <1>0, <1>1, <1>14, <2>1, <3>1, TypeStep DEF do_kill_region
  <2>2. CASE ~(Refused /\ UNCHANGED yank)
    <3> DEFINE o == b.offsets[w]
    <3>1. o \in Nat /\ b.offsets["mark"] \in Nat
      BY TypeFacts
    <3>2. PICK m \in IF kill = 2 THEN KillLineEnd(b.text, o)
                                 ELSE {b.offsets["mark"]} :
            LET p1  == IF m > o THEN o ELSE m
                p2  == IF m > o THEN m ELSE o
                len == p2 - p1
            IN  IF len > 0 /\ p2 > Len(b.text)
                THEN b' = Overrun(b) /\ UNCHANGED yank
                ELSE /\ yank' = Extract(b.text, p1, len)
                     /\ b' = IF kill = 0 THEN b
                             ELSE SetOffset(eb_delete(b, p1, len), w, p1)
      BY <1>14, <2>2 DEF do_kill_region
    <3> DEFINE p1  == IF m > o THEN o ELSE m
               p2  == IF m > o THEN m ELSE o
               len == p2 - p1
               e   == eb_delete(b, p1, len)
    <3>3. m \in Nat
      BY <3>1, KillLineEndType, TypeFacts
    <3> HIDE DEF o
    <3>4. p1 \in Nat /\ len \in Nat /\ p2 = p1 + len
      BY <3>1, <3>3
    <3>5. \/ b' = Overrun(b) /\ UNCHANGED yank
          \/ /\ len = 0 \/ p1 + len <= Len(b.text)
             /\ yank' = Extract(b.text, p1, len)
             /\ b' = b \/ b' = SetOffset(e, w, p1)
      <4>1. \/ b' = Overrun(b) /\ UNCHANGED yank
            \/ /\ ~(len > 0 /\ p2 > Len(b.text))
               /\ yank' = Extract(b.text, p1, len)
               /\ b' = b \/ b' = SetOffset(e, w, p1)
        BY <3>2 DEF o
      <4> HIDE DEF p1, p2, len, e
      <4>2. Len(b.text) \in Nat /\ p2 \in Nat
        BY <3>4, TypeFacts
      <4> QED
        BY <3>4, <4>1, <4>2
    <3> HIDE DEF p1, len
    <3>6. Typed(b, e)
      BY <3>4, TypeFacts, TypedDelete
    <3> HIDE DEF e
    <3>7. Typed(b, b')
      <4>1. Typed(b, Overrun(b))
        BY TypeFacts, TypedOverrun
      <4>2. Typed(b, SetOffset(e, w, p1))
        BY <1>2, <3>4, <3>6 DEF Typed
      <4> QED
        BY <1>0, <3>5, <4>1, <4>2
    <3>8. yank' \in Seq(Byte)
      <4>1. len = 0 \/ p1 + len <= Len(b.text)
              => Extract(b.text, p1, len) \in Seq(Byte)
        BY <3>4, TypeFacts, ExtractType
      <4> QED
        BY <1>0, <3>5, <4>1
    <3> QED
      BY <1>0, <1>1, <1>14, <3>7, <3>8, TypeStep DEF do_kill_region
  <2> QED
    BY <2>1, <2>2
<1>15. ASSUME NEW w \in Window, do_yank(w) PROVE TypeOK'
  <2>1. Typed(b, b')
    <3> DEFINE e == eb_insert_buffer(b, b.offsets[w], yank)
    <3>1. Typed(b, e)
      BY TypeFacts, TypedInsertBuffer
    <3>2. b' = b \/ b' = SetOffset(e, w, e.offsets[w] + Len(yank))
      BY <1>15 DEF do_yank, Refused
    <3> HIDE DEF e
    <3>3. e.offsets[w] + Len(yank) \in Nat
      <4>1. e.offsets[w] \in Nat /\ Len(yank) \in Nat
        BY <3>1, TypeFacts, TypedOffset
      <4> QED
        BY <4>1
    <3> QED
      BY <1>0, <1>2, <3>1, <3>2, <3>3 DEF Typed
  <2> QED
    BY <1>0, <1>1, <1>15, <2>1, TypeStep DEF do_yank
<1>16. ASSUME NEW w \in Window, do_undo(w) PROVE TypeOK'
  <2>1. Typed(b, b')
    <3> DEFINE k == UndoIndex(b, last_undo)
    <3>1. k \in 0..Len(b.log)
      BY TypeFacts DEF UndoIndex, WellFormed, Buffer
    <3>2. b' = IF Len(b.log) = 0 \/ k = 0 THEN b ELSE UndoEntry(b, w, k)
      BY <1>16 DEF do_undo
    <3> HIDE DEF k
    <3>3. CASE b' = b
      BY <1>0, <3>3
    <3>4. CASE b' # b
      <4>1. k \in 1..Len(b.log) /\ b' = UndoEntry(b, w, k)
        BY <3>1, <3>2, <3>4
      <4> QED
        BY <4>1, TypeFacts, TypedUndo
    <3> QED
      BY <3>3, <3>4
  <2> QED
    BY <1>0, <1>1, <1>16, <2>1, TypeStep DEF do_undo
<1>17. ASSUME do_toggle_read_only PROVE TypeOK'
  BY <1>0, <1>1, <1>17, TypeStep DEF do_toggle_read_only
<1>18. ASSUME do_save PROVE TypeOK'
  <2>1. Typed(b, b')
    <3>1. Typed(b, log_reset(b))
      <4> DEFINE r == log_reset(b)
      <4>1. b \in Buffer /\ << >> \in Seq(LogEntry)
        BY TypeFacts DEF WellFormed
      <4>2. /\ r \in Buffer /\ r.log = << >> /\ r.log_current = 0
            /\ r.save_log = b.save_log
        BY <4>1 DEF log_reset, Buffer
      <4> HIDE DEF r
      <4>3. r.log_current <= Len(r.log) /\ Len(r.log) < NbLogsMax
        BY <4>2, LogAssumption
      <4> QED
        BY <4>2, <4>3 DEF Typed, WellFormed, r
    <3> QED
      BY <1>0, <1>18, <3>1 DEF do_save
  <2>2. disk' \in Seq(Byte)
    BY <1>0, <1>18, TypeFacts DEF do_save
  <2> QED
    BY <1>0, <1>1, <1>18, <2>1, <2>2, TypeStep DEF do_save
<1>19. ASSUME do_save_fails PROVE TypeOK'
  <2>1. PICK n \in 0..(Len(b.text) - 1) : disk' = Extract(b.text, 0, n)
    BY <1>19 DEF do_save_fails
  <2>2. disk' \in Seq(Byte)
    BY <2>1, TypeFacts, ExtractType
  <2> QED
    BY <1>0, <1>1, <1>19, <2>2, TypeStep DEF do_save_fails
<1>20. ASSUME NEW o \in 0..Len(b.text), ProcessOutput(o) PROVE TypeOK'
  <2>1. Typed(b, b')
    <3>1. o \in Nat
      BY TypeFacts
    <3>2. \/ \E c \in Byte : \/ b' = eb_insert(b, o, <<c>>)
                             \/ b' = eb_write(b, o, <<c>>)
          \/ \E q \in RestOfLine(b.text, o) : b' = eb_delete(b, o, q - o)
      BY <1>20 DEF ProcessOutput
    <3>3. ASSUME NEW c \in Byte
          PROVE  /\ Typed(b, eb_insert(b, o, <<c>>))
                 /\ Typed(b, eb_write(b, o, <<c>>))
      <4>1. <<c>> \in Seq(Byte)
        OBVIOUS
      <4> QED
        BY <3>1, <4>1, TypeFacts, TypedInsert, TypedWrite
    <3>4. ASSUME NEW q \in RestOfLine(b.text, o)
          PROVE  Typed(b, eb_delete(b, o, q - o))
      <4>1. q - o \in Nat
        BY <3>1, TypeFacts DEF RestOfLine
      <4> QED
        BY <3>1, <4>1, TypeFacts, TypedDelete
    <3> QED
      BY <3>2, <3>3, <3>4
  <2> QED
    BY <1>0, <1>20, <2>1, TypeStep DEF ProcessOutput
<1>21. ASSUME Crashed \/ UNCHANGED vars PROVE TypeOK'
  BY <1>21 DEF Crashed, vars, TypeOK
<1> QED
  BY <1>3, <1>4, <1>5, <1>6, <1>7, <1>8, <1>9, <1>10, <1>11, <1>12, <1>13,
     <1>14, <1>15, <1>16, <1>17, <1>18, <1>19, <1>20, <1>21 DEF Next

(* A buffer that was just loaded is a buffer.                              *)
LEMMA TypeInit == Init => TypeOK
<1> SUFFICES ASSUME Init PROVE TypeOK
  OBVIOUS
<1>1. PICK t \in Texts :
        /\ b = [text |-> t, offsets |-> [p \in Pointer |-> 0],
                log |-> << >>, log_current |-> 0, save_log |-> TRUE,
                modified |-> FALSE, overrun |-> FALSE]
        /\ disk = t
  BY DEF Init
<1>2. t \in Seq(Byte)
  BY BoundAssumption DEF Texts
<1>3. << >> \in Seq(LogEntry) /\ [p \in Pointer |-> 0] \in [Pointer -> Nat]
  OBVIOUS
<1>4. /\ b \in Buffer /\ b.log = << >> /\ b.log_current = 0
      /\ b.save_log = TRUE
  BY <1>1, <1>2, <1>3 DEF Buffer
<1>5. /\ readonly = FALSE /\ insert = [w \in Window |-> TRUE]
      /\ yank = << >> /\ last_undo = FALSE
  BY DEF Init
<1>6. b.log_current <= Len(b.log) /\ Len(b.log) < NbLogsMax
  BY <1>4, LogAssumption
<1>7. << >> \in Seq(Byte) /\ disk \in Seq(Byte)
  BY <1>1, <1>2
<1> QED
  BY <1>4, <1>5, <1>6, <1>7 DEF TypeOK

(* Whatever is issued, in any order, the buffer stays a buffer: the undo   *)
(* log never holds NB_LOGS_MAX entries, log_current never points beyond    *)
(* its end, every entry holds the bytes it says it does, and logging is    *)
(* on again after each undo (eb_addlog and do_undo of buffer.c).           *)
THEOREM TypeCorrect == Spec => []TypeOK
<1>1. Init => TypeOK
  BY TypeInit
<1>2. TypeOK /\ [Next]_vars => TypeOK'
  BY TypeNext
<1> QED
  BY <1>1, <1>2, PTL DEF Spec

---------------------------------------------------------------------------
(* The undo log says the truth.                                            *)

(* The log of e is sound, and says the truth about the file contents f.    *)
Good(e, f) == Sound(e) /\ Clean(e, f) /\ e.save_log = TRUE

(* An operation that was logged, and not as a write, keeps Good.           *)
LEMMA GoodEdited ==
    ASSUME NEW e, NEW f, Good(e, f), NEW r, NEW op \in LogOperation,
           NEW offset \in Nat, NEW size \in Nat, NEW t, op # LOGOP_WRITE,
           op # LOGOP_INSERT => size = 0 \/ offset + size <= Len(e.text),
           Edited(e, r, NewEntry(e, op, offset, size, e.text), t)
    PROVE  Good(r, f)
<1> DEFINE n == NewEntry(e, op, offset, size, e.text)
<1>1. WellFormed(e) /\ e.text \in Seq(Byte)
  BY DEF Good, Sound, WellFormed, Buffer
<1>2. IsEntry(n, e, op, offset, size, e.text)
  BY <1>1, NewEntryType
<1>3. Edited(e, r, n, t)
  OBVIOUS
<1> HIDE DEF n
<1>4. /\ n \in LogEntry /\ n.op # LOGOP_WRITE
      /\ n.was_modified = FALSE => n.before = f
  BY <1>2 DEF IsEntry, Good, Clean
<1>5. /\ Sound(r) /\ WellFormed(r) /\ r.save_log = TRUE
      /\ r.log = Logged(e, n) /\ r.modified = TRUE
  BY <1>3 DEF Edited, Sound
<1>6. Clean(r, f)
  BY <1>1, <1>4, <1>5, LoggedClean DEF Good
<1> QED
  BY <1>5, <1>6 DEF Good

(* An overrun, or the move of an offset, keeps Good.                       *)
LEMMA GoodOverrun ==
    ASSUME NEW e, NEW f, Good(e, f) PROVE Good(Overrun(e), f)
BY OverrunSound DEF Good, Clean

(* The same for an offset that moves.                                      *)
LEMMA GoodSetOffset ==
    ASSUME NEW e, NEW f, Good(e, f), NEW p \in Pointer, NEW o \in Nat
    PROVE  Good(SetOffset(e, p, o), f)
BY SetOffsetSound DEF Good, Clean

(* eb_insert keeps Good.                                                   *)
LEMMA GoodInsert ==
    ASSUME NEW e, NEW f, Good(e, f), NEW offset \in Nat, NEW d \in Seq(Byte)
    PROVE  Good(eb_insert(e, offset, d), f)
<1>1. /\ Sound(e) /\ e.save_log = TRUE /\ Len(e.text) \in Nat /\ Len(d) \in Nat
      /\ LOGOP_INSERT \in LogOperation /\ LOGOP_INSERT # LOGOP_WRITE
  BY Operations DEF Good, Sound, WellFormed, Buffer
<1>2. CASE offset <= Len(e.text)
  <2>1. Edited(e, eb_insert(e, offset, d),
               NewEntry(e, LOGOP_INSERT, offset, Len(d), e.text),
               InsertText(e.text, offset, d))
    BY <1>1, <1>2, InsertSound
  <2> QED
    BY <1>1, <2>1, GoodEdited
<1>3. CASE offset > Len(e.text)
  <2>1. eb_insert(e, offset, d) = Overrun(e)
    BY <1>3 DEF eb_insert
  <2> QED
    BY <2>1, GoodOverrun
<1> QED
  BY <1>1, <1>2, <1>3

(* eb_insert_buffer keeps Good.                                            *)
LEMMA GoodInsertBuffer ==
    ASSUME NEW e, NEW f, Good(e, f), NEW offset \in Nat, NEW d \in Seq(Byte)
    PROVE  Good(eb_insert_buffer(e, offset, d), f)
BY GoodInsert DEF eb_insert_buffer

(* eb_delete keeps Good.                                                   *)
LEMMA GoodDelete ==
    ASSUME NEW e, NEW f, Good(e, f), NEW offset \in Nat, NEW size \in Nat
    PROVE  Good(eb_delete(e, offset, size), f)
<1>1. /\ Sound(e) /\ e.save_log = TRUE /\ Len(e.text) \in Nat
      /\ LOGOP_DELETE \in LogOperation /\ LOGOP_DELETE # LOGOP_WRITE
  BY Operations DEF Good, Sound, WellFormed, Buffer
<1>2. CASE offset >= Len(e.text)
  BY <1>2 DEF eb_delete
<1>3. CASE offset < Len(e.text) /\ offset + size > Len(e.text)
  <2>1. eb_delete(e, offset, size) = Overrun(e)
    BY <1>1, <1>3 DEF eb_delete
  <2> QED
    BY <2>1, GoodOverrun
<1>4. CASE offset < Len(e.text) /\ offset + size <= Len(e.text)
  <2>1. Edited(e, eb_delete(e, offset, size),
               NewEntry(e, LOGOP_DELETE, offset, size, e.text),
               DeleteText(e.text, offset, size))
    BY <1>1, <1>4, DeleteSound
  <2> QED
    BY <1>1, <1>4, <2>1, GoodEdited
<1> QED
  BY <1>1, <1>2, <1>3, <1>4

(* Reverting the entry that UndoIndex designates keeps Good, and leads to  *)
(* the text from which the next undo of the chain can go on.               *)
LEMMA GoodUndo ==
    ASSUME NEW e, NEW f, Good(e, f), e.overrun = FALSE,
           NEW chained \in BOOLEAN, chained = TRUE => Chained(e),
           NEW w \in Window, UndoIndex(e, chained) # 0
    PROVE  LET r == UndoEntry(e, w, UndoIndex(e, chained))
           IN  Good(r, f) /\ Chained(r)
<1> DEFINE k == UndoIndex(e, chained)
           r == UndoEntry(e, w, k)
<1>1. /\ Sound(e) /\ Clean(e, f) /\ e.save_log = TRUE
      /\ e.log \in Seq(LogEntry) /\ Len(e.log) \in Nat
      /\ e.log_current \in Nat /\ e.log_current <= Len(e.log)
  BY DEF Good, Sound, WellFormed, Buffer
<1>2. k \in 1..Len(e.log)
  BY <1>1 DEF UndoIndex
<1>3. e.text = TextAfter(e, k)
  <2>1. CASE chained = TRUE /\ e.log_current # 0
    <3>1. k = e.log_current - 1 /\ e.log_current > 1 /\ k < Len(e.log)
      BY <1>1, <2>1 DEF UndoIndex
    <3>2. e.text = e.log[k + 1].before
      BY <1>1, <2>1, <3>1 DEF Chained
    <3> QED
      BY <3>1, <3>2 DEF TextAfter
  <2>2. CASE ~(chained = TRUE /\ e.log_current # 0)
    <3>1. k = Len(e.log)
      BY <2>2 DEF UndoIndex
    <3> QED
      BY <1>1, <3>1 DEF TextAfter
  <2> QED
    BY <2>1, <2>2
<1> HIDE DEF k
<1>4. e.log[k].op = LOGOP_INSERT \/ e.log[k].op = LOGOP_DELETE
  <2>1. e.log[k] \in LogEntry /\ e.log[k].op # LOGOP_WRITE
    BY <1>1, <1>2 DEF Clean
  <2> QED
    BY <2>1, Operations DEF LogEntry
<1>5. Undone(e, r, e.log[k], f)
  BY <1>1, <1>2, <1>3, <1>4, UndoInsert, UndoDelete
<1> HIDE DEF r
<1>6. Good(r, f) /\ Chained(r)
  BY <1>5 DEF Undone, Good
<1> QED
  BY <1>6 DEF r, k

(* The inductive invariant.  While no overwrite mode, process output or    *)
(* failed save is involved, the log is sound, every flag in it says the    *)
(* truth, and a chain of undos can go on.                                  *)
UndoInv == /\ TypeOK
           /\ Good(b, disk)
           /\ last_undo = TRUE => Chained(b)
           /\ insert = [w \in Window |-> TRUE]

(* A step that is no undo keeps UndoInv if it keeps Good.                  *)
LEMMA UndoInvStep ==
    ASSUME UndoInv, TypeOK', Good(b', disk'), insert' = insert,
           NEW name, name # "do_undo", Issue(name)
    PROVE  UndoInv'
BY DEF UndoInv, Issue

(* Every step keeps UndoInv.                                               *)
LEMMA UndoInvNext ==
    ASSUME "do_insert" \notin Commands, "process_output" \notin Commands,
           "do_save_fails" \notin Commands, UndoInv, [Next]_vars
    PROVE  UndoInv'
<1>0. TypeOK' /\ Good(b, disk) /\ TypeOK
  BY TypeNext DEF UndoInv
<1>1. ASSUME NEW w \in Window, Move(w) PROVE UndoInv'
  <2>1. Good(b', disk)
    BY <1>0, <1>1, TypeFacts, GoodSetOffset DEF Move
  <2> QED
    BY <1>0, <1>1, <2>1, UndoInvStep DEF Move
<1>2. ASSUME NEW w \in Window, NEW c \in Byte, do_char(w, c) PROVE UndoInv'
  <2> DEFINE e == eb_insert(b, b.offsets[w], <<c>>)
  <2>1. <<c>> \in Seq(Byte) /\ b.offsets[w] \in Nat /\ w \in Pointer
    BY <1>0, TypeFacts
  <2>2. Good(e, disk) /\ Typed(b, e)
    BY <1>0, <2>1, TypeFacts, GoodInsert, TypedInsert
  <2>3. insert[w] = TRUE
    BY DEF UndoInv
  <2>4. b' = b \/ b' = SetOffset(e, w, e.offsets[w] + 1)
    BY <1>2, <2>3 DEF do_char, Refused
  <2> HIDE DEF e
  <2>5. e.offsets[w] + 1 \in Nat
    BY <2>1, <2>2, TypedOffset
  <2>6. Good(SetOffset(e, w, e.offsets[w] + 1), disk)
    BY <2>1, <2>2, <2>5, GoodSetOffset
  <2>7. Good(b', disk)
    BY <1>0, <2>4, <2>6
  <2> QED
    BY <1>0, <1>2, <2>7, UndoInvStep DEF do_char
<1>3. ASSUME NEW w \in Window, do_open_line(w) PROVE UndoInv'
  <2>1. <<NL>> \in Seq(Byte) /\ b.offsets[w] \in Nat
    BY <1>0, TypeFacts, ByteAssumption
  <2>2. Good(b', disk)
    BY <1>0, <1>3, <2>1, GoodInsert DEF do_open_line, Refused
  <2> QED
    BY <1>0, <1>3, <2>2, UndoInvStep DEF do_open_line
<1>4. ASSUME NEW w \in Window, do_return(w) PROVE UndoInv'
  <2> DEFINE e == IF readonly THEN b ELSE eb_insert(b, b.offsets[w], <<NL>>)
  <2>1. <<NL>> \in Seq(Byte) /\ b.offsets[w] \in Nat /\ w \in Pointer
    BY <1>0, TypeFacts, ByteAssumption
  <2>2. Good(e, disk) /\ Typed(b, e)
    BY <1>0, <2>1, TypeFacts, GoodInsert, TypedInsert DEF Typed
  <2>3. b' = SetOffset(e, w, e.offsets[w] + 1)
    BY <1>4 DEF do_return
  <2> HIDE DEF e
  <2>4. e.offsets[w] + 1 \in Nat
    BY <2>1, <2>2, TypedOffset
  <2>5. Good(b', disk)
    BY <2>1, <2>2, <2>3, <2>4, GoodSetOffset
  <2> QED
    BY <1>0, <1>4, <2>5, UndoInvStep DEF do_return
<1>5. ASSUME NEW w \in Window, do_delete_char(w) PROVE UndoInv'
  <2>1. Good(b', disk)
    BY <1>0, <1>5, TypeFacts, GoodDelete DEF do_delete_char
  <2> QED
    BY <1>0, <1>5, <2>1, UndoInvStep DEF do_delete_char
<1>6. ASSUME NEW w \in Window, do_backspace(w) PROVE UndoInv'
  <2> DEFINE o == b.offsets[w]
             e == eb_delete(b, o - 1, 1)
  <2>1. CASE o = 0
    <3>1. b' = b
      BY <1>6, <2>1 DEF do_backspace
    <3> QED
      BY <1>0, <1>6, <3>1, UndoInvStep DEF do_backspace
  <2>2. CASE o # 0
    <3>1. o - 1 \in Nat /\ w \in Pointer
      BY <1>0, <2>2, TypeFacts
    <3>2. Good(e, disk)
      BY <1>0, <3>1, GoodDelete
    <3>3. b' = SetOffset(e, w, o - 1)
      BY <1>6, <2>2 DEF do_backspace
    <3> HIDE DEF e, o
    <3>4. Good(b', disk)
      BY <3>1, <3>2, <3>3, GoodSetOffset
    <3> QED
      BY <1>0, <1>6, <3>4, UndoInvStep DEF do_backspace
  <2> QED
    BY <2>1, <2>2
<1>7. ASSUME NEW w \in Window, do_delete_word(w) PROVE UndoInv'
  <2>1. Good(b', disk)
    <3>1. CASE b' = b
      BY <1>0, <3>1
    <3>2. CASE b' # b
      <4> DEFINE start == b.offsets[w]
      <4>1. start \in Nat /\ w \in Pointer
        BY <1>0, TypeFacts
      <4>2. PICK end \in 0..Len(b.text) \cup {start} :
               b' = IF start < end
                    THEN eb_delete(SetOffset(b, w, end), start, end - start)
                    ELSE eb_delete(SetOffset(b, w, end), end, start - end)
        BY <1>7, <3>2 DEF do_delete_word, Refused
      <4> DEFINE e == SetOffset(b, w, end)
      <4>3. end \in Nat
        BY <1>0, <4>1, TypeFacts
      <4>4. Good(e, disk)
        BY <1>0, <4>1, <4>3, GoodSetOffset
      <4> HIDE DEF e, start
      <4>5. b' = IF start < end THEN eb_delete(e, start, end - start)
                                ELSE eb_delete(e, end, start - end)
        BY <4>2 DEF e, start
      <4>6. CASE start < end
        <5>1. end - start \in Nat
          BY <4>1, <4>3, <4>6
        <5> QED
          BY <4>1, <4>4, <4>5, <4>6, <5>1, GoodDelete
      <4>7. CASE ~(start < end)
        <5>1. start - end \in Nat
          BY <4>1, <4>3, <4>7
        <5> QED
          BY <4>3, <4>4, <4>5, <4>7, <5>1, GoodDelete
      <4> QED
        BY <4>6, <4>7
    <3> QED
      BY <3>1, <3>2
  <2> QED
    BY <1>0, <1>7, <2>1, UndoInvStep DEF do_delete_word
<1>8. ASSUME NEW w \in Window, do_transpose_char(w) PROVE UndoInv'
  <2>1. Good(b', disk)
    <3> DEFINE o == b.offsets[w]
               d == eb_delete(b, o - 1, 2)
               t == <<b.text[o + 1], b.text[o]>>
               e == eb_insert(d, d.offsets[w], t)
    <3>1. o \in Nat /\ w \in Pointer /\ Len(b.text) \in Nat
      BY <1>0, TypeFacts
    <3>2. CASE o = 0
      BY <1>0, <1>8, <3>2 DEF do_transpose_char
    <3>3. CASE o # 0 /\ o >= Len(b.text)
      <4>1. b' = Overrun(b)
        BY <1>8, <3>3 DEF do_transpose_char
      <4> QED
        BY <1>0, <4>1, GoodOverrun
    <3>4. CASE o # 0 /\ o < Len(b.text)
      <4>1. o - 1 \in Nat /\ t \in Seq(Byte)
        BY <1>0, <3>1, <3>4, TypeFacts
      <4>2. Typed(b, d) /\ Good(d, disk)
        BY <1>0, <4>1, TypeFacts, TypedDelete, GoodDelete
      <4>3. b' = SetOffset(e, w, o)
        BY <1>8, <3>1, <3>4 DEF do_transpose_char
      <4> HIDE DEF d, t
      <4>4. d.offsets[w] \in Nat
        BY <3>1, <4>2, TypedOffset
      <4>5. Good(e, disk)
        BY <4>1, <4>2, <4>4, GoodInsert
      <4> HIDE DEF e, o
      <4> QED
        BY <3>1, <4>3, <4>5, GoodSetOffset
    <3> QED
      BY <3>1, <3>2, <3>3, <3>4
  <2> QED
    BY <1>0, <1>8, <2>1, UndoInvStep DEF do_transpose_char
<1>9. ASSUME NEW w \in Window, do_set_mark(w) PROVE UndoInv'
  <2>1. Good(b', disk)
    BY <1>0, <1>9, TypeFacts, GoodSetOffset DEF do_set_mark
  <2> QED
    BY <1>0, <1>9, <2>1, UndoInvStep DEF do_set_mark
<1>10. ASSUME NEW w \in Window, do_exchange_point_and_mark(w) PROVE UndoInv'
  <2> DEFINE e == SetOffset(b, "mark", b.offsets[w])
  <2>1. Good(e, disk)
    BY <1>0, TypeFacts, GoodSetOffset
  <2>2. b' = SetOffset(e, w, b.offsets["mark"])
    BY <1>10 DEF do_exchange_point_and_mark
  <2> HIDE DEF e
  <2>3. Good(b', disk)
    BY <1>0, <2>1, <2>2, TypeFacts, GoodSetOffset
  <2> QED
    BY <1>0, <1>10, <2>3, UndoInvStep DEF do_exchange_point_and_mark
<1>11. ASSUME NEW w \in Window, NEW kill \in 0..2, do_kill_region(w, kill)
       PROVE  UndoInv'
  <2>1. Good(b', disk)
    <3>1. CASE b' = b
      BY <1>0, <3>1
    <3>2. CASE b' # b
      <4> DEFINE o == b.offsets[w]
      <4>1. o \in Nat /\ b.offsets["mark"] \in Nat /\ w \in Pointer
        BY <1>0, TypeFacts
      <4>2. PICK m \in IF kill = 2 THEN KillLineEnd(b.text, o)
                                   ELSE {b.offsets["mark"]} :
              LET p1  == IF m > o THEN o ELSE m
                  p2  == IF m > o THEN m ELSE o
                  len == p2 - p1
              IN  \/ b' = Overrun(b)
                  \/ b' = SetOffset(eb_delete(b, p1, len), w, p1)
        BY <1>11, <3>2 DEF do_kill_region, Refused
      <4> DEFINE p1  == IF m > o THEN o ELSE m
                 p2  == IF m > o THEN m ELSE o
                 len == p2 - p1
                 e   == eb_delete(b, p1, len)
      <4>3. m \in Nat
        BY <1>0, <4>1, KillLineEndType, TypeFacts
      <4>4. b' = Overrun(b) \/ b' = SetOffset(e, w, p1)
        BY <4>2
      <4> HIDE DEF o
      <4>5. p1 \in Nat /\ len \in Nat
        BY <4>1, <4>3
      <4> HIDE DEF p1, len
      <4>6. Good(e, disk)
        BY <1>0, <4>5, GoodDelete
      <4> HIDE DEF e
      <4>7. Good(SetOffset(e, w, p1), disk) /\ Good(Overrun(b), disk)
        BY <1>0, <4>1, <4>5, <4>6, GoodSetOffset, GoodOverrun
      <4> QED
        BY <4>4, <4>7
    <3> QED
      BY <3>1, <3>2
  <2> QED
    BY <1>0, <1>11, <2>1, UndoInvStep DEF do_kill_region
<1>12. ASSUME NEW w \in Window, do_yank(w) PROVE UndoInv'
  <2> DEFINE e == eb_insert_buffer(b, b.offsets[w], yank)
  <2>1. Good(e, disk) /\ Typed(b, e) /\ w \in Pointer
    BY <1>0, TypeFacts, GoodInsertBuffer, TypedInsertBuffer
  <2>2. b' = b \/ b' = SetOffset(e, w, e.offsets[w] + Len(yank))
    BY <1>12 DEF do_yank, Refused
  <2> HIDE DEF e
  <2>3. e.offsets[w] \in Nat /\ Len(yank) \in Nat
    BY <1>0, <2>1, TypeFacts, TypedOffset
  <2>4. e.offsets[w] + Len(yank) \in Nat
    BY <2>3
  <2>5. Good(SetOffset(e, w, e.offsets[w] + Len(yank)), disk)
    BY <2>1, <2>4, GoodSetOffset
  <2>6. Good(b', disk)
    BY <1>0, <2>2, <2>5
  <2> QED
    BY <1>0, <1>12, <2>6, UndoInvStep DEF do_yank
<1>13. ASSUME NEW w \in Window, do_undo(w) PROVE UndoInv'
  <2> DEFINE k == UndoIndex(b, last_undo)
  <2>1. /\ b' = IF Len(b.log) = 0 \/ k = 0 THEN b ELSE UndoEntry(b, w, k)
        /\ b.overrun = FALSE /\ disk' = disk /\ insert' = insert
    BY <1>0, <1>13, TypeFacts DEF do_undo, Issue
  <2>2. last_undo \in BOOLEAN /\ (last_undo = TRUE => Chained(b))
    BY <1>0 DEF UndoInv, TypeOK
  <2>3. CASE Len(b.log) = 0 \/ k = 0
    <3>2. b' = b
      BY <2>1, <2>3
    <3>3. Chained(b)
      <4>1. b.log_current \in Nat /\ b.log_current <= Len(b.log)
            /\ Len(b.log) \in Nat
        BY <1>0 DEF TypeOK, Buffer
      <4>2. ~(b.log_current > 1)
        BY <2>2, <2>3, <4>1 DEF UndoIndex
      <4> QED
        BY <4>2 DEF Chained
    <3> QED
      BY <1>0, <2>1, <3>2, <3>3 DEF UndoInv
  <2>4. CASE ~(Len(b.log) = 0 \/ k = 0)
    <3>1. Good(UndoEntry(b, w, k), disk) /\ Chained(UndoEntry(b, w, k))
      BY <1>0, <2>1, <2>2, <2>4, GoodUndo
    <3>2. b' = UndoEntry(b, w, k)
      BY <2>1, <2>4
    <3>3. Good(b', disk) /\ Chained(b')
      BY <3>1, <3>2
    <3> QED
      BY <1>0, <2>1, <3>3 DEF UndoInv
  <2> QED
    BY <2>3, <2>4
<1>14. ASSUME do_toggle_read_only PROVE UndoInv'
  BY <1>0, <1>14, UndoInvStep DEF do_toggle_read_only
<1>15. ASSUME do_save PROVE UndoInv'
  <2>1. Good(b', disk')
    <3>1. CASE b.modified
      <4> DEFINE r == log_reset(b)
      <4>1. b \in Buffer /\ << >> \in Seq(LogEntry)
        BY <1>0 DEF TypeOK
      <4>6. b.save_log = TRUE
        BY <1>0, TypeFacts
      <4>2. /\ r \in Buffer /\ r.log = << >> /\ r.log_current = 0
            /\ r.save_log = TRUE /\ r.text = b.text
        BY <4>1, <4>6 DEF log_reset, Buffer
      <4>3. b' = r /\ disk' = b.text
        BY <1>15, <3>1 DEF do_save
      <4> HIDE DEF r
      <4>4. /\ r.log_current <= Len(r.log) /\ Len(r.log) < NbLogsMax
            /\ 1..Len(r.log) = {}
        BY <4>2, LogAssumption
      <4>5. Sound(r) /\ Clean(r, b.text)
        BY <4>2, <4>4 DEF Sound, WellFormed, Clean
      <4> QED
        BY <4>2, <4>3, <4>5 DEF Good
    <3>2. CASE ~b.modified
      BY <1>0, <1>15, <3>2 DEF do_save
    <3> QED
      BY <3>1, <3>2
  <2> QED
    BY <1>0, <1>15, <2>1, UndoInvStep DEF do_save
<1>16. ASSUME Crashed \/ UNCHANGED vars PROVE UndoInv'
  <2>1. UNCHANGED vars
    BY <1>16 DEF Crashed
  <2> QED
    BY <1>0, <2>1 DEF vars, UndoInv
<1>17. /\ ~do_save_fails
       /\ \A w \in Window : ~do_insert(w)
       /\ \A o \in 0..Len(b.text) : ~ProcessOutput(o)
  BY DEF do_save_fails, do_insert, ProcessOutput, Issue
<1> QED
  BY <1>1, <1>2, <1>3, <1>4, <1>5, <1>6, <1>7, <1>8, <1>9, <1>10, <1>11,
     <1>12, <1>13, <1>14, <1>15, <1>16, <1>17 DEF Next

LEMMA UndoInvInit == Init => UndoInv
<1> SUFFICES ASSUME Init PROVE UndoInv
  OBVIOUS
<1>1. TypeOK
  BY TypeInit
<1>2. /\ b.log = << >> /\ b.log_current = 0 /\ b.text = disk
      /\ last_undo = FALSE /\ insert = [w \in Window |-> TRUE]
  BY DEF Init
<1>3. 1..Len(b.log) = {}
  BY <1>2
<1>4. Good(b, disk)
  BY <1>1, <1>2, <1>3 DEF TypeOK, Good, Sound, WellFormed, Clean
<1> QED
  BY <1>1, <1>2, <1>4 DEF UndoInv

(* The undo log of buffer.c does its work: as long as overwrite mode and   *)
(* output of a process are not involved (undo of a write logs the bytes it *)
(* restored, not those it replaced), and no save fails half way, every     *)
(* entry of the log can be reverted and yields the text that preceded it,  *)
(* through undo of undo and through the log filling up.                    *)
THEOREM UndoCorrect ==
    ASSUME "do_insert" \notin Commands, "process_output" \notin Commands,
           "do_save_fails" \notin Commands
    PROVE  Spec => []LogSound
<1>1. UndoInv /\ [Next]_vars => UndoInv'
  BY UndoInvNext
<1>2. UndoInv => LogSound
  BY DEF UndoInv, Good, Sound, LogSound
<1> QED
  BY <1>1, <1>2, UndoInvInit, PTL DEF Spec

(* Under the same hypotheses a chain of undos goes back one step at a      *)
(* time: between two of them the text is the one that preceded the entry   *)
(* reverted last (buffer.c, do_undo: log_current).                         *)
THEOREM UndoChainCorrect ==
    ASSUME "do_insert" \notin Commands, "process_output" \notin Commands,
           "do_save_fails" \notin Commands
    PROVE  Spec => []ChainSound
<1>1. UndoInv /\ [Next]_vars => UndoInv'
  BY UndoInvNext
<1>2. ASSUME UndoInv PROVE ChainSound
  <2>1. last_undo \in BOOLEAN
    BY <1>2 DEF UndoInv, TypeOK
  <2> QED
    BY <1>2, <2>1 DEF UndoInv, Chained, ChainSound
<1> QED
  BY <1>1, <1>2, UndoInvInit, PTL DEF Spec

(* Under the same hypotheses a buffer shown as unmodified has the contents *)
(* of its file, also when undo restored the flag (buffer.c, do_undo:       *)
(* was_modified), so that do_save may trust it.                            *)
THEOREM CleanBufferSaved ==
    ASSUME "do_insert" \notin Commands, "process_output" \notin Commands,
           "do_save_fails" \notin Commands
    PROVE  Spec => []CleanMeansSaved
<1>1. UndoInv /\ [Next]_vars => UndoInv'
  BY UndoInvNext
<1>2. ASSUME UndoInv PROVE CleanMeansSaved
  <2>1. b.modified \in BOOLEAN
    BY <1>2 DEF UndoInv, TypeOK, Buffer
  <2> QED
    BY <1>2, <2>1 DEF UndoInv, Good, Clean, CleanMeansSaved
<1> QED
  BY <1>1, <1>2, UndoInvInit, PTL DEF Spec

---------------------------------------------------------------------------
(* What the primitives do to the offsets.                                  *)

(* All offsets of e are in its text, and it did not overrun.               *)
Fits(e) == /\ WellFormed(e)
           /\ e.overrun = FALSE
           /\ \A p \in Pointer : e.offsets[p] <= Len(e.text)

(* r is e with the text t, every offset moved as the operation says.       *)
Moved(e, r, op, offset, size, t) ==
    /\ WellFormed(r)
    /\ r.overrun = e.overrun
    /\ r.text = t
    /\ \A p \in Pointer :
         r.offsets[p] = eb_offset_callback(op, offset, size, e.offsets[p])

(* The offsets in S designate in r the places they designate in e.         *)
SamePlaces(e, r, S) ==
    \A p \in S : SamePlace(e.text, e.offsets[p], r.text, r.offsets[p])

(* eb_addlog calls every callback, whether the operation is logged or not. *)
LEMMA AddLogMoves ==
    ASSUME NEW e, WellFormed(e), NEW op \in LogOperation,
           NEW offset \in Nat, NEW size \in Nat, NEW before \in Seq(Byte),
           op # LOGOP_INSERT => size = 0 \/ offset + size <= Len(e.text),
           NEW t \in Seq(Byte)
    PROVE  Moved(e, [eb_addlog(e, op, offset, size, before) EXCEPT !.text = t],
                 op, offset, size, t)
<1> DEFINE offs == [p \in Pointer |->
                      eb_offset_callback(op, offset, size, e.offsets[p])]
           m == [e EXCEPT !.offsets = offs, !.modified = TRUE]
           l == eb_addlog(e, op, offset, size, before)
<1>1. Typed(e, l) /\ l.overrun = e.overrun
  BY TypedAddLog
<1>2. l.offsets = offs
  <2>1. \E x, y : l = m \/ l = [m EXCEPT !.log = x, !.log_current = y]
    BY DEF eb_addlog
  <2>2. e \in Buffer
    BY DEF WellFormed
  <2> HIDE DEF l, offs
  <2> QED
    BY <2>1, <2>2 DEF Buffer
<1>3. Typed(e, [l EXCEPT !.text = t])
      /\ [l EXCEPT !.text = t].text = t
      /\ [l EXCEPT !.text = t].overrun = l.overrun
  BY <1>1, TypedText
<1>4. [l EXCEPT !.text = t].offsets = offs
  <2> HIDE DEF l, offs
  <2> QED
    BY <1>1, <1>2 DEF Typed, WellFormed, Buffer
<1> HIDE DEF l
<1>5. \A p \in Pointer : offs[p] = eb_offset_callback(op, offset, size, e.offsets[p])
  OBVIOUS
<1> HIDE DEF offs
<1>6. Moved(e, [l EXCEPT !.text = t], op, offset, size, t)
  BY <1>1, <1>3, <1>4, <1>5 DEF Moved, Typed
<1> QED
  BY <1>6 DEF l

(* eb_insert inside of the text.                                           *)
LEMMA InsertMoves ==
    ASSUME NEW e, WellFormed(e), NEW offset \in Nat, NEW d \in Seq(Byte),
           offset <= Len(e.text)
    PROVE  Moved(e, eb_insert(e, offset, d), LOGOP_INSERT, offset, Len(d),
                 InsertText(e.text, offset, d))
<1>1. /\ e.text \in Seq(Byte) /\ Len(d) \in Nat
      /\ LOGOP_INSERT \in LogOperation
  BY Operations DEF WellFormed, Buffer
<1>2. InsertText(e.text, offset, d) \in Seq(Byte)
  BY <1>1, InsertType
<1>3. eb_insert(e, offset, d)
        = [eb_addlog(e, LOGOP_INSERT, offset, Len(d), e.text)
             EXCEPT !.text = InsertText(e.text, offset, d)]
  BY <1>1 DEF eb_insert
<1> QED
  BY SMTT(30), <1>1, <1>2, <1>3, AddLogMoves

(* eb_delete of a part of the text.                                        *)
LEMMA DeleteMoves ==
    ASSUME NEW e, WellFormed(e), NEW offset \in Nat, NEW size \in Nat,
           offset < Len(e.text), offset + size <= Len(e.text)
    PROVE  Moved(e, eb_delete(e, offset, size), LOGOP_DELETE, offset, size,
                 DeleteText(e.text, offset, size))
<1>1. /\ e.text \in Seq(Byte) /\ LOGOP_DELETE \in LogOperation
  BY Operations DEF WellFormed, Buffer
<1>2. DeleteText(e.text, offset, size) \in Seq(Byte)
  BY <1>1, DeleteType
<1>3. eb_delete(e, offset, size)
        = [eb_addlog(e, LOGOP_DELETE, offset, size, e.text)
             EXCEPT !.text = DeleteText(e.text, offset, size)]
  BY <1>1 DEF eb_delete
<1> QED
  BY <1>1, <1>2, <1>3, AddLogMoves

(* eb_write of one byte over another one.                                  *)
LEMMA OverwriteMoves ==
    ASSUME NEW e, WellFormed(e), NEW offset \in Nat, NEW c \in Byte,
           offset < Len(e.text)
    PROVE  \E t \in Seq(Byte) :
             /\ Len(t) = Len(e.text)
             /\ Moved(e, eb_write(e, offset, <<c>>), LOGOP_WRITE, offset, 1, t)
<1> DEFINE x == Extract(<<c>>, 0, 1)
           t == WriteText(e.text, offset, x)
<1>1. /\ e.text \in Seq(Byte) /\ LOGOP_WRITE \in LogOperation
      /\ LOGOP_INSERT # LOGOP_WRITE
  BY Operations DEF WellFormed, Buffer
<1>2. x \in Seq(Byte) /\ Len(x) = 1
  <2> DEFINE y == <<c>>
  <2>1. y \in Seq(Byte) /\ 0 + 1 <= Len(y) /\ 0 \in Nat /\ 1 \in Nat
    OBVIOUS
  <2> HIDE DEF y
  <2>2. Extract(y, 0, 1) \in Seq(Byte) /\ Len(Extract(y, 0, 1)) = 1
    BY <2>1, ExtractType
  <2> QED
    BY <2>2 DEF y
<1>3. t \in Seq(Byte) /\ Len(t) = Len(e.text)
  <2> HIDE DEF x
  <2>1. offset + Len(x) <= Len(e.text)
    BY <1>1, <1>2
  <2> QED
    BY <1>1, <1>2, <2>1, WriteType
<1>4. eb_write(e, offset, <<c>>)
        = [eb_addlog(e, LOGOP_WRITE, offset, 1, e.text) EXCEPT !.text = t]
  BY <1>1 DEF eb_write
<1>5. Moved(e, [eb_addlog(e, LOGOP_WRITE, offset, 1, e.text) EXCEPT !.text = t],
            LOGOP_WRITE, offset, 1, t)
  <2>1. offset + 1 <= Len(e.text)
    BY <1>1
  <2> HIDE DEF t
  <2> QED
    BY <1>1, <1>3, <2>1, AddLogMoves
<1> QED
  BY <1>3, <1>4, <1>5

---------------------------------------------------------------------------
(* A text and an offset in it, edited.                                     *)

(* Insertion: the offset stays in the text and designates the same place.  *)
LEMMA InsertPlace ==
    ASSUME NEW t \in Seq(Byte), NEW offset \in Nat, NEW d \in Seq(Byte),
           offset <= Len(t), NEW o \in Nat, o <= Len(t)
    PROVE  LET u  == InsertText(t, offset, d)
               o2 == eb_offset_callback(LOGOP_INSERT, offset, Len(d), o)
           IN  o2 <= Len(u) /\ SamePlace(t, o, u, o2)
<1> DEFINE u  == InsertText(t, offset, d)
           o2 == eb_offset_callback(LOGOP_INSERT, offset, Len(d), o)
<1>1. /\ u \in Seq(Byte) /\ Len(u) = Len(t) + Len(d) /\ Len(d) \in Nat
  BY InsertType
<1>2. LOGOP_INSERT # LOGOP_WRITE
  BY Operations
<1>3. CASE o <= offset
  <2>1. o2 = o
    BY <1>3 DEF eb_offset_callback
  <2>2. ASSUME NEW i \in 1..o PROVE t[0 + i] = u[0 + i]
    BY <1>3 DEF InsertText
  <2>3. Prefix(t, o) = Prefix(u, o)
    BY <2>2 DEF Prefix, Extract
  <2> QED
    BY <1>1, <2>1, <2>3 DEF SamePlace
<1>4. CASE o > offset
  <2>1. o2 = o + Len(d)
    BY <1>1, <1>2, <1>4 DEF eb_offset_callback
  <2>2. ASSUME NEW i \in 1..(Len(t) - o) PROVE t[o + i] = u[o2 + i]
    BY <1>1, <1>4, <2>1 DEF InsertText
  <2>3. Len(u) - o2 = Len(t) - o
    BY <1>1, <2>1
  <2>4. Suffix(t, o) = Suffix(u, o2)
    <3> HIDE DEF u, o2
    <3> QED
      BY <2>2, <2>3 DEF Suffix, Extract
  <2> QED
    BY <1>1, <2>1, <2>4 DEF SamePlace
<1> QED
  BY <1>3, <1>4

(* Deletion.                                                               *)
LEMMA DeletePlace ==
    ASSUME NEW t \in Seq(Byte), NEW offset \in Nat, NEW size \in Nat,
           offset + size <= Len(t), NEW o \in Nat, o <= Len(t)
    PROVE  LET u  == DeleteText(t, offset, size)
               o2 == eb_offset_callback(LOGOP_DELETE, offset, size, o)
           IN  o2 <= Len(u) /\ SamePlace(t, o, u, o2)
<1> DEFINE u  == DeleteText(t, offset, size)
           o2 == eb_offset_callback(LOGOP_DELETE, offset, size, o)
<1>1. u \in Seq(Byte) /\ Len(u) = Len(t) - size
  BY DeleteType
<1>2. LOGOP_DELETE # LOGOP_WRITE /\ LOGOP_DELETE # LOGOP_INSERT
  BY Operations
<1>3. ASSUME NEW n \in 0..offset PROVE Prefix(t, n) = Prefix(u, n)
  <2>2. ASSUME NEW i \in 1..n PROVE t[0 + i] = u[0 + i]
    BY <1>3 DEF DeleteText
  <2> QED
    BY <2>2 DEF Prefix, Extract
<1>4. ASSUME NEW n \in (offset + size)..Len(t)
      PROVE  Suffix(t, n) = Suffix(u, n - size)
  <2>1. ASSUME NEW i \in 1..(Len(t) - n) PROVE t[n + i] = u[(n - size) + i]
    <3>1. (n - size) + i \in 1..(Len(t) - size) /\ (n - size) + i > offset
      BY <1>4
    <3>2. u[(n - size) + i] = t[(n - size) + i + size]
      BY <3>1 DEF DeleteText
    <3>3. (n - size) + i + size = n + i
      OBVIOUS
    <3> QED
      BY <3>2, <3>3
  <2>2. Len(u) - (n - size) = Len(t) - n
    BY <1>1
  <2> HIDE DEF u
  <2> QED
    BY <2>1, <2>2 DEF Suffix, Extract
<1> HIDE DEF u
<1>5. ASSUME o <= offset
      PROVE  o2 <= Len(u) /\ SamePlace(t, o, u, o2)
  <2>1. o2 = o
    BY <1>5 DEF eb_offset_callback
  <2> QED
    BY <1>1, <1>3, <1>5, <2>1 DEF SamePlace
<1>6. ASSUME o > offset /\ o - size < offset
      PROVE  o2 <= Len(u) /\ SamePlace(t, o, u, o2)
  <2>1. o2 = offset
    BY <1>2, <1>6 DEF eb_offset_callback
  <2>2. Prefix(t, offset) = Prefix(u, o2)
    BY <1>3, <2>1
  <2>3. Suffix(t, offset + size) = Suffix(u, o2)
    <3>1. (offset + size) - size = offset
      OBVIOUS
    <3> QED
      BY <1>4, <2>1, <3>1
  <2>4. offset \in 0..o /\ offset + size \in o..Len(t)
    BY <1>6
  <2> QED
    BY <1>1, <2>1, <2>2, <2>3, <2>4 DEF SamePlace
<1>7. ASSUME o > offset /\ o - size >= offset
      PROVE  o2 <= Len(u) /\ SamePlace(t, o, u, o2)
  <2>1. o2 = o - size
    BY <1>2, <1>7 DEF eb_offset_callback
  <2> QED
    BY <1>1, <1>4, <1>7, <2>1 DEF SamePlace
<1>8. o2 <= Len(u) /\ SamePlace(t, o, u, o2)
  BY <1>5, <1>6, <1>7
<1> QED
  BY <1>8 DEF u

---------------------------------------------------------------------------
(* A buffer and all of its offsets, edited.                                *)

(* r is e after an edit that keeps the offsets in the text and in place.   *)
Follows(e, r) == Fits(r) /\ SamePlaces(e, r, Pointer)

(* An offset that did not move in a text that did not change.              *)
LEMMA SamePlaceRefl ==
    ASSUME NEW t, NEW o PROVE SamePlace(t, o, t, o)
BY DEF SamePlace

LEMMA FitsFacts ==
    ASSUME NEW e, Fits(e)
    PROVE  /\ e.text \in Seq(Byte) /\ Len(e.text) \in Nat /\ WellFormed(e)
           /\ e.overrun = FALSE
           /\ \A p \in Pointer : e.offsets[p] \in Nat /\ e.offsets[p] <= Len(e.text)
BY DEF Fits, WellFormed, Buffer

LEMMA FitInsert ==
    ASSUME NEW e, Fits(e), NEW offset \in Nat, offset <= Len(e.text),
           NEW d \in Seq(Byte)
    PROVE  LET r == eb_insert(e, offset, d)
           IN  /\ Follows(e, r)
               /\ Len(r.text) = Len(e.text) + Len(d)
               /\ \A p \in Pointer : e.offsets[p] <= offset
                                       => r.offsets[p] = e.offsets[p]
<1> DEFINE r == eb_insert(e, offset, d)
           t == InsertText(e.text, offset, d)
<1>1. /\ e.text \in Seq(Byte) /\ Len(e.text) \in Nat /\ WellFormed(e)
      /\ e.overrun = FALSE
      /\ \A p \in Pointer : e.offsets[p] \in Nat /\ e.offsets[p] <= Len(e.text)
  BY FitsFacts
<1>2. Moved(e, r, LOGOP_INSERT, offset, Len(d), t)
  BY <1>1, InsertMoves
<1>3. Len(t) = Len(e.text) + Len(d)
  BY <1>1, InsertType
<1>4. ASSUME NEW p \in Pointer
      PROVE  /\ r.offsets[p] <= Len(t)
             /\ SamePlace(e.text, e.offsets[p], t, r.offsets[p])
  <2>1. r.offsets[p] = eb_offset_callback(LOGOP_INSERT, offset, Len(d), e.offsets[p])
    BY <1>2 DEF Moved
  <2> HIDE DEF r
  <2> QED
    BY <1>1, <2>1, InsertPlace
<1> HIDE DEF r, t
<1>5. Follows(e, r) /\ Len(r.text) = Len(e.text) + Len(d)
  BY <1>1, <1>2, <1>3, <1>4 DEF Moved, Follows, Fits, SamePlaces
<1>6. \A p \in Pointer : e.offsets[p] <= offset => r.offsets[p] = e.offsets[p]
  BY <1>2 DEF Moved, eb_offset_callback
<1> QED
  BY <1>5, <1>6 DEF r

LEMMA FitDelete ==
    ASSUME NEW e, Fits(e), NEW offset \in Nat, NEW size \in Nat,
           offset + size <= Len(e.text)
    PROVE  LET r == eb_delete(e, offset, size)
           IN  /\ Follows(e, r)
               /\ offset <= Len(r.text)
<1> DEFINE r == eb_delete(e, offset, size)
           t == DeleteText(e.text, offset, size)
<1>1. /\ e.text \in Seq(Byte) /\ Len(e.text) \in Nat /\ WellFormed(e)
      /\ e.overrun = FALSE
      /\ \A p \in Pointer : e.offsets[p] \in Nat /\ e.offsets[p] <= Len(e.text)
  BY FitsFacts
<1>2. CASE offset >= Len(e.text)
  <2>1. r = e
    BY <1>2 DEF eb_delete
  <2> HIDE DEF r
  <2>2. Follows(e, r) /\ offset <= Len(r.text)
    BY <1>1, <2>1, SamePlaceRefl DEF Follows, SamePlaces
  <2> QED
    BY <2>2 DEF r
<1>3. CASE offset < Len(e.text)
  <2>1. Moved(e, r, LOGOP_DELETE, offset, size, t)
    BY <1>1, <1>3, DeleteMoves
  <2>2. Len(t) = Len(e.text) - size
    BY <1>1, DeleteType
  <2>3. ASSUME NEW p \in Pointer
        PROVE  /\ r.offsets[p] <= Len(t)
               /\ SamePlace(e.text, e.offsets[p], t, r.offsets[p])
    <3>1. r.offsets[p] = eb_offset_callback(LOGOP_DELETE, offset, size, e.offsets[p])
      BY <2>1 DEF Moved
    <3> HIDE DEF r
    <3> QED
      BY <1>1, <3>1, DeletePlace
  <2> HIDE DEF r, t
  <2>4. Follows(e, r) /\ offset <= Len(r.text)
    BY <1>1, <2>1, <2>2, <2>3 DEF Moved, Follows, Fits, SamePlaces
  <2> QED
    BY <2>4 DEF r
<1> QED
  BY <1>1, <1>2, <1>3

LEMMA FitOverwrite ==
    ASSUME NEW e, Fits(e), NEW offset \in Nat, offset < Len(e.text), NEW c \in Byte
    PROVE  LET r == eb_write(e, offset, <<c>>)
           IN  /\ Follows(e, r)
               /\ Len(r.text) = Len(e.text)
               /\ \A p \in Pointer : r.offsets[p] = e.offsets[p]
<1> DEFINE r == eb_write(e, offset, <<c>>)
<1>1. /\ e.text \in Seq(Byte) /\ Len(e.text) \in Nat /\ WellFormed(e)
      /\ e.overrun = FALSE
      /\ \A p \in Pointer : e.offsets[p] \in Nat /\ e.offsets[p] <= Len(e.text)
  BY FitsFacts
<1>2. PICK t \in Seq(Byte) : /\ Len(t) = Len(e.text)
                             /\ Moved(e, r, LOGOP_WRITE, offset, 1, t)
  BY <1>1, OverwriteMoves
<1> HIDE DEF r
<1>3. \A p \in Pointer : r.offsets[p] = e.offsets[p]
  BY <1>2 DEF Moved, eb_offset_callback
<1>4. Follows(e, r) /\ Len(r.text) = Len(e.text)
  BY <1>1, <1>2, <1>3 DEF Moved, Follows, Fits, SamePlaces, SamePlace
<1> QED
  BY <1>3, <1>4 DEF r

LEMMA FitSetOffset ==
    ASSUME NEW e, Fits(e), NEW p \in Pointer, NEW o \in Nat, o <= Len(e.text)
    PROVE  LET r == SetOffset(e, p, o)
           IN  /\ Fits(r)
               /\ r.text = e.text
               /\ r.offsets[p] = o
               /\ \A q \in Pointer \ {p} : r.offsets[q] = e.offsets[q]
<1> DEFINE r == SetOffset(e, p, o)
<1>1. /\ r \in Buffer /\ r.text = e.text /\ r.log = e.log
      /\ r.log_current = e.log_current /\ r.overrun = e.overrun
      /\ r.offsets = [e.offsets EXCEPT ![p] = o]
      /\ e.offsets \in [Pointer -> Nat]
  BY DEF SetOffset, Fits, WellFormed, Buffer
<1> HIDE DEF r
<1>2. /\ Fits(r) /\ r.text = e.text /\ r.offsets[p] = o
      /\ \A q \in Pointer \ {p} : r.offsets[q] = e.offsets[q]
  BY <1>1 DEF Fits, WellFormed
<1> QED
  BY <1>2 DEF r

---------------------------------------------------------------------------
(* The commands.                                                           *)

(* What every step preserves.                                              *)
OffsetInv == TypeOK /\ OffsetsInRange /\ NoOverrun

(* The offsets in S moved with the text in this step.                      *)
MovedAlong(S) == b.text # b'.text => SamePlaces(b, b', S)

(* A step of a command in window w, or of a process.                       *)
Safe(w) == Fits(b') /\ MovedAlong(Pointer \ {w})

LEMMA FitsInv == OffsetInv => Fits(b)
BY DEF OffsetInv, TypeOK, OffsetsInRange, NoOverrun, Fits, WellFormed, Buffer

(* The whole of an edit followed by a motion of the window's own offset.   *)
LEMMA SafeEdit ==
    ASSUME NEW w \in Window, NEW e, Follows(b, e), NEW o \in Nat,
           o <= Len(e.text), b' = SetOffset(e, w, o)
    PROVE  Safe(w)
<1>1. /\ Fits(b') /\ b'.text = e.text
      /\ \A q \in Pointer \ {w} : b'.offsets[q] = e.offsets[q]
  BY FitSetOffset DEF Follows, Pointer
<1> QED
  BY <1>1 DEF Safe, MovedAlong, Follows, SamePlaces

(* A step that only moves offsets.                                         *)
LEMMA SafeMotion ==
    ASSUME NEW w \in Window, NEW p \in Pointer, Fits(b), NEW o \in Nat,
           o <= Len(b.text), b' = SetOffset(b, p, o)
    PROVE  Safe(w)
<1>1. Fits(b') /\ b'.text = b.text
  BY FitSetOffset
<1> QED
  BY <1>1 DEF Safe, MovedAlong

LEMMA SafeStutter ==
    ASSUME NEW w \in Window, Fits(b), b' = b PROVE Safe(w)
BY DEF Safe, MovedAlong

LEMMA SafeFollows ==
    ASSUME NEW w \in Window, Follows(b, b') PROVE Safe(w)
BY DEF Follows, SamePlaces, Safe, MovedAlong

(* kill-line stops inside of the text.                                     *)
LEMMA KillLineEndInside ==
    ASSUME NEW t \in Seq(Byte), NEW o \in Nat, o <= Len(t)
    PROVE  KillLineEnd(t, o) \subseteq 0..Len(t)
BY DEF KillLineEnd, LineEnd

(* self-insert, in insert and in overwrite mode.                           *)
LEMMA CharSafe ==
    ASSUME OffsetInv, NEW w \in Window, NEW c \in Byte, do_char(w, c)
    PROVE  Safe(w)
<1> DEFINE o  == b.offsets[w]
           d  == <<c>>
           e1 == eb_insert(b, o, d)
           e2 == eb_write(b, o, <<c>>)
<1>0. d \in Seq(Byte) /\ Len(d) = 1
  OBVIOUS
<1>1. /\ Fits(b) /\ w \in Pointer /\ o \in Nat /\ o <= Len(b.text)
      /\ Len(b.text) \in Nat
  BY FitsInv, FitsFacts DEF Pointer
<1>2. \/ b' = b
      \/ b' = SetOffset(e1, w, e1.offsets[w] + 1)
      \/ o < Len(b.text) /\ b' = SetOffset(e2, w, e2.offsets[w] + 1)
  BY <1>1 DEF do_char, Refused
<1>3. Follows(b, e1) /\ e1.offsets[w] = o /\ o + 1 <= Len(e1.text)
  <2> HIDE DEF d
  <2>1. /\ Follows(b, e1)
        /\ Len(e1.text) = Len(b.text) + Len(d)
        /\ \A p \in Pointer : b.offsets[p] <= o => e1.offsets[p] = b.offsets[p]
    BY <1>0, <1>1, FitInsert
  <2>2. e1.offsets[w] = o
    <3> HIDE DEF e1
    <3> QED
      BY <1>1, <2>1
  <2> HIDE DEF e1, o
  <2> QED
    BY <1>0, <1>1, <2>1, <2>2
<1>4. ASSUME o < Len(b.text)
      PROVE  Follows(b, e2) /\ e2.offsets[w] = o /\ o + 1 <= Len(e2.text)
  <2>1. /\ Follows(b, e2) /\ e2.offsets[w] = o /\ Len(e2.text) = Len(b.text)
    BY <1>1, <1>4, FitOverwrite
  <2> HIDE DEF e2, o
  <2> QED
    BY <1>1, <1>4, <2>1
<1>5. o + 1 \in Nat
  BY <1>1
<1> HIDE DEF e1, e2, o
<1> QED
  BY <1>1, <1>2, <1>3, <1>4, <1>5, SafeEdit, SafeStutter

(* delete-char and backward-delete-char.                                   *)
LEMMA DeleteCharSafe ==
    ASSUME OffsetInv, NEW w \in Window, do_delete_char(w) PROVE Safe(w)
<1> DEFINE o == b.offsets[w]
<1>1. Fits(b) /\ w \in Pointer /\ o \in Nat /\ Len(b.text) \in Nat
  BY FitsInv, FitsFacts DEF Pointer
<1>2. b' = eb_delete(b, o, 1)
  BY DEF do_delete_char
<1>3. CASE o >= Len(b.text)
  <2>1. b' = b
    BY <1>2, <1>3 DEF eb_delete
  <2> QED
    BY <1>1, <2>1, SafeStutter
<1>4. CASE o < Len(b.text)
  <2>1. o + 1 <= Len(b.text)
    BY <1>1, <1>4
  <2> HIDE DEF o
  <2>2. Follows(b, b')
    BY <1>1, <1>2, <2>1, FitDelete
  <2> QED
    BY <2>2, SafeFollows
<1> QED
  BY <1>1, <1>3, <1>4

LEMMA BackspaceSafe ==
    ASSUME OffsetInv, NEW w \in Window, do_backspace(w) PROVE Safe(w)
<1> DEFINE o == b.offsets[w]
           e == eb_delete(b, o - 1, 1)
<1>1. /\ Fits(b) /\ w \in Pointer /\ o \in Nat /\ Len(b.text) \in Nat
      /\ o <= Len(b.text)
  BY FitsInv, FitsFacts DEF Pointer
<1>2. CASE o = 0
  BY <1>1, <1>2, SafeStutter DEF do_backspace
<1>3. CASE o # 0
  <2>1. b' = SetOffset(e, w, o - 1)
    BY <1>3 DEF do_backspace
  <2>2. o - 1 \in Nat /\ (o - 1) + 1 <= Len(b.text)
    BY <1>1, <1>3
  <2>3. Follows(b, e) /\ o - 1 <= Len(e.text)
    BY <1>1, <2>2, FitDelete
  <2> HIDE DEF e, o
  <2> QED
    BY <2>1, <2>2, <2>3, SafeEdit
<1> QED
  BY <1>2, <1>3

(* kill-word, in either direction: the offset moves first.                 *)
LEMMA DeleteWordSafe ==
    ASSUME OffsetInv, NEW w \in Window, do_delete_word(w) PROVE Safe(w)
<1> DEFINE o == b.offsets[w]
<1>1. /\ Fits(b) /\ w \in Pointer /\ o \in Nat /\ Len(b.text) \in Nat
      /\ o <= Len(b.text)
  BY FitsInv, FitsFacts DEF Pointer
<1>2. CASE b' = b
  BY <1>1, <1>2, SafeStutter
<1>3. CASE b' # b
  <2>1. PICK end \in 0..Len(b.text) \cup {o} :
          LET e == SetOffset(b, w, end)
          IN  b' = IF o < end THEN eb_delete(e, o, end - o)
                              ELSE eb_delete(e, end, o - end)
    BY <1>3 DEF do_delete_word, Refused
  <2> DEFINE e    == SetOffset(b, w, end)
             from == IF o < end THEN o ELSE end
             size == IF o < end THEN end - o ELSE o - end
  <2>2. b' = eb_delete(e, from, size)
    BY <2>1
  <2>3. end \in Nat /\ end <= Len(b.text)
    BY <1>1, <2>1
  <2>4. from \in Nat /\ size \in Nat /\ from + size <= Len(b.text)
    BY <1>1, <2>3
  <2>5. /\ Fits(e) /\ e.text = b.text
        /\ \A q \in Pointer \ {w} : e.offsets[q] = b.offsets[q]
    BY <1>1, <2>3, FitSetOffset
  <2> HIDE DEF e, from, size
  <2>6. Follows(e, b')
    BY <2>2, <2>4, <2>5, FitDelete
  <2> QED
    BY <2>5, <2>6 DEF Follows, SamePlaces, Safe, MovedAlong
<1> QED
  BY <1>2, <1>3

(* kill-region, kill-line and copy-region.                                 *)
LEMMA KillSafe ==
    ASSUME OffsetInv, NEW w \in Window, NEW kill \in 0..2, do_kill_region(w, kill)
    PROVE  Safe(w)
<1> DEFINE o == b.offsets[w]
<1>1. /\ Fits(b) /\ w \in Pointer /\ o \in Nat /\ Len(b.text) \in Nat
      /\ o <= Len(b.text) /\ b.text \in Seq(Byte)
      /\ b.offsets["mark"] \in Nat /\ b.offsets["mark"] <= Len(b.text)
  BY FitsInv, FitsFacts DEF Pointer
<1>2. CASE b' = b
  BY <1>1, <1>2, SafeStutter
<1>3. CASE b' # b
  <2>1. PICK m \in IF kill = 2 THEN KillLineEnd(b.text, o)
                               ELSE {b.offsets["mark"]} :
          LET p1  == IF m > o THEN o ELSE m
              p2  == IF m > o THEN m ELSE o
              len == p2 - p1
          IN  IF len > 0 /\ p2 > Len(b.text)
              THEN b' = Overrun(b) /\ UNCHANGED yank
              ELSE /\ yank' = Extract(b.text, p1, len)
                   /\ b' = IF kill = 0 THEN b
                           ELSE SetOffset(eb_delete(b, p1, len), w, p1)
    BY <1>3 DEF do_kill_region, Refused
  <2> DEFINE p1  == IF m > o THEN o ELSE m
             p2  == IF m > o THEN m ELSE o
             len == p2 - p1
             e   == eb_delete(b, p1, len)
  <2>2. m \in Nat /\ m <= Len(b.text)
    BY <1>1, <2>1, KillLineEndInside
  <2> HIDE DEF o
  <2>3. /\ p1 \in Nat /\ len \in Nat /\ p1 + len <= Len(b.text)
        /\ ~(p2 > Len(b.text))
    BY <1>1, <2>2
  <2>4. b' = SetOffset(e, w, p1)
    BY <1>3, <2>1, <2>3 DEF o
  <2> HIDE DEF p1, p2, len
  <2>5. Follows(b, e) /\ p1 <= Len(e.text)
    BY <1>1, <2>3, FitDelete
  <2> HIDE DEF e
  <2> QED
    BY <2>3, <2>4, <2>5, SafeEdit
<1> QED
  BY <1>2, <1>3

(* yank *)
LEMMA YankSafe ==
    ASSUME OffsetInv, NEW w \in Window, do_yank(w) PROVE Safe(w)
<1> DEFINE o == b.offsets[w]
           e == eb_insert(b, o, yank)
<1>1. /\ Fits(b) /\ w \in Pointer /\ o \in Nat /\ Len(b.text) \in Nat
      /\ o <= Len(b.text) /\ yank \in Seq(Byte) /\ Len(yank) \in Nat
  BY FitsInv, FitsFacts, TypeFacts DEF Pointer, OffsetInv
<1>2. \/ b' = b
      \/ Len(yank) = 0 /\ b' = SetOffset(b, w, o)
      \/ b' = SetOffset(e, w, e.offsets[w] + Len(yank))
  BY <1>1 DEF do_yank, Refused, eb_insert_buffer
<1>3. /\ Follows(b, e) /\ e.offsets[w] = o
      /\ Len(e.text) = Len(b.text) + Len(yank)
  BY <1>1, FitInsert
<1> HIDE DEF e, o
<1>4. o + Len(yank) \in Nat /\ o + Len(yank) <= Len(e.text)
  BY <1>1, <1>3
<1>5. CASE b' = b
  BY <1>1, <1>5, SafeStutter
<1>6. CASE b' = SetOffset(b, w, o)
  BY <1>1, <1>6, SafeMotion
<1>7. CASE b' = SetOffset(e, w, e.offsets[w] + Len(yank))
  BY <1>3, <1>4, <1>7, SafeEdit
<1> QED
  BY <1>2, <1>5, <1>6, <1>7

(* A process writes to the buffer: no offset is its own, so all follow.    *)
LEMMA OutputFollows ==
    ASSUME OffsetInv, NEW o \in 0..Len(b.text), ProcessOutput(o)
    PROVE  Follows(b, b')
<1>0. Fits(b) /\ Len(b.text) \in Nat /\ b.text \in Seq(Byte)
  BY FitsInv, FitsFacts
<1>1. /\ Fits(b) /\ o \in Nat /\ Len(b.text) \in Nat /\ b.text \in Seq(Byte)
      /\ o <= Len(b.text)
  BY <1>0
<1>2. \/ \E c \in Byte : b' = eb_insert(b, o, <<c>>)
      \/ \E c \in Byte : o < Len(b.text) /\ b' = eb_write(b, o, <<c>>)
      \/ \E q \in RestOfLine(b.text, o) : b' = eb_delete(b, o, q - o)
  BY <1>1 DEF ProcessOutput
<1>3. ASSUME NEW c \in Byte, b' = eb_insert(b, o, <<c>>) PROVE Follows(b, b')
  <2>1. <<c>> \in Seq(Byte)
    OBVIOUS
  <2> QED
    BY <1>1, <1>3, <2>1, FitInsert
<1>4. ASSUME NEW c \in Byte, o < Len(b.text), b' = eb_write(b, o, <<c>>)
      PROVE  Follows(b, b')
  BY <1>1, <1>4, FitOverwrite
<1>5. ASSUME NEW q \in RestOfLine(b.text, o), b' = eb_delete(b, o, q - o)
      PROVE  Follows(b, b')
  <2>1. q - o \in Nat /\ o + (q - o) <= Len(b.text)
    BY <1>1 DEF RestOfLine
  <2> QED
    BY <1>1, <1>5, <2>1, FitDelete
<1> QED
  BY <1>2, <1>3, <1>4, <1>5

(* Each command issued in window w that the theorems are about.            *)
LEMMA CommandSafe ==
    ASSUME "do_undo" \notin Commands, "do_return" \notin Commands,
           "do_transpose_char" \notin Commands,
           OffsetInv, NEW w \in Window,
           \/ Move(w)
           \/ \E c \in Byte : do_char(w, c)
           \/ do_insert(w)
           \/ do_open_line(w)
           \/ do_return(w)
           \/ do_delete_char(w)
           \/ do_backspace(w)
           \/ do_delete_word(w)
           \/ do_transpose_char(w)
           \/ do_set_mark(w)
           \/ do_exchange_point_and_mark(w)
           \/ \E kill \in 0..2 : do_kill_region(w, kill)
           \/ do_yank(w)
           \/ do_undo(w)
    PROVE  Safe(w)
<1> DEFINE o == b.offsets[w]
<1>1. /\ Fits(b) /\ w \in Pointer /\ "mark" \in Pointer /\ Len(b.text) \in Nat
      /\ o \in Nat /\ o <= Len(b.text)
      /\ b.offsets["mark"] \in Nat /\ b.offsets["mark"] <= Len(b.text)
  BY FitsInv, FitsFacts DEF Pointer
<1>2. CASE Move(w)
  <2>1. PICK q \in 0..Len(b.text) : b' = SetOffset(b, w, q)
    BY <1>2 DEF Move
  <2>2. q \in Nat /\ q <= Len(b.text)
    BY <1>1
  <2> QED
    BY <1>1, <2>1, <2>2, SafeMotion
<1>3. CASE do_insert(w)
  BY <1>1, <1>3, SafeStutter DEF do_insert
<1>4. CASE do_open_line(w)
  <2> DEFINE d == <<NL>>
  <2>1. d \in Seq(Byte)
    BY ByteAssumption
  <2>2. b' = b \/ b' = eb_insert(b, o, d)
    BY <1>4 DEF do_open_line, Refused
  <2> HIDE DEF d, o
  <2>3. Follows(b, eb_insert(b, o, d))
    BY <1>1, <2>1, FitInsert
  <2> QED
    BY <1>1, <2>2, <2>3, SafeStutter, SafeFollows
<1>5. CASE do_set_mark(w)
  BY <1>1, <1>5, SafeMotion DEF do_set_mark
<1>6. CASE do_exchange_point_and_mark(w)
  <2> DEFINE e == SetOffset(b, "mark", o)
             m == b.offsets["mark"]
  <2>1. b' = SetOffset(e, w, m)
    BY <1>6 DEF do_exchange_point_and_mark
  <2>2. Fits(e) /\ e.text = b.text
    BY <1>1, FitSetOffset
  <2> HIDE DEF e, o
  <2>3. m \in Nat /\ m <= Len(e.text)
    BY <1>1, <2>2
  <2> HIDE DEF m
  <2>4. Fits(b') /\ b'.text = b.text
    BY <1>1, <2>1, <2>2, <2>3, FitSetOffset
  <2> QED
    BY <2>4 DEF Safe, MovedAlong
<1>7. ~do_return(w) /\ ~do_transpose_char(w) /\ ~do_undo(w)
  BY DEF do_return, do_transpose_char, do_undo, Issue
<1> QED
  BY <1>2, <1>3, <1>4, <1>5, <1>6, <1>7, CharSafe, DeleteCharSafe,
     BackspaceSafe, DeleteWordSafe, KillSafe, YankSafe

(* Every step keeps the offsets in the text, and moves with it those that  *)
(* the command is not about.                                               *)
LEMMA OffsetNext ==
    ASSUME "do_undo" \notin Commands, "do_return" \notin Commands,
           "do_transpose_char" \notin Commands,
           OffsetInv, [Next]_vars
    PROVE  /\ OffsetInv'
           /\ \/ MovedAlong(Pointer)
              \/ \E w \in Window : MovedAlong(Pointer \ {w})
<1>0. TypeOK' /\ Fits(b)
  BY TypeNext, FitsInv DEF OffsetInv
<1>1. ASSUME Fits(b') PROVE OffsetInv'
  BY <1>0, <1>1 DEF Fits, OffsetInv, OffsetsInRange, NoOverrun
<1>2. ASSUME NEW w \in Window, Safe(w)
      PROVE  OffsetInv' /\ \E v \in Window : MovedAlong(Pointer \ {v})
  BY <1>1, <1>2 DEF Safe
<1>3. ASSUME b' = b PROVE OffsetInv' /\ MovedAlong(Pointer)
  BY <1>0, <1>1, <1>3 DEF MovedAlong
<1>4. CASE do_toggle_read_only \/ do_save_fails \/ Crashed \/ UNCHANGED vars
  BY <1>3, <1>4 DEF do_toggle_read_only, do_save_fails, Crashed, vars
<1>5. CASE do_save
  <2>1. b' = b \/ b' = log_reset(b)
    BY <1>5 DEF do_save
  <2>2. /\ log_reset(b).text = b.text /\ log_reset(b).offsets = b.offsets
        /\ log_reset(b).overrun = b.overrun
    BY <1>0 DEF log_reset, Fits, WellFormed, Buffer
  <2>3. b'.text = b.text /\ b'.offsets = b.offsets /\ b'.overrun = b.overrun
    BY <2>1, <2>2
  <2>4. OffsetInv'
    BY <1>0, <2>3 DEF OffsetInv, OffsetsInRange, NoOverrun
  <2> QED
    BY <2>3, <2>4 DEF MovedAlong
<1>6. ASSUME NEW o \in 0..Len(b.text), ProcessOutput(o)
      PROVE  OffsetInv' /\ MovedAlong(Pointer)
  <2>1. Follows(b, b')
    BY <1>6, OutputFollows
  <2> QED
    BY <1>1, <2>1 DEF Follows, MovedAlong
<1> QED
  BY <1>2, <1>4, <1>5, <1>6, CommandSafe DEF Next

LEMMA OffsetInit == Init => OffsetInv
<1> SUFFICES ASSUME Init PROVE OffsetInv
  OBVIOUS
<1>1. TypeOK
  BY TypeInit
<1>2. b.offsets = [p \in Pointer |-> 0] /\ b.overrun = FALSE
  BY DEF Init
<1>3. Len(b.text) \in Nat
  BY <1>1, TypeFacts
<1> QED
  BY <1>1, <1>2, <1>3 DEF OffsetInv, OffsetsInRange, NoOverrun

---------------------------------------------------------------------------
(* The mark and the offset of every window stay in the text, whichever     *)
(* window or process edits it, for any number of windows, any text and any *)
(* log (buffer.c, eb_offset_callback).  Three commands are left out: in a  *)
(* read only buffer newline steps beyond the end, at the end of the text   *)
(* transpose-chars reads beyond it, and undo of a deletion calls the       *)
(* callbacks twice.                                                        *)
THEOREM OffsetsStayInRange ==
    ASSUME "do_undo" \notin Commands, "do_return" \notin Commands,
           "do_transpose_char" \notin Commands
    PROVE  Spec => []OffsetsInRange
<1>1. OffsetInv /\ [Next]_vars => OffsetInv'
  BY OffsetNext
<1>2. OffsetInv => OffsetsInRange
  BY DEF OffsetInv
<1> QED
  BY <1>1, <1>2, OffsetInit, PTL DEF Spec

(* Without the same three commands, no primitive of buffer.c is called     *)
(* with an offset or a size that reaches outside of the text.              *)
THEOREM NeverOverrun ==
    ASSUME "do_undo" \notin Commands, "do_return" \notin Commands,
           "do_transpose_char" \notin Commands
    PROVE  Spec => []NoOverrun
<1>1. OffsetInv /\ [Next]_vars => OffsetInv'
  BY OffsetNext
<1>2. OffsetInv => NoOverrun
  BY DEF OffsetInv
<1> QED
  BY <1>1, <1>2, OffsetInit, PTL DEF Spec

(* "Moved with text" (qe.h): whichever window edits, every offset but its  *)
(* own designates the same place of the text as before, or the place where *)
(* the part that it was in got deleted.  Output of a process, which has no *)
(* window, moves them all.                                                 *)
THEOREM OffsetsMoveWithText ==
    ASSUME "do_undo" \notin Commands, "do_return" \notin Commands,
           "do_transpose_char" \notin Commands, Window # {}
    PROVE  Spec => MovedWithText
<1> DEFINE Follow == b.text # b'.text =>
             \E w \in Window : \A p \in Pointer \ {w} :
                SamePlace(b.text, b.offsets[p], b'.text, b'.offsets[p])
<1>1. OffsetInv /\ [Next]_vars => OffsetInv'
  BY OffsetNext
<1>2. OffsetInv /\ [Next]_vars => Follow
  BY OffsetNext DEF MovedAlong, SamePlaces
<1>3. OffsetInv /\ [Next]_vars => [Follow]_vars
  BY <1>2
<1> HIDE DEF Follow
<1>4. Spec => [][Follow]_vars
  BY <1>1, <1>3, OffsetInit, PTL DEF Spec
<1> QED
  BY <1>4 DEF MovedWithText, Follow

================================================================================
