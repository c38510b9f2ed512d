----------------------------- MODULE SaveQuitProofs -----------------------------
(***************************************************************************)
(* Proofs about SaveQuit: type correctness, and the three promises of      *)
(* saving and quitting, whichever system calls fail.                       *)
(***************************************************************************)
EXTENDS SaveQuit, TLAPS

(* save_buffer is between two of its steps exactly when the editor is      *)
(* saving, or was killed then; the scan of the buffers is inside the list  *)
(* when it waits for a key or for a save of its own.                       *)
ControlOK ==
    /\ pc = "save" => saving.step # "none"
    /\ pc \notin {"save", "killed"} => saving.step = "none"
    /\ pc = "save" => saving.caller \in Callers
    /\ pc = "save" /\ saving.caller = "quit" =>
         is.b <= Len(Order) /\ saving.b = Order[is.b]
    /\ pc = "quit_key" => is.b <= Len(Order) /\ modified[Order[is.b]]

TypeInv == TypeOK /\ ControlOK

(* The states of the scan.                                                 *)
QuitStates == [state : {QS_ASK, QS_NOSAVE, QS_SAVE}, modified : BOOLEAN,
               b : 1..(Len(Order) + 1)]

LEMMA OrderFacts ==
    /\ Len(Order) \in Nat /\ Len(Order) >= 1
    /\ \A i \in 1..Len(Order) : Order[i] \in Buf
    /\ \A x \in Buf : \E i \in 1..Len(Order) : Order[i] = x
    /\ Idle \in [step : Step, b : Buf, caller : Callers \cup {"none"}]
    /\ Idle.step = "none"
    /\ FirstBuffer \in QuitStates
BY OrderAssumption DEF Idle, Step, FirstBuffer, QuitStates

LEMMA CallFacts ==
    ASSUME NEW x \in Buf, NEW c \in Callers
    PROVE  /\ Call(x, c) \in [step : Step, b : Buf,
                              caller : Callers \cup {"none"}]
           /\ Call(x, c).step = "rename"
           /\ Call(x, c).b = x
           /\ Call(x, c).caller = c
BY DEF Call, Step

(* Which buffers a save marks as failed, and no longer.                    *)
LEMMA FailedFacts ==
    ASSUME TypeOK, saving.caller \in Callers
    PROVE  /\ Fails => /\ failed' \subseteq Buf \X Callers
                       /\ failed \subseteq failed'
                       /\ <<saving.b, saving.caller>> \in failed'
                       /\ \A x \in Buf : Failed(x)' <=> Failed(x) \/ x = saving.b
                       /\ \A x \in Buf : x # saving.b => \A c \in Callers :
                            <<x, c>> \in failed' <=> <<x, c>> \in failed
           /\ failed' = {p \in failed : p[1] # saving.b} =>
                /\ failed' \subseteq Buf \X Callers
                /\ \A x \in Buf : Failed(x)' <=> Failed(x) /\ x # saving.b
                /\ \A x \in Buf : x # saving.b => \A c \in Callers :
                     <<x, c>> \in failed' <=> <<x, c>> \in failed
           /\ UNCHANGED failed => \A x \in Buf : Failed(x)' <=> Failed(x)
<1>1. saving.b \in Buf /\ failed \subseteq Buf \X Callers
  BY DEF TypeOK
<1>2. ASSUME Fails
      PROVE  /\ failed' \subseteq Buf \X Callers
             /\ failed \subseteq failed'
             /\ <<saving.b, saving.caller>> \in failed'
             /\ \A x \in Buf : Failed(x)' <=> Failed(x) \/ x = saving.b
             /\ \A x \in Buf : x # saving.b => \A c \in Callers :
                  <<x, c>> \in failed' <=> <<x, c>> \in failed
  <2>1. failed' = failed \cup {<<saving.b, saving.caller>>}
    BY <1>2 DEF Fails
  <2>2. failed' \subseteq Buf \X Callers
    BY <1>1, <2>1
  <2>3. \A x, c : <<x, c>> \in failed' <=>
                    <<x, c>> \in failed \/ (x = saving.b /\ c = saving.caller)
    BY <2>1
  <2>4. \A x \in Buf : Failed(x)' <=> Failed(x) \/ x = saving.b
    BY <2>3 DEF Failed
  <2> QED BY <2>1, <2>2, <2>3, <2>4
<1>3. ASSUME failed' = {p \in failed : p[1] # saving.b}
      PROVE  /\ failed' \subseteq Buf \X Callers
             /\ \A x \in Buf : Failed(x)' <=> Failed(x) /\ x # saving.b
             /\ \A x \in Buf : x # saving.b => \A c \in Callers :
                  <<x, c>> \in failed' <=> <<x, c>> \in failed
  BY <1>1, <1>3 DEF Failed
<1>4. ASSUME UNCHANGED failed PROVE \A x \in Buf : Failed(x)' <=> Failed(x)
  BY <1>4 DEF Failed
<1> QED BY <1>2, <1>3, <1>4

LEMMA ScanFacts ==
    ASSUME is \in QuitStates
    PROVE  /\ is.b \in 1..(Len(Order) + 1)
           /\ \A st \in {QS_ASK, QS_NOSAVE, QS_SAVE} :
                [is EXCEPT !.state = st] \in QuitStates
           /\ is.b <= Len(Order) =>
                /\ [is EXCEPT !.b = @ + 1] \in QuitStates
                /\ [is EXCEPT !.modified = TRUE, !.b = @ + 1] \in QuitStates
                /\ \A st \in {QS_ASK, QS_NOSAVE, QS_SAVE} :
                     [is EXCEPT !.modified = TRUE, !.b = @ + 1, !.state = st]
                       \in QuitStates
<1>1. /\ is.b \in 1..(Len(Order) + 1)
      /\ is.b <= Len(Order) => is.b + 1 \in 1..(Len(Order) + 1)
  BY OrderFacts DEF QuitStates
<1> QED BY <1>1 DEF QuitStates

LEMMA TypeInit == Init => TypeInv
<1> SUFFICES ASSUME Init PROVE TypeInv
  OBVIOUS
<1>1. 0 \in Version
  BY BoundAssumption DEF Version
<1>2. is \in QuitStates
  BY OrderFacts DEF Init
<1>3. /\ text \in [Buf -> Version] /\ modified \in [Buf -> BOOLEAN]
      /\ file \in [Buf -> Version \cup {Partial, Missing}]
      /\ backup \in [BackupName -> Version \cup {Partial, Missing}]
      /\ kept \in [Buf -> Version] /\ mapped \subseteq Buf
  BY <1>1, FailureAssumption DEF Init
<1> QED
  BY <1>2, <1>3, OrderFacts DEF Init, TypeInv, TypeOK, ControlOK, QuitStates

(* Every way in which save_buffer returns leaves a legal state.            *)
LEMMA ReturnType ==
    ASSUME TypeInv, pc = "save", Return
    PROVE  /\ saving' = Idle
           /\ pc' \in {"edit", "examine"}
           /\ is' \in QuitStates
           /\ confirmed' = confirmed
<1>1. is \in QuitStates
  BY DEF TypeInv, TypeOK, QuitStates
<1>2. saving.caller \in Callers
      /\ (saving.caller = "quit" => is.b <= Len(Order))
  BY DEF TypeInv, ControlOK
<1> QED BY <1>1, <1>2, ScanFacts DEF Return

LEMMA SaveStepType ==
    ASSUME TypeInv, SaveStep
    PROVE  TypeInv'
<1>1. PICK x \in {saving.b} :
        BackupOldFile(x) \/ OpenFile(x) \/ WriteFile(x) \/ BusError(x)
  BY DEF SaveStep
<1>2. pc = "save" /\ x = saving.b /\ x \in Buf /\ BackupOf[x] \in BackupName
  BY BackupAssumption DEF SaveStep, TypeInv, TypeOK
<1>0. /\ saving.caller \in Callers
      /\ Fails => failed' \subseteq Buf \X Callers
      /\ failed' = {p \in failed : p[1] # saving.b} =>
           failed' \subseteq Buf \X Callers
      /\ failed \subseteq Buf \X Callers
  BY <1>2, FailedFacts DEF TypeInv, TypeOK, ControlOK
<1>3. CASE BackupOldFile(x)
  <2>0. failed' \subseteq Buf \X Callers
    BY <1>0, <1>3 DEF BackupOldFile
  <2>1. backup' \in [BackupName -> Version \cup {Partial, Missing}]
    BY <1>2, <1>3 DEF BackupOldFile, TypeInv, TypeOK
  <2>2. file' \in [Buf -> Version \cup {Partial, Missing}]
    BY <1>2, <1>3 DEF BackupOldFile, TypeInv, TypeOK
  <2>3. mapped' \subseteq Buf
    BY <1>3 DEF BackupOldFile, TypeInv, TypeOK
  <2> QED
    BY <1>2, <1>3, <2>0, <2>1, <2>2, <2>3
       DEF BackupOldFile, TypeInv, TypeOK, ControlOK, Step
<1>4. CASE OpenFile(x)
  <2>0. failed' \subseteq Buf \X Callers
    BY <1>0, <1>4 DEF OpenFile
  <2>1. file' \in [Buf -> Version \cup {Partial, Missing}]
    BY <1>2, <1>4 DEF OpenFile, TypeInv, TypeOK
  <2>2. CASE Return
    BY <1>2, <1>4, <2>0, <2>1, <2>2, ReturnType, OrderFacts
       DEF OpenFile, TypeInv, TypeOK, ControlOK, QuitStates
  <2>3. CASE ~Return
    BY <1>2, <1>4, <2>0, <2>1, <2>3
       DEF OpenFile, TypeInv, TypeOK, ControlOK, Step
  <2> QED BY <2>2, <2>3
<1>5. CASE WriteFile(x)
  <2>1. /\ file' \in [Buf -> Version \cup {Partial, Missing}]
        /\ modified' \in [Buf -> BOOLEAN]
        /\ kept' \in [Buf -> Version]
    <3>1. text[x] \in Version
      BY <1>2 DEF TypeInv, TypeOK
    <3>2. file' \in [Buf -> Version \cup {Partial, Missing}]
      BY <1>2, <1>5, <3>1 DEF WriteFile, TypeInv, TypeOK
    <3>3. modified' \in [Buf -> BOOLEAN]
      BY <1>2, <1>5 DEF WriteFile, TypeInv, TypeOK
    <3>4. kept' \in [Buf -> Version]
      BY <1>2, <1>5, <3>1 DEF WriteFile, TypeInv, TypeOK
    <3> QED BY <3>2, <3>3, <3>4
  <2>2. /\ saving' = Idle /\ pc' \in {"edit", "examine"}
        /\ is' \in QuitStates /\ confirmed' = confirmed
    BY <1>2, <1>5, ReturnType DEF WriteFile
  <2>3. UNCHANGED <<text, backup, mapped>> /\ failed' \subseteq Buf \X Callers
    BY <1>0, <1>2, <1>5 DEF WriteFile
  <2>4. TypeOK'
    BY <2>1, <2>2, <2>3, OrderFacts DEF TypeInv, TypeOK, QuitStates
  <2> QED
    BY <2>2, <2>4, OrderFacts DEF TypeInv, ControlOK
<1>6. CASE BusError(x)
  BY <1>6 DEF BusError, bufs, TypeInv, TypeOK, ControlOK
<1> QED BY <1>1, <1>3, <1>4, <1>5, <1>6

LEMMA QuitType ==
    ASSUME TypeInv,
           \/ do_quit
           \/ quit_examine_buffers
           \/ \E ch \in Answers : quit_key(ch)
           \/ \E yes \in BOOLEAN : quit_confirm_cb(yes)
    PROVE  TypeInv'
<1>1. CASE do_quit
  <2>1. is' \in QuitStates
    BY <1>1, OrderFacts DEF do_quit
  <2> QED
    BY <1>1, <2>1 DEF do_quit, bufs, TypeInv, TypeOK, ControlOK, QuitStates
<1>2. CASE quit_examine_buffers
  <2>0. is \in QuitStates
    BY DEF TypeInv, TypeOK, QuitStates
  <2>1. is.b \in 1..(Len(Order) + 1) /\ pc = "examine" /\ saving.step = "none"
    BY <1>2, <2>0, ScanFacts DEF quit_examine_buffers, TypeInv, ControlOK
  <2>2. is.b <= Len(Order) => Order[is.b] \in Buf
    BY <2>1, OrderFacts
  <2>3. CASE pc' = "save"
    <3>1. /\ is.b <= Len(Order) /\ is' = is
          /\ saving' = Call(Order[is.b], "quit") /\ "quit" \in Callers
      BY <1>2, <2>1, <2>3, OrderFacts DEF quit_examine_buffers, Callers
    <3> QED
      BY <1>2, <2>1, <2>2, <2>3, <3>1, CallFacts
         DEF quit_examine_buffers, bufs, TypeInv, TypeOK, ControlOK
  <2>4. CASE pc' # "save"
    <3>1. saving' = saving
      BY <1>2, <2>4 DEF quit_examine_buffers
    <3>2. is' \in QuitStates
      <4>1. is.b <= Len(Order) \/ is.b > Len(Order)
        BY <2>1, OrderFacts
      <4>2. is' \in {is, FirstBuffer, [is EXCEPT !.modified = TRUE, !.b = @ + 1],
                    [is EXCEPT !.b = @ + 1]}
        BY <1>2 DEF quit_examine_buffers
      <4>3. is.b > Len(Order) => is' \in {is, FirstBuffer}
        BY <1>2 DEF quit_examine_buffers
      <4> QED BY <2>0, <4>1, <4>2, <4>3, ScanFacts, OrderFacts
    <3>3. pc' \in {"examine", "quit_key", "confirm", "exited"}
      BY <1>2, <2>1, <2>4 DEF quit_examine_buffers
    <3>4. pc' = "quit_key" =>
            is' = is /\ is.b <= Len(Order) /\ modified[Order[is.b]]
      BY <1>2, <2>1, <2>4, OrderFacts DEF quit_examine_buffers
    <3> QED
      BY <1>2, <2>1, <3>1, <3>2, <3>3, <3>4
         DEF quit_examine_buffers, bufs, TypeInv, TypeOK, ControlOK, QuitStates
  <2> QED BY <2>3, <2>4
<1>3. CASE \E ch \in Answers : quit_key(ch)
  <2>1. PICK ch \in Answers : quit_key(ch)
    BY <1>3
  <2>2. /\ pc = "quit_key" /\ saving.step = "none"
        /\ is.b \in 1..Len(Order) /\ Order[is.b] \in Buf
    <3>1. is \in QuitStates
      BY DEF TypeInv, TypeOK, QuitStates
    <3>2. pc = "quit_key" /\ saving.step = "none" /\ is.b <= Len(Order)
      BY <2>1 DEF quit_key, TypeInv, ControlOK
    <3> QED BY <3>1, <3>2, ScanFacts, OrderFacts
  <2>3. is' \in QuitStates
    <3>1. is \in QuitStates /\ is.state \in {QS_ASK, QS_NOSAVE, QS_SAVE}
      BY DEF TypeInv, TypeOK, QuitStates
    <3>2. is.b <= Len(Order)
      BY <2>2, OrderFacts
    <3>3. \/ \E st \in {QS_ASK, QS_NOSAVE, QS_SAVE} : is' = [is EXCEPT !.state = st]
          \/ \E st \in {QS_ASK, QS_NOSAVE, QS_SAVE} :
               is' = [is EXCEPT !.modified = TRUE, !.b = @ + 1, !.state = st]
          \/ is' = FirstBuffer
      BY <2>1, <3>1 DEF quit_key
    <3>4. FirstBuffer \in QuitStates
      BY OrderFacts DEF FirstBuffer, QuitStates
    <3> QED BY <3>1, <3>2, <3>3, <3>4, ScanFacts
  <2>4. CASE ch \in {"y", "!", "."}
    <3>1. is'.b = is.b /\ is'.b <= Len(Order)
      <4>1. is' = [is EXCEPT !.state = IF ch = "!" THEN QS_SAVE
                             ELSE IF ch = "." THEN QS_NOSAVE ELSE @]
        BY <2>1, <2>4 DEF quit_key
      <4>2. is \in QuitStates
        BY DEF TypeInv, TypeOK, QuitStates
      <4>3. is'.b = is.b
        BY <4>1, <4>2 DEF QuitStates
      <4> QED BY <2>2, <4>3, OrderFacts
    <3>2. pc' = "save" /\ saving' = Call(Order[is.b], "quit")
          /\ UNCHANGED <<bufs, confirmed>>
      BY <2>1, <2>4 DEF quit_key
    <3>3. /\ saving' \in [step : Step, b : Buf,
                          caller : Callers \cup {"none"}]
          /\ saving'.step = "rename" /\ saving'.b = Order[is.b]
          /\ saving'.caller = "quit"
      BY <2>2, <3>2, CallFacts DEF Callers
    <3>4. TypeOK'
      BY <2>3, <3>2, <3>3 DEF TypeInv, TypeOK, bufs, QuitStates
    <3> QED BY <3>1, <3>2, <3>3, <3>4 DEF TypeInv, ControlOK
  <2>5. CASE ch \notin {"y", "!", "."}
    BY <2>1, <2>2, <2>3, <2>5, OrderFacts
       DEF quit_key, bufs, TypeInv, TypeOK, ControlOK, QuitStates
  <2> QED BY <2>4, <2>5
<1>4. CASE \E yes \in BOOLEAN : quit_confirm_cb(yes)
  BY <1>4 DEF quit_confirm_cb, bufs, TypeInv, TypeOK, ControlOK
<1> QED BY <1>1, <1>2, <1>3, <1>4

LEMMA TypeStep == TypeInv /\ [Next]_vars => TypeInv'
<1> SUFFICES ASSUME TypeInv, [Next]_vars PROVE TypeInv'
  OBVIOUS
<1>1. ASSUME NEW x \in Buf, Edit(x) PROVE TypeInv'
  <2>1. text[x] + 1 \in Version
    BY <1>1, BoundAssumption DEF Edit, TypeInv, TypeOK, Version
  <2>2. text' \in [Buf -> Version] /\ modified' \in [Buf -> BOOLEAN]
    BY <1>1, <2>1 DEF Edit, TypeInv, TypeOK
  <2> QED BY <1>1, <2>2 DEF Edit, TypeInv, TypeOK, ControlOK
<1>2. ASSUME NEW x \in Buf, do_save(x) \/ save_edit_cb(x) PROVE TypeInv'
  BY <1>2, CallFacts
     DEF do_save, save_edit_cb, Callers, bufs, TypeInv, TypeOK, ControlOK
<1>3. CASE Kill
  BY <1>3 DEF Kill, bufs, TypeInv, TypeOK, ControlOK
<1>4. CASE UNCHANGED vars
  BY <1>4 DEF vars, bufs, TypeInv, TypeOK, ControlOK
<1> QED
  BY <1>1, <1>2, <1>3, <1>4, SaveStepType, QuitType
     DEF Next, quit_other_key, Ended

(* Type correctness of SaveQuit for every set of buffers and every failure *)
(* (buffer.c, save_buffer; qe.c, do_quit): the scan of the buffers never   *)
(* leaves the list, and no file or backup holds anything but a version, a  *)
(* part of one, or nothing.                                                *)
THEOREM SaveQuitType == Spec => []TypeOK
<1>1. Spec => []TypeInv
  BY TypeInit, TypeStep, PTL DEF Spec
<1> QED BY <1>1, PTL DEF TypeInv

---------------------------------------------------------------------------
(* A crash between two steps of a save.                                    *)

(* A file is complete until its old contents are in the backup, unless a   *)
(* call failed.                                                            *)
BackupFirst ==
    \A x \in Buf : ~Failed(x) =>
      IF saving.b = x /\ saving.step \in {"open", "write"}
      THEN backup[BackupOf[x]] = kept[x]
      ELSE file[x] = kept[x]

(* Outside save_buffer nothing is written, and a call of it begins at its  *)
(* first step.                                                             *)
LEMMA NoSaveStep ==
    ASSUME TypeInv, [Next]_vars, ~SaveStep
    PROVE  /\ UNCHANGED <<file, backup, kept, failed>>
           /\ \/ saving' = saving
              \/ saving.step = "none" /\ saving'.step = "rename"
<1>1. ASSUME NEW x \in Buf, Edit(x) \/ do_save(x) \/ save_edit_cb(x)
      PROVE  /\ UNCHANGED <<file, backup, kept, failed>>
             /\ \/ saving' = saving
                \/ saving.step = "none" /\ saving'.step = "rename"
  BY <1>1 DEF Edit, do_save, save_edit_cb, Call, bufs, TypeInv, ControlOK
<1>2. ASSUME NEW ch \in Answers, quit_key(ch)
      PROVE  /\ UNCHANGED <<file, backup, kept, failed>>
             /\ \/ saving' = saving
                \/ saving.step = "none" /\ saving'.step = "rename"
  BY <1>2 DEF quit_key, Call, bufs, TypeInv, ControlOK
<1>3. ASSUME quit_examine_buffers
      PROVE  /\ UNCHANGED <<file, backup, kept, failed>>
             /\ \/ saving' = saving
                \/ saving.step = "none" /\ saving'.step = "rename"
  BY <1>3 DEF quit_examine_buffers, Call, bufs, TypeInv, ControlOK
<1>4. ASSUME \/ do_quit \/ quit_other_key \/ Kill \/ Ended \/ UNCHANGED vars
             \/ \E yes \in BOOLEAN : quit_confirm_cb(yes)
      PROVE  UNCHANGED <<file, backup, kept, failed>> /\ saving' = saving
  BY <1>4 DEF do_quit, quit_other_key, quit_confirm_cb, Kill, Ended, vars, bufs
<1> QED BY <1>1, <1>2, <1>3, <1>4 DEF Next

LEMMA BackupFirstStep ==
    ASSUME TypeInv, BackupFirst, [Next]_vars
    PROVE  BackupFirst'
<1>1. CASE SaveStep
  <2>1. PICK y \in {saving.b} :
          BackupOldFile(y) \/ OpenFile(y) \/ WriteFile(y) \/ BusError(y)
    BY <1>1 DEF SaveStep
  <2>2. y = saving.b /\ y \in Buf /\ pc = "save"
    BY <1>1 DEF SaveStep, TypeInv, TypeOK
  <2>0. saving.caller \in Callers /\ TypeOK /\ BackupOf \in [Buf -> BackupName]
    BY <2>2, BackupAssumption DEF TypeInv, ControlOK
  <2> SUFFICES ASSUME NEW x \in Buf, ~Failed(x)'
               PROVE  IF saving'.b = x /\ saving'.step \in {"open", "write"}
                      THEN backup'[BackupOf[x]] = kept'[x]
                      ELSE file'[x] = kept'[x]
    BY DEF BackupFirst
  <2>3. CASE BackupOldFile(y)
    <3>1. ~Failed(x)
      BY <2>0, <2>2, <2>3, FailedFacts DEF BackupOldFile
    <3>2. CASE x = y
      <4>1. file[y] = kept[y] /\ file[y] # Missing /\ ~Fails
        BY <2>0, <2>2, <2>3, <3>1, <3>2, FailedFacts
           DEF BackupOldFile, BackupFirst, TypeOK, Missing, Version
      <4> QED
        BY <2>0, <2>2, <2>3, <3>2, <4>1 DEF BackupOldFile, TypeOK
    <3>3. CASE x # y
      BY <2>0, <2>2, <2>3, <3>1, <3>3 DEF BackupOldFile, BackupFirst, TypeOK
    <3> QED BY <3>2, <3>3
  <2>4. CASE OpenFile(y)
    <3>1. ~Failed(x)
      BY <2>0, <2>2, <2>4, FailedFacts DEF OpenFile
    <3>2. CASE Fails
      <4>1. x # y
        BY <2>0, <2>2, <3>2, FailedFacts
      <4>2. file[x] = kept[x] /\ saving.step = "open" /\ UNCHANGED kept
        BY <2>2, <2>4, <3>1, <4>1 DEF OpenFile, BackupFirst
      <4>3. file'[x] = file[x]
        BY <2>0, <2>2, <2>4, <4>1 DEF OpenFile, TypeOK
      <4>4. saving'.step = "none" \/ saving'.b = y
        BY <2>0, <2>2, <2>4, OrderFacts DEF OpenFile, Return, TypeOK
      <4> QED BY <4>1, <4>2, <4>3, <4>4
    <3>3. CASE ~Fails
      BY <2>0, <2>2, <2>4, <3>1, <3>3 DEF OpenFile, BackupFirst, TypeOK
    <3> QED BY <3>2, <3>3
  <2>5. CASE WriteFile(y)
    <3>1. saving'.step = "none"
      BY <2>5, OrderFacts DEF WriteFile, Return
    <3>2. CASE x = y
      <4>1. ~Fails
        BY <2>0, <2>2, <3>2, FailedFacts
      <4> QED BY <2>0, <2>2, <2>5, <3>1, <3>2, <4>1 DEF WriteFile, TypeOK
    <3>3. CASE x # y
      <4>1. ~Failed(x)
        BY <2>0, <2>2, <2>5, <3>3, FailedFacts DEF WriteFile
      <4> QED
        BY <2>0, <2>2, <2>5, <3>1, <3>3, <4>1 DEF WriteFile, BackupFirst, TypeOK
    <3> QED BY <3>2, <3>3
  <2>6. CASE BusError(y)
    BY <2>6 DEF BusError, bufs, BackupFirst, Failed
  <2> QED BY <2>1, <2>3, <2>4, <2>5, <2>6
<1>2. CASE ~SaveStep
  <2>1. /\ UNCHANGED <<file, backup, kept, failed>>
        /\ \/ saving' = saving
           \/ saving.step = "none" /\ saving'.step = "rename"
    BY <1>2, NoSaveStep
  <2> QED BY <2>1 DEF BackupFirst, Failed
<1> QED BY <1>1, <1>2

(* However the editor ends while it saves, the last complete version of    *)
(* every file is in the file or in its backup, also where files of several *)
(* directories share one backup name, until a system call of its own save  *)
(* fails (buffer.c, save_buffer): the old file is renamed before the new   *)
(* one is opened, and files are saved one at a time.                       *)
THEOREM SaveRecoverable == Spec => []Recoverable
<1>1. Init => BackupFirst
  BY OrderFacts DEF Init, BackupFirst
<1>2. TypeInv /\ BackupFirst /\ [Next]_vars => BackupFirst'
  BY BackupFirstStep
<1>3. BackupFirst => Recoverable
  BY DEF BackupFirst, Recoverable
<1> QED BY <1>1, <1>2, <1>3, TypeInit, TypeStep, PTL DEF Spec

---------------------------------------------------------------------------
(* Saves that fail, and leaving the editor.                                *)

(* A buffer that is not modified is on disk or being saved, and one that   *)
(* is being saved under its own name is modified.                          *)
CleanInv ==
    /\ CleanIsOnDisk
    /\ pc = "save" /\ saving.caller # "save_edit_cb" => modified[saving.b]

LEMMA CleanStep ==
    ASSUME TypeInv, CleanInv, [Next]_vars
    PROVE  CleanInv'
<1>1. CASE SaveStep
  <2>1. PICK y \in {saving.b} :
          BackupOldFile(y) \/ OpenFile(y) \/ WriteFile(y) \/ BusError(y)
    BY <1>1 DEF SaveStep
  <2>2. y = saving.b /\ y \in Buf /\ pc = "save" /\ saving.step # "none"
    BY <1>1 DEF SaveStep, TypeInv, TypeOK, ControlOK
  <2>0. saving.caller \in Callers /\ TypeOK /\ "save_edit_cb" \in Callers
    BY <2>2 DEF TypeInv, ControlOK, Callers
  <2> DEFINE OnDisk(x) == ~modified[x] /\ ~Saving(x)
                          /\ <<x, "save_edit_cb">> \notin failed => file[x] = text[x]
  <2>a. ASSUME NEW x \in Buf, x # y PROVE OnDisk(x)'
    <3>1. OnDisk(x) /\ ~Saving(x)
      BY <2>2, <2>a DEF CleanInv, CleanIsOnDisk, Saving
    <3>2. modified'[x] = modified[x] /\ file'[x] = file[x] /\ text' = text
      BY <2>0, <2>1, <2>2, <2>a
         DEF BackupOldFile, OpenFile, WriteFile, BusError, bufs, TypeOK
    <3>3. <<x, "save_edit_cb">> \in failed' <=> <<x, "save_edit_cb">> \in failed
      BY <2>0, <2>1, <2>2, <2>a, FailedFacts
         DEF BackupOldFile, OpenFile, WriteFile, BusError, bufs
    <3> QED BY <3>1, <3>2, <3>3
  <2>3. CASE BackupOldFile(y)
    <3>1. saving' = [saving EXCEPT !.step = "open"] /\ UNCHANGED <<modified, pc>>
      BY <2>3 DEF BackupOldFile
    <3>2. Saving(y)' /\ saving'.b = saving.b /\ saving'.caller = saving.caller
      BY <2>0, <2>2, <3>1 DEF Saving, TypeOK
    <3> QED BY <2>2, <2>a, <3>1, <3>2 DEF CleanInv, CleanIsOnDisk
  <2>4. CASE OpenFile(y)
    <3>1. CASE Fails /\ Return /\ UNCHANGED file
      <4>1. pc' # "save" /\ UNCHANGED <<text, modified>>
        BY <2>4, <3>1 DEF OpenFile, Return
      <4>2. modified'[y] \/ <<y, "save_edit_cb">> \in failed'
        BY <2>0, <2>2, <3>1, <4>1, FailedFacts DEF CleanInv
      <4> QED BY <2>2, <2>a, <4>1, <4>2 DEF CleanInv, CleanIsOnDisk
    <3>2. CASE ~(Fails /\ Return /\ UNCHANGED file)
      <4>1. saving' = [saving EXCEPT !.step = "write"] /\ UNCHANGED <<modified, pc>>
        BY <2>4, <3>2 DEF OpenFile
      <4>2. Saving(y)' /\ saving'.b = saving.b /\ saving'.caller = saving.caller
        BY <2>0, <2>2, <4>1 DEF Saving, TypeOK
      <4> QED BY <2>2, <2>a, <4>1, <4>2 DEF CleanInv, CleanIsOnDisk
    <3> QED BY <3>1, <3>2
  <2>5. CASE WriteFile(y)
    <3>1. pc' # "save" /\ text' = text
      BY <2>5 DEF WriteFile, Return
    <3>2. CASE file' = [file EXCEPT ![y] = text[y]]
      BY <2>0, <2>2, <2>a, <3>1, <3>2 DEF CleanInv, CleanIsOnDisk, TypeOK
    <3>3. CASE file' # [file EXCEPT ![y] = text[y]]
      <4>1. Fails /\ UNCHANGED modified
        BY <2>5, <3>3 DEF WriteFile
      <4>2. modified'[y] \/ <<y, "save_edit_cb">> \in failed'
        BY <2>0, <2>2, <4>1, FailedFacts DEF CleanInv
      <4> QED BY <2>2, <2>a, <3>1, <4>2 DEF CleanInv, CleanIsOnDisk
    <3> QED BY <3>2, <3>3
  <2>6. CASE BusError(y)
    BY <2>6 DEF BusError, bufs, CleanInv, CleanIsOnDisk, Saving
  <2> QED BY <2>1, <2>3, <2>4, <2>5, <2>6
<1>2. ASSUME NEW x \in Buf, Edit(x) PROVE CleanInv'
  BY <1>2 DEF Edit, CleanInv, CleanIsOnDisk, Saving, TypeInv, TypeOK
<1>3. ASSUME NEW x \in Buf, do_save(x) \/ save_edit_cb(x) PROVE CleanInv'
  <2>1. /\ UNCHANGED bufs /\ saving.step = "none" /\ pc' = "save"
        /\ saving'.b = x
        /\ saving'.caller # "save_edit_cb" => modified[x]
    BY <1>3, CallFacts
       DEF do_save, save_edit_cb, Callers, TypeInv, ControlOK
  <2> QED BY <2>1 DEF bufs, CleanInv, CleanIsOnDisk, Saving
<1>4. CASE quit_examine_buffers
  <2>1. UNCHANGED bufs /\ saving.step = "none"
    BY <1>4 DEF quit_examine_buffers, TypeInv, ControlOK
  <2>2. pc' = "save" => modified[Order[is.b]] /\ saving'.b = Order[is.b]
    BY <1>4 DEF quit_examine_buffers, Call
  <2> QED BY <2>1, <2>2 DEF bufs, CleanInv, CleanIsOnDisk, Saving
<1>5. ASSUME NEW ch \in Answers, quit_key(ch) PROVE CleanInv'
  <2>1. /\ UNCHANGED bufs /\ saving.step = "none"
        /\ modified[Order[is.b]]
    BY <1>5 DEF quit_key, TypeInv, ControlOK
  <2>2. pc' = "save" => saving'.b = Order[is.b]
    BY <1>5 DEF quit_key, Call
  <2> QED BY <2>1, <2>2 DEF bufs, CleanInv, CleanIsOnDisk, Saving
<1>6. CASE \/ do_quit \/ quit_other_key \/ Kill \/ Ended \/ UNCHANGED vars
           \/ \E yes \in BOOLEAN : quit_confirm_cb(yes)
  BY <1>6 DEF do_quit, quit_other_key, quit_confirm_cb, Kill, Ended, vars, bufs,
     CleanInv, CleanIsOnDisk, Saving
<1> QED BY <1>1, <1>2, <1>3, <1>4, <1>5, <1>6 DEF Next

LEMMA CleanInit == Init => CleanInv
BY DEF Init, CleanInv, CleanIsOnDisk

(* A buffer that the editor shows as unmodified is on disk, whichever      *)
(* system calls of save_buffer (buffer.c) fail and whenever, unless the    *)
(* save was one of write-file: save_buffer resets the flag after the last  *)
(* of them, and the other callers only save modified buffers.              *)
THEOREM CleanBuffersOnDisk == Spec => []CleanIsOnDisk
<1>1. TypeInv /\ CleanInv /\ [Next]_vars => CleanInv'
  BY CleanStep
<1>2. CleanInv => CleanIsOnDisk
  BY DEF CleanInv
<1> QED BY <1>1, <1>2, CleanInit, TypeInit, TypeStep, PTL DEF Spec

(* A buffer with changes that no save has been tried for.                  *)
Unsaved(x) == modified[x] /\ ~Failed(x)

(* The scan has passed no such buffer, or knows that it did.               *)
Scanned == is.modified \/ \A i \in 1..(is.b - 1) : ~Unsaved(Order[i])

QuitInv ==
    /\ pc \in {"examine", "quit_key"} => Scanned
    /\ pc = "save" /\ saving.caller = "quit" => Scanned
    /\ pc = "exited" /\ ~confirmed => \A x \in Buf : ~Unsaved(x)

(* A step of a save leaves no buffer unsaved that was not, and not the one *)
(* that it has come to the end of.                                         *)
LEMMA UnsavedStep ==
    ASSUME TypeInv, NEW y \in Buf, y = saving.b, pc = "save",
           BackupOldFile(y) \/ OpenFile(y) \/ WriteFile(y)
    PROVE  /\ \A x \in Buf : Unsaved(x)' => Unsaved(x)
           /\ Return => ~Unsaved(y)'
           /\ \/ Return
              \/ UNCHANGED <<pc, is, confirmed>> /\ saving'.caller = saving.caller
<1>1. saving.caller \in Callers /\ TypeOK
  BY DEF TypeInv, ControlOK
<1>2. ASSUME NEW x \in Buf, Unsaved(x)' PROVE Unsaved(x)
  <2>1. CASE BackupOldFile(y) \/ OpenFile(y)
    BY <1>1, <1>2, <2>1, FailedFacts DEF BackupOldFile, OpenFile, Unsaved
  <2>2. CASE WriteFile(y)
    <3>1. x # y
      BY <1>1, <1>2, <2>2, FailedFacts DEF WriteFile, Unsaved, TypeOK
    <3>2. modified'[x] = modified[x] /\ (Failed(x)' <=> Failed(x))
      BY <1>1, <2>2, <3>1, FailedFacts DEF WriteFile, TypeOK
    <3> QED BY <1>2, <3>2 DEF Unsaved
  <2> QED BY <2>1, <2>2
<1>3. ASSUME Return PROVE ~Unsaved(y)'
  <2>1. pc' # "save"
    BY <1>3 DEF Return
  <2>2. CASE BackupOldFile(y)
    BY <2>1, <2>2 DEF BackupOldFile
  <2>3. CASE OpenFile(y)
    BY <1>1, <2>1, <2>3, FailedFacts DEF OpenFile, Unsaved
  <2>4. CASE WriteFile(y)
    BY <1>1, <2>4, FailedFacts DEF WriteFile, Unsaved, TypeOK
  <2> QED BY <2>2, <2>3, <2>4
<1>4. Return \/ (UNCHANGED <<pc, is, confirmed>> /\ saving'.caller = saving.caller)
  BY <1>1 DEF BackupOldFile, OpenFile, WriteFile, TypeOK
<1> QED BY <1>2, <1>3, <1>4

LEMMA QuitStep ==
    ASSUME TypeInv, QuitInv, [Next]_vars
    PROVE  QuitInv'
<1>0. is \in QuitStates /\ is.b \in Nat
  BY ScanFacts, OrderFacts DEF TypeInv, TypeOK, QuitStates
<1>a. UNCHANGED bufs => \A x : Unsaved(x)' <=> Unsaved(x)
  BY DEF bufs, Unsaved, Failed
<1>1. CASE SaveStep
  <2>1. PICK y \in {saving.b} :
          BackupOldFile(y) \/ OpenFile(y) \/ WriteFile(y) \/ BusError(y)
    BY <1>1 DEF SaveStep
  <2>2. y = saving.b /\ y \in Buf /\ pc = "save"
    BY <1>1 DEF SaveStep, TypeInv, TypeOK
  <2>3. CASE BusError(y)
    BY <2>3 DEF BusError, QuitInv
  <2>4. CASE ~BusError(y)
    <3>1. /\ \A x \in Buf : Unsaved(x)' => Unsaved(x)
          /\ Return => ~Unsaved(y)'
          /\ \/ Return
             \/ UNCHANGED <<pc, is, confirmed>> /\ saving'.caller = saving.caller
      BY <2>1, <2>2, <2>4, UnsavedStep
    <3>2. CASE ~Return
      <4>1. saving.caller = "quit" => is.b <= Len(Order)
        BY <2>2 DEF TypeInv, ControlOK
      <4>2. saving.caller = "quit" => \A i \in 1..(is.b - 1) : Order[i] \in Buf
        BY <1>0, <4>1, OrderFacts
      <4> QED BY <2>2, <3>1, <3>2, <4>2 DEF QuitInv, Scanned
    <3>3. CASE Return /\ saving.caller # "quit"
      BY <3>3 DEF Return, QuitInv
    <3>4. CASE Return /\ saving.caller = "quit"
      <4>1. pc' = "examine" /\ is' = [is EXCEPT !.b = @ + 1]
        BY <3>4 DEF Return
      <4>2. is'.b = is.b + 1 /\ is'.modified = is.modified
        BY <1>0, <4>1 DEF QuitStates
      <4>3. saving.b = Order[is.b] /\ Scanned /\ is.b \in 1..Len(Order)
        BY <1>0, <2>2, <3>4, ScanFacts, OrderFacts
           DEF TypeInv, ControlOK, QuitInv
      <4>4. ASSUME NEW i \in 1..(is'.b - 1), ~is.modified
            PROVE  ~Unsaved(Order[i])'
        <5>1. i \in 1..Len(Order) /\ Order[i] \in Buf
          BY <4>2, <4>3, OrderFacts
        <5>2. i = is.b \/ i \in 1..(is.b - 1)
          BY <1>0, <4>2
        <5> QED BY <2>2, <3>1, <3>4, <4>3, <4>4, <5>1, <5>2 DEF Scanned
      <4> QED BY <4>1, <4>2, <4>4 DEF QuitInv, Scanned
    <3> QED BY <3>2, <3>3, <3>4
  <2> QED BY <2>3, <2>4
<1>2. ASSUME NEW x \in Buf, Edit(x) \/ do_save(x) \/ save_edit_cb(x)
      PROVE  QuitInv'
  <2>1. pc' \in {"edit", "save"} /\ (pc' = "save" => saving'.caller # "quit")
    BY <1>2, CallFacts DEF Edit, do_save, save_edit_cb, Callers
  <2> QED BY <2>1 DEF QuitInv
<1>3. CASE quit_examine_buffers
  <2>1. pc = "examine" /\ Scanned /\ UNCHANGED <<bufs, confirmed>>
    BY <1>3 DEF quit_examine_buffers, QuitInv
  <2>2. CASE is.b > Len(Order)
    <3>1. pc' = IF is.modified THEN "confirm" ELSE "exited"
      BY <1>3, <2>2 DEF quit_examine_buffers
    <3>2. ASSUME NEW x \in Buf, ~is.modified PROVE ~Unsaved(x)
      <4>1. PICK i \in 1..Len(Order) : Order[i] = x
        BY OrderFacts
      <4>2. i \in 1..(is.b - 1)
        BY <1>0, <2>2, OrderFacts
      <4> QED BY <2>1, <3>2, <4>1, <4>2 DEF Scanned
    <3> QED BY <1>a, <2>1, <3>1, <3>2 DEF QuitInv
  <2>3. CASE ~(is.b > Len(Order))
    <3>1. pc' \in {"quit_key", "examine", "save"}
      BY <1>3, <2>1, <2>3 DEF quit_examine_buffers
    <3>2. CASE is' = is
      BY <1>a, <2>1, <3>1, <3>2 DEF QuitInv, Scanned
    <3>3. CASE is' # is
      <4>1. \/ is' = [is EXCEPT !.modified = TRUE, !.b = @ + 1]
            \/ is' = [is EXCEPT !.b = @ + 1] /\ ~Unsaved(Order[is.b])
        BY <1>3, <2>3, <3>3 DEF quit_examine_buffers, Unsaved
      <4>2. is'.modified \/ (/\ is'.b = is.b + 1
                             /\ is'.modified = is.modified
                             /\ ~Unsaved(Order[is.b]))
        BY <1>0, <4>1 DEF QuitStates
      <4>3. Scanned'
        BY <1>0, <1>a, <2>1, <4>2 DEF Scanned
      <4> QED BY <3>1, <4>3 DEF QuitInv
    <3> QED BY <3>2, <3>3
  <2> QED BY <2>2, <2>3
<1>4. ASSUME NEW ch \in Answers, quit_key(ch) PROVE QuitInv'
  <2>1. pc = "quit_key" /\ Scanned /\ UNCHANGED <<bufs, confirmed>>
    BY <1>4 DEF quit_key, QuitInv
  <2>2. CASE pc' = "edit"
    BY <2>2 DEF QuitInv
  <2>3. CASE pc' # "edit"
    <3>1. pc' \in {"save", "examine"}
      BY <1>4, <2>3 DEF quit_key
    <3>2. \/ \E st : is' = [is EXCEPT !.state = st]
          \/ \E st : is' = [is EXCEPT !.modified = TRUE, !.b = @ + 1,
                                      !.state = st]
      BY <1>4, <2>3 DEF quit_key
    <3>3. is'.modified \/ (is'.b = is.b /\ is'.modified = is.modified)
      BY <1>0, <3>2 DEF QuitStates
    <3> QED BY <1>a, <2>1, <3>1, <3>3 DEF QuitInv, Scanned
  <2> QED BY <2>2, <2>3
<1>5. CASE do_quit
  <2>1. pc' = "examine" /\ is'.b = 1
    BY <1>5 DEF do_quit, FirstBuffer
  <2> QED BY <2>1 DEF QuitInv, Scanned
<1>6. CASE \E yes \in BOOLEAN : quit_confirm_cb(yes)
  BY <1>6 DEF quit_confirm_cb, QuitInv
<1>7. CASE Kill
  BY <1>7 DEF Kill, QuitInv
<1>8. CASE UNCHANGED vars
  BY <1>8, <1>a DEF vars, QuitInv, Scanned
<1> QED BY <1>1, <1>2, <1>3, <1>4, <1>5, <1>6, <1>7, <1>8
        DEF Next, quit_other_key, Ended

(* The editor never exits with a buffer that differs from its file, unless *)
(* the user said yes to "Modified buffers exist; exit anyway?" or a system *)
(* call of the last save of that very buffer failed (qe.c,                 *)
(* quit_examine_buffers and quit_key): whatever the answers, the scan has  *)
(* tried to save every buffer it passed or remembers that it did not.      *)
THEOREM QuitSavesOrAsks == Spec => []ExitLosesOnlyFailed
<1>1. Init => QuitInv
  BY DEF Init, QuitInv
<1>2. TypeInv /\ QuitInv /\ [Next]_vars => QuitInv'
  BY QuitStep
<1>3. TypeInv /\ CleanInv /\ [Next]_vars => CleanInv'
  BY CleanStep
<1>4. TypeInv /\ CleanInv /\ QuitInv => ExitLosesOnlyFailed
  BY DEF TypeInv, ControlOK, CleanInv, CleanIsOnDisk, Saving, QuitInv, Unsaved,
         Failed, Callers, ExitLosesOnlyFailed
<1> QED BY <1>1, <1>2, <1>3, <1>4, CleanInit, TypeInit, TypeStep, PTL DEF Spec
================================================================================
