---------------------------------- MODULE Shell ---------------------------------
(***************************************************************************)
(* Processes that run in buffers (shell.c) and the event loop (unix.c).    *)
(*                                                                         *)
(* The editor is one thread: url_block waits for descriptors, calls the    *)
(* handlers of those that were ready when select returned, then collects   *)
(* the children that have ended, and starts again.  Keys come in by        *)
(* descriptor 0, so that a command that closes a shell runs in the middle  *)
(* of such a round.  Processes write, read and end at any time.            *)
(*                                                                         *)
(* What a byte of output does to the text is the subject of Terminal; here *)
(* a byte is its number in the output of its process.  There are no timers *)
(* in the program, and the bottom half of a macro is a key like any other. *)
(***************************************************************************)
EXTENDS Integers, Sequences, SequencesExt

CONSTANTS MaxShells,     \* bound: shell buffers that are ever made
          Pid,           \* the process ids; the system may use one again
          MaxFd,         \* bound: descriptors
          ReadSize,      \* bytes that shell_read_cb reads in one call
          PtySize,       \* bytes that a terminal holds in each direction
          MaxOutput,     \* bound: bytes that a process writes
          PtyFails,      \* posix_openpt or fork may fail
          KillWhenReady  \* shells are also closed in a round in which their
                         \* descriptor is ready

ASSUME SizeAssumption == /\ {MaxShells, MaxFd, ReadSize, PtySize, MaxOutput} \subseteq Nat
                         /\ ReadSize > 0 /\ PtySize > 0
ASSUME FailAssumption == {PtyFails, KillWhenReady} \subseteq BOOLEAN

VARIABLES shells,        \* the ShellStates that were allocated, in this order
          handlers,      \* handlers[fd]: read_opaque, or none: read_cb is NULL
          pid_handlers,  \* the list of [pid, opaque]
          proc,          \* proc[p]: running, zombie (not collected yet), or none
          pty,           \* pty[fd]: the pseudo terminal open on fd
          loop,          \* where url_block is
          dangling       \* a call of NULL, or with an opaque that was freed

vars == <<shells, handlers, pid_handlers, proc, pty, loop, dangling>>

Keyboard == 0
Fd       == 1..MaxFd
None     == -1

ASSUME PidAssumption == None \notin Pid

ClosedPty  == [open |-> FALSE, out |-> << >>, in |-> 0]
UnusedPty  == [open |-> TRUE, out |-> << >>, in |-> 0]
SelectNext == [at |-> "select", rfds |-> {}, fd |-> None]

(* A ShellState.  shown is the output in the buffer; finished says whether *)
(* the end of the process was reported; wrote is a history: what it wrote. *)
Fresh(fd, p, is_shell) ==
    [freed |-> FALSE, pty_fd |-> fd, pid |-> p, is_shell |-> is_shell,
     shown |-> << >>, finished |-> FALSE, wrote |-> 0]

Freed == [Fresh(None, None, TRUE) EXCEPT !.freed = TRUE]

Shells == 1..Len(shells)
Live   == {s \in Shells : ~shells[s].freed}

Init ==
    /\ shells = << >>
    /\ handlers = [fd \in Fd |-> None]
    /\ pid_handlers = << >>
    /\ proc = [p \in Pid |-> "none"]
    /\ pty = [fd \in Fd |-> ClosedPty]
    /\ loop = SelectNext
    /\ dangling = FALSE

---------------------------------------------------------------------------
(* The processes (external).                                               *)

OwnerOf(p) == CHOOSE s \in Live : shells[s].pid = p

Runs(p)      == proc[p] = "running"
TerminalOf(p) == shells[OwnerOf(p)].pty_fd

ProcWrite(p) ==
    /\ Runs(p) /\ shells[OwnerOf(p)].wrote < MaxOutput
    /\ Len(pty[TerminalOf(p)].out) < PtySize
    /\ pty' = [pty EXCEPT ![TerminalOf(p)].out =
                 Append(@, shells[OwnerOf(p)].wrote + 1)]
    /\ shells' = [shells EXCEPT ![OwnerOf(p)].wrote = @ + 1]
    /\ UNCHANGED <<handlers, pid_handlers, proc, loop, dangling>>

ProcRead(p) ==
    /\ Runs(p) /\ pty[TerminalOf(p)].in > 0
    /\ pty' = [pty EXCEPT ![TerminalOf(p)].in = @ - 1]
    /\ UNCHANGED <<shells, handlers, pid_handlers, proc, loop, dangling>>

ProcExit(p) ==
    /\ Runs(p)
    /\ proc' = [proc EXCEPT ![p] = "zombie"]
    /\ UNCHANGED <<shells, handlers, pid_handlers, pty, loop, dangling>>

---------------------------------------------------------------------------
(* Making and closing shell buffers: operators on e, a record of the part  *)
(* of the state that they change.                                          *)

Editor == [shells |-> shells, handlers |-> handlers,
           pid_handlers |-> pid_handlers, proc |-> proc, pty |-> pty]

Become(e) ==
    /\ shells' = e.shells /\ handlers' = e.handlers
    /\ pid_handlers' = e.pid_handlers /\ proc' = e.proc /\ pty' = e.pty

set_read_handler(e, fd, s) == [e EXCEPT !.handlers[fd] = s]

(* Mutant: new handlers go to the end of the list.                         *)
AddPidHandler_Last(e, p, s) ==
    [e EXCEPT !.pid_handlers = Append(@, [pid |-> p, opaque |-> s])]

(* set_pid_handler: a new handler goes to the head of the list,            *)
AddPidHandler(e, p, s) ==
    [e EXCEPT !.pid_handlers = <<[pid |-> p, opaque |-> s]>> \o @]

(* and the first one that has the pid is deleted.                          *)
HandlerIndex(e, p) == SelectInSeq(e.pid_handlers, LAMBDA h : h.pid = p)

DeletePidHandler(e, p) ==
    LET i == HandlerIndex(e, p)
    IN  IF i = 0 THEN e ELSE [e EXCEPT !.pid_handlers = RemoveAt(@, i)]

(* Mutant: the descriptor is still watched.                                *)
shell_close_Watches(e, s) ==
    LET x      == e.shells[s]
        killed == IF x.pid = None THEN e
                  ELSE [e EXCEPT !.proc[x.pid] = "none"]
    IN  [killed EXCEPT !.shells[s] = Freed]

(* The buffer is freed: its process is killed and waited for, its          *)
(* descriptor is not watched any more, but it stays open, and the handler  *)
(* of the process stays too.                                               *)
shell_close(e, s) ==
    LET x       == e.shells[s]
        killed  == IF x.pid = None THEN e
                   ELSE [e EXCEPT !.proc[x.pid] = "none"]
        removed == IF x.pty_fd = None THEN killed
                   ELSE [set_read_handler(killed, x.pty_fd, None) EXCEPT
                           !.pty[x.pty_fd] = UnusedPty]
    IN  [removed EXCEPT !.shells[s] = Freed]

FreeFds(e) == {fd \in Fd : ~e.pty[fd].open}

(* The pseudo terminal gets the first free descriptor.                     *)
get_pty(e) == CHOOSE f \in FreeFds(e) : \A g \in FreeFds(e) : f <= g

(* The process gets an id p that is free.                                  *)
run_process(e, fd, p) ==
    [e EXCEPT !.proc[p] = "running", !.pty[fd] = UnusedPty]

new_shell_buffer(e, is_shell, p) ==
    LET fd   == get_pty(e)
        s    == Len(e.shells) + 1
        made == [run_process(e, fd, p) EXCEPT
                   !.shells = Append(@, Fresh(fd, p, is_shell))]
    IN  AddPidHandler(set_read_handler(made, fd, s), p, s)

(* run_process has failed: the buffer is freed with a descriptor that was  *)
(* never set.                                                              *)
FailedShell(e, fd) == IF fd = None THEN e ELSE set_read_handler(e, fd, None)

---------------------------------------------------------------------------
(* Commands: handler of descriptor 0.                                      *)

(* url_block is about to call the handler of fd.                           *)
Calling(fd) ==
    /\ loop.at = "handlers" /\ fd \in loop.rfds
    /\ \A g \in loop.rfds : fd <= g

NextHandler(fd) == [loop EXCEPT !.rfds = @ \ {fd}]

(* A command that closes shell s can be given.                             *)
MayClose(s) == KillWhenReady \/ shells[s].pty_fd \notin loop.rfds

do_kill_buffer(s) ==
    /\ Calling(Keyboard)
    /\ MayClose(s)
    /\ Become(shell_close(Editor, s))
    /\ loop' = NextHandler(Keyboard)
    /\ UNCHANGED dangling

(* A shell is made, or run_process fails.                                  *)
Launch(e, is_shell) ==
    /\ Len(e.shells) < MaxShells
    /\ \/ \E p \in {q \in Pid : e.proc[q] = "none"} :
            FreeFds(e) # {} /\ Become(new_shell_buffer(e, is_shell, p))
       \/ \E fd \in IF PtyFails THEN Fd \cup {None} ELSE {} :
            Become(FailedShell(e, fd))

do_shell ==
    /\ Calling(Keyboard)
    /\ Launch(Editor, TRUE)
    /\ loop' = NextHandler(Keyboard)
    /\ UNCHANGED dangling

Compilation == {s \in Live : ~shells[s].is_shell}

(* The old *compilation* buffer is killed first.                           *)
do_compile ==
    /\ Calling(Keyboard)
    /\ \A s \in Compilation : MayClose(s)
    /\ \E e \in {IF Compilation = {} THEN Editor
                ELSE shell_close(Editor, CHOOSE s \in Compilation : TRUE)} :
         Launch(e, FALSE)
    /\ loop' = NextHandler(Keyboard)
    /\ UNCHANGED dangling

(* A key in a window in which keys go to the process: tty_write begins.    *)
shell_write_char(s) ==
    /\ Calling(Keyboard)
    /\ shells[s].is_shell
    /\ loop' = [NextHandler(Keyboard) EXCEPT
                  !.at = "write", !.fd = shells[s].pty_fd]
    /\ UNCHANGED <<shells, handlers, pid_handlers, proc, pty, dangling>>

(* Any other key.                                                          *)
OtherKey ==
    /\ Calling(Keyboard)
    /\ loop' = NextHandler(Keyboard)
    /\ UNCHANGED <<shells, handlers, pid_handlers, proc, pty, dangling>>

(* The process that has the other end of the terminal, if it lives.        *)
Reader(fd) == {p \in Pid : Runs(p) /\ TerminalOf(p) = fd}

(* The end of the loop of tty_write: nobody reads any more, or the byte is *)
(* written.  As long as the terminal is full the loop goes on (EAGAIN).    *)
tty_write ==
    /\ loop.at = "write"
    /\ \/ Reader(loop.fd) = {} /\ UNCHANGED pty
       \/ /\ Reader(loop.fd) # {} /\ pty[loop.fd].in < PtySize
          /\ pty' = [pty EXCEPT ![loop.fd].in = @ + 1]
    /\ loop' = [loop EXCEPT !.at = "handlers", !.fd = None]
    /\ UNCHANGED <<shells, handlers, pid_handlers, proc, dangling>>

---------------------------------------------------------------------------
(* url_block.                                                              *)

(* A descriptor is ready if there is output, or if the process has ended.  *)
Ready == {fd \in Fd : /\ handlers[fd] # None
                      /\ pty[fd].out # << >> \/ Reader(fd) = {}}

select ==
    /\ loop.at = "select"
    /\ \E keys \in {{}, {Keyboard}} :
         loop' = [loop EXCEPT !.at = "handlers", !.rfds = Ready \cup keys]
    /\ UNCHANGED <<shells, handlers, pid_handlers, proc, pty, dangling>>

Taken(out) == SubSeq(out, 1, IF Len(out) < ReadSize THEN Len(out) ELSE ReadSize)

(* The handler of a terminal is called: NULL if it was removed since.      *)
shell_read_cb(fd) ==
    /\ Calling(fd)
    /\ LET s    == handlers[fd]
           some == Taken(pty[fd].out)
       IN  IF s = None \/ s \notin Live
           THEN dangling' = TRUE /\ UNCHANGED <<shells, pty>>
           ELSE /\ shells' = [shells EXCEPT ![s].shown = @ \o some]
                /\ pty' = [pty EXCEPT ![fd].out =
                             SubSeq(@, Len(some) + 1, Len(@))]
                /\ UNCHANGED dangling
    /\ loop' = NextHandler(fd)
    /\ UNCHANGED <<handlers, pid_handlers, proc>>

(* All handlers were called: children that have ended are collected.       *)
Reaping == loop.at = "handlers" /\ loop.rfds = {}

(* Mutant: the process id stays.                                           *)
shell_pid_cb_KeepsPid(e, s) ==
    LET x       == e.shells[s]
        told    == DeletePidHandler([e EXCEPT !.shells[s].finished = TRUE], x.pid)
        removed == IF x.pty_fd = None THEN told
                   ELSE [set_read_handler(told, x.pty_fd, None) EXCEPT
                           !.pty[x.pty_fd] = ClosedPty]
    IN  [removed EXCEPT !.shells[s].pty_fd = None]

(* The process of s has ended, and was collected.                          *)
shell_pid_cb(e, s) ==
    LET x       == e.shells[s]
        told    == DeletePidHandler([e EXCEPT !.shells[s].finished = TRUE], x.pid)
        removed == IF x.pty_fd = None THEN told
                   ELSE [set_read_handler(told, x.pty_fd, None) EXCEPT
                           !.pty[x.pty_fd] = ClosedPty]
    IN  [removed EXCEPT !.shells[s].pid = None, !.shells[s].pty_fd = None]

Zombies == {p \in Pid : proc[p] = "zombie"}

(* Mutant: only the first handler of the list is looked at.                *)
waitpid_FirstHandler(p) ==
    /\ Reaping /\ pid_handlers # << >> /\ p \in Zombies
    /\ LET e == [Editor EXCEPT !.proc[p] = "none"]
           h == Head(pid_handlers)
       IN  IF h.pid # p THEN Become(e) /\ UNCHANGED dangling
           ELSE /\ Become(shell_pid_cb(e, h.opaque))
                /\ dangling' = (dangling \/ shells[h.opaque].freed)
    /\ UNCHANGED loop

(* waitpid returns p, and the handler of p is called.                      *)
waitpid(p) ==
    /\ Reaping /\ pid_handlers # << >> /\ p \in Zombies
    /\ LET e == [Editor EXCEPT !.proc[p] = "none"]
           i == HandlerIndex(e, p)
       IN  IF i = 0 THEN Become(e) /\ UNCHANGED dangling
           ELSE /\ Become(shell_pid_cb(e, pid_handlers[i].opaque))
                /\ dangling' = (dangling \/ shells[pid_handlers[i].opaque].freed)
    /\ UNCHANGED loop

RoundDone ==
    /\ Reaping
    /\ pid_handlers = << >> \/ Zombies = {}
    /\ loop' = SelectNext
    /\ UNCHANGED <<shells, handlers, pid_handlers, proc, pty, dangling>>

---------------------------------------------------------------------------

Key == \/ \E s \in Live : do_kill_buffer(s) \/ shell_write_char(s)
       \/ do_shell
       \/ do_compile
       \/ OtherKey

url_block ==
    \/ select
    \/ Key
    \/ tty_write
    \/ \E fd \in Fd : shell_read_cb(fd)
    \/ \E p \in Pid : waitpid(p)
    \/ RoundDone

Process(p) == ProcWrite(p) \/ ProcRead(p) \/ ProcExit(p)

Next == url_block \/ \E p \in Pid : Process(p)

(* The editor is one thread that never waits but in select and for a full  *)
(* terminal, which a process reads at some time, or ends.                  *)
Fairness == WF_vars(url_block) /\ \A p \in Pid : WF_vars(ProcRead(p))

Spec == Init /\ [][Next]_vars /\ Fairness

---------------------------------------------------------------------------
(* Properties.                                                             *)

(* No handler is called that was removed or whose ShellState was freed,    *)
(* although shell_close leaves the handler of the process in the list and  *)
(* the system may use the process id again (unix.c, url_block).            *)
NoDanglingCall == ~dangling

(* The pid that a shell keeps is the one of its own child, not collected   *)
(* yet, and of no other shell: what shell_close kills, and waits for until *)
(* it gets it, is the right process (shell.c, shell_close).                *)
PidOwned ==
    \A s \in Live : shells[s].pid # None =>
       /\ proc[shells[s].pid] # "none"
       /\ \A t \in Live \ {s} : shells[t].pid # shells[s].pid
       /\ \E i \in 1..Len(pid_handlers) :
            pid_handlers[i] = [pid |-> shells[s].pid, opaque |-> s]

(* A shell that watches a descriptor has it open, and it is its own: no    *)
(* output is shown in the buffer of another process, although descriptors  *)
(* are used again after shell_pid_cb closed them (shell.c).                *)
OutputInOrder ==
    /\ \A s \in Shells : \A i \in 1..Len(shells[s].shown) : shells[s].shown[i] = i
    /\ \A fd \in Fd : handlers[fd] # None =>
         /\ handlers[fd] \in Live /\ shells[handlers[fd]].pty_fd = fd
         /\ pty[fd].open

(* A process that has ended is reported in its buffer at some time, unless *)
(* the buffer is killed (unix.c: "handle terminated childs").              *)
ExitReported ==
    \A s \in 1..MaxShells :
       (s \in Live /\ shells[s].pid \in Zombies)
          ~> (s \in Shells /\ (shells[s].finished \/ shells[s].freed))

================================================================================
