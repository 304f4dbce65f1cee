------------------------------ MODULE Forking -------------------------------
(***************************************************************************)
(* A parent and its children: waiting for them, and what they share.       *)
(***************************************************************************)
EXTENDS Machine, Naturals, Sequences, FiniteSets, SequencesExt

CONSTANTS NumChildren,  \* sleep-time arguments, num-children
          MaxChanges    \* bound on the child's stops and continuations

-----------------------------------------------------------------------------
(***************************************************************************)
(* A parent that waits for its children: fork_sig_sync.c waits for a       *)
(* signal of its child, pipe_sync.c for the end of a pipe whose write end  *)
(* every child closes when its work is done, fork_whos_on_first.c for the  *)
(* termination of each child before it makes the next.  Any process may be *)
(* scheduled first after fork().                                           *)
(***************************************************************************)
SyncProgs == {"fork_sig_sync", "pipe_sync", "fork_whos_on_first"}
Procs == 1 .. NumChildren

(* j: the child to be made next; out: the lines printed, <<round, who>>;   *)
(* ready: the parent has gone on.  pending, blocked, handled: SYNC_SIG is, *)
(* for the parent; writers: who has the pipe's write end open (0 is the    *)
(* parent).                                                                *)
SyncInit ==
    /\ \E prog \in SyncProgs : mem = [prog |-> prog, j |-> 1, out |-> <<>>]
    /\ at = [p \in 0 .. NumChildren |-> IF p = 0 THEN "start" ELSE "unborn"]
    /\ os = [pending |-> FALSE, blocked |-> FALSE, handled |-> FALSE, writers |-> {}]

(* The child has done its work and said so; one that was killed at it is   *)
(* "died".                                                                 *)
Worked(p) == at[p] \in {"exit", "zombie", "reaped"}

SyncSay(who) == mem' = [mem EXCEPT !.out = Append(@, <<mem.j, who>>)]

SyncForkFails == Move(0, "fork", "failed") /\ UNCHANGED <<mem, os>>

-----------------------------------------------------------------------------
(* fork_sig_sync.c *)

(* Mutant: SYNC_SIG is not blocked. *)
BlockForgotten == Move(0, "start", "sigaction") /\ UNCHANGED <<mem, os>>

Block ==
    /\ Move(0, "start", "sigaction")
    /\ os' = [os EXCEPT !.blocked = TRUE]
    /\ UNCHANGED mem

Handle ==
    /\ Move(0, "sigaction", "fork")
    /\ os' = [os EXCEPT !.handled = TRUE]
    /\ UNCHANGED mem

ForkOne ==
    /\ at[0] = "fork"
    /\ at' = [at EXCEPT ![0] = "suspend", ![1] = "work"]
    /\ UNCHANGED <<mem, os>>

Work(p) == Move(p, "work", "signal") /\ UNCHANGED <<mem, os>>

(* Killed before it has told the parent; its descriptors are closed. *)
Die(p) ==
    /\ at[p] \in {"work", "signal"}
    /\ at' = [at EXCEPT ![p] = "died"]
    /\ os' = [os EXCEPT !.writers = @ \ {p}]
    /\ UNCHANGED mem

(* Mutant: the child signals before it works. *)
KillEarly ==
    /\ at[1] = "work"
    /\ os' = [os EXCEPT !.pending = TRUE]
    /\ UNCHANGED <<at, mem>>

(* kill(getppid(), SYNC_SIG) *)
KillParent ==
    /\ Move(1, "signal", "exit")
    /\ os' = [os EXCEPT !.pending = TRUE]
    /\ UNCHANGED mem

(* sigsuspend() with an empty mask *)
Suspend == Move(0, "suspend", "suspended") /\ UNCHANGED <<mem, os>>

(* The signal is delivered as soon as the mask lets it; the handler ends   *)
(* sigsuspend(), which gives the old mask back.                            *)
TakeSignal ==
    /\ os.pending /\ (at[0] = "suspended" \/ ~os.blocked)
    /\ at' = [at EXCEPT ![0] = IF ~os.handled THEN "killed" ELSE
                               IF @ = "suspended" THEN "restore" ELSE @]
    /\ os' = [os EXCEPT !.pending = FALSE]
    /\ UNCHANGED mem

(* sigprocmask(SIG_SETMASK, &origMask, NULL) *)
Unblock ==
    /\ Move(0, "restore", "ready")
    /\ os' = [os EXCEPT !.blocked = FALSE]
    /\ UNCHANGED mem

fork_sig_sync ==
    \/ Block \/ Handle \/ ForkOne \/ SyncForkFails \/ Suspend \/ TakeSignal \/ Unblock
    \/ Work(1) \/ KillParent \/ Die(1)

-----------------------------------------------------------------------------
(* pipe_sync.c *)
Pipe ==
    /\ Move(0, "start", "fork")
    /\ os' = [os EXCEPT !.writers = {0}]
    /\ UNCHANGED mem

ForkWriter ==
    /\ at[0] = "fork" /\ mem.j <= NumChildren
    /\ at' = [at EXCEPT ![mem.j] = "work"]
    /\ os' = [os EXCEPT !.writers = @ \cup {mem.j}]
    /\ mem' = [mem EXCEPT !.j = @ + 1]

(* The child ends its work, closes pfd[1] and exits. *)
CloseWriter(p) ==
    /\ Move(p, "signal", "exit")
    /\ os' = [os EXCEPT !.writers = @ \ {p}]
    /\ UNCHANGED mem

CloseOwn ==
    /\ mem.j > NumChildren
    /\ Move(0, "fork", "read")
    /\ os' = [os EXCEPT !.writers = @ \ {0}]
    /\ UNCHANGED mem

(* read() returns 0 once nobody has the write end open. *)
ReadEof ==
    /\ os.writers = {}
    /\ Move(0, "read", "ready")
    /\ UNCHANGED <<mem, os>>

pipe_sync ==
    \/ Pipe \/ ForkWriter \/ (mem.j <= NumChildren /\ SyncForkFails) \/ CloseOwn \/ ReadEof
    \/ \E p \in Procs : Work(p) \/ CloseWriter(p) \/ Die(p)

-----------------------------------------------------------------------------
(* fork_whos_on_first.c *)
StartRound == Move(0, "start", "fork") /\ UNCHANGED <<mem, os>>

ForkNext ==
    /\ at[0] = "fork" /\ mem.j <= NumChildren
    /\ at' = [at EXCEPT ![0] = "print", ![mem.j] = "print"]
    /\ UNCHANGED <<mem, os>>

ParentPrint == Move(0, "print", "wait") /\ SyncSay("parent") /\ UNCHANGED os

ChildPrint(p) ==
    /\ Move(p, "print", "zombie")
    /\ mem' = [mem EXCEPT !.out = Append(@, <<p, "child">>)]
    /\ UNCHANGED os

SyncWait ==
    /\ at[0] = "wait"
    /\ \E p \in Procs : at[p] = "zombie" /\ at' = [at EXCEPT ![0] = "fork", ![p] = "reaped"]
    /\ mem' = [mem EXCEPT !.j = @ + 1]
    /\ UNCHANGED os

AllRounds == mem.j > NumChildren /\ Move(0, "fork", "ready") /\ UNCHANGED <<mem, os>>

fork_whos_on_first ==
    \/ StartRound \/ ForkNext \/ (mem.j <= NumChildren /\ SyncForkFails) \/ ParentPrint
    \/ (\E p \in Procs : ChildPrint(p)) \/ SyncWait \/ AllRounds

-----------------------------------------------------------------------------
Step ==
    \/ Runs("fork_sig_sync") /\ fork_sig_sync
    \/ Runs("pipe_sync") /\ pipe_sync
    \/ Runs("fork_whos_on_first") /\ fork_whos_on_first

(* fork_sig_sync waits for a signal that will not come. *)
Abandoned == Runs("fork_sig_sync") /\ at[0] = "suspended" /\ at[1] = "died"

SyncEnded == mem.prog \in SyncProgs /\ (at[0] \in {"ready", "failed"} \/ Abandoned)

SyncNext == Step \/ (SyncEnded /\ UNCHANGED machine)

SyncFairness == WF_machine(Step)

-----------------------------------------------------------------------------
(* Whichever process runs first:                                           *)
(* - fork_sig_sync's parent goes on only when its child has done its work  *)
(*   and said so, never for one that was killed; the signal is not lost    *)
(*   before sigsuspend() waits for it, and does not kill the parent;       *)
(* - pipe_sync's parent goes on only when each of its children has closed  *)
(*   the pipe, after its work or by its death;                             *)
(* - fork_whos_on_first's rounds do not overlap: both lines of a round     *)
(*   come before those of the next, and at the end every child has printed.*)
SyncedWithChildren ==
    /\ Runs("fork_sig_sync") =>
          /\ at[0] \in {"restore", "ready"} => Worked(1)
          /\ at[0] \in {"suspend", "suspended"} /\ Worked(1) => os.pending
          /\ at[0] # "killed"
    /\ Runs("pipe_sync") /\ at[0] = "ready" => \A p \in Procs : Worked(p) \/ at[p] = "died"
    /\ Runs("fork_whos_on_first") =>
          /\ at[0] = "ready" => \A p \in Procs : Worked(p)
          /\ \A k \in 1 .. Len(mem.out) : mem.out[k][1] = (k + 1) \div 2

(* Neither the signal nor the end of the pipe is missed: the parent goes   *)
(* on or, where fork() fails, ends; fork_sig_sync's waits for ever for a   *)
(* child that was killed before its signal.                                *)
SyncEnds == mem.prog \in SyncProgs ~> SyncEnded

-----------------------------------------------------------------------------
(***************************************************************************)
(* What a child shares with its parent, what it gets a copy of, and what   *)
(* is left of it: 24-process-create/t_fork.c, t_vfork.c and                *)
(* fork_file_sharing.c, 25-process-exit/fork_stdio_buf.c, 28-process-      *)
(* detail/t_clone.c, 49-mmap/anon_mmap.c, 26-process-watch/make_zombie.c   *)
(* and child_status.c with lib/print_wait_status.c.  Any process may be    *)
(* scheduled first after fork(), which may fail, and a signal may kill the *)
(* child at any point.                                                     *)
(***************************************************************************)
StateProgs == {"fork_stdio_buf", "t_fork", "t_vfork", "fork_file_sharing", "t_clone",
          "anon_mmap", "make_zombie", "child_status"}

(* val: the variable a program changes in the child (idata and istack, or  *)
(* the characters in stdout's buffer), for each process; cond: what the    *)
(* caller chose (stdout is a terminal, CLONE_FILES, a status argument);    *)
(* out: what was printed.  file: the open file description; fds: who has a *)
(* descriptor for it; status: the last change of the child's state, until  *)
(* waitpid() takes it (wait(NULL) discards it); changes: its stops and     *)
(* continuations so far.                                                   *)
StateInit ==
    /\ \E prog \in StateProgs, cond \in BOOLEAN :
          mem = [prog |-> prog, cond |-> cond, val |-> [parent |-> "old", child |-> "none"],
                 out |-> <<>>]
    /\ at = [parent |-> "start", child |-> "unborn"]
    /\ os = [file |-> [offset |-> 0, append |-> FALSE], fds |-> {"parent"},
             status |-> <<>>, changes |-> 0]

StateSay(what) == mem' = [mem EXCEPT !.out = Append(@, what)]
Quiet == UNCHANGED <<mem, os>>

(* The child has a copy of the parent's memory and descriptors. *)
Fork(l, k, c) ==
    /\ at.parent = l
    /\ at' = [parent |-> k, child |-> c]
    /\ mem' = [mem EXCEPT !.val.child = mem.val.parent]
    /\ os' = [os EXCEPT !.fds = @ \cup {"child"}]

StateForkFails(l) == Move("parent", l, "failed") /\ Quiet

ChildEnds(l, status) ==
    /\ Move("child", l, "zombie")
    /\ os' = [os EXCEPT !.fds = @ \ {"child"}, !.status = <<status>>]

Alive == at.child \notin {"unborn", "zombie", "reaped"}

Killed == Alive /\ ChildEnds(at.child, "killed") /\ UNCHANGED mem

(* wait(NULL) *)
StateWait(l, k) ==
    /\ at.parent = l /\ at.child = "zombie"
    /\ at' = [parent |-> k, child |-> "reaped"]
    /\ UNCHANGED <<mem, os>>

-----------------------------------------------------------------------------
(* fork_stdio_buf: "Hello world" stays in the buffer unless stdout is a    *)
(* terminal; "Ciao" is written at once; exit() flushes the buffer.         *)
Flush(p) == IF mem.val[p] = "buffered" THEN StateSay("Hello") ELSE UNCHANGED mem

fork_stdio_buf ==
    \/ /\ Move("parent", "start", "write") /\ UNCHANGED os
       /\ mem' = IF mem.cond THEN [mem EXCEPT !.out = <<"Hello">>]
                 ELSE [mem EXCEPT !.val.parent = "buffered"]
    \/ Move("parent", "write", "fork") /\ StateSay("Ciao") /\ UNCHANGED os
    \/ Fork("fork", "exit", "exit")
    \/ Move("parent", "fork", "failed") /\ Flush("parent") /\ UNCHANGED os     \* errExit()
    \/ Move("parent", "exit", "done") /\ Flush("parent") /\ UNCHANGED os
    \/ ChildEnds("exit", "exited") /\ Flush("child")

(* t_fork: the child changes its copies; the parent sleeps for 3 seconds,  *)
(* which is no guarantee of an order.                                      *)
t_fork ==
    \/ Fork("start", "print", "change") \/ StateForkFails("start")
    \/ /\ Move("child", "change", "print") /\ UNCHANGED os
       /\ mem' = [mem EXCEPT !.val.child = "new"]
    \/ ChildEnds("print", "exited") /\ StateSay(<<"child", mem.val.child>>)
    \/ Move("parent", "print", "done") /\ StateSay(<<"parent", mem.val.parent>>) /\ UNCHANGED os

(* Mutant: fork() in place of vfork(). *)
VforkRunsOn == Fork("start", "print", "change")

(* The parent does not go on before the child has called _exit(). *)
Vfork == Fork("start", "suspended", "change")

(* t_vfork: the child runs in the parent's memory. *)
t_vfork ==
    \/ Vfork \/ StateForkFails("start")
    \/ /\ Move("child", "change", "exit") /\ UNCHANGED os
       /\ mem' = [mem EXCEPT !.val = [parent |-> "new", child |-> "new"]]
    \/ ChildEnds("exit", "exited") /\ UNCHANGED mem
    \/ at.child = "zombie" /\ Move("parent", "suspended", "print") /\ Quiet
    \/ Move("parent", "print", "done") /\ StateSay(<<"parent", mem.val.parent>>) /\ UNCHANGED os

(* fork_file_sharing: offset and status flags belong to the open file      *)
(* description.  The parent prints both after the child has ended.         *)
fork_file_sharing ==
    \/ Fork("start", "wait", "lseek") \/ StateForkFails("start")
    \/ /\ Move("child", "lseek", "append") /\ UNCHANGED mem
       /\ os' = [os EXCEPT !.file.offset = 1000]
    \/ /\ Move("child", "append", "exit") /\ UNCHANGED mem
       /\ os' = [os EXCEPT !.file.append = TRUE]
    \/ ChildEnds("exit", "exited") /\ UNCHANGED mem
    \/ StateWait("wait", "print")
    \/ Move("parent", "print", "done") /\ StateSay(<<os.file.offset, os.file.append>>) /\ UNCHANGED os

(* anon_mmap: the mapping is shared; the parent prints it after the child  *)
(* has ended.                                                              *)
anon_mmap ==
    \/ Fork("start", "wait", "increment") \/ StateForkFails("start")
    \/ /\ Move("child", "increment", "exit") /\ UNCHANGED os
       /\ mem' = [mem EXCEPT !.val = [parent |-> "new", child |-> "new"]]
    \/ ChildEnds("exit", "exited") /\ UNCHANGED mem
    \/ StateWait("wait", "print")
    \/ Move("parent", "print", "done") /\ StateSay(<<"parent", mem.val.parent>>) /\ UNCHANGED os

(* t_clone: with CLONE_FILES the child's close() is the parent's too;      *)
(* __WCLONE waits for a child that announces itself by SIGUSR1.            *)
t_clone ==
    \/ Fork("start", "wait", "close") \/ StateForkFails("start")
    \/ /\ Move("child", "close", "exit") /\ UNCHANGED mem
       /\ os' = [os EXCEPT !.fds = IF mem.cond THEN {} ELSE @ \ {"child"}]
    \/ ChildEnds("exit", "exited") /\ UNCHANGED mem
    \/ StateWait("wait", "write")
    \/ /\ Move("parent", "write", "done") /\ UNCHANGED os
       /\ StateSay(IF "parent" \in os.fds THEN "succeeded" ELSE "closed")

(* make_zombie: SIGKILL to a zombie changes nothing; to a child that has   *)
(* been slower than sleep(3) it is its end.                                *)
make_zombie ==
    \/ Fork("start", "kill", "print") \/ StateForkFails("start")
    \/ ChildEnds("print", "exited") /\ StateSay("exiting")
    \/ /\ at.parent = "kill"
       /\ at' = [parent |-> "look", child |-> "zombie"]
       /\ os' = [os EXCEPT !.fds = @ \ {"child"},
                           !.status = IF at.child = "zombie" THEN @ ELSE <<"killed">>]
       /\ UNCHANGED mem
    \/ Move("parent", "look", "done") /\ StateSay(at.child) /\ UNCHANGED os

-----------------------------------------------------------------------------
(* child_status: the status is an int, which printWaitStatus() takes apart *)
(* with the W* macros, in this order.                                      *)
Encode(s) == CASE s = "exited" -> 2 * 256 [] s = "killed" -> 9
               [] s = "stopped" -> 19 * 256 + 127 [] s = "continued" -> 65535

WIFEXITED(s) == s % 128 = 0
WIFSIGNALED(s) == s % 128 \in 1 .. 126
WIFSTOPPED(s) == s % 256 = 127
WIFCONTINUED(s) == s = 65535

printWaitStatus(s) ==
    IF WIFEXITED(s) THEN "exited" ELSE IF WIFSIGNALED(s) THEN "killed"
    ELSE IF WIFSTOPPED(s) THEN "stopped" ELSE IF WIFCONTINUED(s) THEN "continued"
    ELSE "what happened to this child?"

(* A stop or a continuation not yet waited for gives way to the next       *)
(* change.                                                                 *)
StopOrCont ==
    /\ os.changes < MaxChanges
    /\ \/ Move("child", "pause", "stopped") /\ os' = [os EXCEPT !.status = <<"stopped">>,
                                                                !.changes = @ + 1]
       \/ Move("child", "stopped", "pause") /\ os' = [os EXCEPT !.status = <<"continued">>,
                                                                !.changes = @ + 1]
    /\ UNCHANGED mem

(* waitpid(-1, &status, WUNTRACED | WCONTINUED), printed; the loop ends    *)
(* with the child.                                                         *)
WaitStatus ==
    /\ at.parent = "wait" /\ os.status # <<>>
    /\ LET s == Encode(Head(os.status))
       IN  /\ StateSay(printWaitStatus(s))
           /\ at' = IF WIFEXITED(s) \/ WIFSIGNALED(s)
                    THEN [parent |-> "done", child |-> "reaped"] ELSE at
    /\ os' = [os EXCEPT !.status = <<>>]

child_status ==
    \/ Fork("start", "wait", IF mem.cond THEN "exit" ELSE "pause") \/ StateForkFails("start")
    \/ ChildEnds("exit", "exited") /\ UNCHANGED mem
    \/ WaitStatus

-----------------------------------------------------------------------------
Program ==
    \/ Runs("fork_stdio_buf") /\ fork_stdio_buf
    \/ Runs("t_fork") /\ t_fork
    \/ Runs("t_vfork") /\ t_vfork
    \/ Runs("fork_file_sharing") /\ fork_file_sharing
    \/ Runs("anon_mmap") /\ anon_mmap
    \/ Runs("t_clone") /\ t_clone
    \/ Runs("make_zombie") /\ make_zombie
    \/ Runs("child_status") /\ child_status

StateEnded == at.parent \in {"done", "failed"}

StateNext ==
    \/ Program
    \/ mem.prog \in StateProgs /\ Killed
    \/ Runs("child_status") /\ StopOrCont
    \/ mem.prog \in StateProgs /\ (StateEnded \/ at.child \in {"pause", "stopped"}) /\ UNCHANGED machine

(* The kernel runs every process. *)
StateFairness == WF_machine(Program)

-----------------------------------------------------------------------------
Count(s) == Cardinality({i \in 1 .. Len(mem.out) : mem.out[i] = s})

(* What the programs print is what fork() copies, vfork() and CLONE_FILES  *)
(* share and wait() reports, whoever runs first:                           *)
(* - the buffered line appears once per process that calls exit(), and     *)
(*   after the unbuffered one; on a terminal once, and first;              *)
(* - a parent sees none of the changes of a forked child, all of those of  *)
(*   a vforked one and those in a shared mapping, offset and flags of the  *)
(*   shared file, and the close() of a child with the same descriptors,    *)
(*   unless the child was killed;                                          *)
(* - every change of the child's state that is reported is reported        *)
(*   rightly, and the last report is of its end.                           *)
ForkShares ==
    /\ Runs("fork_stdio_buf") /\ StateEnded =>
          IF mem.cond THEN mem.out = <<"Hello", "Ciao">>
          ELSE /\ mem.out[1] = "Ciao"
               /\ Count("Hello") = IF os.status = <<"exited">> THEN 2 ELSE 1
    /\ Runs("t_fork") => ~Contains(mem.out, <<"parent", "new">>)
    /\ mem.prog \in {"t_vfork", "anon_mmap"} /\ os.status = <<"exited">> =>
          ~Contains(mem.out, <<"parent", "old">>)
    /\ Runs("fork_file_sharing") /\ at.parent = "done" /\ os.status = <<"exited">> =>
          mem.out = << <<1000, TRUE>> >>
    /\ Runs("t_clone") /\ at.parent = "done" /\ os.status = <<"exited">> =>
          mem.out = <<IF mem.cond THEN "closed" ELSE "succeeded">>
    /\ Runs("make_zombie") /\ at.parent = "done" => mem.out[Len(mem.out)] = "zombie"
    /\ Runs("child_status") =>
          /\ ~Contains(mem.out, "what happened to this child?")
          /\ at.parent = "done" <=> Len(mem.out) > 0 /\ mem.out[Len(mem.out)] \in {"exited", "killed"}

(* The parent ends, unless the child waits for signals. *)
ForkEnds ==
    (mem.prog \in StateProgs) ~>
        (mem.prog \in StateProgs /\ (StateEnded \/ at.child \in {"pause", "stopped"}))

-----------------------------------------------------------------------------
(* One of the programs runs. *)
Init == SyncInit \/ StateInit

Next == SyncNext \/ StateNext

Fairness == SyncFairness /\ StateFairness
=============================================================================
