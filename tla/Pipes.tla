-------------------------------- MODULE Pipes --------------------------------
(***************************************************************************)
(* Programs whose processes are joined by a pipe: 44-ipc-pipe-fifo/        *)
(* simple_pipe.c, pipe_ls_wc.c and popen_glob.c.  A reader sees the end of *)
(* the pipe when no process has its write end open, a writer without a     *)
(* reader is killed by SIGPIPE: everything depends on who closes what, and *)
(* on the numbers of the descriptors.                                      *)
(*                                                                         *)
(* simple_pipe: parent writes a string, child one reads it.  pipe_ls_wc:   *)
(* child one becomes ls, child two wc -l.  popen_glob: the shell that      *)
(* popen() starts, one, runs ls; the parent reads the lines.               *)
(***************************************************************************)
EXTENDS Machine, Naturals, FiniteSets, FiniteSetsExt

CONSTANTS PipeCap,      \* bytes, or lines, the pipe holds
          MaxData,      \* bound on the bytes, or lines, written
          MaxPatterns   \* bound on the patterns typed

PipeProgs == {"simple_pipe", "pipe_ls_wc", "popen_glob"}
Procs == {"parent", "one", "two"}
Fds == 0 .. 4

(* pfd: the pipe's descriptors; n: what is to be written, left: of it not  *)
(* yet written, got: what was read.  fd: each process's descriptors, where *)
(* standard input and output may have been closed by the caller; pipe: how *)
(* much is in the pipe.                                                    *)
Init ==
    \E prog \in PipeProgs, n \in 0 .. MaxData, closed \in SUBSET {0, 1} :
        /\ prog # "pipe_ls_wc" => closed = {}
        /\ mem = [prog |-> prog, pfd |-> <<0, 0>>, n |-> n, left |-> n, got |-> 0, typed |-> 0]
        /\ at = [p \in Procs |-> IF p # "parent" THEN "unborn"
                                 ELSE IF prog = "popen_glob" THEN "prompt" ELSE "pipe"]
        /\ os = [pipe |-> 0,
                 fd |-> [p \in Procs |-> [f \in Fds |->
                     IF p = "parent" /\ f \in {0, 1, 2} \ closed THEN "tty" ELSE "none"]]]

Has(p, end) == \E f \in Fds : os.fd[p][f] = end
Readers == {p \in Procs : Has(p, "r")}
Writers == {p \in Procs : Has(p, "w")}
Gone == {"exit", "killed", "reaped"}

-----------------------------------------------------------------------------
(* System calls.  pipe() takes the two lowest free numbers. *)
Pipe(p, l, k) ==
    LET free == {f \in Fds : os.fd[p][f] = "none"}
        r    == Min(free)
        w    == Min(free \ {r})
    IN  /\ Move(p, l, k)
        /\ os' = [os EXCEPT !.fd[p][r] = "r", !.fd[p][w] = "w"]
        /\ mem' = [mem EXCEPT !.pfd = <<r, w>>]

Fork(p, c, l, k, start) ==
    /\ at[p] = l
    /\ at' = [at EXCEPT ![p] = k, ![c] = start]
    /\ os' = [os EXCEPT !.fd[c] = os.fd[p]]
    /\ UNCHANGED mem

End(p, l, how) ==
    /\ Move(p, l, how)
    /\ os' = [os EXCEPT !.fd[p] = [f \in Fds |-> "none"]]
    /\ UNCHANGED mem

Close(p, f, l, k) ==
    /\ Move(p, l, k)
    /\ os' = [os EXCEPT !.fd[p][f] = "none"]
    /\ UNCHANGED mem

(* dup2(old, new), close(old), and the program that is then executed. *)
Dup2Close(p, old, new, l, k) ==
    /\ Move(p, l, k)
    /\ os' = [os EXCEPT !.fd[p] = [f \in Fds |-> IF f = old THEN "none"
                                                 ELSE IF f = new THEN @[old] ELSE @[f]]]
    /\ UNCHANGED mem

(* A write() of all that is left, which blocks while the pipe is full. *)
Write(p, l, k) ==
    /\ at[p] = l
    /\ \/ /\ mem.left > 0 /\ Readers # {} /\ os.pipe < PipeCap
          /\ os' = [os EXCEPT !.pipe = @ + 1]
          /\ mem' = [mem EXCEPT !.left = @ - 1]
          /\ UNCHANGED at
       \/ mem.left > 0 /\ Readers = {} /\ End(p, l, "killed")
       \/ mem.left = 0 /\ Move(p, l, k) /\ UNCHANGED <<mem, os>>

(* read() until it returns 0. *)
Read(p, l, k) ==
    /\ at[p] = l
    /\ \/ /\ os.pipe > 0
          /\ os' = [os EXCEPT !.pipe = @ - 1]
          /\ mem' = [mem EXCEPT !.got = @ + 1]
          /\ UNCHANGED at
       \/ os.pipe = 0 /\ Writers = {} /\ Move(p, l, k) /\ UNCHANGED <<mem, os>>

(* wait(NULL) takes any child that has ended. *)
Wait(l, k) ==
    /\ at.parent = l
    /\ \E c \in Procs \ {"parent"} :
          /\ at[c] \in {"exit", "killed"}
          /\ at' = [at EXCEPT !.parent = k, ![c] = "reaped"]
    /\ UNCHANGED <<mem, os>>

-----------------------------------------------------------------------------
(* Mutant: the child keeps its copy of the write end. *)
SimpleChildKeeps ==
    \/ Move("one", "close", "read") /\ UNCHANGED <<mem, os>>
    \/ Read("one", "read", "done")
    \/ End("one", "done", "exit")

(* The child closes pfd[1], its copy of the write end, and reads; the      *)
(* parent closes pfd[0], writes, closes pfd[1] and waits.                  *)
SimpleChild ==
    \/ Close("one", mem.pfd[2], "close", "read")
    \/ Read("one", "read", "done")
    \/ End("one", "done", "exit")

SimpleParent ==
    \/ Pipe("parent", "pipe", "fork")
    \/ Fork("parent", "one", "fork", "close", "close")
    \/ End("parent", "fork", "exit")                            \* fork() fails
    \/ Close("parent", mem.pfd[1], "close", "write")
    \/ Write("parent", "write", "closeWrite")
    \/ Close("parent", mem.pfd[2], "closeWrite", "wait")
    \/ Wait("wait", "done")
    \/ End("parent", "done", "exit")

simple_pipe == SimpleChild \/ SimpleParent

-----------------------------------------------------------------------------
(* pipe_ls_wc *)

(* pfd[1] becomes standard output, unless it is already. *)
LsDup ==
    IF mem.pfd[2] # 1 THEN Dup2Close("one", mem.pfd[2], 1, "dup", "exec")
    ELSE Move("one", "dup", "exec") /\ UNCHANGED <<mem, os>>

WcDup ==
    IF mem.pfd[1] # 0 THEN Dup2Close("two", mem.pfd[1], 0, "dup", "exec")
    ELSE Move("two", "dup", "exec") /\ UNCHANGED <<mem, os>>

(* ls writes to descriptor 1, and fails if there is none; execlp() may     *)
(* fail too.                                                               *)
Ls ==
    \/ Close("one", mem.pfd[1], "close", "dup")
    \/ LsDup
    \/ Move("one", "exec", IF os.fd.one[1] = "w" THEN "write" ELSE "done") /\ UNCHANGED <<mem, os>>
    \/ End("one", "exec", "killed")                             \* errExit("execlp ls")
    \/ Write("one", "write", "done")
    \/ End("one", "done", "exit")

Wc ==
    \/ Close("two", mem.pfd[2], "close", "dup")
    \/ WcDup
    \/ Move("two", "exec", IF os.fd.two[0] = "r" THEN "read" ELSE "done") /\ UNCHANGED <<mem, os>>
    \/ End("two", "exec", "killed")
    \/ Read("two", "read", "done")
    \/ End("two", "done", "exit")

LsWcParent ==
    \/ Pipe("parent", "pipe", "fork")
    \/ Fork("parent", "one", "fork", "fork2", "close")
    \/ Fork("parent", "two", "fork2", "close", "close")
    \/ End("parent", "fork", "exit") \/ End("parent", "fork2", "exit")
    \/ Close("parent", mem.pfd[1], "close", "closeWrite")
    \/ Close("parent", mem.pfd[2], "closeWrite", "wait")
    \/ Wait("wait", "wait2") \/ Wait("wait2", "done")
    \/ End("parent", "done", "exit")

pipe_ls_wc == Ls \/ Wc \/ LsWcParent

-----------------------------------------------------------------------------
(* popen_glob *)

(* An empty line, or one with a character that is not allowed. *)
BadPattern == at.parent = "prompt" /\ UNCHANGED machine

(* popen(command, "r"), or its failure: "open() failed" and the next       *)
(* pattern.                                                                *)
Popen ==
    \/ mem.typed < MaxPatterns /\ Pipe("parent", "prompt", "popen")
    \/ Fork("parent", "one", "popen", "popened", "popened")
    \/ /\ Move("parent", "popen", "prompt")
       /\ os' = [os EXCEPT !.fd.parent[mem.pfd[1]] = "none", !.fd.parent[mem.pfd[2]] = "none"]
       /\ mem' = [mem EXCEPT !.typed = @ + 1]
    \/ Close("parent", mem.pfd[2], "popened", "read")
    \/ Close("one", mem.pfd[1], "popened", "dup")
    \/ Dup2Close("one", mem.pfd[2], 1, "dup", "write")

(* while (fgets(pathname, PATH_MAX, fp) != NULL), pclose(): close, and     *)
(* wait for this child.                                                    *)
Glob ==
    \/ Write("one", "write", "done")
    \/ End("one", "done", "exit")
    \/ Read("parent", "read", "pclose")
    \/ Close("parent", mem.pfd[1], "pclose", "wait")
    \/ Wait("wait", "print")
    \/ /\ Move("parent", "print", "prompt") /\ UNCHANGED os
       /\ mem' = [mem EXCEPT !.typed = @ + 1, !.left = mem.n, !.got = 0]

(* End of file on standard input. *)
Eof == End("parent", "prompt", "exit")

popen_glob == Popen \/ Glob

-----------------------------------------------------------------------------
(* A signal may end a child at any time. *)
Killed(c) ==
    /\ mem.prog \in PipeProgs /\ c # "parent"
    /\ at[c] \notin Gone \cup {"unborn"} /\ End(c, at[c], "killed")

Program ==
    \/ Runs("simple_pipe") /\ simple_pipe
    \/ Runs("pipe_ls_wc") /\ pipe_ls_wc
    \/ Runs("popen_glob") /\ popen_glob

Next ==
    \/ Program
    \/ Runs("popen_glob") /\ (BadPattern \/ Eof)
    \/ \E c \in Procs : Killed(c)
    \/ mem.prog \in PipeProgs /\ at.parent \in Gone /\ UNCHANGED machine

(* The kernel runs every process. *)
Fairness == WF_machine(Program)

-----------------------------------------------------------------------------
(* Who reads to the end has read all that was written, whichever of the    *)
(* standard descriptors were closed at the start; ls and wc are joined by  *)
(* the pipe unless they were killed; and after pclose() no descriptor and  *)
(* no child is left of a pattern.                                          *)
PipeWhole ==
    /\ Runs("simple_pipe") /\ at.one \in {"done", "exit"} => mem.got = mem.n
    /\ Runs("pipe_ls_wc") =>
          /\ at.one = "exit" => mem.left = 0
          /\ at.two \in {"done", "exit"} => mem.got = mem.n - mem.left
    /\ Runs("popen_glob") /\ at.parent = "print" => mem.got = mem.n - mem.left
    /\ Runs("popen_glob") /\ at.parent \in {"print", "prompt"} =>
          Writers = {} /\ Readers = {} /\ os.pipe = 0 /\ at.one \in {"unborn", "reaped"}

(* Nobody waits for ever at a pipe: the parent ends, or prompts again.     *)
PipesEnd ==
    (mem.prog \in PipeProgs) ~>
        (mem.prog \in PipeProgs /\ at.parent \in Gone \cup {"prompt"})
=============================================================================
