------------------------------- MODULE Script -------------------------------
(***************************************************************************)
(* 64-pty/script.c with ptyFork() and ptyMasterOpen(): a shell runs behind *)
(* a pseudoterminal, and script relays between it and the user's terminal, *)
(* copying what the shell writes to a typescript.                          *)
(***************************************************************************)
EXTENDS Machine, Naturals, SequencesExt

CONSTANTS MaxTyped,     \* bound on the keys the user types
          MaxOutput,    \* bound on the output of the shell
          InSize,       \* what the slave's input queue holds
          OutSize       \* what the master's input queue holds

Prog == "script"

(* dump: EF_DUMPCORE is set; handler: atexit(ttyReset) was called; ready:  *)
(* inFds; buf: the buffer; screen, file: what was written to stdout and to *)
(* the typescript; end: how script ended.  tty: the mode of the user's     *)
(* terminal; keys: typed and not read; input, output: the queues of the    *)
(* pseudoterminal; wrote: what the shell has written; slave: whether it    *)
(* was opened and closed; master: who has the master open.                 *)
Init ==
    \E dump \in BOOLEAN :
        /\ mem = [prog |-> Prog, dump |-> dump, handler |-> FALSE, ready |-> {},
                  buf |-> <<>>, screen |-> <<>>, file |-> <<>>, end |-> "running"]
        /\ at = [script |-> "start", shell |-> "unborn"]
        /\ os = [tty |-> "user", keys |-> <<>>, typed |-> 0, input |-> <<>>, output |-> <<>>,
                 wrote |-> 0, slave |-> "new", master |-> {}]

-----------------------------------------------------------------------------
(* script *)

(* exit(), which calls ttyReset(). *)
Exit(l, how) ==
    /\ Move("script", l, "exit")
    /\ mem' = [mem EXCEPT !.end = how]
    /\ os' = [os EXCEPT !.tty = IF mem.handler THEN "user" ELSE @, !.master = @ \ {"script"}]

(* errExit() and fatal(): terminate(), which aborts if EF_DUMPCORE is set. *)
ErrExit(l) ==
    \/ ~mem.dump /\ Exit(l, "error")
    \/ /\ mem.dump /\ Move("script", l, "exit")
       /\ mem' = [mem EXCEPT !.end = "abort"]
       /\ os' = [os EXCEPT !.master = @ \ {"script"}]

(* tcgetattr(), ioctl(), posix_openpt(). *)
ptyMasterOpen ==
    \/ /\ Move("script", "start", "granting")
       /\ os' = [os EXCEPT !.master = {"script"}] /\ UNCHANGED mem
    \/ ErrExit("start")

(* grantpt(), unlockpt(), ptsname(), and the copies of the name: if one    *)
(* fails the master is closed, and -1 returned up to main().               *)
Granted ==
    \/ Move("script", "granting", "fork") /\ UNCHANGED <<mem, os>>
    \/ ErrExit("granting")

ptyFork ==
    \/ /\ at.script = "fork"
       /\ at' = [script |-> "open", shell |-> "born"]
       /\ os' = [os EXCEPT !.master = {"script", "shell"}] /\ UNCHANGED mem
    \/ ErrExit("fork")

OpenTypescript ==
    \/ Move("script", "open", "raw") /\ UNCHANGED <<mem, os>>
    \/ ErrExit("open")

(* The result of ttySetRaw() is not looked at. *)
SetRaw ==
    /\ Move("script", "raw", "atexit")
    /\ os' = [os EXCEPT !.tty = "raw"] /\ UNCHANGED mem

(* Mutant: the exit handler is not established. *)
AtexitForgotten == Move("script", "atexit", "select") /\ UNCHANGED <<mem, os>>

Atexit ==
    \/ /\ Move("script", "atexit", "select")
       /\ mem' = [mem EXCEPT !.handler = TRUE] /\ UNCHANGED os
    \/ ErrExit("atexit")

HungUp == os.slave = "closed"

(* Mutant: the master is ready only while it has something to read. *)
SelectData ==
    /\ os.keys # <<>> \/ os.output # <<>>
    /\ Move("script", "select", "stdin")
    /\ mem' = [mem EXCEPT !.ready = (IF os.keys # <<>> THEN {"stdin"} ELSE {}) \cup
                                    (IF os.output # <<>> THEN {"master"} ELSE {})]
    /\ UNCHANGED os

Select ==
    LET ready == (IF os.keys # <<>> THEN {"stdin"} ELSE {}) \cup
                 (IF os.output # <<>> \/ HungUp THEN {"master"} ELSE {})
    IN  /\ ready # {}
        /\ Move("script", "select", "stdin")
        /\ mem' = [mem EXCEPT !.ready = ready] /\ UNCHANGED os

(* select() fails: errExit(). *)
SelectFails == ErrExit("select")

(* read() finds the end of a terminal that was hung up. *)
ReadStdin ==
    /\ at.script = "stdin"
    /\ \/ /\ "stdin" \notin mem.ready
          /\ Move("script", "stdin", "master") /\ UNCHANGED <<mem, os>>
       \/ /\ "stdin" \in mem.ready /\ Head(os.keys) = "key"
          /\ Move("script", "stdin", "write")
          /\ mem' = [mem EXCEPT !.buf = <<"key">>]
          /\ os' = [os EXCEPT !.keys = Tail(@)]
       \/ "stdin" \in mem.ready /\ Head(os.keys) = "hangup" /\ Exit("stdin", "stdin")

(* write() to the master waits for room in the queue and fails when the    *)
(* slave is closed.                                                        *)
WriteMaster ==
    \/ /\ ~HungUp /\ Len(os.input) < InSize
       /\ Move("script", "write", "master")
       /\ os' = [os EXCEPT !.input = @ \o mem.buf] /\ UNCHANGED mem
    \/ HungUp /\ ErrExit("write")

(* With the slave closed read() fails once everything was read: EIO. *)
ReadMaster ==
    \/ /\ "master" \notin mem.ready
       /\ Move("script", "master", "select") /\ UNCHANGED <<mem, os>>
    \/ /\ "master" \in mem.ready /\ os.output # <<>>
       /\ Move("script", "master", "stdout")
       /\ mem' = [mem EXCEPT !.buf = <<Head(os.output)>>]
       /\ os' = [os EXCEPT !.output = Tail(@)]
    \/ "master" \in mem.ready /\ os.output = <<>> /\ Exit("master", "eof")

WriteStdout ==
    \/ /\ Move("script", "stdout", "file")
       /\ mem' = [mem EXCEPT !.screen = @ \o mem.buf] /\ UNCHANGED os
    \/ ErrExit("stdout")

WriteFile ==
    \/ /\ Move("script", "file", "select")
       /\ mem' = [mem EXCEPT !.file = @ \o mem.buf] /\ UNCHANGED os
    \/ ErrExit("file")

script ==
    \/ ptyMasterOpen \/ Granted \/ ptyFork \/ OpenTypescript \/ SetRaw \/ Atexit
    \/ Select \/ ReadStdin \/ WriteMaster \/ ReadMaster \/ WriteStdout \/ WriteFile

-----------------------------------------------------------------------------
(* The child *)
Ended == at.script = "exit"

(* setsid() and close() of the master; err_exit() if one fails. *)
Setsid ==
    /\ \/ Move("shell", "born", "slave")
       \/ Move("shell", "born", "exit")
    /\ os' = [os EXCEPT !.master = @ \ {"shell"}] /\ UNCHANGED mem

(* open() of the slave, which fails when there is no master. *)
OpenSlave ==
    /\ \/ os.master # {} /\ Move("shell", "slave", "exec") /\ os' = [os EXCEPT !.slave = "open"]
       \/ Move("shell", "slave", "exit") /\ UNCHANGED os
    /\ UNCHANGED mem

(* The last descriptor of the slave is closed. *)
ShellExit(l) ==
    /\ Move("shell", l, "exit")
    /\ os' = [os EXCEPT !.slave = "closed"] /\ UNCHANGED mem

(* tcsetattr(), ioctl(), dup2(), execlp(): the child ends if one fails. *)
Exec ==
    \/ Move("shell", "exec", "run") /\ UNCHANGED <<mem, os>>
    \/ ShellExit("exec")

ShellRead ==
    /\ at.shell = "run" /\ os.input # <<>>
    /\ os' = [os EXCEPT !.input = Tail(@)] /\ UNCHANGED <<at, mem>>

ShellWrite ==
    /\ at.shell = "run" /\ os.wrote < MaxOutput /\ Len(os.output) < OutSize
    /\ os' = [os EXCEPT !.output = Append(@, os.wrote + 1), !.wrote = @ + 1]
    /\ UNCHANGED <<at, mem>>

(* With the last descriptor of the master the shell gets SIGHUP. *)
Hangup == os.master = {} /\ ShellExit("run")

child == Setsid \/ OpenSlave \/ Exec \/ Hangup

-----------------------------------------------------------------------------
Type ==
    /\ ~Ended /\ os.typed < MaxTyped
    /\ \E k \in {"key", "hangup"} :
        os' = [os EXCEPT !.keys = Append(@, k), !.typed = IF k = "key" THEN @ + 1 ELSE MaxTyped]
    /\ UNCHANGED <<at, mem>>

(* SIGTERM, say: no exit handler runs. *)
Kill ==
    /\ ~Ended /\ at' = [at EXCEPT !.script = "exit"]
    /\ mem' = [mem EXCEPT !.end = "killed"]
    /\ os' = [os EXCEPT !.master = @ \ {"script"}]

Main == Runs(Prog) /\ script
Child == Runs(Prog) /\ child

Next ==
    \/ Main \/ Child
    \/ Runs(Prog) /\ (SelectFails \/ ShellRead \/ ShellWrite \/ ShellExit("run") \/ Type \/ Kill)

Fairness == WF_machine(Main) /\ WF_machine(Child)

-----------------------------------------------------------------------------
(* The typescript holds what the screen showed, at most one buffer behind, *)
(* and both hold the shell's output from its start; all of it when the end *)
(* of the shell ended script.  Any other end may lose the tail.            *)
TypescriptTrue ==
    Runs(Prog) =>
        /\ mem.screen = [k \in 1 .. Len(mem.screen) |-> k] /\ Len(mem.screen) <= os.wrote
        /\ mem.file = mem.screen \/ (at.script \in {"file", "exit"} /\ mem.file = Front(mem.screen))
        /\ mem.end = "eof" => mem.file = mem.screen /\ Len(mem.screen) = os.wrote

(* The end of the shell gives the terminal back, and so does every error   *)
(* of which script ends by exit() once the exit handler is established.    *)
TerminalBack ==
    Runs(Prog) => (mem.end = "eof" \/ (mem.end = "error" /\ mem.handler) => os.tty = "user")

(* The end of a shell that had opened its terminal ends script, and the    *)
(* end of script ends the shell.  (A child that fails before leaves script *)
(* waiting: nobody looks at its status.)                                   *)
BothEnd ==
    /\ (Runs(Prog) /\ os.slave = "closed") ~> (Runs(Prog) /\ Ended)
    /\ (Runs(Prog) /\ Ended /\ at.shell # "unborn") ~> (Runs(Prog) /\ at.shell = "exit")

(* What the shell has written appears, unless script ends or waits to      *)
(* write to a shell that does not read.                                    *)
OutputShown ==
    \A k \in 1 .. MaxOutput :
        (Runs(Prog) /\ os.wrote >= k) ~>
            (Runs(Prog) /\ (Len(mem.file) >= k \/ Ended \/ (at.script = "write" /\ Len(os.input) = InSize)))
=============================================================================
