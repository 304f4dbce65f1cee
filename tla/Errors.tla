------------------------------- MODULE Errors -------------------------------
(***************************************************************************)
(* How a program reports an error and ends: lib/error_functions.c, called  *)
(* by a process or by the child it has made, with output in stdout's       *)
(* buffer and exit handlers registered, and 25-process-exit/               *)
(* exit_handlers.c.  stdout and stderr of a process go to one file.        *)
(***************************************************************************)
EXTENDS Machine, Naturals, Sequences, FiniteSets, SequencesExt

Progs == {"caller", "exit_handlers"}
Functions == {"errMsg", "errExit", "err_exit", "errExitEN", "fatal", "usageErr", "cmdLineErr"}
Procs == {"parent", "child"}
Data == << <<"data">> >>      \* what the caller has printed
Registered == <<"on_exit 10", "atexit 1", "atexit 2", "on_exit 20">>

(* f: the function called, by who; dump: EF_DUMPCORE is set; buf: stdout's *)
(* buffer and handlers: the exit handlers, of each process; errno; err:    *)
(* the number to be reported; saved: errMsg()'s savedErrno; status: the    *)
(* argument of exit().  out: what each process has put into the file.      *)
Init ==
    /\ \E prog \in Progs, f \in Functions, who \in Procs, dump \in BOOLEAN :
          /\ prog = "exit_handlers" => f = "fatal" /\ who = "parent"
          /\ mem = [prog |-> prog, f |-> f, who |-> who, dump |-> dump, status |-> 0,
                    buf |-> [p \in Procs |-> IF prog = "caller" THEN Data ELSE <<>>],
                    handlers |-> [p \in Procs |-> IF prog = "caller" THEN <<"h1", "h2">> ELSE <<>>],
                    errno |-> "E1", err |-> "none", saved |-> "none"]
    /\ at = [parent |-> "start", child |-> "unborn"]
    /\ os = [out |-> [p \in Procs |-> <<>>]]

Out(p, texts) == os' = [os EXCEPT !.out[p] = @ \o texts]

-----------------------------------------------------------------------------
(* The caller, alone or with a child that has a copy of its memory. *)
Call == mem.who = "parent" /\ Move("parent", "start", "call") /\ UNCHANGED <<mem, os>>

Fork ==
    /\ mem.who = "child" /\ at.parent = "start"
    /\ at' = [parent |-> "exit", child |-> "call"]
    /\ UNCHANGED <<mem, os>>

(* exit_handlers: a registration that fails ends the program. *)
Register ==
    /\ at.parent = "start"
    /\ LET n == Len(mem.handlers["parent"]) IN
       /\ n < Len(Registered)
       /\ \/ /\ mem' = [mem EXCEPT !.handlers["parent"] = Append(@, Registered[n + 1])]
             /\ UNCHANGED at
          \/ Move("parent", "start", "call") /\ UNCHANGED mem
    /\ UNCHANGED os

Exit2 ==
    /\ Len(mem.handlers["parent"]) = Len(Registered)
    /\ Move("parent", "start", "exit")
    /\ mem' = [mem EXCEPT !.status = 2]
    /\ UNCHANGED os

-----------------------------------------------------------------------------
(* The functions, for the process p that calls one. *)
Reported == CASE mem.f \in {"errMsg", "errExit", "err_exit"} -> mem.errno
              [] mem.f = "errExitEN" -> "errnum"
              [] mem.f \in {"fatal", "usageErr", "cmdLineErr"} -> "none"

Begin(p) ==
    /\ Move(p, "call", "flush")
    /\ mem' = [mem EXCEPT !.err = Reported, !.saved = mem.errno]
    /\ UNCHANGED os

(* Mutant: err_exit() flushes stdout like errExit(). *)
FlushStdoutAlways(p) ==
    /\ Move(p, "flush", "message")
    /\ Out(p, mem.buf[p])
    /\ mem' = [mem EXCEPT !.buf[p] = <<>>]

(* fflush(stdout), unless it is err_exit(). *)
FlushStdout(p) ==
    /\ Move(p, "flush", "message")
    /\ IF mem.f = "err_exit" THEN UNCHANGED <<mem, os>>
       ELSE /\ Out(p, mem.buf[p])
            /\ \E e \in {mem.errno, "E2"} : mem' = [mem EXCEPT !.buf[p] = <<>>, !.errno = e]

(* The message, to stderr. *)
Message(p) ==
    /\ Move(p, "message", "terminate")
    /\ Out(p, << <<"error", mem.err>> >>)
    /\ \E e \in {mem.errno, "E2"} :
          mem' = [mem EXCEPT !.errno = IF mem.f = "errMsg" THEN mem.saved ELSE e]

UsesExit3 == mem.f # "err_exit"

(* errMsg() returns to a caller that ends later; terminate() dumps core,   *)
(* or calls exit() or _exit(); usageErr() and cmdLineErr() call exit().    *)
Terminate(p) ==
    /\ at[p] = "terminate"
    /\ at' = [at EXCEPT ![p] = IF mem.f \in {"errMsg", "usageErr", "cmdLineErr"} THEN "exit"
                               ELSE IF mem.dump THEN "aborted"
                               ELSE IF UsesExit3 THEN "exit" ELSE "ended"]
    /\ mem' = [mem EXCEPT !.status = IF mem.f = "errMsg" THEN 0 ELSE 1]
    /\ UNCHANGED os

(* exit(3): the handlers, the last registered first, then the buffer.      *)
(* on_exit() handlers print the status.                                    *)
Printed(h) == IF h \in {"on_exit 10", "on_exit 20"} THEN <<h, mem.status>> ELSE <<h>>

ExitHandler(p) ==
    /\ at[p] = "exit" /\ mem.handlers[p] # <<>>
    /\ mem' = [mem EXCEPT !.handlers[p] = Front(@),
                          !.buf[p] = Append(@, Printed(Last(mem.handlers[p])))]
    /\ UNCHANGED <<at, os>>

ExitFlush(p) ==
    /\ mem.handlers[p] = <<>> /\ Move(p, "exit", "ended")
    /\ Out(p, mem.buf[p])
    /\ mem' = [mem EXCEPT !.buf[p] = <<>>]

-----------------------------------------------------------------------------
Program ==
    /\ mem.prog \in Progs
    /\ \/ Runs("caller") /\ (Call \/ Fork)
       \/ Runs("exit_handlers") /\ (Register \/ Exit2)
       \/ \E p \in Procs : Begin(p) \/ FlushStdout(p) \/ Message(p) \/ Terminate(p)
                           \/ ExitHandler(p) \/ ExitFlush(p)

Over(p) == at[p] \in {"ended", "aborted", "unborn"}
Ended == Over("parent") /\ Over("child")

Next == Program \/ (mem.prog \in Progs /\ Ended /\ UNCHANGED machine)

(* The kernel runs both processes. *)
Fairness == WF_machine(Program)

-----------------------------------------------------------------------------
HandlerTexts == << <<"h2">>, <<"h1">> >>
ItsMessage == << <<"error", IF mem.f = "errExitEN" THEN "errnum"
                           ELSE IF mem.f \in {"fatal", "usageErr", "cmdLineErr"} THEN "none"
                           ELSE "E1">> >>
HandlersRun == mem.f # "err_exit" /\ (mem.dump => mem.f \in {"errMsg", "usageErr", "cmdLineErr"})

(* The process that reports the error puts its output before the message,  *)
(* which names the error that made it call, and runs its exit handlers     *)
(* last, latest first; err_exit() keeps the buffer and the handlers of its *)
(* caller to itself, so that a parent's output appears once; after         *)
(* EF_DUMPCORE no handler runs.  errMsg() leaves errno as it was.          *)
(* Whichever registration fails, exit_handlers says so and runs those that *)
(* did not.                                                                *)
ErrorsTrue ==
    /\ Runs("caller") /\ Ended =>
          /\ os.out[mem.who] = (IF mem.f = "err_exit" THEN ItsMessage ELSE Data \o ItsMessage)
                               \o (IF HandlersRun THEN HandlerTexts ELSE <<>>)
          /\ mem.who = "child" => os.out["parent"] = Data \o HandlerTexts
          /\ mem.f = "errMsg" => mem.errno = "E1"
    /\ Runs("exit_handlers") /\ Ended =>
          LET said  == os.out["parent"]
              texts == IF mem.status = 2 THEN said ELSE Tail(said)
          IN  /\ mem.status = 2 => Len(texts) = Len(Registered)
              /\ mem.status # 2 => Head(said) = ItsMessage[1]
              /\ \A i \in 1 .. Len(texts) :
                    texts[i] = Printed(Reverse(SubSeq(Registered, 1, Len(texts)))[i])

(* The processes end. *)
ErrorsEnd == (mem.prog \in Progs) ~> (mem.prog \in Progs /\ Ended)
=============================================================================
