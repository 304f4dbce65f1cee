------------------------------ MODULE SignalIO ------------------------------
(***************************************************************************)
(* Signals that tell a main loop of something that select() or read() must *)
(* then find: the self-pipe and signal-driven input.                       *)
(***************************************************************************)
EXTENDS Machine, Naturals, Sequences, SequencesExt

CONSTANTS PipeSize,     \* bytes the pipe holds
          MaxSignals,   \* bound on the SIGINTs sent
          MaxKeys       \* bound on the characters typed

-----------------------------------------------------------------------------
(***************************************************************************)
(* 63-io-advanced/self_pipe.c: SIGINT's handler writes a byte to a         *)
(* nonblocking pipe that select() watches, so that a signal that comes     *)
(* just before select() still ends it.                                     *)
(***************************************************************************)
(* pto: is there a timeout; readfds: what the last select() left in the    *)
(* set; caught: handler() ran before the last select() returned; said: "A  *)
(* signal was caught" was printed.  input: another descriptor is ready.    *)
SelfPipeInit ==
    /\ \E pto \in BOOLEAN :
          mem = [prog |-> "self_pipe", pto |-> pto, readfds |-> {}, caught |-> FALSE,
                 said |-> FALSE]
    /\ at = [main |-> "pipe", handler |-> "none"]
    /\ os = [signals |-> 0, pending |-> FALSE, pipe |-> 0, input |-> FALSE]

Ended == at.main \in {"exit", "killed"}
Main(l, k) == at.handler = "none" /\ Move("main", l, k)

-----------------------------------------------------------------------------
(* Before sigaction() SIGINT ends the program; then it is blocked while    *)
(* its handler runs.                                                       *)
Sigint ==
    /\ ~Ended /\ os.signals < MaxSignals
    /\ IF at.main \in {"pipe", "sigaction"}
         THEN /\ at' = [at EXCEPT !.main = "killed"]
              /\ os' = [os EXCEPT !.signals = @ + 1]
         ELSE /\ os' = [os EXCEPT !.signals = @ + 1, !.pending = TRUE]
              /\ UNCHANGED at
    /\ UNCHANGED mem

Deliver ==
    /\ ~Ended /\ os.pending
    /\ Move("handler", "none", "write")
    /\ os' = [os EXCEPT !.pending = FALSE]
    /\ UNCHANGED mem

(* Mutant: the write end is left blocking. *)
HandlerBlocking ==
    /\ ~Ended /\ os.pipe < PipeSize
    /\ Move("handler", "write", "none")
    /\ os' = [os EXCEPT !.pipe = @ + 1]
    /\ mem' = [mem EXCEPT !.caught = @ \/ at.main \in {"select", "blocked"}]

(* write(pfd[1], "x", 1); a full pipe is EAGAIN, which is no error.  The   *)
(* handler makes a blocked select() fail with EINTR: it is called again.   *)
Handler ==
    /\ ~Ended /\ at.handler = "write"
    /\ at' = [main |-> IF at.main = "blocked" THEN "select" ELSE at.main,
              handler |-> "none"]
    /\ os' = [os EXCEPT !.pipe = IF @ < PipeSize THEN @ + 1 ELSE @]
    /\ mem' = [mem EXCEPT !.caught = @ \/ at.main \in {"select", "blocked"}]

-----------------------------------------------------------------------------
(* main() *)

(* The pipe is made, and made nonblocking, before the handler exists. *)
MakePipe == Main("pipe", "sigaction") /\ UNCHANGED <<mem, os>>
Establish == Main("sigaction", "select") /\ UNCHANGED <<mem, os>>

Ready == (IF os.pipe > 0 THEN {"pipe"} ELSE {}) \cup (IF os.input THEN {"fd"} ELSE {})

(* select() returns at once if something is ready, else it blocks. *)
Select ==
    /\ Main("select", IF Ready # {} THEN "test" ELSE "blocked")
    /\ mem' = [mem EXCEPT !.readfds = Ready]
    /\ UNCHANGED os

Wake ==
    /\ Ready # {}
    /\ Main("blocked", "test")
    /\ mem' = [mem EXCEPT !.readfds = Ready]
    /\ UNCHANGED os

Timeout ==
    /\ mem.pto
    /\ Main("blocked", "test")
    /\ mem' = [mem EXCEPT !.readfds = {}]
    /\ UNCHANGED os

(* if (FD_ISSET(pfd[0], &readfds)) *)
Test ==
    /\ Main("test", IF "pipe" \in mem.readfds THEN "drain" ELSE "print")
    /\ mem' = [mem EXCEPT !.said = "pipe" \in mem.readfds]
    /\ UNCHANGED os

(* One byte per read() until EAGAIN. *)
Drain ==
    /\ UNCHANGED mem
    /\ \/ os.pipe > 0 /\ Main("drain", "drain") /\ os' = [os EXCEPT !.pipe = @ - 1]
       \/ os.pipe = 0 /\ Main("drain", "print") /\ UNCHANGED os

PrintReady == Main("print", "exit") /\ UNCHANGED <<mem, os>>

Input ==
    /\ ~Ended /\ ~os.input
    /\ os' = [os EXCEPT !.input = TRUE]
    /\ UNCHANGED <<at, mem>>

self_pipe == MakePipe \/ Establish \/ Select \/ Wake \/ Test \/ Drain \/ PrintReady

Program == Runs("self_pipe") /\ (Deliver \/ Handler \/ self_pipe)

Environment == Runs("self_pipe") /\ (Sigint \/ Timeout \/ Input)

(* Without input, timeout or signal the program waits for ever. *)
Idle == Runs("self_pipe") /\ (Ended \/ at.main = "blocked") /\ UNCHANGED machine

SelfPipeNext == Program \/ Environment \/ Idle

(* The kernel runs the program and delivers its signals. *)
SelfPipeFairness == WF_machine(Program)

-----------------------------------------------------------------------------
(* A signal handled before select() returned is reported, also when it     *)
(* came between sigaction() and select(), and together with other input or *)
(* a timeout.                                                              *)
SignalReported ==
    Runs("self_pipe") /\ at.main \in {"drain", "print", "exit"} =>
        (mem.said <=> mem.caught)

(* A signal that is handled ends the program: neither select(), nor the    *)
(* reads that empty the pipe, nor a handler that finds the pipe full waits *)
(* for ever.                                                               *)
SignalEnds ==
    (Runs("self_pipe") /\ at.handler = "write") ~> (Runs("self_pipe") /\ Ended)

-----------------------------------------------------------------------------
(***************************************************************************)
(* 63-io-advanced/demo_sigio.c: signal-driven input.  SIGIO's handler sets *)
(* gotSigio; the busy main loop then clears the flag and reads everything  *)
(* there is.  The terminal raises SIGIO when input arrives, not while      *)
(* input is left over, so a lost flag would strand input.                  *)
(***************************************************************************)
(* ch: the character read() returned; read: all it has returned.  queue:   *)
(* the terminal's input; async: O_ASYNC and O_NONBLOCK are on.             *)
SigioInit ==
    /\ at = [main |-> "setAsync"]
    /\ mem = [prog |-> "demo_sigio", gotSigio |-> FALSE, done |-> FALSE,
              ch |-> "none", read |-> <<>>]
    /\ os = [async |-> FALSE, pending |-> FALSE, queue |-> <<>>, keys |-> 0]

-----------------------------------------------------------------------------
(* The user types; the handler runs at any point of main(). *)
Key ==
    /\ at.main # "exit" /\ os.keys < MaxKeys
    /\ \E c \in {"a", "hash"} :
          os' = [os EXCEPT !.keys = @ + 1, !.queue = Append(@, c),
                           !.pending = @ \/ os.async]
    /\ UNCHANGED <<at, mem>>

SigioHandler ==
    /\ at.main # "exit" /\ os.pending
    /\ os' = [os EXCEPT !.pending = FALSE]
    /\ mem' = [mem EXCEPT !.gotSigio = TRUE]
    /\ UNCHANGED at

-----------------------------------------------------------------------------
(* main(); the handler is established first *)

(* F_SETOWN and F_SETFL. *)
SetAsync ==
    /\ Move("main", "setAsync", "cbreak")
    /\ os' = [os EXCEPT !.async = TRUE]
    /\ UNCHANGED mem

(* ttySetCbreak() uses TCSAFLUSH: what was typed before is discarded. *)
SetCbreak ==
    /\ Move("main", "cbreak", "loop")
    /\ os' = [os EXCEPT !.queue = <<>>]
    /\ UNCHANGED mem

(* for (; !done; ) with if (gotSigio) gotSigio = 0 *)
Loop == Move("main", "loop", IF mem.done THEN "restore" ELSE "test") /\ UNCHANGED <<mem, os>>

TestFlag == Move("main", "test", IF mem.gotSigio THEN "clear" ELSE "loop") /\ UNCHANGED <<mem, os>>

ClearFlag ==
    /\ Move("main", "clear", "read")
    /\ mem' = [mem EXCEPT !.gotSigio = FALSE]
    /\ UNCHANGED os

Take ==
    /\ os.queue # <<>>
    /\ os' = [os EXCEPT !.queue = Tail(@)]
    /\ mem' = [mem EXCEPT !.ch = Head(os.queue), !.read = Append(@, Head(os.queue))]

Eagain == os.queue = <<>> /\ UNCHANGED <<mem, os>>

(* while (read() > 0 && !done): read() comes first. *)
ReadChar ==
    \/ Take /\ Move("main", "read", IF mem.done THEN "loop" ELSE "print")
    \/ Eagain /\ Move("main", "read", "loop")

PrintChar ==
    /\ Move("main", "print", "read")
    /\ mem' = [mem EXCEPT !.done = mem.ch = "hash"]
    /\ UNCHANGED os

(* tcsetattr(TCSAFLUSH) and exit(). *)
RestoreTty ==
    /\ Move("main", "restore", "exit")
    /\ os' = [os EXCEPT !.queue = <<>>]
    /\ UNCHANGED mem

demo_sigio ==
    \/ SetAsync \/ SetCbreak \/ Loop \/ TestFlag \/ ClearFlag \/ ReadChar \/ PrintChar
    \/ RestoreTty

MainStep == Runs("demo_sigio") /\ demo_sigio
HandlerStep == Runs("demo_sigio") /\ SigioHandler
Exited == Runs("demo_sigio") /\ at.main = "exit" /\ UNCHANGED machine

SigioNext == (Runs("demo_sigio") /\ Key) \/ HandlerStep \/ MainStep \/ Exited

(* The kernel runs the program and delivers its signals. *)
SigioFairness == WF_machine(MainStep) /\ WF_machine(HandlerStep)

-----------------------------------------------------------------------------
Waiting == Runs("demo_sigio") /\ at.main \in {"loop", "test"}

(* Input is never stranded: while the main loop spins, unread input has a  *)
(* SIGIO pending or the flag set, whatever the handler interrupts.  At     *)
(* most one character after a hash is taken from the terminal: done is     *)
(* tested only after the next read().                                      *)
NoStrandedInput ==
    /\ Waiting /\ ~mem.done /\ os.queue # <<>> => os.pending \/ mem.gotSigio
    /\ Runs("demo_sigio") =>
          \A k \in 1 .. Len(mem.read) : mem.read[k] = "hash" => k >= Len(mem.read) - 1

(* A hash typed while the loop runs ends the program. *)
HashEnds ==
    (Waiting /\ Contains(os.queue, "hash")) ~> (Runs("demo_sigio") /\ at.main = "exit")

-----------------------------------------------------------------------------
(* One of the programs runs. *)
Init == SelfPipeInit \/ SigioInit

Next == SelfPipeNext \/ SigioNext

Fairness == SelfPipeFairness /\ SigioFairness
=============================================================================
