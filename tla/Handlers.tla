------------------------------ MODULE Handlers ------------------------------
(***************************************************************************)
(* Signal handlers that interrupt main() anywhere: 21-signal-handler/      *)
(* sigmask_longjmp.c and nonreentrant.c, 20-signal-basic/intquit.c and     *)
(* ouch.c, 20-experimental/block.c, allblock.c, pause.c and                *)
(* sigaction-vs-signal.c, and 22-signal-advanced/demo_SIGFPE.c.            *)
(***************************************************************************)
EXTENDS Machine, Naturals, Sequences, FiniteSets, SequencesExt

CONSTANTS MaxSent,      \* bound on the signals sent to the program
          Rounds        \* the round from which ouch (10) and block (5) change their ways

Progs == {"sigmask_longjmp", "nonreentrant", "intquit", "ouch", "block", "pause",
          "sigaction", "demo_SIGFPE"}

(* cond, cond2: how the program was built or called (USE_SIGSETJMP; the    *)
(* two arguments of nonreentrant equal; 'i' and 'b' of demo_SIGFPE);       *)
(* armed: a handler was installed;                                         *)
(* stack: the signals whose handlers are running, the last one on top, and *)
(* step: how far the top one is; canJump, env, jumps and shown of          *)
(* sigmask_longjmp (shown: the mask it prints after the jump); buf: crypt's*)
(* static buffer and torn: a handler has run inside the crypt() or strcmp()*)
(* of main(); j: the round; out: what was written.                         *)
(* disp: the dispositions; mask, pending: signal sets; held: a SIGINT came *)
(* while block had it blocked.                                             *)
Init ==
    /\ \E prog \in Progs, cond, cond2 \in BOOLEAN :
          /\ cond2 => prog = "demo_SIGFPE"
          /\ cond => prog \in {"sigmask_longjmp", "nonreentrant", "demo_SIGFPE"}
          /\ mem = [prog |-> prog, cond |-> cond, cond2 |-> cond2, stack |-> <<>>, step |-> 0,
                    canJump |-> FALSE, env |-> FALSE, jumps |-> 0, shown |-> <<>>,
                    armed |-> FALSE, buf |-> "none", cr1 |-> "none", torn |-> FALSE,
                    mismatch |-> 0, handled |-> 0, j |-> 0, out |-> <<>>]
    /\ at = [main |-> "start"]
    /\ os = [disp |-> [INT |-> "dfl", QUIT |-> "dfl", FPE |-> "dfl"],
             mask |-> {}, pending |-> {}, sent |-> 0, held |-> FALSE]

Ended == at.main \in {"killed", "done", "exited"}
Deliverable == os.pending \ os.mask
MainRuns == mem.stack = <<>> /\ Deliverable = {} /\ ~Ended
Quiet == UNCHANGED <<mem, os>>

Go(l, k) == MainRuns /\ Move("main", l, k)
Install(sig, l, k) ==
    /\ Go(l, k)
    /\ os' = [os EXCEPT !.disp[sig] = "handler"]
    /\ mem' = [mem EXCEPT !.armed = TRUE]

-----------------------------------------------------------------------------
(* The kernel.  A signal waits while it is blocked; its default action     *)
(* ends the program; its handler runs with the signal blocked, and ends a  *)
(* pause().  (A sleep() that it ends is a step of main() in any case.)     *)
Send(sig) ==
    /\ ~Ended /\ os.sent < MaxSent
    /\ os' = [os EXCEPT !.pending = @ \cup {sig}, !.sent = @ + 1,
                        !.held = @ \/ (Runs("block") /\ sig \in os.mask)]
    /\ UNCHANGED <<at, mem>>

Deliver(sig) ==
    /\ ~Ended /\ sig \in Deliverable
    /\ os' = [os EXCEPT !.pending = @ \ {sig},
                        !.mask = IF os.disp[sig] = "handler" THEN @ \cup {sig} ELSE @]
    /\ IF os.disp[sig] = "handler"
       THEN /\ mem' = [mem EXCEPT !.stack = Append(@, sig), !.step = 0]
            /\ at' = [at EXCEPT !.main = IF @ = "pause" THEN "woken" ELSE @]
       ELSE /\ at' = [at EXCEPT !.main = "killed"]
            /\ UNCHANGED mem

Handling(sig, step) ==
    /\ mem.stack # <<>> /\ Last(mem.stack) = sig /\ mem.step = step
    /\ Deliverable = {} /\ ~Ended

(* The handler returns; what it interrupted goes on where it was, which of *)
(* intquit's handlers only the first can be.                               *)
Popped(m) == [m EXCEPT !.stack = Front(@), !.step = 0]
Unmask == os' = [os EXCEPT !.mask = @ \ {Last(mem.stack)}]

-----------------------------------------------------------------------------
(* sigmask_longjmp *)
Setjmp == Go("setjmp", "canJump") /\ mem' = [mem EXCEPT !.env = TRUE] /\ UNCHANGED os

CanJump == Go("canJump", "call") /\ mem' = [mem EXCEPT !.canJump = TRUE] /\ UNCHANGED os

(* Mutant: canJump is not looked at. *)
HandlerJumps ==
    /\ Handling("INT", 0)
    /\ mem' = [mem EXCEPT !.stack = <<>>, !.jumps = @ + 1]
    /\ at' = [at EXCEPT !.main = "jumped"]
    /\ os' = [os EXCEPT !.mask = IF mem.cond THEN {} ELSE @]

(* handler(): siglongjmp() gives back the mask that sigsetjmp() saved,     *)
(* longjmp() leaves the handler's.                                         *)
Handler ==
    /\ Handling("INT", 0)
    /\ IF mem.canJump
       THEN /\ mem' = [mem EXCEPT !.stack = <<>>, !.jumps = @ + 1]
            /\ at' = [at EXCEPT !.main = "jumped"]
            /\ os' = [os EXCEPT !.mask = IF mem.cond THEN {} ELSE @]
       ELSE mem' = Popped(mem) /\ Unmask /\ UNCHANGED at

AfterJump ==
    /\ Go("jumped", "call")
    /\ mem' = [mem EXCEPT !.shown = <<os.mask>>]     \* printSigMask()
    /\ UNCHANGED os

(* for (;;) pause() *)
PauseLoop == (Go("call", "pause") \/ Go("woken", "call")) /\ Quiet

sigmask_longjmp ==
    \/ Install("INT", "start", "setjmp") \/ Setjmp \/ CanJump
    \/ Handler \/ AfterJump \/ PauseLoop

-----------------------------------------------------------------------------
(* nonreentrant.  crypt() returns a static buffer; what it leaves there    *)
(* after a handler called it meanwhile is anybody's guess.                 *)
Second == IF mem.cond THEN "one" ELSE "two"

Strdup == Go("start", "sigaction") /\ mem' = [mem EXCEPT !.cr1 = "one"] /\ UNCHANGED os

CryptBegins == Go("loop", "crypt") /\ mem' = [mem EXCEPT !.torn = FALSE] /\ UNCHANGED os

CryptReturns ==
    /\ Go("crypt", "strcmp") /\ UNCHANGED os
    /\ \E b \in IF mem.torn THEN {"one", "two", "mixed"} ELSE {"one"} :
          mem' = [mem EXCEPT !.buf = b, !.torn = FALSE]

Mismatch ==
    /\ Go("strcmp", "loop") /\ UNCHANGED os
    /\ mem.buf # mem.cr1 \/ mem.torn
    /\ mem' = [mem EXCEPT !.mismatch = @ + 1]

Match ==
    /\ Go("strcmp", "loop") /\ Quiet
    /\ mem.buf = mem.cr1 \/ mem.torn

(* In the handler. *)
CryptSecond ==
    /\ Handling("INT", 0)
    /\ mem' = [mem EXCEPT !.buf = Second, !.step = 1, !.torn = at.main \in {"crypt", "strcmp"}]
    /\ UNCHANGED <<at, os>>

CountHandled ==
    /\ Handling("INT", 1)
    /\ mem' = Popped([mem EXCEPT !.handled = @ + 1])
    /\ Unmask /\ UNCHANGED at

nonreentrant ==
    \/ Strdup \/ Install("INT", "sigaction", "loop")
    \/ CryptBegins \/ CryptReturns \/ Mismatch \/ Match \/ CryptSecond \/ CountHandled

-----------------------------------------------------------------------------
(* intquit: SIGQUIT may come while SIGINT's handler runs. *)
CountInt ==
    /\ Handling("INT", 0)
    /\ mem' = [mem EXCEPT !.handled = @ + 1, !.step = 1]
    /\ UNCHANGED <<at, os>>

Caught(what) ==
    /\ Handling("INT", 1)
    /\ mem' = Popped([mem EXCEPT !.out = Append(@, what)])
    /\ Unmask /\ UNCHANGED at

CaughtInt == Caught(mem.handled)

CaughtQuit == Handling("QUIT", 0) /\ at' = [at EXCEPT !.main = "exited"] /\ Quiet

intquit ==
    \/ Install("INT", "start", "quit") \/ Install("QUIT", "quit", "call") \/ PauseLoop
    \/ CountInt \/ CaughtInt \/ CaughtQuit

(* ouch: SIGINT is caught for Rounds rounds (at least: a sleep() that a    *)
(* signal ends makes a round shorter).                                     *)
NextRound(l, k) ==
    /\ Go(l, k)
    /\ mem' = [mem EXCEPT !.j = IF @ < Rounds THEN @ + 1 ELSE @]

Default ==
    /\ mem.j >= Rounds /\ NextRound("test", "sleep")
    /\ os' = [os EXCEPT !.disp["INT"] = "dfl"]

Ouch == Handling("INT", 0) /\ mem' = Popped(mem) /\ Unmask /\ UNCHANGED at

ouch ==
    \/ Install("INT", "start", "sleep") \/ Ouch
    \/ Go("sleep", "test") /\ Quiet
    \/ mem.j < Rounds /\ NextRound("test", "sleep") /\ UNCHANGED os
    \/ Default

-----------------------------------------------------------------------------
(* block and allblock: from round Rounds on the mask is given back after   *)
(* every round; a SIGINT that was held ends the program before             *)
(* sigprocmask() returns.                                                  *)
Sigprocmask ==
    /\ Go("start", "sleep") /\ UNCHANGED mem
    /\ os' = [os EXCEPT !.mask = {"INT", "QUIT"}]

Unblock ==
    /\ mem.j >= Rounds /\ NextRound("test", "unblocked")
    /\ os' = [os EXCEPT !.mask = {}]

NeverReached ==
    Go("unblocked", "sleep") /\ mem' = [mem EXCEPT !.out = <<"never reached!">>] /\ UNCHANGED os

block ==
    \/ Sigprocmask \/ Unblock \/ NeverReached
    \/ Go("sleep", "test") /\ Quiet
    \/ mem.j < Rounds /\ NextRound("test", "sleep") /\ UNCHANGED os

(* pause: once. *)
pause ==
    \/ Install("INT", "start", "call")
    \/ Go("call", "pause") /\ Quiet
    \/ CountInt
    \/ Caught("Ouch!")
    \/ Go("woken", "done") /\ Quiet

(* sigaction-vs-signal: two writes with a sleep between them. *)
OuchBegins ==
    /\ Handling("INT", 0)
    /\ mem' = [mem EXCEPT !.out = Append(@, "Ouch"), !.step = 1]
    /\ UNCHANGED <<at, os>>

sigaction == Install("INT", "start", "call") \/ PauseLoop \/ OuchBegins \/ Caught("!!!!!!")

-----------------------------------------------------------------------------
(* demo_SIGFPE: a fault is no signal one can ignore or put off; when the   *)
(* handler returns the division is tried again.                            *)
Prepare ==
    /\ Go("start", "divide") /\ UNCHANGED mem
    /\ os' = [os EXCEPT !.disp["FPE"] = IF mem.cond THEN "ign" ELSE "handler",
                        !.mask = IF mem.cond2 THEN {"FPE"} ELSE {}]

Divide ==
    /\ MainRuns /\ at.main = "divide"
    /\ IF os.disp["FPE"] = "handler" /\ "FPE" \notin os.mask
       THEN os' = [os EXCEPT !.pending = @ \cup {"FPE"}] /\ UNCHANGED at
       ELSE at' = [at EXCEPT !.main = "killed"] /\ UNCHANGED os
    /\ UNCHANGED mem

SigfpeCatcher == 
    /\ Handling("FPE", 0)
    /\ mem' = Popped([mem EXCEPT !.handled = 1])
    /\ Unmask /\ UNCHANGED at

demo_SIGFPE == Prepare \/ Divide \/ SigfpeCatcher

-----------------------------------------------------------------------------
Program ==
    \/ Runs("sigmask_longjmp") /\ sigmask_longjmp
    \/ Runs("nonreentrant") /\ nonreentrant
    \/ Runs("intquit") /\ intquit
    \/ Runs("ouch") /\ ouch
    \/ Runs("block") /\ block
    \/ Runs("pause") /\ pause
    \/ Runs("sigaction") /\ sigaction
    \/ Runs("demo_SIGFPE") /\ demo_SIGFPE
    \/ mem.prog \in Progs /\ \E sig \in {"INT", "QUIT", "FPE"} : Deliver(sig)

Waiting == Ended \/ (at.main = "pause" /\ mem.stack = <<>>)

Next ==
    \/ Program
    \/ mem.prog \in Progs \ {"demo_SIGFPE"} /\ Send("INT")
    \/ Runs("intquit") /\ Send("QUIT")
    \/ mem.prog \in Progs /\ Waiting /\ UNCHANGED machine

(* The kernel runs the process and delivers what is not blocked. *)
Fairness == WF_machine(Program)

-----------------------------------------------------------------------------
Alternates(s) == \A i \in 1 .. Len(s) : s[i] = IF i % 2 = 1 THEN "Ouch" ELSE "!!!!!!"

(* Wherever the handlers interrupt main():                                 *)
(* - the jump is never taken to a buffer that setjmp() has not filled, and *)
(*   the mask after it is empty exactly if sigsetjmp() was used; with      *)
(*   longjmp() there is no second jump;                                    *)
(* - nonreentrant reports no more mismatches than handlers ran;            *)
(* - intquit numbers the SIGINTs in order without a gap;                   *)
(* - once a handler is installed SIGINT kills none of the programs, except *)
(*   ouch from round Rounds on (intquit may still die of a SIGQUIT);       *)
(* - block gets past sigprocmask() only if no SIGINT was held, pause past  *)
(*   pause() only if one was caught, and a handler is not interrupted by   *)
(*   its own signal;                                                       *)
(* - SIGFPE is caught exactly if it is neither ignored nor blocked.        *)
HandlersTrue ==
    /\ Runs("sigmask_longjmp") =>
          /\ mem.jumps > 0 => mem.env
          /\ mem.shown # <<>> => (mem.shown[1] = {}) = mem.cond
          /\ ~mem.cond => mem.jumps <= 1
    /\ Runs("nonreentrant") => mem.mismatch <= mem.handled
    /\ Runs("intquit") => \A i \in 1 .. Len(mem.out) : mem.out[i] = i
    /\ mem.prog \in Progs /\ at.main = "killed" /\ mem.armed =>
          (Runs("ouch") /\ mem.j >= Rounds) \/ Runs("intquit")
    /\ Runs("block") /\ mem.out # <<>> => ~os.held
    /\ Runs("pause") /\ at.main = "done" => mem.handled > 0
    /\ Runs("sigaction") => Alternates(mem.out)
    /\ Runs("demo_SIGFPE") =>
          /\ mem.handled > 0 => ~mem.cond /\ ~mem.cond2
          /\ Ended => mem.cond \/ mem.cond2

(* SIGQUIT ends intquit; a SIGINT ends block, in the end also one that it  *)
(* blocks, and ouch once its handler has been replaced by the default; it  *)
(* is handled by sigmask_longjmp with sigsetjmp(); pause ends after a      *)
(* SIGINT, unless the handler ran before pause() was called.               *)
HandlersEnd ==
    /\ (Runs("intquit") /\ "QUIT" \in os.pending) ~> (Runs("intquit") /\ Ended)
    /\ (Runs("block") /\ "INT" \in os.pending) ~> (Runs("block") /\ at.main = "killed")
    /\ (Runs("ouch") /\ "INT" \in os.pending /\ os.disp["INT"] = "dfl") ~>
          (Runs("ouch") /\ at.main = "killed")
    /\ (Runs("sigmask_longjmp") /\ mem.cond /\ "INT" \in os.pending) ~>
          (Runs("sigmask_longjmp") /\ "INT" \notin os.pending)
    /\ (Runs("pause") /\ "INT" \in os.pending /\ at.main = "pause") ~>
          (Runs("pause") /\ Ended)
=============================================================================
