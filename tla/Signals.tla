------------------------------ MODULE Signals -------------------------------
(***************************************************************************)
(* Signals that are counted, and signals of timers.                        *)
(***************************************************************************)
EXTENDS Machine, Integers, Sequences

CONSTANTS NumSigs,      \* num-sigs of both senders
          QueueMax,     \* RLIMIT_SIGPENDING
          MaxSleep,     \* bound on the time t_nanosleep is asked to sleep
          MaxInts       \* bound on the SIGINTs sent to it

-----------------------------------------------------------------------------
(***************************************************************************)
(* Counting signals.  sig_receiver.c and catch_rtsigs.c catch them, block  *)
(* them for a while if asked to, and print how many came when SIGINT ends  *)
(* them; sig_sender.c sends a standard signal NumSigs times and then       *)
(* SIGINT, t_sigqueue.c queues a real-time signal with data data, data + 1 *)
(* and so on.  The kernel keeps one pending instance of a standard signal  *)
(* and a queue, of at most QueueMax entries, of a real-time one.           *)
(***************************************************************************)
SigProgs == {"sig_receiver", "catch_rtsigs"}
Data == 7                               \* t_sigqueue's argument

(* blocks: a block-time was given; sent, queued: signals sent so far;      *)
(* values: the si_value of each real-time signal caught; done: gotSigint   *)
(* or allDone.                                                             *)
SigInit ==
    /\ \E prog \in SigProgs, blocks \in BOOLEAN :
          mem = [prog |-> prog, blocks |-> blocks, sigCnt |-> 0, values |-> <<>>,
                 done |-> FALSE, sent |-> 0, queued |-> 0]
    /\ at = [main |-> "establish", sig_sender |-> "send", t_sigqueue |-> "send"]
    /\ os = [usr |-> FALSE, int |-> FALSE, rt |-> <<>>, blocked |-> {}]

Ended == at.main \in {"exit", "killed"}

-----------------------------------------------------------------------------
(* The senders.  A signal that comes before the handlers are established   *)
(* (the PID is printed earlier) ends the receiver.                         *)
Post(field, value, sender, k) ==
    /\ at' = [at EXCEPT ![sender] = k, !.main = IF @ = "establish" THEN "killed" ELSE @]
    /\ os' = [os EXCEPT ![field] = value]

SendSig ==
    /\ ~Ended /\ at.sig_sender = "send" /\ mem.sent < NumSigs
    /\ Post("usr", TRUE, "sig_sender", "send")
    /\ mem' = [mem EXCEPT !.sent = @ + 1]

SendSig2 ==
    /\ ~Ended /\ at.sig_sender = "send" /\ mem.sent = NumSigs
    /\ Post("int", TRUE, "sig_sender", "exit")
    /\ UNCHANGED mem

sig_sender == SendSig \/ SendSig2

(* Mutant: every signal carries the same data. *)
QueueSame ==
    /\ ~Ended /\ at.t_sigqueue = "send" /\ mem.queued < NumSigs /\ Len(os.rt) < QueueMax
    /\ Post("rt", Append(os.rt, Data), "t_sigqueue", "send")
    /\ mem' = [mem EXCEPT !.queued = @ + 1]

Queue ==
    /\ ~Ended /\ at.t_sigqueue = "send" /\ mem.queued < NumSigs /\ Len(os.rt) < QueueMax
    /\ Post("rt", Append(os.rt, Data + mem.queued), "t_sigqueue", "send")
    /\ mem' = [mem EXCEPT !.queued = @ + 1]

(* EAGAIN: errExit(), which leaves the rest unsent. *)
QueueFails ==
    /\ ~Ended /\ mem.queued < NumSigs /\ Len(os.rt) = QueueMax
    /\ Move("t_sigqueue", "send", "failed")
    /\ UNCHANGED <<mem, os>>

t_sigqueue == Queue \/ QueueFails

-----------------------------------------------------------------------------
(* The handlers run at any point of main(); they also end a pause() that   *)
(* has begun.                                                              *)
Resume == at' = [at EXCEPT !.main = IF @ = "paused" THEN "test" ELSE @]

CatchUsr ==
    /\ os.usr /\ "usr" \notin os.blocked
    /\ os' = [os EXCEPT !.usr = FALSE]
    /\ mem' = [mem EXCEPT !.sigCnt = @ + 1]
    /\ Resume

CatchRt ==
    /\ os.rt # <<>> /\ "rt" \notin os.blocked
    /\ os' = [os EXCEPT !.rt = Tail(@)]
    /\ mem' = [mem EXCEPT !.sigCnt = @ + 1, !.values = Append(@, Head(os.rt))]
    /\ Resume

CatchInt ==
    /\ os.int /\ "int" \notin os.blocked
    /\ os' = [os EXCEPT !.int = FALSE]
    /\ mem' = [mem EXCEPT !.done = TRUE]
    /\ Resume

handler == ~Ended /\ at.main # "establish" /\ (CatchUsr \/ CatchRt \/ CatchInt)

-----------------------------------------------------------------------------
(* main() of the receivers *)
Establish ==
    /\ Move("main", "establish", IF mem.blocks THEN "block" ELSE "test")
    /\ UNCHANGED <<mem, os>>

(* catch_rtsigs leaves SIGINT (and SIGTERM) out of the mask. *)
Block ==
    /\ Move("main", "block", "sleep")
    /\ os' = [os EXCEPT !.blocked = IF Runs("sig_receiver") THEN {"usr", "rt", "int"}
                                                            ELSE {"usr", "rt"}]
    /\ UNCHANGED mem

Unblock ==
    /\ Move("main", "sleep", "test")
    /\ os' = [os EXCEPT !.blocked = {}]
    /\ UNCHANGED mem

(* sig_receiver spins; catch_rtsigs pauses, and pause() begins after the   *)
(* test.                                                                   *)
Test ==
    /\ Move("main", "test", IF mem.done THEN "print" ELSE
                            IF Runs("sig_receiver") THEN "test" ELSE "pause")
    /\ UNCHANGED <<mem, os>>

Pause == Move("main", "pause", "paused") /\ UNCHANGED <<mem, os>>

PrintCount == Move("main", "print", "exit") /\ UNCHANGED <<mem, os>>

sig_receiver == Establish \/ Block \/ Unblock \/ Test \/ PrintCount
catch_rtsigs == sig_receiver \/ Pause

Receiver ==
    \/ Runs("sig_receiver") /\ sig_receiver
    \/ Runs("catch_rtsigs") /\ catch_rtsigs
    \/ mem.prog \in SigProgs /\ handler

Sender == mem.prog \in SigProgs /\ (sig_sender \/ t_sigqueue)

SigIdle == mem.prog \in SigProgs /\ (Ended \/ at.main = "paused") /\ UNCHANGED machine

SigNext == Receiver \/ Sender \/ SigIdle

(* Pending signals are delivered to a process that runs. *)
SigFairness ==
    /\ WF_machine(Receiver)
    /\ WF_machine(mem.prog \in SigProgs /\ handler)
    /\ WF_machine(mem.prog \in SigProgs /\ sig_sender)

-----------------------------------------------------------------------------
(* No queued real-time signal is lost or overtakes another, however long   *)
(* signals are blocked and whatever else is caught between; of the         *)
(* standard signals at least one and at most all are counted.              *)
CountsSignals ==
    mem.prog \in SigProgs =>
        LET n == Len(mem.values)  usr == mem.sigCnt - n IN
        /\ at.main # "killed" => mem.values \o os.rt = [k \in 1 .. mem.queued |-> Data + k - 1]
        /\ usr <= mem.sent
        /\ at.main \notin {"establish", "killed"} /\ mem.sent > 0 => os.usr \/ usr >= 1

(* SIGINT ends the receiver; catch_rtsigs handles it, and ends unless the  *)
(* handler ran after its test of allDone and before pause() began.         *)
SigintEnds ==
    /\ (Runs("sig_receiver") /\ os.int) ~> (mem.prog \in SigProgs /\ Ended)
    /\ (Runs("catch_rtsigs") /\ os.int) ~> (mem.prog \in SigProgs /\ (mem.done \/ Ended))
    /\ (Runs("catch_rtsigs") /\ mem.done /\ at.main \notin {"pause", "paused"}) ~>
          (mem.prog \in SigProgs /\ Ended)

-----------------------------------------------------------------------------
(***************************************************************************)
(* 23-timer: real_timer.c counts the expirations of an interval timer in a *)
(* busy loop, timed_read.c puts a timeout on read() with alarm(), and      *)
(* t_nanosleep.c continues an interrupted sleep with the time that         *)
(* remains.                                                                *)
(***************************************************************************)
TimerProgs == {"real_timer", "timed_read", "t_nanosleep"}

(* value, interval: is the timer's (the alarm's) value, its interval not   *)
(* zero; restart: the handler is established with SA_RESTART.              *)
TimerInit ==
    \E value, interval, restart \in BOOLEAN, secs \in 0 .. MaxSleep :
        \/ /\ mem = [prog |-> "real_timer", interval |-> interval, gotAlarm |-> FALSE,
                     sigCnt |-> 0, maxSigs |-> 0]
           /\ at = [main |-> "maxSigs"]
           /\ os = [value |-> value, armed |-> FALSE]
        \/ /\ mem = [prog |-> "timed_read", restart |-> restart, numRead |-> "none", errno |-> "none",
                     savedErrno |-> "none", said |-> "none"]
           /\ at = [main |-> "alarm"]
           /\ os = [value |-> value, armed |-> FALSE, input |-> "none", did |-> "none"]
        \/ /\ mem = [prog |-> "t_nanosleep", asked |-> secs, request |-> secs, remain |-> 0]
           /\ at = [main |-> "sleep"]
           /\ os = [slept |-> 0, total |-> 0, ints |-> 0]

-----------------------------------------------------------------------------
(* real_timer.c *)

MaxSigs ==
    /\ Move("main", "maxSigs", "set")
    /\ mem' = [mem EXCEPT !.maxSigs = IF ~mem.interval THEN 1 ELSE 3]
    /\ UNCHANGED os

SetTimer ==
    /\ Move("main", "set", "test")
    /\ os' = [os EXCEPT !.armed = os.value]
    /\ UNCHANGED mem

TestAlarm == Move("main", "test", IF mem.gotAlarm THEN "clear" ELSE "test") /\ UNCHANGED <<mem, os>>

ClearAlarm ==
    /\ Move("main", "clear", "count")
    /\ mem' = [mem EXCEPT !.gotAlarm = FALSE]
    /\ UNCHANGED os

CountAlarm ==
    /\ Move("main", "count", IF mem.sigCnt + 1 >= mem.maxSigs THEN "exit" ELSE "test")
    /\ mem' = [mem EXCEPT !.sigCnt = @ + 1]
    /\ UNCHANGED os

real_timer == MaxSigs \/ SetTimer \/ TestAlarm \/ ClearAlarm \/ CountAlarm

sigalrmHandler ==
    /\ at.main # "exit" /\ os.armed
    /\ os' = [os EXCEPT !.armed = mem.interval]
    /\ mem' = [mem EXCEPT !.gotAlarm = TRUE]
    /\ UNCHANGED at

-----------------------------------------------------------------------------
(* timed_read.c *)
Alarm ==
    /\ Move("main", "alarm", "read")
    /\ os' = [os EXCEPT !.armed = os.value]
    /\ UNCHANGED mem

(* read() blocks while there is nothing to read, not even an error or the  *)
(* end of the file.  did: how it really ended.                             *)
Read ==
    \/ /\ os.input # "none" /\ at.main \in {"read", "blocked"}
       /\ at' = [at EXCEPT !.main = "save"]
       /\ mem' = IF os.input = "data" THEN [mem EXCEPT !.numRead = "bytes"]
                 ELSE [mem EXCEPT !.numRead = "-1", !.errno = "EIO"]
       /\ os' = [os EXCEPT !.did = os.input]
    \/ os.input = "none" /\ Move("main", "read", "blocked") /\ UNCHANGED <<mem, os>>

SaveErrno ==
    /\ Move("main", "save", "off")
    /\ mem' = [mem EXCEPT !.savedErrno = mem.errno]
    /\ UNCHANGED os

(* alarm(0), which may change errno. *)
AlarmOff ==
    /\ Move("main", "off", "restore")
    /\ os' = [os EXCEPT !.armed = FALSE]
    /\ \E e \in {mem.errno, "other"} : mem' = [mem EXCEPT !.errno = e]

(* Mutant: errno is left as alarm(0) leaves it. *)
RestoreForgotten == Move("main", "restore", "report") /\ UNCHANGED <<mem, os>>

RestoreErrno ==
    /\ Move("main", "restore", "report")
    /\ mem' = [mem EXCEPT !.errno = mem.savedErrno]
    /\ UNCHANGED os

Report ==
    /\ Move("main", "report", "exit")
    /\ mem' = [mem EXCEPT !.said = CASE mem.numRead # "-1" -> "read"
                                     [] mem.numRead = "-1" /\ mem.errno = "EINTR" -> "timed out"
                                     [] OTHER -> "error"]
    /\ UNCHANGED os

(* SIGALRM's handler; a blocked read() fails with EINTR unless it is       *)
(* restarted.  Elsewhere the printf() of the handler may change errno.     *)
AlarmHandler ==
    /\ at.main # "exit" /\ os.armed
    /\ \/ /\ at.main = "blocked" /\ ~mem.restart
          /\ at' = [at EXCEPT !.main = "save"]
          /\ mem' = [mem EXCEPT !.numRead = "-1", !.errno = "EINTR"]
          /\ os' = [os EXCEPT !.armed = FALSE, !.did = "interrupted"]
       \/ /\ at.main # "blocked" \/ mem.restart
          /\ \E e \in {mem.errno, "other"} : mem' = [mem EXCEPT !.errno = e]
          /\ os' = [os EXCEPT !.armed = FALSE]
          /\ UNCHANGED at

timed_read == Alarm \/ Read \/ SaveErrno \/ AlarmOff \/ RestoreErrno \/ Report

(* Input (or the end of file) comes, or the terminal fails. *)
Type ==
    /\ os.input = "none"
    /\ \E what \in {"data", "error"} : os' = [os EXCEPT !.input = what]
    /\ UNCHANGED <<at, mem>>

-----------------------------------------------------------------------------
(* t_nanosleep.c *)
Tick ==
    /\ at.main = "sleep" /\ os.slept < mem.request
    /\ os' = [os EXCEPT !.slept = @ + 1, !.total = @ + 1]
    /\ UNCHANGED <<at, mem>>

SleepEnds ==
    /\ os.slept >= mem.request
    /\ Move("main", "sleep", "exit")
    /\ UNCHANGED <<mem, os>>

(* sigintHandler(): nanosleep() fails with EINTR and fills in remain. *)
Interrupt ==
    /\ at.main = "sleep" /\ os.slept < mem.request /\ os.ints < MaxInts
    /\ at' = [at EXCEPT !.main = "again"]
    /\ os' = [os EXCEPT !.ints = @ + 1]
    /\ mem' = [mem EXCEPT !.remain = mem.request - os.slept]

(* Mutant: the next sleep is for the whole time again. *)
SleepAgainWhole ==
    /\ Move("main", "again", "sleep")
    /\ os' = [os EXCEPT !.slept = 0]
    /\ UNCHANGED mem

SleepAgain ==
    /\ Move("main", "again", "sleep")
    /\ mem' = [mem EXCEPT !.request = mem.remain]
    /\ os' = [os EXCEPT !.slept = 0]

t_nanosleep == SleepEnds \/ SleepAgain

-----------------------------------------------------------------------------
TimerProgram ==
    \/ Runs("real_timer") /\ real_timer
    \/ Runs("timed_read") /\ timed_read
    \/ Runs("t_nanosleep") /\ t_nanosleep

TimerClock ==
    \/ Runs("real_timer") /\ sigalrmHandler
    \/ Runs("timed_read") /\ AlarmHandler
    \/ Runs("t_nanosleep") /\ Tick

User == (Runs("timed_read") /\ Type) \/ (Runs("t_nanosleep") /\ Interrupt)

TimerIdle == mem.prog \in TimerProgs /\ at.main \in {"exit", "blocked"} /\ UNCHANGED machine

TimerNext == TimerProgram \/ TimerClock \/ User \/ TimerIdle

(* Programs run and time passes; nobody has to type. *)
TimerFairness == WF_machine(TimerProgram) /\ WF_machine(TimerClock)

-----------------------------------------------------------------------------
(* However often it is interrupted, t_nanosleep sleeps for the time it was *)
(* asked to; timed_read reports a timeout just when the alarm interrupted  *)
(* its read(), and success just when read() returned something, whatever   *)
(* alarm(0) and the handler do to errno in between.                        *)
SleptAsAsked ==
    /\ Runs("t_nanosleep") /\ at.main = "exit" => os.total = mem.asked
    /\ Runs("timed_read") /\ at.main = "exit" =>
          /\ mem.said = "timed out" <=> os.did = "interrupted"
          /\ mem.said = "read" <=> os.did = "data"

TimerExit == mem.prog \in TimerProgs /\ at.main = "exit"

(* A nonzero timer ends real_timer although expirations that come before   *)
(* the flag is cleared are seen as one; an alarm that expires in read()    *)
(* ends timed_read (one that expires before read() has begun does not);    *)
(* t_nanosleep ends.                                                       *)
TimersEnd ==
    /\ (Runs("real_timer") /\ os.value) ~> TimerExit
    /\ (Runs("timed_read") /\ at.main = "blocked" /\ os.armed /\ ~mem.restart) ~> TimerExit
    /\ Runs("t_nanosleep") ~> TimerExit

-----------------------------------------------------------------------------
(* One of the programs runs. *)
Init == SigInit \/ TimerInit

Next == SigNext \/ TimerNext

Fairness == SigFairness /\ TimerFairness
=============================================================================
