----------------------------- MODULE ThreadData -----------------------------
(***************************************************************************)
(* What belongs to a thread: the cleanup handler and the resources of a    *)
(* cancelled one, and the buffers of strerror().                           *)
(***************************************************************************)
EXTENDS Machine, Naturals, FiniteSets

-----------------------------------------------------------------------------
(***************************************************************************)
(* 32-thread-cancel: thread_cancel.c cancels a thread that loops through   *)
(* printf() and sleep(); thread_cleanup.c cancels, or signals, a thread    *)
(* that waits on a condition variable, with a cleanup handler that frees a *)
(* buffer and unlocks the mutex.  The sleep()s before pthread_cancel()     *)
(* order nothing: the request may come before the thread has started.      *)
(***************************************************************************)
Progs == {"thread_cancel", "thread_cleanup"}

(* cancels: thread_cleanup was started without arguments.                  *)
CancelInit ==
    /\ \E prog \in Progs, cancels \in BOOLEAN :
          /\ prog = "thread_cancel" => cancels
          /\ mem = [prog |-> prog, cancels |-> cancels, glob |-> 0, buf |-> "none",
                    handlers |-> 0, res |-> "none", exiting |-> "none"]
    /\ at = [main |-> "create", thread |-> "unborn"]
    /\ os = [mtx |-> "free", cancel |-> FALSE]

Lock(t) == os.mtx = "free" /\ os' = [os EXCEPT !.mtx = t]
Unlock == os' = [os EXCEPT !.mtx = "free"]

-----------------------------------------------------------------------------
(* Cancellation *)

(* The request is acted on: the handlers pushed so far run, then the       *)
(* thread ends with PTHREAD_CANCELED.                                      *)
ActOnCancel(l) ==
    /\ os.cancel
    /\ Move("thread", l, IF mem.handlers > 0 THEN "free" ELSE "end")
    /\ mem' = [mem EXCEPT !.exiting = "canceled"]
    /\ UNCHANGED os

(* printf() may or may not be a cancellation point. *)
Printf(l, k) ==
    \/ Move("thread", l, k) /\ UNCHANGED <<mem, os>>
    \/ ActOnCancel(l)

(* sleep() is one. *)
Sleep(l, k) ==
    \/ ~os.cancel /\ Move("thread", l, k) /\ UNCHANGED <<mem, os>>
    \/ ActOnCancel(l)

ThreadEnd ==
    /\ Move("thread", "end", "done")
    /\ mem' = [mem EXCEPT !.res = mem.exiting]
    /\ UNCHANGED os

-----------------------------------------------------------------------------
(* thread_cancel.c *)
cancel_threadFunc == Printf("start", "loop") \/ Printf("loop", "sleep") \/ Sleep("sleep", "loop")

-----------------------------------------------------------------------------
(* thread_cleanup.c *)
Malloc ==
    /\ Move("thread", "malloc", "printed")
    /\ mem' = [mem EXCEPT !.buf = "allocated"]
    /\ UNCHANGED os

(* pthread_mutex_lock() is no cancellation point; pthread_cleanup_push()   *)
(* follows it.                                                             *)
LockAndPush ==
    /\ Move("thread", "lock", "test")
    /\ Lock("thread")
    /\ mem' = [mem EXCEPT !.handlers = 1]

(* while (glob == 0): pthread_cond_wait() releases the mutex. *)
TestGlob ==
    /\ UNCHANGED mem
    /\ \/ mem.glob # 0 /\ Move("thread", "test", "completed") /\ UNCHANGED os
       \/ mem.glob = 0 /\ Move("thread", "test", "wait") /\ Unlock

(* A cancelled waiter has the mutex again when its handlers run; a waiter  *)
(* that is woken (or wakes spuriously) has it when it tests again.         *)
CondWaitCanceled ==
    /\ os.cancel
    /\ Move("thread", "wait", IF mem.handlers > 0 THEN "free" ELSE "end")
    /\ Lock("thread")
    /\ mem' = [mem EXCEPT !.exiting = "canceled"]

CondWaitWakes(l) == Move("thread", l, "test") /\ Lock("thread") /\ UNCHANGED mem

(* pthread_cleanup_pop(1) runs the handler on the normal path. *)
Pop == Move("thread", "pop", "free") /\ UNCHANGED <<mem, os>>

CleanupFree ==
    /\ Move("thread", "free", "unlock")
    /\ mem' = [mem EXCEPT !.buf = "freed", !.handlers = 0]
    /\ UNCHANGED os

(* Mutant: the handler only frees. *)
CleanupUnlockForgotten ==
    Move("thread", "unlock", "end") /\ UNCHANGED <<mem, os>>

CleanupUnlock == Move("thread", "unlock", "end") /\ Unlock /\ UNCHANGED mem

cleanupHandler == CleanupFree \/ CleanupUnlock

cleanup_threadFunc ==
    \/ Malloc \/ Printf("printed", "lock") \/ LockAndPush \/ TestGlob
    \/ CondWaitCanceled \/ CondWaitWakes("woken")
    \/ Printf("completed", "pop") \/ Pop \/ cleanupHandler

-----------------------------------------------------------------------------
(* main() of both *)
CreateOK ==
    /\ at.main = "create"
    /\ at' = [main |-> "act",
              thread |-> IF Runs("thread_cancel") THEN "start" ELSE "malloc"]
    /\ UNCHANGED <<mem, os>>

CreateFails == Move("main", "create", "failed") /\ UNCHANGED <<mem, os>>

(* A request to a thread that has ended (but is not joined) does nothing. *)
Cancel ==
    /\ mem.cancels
    /\ Move("main", "act", "join")
    /\ os' = [os EXCEPT !.cancel = TRUE]
    /\ UNCHANGED mem

SetGlob ==
    /\ ~mem.cancels
    /\ Move("main", "act", "unlock")
    /\ Lock("main")
    /\ mem' = [mem EXCEPT !.glob = 1]

UnlockGlob == Move("main", "unlock", "signal") /\ Unlock /\ UNCHANGED mem

Signal ==
    /\ at.main = "signal"
    /\ at' = [main |-> "join",
              thread |-> IF at.thread = "wait" THEN "woken" ELSE at.thread]
    /\ UNCHANGED <<mem, os>>

Join ==
    /\ at.thread = "done"
    /\ Move("main", "join", "exit")
    /\ UNCHANGED <<mem, os>>

cancel_main == CreateOK \/ CreateFails \/ Cancel \/ Join
cleanup_main == cancel_main \/ SetGlob \/ UnlockGlob \/ Signal

-----------------------------------------------------------------------------
Thread ==
    \/ Runs("thread_cancel") /\ (cancel_threadFunc \/ ThreadEnd)
    \/ Runs("thread_cleanup") /\ (cleanup_threadFunc \/ ThreadEnd)

MainStep ==
    \/ Runs("thread_cancel") /\ cancel_main
    \/ Runs("thread_cleanup") /\ cleanup_main

Spurious == Runs("thread_cleanup") /\ ~os.cancel /\ CondWaitWakes("wait")

CancelExited == mem.prog \in Progs /\ at.main \in {"exit", "failed"} /\ UNCHANGED machine

CancelNext == Thread \/ MainStep \/ Spurious \/ CancelExited

(* Both threads run; main(), if it keeps finding the mutex free, gets it   *)
(* in spite of a thread that keeps waking spuriously.                      *)
CancelFairness == SF_machine(MainStep) /\ WF_machine(Thread)

-----------------------------------------------------------------------------
(* Wherever the cancel request is acted on, the handler unlocks the mutex  *)
(* as its owner, and the thread leaves neither the mutex locked nor, once  *)
(* it has pushed the handler, its buffer behind.  (In the first printf(),  *)
(* before the push, the buffer is lost.)                                   *)
CleanupComplete ==
    Runs("thread_cleanup") =>
        /\ at.thread = "unlock" => os.mtx = "thread" /\ mem.buf = "freed"
        /\ at.thread \in {"end", "done"} => os.mtx # "thread"
        /\ at.thread = "done" /\ ~mem.cancels => mem.buf = "freed"
        /\ mem.handlers = 1 => mem.buf = "allocated" /\ at.thread \notin {"end", "done"}

(* main() joins the thread, which ended the way it was asked to. *)
Joined ==
    /\ mem.prog \in Progs
    /\ \/ at.main = "failed"
       \/ at.main = "exit" /\ (mem.res = "canceled" <=> mem.cancels)

(* Every behaviour of the two programs gets there. *)
CancelEnds == mem.prog \in Progs ~> Joined

-----------------------------------------------------------------------------
(***************************************************************************)
(* 31-thread-safe-specific: strerror_test.c with the three versions of     *)
(* strerror(): one static buffer (strerror.c), a thread-specific buffer    *)
(* made on the first call of each thread (strerror_tsd.c) and a __thread   *)
(* buffer (strerror_tls.c).  main() keeps the pointer it got and prints    *)
(* through it after the two threads have called strerror() and ended.      *)
(***************************************************************************)
Versions == {"static", "tsd", "tls"}
Threads == {"main", "t1", "t2"}
Heap == {"b1", "b2", "b3"}                    \* blocks malloc() can return

(* The message each thread asks for: EINVAL, EPERM, EINTR. *)
Err(t) == t

(* once: how far pthread_once() is; specific: strerrorKey's value; text:   *)
(* what is in a buffer, the messages being copied or the one copied; str:  *)
(* the pointer strerror() returned; said: what was printed through it.     *)
StrerrorInit ==
    /\ \E v \in Versions : mem =
          [prog |-> "strerror", version |-> v, once |-> "init",
           specific |-> [t \in Threads |-> {}], text |-> [b \in Heap \cup Threads |-> {}],
           str |-> [t \in Threads |-> {}], said |-> [t \in Threads |-> {}]]
    /\ at = [main |-> "call", t1 |-> "unborn", t2 |-> "unborn"]
    /\ os = [allocated |-> {}, keys |-> 0]

-----------------------------------------------------------------------------
(* strerror_tsd.c *)

(* pthread_once(): one caller runs createKey(), the others wait for it. *)
Once(t) ==
    /\ mem.version = "tsd" /\ mem.once = "init"
    /\ Move(t, "call", "createKey") /\ mem' = [mem EXCEPT !.once = "running"]
    /\ UNCHANGED os

createKey(t) ==
    /\ Move(t, "createKey", "call")
    /\ mem' = [mem EXCEPT !.once = "done"]
    /\ os' = [os EXCEPT !.keys = @ + 1]

GetSpecific(t) ==
    /\ mem.version = "tsd" /\ mem.once = "done"
    /\ Move(t, "call", IF mem.specific[t] = {} THEN "malloc" ELSE "copy")
    /\ mem' = [mem EXCEPT !.str[t] = mem.specific[t]]
    /\ UNCHANGED os

(* Mutant: the buffer is remembered for the process, not for the thread. *)
SetSpecificShared(t) ==
    /\ Move(t, "malloc", "copy")
    /\ \E b \in Heap \ os.allocated :
          /\ os' = [os EXCEPT !.allocated = @ \cup {b}]
          /\ mem' = [mem EXCEPT !.specific = [u \in Threads |-> {b}], !.str[t] = {b}]

SetSpecific(t) ==
    /\ Move(t, "malloc", "copy")
    /\ \E b \in Heap \ os.allocated :
          /\ os' = [os EXCEPT !.allocated = @ \cup {b}]
          /\ mem' = [mem EXCEPT !.specific[t] = {b}, !.str[t] = {b}]

(* The destructor frees the buffer of a thread that ends; exit() in main() *)
(* runs no destructor.                                                     *)
destructor(t) ==
    /\ os' = [os EXCEPT !.allocated = @ \ mem.specific[t]]
    /\ mem' = [mem EXCEPT !.specific[t] = {}]

strerror_tsd(t) == Once(t) \/ createKey(t) \/ GetSpecific(t) \/ SetSpecific(t)

-----------------------------------------------------------------------------
(* strerror.c and strerror_tls.c: the buffer is there. *)
strerror_static(t) ==
    /\ mem.version = "static"
    /\ Move(t, "call", "copy")
    /\ mem' = [mem EXCEPT !.str[t] = {"b1"}]
    /\ UNCHANGED os

strerror_tls(t) ==
    /\ mem.version = "tls"
    /\ Move(t, "call", "copy")
    /\ mem' = [mem EXCEPT !.str[t] = {t}]
    /\ UNCHANGED os

(* snprintf() or strncpy() fills the buffer byte by byte: a copy that      *)
(* another one overlaps leaves a mixture, the set of both messages.        *)
CopyBegin(t) ==
    /\ Move(t, "copy", "copying")
    /\ mem' = [mem EXCEPT !.text = [b \in DOMAIN mem.text |->
                   IF b \in mem.str[t] THEN mem.text[b] \cup {Err(t)} ELSE mem.text[b]]]
    /\ UNCHANGED os

CopyEnd(t) ==
    LET overlapped == \E u \in Threads \ {t} : at[u] = "copying" /\ mem.str[u] = mem.str[t] IN
    /\ Move(t, "copying", "print")
    /\ mem' = [mem EXCEPT !.text = [b \in DOMAIN mem.text |->
                   IF b \in mem.str[t] /\ ~overlapped THEN {Err(t)} ELSE mem.text[b]]]
    /\ UNCHANGED os

strerror(t) ==
    strerror_tsd(t) \/ strerror_static(t) \/ strerror_tls(t) \/ CopyBegin(t) \/ CopyEnd(t)

-----------------------------------------------------------------------------
(* strerror_test.c *)
Said(t) == mem' = [mem EXCEPT !.said[t] = UNION {mem.text[b] : b \in mem.str[t]}]

threadFunc(t) ==
    \/ strerror(t)
    \/ Move(t, "print", "return") /\ Said(t) /\ UNCHANGED os
    \/ Move(t, "return", "done") /\ destructor(t)

(* main() calls strerror(), creates both threads, joins both, prints. *)
Create(t, l, k) ==
    /\ at.main = l
    /\ at' = [at EXCEPT !.main = k, ![t] = "call"]
    /\ UNCHANGED <<mem, os>>

JoinBoth ==
    /\ at.t1 = "done" /\ at.t2 = "done"
    /\ Move("main", "join", "last") /\ UNCHANGED <<mem, os>>
PrintLast == Move("main", "last", "exit") /\ Said("main") /\ UNCHANGED os

strerror_test == strerror("main") \/ Create("t1", "print", "create2") \/ Create("t2", "create2", "join")
    \/ JoinBoth \/ PrintLast

ThreadStep == Runs("strerror") /\ (strerror_test \/ \E t \in {"t1", "t2"} : threadFunc(t))

StrerrorExited == Runs("strerror") /\ at.main = "exit" /\ UNCHANGED machine

StrerrorNext == ThreadStep \/ StrerrorExited

StrerrorFairness == WF_machine(ThreadStep)

-----------------------------------------------------------------------------
(* With a buffer per thread everybody prints the message asked for, main() *)
(* too although it prints after the threads have written, freed and        *)
(* perhaps been given recycled buffers; and no printed buffer has been     *)
(* freed.  The static version gives no such promise.                       *)
OwnMessage ==
    Runs("strerror") /\ mem.version # "static" =>
        \A t \in Threads :
            /\ mem.said[t] \subseteq {Err(t)}
            /\ mem.version = "tsd" /\ at[t] \in {"print", "last"} =>
                  mem.str[t] \subseteq os.allocated

(* The program ends; pthread_once() makes no thread wait for ever. *)
StrerrorEnds == Runs("strerror") ~> (Runs("strerror") /\ at.main = "exit")

-----------------------------------------------------------------------------
(* One of the programs runs. *)
Init == CancelInit \/ StrerrorInit

Next == CancelNext \/ StrerrorNext

Fairness == CancelFairness /\ StrerrorFairness
=============================================================================
