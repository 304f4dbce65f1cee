------------------------------ MODULE MqNotify ------------------------------
(***************************************************************************)
(* 52-posix-msgqueue: mq_notify_sig.c and mq_notify_thread.c read a queue  *)
(* when they are notified, by a signal or in a new thread.  The kernel     *)
(* notifies the registered process once, when a message comes into the     *)
(* empty queue, and the registration is gone; so both programs register    *)
(* again before they empty the queue with nonblocking reads.               *)
(***************************************************************************)
EXTENDS Machine, Naturals, FiniteSets

CONSTANTS MaxMsgs,      \* bound on the messages sent
          QueueSize,    \* mq_maxmsg
          Workers       \* one per notification thread

Progs == {"mq_notify_sig", "mq_notify_thread"}

(* stale: there was a message already when the program registered first.   *)
(* queue: messages in it; pending: NOTIFY_SIG is.                          *)
Init ==
    /\ \E prog \in Progs : mem = [prog |-> prog, stale |-> FALSE]
    /\ at = [p \in {"main"} \cup Workers |-> IF p = "main" THEN "notify" ELSE "unborn"]
    /\ os = [queue |-> 0, registered |-> FALSE, pending |-> FALSE, sent |-> 0]

-----------------------------------------------------------------------------
(* Another process sends; the notification, if there is one. *)
Send ==
    /\ os.sent < MaxMsgs /\ os.queue < QueueSize
    /\ LET notifies == os.queue = 0 /\ os.registered IN
       /\ os' = [os EXCEPT !.sent = @ + 1, !.queue = @ + 1,
                           !.registered = @ /\ ~notifies,
                           !.pending = @ \/ (notifies /\ Runs("mq_notify_sig"))]
       /\ IF notifies /\ Runs("mq_notify_thread")
            THEN \E w \in Workers : Move(w, "unborn", "setup")
            ELSE UNCHANGED at
    /\ UNCHANGED mem

(* mq_notify() fails with EBUSY, and errExit() ends the program, if there  *)
(* is a registration.                                                      *)
Register(p, l, k) ==
    /\ Move(p, l, IF os.registered THEN "failed" ELSE k)
    /\ os' = [os EXCEPT !.registered = TRUE]

(* The first registration (the signal is blocked and handled before it). *)
FirstRegister ==
    /\ Register("main", "notify", "wait")
    /\ mem' = [mem EXCEPT !.stale = os.queue > 0]

(* mq_receive() until EAGAIN. *)
Receive(p, l, k) ==
    /\ UNCHANGED mem
    /\ \/ os.queue > 0 /\ Move(p, l, l) /\ os' = [os EXCEPT !.queue = @ - 1]
       \/ os.queue = 0 /\ Move(p, l, k) /\ UNCHANGED os

-----------------------------------------------------------------------------
(* mq_notify_sig.c *)

(* sigsuspend() returns when the signal has been handled. *)
Suspend ==
    /\ os.pending
    /\ Move("main", "wait", "again")
    /\ os' = [os EXCEPT !.pending = FALSE]
    /\ UNCHANGED mem

(* Mutant: the queue is emptied first. *)
ReregisterLate ==
    \/ Receive("main", "again", "notify again")
    \/ Register("main", "notify again", "wait") /\ UNCHANGED mem

Reregister == Register("main", "again", "drain") /\ UNCHANGED mem

sig_main == FirstRegister \/ Suspend \/ Reregister \/ Receive("main", "drain", "wait")

-----------------------------------------------------------------------------
(* mq_notify_thread.c: main() pauses, several threadFunc()s may run. *)
notifySetup(w) == Register(w, "setup", "drain") /\ UNCHANGED mem

threadFunc(w) == notifySetup(w) \/ Receive(w, "drain", "done")

-----------------------------------------------------------------------------
Program ==
    \/ Runs("mq_notify_sig") /\ sig_main
    \/ Runs("mq_notify_thread") /\ (FirstRegister \/ \E w \in Workers : threadFunc(w))

Sender == mem.prog \in Progs /\ Send

Waiting == at.main = "wait" /\ ~os.pending /\ \A w \in Workers : at[w] \in {"unborn", "done"}

Idle == mem.prog \in Progs /\ Waiting /\ UNCHANGED machine

Next == Program \/ Sender \/ Idle

Fairness == WF_machine(Program)

-----------------------------------------------------------------------------
(* The program never waits with a message in the queue, unless the message *)
(* was there before it registered (the case the comments exclude); it      *)
(* never registers twice, however many notifications are being handled.    *)
NoStrandedMessage ==
    mem.prog \in Progs =>
        /\ Waiting /\ os.queue > 0 => mem.stale
        /\ Waiting => os.registered
        /\ \A p \in DOMAIN at : at[p] # "failed"
=============================================================================
