------------------------------ MODULE Polling -------------------------------
(***************************************************************************)
(* Programs that ask the kernel which of several descriptors are ready, by *)
(* epoll, poll() and select().                                             *)
(***************************************************************************)
EXTENDS Machine, Sequences, SequencesExt, Integers, FiniteSets, FiniteSetsExt

CONSTANTS Fds,          \* one FIFO per argument
          MaxEvents,    \* MAX_EVENTS
          MaxBuf,       \* MAX_BUF
          MaxBytes,     \* bound on the bytes written to a FIFO
          MaxOpens,     \* bound on how often a FIFO is opened for writing
          NumPipes,     \* argv[1] of poll_pipes
          MaxWrites,    \* bound on its argv[2]
          PollCap,      \* bytes a pipe holds
          FdSetSize,    \* FD_SETSIZE
          MaxFds        \* bound on the arguments of t_select

-----------------------------------------------------------------------------
(***************************************************************************)
(* 63-io-advanced/epoll_input.c: reads FIFOs through epoll until every one *)
(* has hung up.  The events returned by epoll_wait() are worked off while  *)
(* the writers go on.                                                      *)
(***************************************************************************)
(* evlist: the events being worked off, with what was set in each.  list:  *)
(* epoll's ready list, in the order it is searched; writers, unread: of    *)
(* each FIFO; late: it was opened again after epoll_wait() had returned.   *)
EpollInit ==
    /\ at = [main |-> "wait"]
    /\ mem = [prog |-> "epoll_input", open |-> Fds, evlist |-> <<>>, lost |-> {}]
    /\ \E list \in SetToSeqs(Fds) :
          os = [list |-> list, writers |-> [f \in Fds |-> TRUE],
                opens |-> [f \in Fds |-> 1], unread |-> [f \in Fds |-> 0],
                written |-> [f \in Fds |-> 0], late |-> {}]

-----------------------------------------------------------------------------
(* The writers. *)
Write(f) ==
    /\ os.writers[f] /\ f \in mem.open /\ os.written[f] < MaxBytes
    /\ os' = [os EXCEPT !.unread[f] = @ + 1, !.written[f] = @ + 1]
    /\ UNCHANGED <<at, mem>>

CloseWriter(f) ==
    /\ os.writers[f]
    /\ os' = [os EXCEPT !.writers[f] = FALSE]
    /\ UNCHANGED <<at, mem>>

OpenWriter(f) ==
    /\ ~os.writers[f] /\ f \in mem.open /\ os.opens[f] < MaxOpens
    /\ os' = [os EXCEPT !.writers[f] = TRUE, !.opens[f] = @ + 1,
                        !.late = IF at.main = "loop" THEN @ \cup {f} ELSE @]
    /\ UNCHANGED <<at, mem>>

-----------------------------------------------------------------------------
(* main(): the FIFOs are open and in the interest list. *)
Events(f) ==
    (IF os.unread[f] > 0 THEN {"EPOLLIN"} ELSE {})
        \cup (IF os.writers[f] THEN {} ELSE {"EPOLLHUP"})

(* epoll_wait(): up to MaxEvents of the ready descriptors, which go to the *)
(* end of the list.                                                        *)
EpollWait ==
    LET ready == SelectSeq(os.list, LAMBDA f : f \in mem.open /\ Events(f) # {}) IN
    \E some \in BoundedSeq(mem.open, MaxEvents) :
       /\ some = IF Len(ready) > MaxEvents THEN SubSeq(ready, 1, MaxEvents) ELSE ready
       /\ mem.open # {} /\ some # <<>>
       /\ Move("main", "wait", "loop")
       /\ mem' = [mem EXCEPT !.evlist = [k \in DOMAIN some |->
                                            [fd |-> some[k], events |-> Events(some[k])]]]
       /\ os' = [os EXCEPT !.late = {},
                    !.list = SelectSeq(@, LAMBDA f : ~Contains(some, f)) \o some]

(* What close(fd) throws away unread: bytes that a FIFO opened again after *)
(* epoll_wait() had reported the hangup holds are not counted.             *)
Unread(f) == IF os.unread[f] > 0 /\ f \notin os.late THEN mem.lost \cup {f} ELSE mem.lost

(* EPOLLIN: read; only if it is not set, EPOLLHUP: close. *)
HandleEvent ==
    /\ at.main = "loop" /\ mem.evlist # <<>>
    /\ LET e == Head(mem.evlist) IN
       \/ /\ "EPOLLIN" \in e.events
          /\ mem' = [mem EXCEPT !.evlist = Tail(@)]
          /\ os' = [os EXCEPT !.unread[e.fd] = IF @ > MaxBuf THEN @ - MaxBuf ELSE 0]
       \/ /\ "EPOLLIN" \notin e.events /\ "EPOLLHUP" \in e.events
          /\ mem' = [mem EXCEPT !.evlist = Tail(@), !.open = @ \ {e.fd},
                       !.lost = Unread(e.fd)]
          /\ UNCHANGED os
    /\ UNCHANGED at

HandledAll == mem.evlist = <<>> /\ Move("main", "loop", "wait") /\ UNCHANGED <<mem, os>>

AllClosed == mem.open = {} /\ Move("main", "wait", "exit") /\ UNCHANGED <<mem, os>>

epoll_input == EpollWait \/ HandleEvent \/ HandledAll \/ AllClosed

EpollProgram == Runs("epoll_input") /\ epoll_input

Writer(f) == Write(f) \/ CloseWriter(f) \/ OpenWriter(f)
Writers == Runs("epoll_input") /\ \E f \in Fds : Writer(f)

Exited == Runs("epoll_input") /\ at.main = "exit" /\ UNCHANGED machine

EpollNext == EpollProgram \/ Writers \/ Exited

(* The program runs; every writer closes its FIFO in the end. *)
EpollFairness ==
    /\ WF_machine(EpollProgram)
    /\ \A f \in Fds : WF_machine(Runs("epoll_input") /\ CloseWriter(f))

-----------------------------------------------------------------------------
(* No FIFO is closed with input in it that was written before epoll_wait() *)
(* reported it hung up, also when it is more than MAX_BUF bytes: EPOLLIN   *)
(* is handled first.  (What a writer that opens the FIFO while the list is *)
(* worked off writes can be lost.)                                         *)
InputConsumed == Runs("epoll_input") => mem.lost = {}

(* No FIFO is starved by the others' input: the program ends. *)
EpollEnds == Runs("epoll_input") ~> (Runs("epoll_input") /\ at.main = "exit")

-----------------------------------------------------------------------------
(***************************************************************************)
(* 63-io-advanced/poll_pipes.c writes to pipes chosen at random and asks   *)
(* poll() which can be read; t_select.c waits with select() for the        *)
(* descriptors of its arguments.                                           *)
(***************************************************************************)
Pipes == 1 .. NumPipes

(* left: writes still to be made; ready: what poll() reports.  unread: the *)
(* numbers of the writes whose byte is in the pipe.                        *)
PollInit ==
    \E n \in 1 .. MaxWrites :
        /\ at = [main |-> "write"]
        /\ mem = [prog |-> "poll_pipes", left |-> n, numWrites |-> n, ready |-> {}]
        /\ os = [unread |-> [p \in Pipes |-> {}]]

(* Nobody reads: a write() to a full pipe never returns. *)
WriteRandom ==
    \E p \in Pipes :
        /\ mem.left > 0 /\ Cardinality(os.unread[p]) < PollCap
        /\ at.main = "write" /\ UNCHANGED at
        /\ mem' = [mem EXCEPT !.left = @ - 1]
        /\ os' = [os EXCEPT !.unread[p] = @ \cup {mem.left}]

WriteBlocks ==
    /\ mem.left > 0 /\ \E p \in Pipes : Cardinality(os.unread[p]) = PollCap
    /\ Move("main", "write", "blocked") /\ UNCHANGED <<mem, os>>

Poll ==
    /\ mem.left = 0 /\ Move("main", "write", "exit")
    /\ mem' = [mem EXCEPT !.ready = {p \in Pipes : os.unread[p] # {}}]
    /\ UNCHANGED os

poll_pipes == WriteRandom \/ WriteBlocks \/ Poll

-----------------------------------------------------------------------------
(* t_select.  fd: a descriptor may be one too large for the sets, not open *)
(* or negative; mode: {} is an argument that sscanf() does not accept.     *)
(* timeout: "none" is infinite, "zero" no waiting.                         *)
Args == [fd : -1 .. FdSetSize, mode : SUBSET {"r", "w"}]
Bits == (0 .. FdSetSize - 1) \X {"r", "w"}

SelectInit ==
    \E n \in 0 .. MaxFds, timeout \in {"none", "zero", "some"}, open \in {0 .. FdSetSize, {0}} :
        \E args \in [1 .. n -> Args] :
            /\ at = [main |-> "args"]
            /\ mem = [prog |-> "t_select", args |-> args, timeout |-> timeout, next |-> 1,
                      nfds |-> 0, sets |-> {}, shown |-> {}]
            /\ os = [open |-> open, ready |-> {}, atReturn |-> {}, expired |-> FALSE]

(* A negative descriptor is not refused, and FD_SET() of one is undefined: *)
(* it sets some bit of the set, or ends the program if it hits memory far  *)
(* before it.                                                              *)
Bit(fd) == IF fd >= 0 THEN {fd} ELSE 0 .. FdSetSize - 1

AddArg ==
    /\ at.main = "args" /\ mem.next <= Len(mem.args)
    /\ LET a == mem.args[mem.next] IN
       \/ /\ a.mode = {} \/ a.fd >= FdSetSize \/ a.fd < 0
          /\ Move("main", "args", "failed") /\ UNCHANGED mem
       \/ /\ a.mode # {} /\ a.fd < FdSetSize
          /\ \E bit \in Bit(a.fd) :
                mem' = [mem EXCEPT !.next = @ + 1, !.nfds = IF a.fd >= @ THEN a.fd + 1 ELSE @,
                                   !.sets = @ \cup {bit} \X a.mode]
          /\ UNCHANGED at
    /\ UNCHANGED os

Waiting == at.main = "args" /\ mem.next > Len(mem.args)

(* The bits that select() looks at. *)
Watched == {b \in mem.sets : b[1] < mem.nfds}
BadFd == \E b \in Watched : b[1] \notin os.open

(* select(): with a descriptor that is not open, EBADF; otherwise as soon  *)
(* as one is ready, or the time has passed.                                *)
Select ==
    /\ Waiting
    /\ IF BadFd THEN Move("main", "args", "failed") /\ UNCHANGED <<mem, os>>
       ELSE /\ os.ready \cap Watched # {} \/ mem.timeout = "zero" \/ os.expired
            /\ Move("main", "args", "show")
            /\ mem' = [mem EXCEPT !.sets = os.ready \cap Watched]
            /\ os' = [os EXCEPT !.atReturn = os.ready]

(* The loop over 0 .. nfds - 1. *)
Show ==
    /\ Move("main", "show", "exit")
    /\ mem' = [mem EXCEPT !.shown = {b \in mem.sets : b[1] \in 0 .. mem.nfds - 1}]
    /\ UNCHANGED os

t_select == AddArg \/ Select \/ Show

(* Input comes, or room for output, and time passes while select() waits.  *)
BecomeReady ==
    /\ Waiting /\ \E b \in Bits \ os.ready :
          b[1] \in os.open /\ os' = [os EXCEPT !.ready = @ \cup {b}]
    /\ UNCHANGED <<at, mem>>

Expire ==
    /\ Waiting /\ mem.timeout = "some" /\ ~os.expired
    /\ os' = [os EXCEPT !.expired = TRUE]
    /\ UNCHANGED <<at, mem>>

-----------------------------------------------------------------------------
ReadyInit == PollInit \/ SelectInit

ReadyProgram == (Runs("poll_pipes") /\ poll_pipes) \/ (Runs("t_select") /\ t_select)

Gone == at.main \in {"exit", "failed", "blocked"}

ReadyNext ==
    \/ ReadyProgram
    \/ Runs("t_select") /\ (BecomeReady \/ Expire)
    \/ Runs("poll_pipes") /\ Gone /\ UNCHANGED machine
    \/ Runs("t_select") /\ (Gone \/ mem.timeout = "none") /\ UNCHANGED machine

(* The program runs, and time passes. *)
ReadyFairness == WF_machine(ReadyProgram) /\ WF_machine(Runs("t_select") /\ Expire)

-----------------------------------------------------------------------------
Asked == {b \in Bits : \E i \in DOMAIN mem.args : b[1] = mem.args[i].fd /\ b[2] \in mem.args[i].mode}
Negative == \E i \in DOMAIN mem.args : mem.args[i].fd < 0

(* The report is complete and true: every write of poll_pipes lies in one  *)
(* pipe, and no more pipes are reported than writes were made; select()    *)
(* looks at every argument that is not negative, in any order and with     *)
(* repetitions, and each that was ready is shown.  Nothing is shown that   *)
(* was not ready, and, unless a negative argument has set a stray bit,     *)
(* nothing that was not asked for; nothing at all only after the time has  *)
(* passed.                                                                 *)
ReadyTrue ==
    /\ Runs("poll_pipes") /\ at.main = "exit" =>
          /\ mem.ready # {} /\ Cardinality(mem.ready) <= mem.numWrites
          /\ \A k \in 1 .. mem.numWrites : \E p \in mem.ready :
                k \in os.unread[p] /\ \A q \in Pipes \ {p} : k \notin os.unread[q]
    /\ Runs("t_select") /\ at.main = "exit" =>
          /\ mem.shown \cap Asked = os.atReturn \cap Asked
          /\ mem.shown \subseteq IF Negative THEN os.atReturn ELSE os.atReturn \cap Asked
          /\ mem.shown = {} => mem.timeout = "zero" \/ os.expired
          /\ \A b \in Asked : b[1] \in os.open

(* poll_pipes ends, unless it asks for more writes than fit into one pipe  *)
(* and blocks; t_select ends unless it was asked to wait for ever.         *)
PollingEnds ==
    /\ Runs("poll_pipes") ~> (Runs("poll_pipes") /\ Gone)
    /\ (Runs("poll_pipes") /\ mem.numWrites <= PollCap) ~> (Runs("poll_pipes") /\ at.main = "exit")
    /\ Runs("t_select") ~> (Runs("t_select") /\ (Gone \/ mem.timeout = "none"))

-----------------------------------------------------------------------------
(* One of the programs runs. *)
Init == EpollInit \/ ReadyInit

Next == EpollNext \/ ReadyNext

Fairness == EpollFairness /\ ReadyFairness
=============================================================================
