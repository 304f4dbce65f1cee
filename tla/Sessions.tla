------------------------------ MODULE Sessions ------------------------------
(***************************************************************************)
(* Processes that lose their terminal or leave it: an orphaned process     *)
(* group, a terminal that is disconnected, and a daemon.                   *)
(***************************************************************************)
EXTENDS Machine, FiniteSets, Integers

CONSTANTS NumChildren,
          HupChildren,  \* children of disc_SIGHUP
          MaxFd,        \* the descriptors are 0 .. MaxFd
          MaxClose      \* BD_MAX_CLOSE

-----------------------------------------------------------------------------
(***************************************************************************)
(* 34-process-credentials/orphaned_pgrp_SIGHUP.c: a process group whose    *)
(* children stop or pause, and which is orphaned when the parent exits.    *)
(* The kernel then sends SIGHUP and SIGCONT to every member, if one of     *)
(* them is stopped; a stop that comes later stays.                         *)
(***************************************************************************)
OrphanProcs == 1 .. NumChildren

(* kind: the arguments, 's' or 'p'; j: the child to be made next; caught:  *)
(* the signals whose handlers ran in each child.  pending: signals sent;   *)
(* late: stopped after the group was orphaned; alarm: alarm(60) was set.   *)
OrphanInit ==
    \E kind \in [OrphanProcs -> {"s", "p"}] :
        /\ mem = [prog |-> "orphaned_pgrp", kind |-> kind, j |-> 1,
                  caught |-> [p \in OrphanProcs |-> {}]]
        /\ at = [p \in 0 .. NumChildren |-> IF p = 0 THEN "fork" ELSE "unborn"]
        /\ os = [pending |-> [p \in OrphanProcs |-> {}], hungUp |-> FALSE, late |-> {}, alarm |-> {}]

Alive(p) == at[p] \notin {"unborn", "exit"}

-----------------------------------------------------------------------------
(* The handlers for SIGHUP and SIGCONT are inherited by the children. *)
OrphanFork ==
    /\ at[0] = "fork" /\ mem.j <= NumChildren
    /\ at' = [at EXCEPT ![mem.j] = "start"]
    /\ mem' = [mem EXCEPT !.j = @ + 1]
    /\ UNCHANGED os

OrphanForkedAll == mem.j > NumChildren /\ Move(0, "fork", "sleep") /\ UNCHANGED <<mem, os>>

(* exit() after the sleep, or errExit() when fork() fails. *)
Exit ==
    /\ \/ at[0] = "sleep"
       \/ at[0] = "fork" /\ mem.j <= NumChildren
    /\ LET hup == \E p \in OrphanProcs : at[p] = "stopped" IN
       /\ at' = [p \in DOMAIN at |-> IF p = 0 THEN "exit" ELSE
                                     IF at[p] = "stopped" THEN "resumed" ELSE at[p]]
       /\ os' = [os EXCEPT !.hungUp = hup,
                           !.pending = [p \in OrphanProcs |-> IF hup /\ Alive(p)
                                                        THEN {"SIGHUP", "SIGCONT"} ELSE {}]]
    /\ UNCHANGED mem

parent == OrphanFork \/ OrphanForkedAll \/ Exit

-----------------------------------------------------------------------------
(* raise(SIGSTOP), which takes pending SIGCONTs away. *)
RaiseStop(p) ==
    /\ mem.kind[p] = "s"
    /\ Move(p, "start", "stopped")
    /\ os' = [os EXCEPT !.late = IF at[0] = "exit" THEN @ \cup {p} ELSE @,
                        !.pending[p] = @ \ {"SIGCONT"}]
    /\ UNCHANGED mem

(* alarm(60), then pause(). *)
OrphanAlarm(p) ==
    /\ mem.kind[p] = "p"
    /\ Move(p, "start", "pause")
    /\ os' = [os EXCEPT !.alarm = @ \cup {p}]
    /\ UNCHANGED mem

Pause(p) == Move(p, "pause", "paused") /\ UNCHANGED <<mem, os>>

Resumed(p) == os.pending[p] = {} /\ Move(p, "resumed", "exit") /\ UNCHANGED <<mem, os>>

(* Mutant: no handler was established for SIGCONT, which is then ignored.  *)
HandlerForHupOnly(p) ==
    /\ at[p] \in {"start", "pause", "paused", "resumed"}
    /\ \E s \in os.pending[p] :
          /\ os' = [os EXCEPT !.pending[p] = @ \ {s}]
          /\ mem' = [mem EXCEPT !.caught[p] = @ \cup ({s} \cap {"SIGHUP"})]
          /\ at' = [at EXCEPT ![p] = IF @ = "paused" /\ s = "SIGHUP" THEN "resumed" ELSE @]

(* A handler runs; it ends pause(). *)
Handler(p) ==
    /\ at[p] \in {"start", "pause", "paused", "resumed"}
    /\ \E s \in os.pending[p] :
          /\ os' = [os EXCEPT !.pending[p] = @ \ {s}]
          /\ mem' = [mem EXCEPT !.caught[p] = @ \cup {s}]
    /\ at' = [at EXCEPT ![p] = IF @ = "paused" THEN "resumed" ELSE @]

(* SIGALRM is not handled. *)
OrphanAlarmExpires(p) ==
    /\ p \in os.alarm /\ at[p] \in {"pause", "paused", "resumed"}
    /\ at' = [at EXCEPT ![p] = "exit"]
    /\ UNCHANGED <<mem, os>>

child(p) == RaiseStop(p) \/ OrphanAlarm(p) \/ Pause(p) \/ Resumed(p) \/ Handler(p)

Parent == Runs("orphaned_pgrp") /\ parent
Child(p) == Runs("orphaned_pgrp") /\ child(p)
OrphanClock(p) == Runs("orphaned_pgrp") /\ OrphanAlarmExpires(p)

OrphanIdle == Runs("orphaned_pgrp") /\ at[0] = "exit" /\ UNCHANGED machine

OrphanNext == Parent \/ (\E p \in OrphanProcs : Child(p) \/ OrphanClock(p)) \/ OrphanIdle

OrphanFairness ==
    /\ WF_machine(Parent)
    /\ \A p \in OrphanProcs : WF_machine(Child(p)) /\ WF_machine(OrphanClock(p))

-----------------------------------------------------------------------------
(* A child that stopped runs on only because the group was orphaned, and   *)
(* not before it has handled both SIGHUP and SIGCONT, in whichever order   *)
(* they come and whatever the other members do.                            *)
HangupReachesAll ==
    Runs("orphaned_pgrp") =>
        \A p \in OrphanProcs : mem.kind[p] = "s" /\ at[p] = "exit" =>
            os.hungUp /\ mem.caught[p] = {"SIGHUP", "SIGCONT"}

(* Every child ends, but for one that stops only after the group has been  *)
(* orphaned (sleep(10) does not exclude it), which nobody resumes.         *)
OrphansEnd ==
    (Runs("orphaned_pgrp") /\ at[0] = "exit") ~>
        (Runs("orphaned_pgrp") /\ \A p \in OrphanProcs : ~Alive(p) \/ p \in os.late)

-----------------------------------------------------------------------------
(***************************************************************************)
(* Whom SIGHUP reaches when the terminal is disconnected: 34-process-      *)
(* credentials/catch_SIGHUP.c, disc_SIGHUP.c and 34-experimental/          *)
(* sighup-process.c.  The disconnection comes at any time, also while the  *)
(* children are still setting themselves up.                               *)
(***************************************************************************)
HupProgs == {"catch_SIGHUP", "disc_SIGHUP", "sighup_process"}
HupProcs == 0 .. HupChildren
Gone == {"exit", "killed", "alarmed", "unborn"}

(* other: the children that are to move to a group of their own; moved:    *)
(* those that have; handles: the processes with a handler for SIGHUP;      *)
(* alarm: those that have called alarm(); said: those that have printed    *)
(* that SIGHUP was caught.  group: who was in the foreground group when    *)
(* SIGHUP was sent to it, settled: and everybody was in pause().           *)
HupInit ==
    /\ \E prog \in HupProgs, other \in SUBSET (1 .. HupChildren) :
          /\ prog = "catch_SIGHUP" => other \subseteq {1}
          /\ prog = "sighup_process" => other = {}
          /\ mem = [prog |-> prog, other |-> other, moved |-> {}, handles |-> {}, next |-> 1,
                    said |-> {}]
          /\ at = [p \in HupProcs |-> IF p # 0 THEN "unborn"
                                   ELSE IF prog = "disc_SIGHUP" THEN "fork" ELSE "sigaction"]
    /\ os = [pending |-> {}, alarm |-> {}, hup |-> FALSE, group |-> {}, settled |-> FALSE]

Sigaction(p, k) ==
    /\ Move(p, "sigaction", k)
    /\ mem' = [mem EXCEPT !.handles = @ \cup {p}]
    /\ UNCHANGED os

(* The child has the parent's handler, and its group. *)
HupFork(k, n) ==
    /\ at[0] = "fork" /\ mem.next <= n
    /\ at' = [at EXCEPT ![0] = k, ![mem.next] = "setpgid"]
    /\ mem' = [mem EXCEPT !.next = @ + 1,
                          !.handles = @ \cup IF 0 \in @ THEN {mem.next} ELSE {}]
    /\ UNCHANGED os

Setpgid(p, k) ==
    /\ Move(p, "setpgid", k)
    /\ mem' = [mem EXCEPT !.moved = @ \cup (mem.other \cap {p})]
    /\ UNCHANGED os

HupAlarm(p, k) ==
    /\ Move(p, "alarm", k)
    /\ os' = [os EXCEPT !.alarm = @ \cup {p}]
    /\ UNCHANGED mem

(* SIGHUP to the foreground group.  In disc_SIGHUP, which replaces the     *)
(* shell, this is done when process 0 ends, for it is the controlling      *)
(* process.                                                                *)
Members == {p \in HupProcs : at[p] \notin Gone /\ p \notin mem.moved}
HupGroup(ps) ==
    [os EXCEPT !.pending = @ \cup ps, !.group = ps, !.hup = TRUE,
               !.settled = \A p \in HupProcs : at[p] \in {"pause"} \cup Gone]

(* p ends by a signal, or errExit(). *)
Ends(p, how) ==
    /\ at' = [at EXCEPT ![p] = how]
    /\ os' = IF Runs("disc_SIGHUP") /\ p = 0 THEN HupGroup(Members \ {0}) ELSE os
    /\ UNCHANGED mem

ForkFails(n) == at[0] = "fork" /\ mem.next <= n /\ Ends(0, "exit")

-----------------------------------------------------------------------------
(* Handler before fork(); then both processes are alike. *)
catch_SIGHUP(p) ==
    \/ Sigaction(p, "fork") \/ (p = 0 /\ (HupFork("alarm", 1) \/ ForkFails(1)))
    \/ Setpgid(p, "alarm") \/ HupAlarm(p, "pause")

(* The children install the handler after they have changed the group; the *)
(* parent has none.                                                        *)
HupForkedAll ==
    mem.next > HupChildren /\ Move(0, "fork", "alarm") /\ UNCHANGED <<mem, os>>

disc_SIGHUP(p) ==
    \/ p = 0 /\ (HupFork("fork", HupChildren) \/ ForkFails(HupChildren) \/ HupForkedAll)
    \/ Setpgid(p, "sigaction") \/ Sigaction(p, "alarm") \/ HupAlarm(p, "pause")

(* pause() is called once, and there is no alarm. *)
sighup_process(p) == Sigaction(p, "print") \/ (Move(p, "print", "pause") /\ UNCHANGED <<mem, os>>)

(* SIGHUP is delivered: without a handler it ends the process.  disc's     *)
(* handler prints; the other two print when pause() has returned.          *)
Deliver(p) ==
    /\ p \in os.pending /\ at[p] \notin Gone
    /\ IF p \in mem.handles
       THEN /\ mem' = [mem EXCEPT !.said = IF Runs("disc_SIGHUP") \/ at[p] = "pause"
                                           THEN @ \cup {p} ELSE @]
            /\ at' = IF Runs("sighup_process") /\ at[p] = "pause"
                     THEN [at EXCEPT ![p] = "exit"] ELSE at
            /\ os' = [os EXCEPT !.pending = @ \ {p}]
       ELSE Ends(p, "killed")

HupAlarmExpires(p) == p \in os.alarm /\ at[p] \notin Gone /\ Ends(p, "alarmed")

(* The terminal is disconnected, once: SIGHUP to the controlling process.  *)
(* Where that is the shell, it sends SIGHUP to the job.                    *)
Disconnect ==
    /\ ~os.hup /\ 0 \notin os.pending /\ at[0] \notin Gone
    /\ os' = IF Runs("disc_SIGHUP") THEN [os EXCEPT !.pending = @ \cup {0}] ELSE HupGroup(Members)
    /\ UNCHANGED <<at, mem>>

-----------------------------------------------------------------------------
Process(p) ==
    \/ Runs("catch_SIGHUP") /\ catch_SIGHUP(p)
    \/ Runs("disc_SIGHUP") /\ disc_SIGHUP(p)
    \/ Runs("sighup_process") /\ sighup_process(p)
    \/ mem.prog \in HupProgs /\ Deliver(p)

HupClock(p) == mem.prog \in HupProgs /\ HupAlarmExpires(p)

HupIdle ==
    /\ mem.prog \in HupProgs
    /\ Runs("sighup_process") \/ \A p \in HupProcs : at[p] \in Gone
    /\ UNCHANGED machine

HupNext ==
    \/ \E p \in HupProcs : Process(p) \/ HupClock(p)
    \/ mem.prog \in HupProgs /\ Disconnect
    \/ HupIdle

(* Every process runs, and alarms expire. *)
HupFairness == \A p \in HupProcs : WF_machine(Process(p)) /\ WF_machine(HupClock(p))

-----------------------------------------------------------------------------
(* SIGHUP is reported by those it was sent to, and by nobody else; if it   *)
(* comes when every process has settled in pause(), by all of them, and    *)
(* nobody but the controlling process of disc_SIGHUP ends of it, nor is a  *)
(* child told that was to move to another group (one that has not moved    *)
(* yet may be).  catch_SIGHUP's child has the handler from the start.      *)
HangupTrue ==
    mem.prog \in HupProgs =>
        /\ mem.said \subseteq os.group
        /\ os.settled =>
              /\ mem.said \cap mem.other = {}
              /\ \A p \in os.group : /\ p \in os.pending \cup mem.said \/ at[p] = "alarmed"
                                     /\ at[p] # "killed"
        /\ Runs("catch_SIGHUP") => \A p \in HupProcs \ {0} : at[p] # "killed"

(* Everybody ends by the alarm at the latest; sighup_process, which has    *)
(* none, if SIGHUP comes before its handler or in pause().                 *)
HangupEnds ==
    /\ (mem.prog \in {"catch_SIGHUP", "disc_SIGHUP"}) ~>
           (mem.prog \in {"catch_SIGHUP", "disc_SIGHUP"} /\ \A p \in HupProcs : at[p] \in Gone)
    /\ (Runs("sighup_process") /\ at[0] = "pause" /\ os.pending # {}) ~>
           (Runs("sighup_process") /\ at[0] = "exit")

-----------------------------------------------------------------------------
(***************************************************************************)
(* lib/become_daemon.c: becomeDaemon() step by step, with every flag and   *)
(* every call that may fail.  A descriptor is a number; what it is open on *)
(* is "tty", "file" or "null".                                             *)
(***************************************************************************)
Flags == {"BD_NO_UMASK0", "BD_NO_CHDIR", "BD_NO_CLOSE_FILES", "BD_NO_REOPEN_STD_FDS"}
Fds == 0 .. MaxFd

(* ret: what the surviving process gets back.  leader, session: of the     *)
(* process that goes on; fds: open descriptors; limit: sysconf()'s, which  *)
(* may have been lowered after the last descriptor was opened.             *)
DaemonInit ==
    \E flags \in SUBSET Flags, fds \in [Fds -> {"closed", "tty", "file"}],
       limit \in {-1, MaxFd, MaxFd + 1} :
        /\ at = [main |-> "fork"]
        /\ mem = [prog |-> "daemon", flags |-> flags, ret |-> 1]
        /\ os = [leader |-> FALSE, session |-> "old", umask |-> "old", cwd |-> "old",
                 fds |-> fds, limit |-> limit]

Return(r) ==
    /\ at' = [at EXCEPT !.main = "return"]
    /\ mem' = [mem EXCEPT !.ret = r]

Fails(l) == at.main = l /\ Return(-1) /\ UNCHANGED os

-----------------------------------------------------------------------------
(* The parent exits, the child goes on. *)
DaemonFork == Move("main", "fork", "setsid") /\ UNCHANGED <<mem, os>>

Setsid ==
    /\ Move("main", "setsid", "fork again")
    /\ os' = [os EXCEPT !.leader = TRUE, !.session = "new"]
    /\ UNCHANGED mem

(* Mutant: there is no second fork(). *)
ForkAgainMissing == Move("main", "fork again", "umask") /\ UNCHANGED <<mem, os>>

ForkAgain ==
    /\ Move("main", "fork again", "umask")
    /\ os' = [os EXCEPT !.leader = FALSE]
    /\ UNCHANGED mem

Umask ==
    /\ Move("main", "umask", "chdir")
    /\ os' = [os EXCEPT !.umask = IF "BD_NO_UMASK0" \in mem.flags THEN @ ELSE "0"]
    /\ UNCHANGED mem

(* chdir()'s result is not looked at; "/" can always be entered. *)
Chdir ==
    /\ Move("main", "chdir", "close")
    /\ os' = [os EXCEPT !.cwd = IF "BD_NO_CHDIR" \in mem.flags THEN @ ELSE "/"]
    /\ UNCHANGED mem

(* Up to the limit, or a guess where there is none. *)
maxfd == IF os.limit = -1 THEN MaxClose ELSE os.limit

CloseFiles ==
    /\ Move("main", "close", "reopen")
    /\ os' = [os EXCEPT !.fds = [f \in Fds |->
                  IF "BD_NO_CLOSE_FILES" \notin mem.flags /\ f < maxfd THEN "closed" ELSE @[f]]]
    /\ UNCHANGED mem

(* close(0) and open("/dev/null"), which takes the lowest free number.     *)
ReopenStdin ==
    /\ "BD_NO_REOPEN_STD_FDS" \notin mem.flags
    /\ Move("main", "reopen", "dup")
    /\ os' = [os EXCEPT !.fds[0] = "null"]
    /\ UNCHANGED mem

DupStdFds ==
    /\ at.main = "dup" /\ Return(0)
    /\ os' = [os EXCEPT !.fds = [f \in Fds |-> IF f \in {1, 2} THEN "null" ELSE @[f]]]

NoReopen ==
    /\ at.main = "reopen" /\ "BD_NO_REOPEN_STD_FDS" \in mem.flags
    /\ Return(0)
    /\ UNCHANGED os

becomeDaemon ==
    \/ DaemonFork \/ Setsid \/ ForkAgain \/ Umask \/ Chdir \/ CloseFiles \/ ReopenStdin
    \/ DupStdFds \/ NoReopen
    \/ Fails("fork") \/ Fails("setsid") \/ Fails("fork again") \/ Fails("dup")
    \/ ("BD_NO_REOPEN_STD_FDS" \notin mem.flags /\ Fails("reopen"))

Returned == Runs("daemon") /\ at.main = "return" /\ UNCHANGED machine

DaemonNext == (Runs("daemon") /\ becomeDaemon) \/ Returned

-----------------------------------------------------------------------------
(* A process for which becomeDaemon() returns 0 can never get a            *)
(* controlling terminal (a new session, of which it is not the leader),    *)
(* holds no descriptor of the old terminal unless a flag asks for it or it *)
(* lies above the limit (which was guessed, or lowered after it was        *)
(* opened), and has its standard descriptors on /dev/null.                 *)
DaemonDetached ==
    Runs("daemon") /\ mem.ret = 0 =>
        /\ os.session = "new" /\ ~os.leader
        /\ "BD_NO_REOPEN_STD_FDS" \notin mem.flags => \A f \in 0 .. 2 : os.fds[f] = "null"
        /\ "BD_NO_CLOSE_FILES" \notin mem.flags =>
              \A f \in Fds : os.fds[f] \in {"closed", "null"} \/ f >= maxfd

-----------------------------------------------------------------------------
(* One of the programs runs. *)
Init == OrphanInit \/ HupInit \/ DaemonInit

Next == OrphanNext \/ HupNext \/ DaemonNext

Fairness == OrphanFairness /\ HupFairness
=============================================================================
