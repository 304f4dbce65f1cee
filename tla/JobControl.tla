----------------------------- MODULE JobControl -----------------------------
(***************************************************************************)
(* Programs that are stopped and continued by signals from the terminal:   *)
(* 34-process-credentials/job_mon.c, several of which run as a pipeline    *)
(* and count their positions through it, handling_SIGTSTP.c, whose handler *)
(* stops the process it runs in, and 34-experimental/sigttou.c, whose      *)
(* child changes the terminal from the background.                         *)
(***************************************************************************)
EXTENDS Machine, Naturals, FiniteSets

CONSTANTS JobSize,      \* processes of the pipeline
          MaxJobSigs,   \* bound on the signals the user sends to it
          MaxTtySigs    \* bound on those to the other programs

Jobs == 1 .. JobSize
Gone == {"killed", "sigpipe", "failed", "exit"}

(* What kill() does with signals that stop and continue: each discards the *)
(* pending ones of the other kind; SIGCONT resumes.                        *)
Pend(pending, s) ==
    CASE s = "SIGCONT" -> (pending \ {"SIGTSTP"}) \cup {s}
      [] s \in {"SIGTSTP", "SIGSTOP"} -> (pending \ {"SIGCONT"}) \cup {s}
      [] OTHER -> pending \cup {s}

-----------------------------------------------------------------------------
(* job_mon.  num: cmdNum; tstp: the processes in the handler for SIGTSTP,  *)
(* before raise(); late: those that were there when SIGCONT came.  pipe:   *)
(* the message between a process and the next.                             *)
JobInit ==
    /\ at = [p \in Jobs |-> "sigint"]
    /\ mem = [prog |-> "job_mon", num |-> [p \in Jobs |-> 0], tstp |-> {}, late |-> {}]
    /\ os = [pending |-> [p \in Jobs |-> {}], stopped |-> {}, pipe |-> [p \in Jobs |-> 0],
             sent |-> 0, last |-> "none"]

Main(p, l, k) == p \notin os.stopped \cup mem.tstp /\ Move(p, l, k)

(* The three calls of sigaction(). *)
Setup(p) ==
    /\ Main(p, "sigint", "sigtstp") \/ Main(p, "sigtstp", "sigcont") \/ Main(p, "sigcont", "read")
    /\ UNCHANGED <<mem, os>>

Handles(p, s) ==
    at[p] \notin CASE s = "SIGINT" -> {"sigint"} [] s = "SIGTSTP" -> {"sigint", "sigtstp"}
                   [] s = "SIGCONT" -> {"sigint", "sigtstp", "sigcont"}

(* The first process has a terminal for its input; the others read the     *)
(* position of the one before, and give up at the end of the pipe.  Either *)
(* way cmdNum++ follows.                                                   *)
ReadNum(p) ==
    \/ /\ p > 1 => os.pipe[p - 1] > 0
       /\ Main(p, "read", "write")
       /\ mem' = [mem EXCEPT !.num[p] = 1 + IF p = 1 THEN 0 ELSE os.pipe[p - 1]]
       /\ os' = IF p = 1 THEN os ELSE [os EXCEPT !.pipe[p - 1] = 0]
    \/ /\ p > 1 /\ os.pipe[p - 1] = 0 /\ at[p - 1] \in Gone
       /\ Main(p, "read", "failed") /\ UNCHANGED <<mem, os>>

(* Unless standard output is a terminal. *)
WriteNum(p) ==
    \/ /\ p < JobSize => at[p + 1] \notin Gone
       /\ Main(p, "write", "pause") /\ UNCHANGED mem
       /\ os' = IF p = JobSize THEN os ELSE [os EXCEPT !.pipe[p] = mem.num[p]]
    \/ /\ p < JobSize /\ at[p + 1] \in Gone
       /\ Main(p, "write", "sigpipe") /\ UNCHANGED <<mem, os>>

(* handler(), for SIGINT and SIGCONT only a message; the default actions   *)
(* before.  SIGTSTP is blocked in its own handler.                         *)
Handler(p) ==
    \E s \in os.pending[p] :
        /\ at[p] \notin Gone /\ p \notin os.stopped /\ (s = "SIGTSTP" => p \notin mem.tstp)
        /\ os' = [os EXCEPT !.pending[p] = @ \ {s},
                            !.stopped = IF s = "SIGTSTP" /\ ~Handles(p, s) THEN @ \cup {p} ELSE @]
        /\ mem' = [mem EXCEPT !.tstp = IF s = "SIGTSTP" /\ Handles(p, s) THEN @ \cup {p} ELSE @]
        /\ at' = IF s = "SIGINT" /\ ~Handles(p, s) THEN [at EXCEPT ![p] = "killed"] ELSE at

(* raise(SIGSTOP); the handler returns when the process is continued. *)
RaiseStop(p) ==
    /\ p \in mem.tstp \ os.stopped /\ at[p] \notin Gone
    /\ os' = [os EXCEPT !.stopped = @ \cup {p}, !.pending[p] = @ \ {"SIGCONT"}]
    /\ mem' = [mem EXCEPT !.tstp = @ \ {p}]
    /\ UNCHANGED at

job_mon(p) == Setup(p) \/ ReadNum(p) \/ WriteNum(p) \/ Handler(p) \/ RaiseStop(p)

(* ^C, ^Z, or fg: to every process of the job. *)
JobSignal(s) ==
    /\ os.sent < MaxJobSigs
    /\ os' = [os EXCEPT !.sent = @ + 1, !.last = IF s = "SIGINT" THEN @ ELSE s,
                        !.pending = [p \in Jobs |-> IF at[p] \in Gone THEN {}
                                                    ELSE Pend(os.pending[p], s)],
                        !.stopped = IF s = "SIGCONT" THEN {} ELSE @]
    /\ mem' = [mem EXCEPT !.late = IF s = "SIGCONT" THEN mem.tstp ELSE @]
    /\ UNCHANGED at

-----------------------------------------------------------------------------
(* handling_SIGTSTP.  hnd: where the handler is.  blocked: SIGTSTP in the  *)
(* signal mask; disp: its disposition.                                     *)
TstpInit ==
    /\ at = [main |-> "sigaction", hnd |-> "none"]
    /\ mem = [prog |-> "handling_SIGTSTP"]
    /\ \E disp \in {"SIG_DFL", "SIG_IGN"} :
          os = [disp |-> disp, blocked |-> FALSE, pending |-> FALSE, stopped |-> FALSE,
                sent |-> 0, last |-> "none"]

Sigaction ==
    /\ at.hnd = "none" /\ ~os.stopped /\ Move("main", "sigaction", "pause")
    /\ os' = [os EXCEPT !.disp = IF @ = "SIG_IGN" THEN @ ELSE "handler"]
    /\ UNCHANGED mem

(* A step of tstpHandler() that leaves 'next' as the state. *)
Step(l, k, next) == ~os.stopped /\ Move("hnd", l, k) /\ os' = next /\ UNCHANGED mem

SetDefault == Step("default", "raise", [os EXCEPT !.disp = "SIG_DFL"])
Raise == Step("raise", "unblock", [os EXCEPT !.pending = TRUE])

(* The pending SIGTSTP stops the process before sigprocmask() returns. *)
Unblock ==
    Step("unblock", "reblock",
         [os EXCEPT !.blocked = FALSE, !.pending = FALSE, !.stopped = os.pending])

Reblock == Step("reblock", "handle", [os EXCEPT !.blocked = TRUE])
Handle == Step("handle", "return", [os EXCEPT !.disp = "handler"])
Return == Step("return", "none", [os EXCEPT !.blocked = FALSE])

tstpHandler == SetDefault \/ Raise \/ Unblock \/ Reblock \/ Handle \/ Return

Deliver ==
    /\ os.pending /\ ~os.blocked /\ ~os.stopped
    /\ CASE os.disp = "handler" -> /\ Move("hnd", "none", "default")
                                   /\ os' = [os EXCEPT !.pending = FALSE, !.blocked = TRUE]
         [] os.disp = "SIG_DFL" -> os' = [os EXCEPT !.pending = FALSE, !.stopped = TRUE] /\ UNCHANGED at
         [] os.disp = "SIG_IGN" -> os' = [os EXCEPT !.pending = FALSE] /\ UNCHANGED at
    /\ UNCHANGED mem

handling_SIGTSTP == Sigaction \/ tstpHandler \/ Deliver

TstpSignal(s) ==
    /\ os.sent < MaxTtySigs /\ s \in {"SIGTSTP", "SIGCONT"}
    /\ os' = [os EXCEPT !.sent = @ + 1, !.last = s, !.pending = s = "SIGTSTP",
                        !.stopped = @ /\ s # "SIGCONT"]
    /\ UNCHANGED <<at, mem>>

-----------------------------------------------------------------------------
(* sigttou.  fg: the child is still in the foreground group. *)
TtouInit ==
    /\ at = [parent |-> "fork", child |-> "unborn"]
    /\ mem = [prog |-> "sigttou", fg |-> TRUE]
    /\ os = [sent |-> 0]

TtouFork ==
    \/ /\ at.parent = "fork" /\ at' = [parent |-> "wait", child |-> "setpgid"]
       /\ UNCHANGED <<mem, os>>
    \/ Move("parent", "fork", "failed") /\ UNCHANGED <<mem, os>>

Setpgid ==
    /\ Move("child", "setpgid", "exec")
    /\ mem' = [mem EXCEPT !.fg = FALSE]
    /\ UNCHANGED os

(* tcsetattr() from the background: SIGTTOU stops the child, unless nobody *)
(* could resume it, when the call fails.  execlp() may fail, too.          *)
Stty ==
    /\ \/ at.parent \notin Gone /\ Move("child", "exec", "stopped")
       \/ Move("child", "exec", "exit")
    /\ UNCHANGED <<mem, os>>

(* wait() does not report a stopped child. *)
TtouWait == at.child \in Gone /\ Move("parent", "wait", "exit") /\ UNCHANGED <<mem, os>>

sigttou == TtouFork \/ Setpgid \/ Stty \/ TtouWait

(* When the parent ends, the child's group is orphaned: a stopped child    *)
(* gets SIGHUP and SIGCONT.                                                *)
TtouSignal(s) ==
    /\ os.sent < MaxTtySigs /\ os' = [os EXCEPT !.sent = @ + 1]
    /\ \/ s = "SIGCONT" /\ Move("child", "stopped", "exec")
       \/ /\ s = "SIGINT" /\ at.parent \in {"fork", "wait"}
          /\ at' = [parent |-> "killed",
                    child |-> IF at.child = "stopped" \/ (mem.fg /\ at.child # "unborn")
                              THEN "killed" ELSE at.child]
    /\ UNCHANGED mem

-----------------------------------------------------------------------------
Init == JobInit \/ TstpInit \/ TtouInit

Job(p) == Runs("job_mon") /\ job_mon(p)
Program ==
    \/ Runs("handling_SIGTSTP") /\ handling_SIGTSTP
    \/ Runs("sigttou") /\ sigttou

User(s) ==
    \/ Runs("job_mon") /\ JobSignal(s)
    \/ Runs("handling_SIGTSTP") /\ TstpSignal(s)
    \/ Runs("sigttou") /\ TtouSignal(s)

Progs == {"job_mon", "handling_SIGTSTP", "sigttou"}
Waiting ==
    /\ mem.prog \in Progs
    /\ \/ os.sent = IF Runs("job_mon") THEN MaxJobSigs ELSE MaxTtySigs
       \/ Runs("sigttou") /\ at.parent \in Gone
    /\ UNCHANGED machine

Next ==
    \/ \E p \in Jobs : Job(p)
    \/ Program
    \/ \E s \in {"SIGINT", "SIGTSTP", "SIGCONT"} : User(s)
    \/ Waiting

Fairness == (\A p \in Jobs : WF_machine(Job(p))) /\ WF_machine(Program)

-----------------------------------------------------------------------------
(* - Every process of the pipeline reports its own position, whatever the  *)
(*   signals do to the reads and writes, and gives up only if one before   *)
(*   it was killed (before its handler was there) or gave up.              *)
(* - A process stays stopped after the job was continued only if SIGCONT   *)
(*   came between its SIGTSTP and the raise(SIGSTOP) of the handler.       *)
(* - In handling_SIGTSTP no SIGTSTP is lost: after the last one the        *)
(*   process is stopped, or in the part of the handler that will stop it,  *)
(*   and whenever no handler runs it is installed.                         *)
(* - The child of sigttou is not left stopped when its parent has gone.    *)
JobsTrue ==
    /\ Runs("job_mon") => \A p \in Jobs :
          /\ at[p] \in {"write", "pause"} => mem.num[p] = p
          /\ at[p] = "failed" => \E q \in 1 .. p - 1 : at[q] \in {"killed", "sigpipe"}
          /\ at[p] = "sigpipe" => at[p + 1] = "killed"
          /\ p \in os.stopped /\ os.last = "SIGCONT" => p \in mem.late
    /\ Runs("handling_SIGTSTP") /\ os.disp # "SIG_IGN" =>
          /\ os.last = "SIGTSTP" => os.pending \/ os.stopped \/ at.hnd \in {"default", "raise"}
          /\ at.hnd = "none" /\ at.main = "pause" => os.disp = "handler" /\ ~os.blocked
    /\ Runs("sigttou") /\ at.parent \in Gone => at.child # "stopped"

(* The pipeline comes to report itself as far as it is not stopped, and    *)
(* the parent of sigttou ends unless its child is stopped, for wait() does *)
(* not return for that.                                                    *)
JobsEnd ==
    /\ Runs("job_mon") ~> (Runs("job_mon") /\ \A p \in Jobs :
                              at[p] \in Gone \cup {"pause"} \/ os.stopped # {})
    /\ Runs("sigttou") ~> (Runs("sigttou") /\ (at.parent \in Gone \/ at.child = "stopped"))
=============================================================================
