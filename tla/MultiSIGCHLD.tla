---------------------------- MODULE MultiSIGCHLD ----------------------------
(***************************************************************************)
(* A parent that waits for N children:                                     *)
(*   "sigchld"  26-process-watch/multi_SIGCHLD.c reaps them in a SIGCHLD   *)
(*              handler, with SIGCHLD blocked except inside sigsuspend();  *)
(*   "wait"     26-process-watch/multi_wait.c reaps them with wait().      *)
(* SIGCHLD is a standard signal: however many children change state while  *)
(* it is blocked, one instance is pending.  sa_flags is 0, so a child that *)
(* is stopped or continued (job control) raises SIGCHLD as well.           *)
(***************************************************************************)
EXTENDS Integers, FiniteSets

CONSTANTS N,            \* argc - 1, the number of children
          MaxStops      \* bound on how often children are stopped

ASSUME ConstantsAssumption == N \in Nat \ {0} /\ MaxStops \in Nat

VARIABLES prog,             \* "sigchld" or "wait"
          child,            \* kernel: the state of each child
          stops,            \* how often a child has been stopped
          pending, masked,  \* kernel: SIGCHLD pending, SIGCHLD blocked
          mpc, j,           \* position of main() and its loop counter
          hpc,              \* position of sigchldHandler(), or "none"
          numLiveChildren, sigCnt,
          numDead           \* multi_wait.c's counter

vars == <<prog, child, stops, pending, masked, mpc, j, hpc, numLiveChildren,
          sigCnt, numDead>>

Children == 1 .. N
In(s) == {c \in Children : child[c] \in s}

(* numLiveChildren is set before the first fork(). *)
Init ==
    /\ prog \in {"sigchld", "wait"}
    /\ child = [c \in Children |-> "new"]
    /\ stops = 0
    /\ pending = FALSE
    /\ masked = FALSE
    /\ mpc = "start"
    /\ j = 1
    /\ hpc = "none"
    /\ numLiveChildren = IF prog = "sigchld" THEN N ELSE 0
    /\ sigCnt = 0
    /\ numDead = 0

Ended == mpc \in {"exit", "failed"}

-----------------------------------------------------------------------------
(* The children.  Raise is the kernel's SIGCHLD to the parent; multi_wait  *)
(* leaves the default action, which is to ignore it.                       *)

Raise == pending' = (pending \/ prog = "sigchld")

(* sleep() is over (or getInt() failed): the child exits. *)
ChildExit(c) ==
    /\ ~Ended
    /\ child[c] = "alive"
    /\ child' = [child EXCEPT ![c] = "zombie"]
    /\ Raise
    /\ UNCHANGED <<prog, stops, masked, mpc, j, hpc, numLiveChildren, sigCnt, numDead>>

ChildStopOrCont(c) ==
    /\ ~Ended
    /\ \/ /\ child[c] = "alive" /\ child' = [child EXCEPT ![c] = "stopped"]
          /\ stops < MaxStops /\ stops' = stops + 1
       \/ /\ child[c] = "stopped" /\ child' = [child EXCEPT ![c] = "alive"]
          /\ stops' = stops
    /\ Raise
    /\ UNCHANGED <<prog, masked, mpc, j, hpc, numLiveChildren, sigCnt, numDead>>

-----------------------------------------------------------------------------
(* sigchldHandler() *)

Deliver ==
    /\ ~Ended
    /\ pending /\ ~masked /\ hpc = "none"
    /\ pending' = FALSE
    /\ masked' = TRUE
    /\ hpc' = "reap"
    /\ UNCHANGED <<prog, child, stops, mpc, j, numLiveChildren, sigCnt, numDead>>

(* Mutant: if instead of while, one waitpid() per signal. *)
ReapOne ==
    /\ hpc = "reap"
    /\ \E c \in In({"zombie"}) : child' = [child EXCEPT ![c] = "reaped"]
    /\ numLiveChildren' = numLiveChildren - 1
    /\ hpc' = "sleep"
    /\ UNCHANGED <<prog, stops, pending, masked, mpc, j, sigCnt, numDead>>

(* waitpid(-1, &status, WNOHANG) > 0 *)
Reap ==
    /\ hpc = "reap"
    /\ \E c \in In({"zombie"}) : child' = [child EXCEPT ![c] = "reaped"]
    /\ numLiveChildren' = numLiveChildren - 1
    /\ UNCHANGED <<prog, stops, pending, masked, mpc, j, hpc, sigCnt, numDead>>

(* waitpid() returns 0, or -1 with ECHILD. *)
ReapNone ==
    /\ hpc = "reap"
    /\ In({"zombie"}) = {}
    /\ hpc' = "sleep"
    /\ UNCHANGED <<prog, child, stops, pending, masked, mpc, j, numLiveChildren, sigCnt, numDead>>

(* The handler returns after its sleep(5).  Inside sigsuspend() that makes *)
(* sigsuspend() restore the mask and return EINTR; then sigCnt++.          *)
HandlerReturn ==
    /\ hpc = "sleep"
    /\ hpc' = "none"
    /\ IF mpc = "suspended"
       THEN mpc' = "test" /\ masked' = TRUE /\ sigCnt' = sigCnt + 1
       ELSE masked' = FALSE /\ UNCHANGED <<mpc, sigCnt>>
    /\ UNCHANGED <<prog, child, stops, pending, j, numLiveChildren, numDead>>

sigchldHandler == Reap \/ ReapNone \/ HandlerReturn

-----------------------------------------------------------------------------
(* main(), which does not run while the handler does *)

At(label) == mpc = label /\ hpc = "none"

(* Mutant: SIGCHLD is not blocked. *)
SetupUnblocked ==
    /\ At("start")
    /\ mpc' = "fork"
    /\ UNCHANGED <<prog, child, stops, pending, masked, j, hpc, numLiveChildren, sigCnt, numDead>>

(* sigaction() and sigprocmask() in multi_SIGCHLD.c. *)
Setup ==
    /\ At("start")
    /\ mpc' = "fork"
    /\ masked' = (prog = "sigchld")
    /\ UNCHANGED <<prog, child, stops, pending, j, hpc, numLiveChildren, sigCnt, numDead>>

(* for (j = 1; j < argc; j++) switch (fork()) *)
Fork ==
    /\ At("fork")
    /\ j <= N
    /\ \/ /\ child' = [child EXCEPT ![j] = "alive"]
          /\ j' = j + 1
          /\ mpc' = mpc
       \/ mpc' = "failed" /\ UNCHANGED <<child, j>>      \* errExit("fork")
    /\ UNCHANGED <<prog, stops, pending, masked, hpc, numLiveChildren, sigCnt, numDead>>

Forked ==
    /\ At("fork")
    /\ j > N
    /\ mpc' = IF prog = "sigchld" THEN "test" ELSE "wait"
    /\ UNCHANGED <<prog, child, stops, pending, masked, j, hpc, numLiveChildren, sigCnt, numDead>>

(* while (numLiveChildren > 0) *)
Test ==
    /\ At("test")
    /\ mpc' = IF numLiveChildren > 0 THEN "suspend" ELSE "exit"
    /\ UNCHANGED <<prog, child, stops, pending, masked, j, hpc, numLiveChildren, sigCnt, numDead>>

(* sigsuspend(&emptyMask) unblocks and sleeps in one step. *)
Suspend ==
    /\ At("suspend")
    /\ mpc' = "suspended"
    /\ masked' = FALSE
    /\ UNCHANGED <<prog, child, stops, pending, j, hpc, numLiveChildren, sigCnt, numDead>>

(* multi_wait.c: wait() returns a child, or -1 with ECHILD. *)
Wait ==
    /\ At("wait")
    /\ \/ /\ \E c \in In({"zombie"}) : child' = [child EXCEPT ![c] = "reaped"]
          /\ numDead' = numDead + 1
          /\ mpc' = mpc
       \/ /\ In({"alive", "stopped", "zombie"}) = {}
          /\ mpc' = "exit"
          /\ UNCHANGED <<child, numDead>>
    /\ UNCHANGED <<prog, stops, pending, masked, j, hpc, numLiveChildren, sigCnt>>

multi_SIGCHLD ==
    prog = "sigchld" /\ (Setup \/ Fork \/ Forked \/ Test \/ Suspend)

multi_wait == prog = "wait" /\ (Setup \/ Fork \/ Forked \/ Wait)

MainStep == multi_SIGCHLD \/ multi_wait

Parent == Deliver \/ sigchldHandler \/ MainStep

Terminated == Ended /\ UNCHANGED vars

Next ==
    \/ Parent
    \/ \E c \in Children : ChildExit(c) \/ ChildStopOrCont(c)
    \/ Terminated

(* The kernel runs the parent, and a child that is not kept stopped gets   *)
(* through its sleep().  Nothing promises that a child is ever stopped or  *)
(* continued.                                                              *)
Fairness == WF_vars(Parent) /\ \A c \in Children : SF_vars(ChildExit(c))

Spec == Init /\ [][Next]_vars /\ Fairness

-----------------------------------------------------------------------------
TypeOK ==
    /\ prog \in {"sigchld", "wait"}
    /\ child \in [Children -> {"new", "alive", "stopped", "zombie", "reaped"}]
    /\ stops \in 0 .. MaxStops
    /\ pending \in BOOLEAN
    /\ masked \in BOOLEAN
    /\ mpc \in {"start", "fork", "test", "suspend", "suspended", "wait", "exit", "failed"}
    /\ j \in 1 .. N + 1
    /\ hpc \in {"none", "reap", "sleep"}
    /\ numLiveChildren \in 0 .. N
    /\ sigCnt \in Nat
    /\ numDead \in 0 .. N

(* A dead child is never forgotten although SIGCHLDs coalesce: outside the *)
(* handler's waitpid() loop every zombie has a SIGCHLD pending, and a      *)
(* parent asleep in sigsuspend() without one has a child left to die.      *)
NoLostChild ==
    prog = "sigchld" =>
        /\ hpc # "reap" /\ In({"zombie"}) # {} => pending
        /\ mpc = "suspended" /\ hpc = "none" /\ ~pending => In({"alive", "stopped"}) # {}

(* The handler never interrupts main() between the test of numLiveChildren *)
(* and sigsuspend(): it runs only inside sigsuspend().                     *)
HandlerOnlySuspended == hpc # "none" => mpc = "suspended"

(* The parent ends, unless a child stays stopped for ever. *)
ParentEnds == <>Ended \/ \E c \in Children : <>[](child[c] = "stopped")
=============================================================================
