-------------------------- MODULE MCChildren_proofs --------------------------
(***************************************************************************)
(* multi_SIGCHLD.c and multi_wait.c for every number of children: the      *)
(* handler runs only inside sigsuspend(), and no dead child is forgotten   *)
(* although SIGCHLDs coalesce.  fork_sig_sync.c, pipe_sync.c and           *)
(* fork_whos_on_first.c, likewise: the parent goes on only after the work  *)
(* of its children.  Then what the other programs share with their         *)
(* children or with strangers, module by module: Forking, Pipes, Errors    *)
(* and Files, each with an invariant that has a part for every program.    *)
(***************************************************************************)
EXTENDS MCChildren, Sequences, FiniteSetTheorems, SequenceTheorems, TLAPS

Waiting == {"test", "suspend", "suspended", "exit"}

(* Children the parent still has to wait for. *)
Unreaped == {c \in Children : child[c] # "reaped"}
Reaped   == {c \in Children : child[c] = "reaped"}

BasicType ==
    /\ prog \in {"sigchld", "wait"}
    /\ child \in [Children -> {"new", "alive", "stopped", "zombie", "reaped"}]
    /\ stops \in 0 .. MaxStops
    /\ mpc \in {"start", "fork", "test", "suspend", "suspended", "wait", "exit", "failed"}
    /\ j \in 1 .. N + 1
    /\ hpc \in {"none", "reap", "sleep"}
    /\ numLiveChildren \in Int
    /\ sigCnt \in Nat
    /\ numDead \in Int

FlagType == pending \in BOOLEAN /\ masked \in BOOLEAN

(* SIGCHLD is blocked from the sigprocmask() on, except inside             *)
(* sigsuspend(); that is the only place where the handler can start.       *)
MaskInv ==
    /\ prog = "sigchld" /\ mpc \in {"fork", "test", "suspend"} => masked
    /\ hpc # "none" => masked /\ mpc = "suspended"
    /\ mpc = "start" => ~pending
    /\ prog = "wait" => ~pending

(* Children exist once they are forked; the program's phases. *)
PhaseInv ==
    /\ mpc = "start" => j = 1
    /\ \A c \in Children : c >= j <=> child[c] = "new"
    /\ mpc \in Waiting \cup {"wait"} => j = N + 1
    /\ prog = "sigchld" => mpc # "wait"
    /\ prog = "wait" => mpc \notin {"test", "suspend", "suspended"}

(* numLiveChildren (numDead in multi_wait.c) counts the children. *)
LiveInv ==
    /\ prog = "sigchld" => numLiveChildren = Cardinality(Unreaped) /\ numDead = 0
    /\ prog = "wait" => numDead = Cardinality(Reaped) /\ numLiveChildren = 0

(* main() sleeps only while a child is left. *)
SleepInv ==
    /\ mpc = "suspend" => numLiveChildren > 0
    /\ mpc = "suspended" /\ hpc = "none" => numLiveChildren > 0

(* A zombie outside the waitpid() loop has its SIGCHLD pending. *)
ZombieInv ==
    prog = "sigchld" /\ hpc # "reap" /\ In({"zombie"}) # {} => pending

ControlInv == BasicType /\ FlagType /\ MaskInv /\ PhaseInv /\ SleepInv /\ ZombieInv

IInv == ControlInv /\ LiveInv

-----------------------------------------------------------------------------
(* The children are finitely many. *)
LEMMA ChildrenFinite ==
    /\ IsFiniteSet(Children)
    /\ Cardinality(Children) = N
  <1>1. IsFiniteSet(1 .. N) /\ Cardinality(1 .. N) = IF 1 > N THEN 0 ELSE N - 1 + 1
    BY FS_Interval, ConstantsAssumption
  <1> QED BY <1>1, ConstantsAssumption DEF Children

(* So are those in any state. *)
LEMMA SubsetFinite ==
    ASSUME NEW S, S \subseteq Children
    PROVE  IsFiniteSet(S) /\ Cardinality(S) \in 0 .. N
  <1>1. IsFiniteSet(S) /\ Cardinality(S) <= N
    BY ChildrenFinite, FS_Subset
  <1>2. Cardinality(S) \in Nat
    BY <1>1, FS_CardinalityType
  <1> QED BY <1>1, <1>2, ConstantsAssumption
(* The initial states. *)
LEMMA InitIInv == Init => IInv
  <1> SUFFICES ASSUME Init PROVE IInv
    OBVIOUS
  <1> USE ConstantsAssumption DEF Init, Children
  <1>1. BasicType
    BY DEF BasicType
  <1>2. FlagType
    BY Zenon DEF FlagType
  <1>3. MaskInv /\ PhaseInv /\ SleepInv /\ ZombieInv
    BY DEF MaskInv, PhaseInv, SleepInv, ZombieInv, In, Waiting
  <1>4. Unreaped = Children /\ Reaped = {}
    BY DEF Unreaped, Reaped
  <1>5. LiveInv
    BY <1>4, ChildrenFinite, FS_EmptySet DEF LiveInv
  <1> QED BY <1>1, <1>2, <1>3, <1>5 DEF IInv, ControlInv

(* The flags stay Boolean. *)
LEMMA StepFlags == FlagType /\ [Next]_vars => FlagType'
  <1> SUFFICES ASSUME FlagType, [Next]_vars PROVE FlagType'
    OBVIOUS
  <1> USE DEF FlagType, Raise
  <1>1. ASSUME NEW c \in Children, ChildExit(c) \/ ChildStopOrCont(c)
        PROVE  FlagType'
    BY <1>1, Zenon DEF ChildExit, ChildStopOrCont
  <1>2. CASE Deliver \/ sigchldHandler
    BY <1>2, Zenon DEF Deliver, sigchldHandler, Reap, ReapNone, HandlerReturn
  <1>3. CASE MainStep
    BY <1>3, Zenon DEF MainStep, multi_SIGCHLD, multi_wait, Setup, Fork, Forked, Test, Suspend, Wait
  <1>4. CASE UNCHANGED vars
    BY <1>4 DEF vars
  <1> QED BY <1>1, <1>2, <1>3, <1>4, Zenon DEF Next, Parent, Terminated

(* The control part is inductive once numLiveChildren is known to count    *)
(* the children.                                                           *)
LEMMA StepControl == IInv /\ [Next]_vars => ControlInv'
  <1> SUFFICES ASSUME IInv, [Next]_vars PROVE ControlInv'
    OBVIOUS
  <1>f. FlagType'
    BY StepFlags DEF IInv, ControlInv
  <1> DEFINE Goal == (BasicType /\ MaskInv /\ PhaseInv /\ SleepInv /\ ZombieInv)'
  <1> SUFFICES Goal
    BY <1>f DEF ControlInv
  <1> USE ConstantsAssumption DEF IInv, ControlInv, BasicType, MaskInv, PhaseInv,
          SleepInv, ZombieInv, In, Waiting, Children
  <1>r. ASSUME Raise
        PROVE  (prog = "sigchld" => pending') /\ (~pending => (pending' => prog = "sigchld"))
    BY <1>r, Zenon DEF Raise
  <1>1. ASSUME NEW c \in Children, ChildExit(c) PROVE Goal
    <2>1. /\ child[c] = "alive" /\ child' = [child EXCEPT ![c] = "zombie"]
          /\ UNCHANGED <<prog, stops, masked, mpc, j, hpc, numLiveChildren, sigCnt, numDead>>
      BY <1>1 DEF ChildExit
    <2>2. (prog = "sigchld" => pending') /\ (~pending => (pending' => prog = "sigchld"))
      BY <1>1, <1>r DEF ChildExit
    <2>3. mpc # "start"
      BY <2>1
    <2> QED BY <2>1, <2>2, <2>3
  <1>2. ASSUME NEW c \in Children, ChildStopOrCont(c) PROVE Goal
    <2>1. /\ child[c] \in {"alive", "stopped"}
          /\ \E s \in {"alive", "stopped"} : child' = [child EXCEPT ![c] = s]
          /\ stops' \in 0 .. MaxStops
          /\ UNCHANGED <<prog, masked, mpc, j, hpc, numLiveChildren, sigCnt, numDead>>
      BY <1>2 DEF ChildStopOrCont
    <2>2. (prog = "sigchld" => pending') /\ (~pending => (pending' => prog = "sigchld"))
      BY <1>2, <1>r DEF ChildStopOrCont
    <2>3. mpc # "start"
      BY <2>1
    <2> QED BY <2>1, <2>2, <2>3
  <1>3. CASE Deliver
    <2>1. mpc = "suspended" /\ prog = "sigchld"
      BY <1>3 DEF Deliver, Ended
    <2> QED BY <1>3, <2>1 DEF Deliver
  <1>4. CASE Reap
    BY <1>4 DEF Reap
  <1>5. CASE ReapNone
    BY <1>5 DEF ReapNone
  <1>6. CASE HandlerReturn
    BY <1>6 DEF HandlerReturn
  <1>7. CASE Setup
    BY <1>7 DEF Setup, At
  <1>8. CASE Fork
    BY <1>8 DEF Fork, At
  <1>9. CASE Forked
    BY <1>9 DEF Forked, At
  <1>10. CASE Test
    BY <1>10 DEF Test, At
  <1>11. CASE Suspend
    BY <1>11 DEF Suspend, At
  <1>12. CASE Wait
    BY <1>12 DEF Wait, At
  <1>13. CASE UNCHANGED vars
    BY <1>13 DEF vars
  <1> QED
    BY <1>1, <1>2, <1>3, <1>4, <1>5, <1>6, <1>7,
       <1>8, <1>9, <1>10, <1>11, <1>12, <1>13
    DEF Next, Parent, sigchldHandler, MainStep, multi_SIGCHLD, multi_wait,
        Terminated

(* Only Reap and Wait change the counters or reap a child. *)
LEMMA StepLive == IInv /\ [Next]_vars => LiveInv'
  <1> SUFFICES ASSUME IInv, [Next]_vars PROVE LiveInv'
    OBVIOUS
  <1> USE DEF IInv, ControlInv, BasicType
  <1>1. /\ IsFiniteSet(Unreaped) /\ Cardinality(Unreaped) \in Nat
        /\ IsFiniteSet(Reaped) /\ Cardinality(Reaped) \in Nat
    BY SubsetFinite, ConstantsAssumption DEF Unreaped, Reaped
  <1>2. ASSUME UNCHANGED <<prog, numLiveChildren, numDead>>,
               \A c \in Children : child'[c] = "reaped" <=> child[c] = "reaped"
        PROVE  LiveInv'
    BY <1>2 DEF LiveInv, Unreaped, Reaped
  <1>3. ASSUME NEW c \in Children, child[c] = "zombie",
               child' = [child EXCEPT ![c] = "reaped"]
        PROVE  /\ Cardinality(Unreaped') = Cardinality(Unreaped) - 1
               /\ Cardinality(Reaped') = Cardinality(Reaped) + 1
    <2>1. /\ c \in Unreaped /\ Unreaped' = Unreaped \ {c}
          /\ c \notin Reaped /\ Reaped' = Reaped \cup {c}
      BY <1>3 DEF Unreaped, Reaped
    <2> QED BY <1>1, <2>1, FS_AddElement, FS_RemoveElement
  <1>4. CASE Reap
    <2>1. prog = "sigchld"
      BY <1>4 DEF Reap, MaskInv, PhaseInv
    <2> QED BY <1>1, <1>3, <1>4, <2>1 DEF Reap, In, LiveInv
  <1>5. CASE Wait
    <2>1. prog = "wait"
      BY <1>5 DEF Wait, At, PhaseInv
    <2>2. CASE UNCHANGED <<child, numDead>>
      BY <1>2, <1>5, <2>2 DEF Wait
    <2>3. CASE /\ \E c \in In({"zombie"}) : child' = [child EXCEPT ![c] = "reaped"]
               /\ numDead' = numDead + 1
      BY <1>1, <1>3, <1>5, <2>1, <2>3 DEF Wait, In, LiveInv
    <2> QED BY <1>5, <2>2, <2>3 DEF Wait
  <1>6. ASSUME NEW c \in Children, ChildExit(c) \/ ChildStopOrCont(c) PROVE LiveInv'
    BY <1>2, <1>6 DEF ChildExit, ChildStopOrCont
  <1>7. CASE Deliver \/ ReapNone \/ HandlerReturn \/ Setup \/ Forked \/ Test
             \/ Suspend \/ UNCHANGED vars
    BY <1>2, <1>7 DEF Deliver, ReapNone, HandlerReturn, Setup, Forked, Test,
       Suspend, vars
  <1>8. CASE Fork
    BY <1>2, <1>8, ConstantsAssumption DEF Fork, At, PhaseInv, Children
  <1> QED
    BY <1>4, <1>5, <1>6, <1>7, <1>8
    DEF Next, Parent, sigchldHandler, MainStep, multi_SIGCHLD, multi_wait,
        Terminated

(* The inductive invariant holds in every reachable state. *)
THEOREM Invariance == MCSpec => []IInv
  <1>1. MCInit => Init
    BY DEF MCInit
  <1>2. [MCNext]_<<machine, vars>> => [Next]_vars
    BY DEF MCNext
  <1>3. IInv /\ [Next]_vars => IInv'
    BY StepControl, StepLive DEF IInv
  <1> QED BY InitIInv, <1>1, <1>2, <1>3, PTL DEF MCSpec

(* multi_SIGCHLD.c, multi_wait.c: the counters stay within 0 .. N.         *)
THEOREM TypeCorrect == MCSpec => []TypeOK
  <1>1. IInv => TypeOK
    <2> SUFFICES ASSUME IInv PROVE TypeOK
      OBVIOUS
    <2>1. Cardinality(Unreaped) \in 0 .. N /\ Cardinality(Reaped) \in 0 .. N
      BY SubsetFinite DEF Unreaped, Reaped
    <2>2. numLiveChildren \in 0 .. N /\ numDead \in 0 .. N
      BY <2>1, ConstantsAssumption DEF IInv, ControlInv, BasicType, LiveInv
    <2> QED BY <2>2 DEF IInv, ControlInv, BasicType, FlagType, TypeOK
  <1> QED BY Invariance, <1>1, PTL

(* multi_SIGCHLD.c:110: the handler never runs between the test of         *)
(* numLiveChildren and sigsuspend().                                       *)
THEOREM HandlerSafe == MCSpec => []HandlerOnlySuspended
  <1>1. IInv => HandlerOnlySuspended
    BY DEF IInv, ControlInv, MaskInv, HandlerOnlySuspended
  <1> QED BY Invariance, <1>1, PTL

(* multi_SIGCHLD.c:43: no dead child is forgotten, and a parent asleep in  *)
(* sigsuspend() without a pending SIGCHLD has a child left to die.         *)
THEOREM NoChildLost == MCSpec => []NoLostChild
  <1>1. IInv => NoLostChild
    <2> SUFFICES ASSUME IInv, prog = "sigchld", mpc = "suspended", hpc = "none",
                        ~pending
                 PROVE  In({"alive", "stopped"}) # {}
      BY DEF IInv, ControlInv, ZombieInv, NoLostChild
    <2>1. Unreaped # {}
      BY FS_EmptySet DEF IInv, ControlInv, BasicType, SleepInv, LiveInv
    <2>2. PICK c \in Children : child[c] # "reaped"
      BY <2>1 DEF Unreaped
    <2>3. child[c] \notin {"new", "zombie"}
      BY <2>2, ConstantsAssumption
      DEF IInv, ControlInv, BasicType, PhaseInv, ZombieInv, In, Waiting, Children
    <2>4. child[c] \in {"alive", "stopped"}
      BY <2>2, <2>3 DEF IInv, ControlInv, BasicType
    <2> QED BY <2>4 DEF In
  <1> QED BY Invariance, <1>1, PTL

-----------------------------------------------------------------------------
(* Which program runs never changes. *)
ProgInv == "prog" \in DOMAIN mem /\ (Runs("none") \/ mem.prog \in FO!SyncProgs
              \/ mem.prog \in FO!StateProgs \cup PI!PipeProgs \cup ER!Progs \cup FI!Progs)

SyncLabels == {"unborn", "start", "fork", "failed", "suspend", "work", "signal", "exit", "ready",
               "read", "print", "wait", "zombie", "reaped", "sigaction", "suspended", "restore",
               "killed", "died"}

MemType ==
    mem \in [prog : FO!SyncProgs, j : Nat \ {0}, out : Seq((Nat \ {0}) \X {"parent", "child"})]

AtType == at \in [0 .. NumChildren -> SyncLabels]

OsType ==
    os \in [pending : BOOLEAN, blocked : BOOLEAN, handled : BOOLEAN,
            writers : SUBSET (0 .. NumChildren)]

SyncType == MemType /\ AtType /\ OsType

(* fork_sig_sync.c: the one child has sent its signal, and so done its     *)
(* work, when the signal is pending or has been taken.  The signal is      *)
(* blocked from before the fork until sigsuspend() has returned, so that   *)
(* it stays pending, and it has its handler.                               *)
SignalInv ==
    /\ \A p \in FO!Procs : p # 1 => at[p] = "unborn"
    /\ at[1] \in {"unborn", "work", "signal", "exit", "died"}
    /\ at[0] \in {"start", "sigaction", "fork", "failed", "suspend", "suspended", "restore", "ready"}
    /\ os.pending \/ at[0] \in {"restore", "ready"} => at[1] = "exit"
    /\ at[0] \in {"start", "sigaction", "fork", "failed"} => ~os.pending /\ at[1] = "unborn"
    /\ at[0] \in {"sigaction", "fork", "suspend", "suspended"} => os.blocked
    /\ at[0] \in {"fork", "suspend", "suspended"} => os.handled
    /\ at[0] \in {"suspend", "suspended"} => (os.pending <=> at[1] = "exit")
    /\ at[0] \in {"restore", "ready"} => ~os.pending

(* pipe_sync.c: a child that has not closed the write end has it open,     *)
(* from before the parent closes its own and waits for the end of the      *)
(* pipe; by then every child has been made.                                *)
PipeInv ==
    /\ \A p \in FO!Procs : at[p] \in {"unborn", "work", "signal", "exit", "died"}
    /\ \A p \in FO!Procs : at[p] \in {"work", "signal"} => p \in os.writers
    /\ \A p \in FO!Procs : p < mem.j => at[p] # "unborn"
    /\ at[0] = "start" => mem.j = 1 /\ \A p \in FO!Procs : at[p] = "unborn"
    /\ at[0] \in {"read", "ready"} => mem.j > NumChildren
    /\ at[0] = "ready" => \A p \in FO!Procs : at[p] \in {"exit", "died"}

(* fork_whos_on_first.c: before round j every child is reaped; in it the   *)
(* child of the round has printed once it is a zombie, and the parent once *)
(* it waits.                                                               *)
RoundPlace ==
    /\ at[0] \in {"start", "fork", "print", "wait", "ready", "failed"}
    /\ \A p \in FO!Procs : /\ p < mem.j => at[p] = "reaped"
                           /\ p > mem.j => at[p] = "unborn"
    /\ at[0] \in {"print", "wait"} => mem.j \in FO!Procs /\ at[mem.j] \in {"print", "zombie"}
    /\ at[0] \notin {"print", "wait"} /\ mem.j \in FO!Procs => at[mem.j] = "unborn"
    /\ at[0] = "ready" => mem.j > NumChildren

(* Two lines for every round that is over, one for each process of this    *)
(* round that has printed.                                                 *)
RoundLen ==
    /\ at[0] \notin {"print", "wait"} => Len(mem.out) = 2 * (mem.j - 1)
    /\ at[0] = "print" => Len(mem.out) = (2 * (mem.j - 1)) + (IF at[mem.j] = "zombie" THEN 1 ELSE 0)
    /\ at[0] = "wait" => Len(mem.out) = (2 * (mem.j - 1)) + (IF at[mem.j] = "zombie" THEN 2 ELSE 1)

RoundLines == \A k \in 1 .. Len(mem.out) : mem.out[k][1] = (k + 1) \div 2

RoundInv == RoundPlace /\ RoundLen /\ RoundLines

SyncInv ==
    mem.prog \in FO!SyncProgs =>
        /\ SyncType
        /\ Runs("fork_sig_sync") => SignalInv
        /\ Runs("pipe_sync") => PipeInv
        /\ Runs("fork_whos_on_first") => RoundInv

(* Each of the programs starts as itself. *)
LEMMA InitSync == MCInit => ProgInv /\ SyncInv
  <1> SUFFICES ASSUME MCInit PROVE ProgInv /\ SyncInv
    OBVIOUS
  <1>1. CASE NotRunning
    BY <1>1 DEF NotRunning, ProgInv, Runs, SyncInv, FO!SyncProgs
  <1>2. CASE FO!SyncInit
    <2>1. mem = [prog |-> mem.prog, j |-> 1, out |-> <<>>] /\ mem.prog \in FO!SyncProgs
      BY <1>2 DEF FO!SyncInit
    <2>2. SyncType
      BY <1>2, <2>1, ChildrenAssumption DEF FO!SyncInit, SyncType, MemType, AtType, OsType, SyncLabels
    <2>3. SignalInv /\ PipeInv
      BY <1>2, <2>1, ChildrenAssumption DEF FO!SyncInit, SignalInv, PipeInv, FO!Procs
    <2>4. RoundInv
      BY <1>2, <2>1, ChildrenAssumption DEF FO!SyncInit, RoundInv, RoundPlace, RoundLen, RoundLines,
         FO!Procs
    <2> QED BY <2>1, <2>2, <2>3, <2>4 DEF ProgInv, SyncInv
  <1>3. CASE FO!StateInit
    BY <1>3 DEF FO!StateInit, ProgInv, SyncInv, FO!StateProgs, FO!SyncProgs
  <1>4. CASE PI!Init
    BY <1>4 DEF PI!Init, ProgInv, SyncInv, PI!PipeProgs, FO!SyncProgs
  <1>5. CASE ER!Init
    BY <1>5 DEF ER!Init, ProgInv, SyncInv, ER!Progs, FO!SyncProgs
  <1>6. CASE FI!Init
    BY <1>6 DEF FI!Init, ProgInv, SyncInv, FI!Progs, FO!SyncProgs
  <1> QED BY <1>1, <1>2, <1>3, <1>4, <1>5, <1>6 DEF MCInit, FO!Init

(* A step of one program is no step of another, and mem.prog is only read. *)
LEMMA StateKeeps ==
    ASSUME ProgInv, FO!StateNext
    PROVE  mem.prog \in FO!StateProgs /\ mem'.prog = mem.prog /\ "prog" \in DOMAIN mem'
  <1> USE DEF ProgInv, Runs, FO!Runs, FO!StateProgs, Move, FO!Move, FO!machine, FO!Quiet
  <1>1. mem.prog \in FO!StateProgs
    BY DEF FO!StateNext, FO!Program
  <1>2. CASE FO!Killed \/ FO!StopOrCont \/ UNCHANGED FO!machine
    BY <1>1, <1>2 DEF FO!Killed, FO!ChildEnds, FO!StopOrCont
  <1>3. CASE FO!fork_stdio_buf \/ FO!t_fork \/ FO!t_vfork
    BY <1>1, <1>3 DEF FO!fork_stdio_buf, FO!t_fork, FO!t_vfork, FO!Vfork, FO!Fork, FO!Flush,
       FO!StateSay, FO!ChildEnds, FO!StateForkFails
  <1>4. CASE FO!fork_file_sharing \/ FO!anon_mmap \/ FO!t_clone
    BY <1>1, <1>4 DEF FO!fork_file_sharing, FO!anon_mmap, FO!t_clone, FO!Fork, FO!StateSay,
       FO!ChildEnds, FO!StateForkFails, FO!StateWait
  <1>5. CASE FO!make_zombie \/ FO!child_status
    BY <1>1, <1>5 DEF FO!make_zombie, FO!child_status, FO!Fork, FO!StateSay, FO!ChildEnds,
       FO!StateForkFails, FO!WaitStatus
  <1> QED BY <1>1, <1>2, <1>3, <1>4, <1>5 DEF FO!StateNext, FO!Program

LEMMA PipesKeep ==
    ASSUME ProgInv, PI!Next
    PROVE  mem.prog \in PI!PipeProgs /\ mem'.prog = mem.prog /\ "prog" \in DOMAIN mem'
  <1> USE DEF ProgInv, Runs, PI!Runs, PI!PipeProgs, PI!machine
  <1>1. mem.prog \in PI!PipeProgs
    BY SMTT(40) DEF PI!Next, PI!Program, PI!Killed
  <1>2. CASE PI!simple_pipe
    BY <1>1, <1>2, ZenonT(60) DEF PI!simple_pipe, PI!SimpleChild, PI!SimpleParent, PI!Pipe, PI!Fork, PI!End,
       PI!Close, PI!Write, PI!Read, PI!Wait
  <1>3. CASE PI!pipe_ls_wc
    BY <1>1, <1>3, ZenonT(60) DEF PI!pipe_ls_wc, PI!Ls, PI!Wc, PI!LsWcParent, PI!LsDup, PI!WcDup, PI!Pipe,
       PI!Fork, PI!End, PI!Close, PI!Dup2Close, PI!Write, PI!Read, PI!Wait
  <1>4. CASE PI!popen_glob \/ PI!BadPattern \/ PI!Eof
    BY <1>1, <1>4 DEF PI!popen_glob, PI!Popen, PI!Glob, PI!BadPattern, PI!Eof, PI!Pipe, PI!Fork,
       PI!End, PI!Close, PI!Dup2Close, PI!Write, PI!Read, PI!Wait
  <1>5. CASE (\E c \in PI!Procs : PI!Killed(c)) \/ UNCHANGED PI!machine
    BY <1>1, <1>5 DEF PI!Killed, PI!End
  <1> QED BY <1>1, <1>2, <1>3, <1>4, <1>5 DEF PI!Next, PI!Program

LEMMA ErrorsKeep ==
    ASSUME ProgInv, ER!Next
    PROVE  mem.prog \in ER!Progs /\ mem'.prog = mem.prog /\ "prog" \in DOMAIN mem'
  <1> USE DEF ProgInv, Runs, ER!Runs, ER!Progs, ER!machine
  <1>1. mem.prog \in ER!Progs
    BY DEF ER!Next, ER!Program
  <1>2. CASE ER!Call \/ ER!Fork \/ ER!Register \/ ER!Exit2 \/ UNCHANGED ER!machine
    BY <1>1, <1>2 DEF ER!Call, ER!Fork, ER!Register, ER!Exit2
  <1>3. ASSUME NEW p \in ER!Procs,
               ER!Begin(p) \/ ER!FlushStdout(p) \/ ER!Message(p) \/ ER!Terminate(p)
               \/ ER!ExitHandler(p) \/ ER!ExitFlush(p)
        PROVE  mem'.prog = mem.prog /\ "prog" \in DOMAIN mem'
    BY <1>1, <1>3 DEF ER!Begin, ER!FlushStdout, ER!Message, ER!Terminate, ER!ExitHandler, ER!ExitFlush
  <1> QED BY <1>1, <1>2, <1>3 DEF ER!Next, ER!Program

LEMMA FilesKeep ==
    ASSUME ProgInv, FI!Next
    PROVE  mem.prog \in FI!Progs /\ mem'.prog = mem.prog /\ "prog" \in DOMAIN mem'
  <1> USE DEF ProgInv, Runs, FI!Runs, FI!Progs, FI!machine
  <1>1. mem.prog \in FI!Progs
    BY DEF FI!Next, FI!Program
  <1>2. CASE FI!bad_exclusive_open \/ FI!copy
    BY <1>1, <1>2, ZenonT(60) DEF FI!bad_exclusive_open, FI!copy, FI!Check, FI!Create, FI!OpenFails, FI!OpenBoth,
       FI!Read, FI!Write, FI!Eof, FI!Fail
  <1>3. CASE FI!seek_io \/ FI!write_bytes \/ FI!mmcat
    BY <1>1, <1>3 DEF FI!seek_io, FI!ReadBytes, FI!WriteBytes, FI!Seek, FI!Fail, FI!write_bytes,
       FI!WriteBuffer, FI!mmcat, FI!Fstat, FI!WriteMapped
  <1>4. CASE FI!t_unlink \/ FI!memlock
    BY <1>1, <1>4 DEF FI!t_unlink, FI!OpenExclusive, FI!Unlink, FI!WriteBlock, FI!SeeWritten,
       FI!Close, FI!SeeFreed, FI!UnlinkFails, FI!memlock, FI!Mlock, FI!Mlockall, FI!Fail
  <1>5. CASE FI!Touch \/ FI!FreeBlocks \/ UNCHANGED FI!machine
    BY <1>1, <1>5 DEF FI!Touch, FI!FreeBlocks
  <1> QED BY <1>1, <1>2, <1>3, <1>4, <1>5 DEF FI!Next, FI!Program

-----------------------------------------------------------------------------
(* A signal sent before sigsuspend() stays pending until then. *)
LEMMA StepSignal ==
    ASSUME SyncType, Runs("fork_sig_sync"), SignalInv, FO!fork_sig_sync
    PROVE  SyncType' /\ mem' = mem /\ SignalInv'
  <1> USE ChildrenAssumption DEF AtType, SyncLabels, FO!Move, FO!Procs
  <1>0. AtType /\ OsType /\ MemType
    BY DEF SyncType
  <1>1. mem' = mem
    BY DEF FO!fork_sig_sync, FO!Block, FO!Handle, FO!SyncForkFails, FO!ForkOne, FO!Work, FO!KillParent,
       FO!Suspend, FO!TakeSignal, FO!Unblock, FO!Die
  <1>2. MemType'
    BY <1>0, <1>1 DEF MemType
  <1>3. CASE FO!Block
    <2>1. AtType' /\ OsType'
      BY <1>0, <1>3 DEF FO!Block, OsType, SignalInv
    <2>2. SignalInv'
      BY <1>0, <1>3, <2>1 DEF FO!Block, SignalInv, OsType
    <2> QED BY <1>1, <1>2, <2>1, <2>2 DEF SyncType
  <1>4. CASE FO!Handle
    <2>1. AtType' /\ OsType'
      BY <1>0, <1>4 DEF FO!Handle, OsType, SignalInv
    <2>2. SignalInv'
      BY <1>0, <1>4, <2>1 DEF FO!Handle, SignalInv, OsType
    <2> QED BY <1>1, <1>2, <2>1, <2>2 DEF SyncType
  <1>5. CASE FO!ForkOne
    <2>1. AtType' /\ OsType'
      BY <1>0, <1>5 DEF FO!ForkOne, OsType, SignalInv
    <2>2. SignalInv'
      BY <1>0, <1>5, <2>1 DEF FO!ForkOne, SignalInv, OsType
    <2> QED BY <1>1, <1>2, <2>1, <2>2 DEF SyncType
  <1>6. CASE FO!SyncForkFails
    <2>1. AtType' /\ OsType'
      BY <1>0, <1>6 DEF FO!SyncForkFails, OsType, SignalInv
    <2>2. SignalInv'
      BY <1>0, <1>6, <2>1 DEF FO!SyncForkFails, SignalInv, OsType
    <2> QED BY <1>1, <1>2, <2>1, <2>2 DEF SyncType
  <1>7. CASE FO!Suspend
    <2>1. AtType' /\ OsType'
      BY <1>0, <1>7 DEF FO!Suspend, OsType, SignalInv
    <2>2. SignalInv'
      BY <1>0, <1>7, <2>1 DEF FO!Suspend, SignalInv, OsType
    <2> QED BY <1>1, <1>2, <2>1, <2>2 DEF SyncType
  <1>8. CASE FO!TakeSignal
    <2>1. AtType' /\ OsType'
      BY <1>0, <1>8 DEF FO!TakeSignal, OsType, SignalInv
    <2>2. SignalInv'
      BY <1>0, <1>8, <2>1 DEF FO!TakeSignal, SignalInv, OsType
    <2> QED BY <1>1, <1>2, <2>1, <2>2 DEF SyncType
  <1>9. CASE FO!Unblock
    <2>1. AtType' /\ OsType'
      BY <1>0, <1>9 DEF FO!Unblock, OsType, SignalInv
    <2>2. SignalInv'
      BY <1>0, <1>9, <2>1 DEF FO!Unblock, SignalInv, OsType
    <2> QED BY <1>1, <1>2, <2>1, <2>2 DEF SyncType
  <1>10. CASE FO!Work(1)
    <2>1. AtType' /\ OsType'
      BY <1>0, <1>10 DEF FO!Work, OsType, SignalInv
    <2>2. SignalInv'
      BY <1>0, <1>10, <2>1 DEF FO!Work, SignalInv, OsType
    <2> QED BY <1>1, <1>2, <2>1, <2>2 DEF SyncType
  <1>11. CASE FO!KillParent
    <2>1. AtType' /\ OsType'
      BY <1>0, <1>11 DEF FO!KillParent, OsType, SignalInv
    <2>2. SignalInv'
      BY <1>0, <1>11, <2>1 DEF FO!KillParent, SignalInv, OsType
    <2> QED BY <1>1, <1>2, <2>1, <2>2 DEF SyncType
  <1>12. CASE FO!Die(1)
    <2>1. AtType' /\ OsType'
      BY <1>0, <1>12 DEF FO!Die, OsType, SignalInv
    <2>2. SignalInv'
      BY <1>0, <1>12, <2>1 DEF FO!Die, SignalInv, OsType
    <2> QED BY <1>1, <1>2, <2>1, <2>2 DEF SyncType
  <1> QED BY <1>3, <1>4, <1>5, <1>6, <1>7, <1>8, <1>9, <1>10, <1>11, <1>12 DEF FO!fork_sig_sync

(* The end of the pipe comes when no child can be at work any more. *)
LEMMA StepPipe ==
    ASSUME SyncType, Runs("pipe_sync"), PipeInv, FO!pipe_sync
    PROVE  SyncType' /\ mem'.prog = mem.prog /\ PipeInv'
  <1> USE ChildrenAssumption DEF AtType, SyncLabels, FO!Move, FO!Procs
  <1>0. AtType /\ OsType /\ MemType
    BY DEF SyncType
  <1>m. MemType
    BY DEF SyncType
  <1>1. ASSUME mem' = mem PROVE MemType' /\ mem'.prog = mem.prog
    BY <1>0, <1>1 DEF MemType
  <1>2. CASE FO!Pipe
    <2>1. AtType' /\ OsType' /\ MemType' /\ mem' = mem
      BY <1>0, <1>1, <1>2 DEF FO!Pipe, OsType
    <2>2. PipeInv'
      BY <1>0, <1>2 DEF FO!Pipe, PipeInv
    <2> QED BY <2>1, <2>2 DEF SyncType
  <1>3. CASE FO!SyncForkFails
    <2>1. AtType' /\ MemType' /\ mem' = mem /\ os' = os
      BY <1>0, <1>1, <1>3 DEF FO!SyncForkFails
    <2>2. PipeInv'
      BY <1>0, <1>3 DEF FO!SyncForkFails, PipeInv
    <2> QED BY <1>0, <2>1, <2>2 DEF SyncType, OsType
  <1>4. CASE FO!ForkWriter
    <2>0. mem.j \in FO!Procs
      BY <1>0, <1>4 DEF FO!ForkWriter, MemType
    <2>1. /\ MemType' /\ mem'.prog = mem.prog
          /\ AtType' /\ at' = [at EXCEPT ![mem.j] = "work"] /\ at[0] = "fork"
          /\ OsType' /\ os'.writers = os.writers \cup {mem.j} /\ mem'.j = mem.j + 1
      <3>0. mem' = [mem EXCEPT !.j = @ + 1]
        BY <1>4 DEF FO!ForkWriter
      <3>1. MemType' /\ mem'.prog = mem.prog /\ mem'.j = mem.j + 1
        <4>1. mem' = [prog |-> mem.prog, j |-> mem.j + 1, out |-> mem.out]
          BY ONLY <1>m, <3>0 DEF MemType
        <4>2. mem.prog \in FO!SyncProgs /\ mem.j + 1 \in Nat \ {0}
              /\ mem.out \in Seq((Nat \ {0}) \X {"parent", "child"})
          BY ONLY <1>m DEF MemType
        <4> QED BY ONLY <4>1, <4>2 DEF MemType
      <3>2. AtType' /\ at' = [at EXCEPT ![mem.j] = "work"] /\ at[0] = "fork"
        BY <1>0, <1>4, <2>0 DEF FO!ForkWriter
      <3>3. OsType' /\ os'.writers = os.writers \cup {mem.j}
        <4>1. os' = [os EXCEPT !.writers = @ \cup {mem.j}]
          BY <1>4 DEF FO!ForkWriter
        <4> QED BY <1>0, <2>0, <4>1 DEF OsType
      <3> QED BY <3>1, <3>2, <3>3
    <2>2. PipeInv'
      BY <1>0, <2>0, <2>1 DEF PipeInv
    <2> QED BY <2>1, <2>2 DEF SyncType
  <1>5. CASE FO!CloseOwn
    <2>1. AtType' /\ OsType' /\ MemType' /\ mem' = mem /\ os'.writers = os.writers \ {0}
      BY <1>0, <1>1, <1>5 DEF FO!CloseOwn, OsType
    <2>2. PipeInv'
      BY <1>0, <1>5, <2>1 DEF FO!CloseOwn, PipeInv
    <2> QED BY <2>1, <2>2 DEF SyncType
  <1>6. CASE FO!ReadEof
    <2>1. AtType' /\ MemType' /\ mem' = mem /\ os' = os
      BY <1>0, <1>1, <1>6 DEF FO!ReadEof
    <2>2. PipeInv'
      BY <1>0, <1>6 DEF FO!ReadEof, PipeInv, MemType
    <2> QED BY <1>0, <2>1, <2>2 DEF SyncType, OsType
  <1>7. ASSUME NEW p \in FO!Procs, FO!Work(p) PROVE SyncType' /\ mem'.prog = mem.prog /\ PipeInv'
    <2>1. AtType' /\ MemType' /\ mem' = mem /\ os' = os
      BY <1>0, <1>1, <1>7 DEF FO!Work
    <2>2. PipeInv'
      BY <1>0, <1>7 DEF FO!Work, PipeInv
    <2> QED BY <1>0, <2>1, <2>2 DEF SyncType, OsType
  <1>8. ASSUME NEW p \in FO!Procs, FO!CloseWriter(p) \/ FO!Die(p)
        PROVE  SyncType' /\ mem'.prog = mem.prog /\ PipeInv'
    <2>1. /\ AtType' /\ MemType' /\ mem' = mem
          /\ at[p] \in {"work", "signal"}
          /\ at' = [at EXCEPT ![p] = "exit"] \/ at' = [at EXCEPT ![p] = "died"]
          /\ OsType' /\ os'.writers = os.writers \ {p}
      BY <1>0, <1>1, <1>8 DEF FO!CloseWriter, FO!Die, OsType
    <2>2. PipeInv'
      BY <1>0, <2>1 DEF PipeInv
    <2> QED BY <2>1, <2>2 DEF SyncType
  <1> QED BY <1>2, <1>3, <1>4, <1>5, <1>6, <1>7, <1>8 DEF FO!pipe_sync

(* One more line of round n. *)
LEMMA NextLine ==
    ASSUME NEW out \in Seq((Nat \ {0}) \X {"parent", "child"}), NEW n \in Nat \ {0},
           NEW who \in {"parent", "child"},
           Len(out) \in {2 * (n - 1), (2 * (n - 1)) + 1},
           \A k \in 1 .. Len(out) : out[k][1] = (k + 1) \div 2
    PROVE  /\ Append(out, <<n, who>>) \in Seq((Nat \ {0}) \X {"parent", "child"})
           /\ Len(Append(out, <<n, who>>)) = Len(out) + 1
           /\ \A k \in 1 .. Len(Append(out, <<n, who>>)) :
                 Append(out, <<n, who>>)[k][1] = (k + 1) \div 2
  <1> DEFINE new == Append(out, <<n, who>>)
  <1>1. new \in Seq((Nat \ {0}) \X {"parent", "child"}) /\ Len(new) = Len(out) + 1
    OBVIOUS
  <1>2. ASSUME NEW k \in 1 .. Len(new) PROVE new[k][1] = (k + 1) \div 2
    <2>1. CASE k \in 1 .. Len(out)
      BY <2>1
    <2>2. CASE k = Len(out) + 1
      <3>1. new[k][1] = n
        BY <2>2
      <3>2. (k + 1) \div 2 = n
        BY <2>2
      <3> QED BY <3>1, <3>2
    <2> QED BY <2>1, <2>2, <1>1
  <1> QED BY <1>1, <1>2

LEMMA StepRound ==
    ASSUME SyncType, Runs("fork_whos_on_first"), RoundInv, FO!fork_whos_on_first
    PROVE  SyncType' /\ mem'.prog = mem.prog /\ RoundInv'
  <1> DEFINE Lines == Seq((Nat \ {0}) \X {"parent", "child"})
  <1> USE ChildrenAssumption DEF FO!Move, FO!Procs
  <1>0. AtType /\ OsType /\ MemType
    BY DEF SyncType
  <1>c. RoundPlace /\ RoundLen /\ RoundLines
    BY DEF RoundInv
  <1>a. mem.j \in Nat \ {0} /\ mem.out \in Lines /\ Len(mem.out) \in Nat
    BY <1>0 DEF MemType
  <1>b. os' = os /\ OsType'
    BY <1>0 DEF FO!fork_whos_on_first, FO!StartRound, FO!SyncForkFails, FO!AllRounds, FO!ForkNext,
       FO!ParentPrint, FO!ChildPrint, FO!SyncWait, OsType
  <1>1. CASE FO!StartRound \/ FO!SyncForkFails \/ FO!AllRounds
    <2>1. PICK l \in {"fork", "failed", "ready"} :
              /\ at[0] \in {"start", "fork"} /\ at' = [at EXCEPT ![0] = l] /\ mem' = mem
              /\ l = "ready" => mem.j > NumChildren
      BY <1>1 DEF FO!StartRound, FO!SyncForkFails, FO!AllRounds
    <2>2. AtType' /\ MemType'
      BY <1>0, <2>1 DEF AtType, MemType, SyncLabels
    <2>3. RoundInv'
      <3>1. RoundPlace'
        BY <1>0, <1>a, <1>c, <2>1 DEF RoundPlace, AtType
      <3>2. RoundLen'
        BY <1>0, <1>a, <1>c, <2>1 DEF RoundLen, AtType
      <3> QED BY <1>c, <2>1, <3>1, <3>2 DEF RoundInv, RoundLines
    <2> QED BY <1>b, <2>1, <2>2, <2>3 DEF SyncType
  <1>2. CASE FO!ForkNext
    <2>1. /\ mem.j \in FO!Procs /\ mem' = mem /\ at[0] = "fork"
          /\ at' = [at EXCEPT ![0] = "print", ![mem.j] = "print"]
      BY <1>2, <1>a DEF FO!ForkNext
    <2>2. AtType' /\ MemType'
      BY <1>0, <2>1 DEF AtType, MemType, SyncLabels
    <2>3. RoundInv'
      <3>1. RoundPlace'
        BY <1>0, <1>a, <1>c, <2>1 DEF RoundPlace, AtType
      <3>2. RoundLen'
        BY <1>0, <1>a, <1>c, <2>1 DEF RoundLen, AtType
      <3> QED BY <1>c, <2>1, <3>1, <3>2 DEF RoundInv, RoundLines
    <2> QED BY <1>b, <2>1, <2>2, <2>3 DEF SyncType
  <1>3. CASE FO!ParentPrint
    <2>1. at[0] = "print" /\ at' = [at EXCEPT ![0] = "wait"]
      BY <1>3 DEF FO!ParentPrint
    <2>2. Len(mem.out) \in {2 * (mem.j - 1), (2 * (mem.j - 1)) + 1}
      BY <1>a, <1>c, <2>1 DEF RoundLen
    <2>3. mem' = [mem EXCEPT !.out = Append(mem.out, <<mem.j, "parent">>)]
      BY <1>3 DEF FO!ParentPrint, FO!SyncSay
    <2>4. mem'.prog = mem.prog /\ mem'.j = mem.j /\ mem'.out = Append(mem.out, <<mem.j, "parent">>)
      BY <1>0, <2>3 DEF MemType
    <2>5. /\ mem'.out \in Lines
          /\ Len(mem'.out) = Len(mem.out) + 1
          /\ \A k \in 1 .. Len(mem'.out) : mem'.out[k][1] = (k + 1) \div 2
      <3>1. \A k \in 1 .. Len(mem.out) : mem.out[k][1] = (k + 1) \div 2
        BY <1>c DEF RoundLines
      <3>2. /\ Append(mem.out, <<mem.j, "parent">>) \in Lines
            /\ Len(Append(mem.out, <<mem.j, "parent">>)) = Len(mem.out) + 1
            /\ \A k \in 1 .. Len(Append(mem.out, <<mem.j, "parent">>)) :
                  Append(mem.out, <<mem.j, "parent">>)[k][1] = (k + 1) \div 2
        <4>1. mem.j \in Nat \ {0} /\ "parent" \in {"parent", "child"}
          BY <1>a, <2>2
        <4> HIDE DEF FO!Procs
        <4> QED BY ONLY <1>a, <2>2, <4>1, <3>1, NextLine
      <3> QED BY ONLY <3>2, <2>4, Zenon
    <2>6. AtType' /\ MemType'
      <3>1. AtType'
        BY <1>0, <2>1 DEF AtType, SyncLabels
      <3>2. MemType'
        BY <1>0, <2>3, <2>4, <2>5 DEF MemType
      <3> QED BY <3>1, <3>2
    <2>7. RoundInv'
      <3>1. RoundPlace'
        BY <1>0, <1>a, <1>c, <2>1, <2>4 DEF RoundPlace, AtType
      <3>2. RoundLen'
        <4>1. Len(mem'.out) = Len(mem.out) + 1
          BY <2>5
        <4>2. mem.j \in FO!Procs /\ at'[mem.j] = at[mem.j] /\ at'[0] = "wait" /\ at[0] = "print"
          BY <1>0, <1>c, <2>1 DEF RoundPlace, AtType
        <4>3. mem'.j = mem.j /\ mem.j \in Nat /\ Len(mem.out) \in Nat
          BY <1>a, <2>4
        <4>4. RoundLen
          BY <1>c
        <4> QED BY ONLY <4>1, <4>2, <4>3, <4>4 DEF RoundLen
      <3> QED BY <2>5, <3>1, <3>2 DEF RoundInv, RoundLines
    <2> QED BY <1>b, <2>4, <2>6, <2>7 DEF SyncType
  <1>4. ASSUME NEW p \in FO!Procs, FO!ChildPrint(p) PROVE SyncType' /\ mem'.prog = mem.prog /\ RoundInv'
    <2>1. at[p] = "print" /\ at' = [at EXCEPT ![p] = "zombie"]
      BY <1>4 DEF FO!ChildPrint
    <2>2. p = mem.j /\ at[0] \in {"print", "wait"}
      BY <1>a, <1>c, <2>1, SMTT(40) DEF RoundPlace
    <2>3. Len(mem.out) \in {2 * (p - 1), (2 * (p - 1)) + 1}
      BY <1>a, <1>c, <2>1, <2>2 DEF RoundLen
    <2>4. mem' = [mem EXCEPT !.out = Append(mem.out, <<p, "child">>)]
      BY <1>4 DEF FO!ChildPrint
    <2>5. mem'.prog = mem.prog /\ mem'.j = mem.j /\ mem'.out = Append(mem.out, <<p, "child">>)
      BY <1>0, <2>4 DEF MemType
    <2>6. /\ mem'.out \in Lines
          /\ Len(mem'.out) = Len(mem.out) + 1
          /\ \A k \in 1 .. Len(mem'.out) : mem'.out[k][1] = (k + 1) \div 2
      <3>1. \A k \in 1 .. Len(mem.out) : mem.out[k][1] = (k + 1) \div 2
        BY <1>c DEF RoundLines
      <3>2. /\ Append(mem.out, <<p, "child">>) \in Lines
            /\ Len(Append(mem.out, <<p, "child">>)) = Len(mem.out) + 1
            /\ \A k \in 1 .. Len(Append(mem.out, <<p, "child">>)) :
                  Append(mem.out, <<p, "child">>)[k][1] = (k + 1) \div 2
        <4>1. p \in Nat \ {0} /\ "child" \in {"parent", "child"}
          BY <1>a, <2>2, <2>3
        <4> HIDE DEF FO!Procs
        <4> QED BY ONLY <1>a, <2>2, <2>3, <4>1, <3>1, NextLine
      <3> QED BY ONLY <3>2, <2>5, Zenon
    <2>7. AtType' /\ MemType'
      <3>1. AtType'
        BY <1>0, <2>1 DEF AtType, SyncLabels
      <3>2. MemType'
        BY <1>0, <2>4, <2>5, <2>6 DEF MemType
      <3> QED BY <3>1, <3>2
    <2>8. RoundInv'
      <3>1. RoundPlace'
        BY <1>0, <1>a, <1>c, <2>1, <2>2, <2>5 DEF RoundPlace, AtType
      <3>2. RoundLen'
        <4>1. Len(mem'.out) = Len(mem.out) + 1
          BY <2>6
        <4>2. at'[mem.j] = "zombie" /\ at[mem.j] = "print" /\ at'[0] = at[0]
          BY <1>0, <2>1, <2>2 DEF AtType
        <4>3. mem'.j = mem.j /\ mem.j \in Nat /\ Len(mem.out) \in Nat
          BY <1>a, <2>5
        <4>4. RoundLen
          BY <1>c
        <4> QED BY ONLY <4>1, <4>2, <4>3, <4>4, <2>2 DEF RoundLen
      <3> QED BY <2>6, <3>1, <3>2 DEF RoundInv, RoundLines
    <2> QED BY <1>b, <2>5, <2>7, <2>8 DEF SyncType
  <1>5. CASE FO!SyncWait
    <2>1. PICK p \in FO!Procs : at[p] = "zombie" /\ at' = [at EXCEPT ![0] = "fork", ![p] = "reaped"]
      BY <1>5 DEF FO!SyncWait
    <2>2. p = mem.j /\ at[0] = "wait"
      BY <1>5, <1>a, <1>c, <2>1 DEF FO!SyncWait, RoundPlace
    <2>0. mem' = [mem EXCEPT !.j = @ + 1]
      BY <1>5 DEF FO!SyncWait
    <2>3. mem'.prog = mem.prog /\ mem'.j = mem.j + 1 /\ mem'.out = mem.out
      BY <1>0, <2>0 DEF MemType
    <2>4. AtType' /\ MemType'
      <3>1. AtType'
        BY <1>0, <2>1 DEF AtType, SyncLabels
      <3>2. MemType'
        BY <1>0, <2>0 DEF MemType
      <3> QED BY <3>1, <3>2
    <2>5. RoundInv'
      <3>1. RoundPlace'
        BY <1>0, <1>a, <1>c, <2>1, <2>2, <2>3 DEF RoundPlace, AtType
      <3>2. RoundLen'
        BY <1>0, <1>a, <1>c, <2>1, <2>2, <2>3 DEF RoundLen, AtType
      <3> QED BY <1>c, <2>3, <3>1, <3>2 DEF RoundInv, RoundLines
    <2> QED BY <1>b, <2>3, <2>4, <2>5 DEF SyncType
  <1> QED BY <1>1, <1>2, <1>3, <1>4, <1>5 DEF FO!fork_whos_on_first

(* Every step of every program keeps both invariants. *)
LEMMA StepSync == ProgInv /\ SyncInv /\ [MCNext]_<<machine, vars>> => ProgInv' /\ SyncInv'
  <1> SUFFICES ASSUME ProgInv, SyncInv, [MCNext]_<<machine, vars>> PROVE ProgInv' /\ SyncInv'
    OBVIOUS
  <1>1. ASSUME mem'.prog = mem.prog, "prog" \in DOMAIN mem', mem.prog \notin FO!SyncProgs
        PROVE  ProgInv' /\ SyncInv'
    BY <1>1 DEF ProgInv, SyncInv, Runs
  <1>2. CASE FO!StateNext
    BY <1>1, <1>2, StateKeeps DEF FO!StateProgs, FO!SyncProgs
  <1>3. CASE PI!Next
    BY <1>1, <1>3, PipesKeep DEF PI!PipeProgs, FO!SyncProgs
  <1>4. CASE ER!Next
    BY <1>1, <1>4, ErrorsKeep DEF ER!Progs, FO!SyncProgs
  <1>5. CASE FI!Next
    BY <1>1, <1>5, FilesKeep DEF FI!Progs, FO!SyncProgs
  <1>6. CASE UNCHANGED <<at, mem, os>>
    BY <1>6 DEF ProgInv, SyncInv, SyncType, MemType, AtType, OsType, SignalInv, PipeInv, RoundInv,
       RoundPlace,
       RoundLen, RoundLines, Runs
  <1>7. CASE FO!Step
    <2>1. CASE Runs("fork_sig_sync") /\ FO!fork_sig_sync
      <3>1. SyncType' /\ mem' = mem /\ SignalInv'
        BY <2>1, StepSignal DEF SyncInv, Runs, FO!SyncProgs
      <3> QED BY <2>1, <3>1 DEF ProgInv, SyncInv, Runs
    <2>2. CASE Runs("pipe_sync") /\ FO!pipe_sync
      <3>1. SyncType' /\ mem'.prog = mem.prog /\ PipeInv'
        BY <2>2, StepPipe DEF SyncInv, Runs, FO!SyncProgs
      <3>2. "prog" \in DOMAIN mem'
        BY <3>1 DEF SyncType, MemType
      <3> QED BY <2>2, <3>1, <3>2 DEF ProgInv, SyncInv, Runs
    <2>3. CASE Runs("fork_whos_on_first") /\ FO!fork_whos_on_first
      <3>1. SyncType' /\ mem'.prog = mem.prog /\ RoundInv'
        BY <2>3, StepRound DEF SyncInv, Runs, FO!SyncProgs
      <3>2. "prog" \in DOMAIN mem'
        BY <3>1 DEF SyncType, MemType
      <3> QED BY <2>3, <3>1, <3>2 DEF ProgInv, SyncInv, Runs
    <2> QED BY <1>7, <2>1, <2>2, <2>3 DEF FO!Step, FO!Runs, Runs
  <1> QED
    BY <1>2, <1>3, <1>4, <1>5, <1>6, <1>7
    DEF MCNext, machine, FO!Next, FO!SyncNext, FO!machine

(* fork_sig_sync.c:24, pipe_sync.c:47, fork_whos_on_first.c:39: whichever  *)
(* process is scheduled first, a parent goes on only after every child has *)
(* done its work (pipe_sync's also after one that was killed at it); the   *)
(* signal stays pending until sigsuspend() waits for it; and no line of a  *)
(* round comes before one of an earlier round.                             *)
THEOREM ParentSynced == MCSpec => []SyncedWithChildren
  <1>1. ProgInv /\ SyncInv => SyncedWithChildren
    <2> SUFFICES ASSUME SyncInv, mem.prog \in FO!SyncProgs PROVE FO!SyncedWithChildren
      BY DEF SyncedWithChildren, FO!SyncedWithChildren, FO!SyncProgs, FO!Runs
    <2>1. SyncType
      BY DEF SyncInv
    <2>2. CASE Runs("fork_sig_sync")
      BY <2>2 DEF SyncInv, SignalInv, FO!SyncedWithChildren, FO!Runs, Runs, FO!Worked
    <2>3. CASE Runs("pipe_sync")
      BY <2>3 DEF SyncInv, PipeInv, FO!SyncedWithChildren, FO!Runs, Runs, FO!Worked
    <2>4. CASE Runs("fork_whos_on_first")
      <3>1. ASSUME at[0] = "ready", NEW p \in FO!Procs PROVE at[p] = "reaped"
        BY <2>1, <2>4, <3>1, ChildrenAssumption
        DEF SyncInv, RoundInv, RoundPlace, SyncType, MemType, FO!Procs
      <3>2. \A k \in 1 .. Len(mem.out) : mem.out[k][1] = (k + 1) \div 2
        BY <2>4 DEF SyncInv, RoundInv, RoundLines
      <3> QED BY <2>4, <3>1, <3>2 DEF FO!SyncedWithChildren, FO!Runs, Runs, FO!Worked
    <2> QED BY <2>2, <2>3, <2>4 DEF FO!SyncProgs, Runs
  <1> QED BY InitSync, StepSync, <1>1, PTL DEF MCSpec

-----------------------------------------------------------------------------
(* What a child shares: where both processes can be, and what has been     *)
(* printed, program by program.                                            *)
StateType ==
    /\ DOMAIN at = {"parent", "child"}
    /\ DOMAIN mem = {"prog", "cond", "val", "out"} /\ mem.cond \in BOOLEAN
    /\ DOMAIN mem.val = {"parent", "child"}
    /\ DOMAIN os = {"file", "fds", "status", "changes"}
    /\ DOMAIN os.file = {"offset", "append"}

(* fork_stdio_buf: "Hello" once for each process that has called exit(). *)
Ciao(k) == CASE k = 0 -> <<"Ciao">> [] k = 1 -> <<"Ciao", "Hello">>
             [] k = 2 -> <<"Ciao", "Hello", "Hello">>

ExitsOf == (IF at.parent \in {"failed", "done"} THEN 1 ELSE 0)
           + (IF os.status = <<"exited">> THEN 1 ELSE 0)

StdioParts ==
    /\ StateType
    /\ at.parent \in {"start", "write", "fork", "exit", "done", "failed"}
    /\ at.child \in {"unborn", "exit", "zombie"}
    /\ at.parent \in {"start", "write", "fork", "failed"} => at.child = "unborn"
    /\ at.child \in {"unborn", "exit"} => os.status = <<>>
    /\ at.parent = "start" => mem.out = <<>> /\ mem.val.parent = "old"
    /\ mem.cond =>
          /\ mem.val.parent = "old" /\ mem.val.child # "buffered"
          /\ at.parent = "write" => mem.out = <<"Hello">>
          /\ at.parent \in {"fork", "exit", "done", "failed"} => mem.out = <<"Hello", "Ciao">>
    /\ ~mem.cond /\ at.parent # "start" =>
          /\ mem.val.parent = "buffered" /\ (at.child = "exit" => mem.val.child = "buffered")
          /\ at.parent = "write" => mem.out = <<>>
          /\ at.parent # "write" => mem.out = Ciao(ExitsOf)

(* Short sequences. *)
LEMMA AppendSecond == \A a, b : Append(<<a>>, b) = <<a, b>>
  <1> SUFFICES ASSUME NEW a, NEW b PROVE Append(<<a>>, b) = <<a, b>>
    OBVIOUS
  <1>1. <<a>> \in Seq({a, b}) /\ <<a, b>> \in Seq({a, b})
    OBVIOUS
  <1>2. /\ Append(<<a>>, b) \in Seq({a, b}) /\ Len(Append(<<a>>, b)) = 2
        /\ Append(<<a>>, b)[1] = a /\ Append(<<a>>, b)[2] = b
    BY <1>1
  <1>3. \A i \in 1 .. 2 : Append(<<a>>, b)[i] = <<a, b>>[i]
    BY <1>2
  <1> QED BY <1>1, <1>2, <1>3, SeqEqual

LEMMA AppendThird == \A a, b, c : Append(<<a, b>>, c) = <<a, b, c>>
  <1> SUFFICES ASSUME NEW a, NEW b, NEW c PROVE Append(<<a, b>>, c) = <<a, b, c>>
    OBVIOUS
  <1>1. <<a, b>> \in Seq({a, b, c}) /\ <<a, b, c>> \in Seq({a, b, c})
    OBVIOUS
  <1>2. /\ Append(<<a, b>>, c) \in Seq({a, b, c}) /\ Len(Append(<<a, b>>, c)) = 3
        /\ Append(<<a, b>>, c)[1] = a /\ Append(<<a, b>>, c)[2] = b /\ Append(<<a, b>>, c)[3] = c
    BY <1>1
  <1>3. \A i \in 1 .. 3 : Append(<<a, b>>, c)[i] = <<a, b, c>>[i]
    BY <1>2
  <1> QED BY <1>1, <1>2, <1>3, SeqEqual

LEMMA Hellos ==
    /\ Append(<<>>, "Ciao") = Ciao(0) /\ Append(<<"Hello">>, "Ciao") = <<"Hello", "Ciao">>
    /\ Append(Ciao(0), "Hello") = Ciao(1) /\ Append(Ciao(1), "Hello") = Ciao(2)
  <1>1. /\ Ciao(0) = <<"Ciao">> /\ Ciao(1) = <<"Ciao", "Hello">>
        /\ Ciao(2) = <<"Ciao", "Hello", "Hello">>
    BY DEF Ciao
  <1>2. Append(<<>>, "Ciao") = <<"Ciao">>
    OBVIOUS
  <1>3. /\ Append(<<"Hello">>, "Ciao") = <<"Hello", "Ciao">>
        /\ Append(<<"Ciao">>, "Hello") = <<"Ciao", "Hello">>
    BY AppendSecond, Zenon
  <1>4. Append(<<"Ciao", "Hello">>, "Hello") = <<"Ciao", "Hello", "Hello">>
    BY AppendThird, Zenon
  <1> QED BY <1>1, <1>2, <1>3, <1>4

LEMMA StepStdio ==
    ASSUME StdioParts, FO!fork_stdio_buf \/ FO!Killed
    PROVE  StdioParts'
  <1> USE DEF StdioParts, StateType, FO!Move, FO!StateSay, FO!Flush
  <1>1. CASE FO!Killed
    BY <1>1 DEF FO!Killed, FO!Alive, FO!ChildEnds, ExitsOf
  <1>2. CASE /\ FO!Move("parent", "start", "write") /\ UNCHANGED os
             /\ mem' = IF mem.cond THEN [mem EXCEPT !.out = <<"Hello">>]
                       ELSE [mem EXCEPT !.val.parent = "buffered"]
    BY <1>2
  <1>3. CASE FO!Move("parent", "write", "fork") /\ FO!StateSay("Ciao") /\ UNCHANGED os
    <2>1. /\ at' = [at EXCEPT !.parent = "fork"] /\ mem' = [mem EXCEPT !.out = Append(@, "Ciao")]
          /\ os' = os /\ at.parent = "write"
      BY <1>3
    <2>2. mem'.out = IF mem.cond THEN <<"Hello", "Ciao">> ELSE Ciao(0)
      BY <2>1, Hellos
    <2>3. ExitsOf' = 0
      BY <2>1 DEF ExitsOf
    <2> QED BY <2>1, <2>2, <2>3
  <1>4. CASE FO!Fork("fork", "exit", "exit")
    BY <1>4 DEF FO!Fork, ExitsOf, Ciao
  <1>5. CASE FO!Move("parent", "fork", "failed") /\ FO!Flush("parent") /\ UNCHANGED os
    <2>1. at' = [at EXCEPT !.parent = "failed"] /\ os' = os /\ at.parent = "fork"
      BY <1>5
    <2>2. CASE mem.cond
      BY <1>5, <2>1, <2>2
    <2>3. CASE ~mem.cond
      <3>1. mem' = [mem EXCEPT !.out = Append(@, "Hello")]
        BY <1>5, <2>1, <2>3
      <3>2. ExitsOf = 0 /\ ExitsOf' = 1
        BY <2>1 DEF ExitsOf
      <3>3. mem'.out = Ciao(1)
        BY <2>1, <2>3, <3>1, <3>2, Hellos
      <3> QED BY <2>1, <2>3, <3>1, <3>2, <3>3
    <2> QED BY <2>2, <2>3
  <1>6. CASE FO!Move("parent", "exit", "done") /\ FO!Flush("parent") /\ UNCHANGED os
    <2>1. at' = [at EXCEPT !.parent = "done"] /\ os' = os /\ at.parent = "exit"
      BY <1>6
    <2>2. CASE mem.cond
      BY <1>6, <2>1, <2>2
    <2>3. CASE ~mem.cond
      <3>1. mem' = [mem EXCEPT !.out = Append(@, "Hello")]
        BY <1>6, <2>1, <2>3
      <3>2. ExitsOf \in {0, 1} /\ ExitsOf' = ExitsOf + 1
        BY <2>1 DEF ExitsOf
      <3>3. mem'.out = Ciao(ExitsOf')
        BY <2>1, <2>3, <3>1, <3>2, Hellos
      <3> QED BY <2>1, <2>3, <3>1, <3>3
    <2> QED BY <2>2, <2>3
  <1>7. CASE FO!ChildEnds("exit", "exited") /\ FO!Flush("child")
    <2>1. /\ at' = [at EXCEPT !.child = "zombie"] /\ at.child = "exit"
          /\ os' = [os EXCEPT !.fds = @ \ {"child"}, !.status = <<"exited">>]
      BY <1>7 DEF FO!ChildEnds
    <2>2. CASE mem.cond
      BY <1>7, <2>1, <2>2
    <2>3. CASE ~mem.cond
      <3>1. mem' = [mem EXCEPT !.out = Append(@, "Hello")]
        BY <1>7, <2>1, <2>3
      <3>2. ExitsOf \in {0, 1} /\ ExitsOf' = ExitsOf + 1
        BY <2>1 DEF ExitsOf
      <3>3. mem'.out = Ciao(ExitsOf')
        BY <2>1, <2>3, <3>1, <3>2, Hellos
      <3> QED BY <2>1, <2>3, <3>1, <3>3
    <2> QED BY <2>2, <2>3
  <1> QED BY <1>1, <1>2, <1>3, <1>4, <1>5, <1>6, <1>7 DEF FO!fork_stdio_buf

(* t_fork: the parent's variables stay as they were. *)
TForkParts ==
    /\ StateType
    /\ mem.val.parent = "old"
    /\ mem.out \in Seq({"parent", "child"} \X {"old", "new"})
    /\ at.child \in {"change", "print"} => mem.val.child \in {"old", "new"}
    /\ \A i \in 1 .. Len(mem.out) : mem.out[i] # <<"parent", "new">>

LEMMA StepTFork ==
    ASSUME TForkParts, FO!t_fork \/ FO!Killed
    PROVE  TForkParts'
  <1> USE DEF TForkParts, StateType, FO!Move, FO!StateSay
  <1>1. CASE FO!Killed
    BY <1>1 DEF FO!Killed, FO!Alive, FO!ChildEnds
  <1>2. CASE FO!Fork("start", "print", "change") \/ FO!StateForkFails("start")
    <2>1. CASE FO!Fork("start", "print", "change")
      BY <2>1 DEF FO!Fork
    <2>2. CASE FO!StateForkFails("start")
      BY <2>2 DEF FO!StateForkFails, FO!Quiet
    <2> QED BY <1>2, <2>1, <2>2
  <1>3. CASE /\ FO!Move("child", "change", "print") /\ UNCHANGED os
             /\ mem' = [mem EXCEPT !.val.child = "new"]
    BY <1>3
  <1>4. CASE FO!ChildEnds("print", "exited") /\ FO!StateSay(<<"child", mem.val.child>>)
    BY <1>4 DEF FO!ChildEnds
  <1>5. CASE /\ FO!Move("parent", "print", "done") /\ UNCHANGED os
             /\ FO!StateSay(<<"parent", mem.val.parent>>)
    BY <1>5, SMTT(40)
  <1> QED BY <1>1, <1>2, <1>3, <1>4, <1>5 DEF FO!t_fork

(* t_vfork and anon_mmap: a child that has ended by itself has changed     *)
(* what the parent sees, and the parent looks after its end.               *)
SharedParts(before, after) ==
    /\ StateType
    /\ at.parent \in {"start", before, "print", "done", "failed"}
    /\ at.child \in {"unborn", "change", "increment", "exit", "zombie", "reaped"}
    /\ at.parent \in {"start", "failed"} => at.child = "unborn"
    /\ at.child \in {"unborn", "change", "increment", "exit"} => os.status = <<>>
    /\ at.parent \in {"print", "done"} => at.child = after
    /\ at.child = "exit" \/ os.status = <<"exited">> => mem.val.parent = "new"
    /\ mem.out = IF at.parent = "done" THEN << <<"parent", mem.val.parent>> >> ELSE <<>>

LEMMA StepVfork ==
    ASSUME SharedParts("suspended", "zombie"), FO!t_vfork \/ FO!Killed
    PROVE  SharedParts("suspended", "zombie")'
  <1> USE DEF SharedParts, StateType, FO!Move, FO!StateSay
  <1>1. CASE FO!Killed
    BY <1>1 DEF FO!Killed, FO!Alive, FO!ChildEnds
  <1>2. CASE FO!Vfork \/ FO!StateForkFails("start")
    BY <1>2 DEF FO!Vfork, FO!Fork, FO!StateForkFails, FO!Quiet
  <1>3. CASE /\ FO!Move("child", "change", "exit") /\ UNCHANGED os
             /\ mem' = [mem EXCEPT !.val = [parent |-> "new", child |-> "new"]]
    BY <1>3
  <1>4. CASE FO!ChildEnds("exit", "exited") /\ UNCHANGED mem
    BY <1>4 DEF FO!ChildEnds
  <1>5. CASE at.child = "zombie" /\ FO!Move("parent", "suspended", "print") /\ FO!Quiet
    BY <1>5 DEF FO!Quiet
  <1>6. CASE /\ FO!Move("parent", "print", "done") /\ UNCHANGED os
             /\ FO!StateSay(<<"parent", mem.val.parent>>)
    BY <1>6
  <1> QED BY <1>1, <1>2, <1>3, <1>4, <1>5, <1>6 DEF FO!t_vfork

LEMMA StepMmap ==
    ASSUME SharedParts("wait", "reaped"), FO!anon_mmap \/ FO!Killed
    PROVE  SharedParts("wait", "reaped")'
  <1> USE DEF SharedParts, StateType, FO!Move, FO!StateSay
  <1>1. CASE FO!Killed
    BY <1>1 DEF FO!Killed, FO!Alive, FO!ChildEnds
  <1>2. CASE FO!Fork("start", "wait", "increment") \/ FO!StateForkFails("start")
    BY <1>2 DEF FO!Fork, FO!StateForkFails, FO!Quiet
  <1>3. CASE /\ FO!Move("child", "increment", "exit") /\ UNCHANGED os
             /\ mem' = [mem EXCEPT !.val = [parent |-> "new", child |-> "new"]]
    BY <1>3
  <1>4. CASE FO!ChildEnds("exit", "exited") /\ UNCHANGED mem
    BY <1>4 DEF FO!ChildEnds
  <1>5. CASE FO!StateWait("wait", "print")
    BY <1>5 DEF FO!StateWait
  <1>6. CASE /\ FO!Move("parent", "print", "done") /\ UNCHANGED os
             /\ FO!StateSay(<<"parent", mem.val.parent>>)
    BY <1>6
  <1> QED BY <1>1, <1>2, <1>3, <1>4, <1>5, <1>6 DEF FO!anon_mmap

(* fork_file_sharing: likewise for the file. *)
SharingParts ==
    /\ StateType
    /\ at.parent \in {"start", "wait", "print", "done", "failed"}
    /\ at.child \in {"unborn", "lseek", "append", "exit", "zombie", "reaped"}
    /\ at.parent \in {"start", "failed"} => at.child = "unborn"
    /\ at.child \notin {"zombie", "reaped"} => os.status = <<>>
    /\ at.parent \in {"print", "done"} => at.child = "reaped"
    /\ at.child \in {"append", "exit"} => os.file.offset = 1000
    /\ at.child = "exit" => os.file.append = TRUE
    /\ os.status = <<"exited">> => os.file.offset = 1000 /\ os.file.append = TRUE
    /\ mem.out = IF at.parent = "done" THEN << <<os.file.offset, os.file.append>> >> ELSE <<>>

LEMMA StepSharing ==
    ASSUME SharingParts, FO!fork_file_sharing \/ FO!Killed
    PROVE  SharingParts'
  <1> USE DEF SharingParts, StateType, FO!Move, FO!StateSay
  <1>1. CASE FO!Killed
    BY <1>1 DEF FO!Killed, FO!Alive, FO!ChildEnds
  <1>2. CASE FO!Fork("start", "wait", "lseek") \/ FO!StateForkFails("start")
    BY <1>2 DEF FO!Fork, FO!StateForkFails, FO!Quiet
  <1>3. CASE /\ FO!Move("child", "lseek", "append") /\ UNCHANGED mem
             /\ os' = [os EXCEPT !.file.offset = 1000]
    BY <1>3
  <1>4. CASE /\ FO!Move("child", "append", "exit") /\ UNCHANGED mem
             /\ os' = [os EXCEPT !.file.append = TRUE]
    BY <1>4
  <1>5. CASE FO!ChildEnds("exit", "exited") /\ UNCHANGED mem
    BY <1>5 DEF FO!ChildEnds
  <1>6. CASE FO!StateWait("wait", "print")
    BY <1>6 DEF FO!StateWait
  <1>7. CASE /\ FO!Move("parent", "print", "done") /\ UNCHANGED os
             /\ FO!StateSay(<<os.file.offset, os.file.append>>)
    BY <1>7
  <1> HIDE DEF SharingParts, StateType, FO!Move, FO!StateSay
  <1> QED BY <1>1, <1>2, <1>3, <1>4, <1>5, <1>6, <1>7 DEF FO!fork_file_sharing

(* t_clone: who has closed the parent's descriptor. *)
CloneParts ==
    /\ StateType
    /\ at.parent \in {"start", "wait", "write", "done", "failed"}
    /\ at.child \in {"unborn", "close", "exit", "zombie", "reaped"}
    /\ at.parent \in {"start", "failed"} => at.child = "unborn"
    /\ at.child \notin {"zombie", "reaped"} => os.status = <<>>
    /\ at.parent \in {"write", "done"} => at.child = "reaped"
    /\ ~mem.cond => "parent" \in os.fds
    /\ mem.cond /\ (at.child = "exit" \/ os.status = <<"exited">>) => "parent" \notin os.fds
    /\ mem.out = IF at.parent # "done" THEN <<>>
                 ELSE <<IF "parent" \in os.fds THEN "succeeded" ELSE "closed">>

LEMMA StepClone ==
    ASSUME CloneParts, FO!t_clone \/ FO!Killed
    PROVE  CloneParts'
  <1> USE DEF CloneParts, StateType, FO!Move, FO!StateSay
  <1>1. CASE FO!Killed
    BY <1>1 DEF FO!Killed, FO!Alive, FO!ChildEnds
  <1>2. CASE FO!Fork("start", "wait", "close") \/ FO!StateForkFails("start")
    BY <1>2 DEF FO!Fork, FO!StateForkFails, FO!Quiet
  <1>3. CASE /\ FO!Move("child", "close", "exit") /\ UNCHANGED mem
             /\ os' = [os EXCEPT !.fds = IF mem.cond THEN {} ELSE @ \ {"child"}]
    BY <1>3
  <1>4. CASE FO!ChildEnds("exit", "exited") /\ UNCHANGED mem
    BY <1>4 DEF FO!ChildEnds
  <1>5. CASE FO!StateWait("wait", "write")
    BY <1>5 DEF FO!StateWait
  <1>6. CASE /\ FO!Move("parent", "write", "done") /\ UNCHANGED os
             /\ FO!StateSay(IF "parent" \in os.fds THEN "succeeded" ELSE "closed")
    BY <1>6
  <1> QED BY <1>1, <1>2, <1>3, <1>4, <1>5, <1>6 DEF FO!t_clone

(* make_zombie: after the SIGKILL the child is a zombie. *)
ZombieParts ==
    /\ StateType
    /\ mem.out \in Seq({"exiting", "zombie"})
    /\ at.parent \in {"look", "done"} => at.child = "zombie"
    /\ at.parent = "done" => Len(mem.out) > 0 /\ mem.out[Len(mem.out)] = "zombie"

LEMMA StepZombie ==
    ASSUME ZombieParts, FO!make_zombie \/ FO!Killed
    PROVE  ZombieParts'
  <1> USE DEF ZombieParts, StateType, FO!Move, FO!StateSay
  <1>1. CASE FO!Killed
    BY <1>1 DEF FO!Killed, FO!Alive, FO!ChildEnds
  <1>2. CASE FO!Fork("start", "kill", "print") \/ FO!StateForkFails("start")
    BY <1>2 DEF FO!Fork, FO!StateForkFails, FO!Quiet
  <1>3. CASE FO!ChildEnds("print", "exited") /\ FO!StateSay("exiting")
    BY <1>3 DEF FO!ChildEnds
  <1>4. CASE /\ at.parent = "kill"
             /\ at' = [parent |-> "look", child |-> "zombie"]
             /\ os' = [os EXCEPT !.fds = @ \ {"child"},
                                 !.status = IF at.child = "zombie" THEN @ ELSE <<"killed">>]
             /\ UNCHANGED mem
    BY <1>4
  <1>5. CASE FO!Move("parent", "look", "done") /\ FO!StateSay(at.child) /\ UNCHANGED os
    BY <1>5
  <1> QED BY <1>1, <1>2, <1>3, <1>4, <1>5 DEF FO!make_zombie

(* child_status: reports of stops and continuations, then one of the end. *)
Changes == {"stopped", "continued"}
Ends == {"exited", "killed"}

StatusParts ==
    /\ StateType
    /\ at.parent \in {"start", "wait", "done", "failed"}
    /\ mem.out \in Seq(Changes \cup Ends)
    /\ os.status = <<>> \/ \E s \in Changes \cup Ends : os.status = <<s>>
    /\ at.parent = "start" => at.child = "unborn"
    /\ at.parent = "done" => /\ at.child = "reaped" /\ Len(mem.out) > 0
                             /\ mem.out[Len(mem.out)] \in Ends
    /\ at.parent # "done" => \A i \in 1 .. Len(mem.out) : mem.out[i] \in Changes

LEMMA Decoded ==
    /\ \A s \in Changes \cup Ends : FO!printWaitStatus(FO!Encode(s)) = s
    /\ \A s \in Changes \cup Ends :
          FO!WIFEXITED(FO!Encode(s)) \/ FO!WIFSIGNALED(FO!Encode(s)) <=> s \in Ends
  <1>1. /\ FO!Encode("exited") = 512 /\ FO!Encode("killed") = 9
        /\ FO!Encode("stopped") = 4991 /\ FO!Encode("continued") = 65535
    BY DEF FO!Encode
  <1>2. /\ 512 % 128 = 0 /\ 9 % 128 = 9 /\ 4991 % 128 = 127 /\ 4991 % 256 = 127
        /\ 65535 % 128 = 127 /\ 65535 % 256 = 255
    OBVIOUS
  <1> QED
    BY <1>1, <1>2
    DEF Changes, Ends, FO!printWaitStatus, FO!WIFEXITED, FO!WIFSIGNALED, FO!WIFSTOPPED, FO!WIFCONTINUED

LEMMA StepStatus ==
    ASSUME StatusParts, FO!child_status \/ FO!Killed \/ FO!StopOrCont
    PROVE  StatusParts'
  <1> USE DEF StatusParts, StateType, FO!Move, FO!StateSay
  <1>1. CASE FO!Killed
    BY <1>1 DEF FO!Killed, FO!Alive, FO!ChildEnds, Ends
  <1>2. CASE FO!StopOrCont
    <2>1. CASE /\ FO!Move("child", "pause", "stopped") /\ UNCHANGED mem
               /\ os' = [os EXCEPT !.status = <<"stopped">>, !.changes = @ + 1]
      BY <2>1 DEF Changes
    <2>2. CASE /\ FO!Move("child", "stopped", "pause") /\ UNCHANGED mem
               /\ os' = [os EXCEPT !.status = <<"continued">>, !.changes = @ + 1]
      BY <2>2 DEF Changes
    <2> QED BY <1>2, <2>1, <2>2 DEF FO!StopOrCont
  <1>3. CASE \/ FO!Fork("start", "wait", IF mem.cond THEN "exit" ELSE "pause")
             \/ FO!StateForkFails("start")
    BY <1>3 DEF FO!Fork, FO!StateForkFails, FO!Quiet
  <1>4. CASE FO!ChildEnds("exit", "exited") /\ UNCHANGED mem
    BY <1>4 DEF FO!ChildEnds, Ends
  <1>5. CASE FO!WaitStatus
    <2>1. PICK s \in Changes \cup Ends : os.status = <<s>>
      BY <1>5 DEF FO!WaitStatus
    <2>2. /\ mem' = [mem EXCEPT !.out = Append(@, s)] /\ os' = [os EXCEPT !.status = <<>>]
          /\ at' = IF s \in Ends THEN [parent |-> "done", child |-> "reaped"] ELSE at
          /\ at.parent = "wait"
      <3>1. Head(os.status) = s
        BY <2>1
      <3>2. /\ FO!StateSay(FO!printWaitStatus(FO!Encode(s))) /\ os' = [os EXCEPT !.status = <<>>]
            /\ at' = IF FO!WIFEXITED(FO!Encode(s)) \/ FO!WIFSIGNALED(FO!Encode(s))
                     THEN [parent |-> "done", child |-> "reaped"] ELSE at
            /\ at.parent = "wait"
        BY <1>5, <3>1 DEF FO!WaitStatus
      <3> QED BY <3>2, Decoded
    <2> QED BY <2>2 DEF Changes, Ends
  <1> QED BY <1>1, <1>2, <1>3, <1>4, <1>5 DEF FO!child_status

-----------------------------------------------------------------------------
LEMMA SyncKeeps ==
    ASSUME ProgInv, FO!Step
    PROVE  mem.prog \in FO!SyncProgs /\ mem'.prog = mem.prog /\ "prog" \in DOMAIN mem'
  <1> USE DEF ProgInv, Runs, FO!Runs, FO!SyncProgs, FO!Move, FO!SyncSay
  <1>1. mem.prog \in FO!SyncProgs
    BY DEF FO!Step
  <1>2. CASE FO!fork_sig_sync
    BY <1>1, <1>2 DEF FO!fork_sig_sync, FO!Block, FO!Handle, FO!TakeSignal, FO!Unblock,
       FO!ForkOne, FO!SyncForkFails, FO!Work, FO!KillParent, FO!Suspend, FO!Die
  <1>3. CASE FO!pipe_sync
    BY <1>1, <1>3 DEF FO!pipe_sync, FO!Pipe, FO!ForkWriter, FO!SyncForkFails, FO!CloseOwn,
       FO!ReadEof, FO!Work, FO!CloseWriter, FO!Die
  <1>4. CASE FO!fork_whos_on_first
    BY <1>1, <1>4 DEF FO!fork_whos_on_first, FO!StartRound, FO!ForkNext, FO!SyncForkFails,
       FO!ParentPrint, FO!ChildPrint, FO!SyncWait, FO!AllRounds
  <1> QED BY <1>1, <1>2, <1>3, <1>4 DEF FO!Step

StateInv ==
    /\ Runs("fork_stdio_buf") => StdioParts
    /\ Runs("t_fork") => TForkParts
    /\ Runs("t_vfork") => SharedParts("suspended", "zombie")
    /\ Runs("anon_mmap") => SharedParts("wait", "reaped")
    /\ Runs("fork_file_sharing") => SharingParts
    /\ Runs("t_clone") => CloneParts
    /\ Runs("make_zombie") => ZombieParts
    /\ Runs("child_status") => StatusParts

LEMMA InitState == MCInit => StateInv
  <1> SUFFICES ASSUME MCInit PROVE StateInv
    OBVIOUS
  <1>1. CASE FO!StateInit
    <2>1. /\ at = [parent |-> "start", child |-> "unborn"]
          /\ os = [file |-> [offset |-> 0, append |-> FALSE], fds |-> {"parent"},
                   status |-> <<>>, changes |-> 0]
          /\ DOMAIN mem = {"prog", "cond", "val", "out"} /\ mem.cond \in BOOLEAN
          /\ mem.val = [parent |-> "old", child |-> "none"] /\ mem.out = <<>>
      BY <1>1 DEF FO!StateInit
    <2>2. StateType
      BY <2>1 DEF StateType
    <2>3. StdioParts /\ TForkParts /\ SharingParts /\ CloneParts /\ ZombieParts
      BY <2>1, <2>2 DEF StdioParts, TForkParts, SharingParts, CloneParts, ZombieParts
    <2>4. SharedParts("suspended", "zombie") /\ SharedParts("wait", "reaped") /\ StatusParts
      BY <2>1, <2>2 DEF SharedParts, StatusParts, Changes, Ends
    <2> QED BY <2>3, <2>4 DEF StateInv
  <1>2. CASE NotRunning \/ FO!SyncInit \/ PI!Init \/ ER!Init \/ FI!Init
    <2>1. mem.prog \notin FO!StateProgs
      BY <1>2 DEF NotRunning, FO!SyncInit, PI!Init, ER!Init, FI!Init, FO!StateProgs, FO!SyncProgs,
         PI!PipeProgs, ER!Progs, FI!Progs
    <2> QED BY <2>1 DEF StateInv, Runs, FO!StateProgs
  <1> QED BY <1>1, <1>2 DEF MCInit, FO!Init

LEMMA SameState == StateInv /\ UNCHANGED <<at, mem, os>> => StateInv'
  BY DEF StateInv, Runs, StateType, StdioParts, ExitsOf, TForkParts, SharedParts, SharingParts,
     CloneParts, ZombieParts, StatusParts

LEMMA StepState == ProgInv /\ StateInv /\ [MCNext]_<<machine, vars>> => StateInv'
  <1> SUFFICES ASSUME ProgInv, StateInv, [MCNext]_<<machine, vars>> PROVE StateInv'
    OBVIOUS
  <1>1. CASE UNCHANGED <<at, mem, os>>
    BY <1>1, SameState
  <1>2. CASE FO!StateNext
    <2>1. mem.prog \in FO!StateProgs /\ mem'.prog = mem.prog
      BY <1>2, StateKeeps
    <2>2. CASE UNCHANGED FO!machine
      BY <2>2, SameState DEF FO!machine
    <2>3. CASE ~UNCHANGED FO!machine
      <3>1. /\ Runs("fork_stdio_buf") => StdioParts'
            /\ Runs("t_fork") => TForkParts'
            /\ Runs("t_vfork") => SharedParts("suspended", "zombie")'
            /\ Runs("anon_mmap") => SharedParts("wait", "reaped")'
        BY <1>2, <2>3, StepStdio, StepTFork, StepVfork, StepMmap
        DEF StateInv, FO!StateNext, FO!Program, Runs, FO!Runs
      <3>2. /\ Runs("fork_file_sharing") => SharingParts'
            /\ Runs("t_clone") => CloneParts'
            /\ Runs("make_zombie") => ZombieParts'
            /\ Runs("child_status") => StatusParts'
        BY <1>2, <2>3, StepSharing, StepClone, StepZombie, StepStatus
        DEF StateInv, FO!StateNext, FO!Program, Runs, FO!Runs
      <3> QED BY <2>1, <3>1, <3>2 DEF StateInv, Runs
    <2> QED BY <2>2, <2>3
  <1>3. CASE FO!Step \/ PI!Next \/ ER!Next \/ FI!Next
    <2>1. mem'.prog = mem.prog /\ mem.prog \notin FO!StateProgs
      <3> QED
        BY <1>3, SyncKeeps, PipesKeep, ErrorsKeep, FilesKeep DEF FO!SyncProgs, PI!PipeProgs,
           ER!Progs, FI!Progs, FO!StateProgs
    <2> QED BY <2>1 DEF StateInv, Runs, FO!StateProgs
  <1> QED
    BY <1>1, <1>2, <1>3
    DEF MCNext, machine, FO!Next, FO!SyncNext, FO!machine

(* What the programs of Forking print is what fork() copies, what vfork(), *)
(* CLONE_FILES and a shared mapping share, and what wait() reports,        *)
(* whichever process runs first and however the child ends.                *)
THEOREM ForkSharesAlways == MCSpec => []FO!ForkShares
  <1>1. StateInv => FO!ForkShares
    <2> SUFFICES ASSUME StateInv PROVE FO!ForkShares
      OBVIOUS
    <2>1. Runs("fork_stdio_buf") /\ FO!StateEnded =>
              IF mem.cond THEN mem.out = <<"Hello", "Ciao">>
              ELSE /\ mem.out[1] = "Ciao"
                   /\ FO!Count("Hello") = IF os.status = <<"exited">> THEN 2 ELSE 1
      <3> SUFFICES ASSUME StdioParts, FO!StateEnded, ~mem.cond
                   PROVE  /\ mem.out[1] = "Ciao"
                          /\ FO!Count("Hello") = IF os.status = <<"exited">> THEN 2 ELSE 1
        BY DEF StateInv, StdioParts, FO!StateEnded
      <3>1. mem.out = Ciao(ExitsOf) /\ ExitsOf = IF os.status = <<"exited">> THEN 2 ELSE 1
        BY DEF StdioParts, FO!StateEnded, ExitsOf
      <3>2. CASE os.status = <<"exited">>
        <4>1. mem.out = <<"Ciao", "Hello", "Hello">>
          BY <3>1, <3>2 DEF Ciao
        <4>2. Len(<<"Ciao", "Hello", "Hello">>) = 3 /\ mem.out[1] = "Ciao"
          BY <4>1
        <4>3. {i \in 1 .. Len(mem.out) : mem.out[i] = "Hello"} = {2} \cup {3}
          BY <4>1
        <4>4. IsFiniteSet({2}) /\ Cardinality({2}) = 1
          BY FS_Singleton
        <4>5. Cardinality({2} \cup {3}) = 2
          BY <4>4, FS_AddElement
        <4>6. FO!Count("Hello") = 2
          BY ONLY <4>3, <4>5, Zenon DEF FO!Count, FO!Cardinality, Cardinality
        <4> QED BY <4>2, <4>6, <3>2
      <3>3. CASE os.status # <<"exited">>
        <4>1. mem.out = <<"Ciao", "Hello">>
          BY <3>1, <3>3 DEF Ciao
        <4>2. Len(<<"Ciao", "Hello">>) = 2 /\ mem.out[1] = "Ciao"
          BY <4>1
        <4>3. {i \in 1 .. Len(mem.out) : mem.out[i] = "Hello"} = {2}
          BY <4>1
        <4>4. Cardinality({2}) = 1
          BY FS_Singleton
        <4>5. FO!Count("Hello") = 1
          BY ONLY <4>3, <4>4, Zenon DEF FO!Count, FO!Cardinality, Cardinality
        <4> QED BY <4>2, <4>5, <3>3
      <3> QED BY <3>2, <3>3
    <2>2. Runs("t_fork") => ~FO!Contains(mem.out, <<"parent", "new">>)
      BY DEF StateInv, TForkParts, FO!Contains
    <2>3. mem.prog \in {"t_vfork", "anon_mmap"} /\ os.status = <<"exited">> =>
              ~FO!Contains(mem.out, <<"parent", "old">>)
      BY DEF StateInv, SharedParts, FO!Contains, Runs
    <2> DEFINE Offset == 1000
    <2>o. Offset = 1000
      OBVIOUS
    <2> HIDE DEF Offset
    <2>4. Runs("fork_file_sharing") /\ at.parent = "done" /\ os.status = <<"exited">> =>
              mem.out = << <<Offset, TRUE>> >>
      <3> SUFFICES ASSUME SharingParts, at.parent = "done", os.status = <<"exited">>
                   PROVE  mem.out = << <<Offset, TRUE>> >>
        BY Zenon DEF StateInv
      <3>1. os.file.offset = Offset /\ os.file.append = TRUE
        BY <2>o DEF SharingParts
      <3>2. mem.out = << <<os.file.offset, os.file.append>> >>
        BY DEF SharingParts
      <3> QED BY ONLY <3>1, <3>2, Zenon
    <2>5. Runs("t_clone") /\ at.parent = "done" /\ os.status = <<"exited">> =>
              mem.out = <<IF mem.cond THEN "closed" ELSE "succeeded">>
      BY DEF StateInv, CloneParts
    <2>6. Runs("make_zombie") /\ at.parent = "done" => mem.out[Len(mem.out)] = "zombie"
      BY DEF StateInv, ZombieParts
    <2>7. Runs("child_status") =>
              /\ ~FO!Contains(mem.out, "what happened to this child?")
              /\ at.parent = "done" <=> Len(mem.out) > 0 /\ mem.out[Len(mem.out)] \in {"exited", "killed"}
      <3> SUFFICES ASSUME StatusParts
                   PROVE  /\ ~FO!Contains(mem.out, "what happened to this child?")
                          /\ at.parent = "done" <=>
                                Len(mem.out) > 0 /\ mem.out[Len(mem.out)] \in {"exited", "killed"}
        BY DEF StateInv
      <3>1. ~FO!Contains(mem.out, "what happened to this child?")
        <4>1. ASSUME NEW i \in 1 .. Len(mem.out) PROVE mem.out[i] \in Changes \cup Ends
          BY DEF StatusParts
        <4> QED BY <4>1 DEF FO!Contains, Changes, Ends
      <3>2. at.parent = "done" => Len(mem.out) > 0 /\ mem.out[Len(mem.out)] \in {"exited", "killed"}
        BY DEF StatusParts, Ends
      <3>3. ASSUME at.parent # "done", Len(mem.out) > 0
            PROVE  mem.out[Len(mem.out)] \notin {"exited", "killed"}
        <4>1. Len(mem.out) \in 1 .. Len(mem.out)
          BY <3>3 DEF StatusParts
        <4> QED BY <3>3, <4>1 DEF StatusParts, Changes
      <3> QED BY <3>1, <3>2, <3>3
    <2> QED
      BY <2>1, <2>2, <2>3, <2>4, <2>5, <2>6, <2>7, ZenonT(60) DEF FO!ForkShares, FO!Runs, Runs, Offset
  <1> QED BY InitSync, StepSync, InitState, StepState, <1>1, PTL DEF MCSpec

-----------------------------------------------------------------------------
(* The pipes: t is a table of descriptors in which R are read ends and W   *)
(* write ends of the pipe.                                                 *)
Table(t, R, W) ==
    /\ DOMAIN t = PI!Fds
    /\ \A f \in PI!Fds : (t[f] = "r" <=> f \in R) /\ (t[f] = "w" <=> f \in W)

PfdR == mem.pfd[1]
PfdW == mem.pfd[2]

(* What is to be written is still to be written, in the pipe or read. *)
PipeType ==
    /\ DOMAIN at = PI!Procs
    /\ DOMAIN mem = {"prog", "pfd", "n", "left", "got", "typed"}
    /\ DOMAIN os = {"pipe", "fd"} /\ DOMAIN os.fd = PI!Procs
    /\ DOMAIN mem.pfd = {1, 2} /\ PfdR \in PI!Fds /\ PfdW \in PI!Fds
    /\ mem.n \in Nat /\ mem.left \in Nat /\ mem.got \in Nat /\ os.pipe \in Nat
    /\ mem.got + os.pipe + mem.left = mem.n

LEMMA MinIn == ASSUME NEW S \in SUBSET PI!Fds, S # {} PROVE PI!Min(S) \in S
  <1>1. \E x \in S : \A y \in S : x =< y
    <2>1. CASE 0 \in S
      BY <2>1 DEF PI!Fds
    <2>2. CASE 0 \notin S /\ 1 \in S
      BY <2>2 DEF PI!Fds
    <2>3. CASE 0 \notin S /\ 1 \notin S /\ 2 \in S
      BY <2>3 DEF PI!Fds
    <2>4. CASE 0 \notin S /\ 1 \notin S /\ 2 \notin S /\ 3 \in S
      BY <2>4 DEF PI!Fds
    <2>5. CASE 0 \notin S /\ 1 \notin S /\ 2 \notin S /\ 3 \notin S
      <3>0. PICK x : x \in S
        OBVIOUS
      <3>1. \A y \in S : y = 4
        BY <2>5 DEF PI!Fds
      <3> QED BY <3>0, <3>1
    <2> QED BY <2>1, <2>2, <2>3, <2>4, <2>5
  <1> QED BY <1>1 DEF PI!Min

(* pipe() *)
LEMMA PipeCall ==
    ASSUME PipeType, NEW p \in PI!Procs, NEW l, NEW k, PI!Pipe(p, l, k),
           DOMAIN os.fd[p] = PI!Fds, os.fd[p][3] = "none", os.fd[p][4] = "none"
    PROVE  /\ at[p] = l /\ at' = [at EXCEPT ![p] = k]
           /\ PipeType' /\ mem'.prog = mem.prog
           /\ mem'.n = mem.n /\ mem'.left = mem.left /\ mem'.got = mem.got /\ os'.pipe = os.pipe
           /\ PfdR' # PfdW' /\ os.fd[p][PfdR'] = "none" /\ os.fd[p][PfdW'] = "none"
           /\ DOMAIN os'.fd[p] = PI!Fds
           /\ \A f \in PI!Fds : os'.fd[p][f] = IF f = PfdR' THEN "r" ELSE IF f = PfdW' THEN "w"
                                               ELSE os.fd[p][f]
           /\ \A q \in PI!Procs : q # p => os'.fd[q] = os.fd[q] /\ at'[q] = at[q]
  <1> DEFINE free == {f \in PI!Fds : os.fd[p][f] = "none"}
             r    == PI!Min(free)
             w    == PI!Min(free \ {r})
  <1>1. r \in free
    <2>1. 3 \in free
      BY DEF PI!Fds
    <2> QED BY ONLY <2>1, MinIn, free \in SUBSET PI!Fds
  <1>2. w \in free \ {r}
    <2>1. 3 \in free /\ 4 \in free
      BY DEF PI!Fds
    <2>2. free \ {r} # {}
      <3>1. CASE r = 3
        BY <2>1, <3>1
      <3>2. CASE r # 3
        BY <2>1, <3>2
      <3> QED BY <3>1, <3>2
    <2> QED BY ONLY <2>2, MinIn, free \ {r} \in SUBSET PI!Fds
  <1>3. /\ at[p] = l /\ at' = [at EXCEPT ![p] = k]
        /\ os' = [os EXCEPT !.fd[p][r] = "r", !.fd[p][w] = "w"]
        /\ mem' = [mem EXCEPT !.pfd = <<r, w>>]
    BY DEF PI!Pipe, PI!Move
  <1> HIDE DEF r, w
  <1>4. PICK half : half = [os EXCEPT !.fd[p][r] = "r"]
    OBVIOUS
  <1>5. os' = [half EXCEPT !.fd[p][w] = "w"]
    BY <1>3, <1>4 DEF PipeType
  <1>6. /\ DOMAIN half = {"pipe", "fd"} /\ DOMAIN half.fd = PI!Procs /\ half.pipe = os.pipe
        /\ DOMAIN half.fd[p] = PI!Fds
        /\ \A f \in PI!Fds : half.fd[p][f] = IF f = r THEN "r" ELSE os.fd[p][f]
        /\ \A q \in PI!Procs : q # p => half.fd[q] = os.fd[q]
    BY <1>1, <1>4 DEF PipeType
  <1>7. /\ DOMAIN os' = {"pipe", "fd"} /\ DOMAIN os'.fd = PI!Procs /\ os'.pipe = os.pipe
        /\ DOMAIN os'.fd[p] = PI!Fds
        /\ \A f \in PI!Fds : os'.fd[p][f] = IF f = w THEN "w" ELSE half.fd[p][f]
        /\ \A q \in PI!Procs : q # p => os'.fd[q] = os.fd[q]
    BY <1>2, <1>5, <1>6
  <1>8. PfdR' = r /\ PfdW' = w /\ mem'.pfd = <<r, w>>
    BY <1>3 DEF PfdR, PfdW, PipeType
  <1> QED
    BY <1>1, <1>2, <1>3, <1>6, <1>7, <1>8 DEF PipeType

(* fork() *)
LEMMA ForkCall ==
    ASSUME PipeType, NEW p \in PI!Procs, NEW c \in PI!Procs, c # p, NEW l, NEW k, NEW s,
           PI!Fork(p, c, l, k, s)
    PROVE  /\ at[p] = l /\ mem' = mem /\ PipeType' /\ os'.pipe = os.pipe
           /\ at'[p] = k /\ at'[c] = s /\ os'.fd[c] = os.fd[p]
           /\ \A q \in PI!Procs : q # c => os'.fd[q] = os.fd[q]
           /\ \A q \in PI!Procs : q # c /\ q # p => at'[q] = at[q]
  BY DEF PI!Fork, PipeType, PfdR, PfdW

(* close() *)
LEMMA CloseCall ==
    ASSUME PipeType, NEW p \in PI!Procs, NEW f \in PI!Fds, NEW l, NEW k, PI!Close(p, f, l, k),
           DOMAIN os.fd[p] = PI!Fds
    PROVE  /\ at[p] = l /\ mem' = mem /\ PipeType' /\ os'.pipe = os.pipe
           /\ at'[p] = k /\ DOMAIN os'.fd[p] = PI!Fds
           /\ \A g \in PI!Fds : g # f => os'.fd[p][g] = os.fd[p][g]
           /\ os'.fd[p][f] = "none"
           /\ \A q \in PI!Procs : q # p => os'.fd[q] = os.fd[q] /\ at'[q] = at[q]
  BY DEF PI!Close, PI!Move, PipeType, PfdR, PfdW, Table

(* _exit(), or a signal *)
LEMMA EndCall ==
    ASSUME PipeType, NEW p \in PI!Procs, NEW l, NEW k, PI!End(p, l, k)
    PROVE  /\ at[p] = l /\ mem' = mem /\ PipeType' /\ os'.pipe = os.pipe
           /\ at'[p] = k /\ Table(os'.fd[p], {}, {})
           /\ \A q \in PI!Procs : q # p => os'.fd[q] = os.fd[q] /\ at'[q] = at[q]
  BY DEF PI!End, PI!Move, PipeType, PfdR, PfdW, Table

(* dup2() and close() *)
LEMMA DupCall ==
    ASSUME PipeType, NEW p \in PI!Procs, NEW l, NEW k, NEW old \in PI!Fds, NEW new \in PI!Fds,
           new # old, PI!Dup2Close(p, old, new, l, k), DOMAIN os.fd[p] = PI!Fds
    PROVE  /\ at[p] = l /\ mem' = mem /\ PipeType' /\ os'.pipe = os.pipe
           /\ at'[p] = k
           /\ DOMAIN os'.fd[p] = PI!Fds
           /\ \A g \in PI!Fds : os'.fd[p][g] = IF g = old THEN "none"
                                               ELSE IF g = new THEN os.fd[p][old] ELSE os.fd[p][g]
           /\ \A q \in PI!Procs : q # p => os'.fd[q] = os.fd[q] /\ at'[q] = at[q]
  BY DEF PI!Dup2Close, PI!Move, PipeType, PfdR, PfdW, Table

(* write(), of which a part fits *)
LEMMA WriteCall ==
    ASSUME PipeType, NEW p \in PI!Procs, NEW l, NEW k, PI!Write(p, l, k)
    PROVE  /\ at[p] = l
           /\ \/ /\ at' = at /\ os'.fd = os.fd /\ mem'.pfd = mem.pfd /\ PipeType'
                 /\ mem'.prog = mem.prog
                 /\ mem.left > 0 /\ mem'.n = mem.n /\ mem'.got = mem.got
              \/ mem.left > 0 /\ PI!Readers = {} /\ PI!End(p, l, "killed")
              \/ mem.left = 0 /\ PI!Move(p, l, k) /\ UNCHANGED <<mem, os>>
  BY DEF PI!Write, PipeType, PfdR, PfdW

(* read() *)
LEMMA ReadCall ==
    ASSUME PipeType, NEW p \in PI!Procs, NEW l, NEW k, PI!Read(p, l, k)
    PROVE  /\ at[p] = l
           /\ \/ /\ at' = at /\ os'.fd = os.fd /\ mem'.pfd = mem.pfd /\ PipeType'
                 /\ mem'.prog = mem.prog
                 /\ os.pipe > 0 /\ mem'.n = mem.n /\ mem'.left = mem.left
              \/ os.pipe = 0 /\ PI!Writers = {} /\ PI!Move(p, l, k) /\ UNCHANGED <<mem, os>>
  BY DEF PI!Read, PipeType, PfdR, PfdW

LEMMA TableHas ==
    ASSUME NEW p, NEW R \in SUBSET PI!Fds, NEW W \in SUBSET PI!Fds, Table(os.fd[p], R, W)
    PROVE  (PI!Has(p, "r") <=> R # {}) /\ (PI!Has(p, "w") <=> W # {})
  BY DEF PI!Has, Table

-----------------------------------------------------------------------------
(* simple_pipe: which ends each process has open at which place. *)
SimpleR(p, l) ==
    IF \/ p = "parent" /\ l \in {"fork", "close"}
       \/ p = "one" /\ l \in {"close", "read", "done"}
    THEN {PfdR} ELSE {}

SimpleW(p, l) ==
    IF \/ p = "parent" /\ l \in {"fork", "close", "write", "closeWrite"}
       \/ p = "one" /\ l = "close"
    THEN {PfdW} ELSE {}

SimplePlace ==
    /\ at.parent \in {"pipe", "fork", "close", "write", "closeWrite", "wait", "done", "exit", "killed"}
    /\ at.one \in {"unborn", "close", "read", "done", "exit", "killed", "reaped"}
    /\ at.two = "unborn"
    /\ at.parent = "pipe" => os.fd["parent"][3] = "none" /\ os.fd["parent"][4] = "none"
    /\ at.parent # "pipe" => PfdR # PfdW
    /\ at.parent \in {"pipe", "fork"} => at.one = "unborn"
    /\ at.parent \in {"close", "write", "closeWrite", "wait"} => at.one # "unborn"

(* The parent closes its write end when all is written, unless nobody      *)
(* reads.                                                                  *)
SimpleData ==
    /\ at.parent \in {"closeWrite", "wait", "done"} => mem.left = 0
    /\ at.parent = "killed" => at.one \notin {"unborn", "close", "read", "done"}
    /\ at.parent = "exit" => at.one = "unborn" \/ mem.left = 0
    /\ at.one \in {"done", "exit"} => mem.left = 0 /\ os.pipe = 0

SimpleTables == \A p \in PI!Procs : Table(os.fd[p], SimpleR(p, at[p]), SimpleW(p, at[p]))

SimpleParts == PipeType /\ SimplePlace /\ SimpleData /\ SimpleTables

(* A step of one process that leaves the others' tables. *)
LEMMA SimpleOne ==
    ASSUME SimpleTables, NEW p \in PI!Procs, mem'.pfd = mem.pfd,
           \A q \in PI!Procs : q # p => os'.fd[q] = os.fd[q] /\ at'[q] = at[q],
           Table(os'.fd[p], SimpleR(p, at'[p]), SimpleW(p, at'[p]))
    PROVE  SimpleTables'
  BY DEF SimpleTables, SimpleR, SimpleW, PfdR, PfdW

LEMMA StepSimpleChild == SimpleParts /\ PI!SimpleChild => SimpleParts'
  <1> SUFFICES ASSUME SimpleParts, PI!SimpleChild PROVE SimpleParts'
    OBVIOUS
  <1> USE DEF SimpleParts
  <1>0. "one" \in PI!Procs /\ "parent" \in PI!Procs /\ "two" \in PI!Procs
    BY DEF PI!Procs
  <1>1. CASE PI!Close("one", mem.pfd[2], "close", "read")
    <2>1. /\ at.one = "close" /\ mem' = mem /\ PipeType' /\ os'.pipe = os.pipe /\ at'.one = "read"
          /\ DOMAIN os'.fd["one"] = PI!Fds /\ os'.fd["one"][PfdW] = "none"
          /\ \A g \in PI!Fds : g # PfdW => os'.fd["one"][g] = os.fd["one"][g]
          /\ \A q \in PI!Procs : q # "one" => os'.fd[q] = os.fd[q] /\ at'[q] = at[q]
      <3>1. at.one = "close"
        BY <1>1 DEF PI!Close, PI!Move
      <3>2. DOMAIN os.fd["one"] = PI!Fds
        BY <1>0 DEF SimpleTables, Table
      <3>3. PfdW \in PI!Fds /\ PI!Close("one", PfdW, "close", "read")
        BY <1>1 DEF PipeType, PfdW
      <3>4. PipeType
        OBVIOUS
      <3> QED BY ONLY <1>0, <3>2, <3>3, <3>4, CloseCall
    <2>2. PfdR # PfdW
      BY <2>1 DEF SimplePlace
    <2>3. Table(os'.fd["one"], {PfdR}, {})
      BY <1>0, <2>1, <2>2 DEF SimpleTables, SimpleR, SimpleW, Table
    <2>4. SimpleTables'
      BY <1>0, <2>1, <2>3, SimpleOne DEF SimpleR, SimpleW
    <2> QED BY <1>0, <2>1, <2>4 DEF SimplePlace, SimpleData, PfdR, PfdW
  <1>2. CASE PI!Read("one", "read", "done")
    <2>1. CASE /\ at' = at /\ os'.fd = os.fd /\ mem'.pfd = mem.pfd /\ PipeType'
               /\ mem'.prog = mem.prog
               /\ os.pipe > 0 /\ mem'.n = mem.n /\ mem'.left = mem.left
      <3>1. at.one = "read"
        BY <1>2 DEF PI!Read
      <3>2. SimpleTables'
        BY <2>1 DEF SimpleTables, SimpleR, SimpleW, PfdR, PfdW
      <3> QED BY <2>1, <3>1, <3>2 DEF SimplePlace, SimpleData, PfdR, PfdW
    <2>2. CASE os.pipe = 0 /\ PI!Writers = {} /\ PI!Move("one", "read", "done") /\ UNCHANGED <<mem, os>>
      <3>1. ~PI!Has("parent", "w") /\ at.one = "read"
        BY <1>0, <2>2 DEF PI!Writers, PI!Move
      <3>2. SimpleW("parent", at.parent) = {}
        <4>1. /\ Table(os.fd["parent"], SimpleR("parent", at.parent), SimpleW("parent", at.parent))
              /\ SimpleR("parent", at.parent) \in SUBSET PI!Fds
              /\ SimpleW("parent", at.parent) \in SUBSET PI!Fds
          BY <1>0 DEF SimpleTables, SimpleR, SimpleW, PipeType
        <4> QED BY ONLY <4>1, <3>1, TableHas
      <3>3. mem.left = 0
        BY <3>1, <3>2 DEF SimpleW, SimplePlace, SimpleData
      <3>4. PipeType'
        BY <2>2 DEF PipeType, PI!Move, PfdR, PfdW
      <3>5. at' = [at EXCEPT !["one"] = "done"] /\ DOMAIN at = PI!Procs
        BY <2>2 DEF PI!Move, PipeType
      <3>6. SimpleTables'
        BY <1>0, <2>2, <3>1, <3>5, SimpleOne DEF SimpleTables, SimpleR, SimpleW
      <3> QED BY <1>0, <2>2, <3>1, <3>3, <3>4, <3>5, <3>6 DEF SimplePlace, SimpleData, PfdR, PfdW
    <2> QED BY <1>0, <1>2, <2>1, <2>2, ReadCall
  <1>3. CASE PI!End("one", "done", "exit")
    <2>1. /\ at.one = "done" /\ mem' = mem /\ PipeType' /\ os'.pipe = os.pipe /\ at'.one = "exit"
          /\ Table(os'.fd["one"], {}, {})
          /\ \A q \in PI!Procs : q # "one" => os'.fd[q] = os.fd[q] /\ at'[q] = at[q]
      BY <1>0, <1>3, EndCall
    <2>2. SimpleTables'
      BY <1>0, <2>1, SimpleOne DEF SimpleR, SimpleW
    <2> QED BY <1>0, <2>1, <2>2 DEF SimplePlace, SimpleData, PfdR, PfdW
  <1> QED BY <1>1, <1>2, <1>3 DEF PI!SimpleChild

LEMMA StepSimpleParent == SimpleParts /\ PI!SimpleParent => SimpleParts'
  <1> SUFFICES ASSUME SimpleParts, PI!SimpleParent PROVE SimpleParts'
    OBVIOUS
  <1> USE DEF SimpleParts
  <1>0. "one" \in PI!Procs /\ "parent" \in PI!Procs /\ "two" \in PI!Procs
    BY DEF PI!Procs
  <1>t. /\ PipeType /\ DOMAIN os.fd["parent"] = PI!Fds
        /\ Table(os.fd["parent"], SimpleR("parent", at.parent), SimpleW("parent", at.parent))
    BY <1>0 DEF SimpleTables, Table
  <1>1. CASE PI!Pipe("parent", "pipe", "fork")
    <2>1. /\ DOMAIN os.fd["parent"] = PI!Fds
          /\ os.fd["parent"][3] = "none" /\ os.fd["parent"][4] = "none"
          /\ at.parent = "pipe"
      BY <1>1, <1>t DEF SimplePlace, Table, PI!Pipe, PI!Move
    <2>2. /\ at' = [at EXCEPT !["parent"] = "fork"] /\ PipeType'
          /\ mem'.left = mem.left /\ os'.pipe = os.pipe /\ PfdR' # PfdW'
          /\ DOMAIN os'.fd["parent"] = PI!Fds
          /\ \A f \in PI!Fds : os'.fd["parent"][f] = IF f = PfdR' THEN "r" ELSE IF f = PfdW' THEN "w"
                                                     ELSE os.fd["parent"][f]
          /\ \A q \in PI!Procs : q # "parent" => os'.fd[q] = os.fd[q] /\ at'[q] = at[q]
      BY ONLY <1>0, <1>1, <1>t, <2>1, PipeCall
    <2>3. at'.parent = "fork" /\ at.one = "unborn" /\ at.two = "unborn"
      BY <1>0, <2>1, <2>2 DEF SimplePlace, PipeType
    <2>4. Table(os.fd["parent"], {}, {}) /\ Table(os.fd["one"], {}, {}) /\ Table(os.fd["two"], {}, {})
      BY <1>0, <2>1, <2>3 DEF SimpleTables, SimpleR, SimpleW
    <2>5. Table(os'.fd["parent"], {PfdR'}, {PfdW'})
      BY <2>2, <2>4 DEF Table
    <2>6. SimpleTables'
      BY <1>0, <2>2, <2>3, <2>4, <2>5 DEF SimpleTables, SimpleR, SimpleW, PI!Procs
    <2> QED BY <1>0, <2>2, <2>3, <2>6 DEF SimplePlace, SimpleData
  <1>2. CASE PI!Fork("parent", "one", "fork", "close", "close")
    <2>1. /\ at.parent = "fork" /\ mem' = mem /\ PipeType' /\ os'.pipe = os.pipe
          /\ at'.parent = "close" /\ at'.one = "close" /\ os'.fd["one"] = os.fd["parent"]
          /\ \A q \in PI!Procs : q # "one" => os'.fd[q] = os.fd[q]
          /\ \A q \in PI!Procs : q # "one" /\ q # "parent" => at'[q] = at[q]
      BY ONLY <1>0, <1>2, <1>t, ForkCall
    <2>2. Table(os'.fd["one"], {PfdR}, {PfdW}) /\ Table(os'.fd["parent"], {PfdR}, {PfdW})
      BY <1>0, <1>t, <2>1 DEF SimpleR, SimpleW
    <2>3. SimpleTables'
      BY <1>0, <2>1, <2>2 DEF SimpleTables, SimpleR, SimpleW, PI!Procs, PfdR, PfdW
    <2> QED BY <1>0, <2>1, <2>3 DEF SimplePlace, SimpleData, PfdR, PfdW
  <1>3. CASE PI!End("parent", "fork", "exit") \/ PI!End("parent", "done", "exit")
    <2>1. /\ at.parent \in {"fork", "done"} /\ mem' = mem /\ PipeType' /\ os'.pipe = os.pipe
          /\ at'.parent = "exit" /\ Table(os'.fd["parent"], {}, {})
          /\ \A q \in PI!Procs : q # "parent" => os'.fd[q] = os.fd[q] /\ at'[q] = at[q]
      BY ONLY <1>0, <1>3, <1>t, EndCall
    <2>2. SimpleTables'
      BY <1>0, <2>1, SimpleOne DEF SimpleR, SimpleW
    <2> QED BY <1>0, <2>1, <2>2 DEF SimplePlace, SimpleData, PfdR, PfdW
  <1>4. CASE PI!Close("parent", mem.pfd[1], "close", "write")
    <2>0. PfdR \in PI!Fds /\ PI!Close("parent", PfdR, "close", "write")
      BY <1>4 DEF PipeType, PfdR
    <2>1. /\ at.parent = "close" /\ mem' = mem /\ PipeType' /\ os'.pipe = os.pipe
          /\ at'.parent = "write"
          /\ DOMAIN os'.fd["parent"] = PI!Fds /\ os'.fd["parent"][PfdR] = "none"
          /\ \A g \in PI!Fds : g # PfdR => os'.fd["parent"][g] = os.fd["parent"][g]
          /\ \A q \in PI!Procs : q # "parent" => os'.fd[q] = os.fd[q] /\ at'[q] = at[q]
      BY ONLY <1>0, <2>0, <1>t, CloseCall
    <2>2. PfdR # PfdW
      BY <2>1 DEF SimplePlace
    <2>3. Table(os'.fd["parent"], {}, {PfdW})
      BY <1>0, <2>1, <2>2 DEF SimpleTables, SimpleR, SimpleW, Table
    <2>4. SimpleTables'
      BY <1>0, <2>1, <2>3, SimpleOne DEF SimpleR, SimpleW
    <2> QED BY <1>0, <2>1, <2>4 DEF SimplePlace, SimpleData, PfdR, PfdW
  <1>5. CASE PI!Write("parent", "write", "closeWrite")
    <2>0. at.parent = "write"
      BY <1>5 DEF PI!Write
    <2>1. CASE /\ at' = at /\ os'.fd = os.fd /\ mem'.pfd = mem.pfd /\ PipeType'
               /\ mem.left > 0
      <3>1. SimpleTables'
        BY <2>1 DEF SimpleTables, SimpleR, SimpleW, PfdR, PfdW
      <3> QED BY <2>0, <2>1, <3>1 DEF SimplePlace, SimpleData, PfdR, PfdW
    <2>2. CASE mem.left > 0 /\ PI!Readers = {} /\ PI!End("parent", "write", "killed")
      <3>1. /\ mem' = mem /\ PipeType' /\ os'.pipe = os.pipe
            /\ at'.parent = "killed" /\ Table(os'.fd["parent"], {}, {})
            /\ \A q \in PI!Procs : q # "parent" => os'.fd[q] = os.fd[q] /\ at'[q] = at[q]
        BY ONLY <1>0, <2>2, <1>t, EndCall
      <3>2. SimpleTables'
        BY <1>0, <3>1, SimpleOne DEF SimpleR, SimpleW
      <3>3. ~PI!Has("one", "r")
        BY <1>0, <2>2 DEF PI!Readers
      <3>4. SimpleR("one", at.one) = {}
        <4>1. /\ Table(os.fd["one"], SimpleR("one", at.one), SimpleW("one", at.one))
              /\ SimpleR("one", at.one) \in SUBSET PI!Fds
              /\ SimpleW("one", at.one) \in SUBSET PI!Fds
          BY <1>0 DEF SimpleTables, SimpleR, SimpleW, PipeType
        <4> QED BY ONLY <4>1, <3>3, TableHas
      <3>5. at.one \notin {"unborn", "close", "read", "done"}
        BY <2>0, <3>4 DEF SimpleR, SimplePlace
      <3> QED BY <1>0, <2>0, <2>2, <3>1, <3>2, <3>5 DEF SimplePlace, SimpleData, PfdR, PfdW
    <2>3. CASE mem.left = 0 /\ PI!Move("parent", "write", "closeWrite") /\ UNCHANGED <<mem, os>>
      <3>1. at' = [at EXCEPT !["parent"] = "closeWrite"] /\ PipeType'
        BY <2>3 DEF PI!Move, PipeType, PfdR, PfdW
      <3>2. at'.parent = "closeWrite" /\ \A q \in PI!Procs : q # "parent" => at'[q] = at[q]
        BY <1>0, <3>1 DEF PipeType
      <3>3. SimpleTables'
        BY <1>0, <1>t, <2>0, <2>3, <3>2, SimpleOne DEF SimpleR, SimpleW
      <3> QED BY <1>0, <2>0, <2>3, <3>1, <3>2, <3>3 DEF SimplePlace, SimpleData, PfdR, PfdW
    <2> QED BY <1>0, <1>5, <1>t, <2>1, <2>2, <2>3, WriteCall
  <1>6. CASE PI!Close("parent", mem.pfd[2], "closeWrite", "wait")
    <2>0. PfdW \in PI!Fds /\ PI!Close("parent", PfdW, "closeWrite", "wait")
      BY <1>6 DEF PipeType, PfdW
    <2>1. /\ at.parent = "closeWrite" /\ mem' = mem /\ PipeType' /\ os'.pipe = os.pipe
          /\ at'.parent = "wait"
          /\ DOMAIN os'.fd["parent"] = PI!Fds /\ os'.fd["parent"][PfdW] = "none"
          /\ \A g \in PI!Fds : g # PfdW => os'.fd["parent"][g] = os.fd["parent"][g]
          /\ \A q \in PI!Procs : q # "parent" => os'.fd[q] = os.fd[q] /\ at'[q] = at[q]
      BY ONLY <1>0, <2>0, <1>t, CloseCall
    <2>3. Table(os'.fd["parent"], {}, {})
      BY <1>0, <2>1 DEF SimpleTables, SimpleR, SimpleW, Table
    <2>4. SimpleTables'
      BY <1>0, <2>1, <2>3, SimpleOne DEF SimpleR, SimpleW
    <2> QED BY <1>0, <2>1, <2>4 DEF SimplePlace, SimpleData, PfdR, PfdW
  <1>7. CASE PI!Wait("wait", "done")
    <2>1. /\ at.parent = "wait" /\ UNCHANGED <<mem, os>> /\ at.one \in {"exit", "killed"}
          /\ at' = [at EXCEPT !.parent = "done", !["one"] = "reaped"]
      BY <1>7 DEF PI!Wait, SimplePlace, PI!Procs
    <2>2. PipeType' /\ at'.parent = "done" /\ at'.one = "reaped" /\ at'.two = at.two
      BY <1>0, <2>1 DEF PipeType, PfdR, PfdW
    <2>3. SimpleTables'
      BY <2>1, <2>2 DEF SimpleTables, SimpleR, SimpleW, PI!Procs, PfdR, PfdW
    <2> QED BY <2>1, <2>2, <2>3 DEF SimplePlace, SimpleData, PfdR, PfdW
  <1> QED BY <1>1, <1>2, <1>3, <1>4, <1>5, <1>6, <1>7 DEF PI!SimpleParent

LEMMA KillSimple ==
    ASSUME SimpleParts, NEW c \in PI!Procs, PI!Killed(c)
    PROVE  SimpleParts'
  <1> USE DEF SimpleParts
  <1>1. c = "one" /\ at.one \notin {"unborn", "exit", "killed", "reaped"}
        /\ PI!End("one", at.one, "killed")
    BY DEF PI!Killed, PI!Procs, PI!Gone, SimplePlace
  <1>2. /\ mem' = mem /\ PipeType' /\ os'.pipe = os.pipe /\ at'["one"] = "killed"
        /\ Table(os'.fd["one"], {}, {})
        /\ \A q \in PI!Procs : q # "one" => os'.fd[q] = os.fd[q] /\ at'[q] = at[q]
    <2>1. "one" \in PI!Procs /\ PipeType
      BY DEF PI!Procs
    <2> QED BY ONLY <1>1, <2>1, EndCall
  <1>3. SimpleTables'
    BY <1>2, SimpleOne DEF SimpleR, SimpleW, PI!Procs
  <1> QED BY <1>1, <1>2, <1>3 DEF SimplePlace, SimpleData, PI!Procs, PfdR, PfdW

-----------------------------------------------------------------------------
(* pipe_ls_wc: before the exec the ends are where pipe() put them, after   *)
(* it on standard output and input.                                        *)
LsR(p, l) ==
    IF \/ p = "parent" /\ l \in {"fork", "fork2", "close"}
       \/ p = "one" /\ l = "close"
       \/ p = "two" /\ l \in {"close", "dup"}
    THEN {PfdR} ELSE IF p = "two" /\ l \in {"exec", "read", "done"} THEN {0} ELSE {}

LsW(p, l) ==
    IF \/ p = "parent" /\ l \in {"fork", "fork2", "close", "closeWrite"}
       \/ p = "one" /\ l \in {"close", "dup"}
       \/ p = "two" /\ l = "close"
    THEN {PfdW} ELSE IF p = "one" /\ l \in {"exec", "write", "done"} THEN {1} ELSE {}

LsPlace ==
    /\ at.parent \in {"pipe", "fork", "fork2", "close", "closeWrite", "wait", "wait2", "done", "exit"}
    /\ at.one \in {"unborn", "close", "dup", "exec", "write", "done", "exit", "killed", "reaped"}
    /\ at.two \in {"unborn", "close", "dup", "exec", "read", "done", "exit", "killed", "reaped"}
    /\ at.parent = "pipe" => os.fd["parent"][3] = "none" /\ os.fd["parent"][4] = "none"
    /\ at.parent # "pipe" => PfdR # PfdW
    /\ at.parent \in {"pipe", "fork"} => at.one = "unborn"
    /\ at.parent \in {"pipe", "fork", "fork2"} => at.two = "unborn"

(* Once wc has seen the end nobody can write. *)
LsData ==
    /\ at.one \in {"done", "exit"} => mem.left = 0
    /\ at.two \in {"done", "exit"} =>
          /\ os.pipe = 0 /\ at.parent \notin {"fork", "fork2", "close", "closeWrite"}
          /\ at.one \notin {"close", "dup", "exec", "write", "done"}

LsTables == \A p \in PI!Procs : Table(os.fd[p], LsR(p, at[p]), LsW(p, at[p]))

LsParts == PipeType /\ LsPlace /\ LsData /\ LsTables

LEMMA LsOne ==
    ASSUME LsTables, NEW p \in PI!Procs, mem'.pfd = mem.pfd,
           \A q \in PI!Procs : q # p => os'.fd[q] = os.fd[q] /\ at'[q] = at[q],
           Table(os'.fd[p], LsR(p, at'[p]), LsW(p, at'[p]))
    PROVE  LsTables'
  <1>1. PfdR' = PfdR /\ PfdW' = PfdW
    BY DEF PfdR, PfdW
  <1> SUFFICES ASSUME NEW q \in PI!Procs PROVE Table(os.fd[q], LsR(q, at[q]), LsW(q, at[q]))'
    BY DEF LsTables
  <1>2. LsR(q, at[q])' = LsR(q, at'[q]) /\ LsW(q, at[q])' = LsW(q, at'[q])
    BY <1>1 DEF LsR, LsW
  <1>3. Table(os'.fd[q], LsR(q, at'[q]), LsW(q, at'[q]))
    BY DEF LsTables
  <1> QED BY <1>2, <1>3 DEF Table

LEMMA StepLs == LsParts /\ PI!Ls => LsParts'
  <1> SUFFICES ASSUME LsParts, PI!Ls PROVE LsParts'
    OBVIOUS
  <1> USE DEF LsParts
  <1>0. "one" \in PI!Procs /\ "parent" \in PI!Procs /\ "two" \in PI!Procs
    BY DEF PI!Procs
  <1>t. /\ PipeType /\ DOMAIN os.fd["one"] = PI!Fds
        /\ Table(os.fd["one"], LsR("one", at.one), LsW("one", at.one))
    BY <1>0 DEF LsTables, Table
  <1>1. CASE PI!Close("one", mem.pfd[1], "close", "dup")
    <2>0. PfdR \in PI!Fds /\ PI!Close("one", PfdR, "close", "dup")
      BY <1>1 DEF PipeType, PfdR
    <2>1. /\ at.one = "close" /\ mem' = mem /\ PipeType' /\ os'.pipe = os.pipe
          /\ at'.one = "dup"
          /\ DOMAIN os'.fd["one"] = PI!Fds /\ os'.fd["one"][PfdR] = "none"
          /\ \A g \in PI!Fds : g # PfdR => os'.fd["one"][g] = os.fd["one"][g]
          /\ \A q \in PI!Procs : q # "one" => os'.fd[q] = os.fd[q] /\ at'[q] = at[q]
      BY ONLY <1>0, <2>0, <1>t, CloseCall
    <2>2. PfdR # PfdW
      BY <2>1 DEF LsPlace
    <2>3. Table(os'.fd["one"], {}, {PfdW})
      BY <1>t, <2>1, <2>2 DEF LsR, LsW, Table
    <2>4. LsTables'
      BY <1>0, <2>1, <2>3, LsOne DEF LsR, LsW
    <2> QED BY <1>0, <2>1, <2>4 DEF LsPlace, LsData, PfdR, PfdW
  <1>2. CASE PI!LsDup
    <2>1. CASE PfdW # 1
      <3>0. PfdW \in PI!Fds /\ 1 \in PI!Fds /\ PI!Dup2Close("one", PfdW, 1, "dup", "exec")
        BY <1>2, <2>1 DEF PI!LsDup, PipeType, PfdW, PI!Fds
      <3>1. /\ at.one = "dup" /\ mem' = mem /\ PipeType' /\ os'.pipe = os.pipe
            /\ at'.one = "exec" /\ DOMAIN os'.fd["one"] = PI!Fds
            /\ \A g \in PI!Fds : os'.fd["one"][g] = IF g = PfdW THEN "none"
                                       ELSE IF g = 1 THEN os.fd["one"][PfdW] ELSE os.fd["one"][g]
            /\ \A q \in PI!Procs : q # "one" => os'.fd[q] = os.fd[q] /\ at'[q] = at[q]
        BY ONLY <1>0, <2>1, <3>0, <1>t, DupCall
      <3>2. Table(os'.fd["one"], {}, {1})
        BY <1>t, <2>1, <3>0, <3>1 DEF LsR, LsW, Table
      <3>3. LsTables'
        BY <1>0, <3>1, <3>2, LsOne DEF LsR, LsW
      <3> QED BY <1>0, <3>1, <3>3 DEF LsPlace, LsData, PfdR, PfdW
    <2>2. CASE PfdW = 1
      <3>1. PI!Move("one", "dup", "exec") /\ UNCHANGED <<mem, os>>
        BY <1>2, <2>2 DEF PI!LsDup, PfdW
      <3>2. at.one = "dup" /\ at' = [at EXCEPT !["one"] = "exec"] /\ PipeType'
        BY <3>1 DEF PI!Move, PipeType, PfdR, PfdW
      <3>3. at'.one = "exec" /\ \A q \in PI!Procs : q # "one" => at'[q] = at[q]
        BY <1>0, <3>2 DEF PipeType
      <3>4. Table(os'.fd["one"], {}, {1})
        BY <1>t, <2>2, <3>1, <3>2 DEF LsR, LsW
      <3>5. LsTables'
        BY <1>0, <3>1, <3>3, <3>4, LsOne DEF LsR, LsW
      <3> QED BY <1>0, <3>1, <3>2, <3>3, <3>5 DEF LsPlace, LsData, PfdR, PfdW
    <2> QED BY <2>1, <2>2
  <1>3. CASE /\ PI!Move("one", "exec", IF os.fd.one[1] = "w" THEN "write" ELSE "done")
             /\ UNCHANGED <<mem, os>>
    <2>1. at.one = "exec"
      BY <1>3 DEF PI!Move
    <2>2. os.fd.one[1] = "w"
      BY <1>t, <2>1 DEF LsW, Table, PI!Fds
    <2>3. at' = [at EXCEPT !["one"] = "write"] /\ PipeType'
      BY <1>3, <2>2 DEF PI!Move, PipeType, PfdR, PfdW
    <2>4. at'.one = "write" /\ \A q \in PI!Procs : q # "one" => at'[q] = at[q]
      BY <1>0, <2>3 DEF PipeType
    <2>5. LsTables'
      BY <1>0, <1>t, <1>3, <2>1, <2>4, LsOne DEF LsR, LsW
    <2> QED BY <1>0, <1>3, <2>1, <2>3, <2>4, <2>5 DEF LsPlace, LsData, PfdR, PfdW
  <1>4. CASE PI!End("one", "exec", "killed") \/ PI!End("one", "done", "exit")
    <2>1. /\ mem' = mem /\ PipeType' /\ os'.pipe = os.pipe
          /\ (at.one = "exec" /\ at'.one = "killed") \/ (at.one = "done" /\ at'.one = "exit")
          /\ Table(os'.fd["one"], {}, {})
          /\ \A q \in PI!Procs : q # "one" => os'.fd[q] = os.fd[q] /\ at'[q] = at[q]
      BY ONLY <1>0, <1>4, <1>t, EndCall
    <2>2. LsTables'
      BY <1>0, <2>1, LsOne DEF LsR, LsW
    <2> QED BY <1>0, <2>1, <2>2 DEF LsPlace, LsData, PfdR, PfdW
  <1>5. CASE PI!Write("one", "write", "done")
    <2>0. at.one = "write"
      BY <1>5 DEF PI!Write
    <2>1. CASE /\ at' = at /\ os'.fd = os.fd /\ mem'.pfd = mem.pfd /\ PipeType'
               /\ mem.left > 0
      <3>1. LsTables'
        BY <2>1 DEF LsTables, LsR, LsW, PfdR, PfdW
      <3> QED BY <2>0, <2>1, <3>1 DEF LsPlace, LsData, PfdR, PfdW
    <2>2. CASE PI!End("one", "write", "killed")
      <3>1. /\ mem' = mem /\ PipeType' /\ os'.pipe = os.pipe
            /\ at'.one = "killed" /\ Table(os'.fd["one"], {}, {})
            /\ \A q \in PI!Procs : q # "one" => os'.fd[q] = os.fd[q] /\ at'[q] = at[q]
        BY ONLY <1>0, <2>2, <1>t, EndCall
      <3>2. LsTables'
        BY <1>0, <3>1, LsOne DEF LsR, LsW
      <3> QED BY <1>0, <2>0, <3>1, <3>2 DEF LsPlace, LsData, PfdR, PfdW
    <2>3. CASE mem.left = 0 /\ PI!Move("one", "write", "done") /\ UNCHANGED <<mem, os>>
      <3>1. at' = [at EXCEPT !["one"] = "done"] /\ PipeType'
        BY <2>3 DEF PI!Move, PipeType, PfdR, PfdW
      <3>2. at'.one = "done" /\ \A q \in PI!Procs : q # "one" => at'[q] = at[q]
        BY <1>0, <3>1 DEF PipeType
      <3>3. LsTables'
        BY <1>0, <1>t, <2>0, <2>3, <3>2, LsOne DEF LsR, LsW
      <3> QED BY <1>0, <2>0, <2>3, <3>1, <3>2, <3>3 DEF LsPlace, LsData, PfdR, PfdW
    <2> QED BY <1>0, <1>5, <1>t, <2>1, <2>2, <2>3, WriteCall
  <1> QED BY <1>1, <1>2, <1>3, <1>4, <1>5 DEF PI!Ls

LEMMA StepWc == LsParts /\ PI!Wc => LsParts'
  <1> SUFFICES ASSUME LsParts, PI!Wc PROVE LsParts'
    OBVIOUS
  <1> USE DEF LsParts
  <1>0. "one" \in PI!Procs /\ "parent" \in PI!Procs /\ "two" \in PI!Procs
    BY DEF PI!Procs
  <1>t. /\ PipeType /\ DOMAIN os.fd["two"] = PI!Fds
        /\ Table(os.fd["two"], LsR("two", at.two), LsW("two", at.two))
    BY <1>0 DEF LsTables, Table
  <1>1. CASE PI!Close("two", mem.pfd[2], "close", "dup")
    <2>0. PfdW \in PI!Fds /\ PI!Close("two", PfdW, "close", "dup")
      BY <1>1 DEF PipeType, PfdW
    <2>1. /\ at.two = "close" /\ mem' = mem /\ PipeType' /\ os'.pipe = os.pipe
          /\ at'.two = "dup"
          /\ DOMAIN os'.fd["two"] = PI!Fds /\ os'.fd["two"][PfdW] = "none"
          /\ \A g \in PI!Fds : g # PfdW => os'.fd["two"][g] = os.fd["two"][g]
          /\ \A q \in PI!Procs : q # "two" => os'.fd[q] = os.fd[q] /\ at'[q] = at[q]
      BY ONLY <1>0, <2>0, <1>t, CloseCall
    <2>2. PfdR # PfdW
      BY <2>1 DEF LsPlace
    <2>3. Table(os'.fd["two"], {PfdR}, {})
      BY <1>t, <2>1, <2>2 DEF LsR, LsW, Table
    <2>4. LsTables'
      BY <1>0, <2>1, <2>3, LsOne DEF LsR, LsW
    <2> QED BY <1>0, <2>1, <2>4 DEF LsPlace, LsData, PfdR, PfdW
  <1>2. CASE PI!WcDup
    <2>1. CASE PfdR # 0
      <3>0. PfdR \in PI!Fds /\ 0 \in PI!Fds /\ PI!Dup2Close("two", PfdR, 0, "dup", "exec")
        BY <1>2, <2>1 DEF PI!WcDup, PipeType, PfdR, PI!Fds
      <3>1. /\ at.two = "dup" /\ mem' = mem /\ PipeType' /\ os'.pipe = os.pipe
            /\ at'.two = "exec" /\ DOMAIN os'.fd["two"] = PI!Fds
            /\ \A g \in PI!Fds : os'.fd["two"][g] = IF g = PfdR THEN "none"
                                       ELSE IF g = 0 THEN os.fd["two"][PfdR] ELSE os.fd["two"][g]
            /\ \A q \in PI!Procs : q # "two" => os'.fd[q] = os.fd[q] /\ at'[q] = at[q]
        BY ONLY <1>0, <2>1, <3>0, <1>t, DupCall
      <3>2. Table(os'.fd["two"], {0}, {})
        BY <1>t, <2>1, <3>0, <3>1 DEF LsR, LsW, Table
      <3>3. LsTables'
        BY <1>0, <3>1, <3>2, LsOne DEF LsR, LsW
      <3> QED BY <1>0, <3>1, <3>3 DEF LsPlace, LsData, PfdR, PfdW
    <2>2. CASE PfdR = 0
      <3>1. PI!Move("two", "dup", "exec") /\ UNCHANGED <<mem, os>>
        BY <1>2, <2>2 DEF PI!WcDup, PfdR
      <3>2. at.two = "dup" /\ at' = [at EXCEPT !["two"] = "exec"] /\ PipeType'
        BY <3>1 DEF PI!Move, PipeType, PfdR, PfdW
      <3>3. at'.two = "exec" /\ \A q \in PI!Procs : q # "two" => at'[q] = at[q]
        BY <1>0, <3>2 DEF PipeType
      <3>4. Table(os'.fd["two"], {0}, {})
        BY <1>t, <2>2, <3>1, <3>2 DEF LsR, LsW
      <3>5. LsTables'
        BY <1>0, <3>1, <3>3, <3>4, LsOne DEF LsR, LsW
      <3> QED BY <1>0, <3>1, <3>2, <3>3, <3>5 DEF LsPlace, LsData, PfdR, PfdW
    <2> QED BY <2>1, <2>2
  <1>3. CASE /\ PI!Move("two", "exec", IF os.fd.two[0] = "r" THEN "read" ELSE "done")
             /\ UNCHANGED <<mem, os>>
    <2>1. at.two = "exec"
      BY <1>3 DEF PI!Move
    <2>2. os.fd.two[0] = "r"
      BY <1>t, <2>1 DEF LsR, Table, PI!Fds
    <2>3. at' = [at EXCEPT !["two"] = "read"] /\ PipeType'
      BY <1>3, <2>2 DEF PI!Move, PipeType, PfdR, PfdW
    <2>4. at'.two = "read" /\ \A q \in PI!Procs : q # "two" => at'[q] = at[q]
      BY <1>0, <2>3 DEF PipeType
    <2>5. LsTables'
      BY <1>0, <1>t, <1>3, <2>1, <2>4, LsOne DEF LsR, LsW
    <2> QED BY <1>0, <1>3, <2>1, <2>3, <2>4, <2>5 DEF LsPlace, LsData, PfdR, PfdW
  <1>4. CASE PI!End("two", "exec", "killed") \/ PI!End("two", "done", "exit")
    <2>1. /\ mem' = mem /\ PipeType' /\ os'.pipe = os.pipe
          /\ (at.two = "exec" /\ at'.two = "killed") \/ (at.two = "done" /\ at'.two = "exit")
          /\ Table(os'.fd["two"], {}, {})
          /\ \A q \in PI!Procs : q # "two" => os'.fd[q] = os.fd[q] /\ at'[q] = at[q]
      BY ONLY <1>0, <1>4, <1>t, EndCall
    <2>2. LsTables'
      BY <1>0, <2>1, LsOne DEF LsR, LsW
    <2> QED BY <1>0, <2>1, <2>2 DEF LsPlace, LsData, PfdR, PfdW
  <1>5. CASE PI!Read("two", "read", "done")
    <2>0. at.two = "read"
      BY <1>5 DEF PI!Read
    <2>1. CASE /\ at' = at /\ os'.fd = os.fd /\ mem'.pfd = mem.pfd /\ PipeType'
               /\ mem'.left = mem.left
      <3>1. LsTables'
        BY <2>1 DEF LsTables, LsR, LsW, PfdR, PfdW
      <3> QED BY <2>0, <2>1, <3>1 DEF LsPlace, LsData, PfdR, PfdW
    <2>2. CASE os.pipe = 0 /\ PI!Writers = {} /\ PI!Move("two", "read", "done") /\ UNCHANGED <<mem, os>>
      <3>1. ~PI!Has("parent", "w") /\ ~PI!Has("one", "w")
        BY <1>0, <2>2 DEF PI!Writers
      <3>2. LsW("parent", at.parent) = {} /\ LsW("one", at.one) = {}
        <4>1. ASSUME NEW p \in PI!Procs
              PROVE  /\ Table(os.fd[p], LsR(p, at[p]), LsW(p, at[p]))
                     /\ LsR(p, at[p]) \in SUBSET PI!Fds /\ LsW(p, at[p]) \in SUBSET PI!Fds
          <5>1. 0 \in PI!Fds /\ 1 \in PI!Fds /\ PfdR \in PI!Fds /\ PfdW \in PI!Fds
            BY DEF PipeType, PI!Fds
          <5>2. LsR(p, at[p]) \in SUBSET PI!Fds /\ LsW(p, at[p]) \in SUBSET PI!Fds
            BY <5>1 DEF LsR, LsW
          <5> QED BY <5>2 DEF LsTables
        <4> QED BY ONLY <1>0, <4>1, <3>1, TableHas
      <3>3. at' = [at EXCEPT !["two"] = "done"] /\ PipeType'
        BY <2>2 DEF PI!Move, PipeType, PfdR, PfdW
      <3>4. at'.two = "done" /\ \A q \in PI!Procs : q # "two" => at'[q] = at[q]
        BY <1>0, <3>3 DEF PipeType
      <3>5. LsTables'
        BY <1>0, <1>t, <2>0, <2>2, <3>4, LsOne DEF LsR, LsW
      <3>6. /\ at.parent \notin {"fork", "fork2", "close", "closeWrite"}
            /\ at.one \notin {"close", "dup", "exec", "write", "done"}
        BY <3>2 DEF LsW
      <3> QED BY <1>0, <2>0, <2>2, <3>3, <3>4, <3>5, <3>6 DEF LsPlace, LsData, PfdR, PfdW
    <2> QED BY <1>0, <1>5, <1>t, <2>1, <2>2, ReadCall
  <1> QED BY <1>1, <1>2, <1>3, <1>4, <1>5 DEF PI!Wc

LEMMA StepLsParent == LsParts /\ PI!LsWcParent => LsParts'
  <1> SUFFICES ASSUME LsParts, PI!LsWcParent PROVE LsParts'
    OBVIOUS
  <1> USE DEF LsParts
  <1>0. "one" \in PI!Procs /\ "parent" \in PI!Procs /\ "two" \in PI!Procs
    BY DEF PI!Procs
  <1>t. /\ PipeType /\ DOMAIN os.fd["parent"] = PI!Fds
        /\ Table(os.fd["parent"], LsR("parent", at.parent), LsW("parent", at.parent))
    BY <1>0 DEF LsTables, Table
  <1>1. CASE PI!Pipe("parent", "pipe", "fork")
    <2>1. /\ DOMAIN os.fd["parent"] = PI!Fds
          /\ os.fd["parent"][3] = "none" /\ os.fd["parent"][4] = "none"
          /\ at.parent = "pipe"
      BY <1>1, <1>t DEF LsPlace, Table, PI!Pipe, PI!Move
    <2>2. /\ at' = [at EXCEPT !["parent"] = "fork"] /\ PipeType'
          /\ mem'.left = mem.left /\ os'.pipe = os.pipe /\ PfdR' # PfdW'
          /\ DOMAIN os'.fd["parent"] = PI!Fds
          /\ \A f \in PI!Fds : os'.fd["parent"][f] = IF f = PfdR' THEN "r" ELSE IF f = PfdW' THEN "w"
                                                     ELSE os.fd["parent"][f]
          /\ \A q \in PI!Procs : q # "parent" => os'.fd[q] = os.fd[q] /\ at'[q] = at[q]
      BY ONLY <1>0, <1>1, <1>t, <2>1, PipeCall
    <2>3. at'.parent = "fork" /\ at.one = "unborn" /\ at.two = "unborn"
      BY <1>0, <2>1, <2>2 DEF LsPlace, PipeType
    <2>4. Table(os.fd["parent"], {}, {}) /\ Table(os.fd["one"], {}, {}) /\ Table(os.fd["two"], {}, {})
      BY <1>0, <2>1, <2>3 DEF LsTables, LsR, LsW
    <2>5. Table(os'.fd["parent"], {PfdR'}, {PfdW'})
      BY <2>2, <2>4 DEF Table
    <2>6. LsTables'
      BY <1>0, <2>2, <2>3, <2>4, <2>5 DEF LsTables, LsR, LsW, PI!Procs
    <2> QED BY <1>0, <2>2, <2>3, <2>6 DEF LsPlace, LsData
  <1>2. ASSUME NEW c \in {"one", "two"}, NEW l \in {"fork", "fork2"}, NEW k \in {"fork2", "close"},
               c = "one" <=> l = "fork", l = "fork" <=> k = "fork2",
               PI!Fork("parent", c, l, k, "close")
        PROVE  LsParts'
    <2>0. c \in PI!Procs /\ c # "parent" /\ PI!Fork("parent", c, l, k, "close")
      BY <1>2 DEF PI!Procs
    <2>1. /\ at.parent = l /\ mem' = mem /\ PipeType' /\ os'.pipe = os.pipe
          /\ at'.parent = k /\ at'[c] = "close" /\ os'.fd[c] = os.fd["parent"]
          /\ \A q \in PI!Procs : q # c => os'.fd[q] = os.fd[q]
          /\ \A q \in PI!Procs : q # c /\ q # "parent" => at'[q] = at[q]
      BY <1>0, <1>t, <2>0 DEF PI!Fork, PipeType, PfdR, PfdW
    <2>2. Table(os'.fd[c], {PfdR}, {PfdW}) /\ Table(os'.fd["parent"], {PfdR}, {PfdW})
      BY <1>0, <1>t, <2>0, <2>1 DEF LsR, LsW
    <2>3. PfdR' = PfdR /\ PfdW' = PfdW
      BY <2>1 DEF PfdR, PfdW
    <2>4. LsTables'
      <3> SUFFICES ASSUME NEW q \in PI!Procs PROVE Table(os.fd[q], LsR(q, at[q]), LsW(q, at[q]))'
        BY DEF LsTables
      <3>1. LsR(q, at[q])' = LsR(q, at'[q]) /\ LsW(q, at[q])' = LsW(q, at'[q])
        BY <2>3 DEF LsR, LsW
      <3>2. Table(os'.fd[q], LsR(q, at'[q]), LsW(q, at'[q]))
        <4>1. CASE q = c
          BY <4>1, <2>1, <2>2 DEF LsR, LsW
        <4>2. CASE q = "parent"
          BY <4>2, <2>1, <2>2 DEF LsR, LsW
        <4>3. CASE q # c /\ q # "parent"
          BY <4>3, <2>1 DEF LsTables, LsR, LsW
        <4> QED BY <4>1, <4>2, <4>3
      <3> QED BY <3>1, <3>2 DEF Table
    <2> QED BY <1>0, <1>2, <2>1, <2>3, <2>4 DEF LsPlace, LsData
  <1>3. CASE PI!End("parent", "fork", "exit") \/ PI!End("parent", "fork2", "exit")
             \/ PI!End("parent", "done", "exit")
    <2>1. /\ at.parent \in {"fork", "fork2", "done"} /\ mem' = mem /\ PipeType' /\ os'.pipe = os.pipe
          /\ at'.parent = "exit" /\ Table(os'.fd["parent"], {}, {})
          /\ \A q \in PI!Procs : q # "parent" => os'.fd[q] = os.fd[q] /\ at'[q] = at[q]
      BY ONLY <1>0, <1>3, <1>t, EndCall
    <2>2. LsTables'
      BY <1>0, <2>1, LsOne DEF LsR, LsW
    <2> QED BY <1>0, <2>1, <2>2 DEF LsPlace, LsData, PfdR, PfdW
  <1>4. CASE PI!Close("parent", mem.pfd[1], "close", "closeWrite")
    <2>0. PfdR \in PI!Fds /\ PI!Close("parent", PfdR, "close", "closeWrite")
      BY <1>4 DEF PipeType, PfdR
    <2>1. /\ at.parent = "close" /\ mem' = mem /\ PipeType' /\ os'.pipe = os.pipe
          /\ at'.parent = "closeWrite"
          /\ DOMAIN os'.fd["parent"] = PI!Fds /\ os'.fd["parent"][PfdR] = "none"
          /\ \A g \in PI!Fds : g # PfdR => os'.fd["parent"][g] = os.fd["parent"][g]
          /\ \A q \in PI!Procs : q # "parent" => os'.fd[q] = os.fd[q] /\ at'[q] = at[q]
      BY ONLY <1>0, <2>0, <1>t, CloseCall
    <2>2. PfdR # PfdW
      BY <2>1 DEF LsPlace
    <2>3. Table(os'.fd["parent"], {}, {PfdW})
      BY <1>t, <2>1, <2>2 DEF LsR, LsW, Table
    <2>4. LsTables'
      BY <1>0, <2>1, <2>3, LsOne DEF LsR, LsW
    <2> QED BY <1>0, <2>1, <2>4 DEF LsPlace, LsData, PfdR, PfdW
  <1>5. CASE PI!Close("parent", mem.pfd[2], "closeWrite", "wait")
    <2>0. PfdW \in PI!Fds /\ PI!Close("parent", PfdW, "closeWrite", "wait")
      BY <1>5 DEF PipeType, PfdW
    <2>1. /\ at.parent = "closeWrite" /\ mem' = mem /\ PipeType' /\ os'.pipe = os.pipe
          /\ at'.parent = "wait"
          /\ DOMAIN os'.fd["parent"] = PI!Fds /\ os'.fd["parent"][PfdW] = "none"
          /\ \A g \in PI!Fds : g # PfdW => os'.fd["parent"][g] = os.fd["parent"][g]
          /\ \A q \in PI!Procs : q # "parent" => os'.fd[q] = os.fd[q] /\ at'[q] = at[q]
      BY ONLY <1>0, <2>0, <1>t, CloseCall
    <2>3. Table(os'.fd["parent"], {}, {})
      BY <1>t, <2>1 DEF LsR, LsW, Table
    <2>4. LsTables'
      BY <1>0, <2>1, <2>3, LsOne DEF LsR, LsW
    <2> QED BY <1>0, <2>1, <2>4 DEF LsPlace, LsData, PfdR, PfdW
  <1>6. CASE PI!Wait("wait", "wait2") \/ PI!Wait("wait2", "done")
    <2>1. PICK c \in {"one", "two"} :
             /\ at.parent \in {"wait", "wait2"} /\ UNCHANGED <<mem, os>>
             /\ at[c] \in {"exit", "killed"}
             /\ \/ at' = [at EXCEPT !.parent = "wait2", ![c] = "reaped"]
                \/ at' = [at EXCEPT !.parent = "done", ![c] = "reaped"]
      BY <1>6 DEF PI!Wait, PI!Procs
    <2>2. /\ PipeType' /\ at'.parent \in {"wait2", "done"} /\ at'[c] = "reaped"
          /\ \A q \in PI!Procs : q # "parent" /\ q # c => at'[q] = at[q]
      <3>1. DOMAIN at = PI!Procs
        BY DEF PipeType
      <3>2. DOMAIN at' = PI!Procs /\ at'.parent \in {"wait2", "done"} /\ at'[c] = "reaped"
            /\ \A q \in PI!Procs : q # "parent" /\ q # c => at'[q] = at[q]
        BY <1>0, <2>1, <3>1
      <3> QED BY <2>1, <3>2 DEF PipeType, PfdR, PfdW
    <2>3. PfdR' = PfdR /\ PfdW' = PfdW
      BY <2>1 DEF PfdR, PfdW
    <2>4. LsTables'
      <3> SUFFICES ASSUME NEW q \in PI!Procs PROVE Table(os.fd[q], LsR(q, at[q]), LsW(q, at[q]))'
        BY DEF LsTables
      <3>1. LsR(q, at[q])' = LsR(q, at[q]) /\ LsW(q, at[q])' = LsW(q, at[q])
        BY <2>1, <2>2, <2>3 DEF LsR, LsW
      <3>2. os'.fd[q] = os.fd[q]
        BY <2>1
      <3> QED BY <3>1, <3>2 DEF Table, LsTables
    <2> QED BY <1>0, <2>1, <2>2, <2>3, <2>4 DEF LsPlace, LsData
  <1>7. CASE PI!Fork("parent", "one", "fork", "fork2", "close")
    BY <1>2, <1>7
  <1>8. CASE PI!Fork("parent", "two", "fork2", "close", "close")
    BY <1>2, <1>8
  <1> HIDE DEF LsParts
  <1> QED BY <1>1, <1>3, <1>4, <1>5, <1>6, <1>7, <1>8 DEF PI!LsWcParent

LEMMA KillLs ==
    ASSUME LsParts, NEW c \in PI!Procs, PI!Killed(c)
    PROVE  LsParts'
  <1> USE DEF LsParts
  <1>1. c \in {"one", "two"} /\ at[c] \notin {"unborn", "exit", "killed", "reaped"}
        /\ PI!End(c, at[c], "killed")
    BY DEF PI!Killed, PI!Procs, PI!Gone
  <1>2. /\ mem' = mem /\ PipeType' /\ os'.pipe = os.pipe /\ at'[c] = "killed"
        /\ Table(os'.fd[c], {}, {})
        /\ \A q \in PI!Procs : q # c => os'.fd[q] = os.fd[q] /\ at'[q] = at[q]
    <2>1. PipeType
      OBVIOUS
    <2> QED BY ONLY <1>1, <2>1, c \in PI!Procs, EndCall
  <1>3. LsTables'
    BY <1>1, <1>2, LsOne DEF LsR, LsW
  <1> QED BY <1>1, <1>2, <1>3 DEF LsPlace, LsData, PI!Procs, PfdR, PfdW

-----------------------------------------------------------------------------
(* popen_glob: the standard descriptors are open, so that the pipe is at   *)
(* 3 and 4, and the shell's write end at 1.                                *)
GlobR(p, l) ==
    IF \/ p = "parent" /\ l \in {"popen", "popened", "read", "pclose"}
       \/ p = "one" /\ l = "popened"
    THEN {PfdR} ELSE {}

GlobW(p, l) ==
    IF \/ p = "parent" /\ l \in {"popen", "popened"}
       \/ p = "one" /\ l \in {"popened", "dup"}
    THEN {PfdW} ELSE IF p = "one" /\ l \in {"write", "done"} THEN {1} ELSE {}

GlobPlace ==
    /\ at.parent \in {"prompt", "popen", "popened", "read", "pclose", "wait", "print", "exit"}
    /\ at.one \in {"unborn", "popened", "dup", "write", "done", "exit", "killed", "reaped"}
    /\ at.two = "unborn"
    /\ at.parent # "exit" =>
          /\ os.fd["parent"][0] = "tty" /\ os.fd["parent"][1] = "tty" /\ os.fd["parent"][2] = "tty"
          /\ os.fd["parent"][3] \in {"none", "r", "w"} /\ os.fd["parent"][4] \in {"none", "r", "w"}
    /\ at.parent \notin {"prompt", "exit"} => PfdR # PfdW /\ PfdR \in {3, 4} /\ PfdW \in {3, 4}

(* The parent reads until nobody can write, so that a pattern leaves       *)
(* nothing for the next.                                                   *)
GlobData ==
    /\ at.parent \in {"pclose", "wait"} =>
          os.pipe = 0 /\ at.one \notin {"popened", "dup", "write", "done"}
    /\ at.parent \in {"prompt", "popen", "print", "exit"} =>
          os.pipe = 0 /\ at.one \in {"unborn", "reaped"}

GlobTables == \A p \in PI!Procs : Table(os.fd[p], GlobR(p, at[p]), GlobW(p, at[p]))

GlobParts == PipeType /\ GlobPlace /\ GlobData /\ GlobTables

LEMMA GlobOne ==
    ASSUME GlobTables, NEW p \in PI!Procs, mem'.pfd = mem.pfd,
           \A q \in PI!Procs : q # p => os'.fd[q] = os.fd[q] /\ at'[q] = at[q],
           Table(os'.fd[p], GlobR(p, at'[p]), GlobW(p, at'[p]))
    PROVE  GlobTables'
  <1>1. PfdR' = PfdR /\ PfdW' = PfdW
    BY DEF PfdR, PfdW
  <1> SUFFICES ASSUME NEW q \in PI!Procs PROVE Table(os.fd[q], GlobR(q, at[q]), GlobW(q, at[q]))'
    BY DEF GlobTables
  <1>2. GlobR(q, at[q])' = GlobR(q, at'[q]) /\ GlobW(q, at[q])' = GlobW(q, at'[q])
    BY <1>1 DEF GlobR, GlobW
  <1>3. Table(os'.fd[q], GlobR(q, at'[q]), GlobW(q, at'[q]))
    BY DEF GlobTables
  <1> QED BY <1>2, <1>3 DEF Table

LEMMA StepPopen == GlobParts /\ PI!Popen => GlobParts'
  <1> SUFFICES ASSUME GlobParts, PI!Popen PROVE GlobParts'
    OBVIOUS
  <1> USE DEF GlobParts
  <1>0. "one" \in PI!Procs /\ "parent" \in PI!Procs /\ "two" \in PI!Procs
    BY DEF PI!Procs
  <1>t. /\ PipeType /\ DOMAIN os.fd["parent"] = PI!Fds /\ DOMAIN os.fd["one"] = PI!Fds
        /\ Table(os.fd["parent"], GlobR("parent", at.parent), GlobW("parent", at.parent))
        /\ Table(os.fd["one"], GlobR("one", at.one), GlobW("one", at.one))
    BY <1>0 DEF GlobTables, Table
  <1>1. CASE PI!Pipe("parent", "prompt", "popen")
    <2>0. at.parent = "prompt"
      BY <1>1 DEF PI!Pipe, PI!Move
    <2>1. /\ DOMAIN os.fd["parent"] = PI!Fds
          /\ os.fd["parent"][3] = "none" /\ os.fd["parent"][4] = "none"
      BY <1>t, <2>0 DEF GlobPlace, GlobR, GlobW, Table, PI!Fds
    <2>2. /\ at' = [at EXCEPT !["parent"] = "popen"] /\ PipeType'
          /\ mem'.left = mem.left /\ os'.pipe = os.pipe /\ PfdR' # PfdW'
          /\ os.fd["parent"][PfdR'] = "none" /\ os.fd["parent"][PfdW'] = "none"
          /\ DOMAIN os'.fd["parent"] = PI!Fds
          /\ \A f \in PI!Fds : os'.fd["parent"][f] = IF f = PfdR' THEN "r" ELSE IF f = PfdW' THEN "w"
                                                     ELSE os.fd["parent"][f]
          /\ \A q \in PI!Procs : q # "parent" => os'.fd[q] = os.fd[q] /\ at'[q] = at[q]
      BY ONLY <1>0, <1>1, <1>t, <2>1, PipeCall
    <2>3. at'.parent = "popen" /\ at.one \in {"unborn", "reaped"} /\ at.two = "unborn"
      BY <1>0, <2>0, <2>2 DEF GlobPlace, GlobData, PipeType
    <2>4. Table(os.fd["parent"], {}, {}) /\ Table(os.fd["one"], {}, {}) /\ Table(os.fd["two"], {}, {})
      BY <1>0, <2>0, <2>3 DEF GlobTables, GlobR, GlobW
    <2>5. Table(os'.fd["parent"], {PfdR'}, {PfdW'})
      BY <2>2, <2>4 DEF Table
    <2>6. GlobTables'
      BY <1>0, <2>2, <2>3, <2>4, <2>5 DEF GlobTables, GlobR, GlobW, PI!Procs
    <2>7. /\ os.fd["parent"][0] = "tty" /\ os.fd["parent"][1] = "tty" /\ os.fd["parent"][2] = "tty"
          /\ PfdR' \in PI!Fds /\ PfdW' \in PI!Fds
      BY <2>0, <2>2 DEF GlobPlace, PipeType
    <2>8. PfdR' \in {3, 4} /\ PfdW' \in {3, 4}
      BY <2>2, <2>7 DEF PI!Fds
    <2>9. /\ os'.fd["parent"][0] = "tty" /\ os'.fd["parent"][1] = "tty" /\ os'.fd["parent"][2] = "tty"
          /\ os'.fd["parent"][3] \in {"none", "r", "w"} /\ os'.fd["parent"][4] \in {"none", "r", "w"}
      BY <2>1, <2>2, <2>7, <2>8 DEF PI!Fds
    <2> QED BY <1>0, <2>0, <2>2, <2>3, <2>6, <2>8, <2>9 DEF GlobPlace, GlobData
  <1>2. CASE PI!Fork("parent", "one", "popen", "popened", "popened")
    <2>1. /\ at.parent = "popen" /\ mem' = mem /\ PipeType' /\ os'.pipe = os.pipe
          /\ at'.parent = "popened" /\ at'.one = "popened" /\ os'.fd["one"] = os.fd["parent"]
          /\ \A q \in PI!Procs : q # "one" => os'.fd[q] = os.fd[q]
          /\ \A q \in PI!Procs : q # "one" /\ q # "parent" => at'[q] = at[q]
      BY ONLY <1>0, <1>2, <1>t, ForkCall
    <2>2. Table(os'.fd["one"], {PfdR}, {PfdW}) /\ Table(os'.fd["parent"], {PfdR}, {PfdW})
      BY <1>0, <1>t, <2>1 DEF GlobR, GlobW
    <2>3. GlobTables'
      BY <1>0, <2>1, <2>2 DEF GlobTables, GlobR, GlobW, PI!Procs, PfdR, PfdW
    <2> QED BY <1>0, <2>1, <2>3 DEF GlobPlace, GlobData, PfdR, PfdW
  <1>3. CASE /\ PI!Move("parent", "popen", "prompt")
             /\ os' = [os EXCEPT !.fd.parent[mem.pfd[1]] = "none", !.fd.parent[mem.pfd[2]] = "none"]
             /\ mem' = [mem EXCEPT !.typed = @ + 1]
    <2>1. at.parent = "popen" /\ at' = [at EXCEPT !["parent"] = "prompt"]
      BY <1>3 DEF PI!Move
    <2>2. at'.parent = "prompt" /\ \A q \in PI!Procs : q # "parent" => at'[q] = at[q]
      BY <1>0, <2>1 DEF PipeType
    <2>3. PICK half : half = [os EXCEPT !.fd["parent"][PfdR] = "none"]
      OBVIOUS
    <2>4. os' = [half EXCEPT !.fd["parent"][PfdW] = "none"]
      BY <1>3, <2>3 DEF PipeType, PfdR, PfdW
    <2>5. /\ DOMAIN half = {"pipe", "fd"} /\ DOMAIN half.fd = PI!Procs /\ half.pipe = os.pipe
          /\ DOMAIN half.fd["parent"] = PI!Fds
          /\ \A f \in PI!Fds : half.fd["parent"][f] = IF f = PfdR THEN "none" ELSE os.fd["parent"][f]
          /\ \A q \in PI!Procs : q # "parent" => half.fd[q] = os.fd[q]
      BY <1>0, <1>t, <2>3 DEF PipeType
    <2>6. /\ DOMAIN os' = {"pipe", "fd"} /\ DOMAIN os'.fd = PI!Procs /\ os'.pipe = os.pipe
          /\ DOMAIN os'.fd["parent"] = PI!Fds
          /\ \A f \in PI!Fds : os'.fd["parent"][f] = IF f = PfdW THEN "none" ELSE half.fd["parent"][f]
          /\ \A q \in PI!Procs : q # "parent" => os'.fd[q] = os.fd[q]
      BY <1>0, <2>4, <2>5 DEF PipeType
    <2>7. mem'.pfd = mem.pfd /\ mem'.n = mem.n /\ mem'.left = mem.left /\ mem'.got = mem.got
          /\ DOMAIN mem' = DOMAIN mem /\ PfdR' = PfdR /\ PfdW' = PfdW
      BY <1>3 DEF PipeType, PfdR, PfdW
    <2>8. PipeType'
      BY <2>1, <2>6, <2>7 DEF PipeType
    <2>9. Table(os'.fd["parent"], {}, {})
      BY <1>t, <2>1, <2>5, <2>6 DEF Table, GlobR, GlobW
    <2>10. GlobTables'
      <3>1. Table(os'.fd["parent"], GlobR("parent", at'["parent"]), GlobW("parent", at'["parent"]))
        BY <2>2, <2>9 DEF GlobR, GlobW
      <3> QED BY <1>0, <2>2, <2>6, <2>7, <3>1, GlobOne
    <2>11. /\ os'.fd["parent"][0] = "tty" /\ os'.fd["parent"][1] = "tty" /\ os'.fd["parent"][2] = "tty"
           /\ os'.fd["parent"][3] \in {"none", "r", "w"} /\ os'.fd["parent"][4] \in {"none", "r", "w"}
      BY <2>1, <2>5, <2>6 DEF PI!Fds, GlobPlace
    <2> QED BY <1>0, <2>1, <2>2, <2>6, <2>8, <2>10, <2>11 DEF GlobPlace, GlobData
  <1>4. CASE PI!Close("parent", mem.pfd[2], "popened", "read")
    <2>0. PfdW \in PI!Fds /\ PI!Close("parent", PfdW, "popened", "read")
      BY <1>4 DEF PipeType, PfdW
    <2>1. /\ at.parent = "popened" /\ mem' = mem /\ PipeType' /\ os'.pipe = os.pipe
          /\ at'.parent = "read"
          /\ DOMAIN os'.fd["parent"] = PI!Fds /\ os'.fd["parent"][PfdW] = "none"
          /\ \A g \in PI!Fds : g # PfdW => os'.fd["parent"][g] = os.fd["parent"][g]
          /\ \A q \in PI!Procs : q # "parent" => os'.fd[q] = os.fd[q] /\ at'[q] = at[q]
      BY ONLY <1>0, <2>0, <1>t, CloseCall
    <2>2. PfdR # PfdW /\ PfdW \in {3, 4}
      BY <2>1 DEF GlobPlace
    <2>3. Table(os'.fd["parent"], {PfdR}, {})
      BY <1>t, <2>1, <2>2 DEF GlobR, GlobW, Table
    <2>4. GlobTables'
      BY <1>0, <2>1, <2>3, GlobOne DEF GlobR, GlobW
    <2>5. /\ os'.fd["parent"][0] = "tty" /\ os'.fd["parent"][1] = "tty" /\ os'.fd["parent"][2] = "tty"
          /\ os'.fd["parent"][3] \in {"none", "r", "w"} /\ os'.fd["parent"][4] \in {"none", "r", "w"}
      BY <2>1, <2>2 DEF PI!Fds, GlobPlace
    <2> QED BY <1>0, <2>1, <2>4, <2>5 DEF GlobPlace, GlobData, PfdR, PfdW
  <1>5. CASE PI!Close("one", mem.pfd[1], "popened", "dup")
    <2>0. PfdR \in PI!Fds /\ PI!Close("one", PfdR, "popened", "dup")
      BY <1>5 DEF PipeType, PfdR
    <2>1. /\ at.one = "popened" /\ mem' = mem /\ PipeType' /\ os'.pipe = os.pipe
          /\ at'.one = "dup"
          /\ DOMAIN os'.fd["one"] = PI!Fds /\ os'.fd["one"][PfdR] = "none"
          /\ \A g \in PI!Fds : g # PfdR => os'.fd["one"][g] = os.fd["one"][g]
          /\ \A q \in PI!Procs : q # "one" => os'.fd[q] = os.fd[q] /\ at'[q] = at[q]
      BY ONLY <1>0, <2>0, <1>t, CloseCall
    <2>2. PfdR # PfdW
      BY <2>1 DEF GlobPlace, GlobData
    <2>3. Table(os'.fd["one"], {}, {PfdW})
      BY <1>t, <2>1, <2>2 DEF GlobR, GlobW, Table
    <2>4. GlobTables'
      BY <1>0, <2>1, <2>3, GlobOne DEF GlobR, GlobW
    <2> QED BY <1>0, <2>1, <2>4 DEF GlobPlace, GlobData, PfdR, PfdW
  <1>6. CASE PI!Dup2Close("one", mem.pfd[2], 1, "dup", "write")
    <2>0. at.one = "dup"
      BY <1>6 DEF PI!Dup2Close, PI!Move
    <2>1. /\ PfdW \in PI!Fds /\ 1 \in PI!Fds /\ PfdW # 1
          /\ PI!Dup2Close("one", PfdW, 1, "dup", "write")
      BY <1>6, <2>0 DEF PipeType, PfdW, PI!Fds, GlobPlace, GlobData
    <2>2. /\ mem' = mem /\ PipeType' /\ os'.pipe = os.pipe
          /\ at'.one = "write" /\ DOMAIN os'.fd["one"] = PI!Fds
          /\ \A g \in PI!Fds : os'.fd["one"][g] = IF g = PfdW THEN "none"
                                     ELSE IF g = 1 THEN os.fd["one"][PfdW] ELSE os.fd["one"][g]
          /\ \A q \in PI!Procs : q # "one" => os'.fd[q] = os.fd[q] /\ at'[q] = at[q]
      BY ONLY <1>0, <2>1, <1>t, DupCall
    <2>3. Table(os'.fd["one"], {}, {1})
      BY <1>t, <2>0, <2>1, <2>2 DEF GlobR, GlobW, Table
    <2>4. GlobTables'
      BY <1>0, <2>2, <2>3, GlobOne DEF GlobR, GlobW
    <2> QED BY <1>0, <2>0, <2>2, <2>4 DEF GlobPlace, GlobData, PfdR, PfdW
  <1> HIDE DEF GlobParts
  <1> QED BY <1>1, <1>2, <1>3, <1>4, <1>5, <1>6 DEF PI!Popen

LEMMA StepGlob == GlobParts /\ PI!Glob => GlobParts'
  <1> SUFFICES ASSUME GlobParts, PI!Glob PROVE GlobParts'
    OBVIOUS
  <1> USE DEF GlobParts
  <1>0. "one" \in PI!Procs /\ "parent" \in PI!Procs /\ "two" \in PI!Procs
    BY DEF PI!Procs
  <1>t. /\ PipeType /\ DOMAIN os.fd["parent"] = PI!Fds /\ DOMAIN os.fd["one"] = PI!Fds
        /\ Table(os.fd["parent"], GlobR("parent", at.parent), GlobW("parent", at.parent))
        /\ Table(os.fd["one"], GlobR("one", at.one), GlobW("one", at.one))
    BY <1>0 DEF GlobTables, Table
  <1>1. CASE PI!Write("one", "write", "done")
    <2>0. at.one = "write"
      BY <1>1 DEF PI!Write
    <2>1. CASE /\ at' = at /\ os'.fd = os.fd /\ mem'.pfd = mem.pfd /\ PipeType'
               /\ mem.left > 0
      <3>1. GlobTables'
        BY <2>1 DEF GlobTables, GlobR, GlobW, PfdR, PfdW
      <3> QED BY <2>0, <2>1, <3>1 DEF GlobPlace, GlobData, PfdR, PfdW
    <2>2. CASE PI!End("one", "write", "killed")
      <3>1. /\ mem' = mem /\ PipeType' /\ os'.pipe = os.pipe
            /\ at'.one = "killed" /\ Table(os'.fd["one"], {}, {})
            /\ \A q \in PI!Procs : q # "one" => os'.fd[q] = os.fd[q] /\ at'[q] = at[q]
        BY ONLY <1>0, <2>2, <1>t, EndCall
      <3>2. GlobTables'
        BY <1>0, <3>1, GlobOne DEF GlobR, GlobW
      <3> QED BY <1>0, <2>0, <3>1, <3>2 DEF GlobPlace, GlobData, PfdR, PfdW
    <2>3. CASE mem.left = 0 /\ PI!Move("one", "write", "done") /\ UNCHANGED <<mem, os>>
      <3>1. at' = [at EXCEPT !["one"] = "done"] /\ PipeType'
        BY <2>3 DEF PI!Move, PipeType, PfdR, PfdW
      <3>2. at'.one = "done" /\ \A q \in PI!Procs : q # "one" => at'[q] = at[q]
        BY <1>0, <3>1 DEF PipeType
      <3>3. GlobTables'
        BY <1>0, <1>t, <2>0, <2>3, <3>2, GlobOne DEF GlobR, GlobW
      <3> QED BY <1>0, <2>0, <2>3, <3>1, <3>2, <3>3 DEF GlobPlace, GlobData, PfdR, PfdW
    <2> QED BY <1>0, <1>1, <1>t, <2>1, <2>2, <2>3, WriteCall
  <1>2. CASE PI!End("one", "done", "exit")
    <2>1. /\ at.one = "done" /\ mem' = mem /\ PipeType' /\ os'.pipe = os.pipe
          /\ at'.one = "exit" /\ Table(os'.fd["one"], {}, {})
          /\ \A q \in PI!Procs : q # "one" => os'.fd[q] = os.fd[q] /\ at'[q] = at[q]
      BY ONLY <1>0, <1>2, <1>t, EndCall
    <2>2. GlobTables'
      BY <1>0, <2>1, GlobOne DEF GlobR, GlobW
    <2> QED BY <1>0, <2>1, <2>2 DEF GlobPlace, GlobData, PfdR, PfdW
  <1>3. CASE PI!Read("parent", "read", "pclose")
    <2>0. at.parent = "read"
      BY <1>3 DEF PI!Read
    <2>1. CASE /\ at' = at /\ os'.fd = os.fd /\ mem'.pfd = mem.pfd /\ PipeType'
               /\ mem'.left = mem.left
      <3>1. GlobTables'
        BY <2>1 DEF GlobTables, GlobR, GlobW, PfdR, PfdW
      <3> QED BY <2>0, <2>1, <3>1 DEF GlobPlace, GlobData, PfdR, PfdW
    <2>2. CASE os.pipe = 0 /\ PI!Writers = {} /\ PI!Move("parent", "read", "pclose")
               /\ UNCHANGED <<mem, os>>
      <3>1. ~PI!Has("one", "w")
        BY <1>0, <2>2 DEF PI!Writers
      <3>2. GlobW("one", at.one) = {}
        <4>1. 1 \in PI!Fds /\ PfdR \in PI!Fds /\ PfdW \in PI!Fds
          BY DEF PipeType, PI!Fds
        <4>2. GlobR("one", at.one) \in SUBSET PI!Fds /\ GlobW("one", at.one) \in SUBSET PI!Fds
          BY <4>1 DEF GlobR, GlobW
        <4> QED BY ONLY <1>t, <4>2, <3>1, TableHas
      <3>3. at' = [at EXCEPT !["parent"] = "pclose"] /\ PipeType'
        BY <2>2 DEF PI!Move, PipeType, PfdR, PfdW
      <3>4. at'.parent = "pclose" /\ \A q \in PI!Procs : q # "parent" => at'[q] = at[q]
        BY <1>0, <3>3 DEF PipeType
      <3>5. GlobTables'
        BY <1>0, <1>t, <2>0, <2>2, <3>4, GlobOne DEF GlobR, GlobW
      <3>6. at.one \notin {"popened", "dup", "write", "done"}
        BY <3>2 DEF GlobW
      <3> QED BY <1>0, <2>0, <2>2, <3>3, <3>4, <3>5, <3>6 DEF GlobPlace, GlobData, PfdR, PfdW
    <2> QED BY <1>0, <1>3, <1>t, <2>1, <2>2, ReadCall
  <1>4. CASE PI!Close("parent", mem.pfd[1], "pclose", "wait")
    <2>0. PfdR \in PI!Fds /\ PI!Close("parent", PfdR, "pclose", "wait")
      BY <1>4 DEF PipeType, PfdR
    <2>1. /\ at.parent = "pclose" /\ mem' = mem /\ PipeType' /\ os'.pipe = os.pipe
          /\ at'.parent = "wait"
          /\ DOMAIN os'.fd["parent"] = PI!Fds /\ os'.fd["parent"][PfdR] = "none"
          /\ \A g \in PI!Fds : g # PfdR => os'.fd["parent"][g] = os.fd["parent"][g]
          /\ \A q \in PI!Procs : q # "parent" => os'.fd[q] = os.fd[q] /\ at'[q] = at[q]
      BY ONLY <1>0, <2>0, <1>t, CloseCall
    <2>2. PfdR # PfdW /\ PfdR \in {3, 4}
      BY <2>1 DEF GlobPlace
    <2>3. Table(os'.fd["parent"], {}, {})
      BY <1>t, <2>1, <2>2 DEF GlobR, GlobW, Table
    <2>4. GlobTables'
      BY <1>0, <2>1, <2>3, GlobOne DEF GlobR, GlobW
    <2>5. /\ os'.fd["parent"][0] = "tty" /\ os'.fd["parent"][1] = "tty" /\ os'.fd["parent"][2] = "tty"
          /\ os'.fd["parent"][3] \in {"none", "r", "w"} /\ os'.fd["parent"][4] \in {"none", "r", "w"}
      BY <2>1, <2>2 DEF PI!Fds, GlobPlace
    <2> QED BY <1>0, <2>1, <2>4, <2>5 DEF GlobPlace, GlobData, PfdR, PfdW
  <1>5. CASE PI!Wait("wait", "print")
    <2>1. /\ at.parent = "wait" /\ UNCHANGED <<mem, os>> /\ at.one \in {"exit", "killed"}
          /\ at' = [at EXCEPT !.parent = "print", !["one"] = "reaped"]
      BY <1>5 DEF PI!Wait, GlobPlace, PI!Procs
    <2>2. PipeType' /\ at'.parent = "print" /\ at'.one = "reaped" /\ at'.two = at.two
      BY <1>0, <2>1 DEF PipeType, PfdR, PfdW
    <2>3. GlobTables'
      BY <2>1, <2>2 DEF GlobTables, GlobR, GlobW, PI!Procs, PfdR, PfdW
    <2> QED BY <2>1, <2>2, <2>3 DEF GlobPlace, GlobData, PfdR, PfdW
  <1>6. CASE /\ PI!Move("parent", "print", "prompt") /\ UNCHANGED os
             /\ mem' = [mem EXCEPT !.typed = @ + 1, !.left = mem.n, !.got = 0]
    <2>1. at.parent = "print" /\ at' = [at EXCEPT !["parent"] = "prompt"] /\ os' = os
      BY <1>6 DEF PI!Move
    <2>2. at'.parent = "prompt" /\ \A q \in PI!Procs : q # "parent" => at'[q] = at[q]
      BY <1>0, <2>1 DEF PipeType
    <2>3. /\ mem'.pfd = mem.pfd /\ mem'.n = mem.n /\ mem'.left = mem.n /\ mem'.got = 0
          /\ DOMAIN mem' = DOMAIN mem /\ PfdR' = PfdR /\ PfdW' = PfdW
      BY <1>6 DEF PipeType, PfdR, PfdW
    <2>4. os.pipe = 0
      BY <2>1 DEF GlobData
    <2>5. PipeType'
      BY <2>1, <2>3, <2>4 DEF PipeType
    <2>6. GlobTables'
      BY <1>0, <1>t, <2>1, <2>2, <2>3, GlobOne DEF GlobR, GlobW
    <2> QED BY <1>0, <2>1, <2>2, <2>3, <2>5, <2>6 DEF GlobPlace, GlobData
  <1> HIDE DEF GlobParts
  <1> QED BY <1>1, <1>2, <1>3, <1>4, <1>5, <1>6 DEF PI!Glob

(* End of file at the prompt, or a signal to the shell. *)
LEMMA EndGlob ==
    ASSUME GlobParts, PI!Eof \/ \E c \in PI!Procs : PI!Killed(c)
    PROVE  GlobParts'
  <1> USE DEF GlobParts
  <1>0. "one" \in PI!Procs /\ "parent" \in PI!Procs /\ "two" \in PI!Procs
    BY DEF PI!Procs
  <1>1. CASE PI!Eof
    <2>0. PipeType /\ PI!End("parent", "prompt", "exit")
      BY <1>1 DEF PI!Eof
    <2>1. /\ at.parent = "prompt" /\ mem' = mem /\ PipeType' /\ os'.pipe = os.pipe
          /\ at'.parent = "exit" /\ Table(os'.fd["parent"], {}, {})
          /\ \A q \in PI!Procs : q # "parent" => os'.fd[q] = os.fd[q] /\ at'[q] = at[q]
      BY ONLY <1>0, <2>0, EndCall
    <2>2. GlobTables'
      BY <1>0, <2>1, GlobOne DEF GlobR, GlobW
    <2> QED BY <1>0, <2>1, <2>2 DEF GlobPlace, GlobData, PfdR, PfdW
  <1>2. CASE \E c \in PI!Procs : PI!Killed(c)
    <2>1. PipeType /\ at.one \notin {"unborn", "exit", "killed", "reaped"}
          /\ PI!End("one", at.one, "killed")
      BY <1>2 DEF PI!Killed, PI!Procs, PI!Gone, GlobPlace
    <2>2. /\ mem' = mem /\ PipeType' /\ os'.pipe = os.pipe /\ at'["one"] = "killed"
          /\ Table(os'.fd["one"], {}, {})
          /\ \A q \in PI!Procs : q # "one" => os'.fd[q] = os.fd[q] /\ at'[q] = at[q]
      BY ONLY <1>0, <2>1, EndCall
    <2>3. GlobTables'
      BY <1>0, <2>2, GlobOne DEF GlobR, GlobW
    <2> QED BY <1>0, <2>1, <2>2, <2>3 DEF GlobPlace, GlobData, PI!Procs, PfdR, PfdW
  <1> QED BY <1>1, <1>2

-----------------------------------------------------------------------------
PipesInv ==
    /\ Runs("simple_pipe") => SimpleParts
    /\ Runs("pipe_ls_wc") => LsParts
    /\ Runs("popen_glob") => GlobParts

LEMMA InitPipes == MCInit => PipesInv
  <1> SUFFICES ASSUME MCInit, mem.prog \in PI!PipeProgs PROVE PipesInv
    BY DEF PipesInv, Runs, PI!PipeProgs
  <1>1. PI!Init
    BY DEF MCInit, NotRunning, Runs, FO!Init, FO!SyncInit, FO!StateInit, ER!Init, FI!Init,
       PI!PipeProgs, FO!SyncProgs, FO!StateProgs, ER!Progs, FI!Progs
  <1>2. PICK pr \in PI!PipeProgs, n \in 0 .. MaxData, closed \in SUBSET {0, 1} :
        /\ pr # "pipe_ls_wc" => closed = {}
        /\ mem = [prog |-> pr, pfd |-> <<0, 0>>, n |-> n, left |-> n, got |-> 0, typed |-> 0]
        /\ at = [p \in PI!Procs |-> IF p # "parent" THEN "unborn"
                                    ELSE IF pr = "popen_glob" THEN "prompt" ELSE "pipe"]
        /\ os = [pipe |-> 0,
                 fd |-> [p \in PI!Procs |-> [f \in PI!Fds |->
                     IF p = "parent" /\ f \in {0, 1, 2} \ closed THEN "tty" ELSE "none"]]]
    BY <1>1, Zenon DEF PI!Init
  <1>3. PipeType
    BY <1>2 DEF PipeType, PfdR, PfdW, PI!Fds
  <1>4. /\ \A p \in PI!Procs : Table(os.fd[p], {}, {})
        /\ os.fd["parent"][3] = "none" /\ os.fd["parent"][4] = "none"
        /\ closed = {} => os.fd["parent"][0] = "tty" /\ os.fd["parent"][1] = "tty"
                          /\ os.fd["parent"][2] = "tty"
    BY <1>2 DEF Table, PI!Fds, PI!Procs
  <1>5. /\ at.parent = IF pr = "popen_glob" THEN "prompt" ELSE "pipe"
        /\ at.one = "unborn" /\ at.two = "unborn" /\ os.pipe = 0 /\ mem.prog = pr
    BY <1>2 DEF PI!Procs
  <1>6. CASE pr = "simple_pipe"
    BY <1>3, <1>4, <1>5, <1>6 DEF PipesInv, Runs, SimpleParts, SimplePlace, SimpleData,
       SimpleTables, SimpleR, SimpleW, PI!Procs
  <1>7. CASE pr = "pipe_ls_wc"
    BY <1>3, <1>4, <1>5, <1>7 DEF PipesInv, Runs, LsParts, LsPlace, LsData,
       LsTables, LsR, LsW, PI!Procs
  <1>8. CASE pr = "popen_glob"
    BY <1>2, <1>3, <1>4, <1>5, <1>8 DEF PipesInv, Runs, GlobParts, GlobPlace, GlobData,
       GlobTables, GlobR, GlobW, PI!Procs
  <1> QED BY <1>6, <1>7, <1>8 DEF PI!PipeProgs

LEMMA SamePipes == PipesInv /\ UNCHANGED <<at, mem, os>> => PipesInv'
  BY DEF PipesInv, Runs, SimpleParts, SimplePlace, SimpleData, SimpleTables, SimpleR, SimpleW,
     LsParts, LsPlace, LsData, LsTables, LsR, LsW, GlobParts, GlobPlace, GlobData, GlobTables,
     GlobR, GlobW, PipeType, PfdR, PfdW, Table

LEMMA StepPipes == ProgInv /\ PipesInv /\ [MCNext]_<<machine, vars>> => PipesInv'
  <1> SUFFICES ASSUME ProgInv, PipesInv, [MCNext]_<<machine, vars>> PROVE PipesInv'
    OBVIOUS
  <1>1. CASE UNCHANGED <<at, mem, os>>
    BY <1>1, SamePipes
  <1>2. CASE PI!Next
    <2>1. mem.prog \in PI!PipeProgs /\ mem'.prog = mem.prog
      BY <1>2, PipesKeep
    <2>2. CASE UNCHANGED PI!machine
      BY <2>2, SamePipes DEF PI!machine
    <2>3. CASE ~UNCHANGED PI!machine
      <3>1. Runs("simple_pipe") => SimpleParts'
        BY <1>2, <2>3, StepSimpleChild, StepSimpleParent, KillSimple
        DEF PipesInv, PI!Next, PI!Program, PI!simple_pipe, Runs, PI!Runs
      <3>2. Runs("pipe_ls_wc") => LsParts'
        BY <1>2, <2>3, StepLs, StepWc, StepLsParent, KillLs
        DEF PipesInv, PI!Next, PI!Program, PI!pipe_ls_wc, Runs, PI!Runs
      <3>3. Runs("popen_glob") => GlobParts'
        BY <1>2, <2>3, StepPopen, StepGlob, EndGlob
        DEF PipesInv, PI!Next, PI!Program, PI!popen_glob, PI!BadPattern, Runs, PI!Runs
      <3> QED BY <2>1, <3>1, <3>2, <3>3 DEF PipesInv, Runs
    <2> QED BY <2>2, <2>3
  <1>3. CASE FO!Step \/ FO!StateNext \/ ER!Next \/ FI!Next
    <2>1. mem'.prog = mem.prog /\ mem.prog \notin PI!PipeProgs
      BY <1>3, SyncKeeps, StateKeeps, ErrorsKeep, FilesKeep
      DEF FO!SyncProgs, PI!PipeProgs, ER!Progs, FI!Progs, FO!StateProgs
    <2> QED BY <2>1 DEF PipesInv, Runs, PI!PipeProgs
  <1> QED
    BY <1>1, <1>2, <1>3 DEF MCNext, machine, FO!Next, FO!SyncNext, FO!machine

(* Who reads a pipe to its end has read all that was written, whichever    *)
(* standard descriptors the caller closed and whoever is killed; ls and wc *)
(* are joined by it; and after pclose() nothing is left of a pattern.      *)
THEOREM PipesAlways == MCSpec => []PI!PipeWhole
  <1>1. PipesInv => PI!PipeWhole
    <2> SUFFICES ASSUME PipesInv PROVE PI!PipeWhole
      OBVIOUS
    <2>1. Runs("simple_pipe") /\ at.one \in {"done", "exit"} => mem.got = mem.n
      BY DEF PipesInv, SimpleParts, SimpleData, PipeType
    <2>2. Runs("pipe_ls_wc") =>
              /\ at.one = "exit" => mem.left = 0
              /\ at.two \in {"done", "exit"} => mem.got = mem.n - mem.left
      BY DEF PipesInv, LsParts, LsData, PipeType
    <2>3. Runs("popen_glob") /\ at.parent = "print" => mem.got = mem.n - mem.left
      BY DEF PipesInv, GlobParts, GlobData, PipeType
    <2>4. Runs("popen_glob") /\ at.parent \in {"print", "prompt"} =>
              PI!Writers = {} /\ PI!Readers = {} /\ os.pipe = 0 /\ at.one \in {"unborn", "reaped"}
      <3> SUFFICES ASSUME GlobParts, at.parent \in {"print", "prompt"}
                   PROVE  PI!Writers = {} /\ PI!Readers = {} /\ os.pipe = 0
                          /\ at.one \in {"unborn", "reaped"}
        BY DEF PipesInv
      <3>1. at.two = "unborn" /\ os.pipe = 0 /\ at.one \in {"unborn", "reaped"}
        BY DEF GlobParts, GlobPlace, GlobData
      <3>2. \A p \in PI!Procs : Table(os.fd[p], {}, {})
        BY <3>1 DEF GlobParts, GlobTables, GlobR, GlobW, PI!Procs
      <3>3. ASSUME NEW p \in PI!Procs PROVE ~PI!Has(p, "r") /\ ~PI!Has(p, "w")
        BY <3>2 DEF PI!Has, Table
      <3> QED BY <3>1, <3>3 DEF PI!Writers, PI!Readers
    <2> QED
      BY <2>1, <2>2, <2>3, <2>4 DEF PI!PipeWhole, PI!Runs, Runs
  <1> QED BY InitSync, StepSync, InitPipes, StepPipes, <1>1, PTL DEF MCSpec

-----------------------------------------------------------------------------
(* The error functions and exit(): what each process has put into the file *)
(* at which place, and what is left in its buffer and of its handlers.     *)
ErrType ==
    /\ DOMAIN at = {"parent", "child"}
    /\ DOMAIN mem = {"prog", "f", "who", "dump", "status", "buf", "handlers", "errno", "err", "saved"}
    /\ DOMAIN os = {"out"} /\ DOMAIN os.out = {"parent", "child"}
    /\ DOMAIN mem.buf = {"parent", "child"} /\ DOMAIN mem.handlers = {"parent", "child"}
    /\ mem.f \in ER!Functions /\ mem.who \in {"parent", "child"} /\ mem.dump \in BOOLEAN

(* exit(3) of a process whose buffer held b. *)
Unwound(h, buf, b) ==
    \/ h = <<"h1", "h2">> /\ buf = b
    \/ h = <<"h1">> /\ buf = Append(b, <<"h2">>)
    \/ h = <<>> /\ buf = Append(Append(b, <<"h2">>), <<"h1">>)

Reporting == {"call", "flush", "message", "terminate", "exit", "ended", "aborted"}

CallerPlace ==
    /\ mem.who = "parent" => at.child = "unborn" /\ at.parent \in Reporting \cup {"start"}
    /\ mem.who = "child" => \/ at.parent = "start" /\ at.child = "unborn"
                            \/ at.parent \in {"exit", "ended"} /\ at.child \in Reporting

(* The process that reports the error, and the parent of a child that      *)
(* does.                                                                   *)
SaidBy == IF mem.f = "err_exit" THEN ER!ItsMessage ELSE ER!Data \o ER!ItsMessage

Fresh(p) == mem.buf[p] = ER!Data /\ mem.handlers[p] = <<"h1", "h2">> /\ os.out[p] = <<>>

ReporterSaid(p) ==
    /\ at[p] \in {"start", "unborn", "call", "flush"} => Fresh(p) /\ mem.errno = "E1"
    /\ at[p] \in {"flush", "message"} =>
          mem.saved = "E1" /\ ER!ItsMessage = << <<"error", mem.err>> >>
    /\ at[p] \in {"message", "terminate"} =>
          mem.handlers[p] = <<"h1", "h2">> /\ (mem.f # "err_exit" => mem.buf[p] = <<>>)
    /\ at[p] = "message" => os.out[p] = IF mem.f = "err_exit" THEN <<>> ELSE ER!Data
    /\ at[p] = "terminate" => os.out[p] = SaidBy
    /\ at[p] \in {"terminate", "exit", "ended", "aborted"} => (mem.f = "errMsg" => mem.errno = "E1")
    /\ at[p] = "exit" =>
          ER!HandlersRun /\ os.out[p] = SaidBy /\ Unwound(mem.handlers[p], mem.buf[p], <<>>)
    /\ at[p] \in {"ended", "aborted"} =>
          os.out[p] = SaidBy \o (IF ER!HandlersRun THEN ER!HandlerTexts ELSE <<>>)

OtherSaid(p) ==
    /\ at[p] = "start" => Fresh(p)
    /\ at[p] = "exit" => os.out[p] = <<>> /\ Unwound(mem.handlers[p], mem.buf[p], ER!Data)
    /\ at[p] = "ended" => os.out[p] = ER!Data \o ER!HandlerTexts

CallerParts ==
    /\ ErrType /\ CallerPlace
    /\ ReporterSaid(mem.who)
    /\ mem.who = "child" => OtherSaid("parent")

(* The short sequences that occur. *)
LEMMA NoText == \A S : \A s \in Seq(S) : <<>> \o s = s /\ s \o <<>> = s
  BY ConcatEmptySeq

LEMMA ItsTexts ==
    /\ <<>> \o ER!Data = ER!Data
    /\ <<>> \o ER!ItsMessage = ER!ItsMessage
    /\ SaidBy \o <<>> = SaidBy
    /\ Append(Append(<<>>, <<"h2">>), <<"h1">>) = ER!HandlerTexts
    /\ <<>> \o Append(Append(ER!Data, <<"h2">>), <<"h1">>) = ER!Data \o ER!HandlerTexts
  <1>1. PICK d : d = <<"data">>
    OBVIOUS
  <1>2. PICK a : a = <<"h2">>
    OBVIOUS
  <1>3. PICK b : b = <<"h1">>
    OBVIOUS
  <1>4. PICK m : ER!ItsMessage = <<m>>
    BY DEF ER!ItsMessage
  <1>5. ER!Data = <<d>> /\ ER!HandlerTexts = <<a, b>>
    BY <1>1, <1>2, <1>3 DEF ER!Data, ER!HandlerTexts
  <1>6. <<d>> \in Seq({d, a, b, m}) /\ <<m>> \in Seq({d, a, b, m}) /\ <<a, b>> \in Seq({d, a, b, m})
    OBVIOUS
  <1>7. <<d>> \o <<m>> \in Seq({d, a, b, m})
    BY <1>6
  <1>8. SaidBy \in Seq({d, a, b, m})
    BY <1>4, <1>5, <1>6, <1>7 DEF SaidBy
  <1>9. /\ <<>> \o ER!Data = ER!Data /\ <<>> \o ER!ItsMessage = ER!ItsMessage
        /\ SaidBy \o <<>> = SaidBy
    BY <1>4, <1>5, <1>6, <1>8, NoText
  <1>10. Append(Append(<<>>, a), b) = <<a, b>>
    <2>1. Append(<<>>, a) = <<a>>
      OBVIOUS
    <2>2. Append(<<a>>, b) = <<a, b>>
      BY AppendSecond, Zenon
    <2> QED BY <2>1, <2>2
  <1>11. <<>> \o Append(Append(<<d>>, a), b) = <<d>> \o <<a, b>>
    <2>1. Append(<<d>>, a) = <<d, a>>
      BY AppendSecond, Zenon
    <2>2. Append(<<d, a>>, b) = <<d, a, b>>
      BY AppendThird, Zenon
    <2>3. <<d, a, b>> \in Seq({d, a, b, m})
      OBVIOUS
    <2>4. <<>> \o <<d, a, b>> = <<d, a, b>>
      BY <2>3, NoText
    <2>5. <<d>> \o <<a, b>> \in Seq({d, a, b, m}) /\ Len(<<d>> \o <<a, b>>) = 3
          /\ \A i \in 1 .. 3 : (<<d>> \o <<a, b>>)[i] = <<d, a, b>>[i]
      <3>1. Len(<<d>>) = 1 /\ Len(<<a, b>>) = 2
        OBVIOUS
      <3>2. \A i \in 1 .. 3 : (<<d>> \o <<a, b>>)[i] = IF i =< 1 THEN <<d>>[i] ELSE <<a, b>>[i - 1]
        BY <1>6, <3>1
      <3>3. \A i \in 1 .. 3 : i = 1 \/ i = 2 \/ i = 3
        OBVIOUS
      <3>4. \A i \in 1 .. 3 : (<<d>> \o <<a, b>>)[i] = <<d, a, b>>[i]
        BY <3>2, <3>3
      <3>5. <<d>> \o <<a, b>> \in Seq({d, a, b, m}) /\ Len(<<d>> \o <<a, b>>) = 3
        BY <1>6, <3>1
      <3> QED BY <3>4, <3>5
    <2>6. Len(<<d, a, b>>) = 3
      OBVIOUS
    <2>7. <<d>> \o <<a, b>> = <<d, a, b>>
      BY <2>3, <2>5, <2>6, SeqEqual
    <2> QED BY <2>1, <2>2, <2>4, <2>7
  <1>12. Append(Append(<<>>, <<"h2">>), <<"h1">>) = ER!HandlerTexts
    BY ONLY <1>2, <1>3, <1>5, <1>10
  <1>13. <<>> \o Append(Append(ER!Data, <<"h2">>), <<"h1">>) = ER!Data \o ER!HandlerTexts
    BY ONLY <1>2, <1>3, <1>5, <1>11
  <1> QED BY <1>9, <1>12, <1>13

LEMMA FirstOfTwo == \A a, b : SubSeq(<<a, b>>, 1, 1) = <<a>>
  <1> SUFFICES ASSUME NEW a, NEW b PROVE SubSeq(<<a, b>>, 1, 1) = <<a>>
    OBVIOUS
  <1>1. <<a, b>> \in Seq({a, b}) /\ <<a>> \in Seq({a, b}) /\ Len(<<a, b>>) = 2 /\ Len(<<a>>) = 1
    OBVIOUS
  <1>2. /\ SubSeq(<<a, b>>, 1, 1) \in Seq({a, b}) /\ Len(SubSeq(<<a, b>>, 1, 1)) = 1
        /\ SubSeq(<<a, b>>, 1, 1)[1] = <<a, b>>[1]
    BY <1>1
  <1>3. \A i \in 1 .. 1 : SubSeq(<<a, b>>, 1, 1)[i] = <<a>>[i]
    BY <1>2
  <1> QED BY <1>1, <1>2, <1>3, SeqEqual

(* One handler runs. *)
LEMMA Unwinds ==
    ASSUME NEW h, NEW buf, NEW b, Unwound(h, buf, b), h # <<>>
    PROVE  Unwound(ER!Front(h), Append(buf, ER!Printed(ER!Last(h))), b)
  <1>1. ER!Printed("h1") = <<"h1">> /\ ER!Printed("h2") = <<"h2">>
    BY DEF ER!Printed
  <1>2. ER!Front(<<"h1", "h2">>) = <<"h1">> /\ ER!Last(<<"h1", "h2">>) = "h2"
    <2>1. SubSeq(<<"h1", "h2">>, 1, 1) = <<"h1">>
      BY FirstOfTwo, Zenon
    <2> QED BY <2>1 DEF ER!Front, ER!Last
  <1>3. ER!Front(<<"h1">>) = <<>> /\ ER!Last(<<"h1">>) = "h1"
    <2>1. SubSeq(<<"h1">>, 1, 0) = <<>>
      OBVIOUS
    <2> QED BY <2>1 DEF ER!Front, ER!Last
  <1>4. CASE h = <<"h1", "h2">> /\ buf = b
    <2>1. ER!Front(h) = <<"h1">> /\ Append(buf, ER!Printed(ER!Last(h))) = Append(b, <<"h2">>)
      BY <1>1, <1>2, <1>4
    <2> QED BY <2>1 DEF Unwound
  <1>5. CASE h = <<"h1">> /\ buf = Append(b, <<"h2">>)
    <2>1. ER!Front(h) = <<>>
          /\ Append(buf, ER!Printed(ER!Last(h))) = Append(Append(b, <<"h2">>), <<"h1">>)
      BY <1>1, <1>3, <1>5
    <2> QED BY <2>1 DEF Unwound
  <1> QED BY <1>4, <1>5 DEF Unwound

(* What a call fixes. *)
LEMMA SameCall ==
    ASSUME mem'.f = mem.f, mem'.dump = mem.dump
    PROVE  /\ ER!ItsMessage' = ER!ItsMessage /\ SaidBy' = SaidBy
           /\ ER!HandlersRun' = ER!HandlersRun
  BY DEF ER!ItsMessage, SaidBy, ER!HandlersRun, ER!Data

LEMMA StepStart == CallerParts /\ (ER!Call \/ ER!Fork) => CallerParts'
  <1> SUFFICES ASSUME CallerParts, ER!Call \/ ER!Fork PROVE CallerParts'
    OBVIOUS
  <1>1. /\ mem' = mem /\ os' = os /\ ErrType' /\ at.parent = "start"
        /\ \/ mem.who = "parent" /\ at'.parent = "call" /\ at'.child = at.child
           \/ mem.who = "child" /\ at'.parent = "exit" /\ at'.child = "call"
    BY DEF CallerParts, ErrType, ER!Call, ER!Fork, ER!Move
  <1>2. ER!ItsMessage' = ER!ItsMessage /\ SaidBy' = SaidBy /\ ER!HandlersRun' = ER!HandlersRun
    BY <1>1, SameCall
  <1>3. CASE mem.who = "parent"
    BY <1>1, <1>2, <1>3 DEF CallerParts, CallerPlace, ReporterSaid, Fresh, Reporting, ErrType
  <1>4. CASE mem.who = "child"
    BY <1>1, <1>2, <1>4 DEF CallerParts, CallerPlace, ReporterSaid, OtherSaid, Fresh, Reporting,
       Unwound, ErrType
  <1> QED BY <1>3, <1>4 DEF CallerParts, ErrType

(* A step of the process that reports. *)
LEMMA ReporterStep ==
    ASSUME CallerParts, NEW p \in {"parent", "child"}, p = mem.who,
           ErrType', mem'.f = mem.f, mem'.dump = mem.dump, mem'.who = mem.who,
           at[p] \in Reporting, at'[p] \in Reporting,
           \A q \in {"parent", "child"} : q # p => /\ at'[q] = at[q] /\ os'.out[q] = os.out[q]
                                                   /\ mem'.buf[q] = mem.buf[q]
                                                   /\ mem'.handlers[q] = mem.handlers[q],
           ReporterSaid(p)'
    PROVE  CallerParts'
  <1>1. CASE p = "parent"
    BY <1>1 DEF CallerParts, CallerPlace, Reporting
  <1>2. CASE p = "child"
    <2>1. CallerPlace'
      BY <1>2 DEF CallerParts, CallerPlace, Reporting
    <2>2. OtherSaid("parent")'
      BY <1>2 DEF CallerParts, OtherSaid, Fresh
    <2> QED BY <1>2, <2>1, <2>2 DEF CallerParts
  <1> QED BY <1>1, <1>2

LEMMA StepReport ==
    ASSUME CallerParts, NEW p \in ER!Procs,
           ER!Begin(p) \/ ER!FlushStdout(p) \/ ER!Message(p) \/ ER!Terminate(p)
    PROVE  CallerParts'
  <1>0. p \in {"parent", "child"} /\ ErrType
    BY DEF ER!Procs, CallerParts
  <1>1. at[p] \in {"call", "flush", "message", "terminate"} /\ at[p] \in Reporting
    BY DEF ER!Begin, ER!FlushStdout, ER!Message, ER!Terminate, ER!Move, Reporting
  <1>2. p = mem.who
    BY <1>0, <1>1 DEF CallerParts, CallerPlace, Reporting, ErrType
  <1>3. ReporterSaid(p)
    BY <1>2 DEF CallerParts
  <1>4. CASE ER!Begin(p)
    <2>1. /\ at[p] = "call" /\ at' = [at EXCEPT ![p] = "flush"] /\ os' = os
          /\ mem' = [mem EXCEPT !.err = ER!Reported, !.saved = mem.errno]
      BY <1>4 DEF ER!Begin, ER!Move
    <2>2. /\ ErrType' /\ mem'.f = mem.f /\ mem'.dump = mem.dump /\ mem'.who = mem.who
          /\ mem'.buf = mem.buf /\ mem'.handlers = mem.handlers /\ mem'.errno = mem.errno
          /\ mem'.saved = mem.errno /\ mem'.err = ER!Reported
          /\ at'[p] = "flush" /\ at'[p] \in Reporting
          /\ \A q \in {"parent", "child"} : q # p => at'[q] = at[q]
      BY <1>0, <2>1 DEF ErrType, Reporting
    <2>3. Fresh(p) /\ mem.errno = "E1"
      BY <1>3, <2>1 DEF ReporterSaid
    <2>4. ER!ItsMessage = << <<"error", ER!Reported>> >>
      BY <1>0, <2>3 DEF ER!ItsMessage, ER!Reported, ErrType, ER!Functions
    <2>5. ER!ItsMessage' = ER!ItsMessage
      BY <2>2, SameCall
    <2>6. ReporterSaid(p)'
      BY <2>1, <2>2, <2>3, <2>4, <2>5 DEF ReporterSaid, Fresh
    <2> QED BY <1>0, <1>1, <1>2, <2>1, <2>2, <2>6, ReporterStep
  <1>5. CASE ER!FlushStdout(p)
    <2>1. at[p] = "flush" /\ at' = [at EXCEPT ![p] = "message"]
      BY <1>5 DEF ER!FlushStdout, ER!Move
    <2>2. Fresh(p) /\ mem.errno = "E1" /\ mem.saved = "E1" /\ ER!ItsMessage = << <<"error", mem.err>> >>
      BY <1>3, <2>1 DEF ReporterSaid
    <2>3. /\ ErrType' /\ mem'.f = mem.f /\ mem'.dump = mem.dump /\ mem'.who = mem.who
          /\ mem'.handlers = mem.handlers /\ mem'.saved = mem.saved /\ mem'.err = mem.err
          /\ mem.f # "err_exit" => mem'.buf[p] = <<>> /\ os'.out[p] = os.out[p] \o mem.buf[p]
          /\ mem.f = "err_exit" => os'.out[p] = os.out[p]
          /\ \A q \in {"parent", "child"} : q # p => os'.out[q] = os.out[q] /\ mem'.buf[q] = mem.buf[q]
      <3>1. CASE mem.f = "err_exit"
        BY <1>0, <1>5, <2>1, <3>1 DEF ER!FlushStdout, ErrType
      <3>2. CASE mem.f # "err_exit"
        <4>1. PICK e : mem' = [mem EXCEPT !.buf[p] = <<>>, !.errno = e]
          BY <1>5, <3>2 DEF ER!FlushStdout
        <4>2. os' = [os EXCEPT !.out[p] = @ \o mem.buf[p]]
          BY <1>5, <3>2 DEF ER!FlushStdout, ER!Out
        <4> QED BY <1>0, <2>1, <3>2, <4>1, <4>2 DEF ErrType
      <3> QED BY <3>1, <3>2
    <2>4. /\ at'[p] = "message" /\ at'[p] \in Reporting
          /\ \A q \in {"parent", "child"} : q # p => at'[q] = at[q]
      BY <1>0, <2>1 DEF ErrType, Reporting
    <2>5. ER!ItsMessage' = ER!ItsMessage
      BY <2>3, SameCall
    <2>6. os'.out[p] = IF mem.f = "err_exit" THEN <<>> ELSE ER!Data
      BY <2>2, <2>3, ItsTexts DEF Fresh
    <2>7. ReporterSaid(p)'
      BY <2>2, <2>3, <2>4, <2>5, <2>6 DEF ReporterSaid, Fresh
    <2> QED BY <1>0, <1>1, <1>2, <2>3, <2>4, <2>7, ReporterStep
  <1>6. CASE ER!Message(p)
    <2>1. at[p] = "message" /\ at' = [at EXCEPT ![p] = "terminate"]
      BY <1>6 DEF ER!Message, ER!Move
    <2>2. /\ mem.saved = "E1" /\ ER!ItsMessage = << <<"error", mem.err>> >>
          /\ mem.handlers[p] = <<"h1", "h2">> /\ (mem.f # "err_exit" => mem.buf[p] = <<>>)
          /\ os.out[p] = IF mem.f = "err_exit" THEN <<>> ELSE ER!Data
      BY <1>3, <2>1 DEF ReporterSaid
    <2>3. PICK e : mem' = [mem EXCEPT !.errno = IF mem.f = "errMsg" THEN mem.saved ELSE e]
      BY <1>6 DEF ER!Message
    <2>4. os' = [os EXCEPT !.out[p] = @ \o << <<"error", mem.err>> >>]
      BY <1>6 DEF ER!Message, ER!Out
    <2>5. /\ ErrType' /\ mem'.f = mem.f /\ mem'.dump = mem.dump /\ mem'.who = mem.who
          /\ mem'.handlers = mem.handlers /\ mem'.buf = mem.buf
          /\ mem.f = "errMsg" => mem'.errno = mem.saved
          /\ \A q \in {"parent", "child"} : q # p => os'.out[q] = os.out[q]
      BY <1>0, <2>1, <2>3, <2>4 DEF ErrType
    <2>6. os'.out[p] = SaidBy
      <3>1. os'.out[p] = os.out[p] \o ER!ItsMessage
        BY <1>0, <2>2, <2>4 DEF ErrType
      <3> QED BY <2>2, <3>1, ItsTexts DEF SaidBy
    <2>7. /\ at'[p] = "terminate" /\ at'[p] \in Reporting
          /\ \A q \in {"parent", "child"} : q # p => at'[q] = at[q]
      BY <1>0, <2>1 DEF ErrType, Reporting
    <2>8. SaidBy' = SaidBy
      BY <2>5, SameCall
    <2>9. ReporterSaid(p)'
      BY <2>2, <2>5, <2>6, <2>7, <2>8 DEF ReporterSaid
    <2> QED BY <1>0, <1>1, <1>2, <2>5, <2>7, <2>9, ReporterStep
  <1>7. CASE ER!Terminate(p)
    <2>1. PICK k : /\ k = IF mem.f \in {"errMsg", "usageErr", "cmdLineErr"} THEN "exit"
                          ELSE IF mem.dump THEN "aborted"
                          ELSE IF ER!UsesExit3 THEN "exit" ELSE "ended"
                   /\ at[p] = "terminate" /\ at' = [at EXCEPT ![p] = k] /\ os' = os
                   /\ mem' = [mem EXCEPT !.status = IF mem.f = "errMsg" THEN 0 ELSE 1]
      BY <1>7 DEF ER!Terminate
    <2>2. /\ mem.handlers[p] = <<"h1", "h2">> /\ (mem.f # "err_exit" => mem.buf[p] = <<>>)
          /\ os.out[p] = SaidBy /\ (mem.f = "errMsg" => mem.errno = "E1")
      BY <1>3, <2>1 DEF ReporterSaid
    <2>3. /\ ErrType' /\ mem'.f = mem.f /\ mem'.dump = mem.dump /\ mem'.who = mem.who
          /\ mem'.handlers = mem.handlers /\ mem'.buf = mem.buf /\ mem'.errno = mem.errno
      BY <1>0, <2>1 DEF ErrType
    <2>4. /\ at'[p] = k /\ k \in {"exit", "ended", "aborted"} /\ at'[p] \in Reporting
          /\ \A q \in {"parent", "child"} : q # p => at'[q] = at[q]
      BY <1>0, <2>1 DEF ErrType, Reporting
    <2>5. (k = "exit" <=> ER!HandlersRun) /\ (k = "exit" => mem.f # "err_exit")
      BY <1>0, <2>1 DEF ER!HandlersRun, ER!UsesExit3, ErrType
    <2>6. ER!HandlersRun' = ER!HandlersRun /\ SaidBy' = SaidBy
      BY <2>3, SameCall
    <2>7. ReporterSaid(p)'
      <3>1. CASE k = "exit"
        <4>1. Unwound(mem.handlers[p], mem.buf[p], <<>>)
          BY <2>2, <2>5, <3>1 DEF Unwound
        <4> QED BY <2>1, <2>2, <2>3, <2>4, <2>5, <2>6, <3>1, <4>1 DEF ReporterSaid
      <3>2. CASE k \in {"ended", "aborted"}
        <4>1. os'.out[p] = SaidBy \o <<>>
          BY <2>1, <2>2, ItsTexts
        <4>2. ~ER!HandlersRun
          BY <2>5, <3>2
        <4> QED BY <2>1, <2>2, <2>3, <2>4, <2>6, <3>2, <4>1, <4>2 DEF ReporterSaid
      <3> QED BY <2>4, <3>1, <3>2
    <2> QED BY <1>0, <1>1, <1>2, <2>1, <2>3, <2>4, <2>7, ReporterStep
  <1> QED BY <1>4, <1>5, <1>6, <1>7

(* A step of the parent whose child reports. *)
LEMMA OtherStep ==
    ASSUME CallerParts, mem.who = "child",
           ErrType', mem'.f = mem.f, mem'.dump = mem.dump, mem'.who = mem.who,
           mem'.errno = mem.errno, mem'.saved = mem.saved, mem'.err = mem.err,
           at["parent"] = "exit", at'["parent"] \in {"exit", "ended"},
           at'["child"] = at["child"], os'.out["child"] = os.out["child"],
           mem'.buf["child"] = mem.buf["child"], mem'.handlers["child"] = mem.handlers["child"],
           OtherSaid("parent")'
    PROVE  CallerParts'
  <1>1. ER!ItsMessage' = ER!ItsMessage /\ SaidBy' = SaidBy /\ ER!HandlersRun' = ER!HandlersRun
    BY SameCall
  <1>2. CallerPlace'
    BY DEF CallerParts, CallerPlace
  <1>3. ReporterSaid("child")'
    BY <1>1 DEF CallerParts, ReporterSaid, Fresh
  <1> QED BY <1>2, <1>3 DEF CallerParts

LEMMA StepExit ==
    ASSUME CallerParts, NEW p \in ER!Procs, ER!ExitHandler(p) \/ ER!ExitFlush(p)
    PROVE  CallerParts'
  <1>0. p \in {"parent", "child"} /\ ErrType /\ at[p] = "exit"
    BY DEF ER!Procs, CallerParts, ER!ExitHandler, ER!ExitFlush, ER!Move
  <1>1. p = mem.who \/ (p = "parent" /\ mem.who = "child")
    BY <1>0 DEF CallerParts, CallerPlace, ErrType
  <1>2. PICK h : h = mem.handlers[p]
    OBVIOUS
  <1>3. PICK b : b = mem.buf[p]
    OBVIOUS
  <1>4. CASE ER!ExitHandler(p)
    <2>1. PICK x : /\ x = ER!Printed(ER!Last(h))
                   /\ h # <<>> /\ UNCHANGED <<at, os>>
                   /\ mem' = [mem EXCEPT !.handlers[p] = ER!Front(@), !.buf[p] = Append(@, x)]
      BY <1>2, <1>4 DEF ER!ExitHandler
    <2>2. /\ ErrType' /\ mem'.f = mem.f /\ mem'.dump = mem.dump /\ mem'.who = mem.who
          /\ mem'.errno = mem.errno /\ mem'.saved = mem.saved /\ mem'.err = mem.err
          /\ mem'.handlers[p] = ER!Front(h) /\ mem'.buf[p] = Append(b, x)
          /\ \A q \in {"parent", "child"} :
                q # p => mem'.buf[q] = mem.buf[q] /\ mem'.handlers[q] = mem.handlers[q]
      BY <1>0, <1>2, <1>3, <2>1 DEF ErrType
    <2>3. ASSUME NEW base, Unwound(h, b, base) PROVE Unwound(ER!Front(h), Append(b, x), base)
      BY <2>1, <2>3, Unwinds
    <2>4. ER!HandlersRun' = ER!HandlersRun /\ SaidBy' = SaidBy
      BY <2>2, SameCall
    <2>5. CASE p = mem.who
      <3>1. /\ ER!HandlersRun /\ os.out[p] = SaidBy /\ Unwound(h, b, <<>>)
            /\ (mem.f = "errMsg" => mem.errno = "E1")
        BY <1>0, <1>2, <1>3, <2>5 DEF CallerParts, ReporterSaid
      <3>2. ReporterSaid(p)'
        BY <1>0, <2>1, <2>2, <2>3, <2>4, <3>1 DEF ReporterSaid
      <3> QED BY <1>0, <2>1, <2>2, <2>5, <3>2, ReporterStep DEF Reporting
    <2>6. CASE p = "parent" /\ mem.who = "child"
      <3>1. os.out["parent"] = <<>> /\ Unwound(h, b, ER!Data)
        BY <1>0, <1>2, <1>3, <2>6 DEF CallerParts, OtherSaid
      <3>2. OtherSaid("parent")'
        BY <1>0, <2>1, <2>2, <2>3, <2>6, <3>1 DEF OtherSaid, ER!Data
      <3> QED BY <1>0, <2>1, <2>2, <2>6, <3>2, OtherStep
    <2> QED BY <1>1, <2>5, <2>6
  <1>5. CASE ER!ExitFlush(p)
    <2>1. /\ h = <<>> /\ at' = [at EXCEPT ![p] = "ended"] /\ os' = [os EXCEPT !.out[p] = @ \o b]
          /\ mem' = [mem EXCEPT !.buf[p] = <<>>]
      BY <1>2, <1>3, <1>5 DEF ER!ExitFlush, ER!Out, ER!Move
    <2>2. /\ ErrType' /\ mem'.f = mem.f /\ mem'.dump = mem.dump /\ mem'.who = mem.who
          /\ mem'.errno = mem.errno /\ mem'.saved = mem.saved /\ mem'.err = mem.err
          /\ mem'.handlers = mem.handlers /\ at'[p] = "ended" /\ os'.out[p] = os.out[p] \o b
          /\ \A q \in {"parent", "child"} : q # p => /\ at'[q] = at[q] /\ os'.out[q] = os.out[q]
                                                     /\ mem'.buf[q] = mem.buf[q]
      BY <1>0, <2>1 DEF ErrType
    <2>3. ASSUME NEW base, Unwound(h, b, base) PROVE b = Append(Append(base, <<"h2">>), <<"h1">>)
      BY <2>1, <2>3 DEF Unwound
    <2>4. ER!HandlersRun' = ER!HandlersRun /\ SaidBy' = SaidBy
      BY <2>2, SameCall
    <2>5. CASE p = mem.who
      <3>1. /\ ER!HandlersRun /\ os.out[p] = SaidBy /\ Unwound(h, b, <<>>)
            /\ (mem.f = "errMsg" => mem.errno = "E1")
        BY <1>0, <1>2, <1>3, <2>5 DEF CallerParts, ReporterSaid
      <3>2. b = ER!HandlerTexts
        BY <2>3, <3>1, ItsTexts
      <3>3. ReporterSaid(p)'
        BY <2>2, <2>4, <3>1, <3>2 DEF ReporterSaid, ER!HandlerTexts
      <3> QED BY <1>0, <2>2, <2>5, <3>3, ReporterStep DEF Reporting
    <2>6. CASE p = "parent" /\ mem.who = "child"
      <3>1. os.out["parent"] = <<>> /\ Unwound(h, b, ER!Data)
        BY <1>0, <1>2, <1>3, <2>6 DEF CallerParts, OtherSaid
      <3>2. os'.out["parent"] = ER!Data \o ER!HandlerTexts
        BY <2>2, <2>3, <2>6, <3>1, ItsTexts
      <3>3. OtherSaid("parent")'
        BY <2>2, <2>6, <3>2 DEF OtherSaid, ER!Data, ER!HandlerTexts
      <3> QED BY <1>0, <2>2, <2>6, <3>3, OtherStep
    <2> QED BY <1>1, <2>5, <2>6
  <1> QED BY <1>4, <1>5

(* exit_handlers: hs are the handlers registered and not yet run, texts    *)
(* what those of n that have run have printed, the latest first.           *)
Names == {"on_exit 10", "atexit 1", "atexit 2", "on_exit 20"}

Texts == {<<h>> : h \in Names} \cup {<<h, s>> : h \in Names, s \in {0, 1, 2}}

FirstOnes(hs) ==
    /\ hs \in Seq(Names) /\ Len(hs) =< Len(ER!Registered)
    /\ \A i \in 1 .. Len(hs) : hs[i] = ER!Registered[i]

RanOf(n, k, texts) ==
    /\ n \in Nat /\ k \in Nat /\ k =< n /\ n =< Len(ER!Registered)
    /\ mem.status = 2 => n = Len(ER!Registered)
    /\ texts \in Seq(Texts) /\ Len(texts) = n - k
    /\ \A i \in 1 .. (n - k) : texts[i] = ER!Printed(ER!Registered[n - i + 1])

HandlersParts ==
    /\ ErrType /\ mem.f = "fatal" /\ at.child = "unborn" /\ at.parent \in Reporting \cup {"start"}
    /\ mem.status \in {0, 1, 2} /\ FirstOnes(mem.handlers["parent"])
    /\ at.parent \in {"start", "call", "flush", "message", "terminate"} =>
          mem.buf["parent"] = <<>> /\ mem.status = 0
    /\ at.parent \in {"start", "call", "flush", "message"} => os.out["parent"] = <<>>
    /\ at.parent \in {"flush", "message"} => mem.err = "none"
    /\ at.parent = "terminate" => os.out["parent"] = ER!ItsMessage
    /\ at.parent = "exit" =>
          /\ mem.status \in {1, 2}
          /\ os.out["parent"] = IF mem.status = 2 THEN <<>> ELSE ER!ItsMessage
          /\ \E n \in Nat : RanOf(n, Len(mem.handlers["parent"]), mem.buf["parent"])
    /\ at.parent \in {"ended", "aborted"} =>
          /\ mem.status \in {1, 2}
          /\ \E n \in Nat, texts \in Seq(Texts) :
                /\ RanOf(n, 0, texts)
                /\ os.out["parent"] = IF mem.status = 2 THEN texts ELSE ER!ItsMessage \o texts

LEMMA Registrations == ER!Registered \in Seq(Names) /\ Len(ER!Registered) = 4
  <1>1. \A a, b, c, d : <<a, b, c, d>> \in Seq({a, b, c, d}) /\ Len(<<a, b, c, d>>) = 4
    OBVIOUS
  <1> QED BY <1>1, Zenon DEF ER!Registered, Names

LEMMA StepRegister == HandlersParts /\ (ER!Register \/ ER!Exit2) => HandlersParts'
  <1> SUFFICES ASSUME HandlersParts, ER!Register \/ ER!Exit2 PROVE HandlersParts'
    OBVIOUS
  <1>0. /\ ErrType /\ at.parent = "start" /\ mem.buf["parent"] = <<>> /\ mem.status = 0
        /\ os.out["parent"] = <<>> /\ os' = os /\ FirstOnes(mem.handlers["parent"])
        /\ mem.f = "fatal" /\ at.child = "unborn"
    BY DEF HandlersParts, ER!Register, ER!Exit2, ER!Move
  <1>1. PICK hs : hs = mem.handlers["parent"]
    OBVIOUS
  <1>2. CASE /\ Len(hs) < Len(ER!Registered) /\ UNCHANGED at
             /\ mem' = [mem EXCEPT !.handlers["parent"] = Append(@, ER!Registered[Len(hs) + 1])]
    <2>1. /\ ErrType' /\ mem'.handlers["parent"] = Append(hs, ER!Registered[Len(hs) + 1])
          /\ mem'.f = mem.f /\ mem'.status = mem.status /\ mem'.buf = mem.buf
      BY <1>0, <1>1, <1>2 DEF ErrType
    <2>2. FirstOnes(Append(hs, ER!Registered[Len(hs) + 1]))
      <3>1. /\ hs \in Seq(Names) /\ Len(hs) \in Nat
            /\ \A i \in 1 .. Len(hs) : hs[i] = ER!Registered[i]
        BY <1>0, <1>1 DEF FirstOnes
      <3>2. PICK x : x = ER!Registered[Len(hs) + 1] /\ x \in Names
        <4>1. Len(hs) + 1 \in 1 .. Len(ER!Registered)
          BY <1>2, <3>1, Registrations
        <4>2. ER!Registered[Len(hs) + 1] \in Names
          BY <4>1, Registrations, ElementOfSeq
        <4> QED BY <4>2
      <3>3. Append(hs, x) \in Seq(Names) /\ Len(Append(hs, x)) = Len(hs) + 1
            /\ \A i \in 1 .. (Len(hs) + 1) : Append(hs, x)[i] = IF i =< Len(hs) THEN hs[i] ELSE x
        BY <3>1, <3>2
      <3>4. \A i \in 1 .. (Len(hs) + 1) : Append(hs, x)[i] = ER!Registered[i]
        BY <3>1, <3>2, <3>3
      <3> QED BY <1>2, <3>1, <3>2, <3>3, <3>4, Registrations DEF FirstOnes
    <2> QED BY <1>0, <1>2, <2>1, <2>2 DEF HandlersParts, FirstOnes, ER!Registered
  <1>3. CASE ER!Move("parent", "start", "call") /\ UNCHANGED mem
    <2>1. ErrType' /\ at'.parent = "call" /\ at'.child = "unborn" /\ mem' = mem
      BY <1>0, <1>3 DEF ErrType, ER!Move
    <2> QED BY <1>0, <2>1 DEF HandlersParts, Reporting, FirstOnes, ER!Registered
  <1>4. CASE ER!Exit2
    <2>1. /\ Len(hs) = Len(ER!Registered) /\ at' = [at EXCEPT !["parent"] = "exit"]
          /\ mem' = [mem EXCEPT !.status = 2]
      BY <1>1, <1>4 DEF ER!Exit2, ER!Move
    <2>2. /\ ErrType' /\ at'.parent = "exit" /\ at'.child = "unborn" /\ mem'.f = mem.f
          /\ mem'.handlers = mem.handlers /\ mem'.buf = mem.buf /\ mem'.status = 2
      BY <1>0, <2>1 DEF ErrType
    <2>3. RanOf(Len(hs), Len(hs), <<>>)'
      <3>1. <<>> \in Seq(Texts) /\ Len(<<>>) = 0 /\ Len(hs) \in Nat
        BY <1>0, <1>1 DEF FirstOnes
      <3>2. ER!Registered' = ER!Registered
        BY DEF ER!Registered
      <3> QED BY <2>1, <2>2, <3>1, <3>2, Registrations DEF RanOf
    <2>4. Len(hs) \in Nat
      BY <1>0, <1>1 DEF FirstOnes
    <2> QED BY <1>0, <1>1, <2>2, <2>3, <2>4 DEF HandlersParts, Reporting, FirstOnes, ER!Registered
  <1> QED BY <1>1, <1>2, <1>3, <1>4 DEF ER!Register

LEMMA SameRan ==
    ASSUME NEW n, NEW k, NEW t, RanOf(n, k, t), mem'.status = mem.status
    PROVE  RanOf(n, k, t)'
  <1>1. ER!Registered' = ER!Registered /\ Texts' = Texts
    BY DEF ER!Registered, Texts, Names
  <1>2. \A h : ER!Printed(h)' = ER!Printed(h)
    BY DEF ER!Printed
  <1> QED BY <1>1, <1>2 DEF RanOf

(* One more handler has run. *)
LEMMA RunOne ==
    ASSUME NEW n \in Nat, NEW hs, NEW t, FirstOnes(hs), hs # <<>>, mem.status \in {0, 1, 2},
           RanOf(n, Len(hs), t)
    PROVE  /\ FirstOnes(ER!Front(hs)) /\ Len(ER!Front(hs)) = Len(hs) - 1
           /\ RanOf(n, Len(hs) - 1, Append(t, ER!Printed(ER!Last(hs))))
  <1>1. /\ hs \in Seq(Names) /\ Len(hs) \in Nat /\ Len(hs) > 0 /\ Len(hs) =< Len(ER!Registered)
        /\ \A i \in 1 .. Len(hs) : hs[i] = ER!Registered[i]
    BY DEF FirstOnes
  <1>2. PICK k : k = Len(hs) /\ k \in Nat /\ k > 0 /\ k =< n
    BY <1>1 DEF RanOf
  <1>3. /\ ER!Front(hs) \in Seq(Names) /\ Len(ER!Front(hs)) = k - 1
        /\ \A i \in 1 .. (k - 1) : ER!Front(hs)[i] = hs[i]
    BY <1>1, <1>2 DEF ER!Front
  <1>4. FirstOnes(ER!Front(hs))
    BY <1>1, <1>2, <1>3, Registrations, SMTT(40) DEF FirstOnes
  <1>5. PICK x : x = ER!Printed(ER!Last(hs)) /\ x = ER!Printed(ER!Registered[k]) /\ x \in Texts
    <2>1. ER!Last(hs) = ER!Registered[k] /\ ER!Registered[k] \in Names
      BY <1>1, <1>2 DEF ER!Last
    <2>2. \A h \in Names : ER!Printed(h) \in Texts
      <3> SUFFICES ASSUME NEW h \in Names PROVE ER!Printed(h) \in Texts
        OBVIOUS
      <3>1. <<h>> \in Texts /\ <<h, mem.status>> \in Texts
        <4>1. PICK st \in {0, 1, 2} : st = mem.status
          OBVIOUS
        <4>2. <<h>> \in Texts /\ <<h, st>> \in Texts
          BY SMT DEF Texts
        <4> QED BY <4>1, <4>2
      <3> QED BY <3>1 DEF ER!Printed
    <2> QED BY <2>1, <2>2
  <1>6. /\ t \in Seq(Texts) /\ Len(t) = n - k /\ n =< Len(ER!Registered)
        /\ mem.status = 2 => n = Len(ER!Registered)
        /\ \A i \in 1 .. (n - k) : t[i] = ER!Printed(ER!Registered[n - i + 1])
    BY <1>2 DEF RanOf
  <1>7. /\ Append(t, x) \in Seq(Texts) /\ Len(Append(t, x)) = n - (k - 1)
        /\ \A i \in 1 .. (n - (k - 1)) : Append(t, x)[i] = IF i =< n - k THEN t[i] ELSE x
    <2>0. n - k \in Nat
      BY <1>2
    <2>1. PICK m \in Nat : m = n - k
      BY <2>0
    <2>2. /\ Append(t, x) \in Seq(Texts) /\ Len(Append(t, x)) = m + 1
          /\ \A i \in 1 .. (m + 1) : Append(t, x)[i] = IF i =< m THEN t[i] ELSE x
      BY <1>5, <1>6, <2>1, AppendProperties
    <2>3. n - (k - 1) = m + 1
      BY <1>2, <2>1
    <2> QED BY <2>1, <2>2, <2>3
  <1>8. \A i \in 1 .. (n - (k - 1)) : Append(t, x)[i] = ER!Printed(ER!Registered[n - i + 1])
    <2> SUFFICES ASSUME NEW i \in 1 .. (n - (k - 1))
                 PROVE  Append(t, x)[i] = ER!Printed(ER!Registered[n - i + 1])
      OBVIOUS
    <2>1. CASE i =< n - k
      <3>1. i \in 1 .. (n - k)
        BY <1>2, <2>1
      <3> QED BY <1>6, <1>7, <2>1, <3>1
    <2>2. CASE ~(i =< n - k)
      <3>1. n - i + 1 = k
        BY <1>2, <2>2
      <3> QED BY <1>5, <1>7, <2>2, <3>1
    <2> QED BY <2>1, <2>2
  <1>9. RanOf(n, k - 1, Append(t, x))
    BY <1>2, <1>6, <1>7, <1>8 DEF RanOf
  <1> QED BY <1>2, <1>3, <1>4, <1>5, <1>9

LEMMA StepHandlers ==
    ASSUME HandlersParts, NEW p \in ER!Procs,
           \/ ER!Begin(p) \/ ER!FlushStdout(p) \/ ER!Message(p) \/ ER!Terminate(p)
           \/ ER!ExitHandler(p) \/ ER!ExitFlush(p)
    PROVE  HandlersParts'
  <1>0. /\ ErrType /\ mem.f = "fatal" /\ at.child = "unborn" /\ mem.status \in {0, 1, 2}
        /\ FirstOnes(mem.handlers["parent"])
    BY DEF HandlersParts
  <1>1. p = "parent"
    BY <1>0 DEF ER!Procs, ER!Begin, ER!FlushStdout, ER!Message, ER!Terminate, ER!ExitHandler,
       ER!ExitFlush, ER!Move
  <1>m. ER!ItsMessage = << <<"error", "none">> >>
    BY <1>0 DEF ER!ItsMessage
  <1>r. ER!Registered' = ER!Registered
    BY DEF ER!Registered
  <1>s. /\ <<>> \o <<>> = <<>> /\ <<>> \o ER!ItsMessage = ER!ItsMessage
        /\ ER!ItsMessage \o <<>> = ER!ItsMessage
    <2>1. PICK m : ER!ItsMessage = <<m>>
      BY DEF ER!ItsMessage
    <2>2. <<m>> \in Seq({m}) /\ <<>> \in Seq({m})
      OBVIOUS
    <2> QED BY <2>1, <2>2, NoText
  <1>2. CASE ER!Begin("parent")
    <2>1. /\ at.parent = "call" /\ at' = [at EXCEPT !["parent"] = "flush"] /\ os' = os
          /\ mem' = [mem EXCEPT !.err = ER!Reported, !.saved = mem.errno]
          /\ ER!Reported = "none"
      BY <1>0, <1>2 DEF ER!Begin, ER!Move, ER!Reported
    <2>2. /\ ErrType' /\ at'.parent = "flush" /\ at'.child = "unborn" /\ mem'.err = "none"
          /\ mem'.f = mem.f /\ mem'.status = mem.status /\ mem'.buf = mem.buf
          /\ mem'.handlers = mem.handlers
      BY <1>0, <2>1 DEF ErrType
    <2> QED BY <1>0, <1>r, <2>1, <2>2 DEF HandlersParts, Reporting, FirstOnes
  <1>3. CASE ER!FlushStdout("parent")
    <2>1. PICK e : /\ at.parent = "flush" /\ at' = [at EXCEPT !["parent"] = "message"]
                   /\ os' = [os EXCEPT !.out["parent"] = @ \o mem.buf["parent"]]
                   /\ mem' = [mem EXCEPT !.buf["parent"] = <<>>, !.errno = e]
      BY <1>0, <1>3 DEF ER!FlushStdout, ER!Move, ER!Out
    <2>2. /\ ErrType' /\ at'.parent = "message" /\ at'.child = "unborn" /\ mem'.err = mem.err
          /\ mem'.f = mem.f /\ mem'.status = mem.status /\ mem'.buf["parent"] = <<>>
          /\ mem'.handlers = mem.handlers /\ os'.out["parent"] = os.out["parent"] \o mem.buf["parent"]
      BY <1>0, <2>1 DEF ErrType
    <2>3. os.out["parent"] = <<>> /\ mem.buf["parent"] = <<>> /\ mem.err = "none" /\ mem.status = 0
      BY <2>1 DEF HandlersParts
    <2>4. os'.out["parent"] = <<>>
      BY <1>s, <2>2, <2>3
    <2> QED BY <1>0, <1>r, <2>2, <2>3, <2>4, SMTT(40) DEF HandlersParts, Reporting, FirstOnes
  <1>4. CASE ER!Message("parent")
    <2>1. PICK e : /\ at.parent = "message" /\ at' = [at EXCEPT !["parent"] = "terminate"]
                   /\ os' = [os EXCEPT !.out["parent"] = @ \o << <<"error", mem.err>> >>]
                   /\ mem' = [mem EXCEPT !.errno = e]
      BY <1>0, <1>4 DEF ER!Message, ER!Move, ER!Out
    <2>2. os.out["parent"] = <<>> /\ mem.buf["parent"] = <<>> /\ mem.err = "none" /\ mem.status = 0
      BY <2>1 DEF HandlersParts
    <2>3. /\ ErrType' /\ at'.parent = "terminate" /\ at'.child = "unborn"
          /\ mem'.f = mem.f /\ mem'.status = mem.status /\ mem'.buf = mem.buf /\ mem'.dump = mem.dump
          /\ mem'.handlers = mem.handlers
          /\ os'.out["parent"] = os.out["parent"] \o << <<"error", mem.err>> >>
      BY <1>0, <2>1 DEF ErrType
    <2>4. os'.out["parent"] = ER!ItsMessage /\ ER!ItsMessage' = ER!ItsMessage
      BY <1>m, <1>s, <2>2, <2>3, SameCall
    <2> QED BY <1>0, <1>r, <2>2, <2>3, <2>4 DEF HandlersParts, Reporting, FirstOnes
  <1>5. CASE ER!Terminate("parent")
    <2>1. PICK k \in {"exit", "aborted"} :
             /\ at.parent = "terminate" /\ at' = [at EXCEPT !["parent"] = k] /\ os' = os
             /\ mem' = [mem EXCEPT !.status = 1]
      BY <1>0, <1>5 DEF ER!Terminate, ER!UsesExit3
    <2>2. os.out["parent"] = ER!ItsMessage /\ mem.buf["parent"] = <<>>
      BY <2>1 DEF HandlersParts
    <2>3. /\ ErrType' /\ at'.parent = k /\ at'.child = "unborn" /\ mem'.dump = mem.dump
          /\ mem'.f = mem.f /\ mem'.status = 1 /\ mem'.buf = mem.buf /\ mem'.handlers = mem.handlers
      BY <1>0, <2>1 DEF ErrType
    <2>4. ER!ItsMessage' = ER!ItsMessage
      BY <2>3, SameCall
    <2>5. PICK n \in Nat : n = Len(mem.handlers["parent"]) /\ n =< Len(ER!Registered)
      BY <1>0 DEF FirstOnes
    <2>6. RanOf(n, n, <<>>)' /\ RanOf(0, 0, <<>>)'
      <3>1. mem'.status # 2 /\ n =< Len(ER!Registered') /\ 0 =< Len(ER!Registered')
        BY <1>r, <2>3, <2>5, Registrations
      <3>2. ASSUME NEW m \in Nat, m =< Len(ER!Registered') PROVE RanOf(m, m, <<>>)'
        <4>1. <<>> \in Seq(Texts') /\ Len(<<>>) = 0 /\ m - m = 0
          OBVIOUS
        <4> QED BY <3>1, <3>2, <4>1 DEF RanOf
      <3> QED BY <3>1, <3>2
    <2>7. HandlersParts'
      <3>1. CASE k = "exit"
        BY <1>0, <1>r, <2>1, <2>2, <2>3, <2>4, <2>5, <2>6, <3>1 DEF HandlersParts, Reporting, FirstOnes
      <3>2. CASE k = "aborted"
        <4>1. <<>> \in Seq(Texts') /\ os'.out["parent"] = ER!ItsMessage' \o <<>>
          BY <1>s, <2>1, <2>2, <2>4
        <4>2. os'.out["parent"] = IF mem'.status = 2 THEN <<>> ELSE ER!ItsMessage' \o <<>>
          BY <2>3, <4>1
        <4>3. (\E m \in Nat, texts \in Seq(Texts) :
                 /\ RanOf(m, 0, texts)
                 /\ os.out["parent"] = IF mem.status = 2 THEN texts ELSE ER!ItsMessage \o texts)'
          BY <2>6, <4>1, <4>2, 0 \in Nat, Zenon
        <4> QED BY <1>0, <1>r, <2>1, <2>3, <3>2, <4>3 DEF HandlersParts, Reporting, FirstOnes
      <3> QED BY <3>1, <3>2
    <2> QED BY <2>7
  <1>6. CASE ER!ExitHandler("parent")
    <2>0. PICK hs : hs = mem.handlers["parent"]
      OBVIOUS
    <2>1. PICK x : /\ x = ER!Printed(ER!Last(hs)) /\ hs # <<>> /\ at.parent = "exit"
                   /\ UNCHANGED <<at, os>>
                   /\ mem' = [mem EXCEPT !.handlers["parent"] = ER!Front(@),
                                         !.buf["parent"] = Append(@, x)]
      BY <1>6, <2>0 DEF ER!ExitHandler
    <2>2. /\ ErrType' /\ mem'.handlers["parent"] = ER!Front(hs)
          /\ mem'.buf["parent"] = Append(mem.buf["parent"], x)
          /\ mem'.f = mem.f /\ mem'.status = mem.status /\ mem'.dump = mem.dump
      BY <1>0, <2>0, <2>1 DEF ErrType
    <2>3. PICK n \in Nat : RanOf(n, Len(hs), mem.buf["parent"])
      BY <2>0, <2>1 DEF HandlersParts
    <2>4. /\ FirstOnes(ER!Front(hs)) /\ Len(ER!Front(hs)) = Len(hs) - 1
          /\ RanOf(n, Len(hs) - 1, Append(mem.buf["parent"], x))
      BY <1>0, <2>0, <2>1, <2>3, RunOne
    <2>5. RanOf(n, Len(mem.handlers["parent"]), mem.buf["parent"])'
      <3>1. PICK k, t : k = Len(hs) - 1 /\ t = Append(mem.buf["parent"], x)
        OBVIOUS
      <3>2. RanOf(n, k, t)'
        BY <2>2, <2>4, <3>1, SameRan
      <3> QED BY <2>2, <2>4, <3>1, <3>2
    <2>6. ER!ItsMessage' = ER!ItsMessage
      BY <2>2, SameCall
    <2>7. FirstOnes(mem.handlers["parent"])'
      BY <1>r, <2>2, <2>4 DEF FirstOnes
    <2>8. mem.status \in {1, 2} /\ os.out["parent"] = IF mem.status = 2 THEN <<>> ELSE ER!ItsMessage
      BY <2>1 DEF HandlersParts
    <2> QED BY <1>0, <2>1, <2>2, <2>5, <2>6, <2>7, <2>8 DEF HandlersParts, Reporting
  <1>7. CASE ER!ExitFlush("parent")
    <2>1. /\ mem.handlers["parent"] = <<>> /\ at.parent = "exit"
          /\ at' = [at EXCEPT !["parent"] = "ended"]
          /\ os' = [os EXCEPT !.out["parent"] = @ \o mem.buf["parent"]]
          /\ mem' = [mem EXCEPT !.buf["parent"] = <<>>]
      BY <1>7 DEF ER!ExitFlush, ER!Move, ER!Out
    <2>2. /\ ErrType' /\ at'.parent = "ended" /\ at'.child = "unborn" /\ mem'.handlers = mem.handlers
          /\ mem'.f = mem.f /\ mem'.status = mem.status /\ mem'.dump = mem.dump
          /\ os'.out["parent"] = os.out["parent"] \o mem.buf["parent"]
      BY <1>0, <2>1 DEF ErrType
    <2>3. PICK t : t = mem.buf["parent"]
      OBVIOUS
    <2>4. PICK n \in Nat : RanOf(n, 0, t)
      BY <2>1, <2>3 DEF HandlersParts
    <2>5. /\ mem.status \in {1, 2} /\ t \in Seq(Texts) /\ Texts' = Texts
          /\ os.out["parent"] = IF mem.status = 2 THEN <<>> ELSE ER!ItsMessage
      <3>1. /\ mem.status \in {1, 2}
            /\ os.out["parent"] = IF mem.status = 2 THEN <<>> ELSE ER!ItsMessage
        BY <2>1 DEF HandlersParts
      <3>2. t \in Seq(Texts)
        BY <2>4 DEF RanOf
      <3>3. Texts' = Texts
        BY DEF Texts, Names
      <3> QED BY <3>1, <3>2, <3>3
    <2>6. RanOf(n, 0, t)'
      BY <2>2, <2>4, SameRan
    <2>7. ER!ItsMessage' = ER!ItsMessage
      BY <2>2, SameCall
    <2>8. os'.out["parent"] = IF mem.status = 2 THEN t ELSE ER!ItsMessage \o t
      BY <2>2, <2>3, <2>5, NoText
    <2>9. FirstOnes(mem.handlers["parent"])'
      BY <1>0, <1>r, <2>2 DEF FirstOnes
    <2> QED BY <1>0, <2>1, <2>2, <2>5, <2>6, <2>7, <2>8, <2>9 DEF HandlersParts, Reporting
  <1> QED BY <1>1, <1>2, <1>3, <1>4, <1>5, <1>6, <1>7

ErrorsInv ==
    /\ Runs("caller") => CallerParts
    /\ Runs("exit_handlers") => HandlersParts

LEMMA InitErrors == MCInit => ErrorsInv
  <1> SUFFICES ASSUME MCInit, mem.prog \in ER!Progs PROVE ErrorsInv
    BY DEF ErrorsInv, Runs, ER!Progs
  <1>1. ER!Init
    BY DEF MCInit, NotRunning, Runs, FO!Init, FO!SyncInit, FO!StateInit, PI!Init, FI!Init,
       PI!PipeProgs, FO!SyncProgs, FO!StateProgs, ER!Progs, FI!Progs
  <1>2. PICK pr \in ER!Progs, f \in ER!Functions, who \in ER!Procs, dump \in BOOLEAN :
          /\ pr = "exit_handlers" => f = "fatal" /\ who = "parent"
          /\ mem = [prog |-> pr, f |-> f, who |-> who, dump |-> dump, status |-> 0,
                    buf |-> [p \in ER!Procs |-> IF pr = "caller" THEN ER!Data ELSE <<>>],
                    handlers |-> [p \in ER!Procs |-> IF pr = "caller" THEN <<"h1", "h2">> ELSE <<>>],
                    errno |-> "E1", err |-> "none", saved |-> "none"]
    BY <1>1, Zenon DEF ER!Init
  <1>3. /\ at = [parent |-> "start", child |-> "unborn"]
        /\ os = [out |-> [p \in ER!Procs |-> <<>>]]
    BY <1>1 DEF ER!Init
  <1>4. ErrType /\ at.parent = "start" /\ at.child = "unborn" /\ mem.prog = pr
    BY <1>2, <1>3 DEF ErrType, ER!Procs
  <1>5. CASE pr = "caller"
    <2>1. \A p \in ER!Procs : Fresh(p)
      BY <1>2, <1>3, <1>5 DEF Fresh
    <2>2. mem.errno = "E1" /\ mem.who \in ER!Procs
      BY <1>2
    <2>3. at[mem.who] \in {"start", "unborn"}
      BY <1>4, <2>2 DEF ER!Procs
    <2>4. CallerParts
      BY <1>4, <2>1, <2>2, <2>3 DEF CallerParts, CallerPlace, ReporterSaid, OtherSaid, ER!Procs
    <2> QED BY <1>4, <1>5, <2>4 DEF ErrorsInv, Runs
  <1>6. CASE pr = "exit_handlers"
    <2>1. /\ mem.f = "fatal" /\ mem.status = 0 /\ mem.buf["parent"] = <<>>
          /\ mem.handlers["parent"] = <<>> /\ os.out["parent"] = <<>>
      BY <1>2, <1>3, <1>6 DEF ER!Procs
    <2>2. FirstOnes(<<>>)
      <3>1. <<>> \in Seq(Names) /\ Len(<<>>) = 0
        OBVIOUS
      <3> QED BY <3>1, Registrations DEF FirstOnes
    <2>3. HandlersParts
      BY <1>4, <2>1, <2>2 DEF HandlersParts
    <2> QED BY <1>4, <1>6, <2>3 DEF ErrorsInv, Runs
  <1> QED BY <1>5, <1>6 DEF ER!Progs

LEMMA SameErrors == ErrorsInv /\ UNCHANGED <<at, mem, os>> => ErrorsInv'
  <1> SUFFICES ASSUME ErrorsInv, UNCHANGED <<at, mem, os>> PROVE ErrorsInv'
    OBVIOUS
  <1>1. ER!ItsMessage' = ER!ItsMessage /\ SaidBy' = SaidBy /\ ER!HandlersRun' = ER!HandlersRun
    BY SameCall
  <1>2. CallerParts => CallerParts'
    BY <1>1 DEF CallerParts, ErrType, CallerPlace, ReporterSaid, OtherSaid, Fresh
  <1>3. \A n, k, t : RanOf(n, k, t) => RanOf(n, k, t)'
    BY SameRan
  <1>4. ER!Registered' = ER!Registered /\ Texts' = Texts
    BY DEF ER!Registered, Texts, Names
  <1>5. HandlersParts => HandlersParts'
    BY <1>1, <1>3, <1>4 DEF HandlersParts, ErrType, FirstOnes
  <1> QED BY <1>2, <1>5 DEF ErrorsInv, Runs

LEMMA StepErrors == ProgInv /\ ErrorsInv /\ [MCNext]_<<machine, vars>> => ErrorsInv'
  <1> SUFFICES ASSUME ProgInv, ErrorsInv, [MCNext]_<<machine, vars>> PROVE ErrorsInv'
    OBVIOUS
  <1>1. CASE UNCHANGED <<at, mem, os>>
    BY <1>1, SameErrors
  <1>2. CASE ER!Next
    <2>1. mem.prog \in ER!Progs /\ mem'.prog = mem.prog
      BY <1>2, ErrorsKeep
    <2>2. CASE UNCHANGED ER!machine
      BY <2>2, SameErrors DEF ER!machine
    <2>3. CASE ~UNCHANGED ER!machine
      <3>1. Runs("caller") => CallerParts'
        BY <1>2, <2>3, StepStart, StepReport, StepExit
        DEF ErrorsInv, ER!Next, ER!Program, Runs, ER!Runs
      <3>2. Runs("exit_handlers") => HandlersParts'
        BY <1>2, <2>3, StepRegister, StepHandlers
        DEF ErrorsInv, ER!Next, ER!Program, Runs, ER!Runs
      <3> QED BY <2>1, <3>1, <3>2 DEF ErrorsInv, Runs
    <2> QED BY <2>2, <2>3
  <1>3. CASE FO!Step \/ FO!StateNext \/ PI!Next \/ FI!Next
    <2>1. mem'.prog = mem.prog /\ mem.prog \notin ER!Progs
      BY <1>3, SyncKeeps, StateKeeps, PipesKeep, FilesKeep
      DEF FO!SyncProgs, PI!PipeProgs, ER!Progs, FI!Progs, FO!StateProgs
    <2> QED BY <2>1 DEF ErrorsInv, Runs, ER!Progs
  <1> QED
    BY <1>1, <1>2, <1>3 DEF MCNext, machine, FO!Next, FO!SyncNext, FO!machine

(* A process that reports an error puts its output before the message and  *)
(* runs its exit handlers last, latest first, unless it calls err_exit()   *)
(* or dumps core, and a child's error leaves its parent's output alone;    *)
(* whichever registration of exit_handlers fails, those before it run.     *)
THEOREM ErrorsAlways == MCSpec => []ER!ErrorsTrue
  <1>1. ErrorsInv => ER!ErrorsTrue
    <2> SUFFICES ASSUME ErrorsInv PROVE ER!ErrorsTrue
      OBVIOUS
    <2>1. Runs("caller") /\ ER!Ended =>
              /\ os.out[mem.who] = (IF mem.f = "err_exit" THEN ER!ItsMessage
                                    ELSE ER!Data \o ER!ItsMessage)
                                   \o (IF ER!HandlersRun THEN ER!HandlerTexts ELSE <<>>)
              /\ mem.who = "child" => os.out["parent"] = ER!Data \o ER!HandlerTexts
              /\ mem.f = "errMsg" => mem.errno = "E1"
      <3> SUFFICES ASSUME CallerParts, ER!Ended
                   PROVE  /\ os.out[mem.who] = SaidBy \o (IF ER!HandlersRun THEN ER!HandlerTexts
                                                          ELSE <<>>)
                          /\ mem.who = "child" => os.out["parent"] = ER!Data \o ER!HandlerTexts
                          /\ mem.f = "errMsg" => mem.errno = "E1"
        BY DEF ErrorsInv, SaidBy
      <3>1. CASE mem.who = "parent"
        <4>1. at.parent \in {"ended", "aborted"}
          BY <3>1 DEF CallerParts, CallerPlace, ER!Ended, ER!Over, Reporting
        <4> QED BY <3>1, <4>1 DEF CallerParts, ReporterSaid
      <3>2. CASE mem.who = "child"
        <4>1. at.parent = "ended" /\ at.child \in {"ended", "aborted"}
          BY <3>2 DEF CallerParts, CallerPlace, ER!Ended, ER!Over, Reporting
        <4> QED BY <3>2, <4>1 DEF CallerParts, ReporterSaid, OtherSaid
      <3> QED BY <3>1, <3>2 DEF CallerParts, ErrType
    <2>2. ASSUME HandlersParts, ER!Ended, NEW said, said = os.out["parent"],
                 NEW texts, texts = IF mem.status = 2 THEN said ELSE Tail(said)
          PROVE  /\ mem.status = 2 => Len(texts) = Len(ER!Registered)
                 /\ mem.status # 2 => Head(said) = ER!ItsMessage[1]
                 /\ \A i \in 1 .. Len(texts) :
                       texts[i] = ER!Printed(ER!Reverse(SubSeq(ER!Registered, 1, Len(texts)))[i])
      <3>1. PICK n \in Nat, t \in Seq(Texts) :
               RanOf(n, 0, t) /\ said = IF mem.status = 2 THEN t ELSE ER!ItsMessage \o t
        BY <2>2 DEF HandlersParts, ER!Ended, ER!Over, Reporting
      <3>2. /\ n =< Len(ER!Registered) /\ (mem.status = 2 => n = Len(ER!Registered))
            /\ Len(t) = n /\ \A i \in 1 .. n : t[i] = ER!Printed(ER!Registered[n - i + 1])
        BY <3>1 DEF RanOf
      <3>3. /\ mem.status # 2 => Head(said) = ER!ItsMessage[1]
            /\ texts = t
        <4>1. CASE mem.status = 2
          BY <2>2, <3>1, <4>1
        <4>2. CASE mem.status # 2
          <5>1. PICK m : ER!ItsMessage = <<m>>
            BY DEF ER!ItsMessage
          <5>2. PICK S : S = Texts \cup {m}
            OBVIOUS
          <5>3. <<m>> \in Seq(S) /\ t \in Seq(S) /\ Len(<<m>>) = 1 /\ <<m>>[1] = m
            BY <5>2, <3>1
          <5>4. PICK u : u = <<m>> \o t
            OBVIOUS
          <5>5. /\ u \in Seq(S) /\ Len(u) = 1 + n /\ u[1] = m
                /\ \A i \in 1 .. n : u[i + 1] = t[i]
            BY <3>2, <5>3, <5>4
          <5>6. Head(u) = m /\ Tail(u) \in Seq(S) /\ Len(Tail(u)) = n
                /\ \A i \in 1 .. n : Tail(u)[i] = u[i + 1]
            BY <5>5
          <5>7. Tail(u) = t
            BY <3>2, <5>3, <5>5, <5>6, SeqEqual
          <5>8. said = u /\ texts = Tail(u)
            BY <2>2, <3>1, <4>2, <5>1, <5>4
          <5> QED BY <5>1, <5>3, <5>6, <5>7, <5>8
        <4> QED BY <4>1, <4>2
      <3>4. PICK s : s = SubSeq(ER!Registered, 1, n)
        OBVIOUS
      <3>5. Len(s) = n /\ \A i \in 1 .. n : s[i] = ER!Registered[i]
        BY <3>1, <3>2, <3>4, Registrations
      <3>6. \A i \in 1 .. n : ER!Reverse(s)[i] = ER!Registered[n - i + 1]
        BY <3>5 DEF ER!Reverse
      <3> QED BY <3>2, <3>3, <3>4, <3>6
    <2> QED
      BY <2>1, <2>2 DEF ER!ErrorsTrue, ErrorsInv, ER!Runs, Runs
  <1> QED BY InitSync, StepSync, InitErrors, StepErrors, <1>1, PTL DEF MCSpec

-----------------------------------------------------------------------------
(* Sequences written as functions. *)
LEMMA FunSeq == \A S : \A m \in Nat : \A f \in [1 .. m -> S] : f \in Seq(S) /\ Len(f) = m
  OBVIOUS

LEMMA SeqFun == \A S : \A s \in Seq(S) : /\ Len(s) \in Nat /\ DOMAIN s = 1 .. Len(s)
                                         /\ s \in [1 .. Len(s) -> S]
  OBVIOUS

Larger(a, b) == IF a >= b THEN a ELSE b

LEMMA MaxOfTwo == \A a, b \in Nat : FI!Max({a, b}) = Larger(a, b)
  <1> SUFFICES ASSUME NEW a \in Nat, NEW b \in Nat
               PROVE  FI!Max({a, b}) = Larger(a, b)
    OBVIOUS
  <1>1. \E x \in {a, b} : \A y \in {a, b} : x >= y
    OBVIOUS
  <1>2. FI!Max({a, b}) \in {a, b} /\ \A y \in {a, b} : FI!Max({a, b}) >= y
    BY <1>1 DEF FI!Max
  <1> QED BY <1>2 DEF Larger

LEMMA MinOfTwo == \A a, b \in Nat : FI!Min({a, b}) = IF a =< b THEN a ELSE b
  <1> SUFFICES ASSUME NEW a \in Nat, NEW b \in Nat
               PROVE  FI!Min({a, b}) = IF a =< b THEN a ELSE b
    OBVIOUS
  <1>1. \E x \in {a, b} : \A y \in {a, b} : x =< y
    OBVIOUS
  <1>2. FI!Min({a, b}) \in {a, b} /\ \A y \in {a, b} : FI!Min({a, b}) =< y
    BY <1>1 DEF FI!Min
  <1> QED BY <1>2

LEMMA PrefixIs ==
    ASSUME NEW S, NEW s \in Seq(S), NEW t \in Seq(S), Len(s) =< Len(t),
           \A i \in 1 .. Len(s) : s[i] = t[i]
    PROVE  FI!IsPrefix(s, t)
  <1>1. SubSeq(s, 1, Len(s)) = SubSeq(t, 1, Len(s))
    <2>1. Len(s) \in Nat
      OBVIOUS
    <2>2. /\ SubSeq(s, 1, Len(s)) \in Seq(S) /\ Len(SubSeq(s, 1, Len(s))) = Len(s)
          /\ \A i \in 1 .. Len(s) : SubSeq(s, 1, Len(s))[i] = s[i]
      BY <2>1
    <2>3. /\ SubSeq(t, 1, Len(s)) \in Seq(S) /\ Len(SubSeq(t, 1, Len(s))) = Len(s)
          /\ \A i \in 1 .. Len(s) : SubSeq(t, 1, Len(s))[i] = t[i]
      BY <2>1
    <2> QED BY <2>2, <2>3, SeqEqual
  <1> QED BY <1>1 DEF FI!IsPrefix

(* r is s with the bytes b written at offset o. *)
IsWritten(r, s, o, b) ==
    /\ r \in Seq(Nat)
    /\ Len(b) = 0 => r = s
    /\ Len(b) > 0 => Len(r) = Larger(Len(s), o + Len(b))
    /\ \A i \in 1 .. Len(r) : /\ i > o /\ i =< o + Len(b) => r[i] = b[i - o]
                              /\ i > Len(s) /\ i =< o => r[i] = 0
    /\ \A i \in 1 .. Len(s) : i =< o \/ i > o + Len(b) => r[i] = s[i]

LEMMA WrittenIs ==
    \A s, b \in Seq(Nat) : \A o \in Nat : IsWritten(FI!Written(s, o, b), s, o, b)
  <1> SUFFICES ASSUME NEW s \in Seq(Nat), NEW b \in Seq(Nat), NEW o \in Nat, NEW r,
                      r = FI!Written(s, o, b)
               PROVE  IsWritten(r, s, o, b)
    BY Zenon
  <1>1. CASE b = <<>>
    <2>1. r = s /\ Len(b) = 0
      BY <1>1 DEF FI!Written
    <2>2. \A i \in 1 .. Len(s) : ~(i > o /\ i =< o + Len(b)) /\ ~(i > Len(s))
      BY <2>1
    <2> QED BY <2>1, <2>2 DEF IsWritten
  <1>2. CASE b # <<>>
    <2>1. PICK c \in Nat, d \in Nat : c = Len(s) /\ d = Len(b) /\ d > 0
      BY <1>2
    <2>2. PICK m \in Nat : m = Larger(c, o + d) /\ m = FI!Max({c, o + d})
      <3>1. PICK e \in Nat : e = o + d
        OBVIOUS
      <3>2. FI!Max({c, e}) = Larger(c, e)
        BY MaxOfTwo
      <3>3. Larger(c, e) \in Nat
        BY DEF Larger
      <3> QED BY <3>1, <3>2, <3>3
    <2>3. r = [i \in 1 .. m |-> IF i > o /\ i =< o + d THEN b[i - o]
                                ELSE IF i =< c THEN s[i] ELSE 0]
      BY <1>2, <2>1, <2>2 DEF FI!Written
    <2>4. ASSUME NEW i \in 1 .. m
          PROVE  (IF i > o /\ i =< o + d THEN b[i - o] ELSE IF i =< c THEN s[i] ELSE 0) \in Nat
      BY <2>1
    <2>5. r \in [1 .. m -> Nat]
      BY <2>3, <2>4
    <2>6. r \in Seq(Nat) /\ Len(r) = m
      BY <2>5, FunSeq
    <2>7. \A i \in 1 .. m : r[i] = IF i > o /\ i =< o + d THEN b[i - o]
                                  ELSE IF i =< c THEN s[i] ELSE 0
      BY <2>3
    <2>8. \A i \in 1 .. m : /\ i > o /\ i =< o + d => r[i] = b[i - o]
                            /\ i > c /\ i =< o => r[i] = 0
      BY <2>1, <2>7
    <2>9. \A i \in 1 .. c : i \in 1 .. m
      BY <2>1, <2>2 DEF Larger
    <2>10. \A i \in 1 .. c : i =< o \/ i > o + d => r[i] = s[i]
      BY <2>1, <2>7, <2>9
    <2>11. /\ d = 0 => r = s
           /\ d > 0 => Len(r) = Larger(c, o + d)
      BY <2>1, <2>2, <2>6
    <2> QED BY ONLY <2>1, <2>6, <2>8, <2>10, <2>11, Zenon DEF IsWritten
  <1> QED BY <1>1, <1>2

LEMMA BytesAre ==
    ASSUME NEW n \in Nat
    PROVE  FI!Bytes(n) \in Seq(Nat) /\ Len(FI!Bytes(n)) = n /\ \A i \in 1 .. n : FI!Bytes(n)[i] = 100 + i
  <1>1. FI!Bytes(n) = [i \in 1 .. n |-> 100 + i] /\ FI!Bytes(n) \in [1 .. n -> Nat]
    BY DEF FI!Bytes
  <1> QED BY <1>1, FunSeq

-----------------------------------------------------------------------------
(* The files. *)
FileType ==
    /\ DOMAIN mem = {"prog", "to", "n", "step", "len", "pos", "wrote", "buf", "log", "last", "said", "seen"}
    /\ DOMAIN os = {"file", "first", "exists", "creator", "linked", "blocks", "open", "locked", "touched"}
    /\ DOMAIN os.file = {"f1", "f2"}

MainType == FileType /\ DOMAIN at = {"main"}

(* bad_exclusive_open: who is about to create the file has seen that it    *)
(* was not there.                                                          *)
OpenParts ==
    /\ FileType /\ DOMAIN at = FI!Opens /\ DOMAIN mem.said = FI!Opens
    /\ os.exists \in BOOLEAN
    /\ os.exists <=> os.creator # "none"
    /\ \A p \in FI!Opens :
          /\ at[p] \in {"check", "create", "done", "failed"}
          /\ os.creator = "other" => at[p] # "create" /\ mem.said[p] # "created exclusively"
          /\ os.creator = p => at[p] = "done" /\ mem.said[p] = "created exclusively"
          /\ mem.said[p] = "already exists" => os.creator # "none"

LEMMA StepOpen == OpenParts /\ FI!bad_exclusive_open => OpenParts'
  <1> SUFFICES ASSUME OpenParts, NEW p \in FI!Opens, FI!Check(p) \/ FI!Create(p) \/ FI!OpenFails(p)
               PROVE  OpenParts'
    BY DEF FI!bad_exclusive_open
  <1>0. p # "other" /\ p # "none"
    BY DEF FI!Opens
  <1>1. CASE FI!Check(p)
    <2>1. PICK k, w : /\ k = IF os.exists THEN "done" ELSE "create"
                      /\ w = IF os.exists THEN "already exists" ELSE "doesn't exist yet"
                      /\ at[p] = "check" /\ at' = [at EXCEPT ![p] = k]
                      /\ mem' = [mem EXCEPT !.said[p] = w] /\ os' = os
      BY <1>1 DEF FI!Check
    <2>2. /\ FileType' /\ DOMAIN at' = FI!Opens /\ DOMAIN mem'.said = FI!Opens
          /\ at'[p] = k /\ mem'.said[p] = w
          /\ \A q \in FI!Opens : q # p => at'[q] = at[q] /\ mem'.said[q] = mem.said[q]
      BY <2>1 DEF OpenParts, FileType
    <2>3. \A q \in FI!Opens :
             /\ at'[q] \in {"check", "create", "done", "failed"}
             /\ os.creator = "other" => at'[q] # "create" /\ mem'.said[q] # "created exclusively"
             /\ os.creator = q => at'[q] = "done" /\ mem'.said[q] = "created exclusively"
             /\ mem'.said[q] = "already exists" => os.creator # "none"
      <3> SUFFICES ASSUME NEW q \in FI!Opens
                   PROVE  /\ at'[q] \in {"check", "create", "done", "failed"}
                          /\ os.creator = "other" => /\ at'[q] # "create"
                                                     /\ mem'.said[q] # "created exclusively"
                          /\ os.creator = q => at'[q] = "done" /\ mem'.said[q] = "created exclusively"
                          /\ mem'.said[q] = "already exists" => os.creator # "none"
        OBVIOUS
      <3>1. CASE q = p
        <4>1. CASE os.exists
          <5>1. k = "done" /\ w = "already exists"
            BY <2>1, <4>1
          <5>2. os.creator # "none" /\ os.creator # p
            BY <2>1, <4>1 DEF OpenParts
          <5> QED BY <2>2, <3>1, <5>1, <5>2
        <4>2. CASE ~os.exists
          <5>1. k = "create" /\ w = "doesn't exist yet"
            BY <2>1, <4>2
          <5>2. os.creator = "none"
            BY <4>2 DEF OpenParts
          <5> QED BY <1>0, <2>2, <3>1, <5>1, <5>2
        <4> QED BY <4>1, <4>2
      <3>2. CASE q # p
        BY <2>2, <3>2 DEF OpenParts
      <3> QED BY <3>1, <3>2
    <2> QED BY <2>1, <2>2, <2>3 DEF OpenParts
  <1>2. CASE FI!Create(p)
    <2>1. PICK c : /\ c = IF os.exists THEN os.creator ELSE p
                   /\ at[p] = "create" /\ at' = [at EXCEPT ![p] = "done"]
                   /\ mem' = [mem EXCEPT !.said[p] = "created exclusively"]
                   /\ os' = [os EXCEPT !.exists = TRUE, !.creator = c]
      BY <1>2 DEF FI!Create, FI!Move, OpenParts, FileType
    <2>2. /\ FileType' /\ DOMAIN at' = FI!Opens /\ DOMAIN mem'.said = FI!Opens
          /\ at'[p] = "done" /\ mem'.said[p] = "created exclusively"
          /\ os'.exists = TRUE /\ os'.creator = c
          /\ \A q \in FI!Opens : q # p => at'[q] = at[q] /\ mem'.said[q] = mem.said[q]
      BY <2>1 DEF OpenParts, FileType
    <2>3. os.creator # "other" /\ c # "other" /\ c # "none"
      BY <1>0, <2>1 DEF OpenParts
    <2>4. \A q \in FI!Opens : q # p => (c = q => os.creator = q)
      BY <2>1
    <2>5. \A q \in FI!Opens :
             /\ at'[q] \in {"check", "create", "done", "failed"}
             /\ c = q => at'[q] = "done" /\ mem'.said[q] = "created exclusively"
      <3> SUFFICES ASSUME NEW q \in FI!Opens
                   PROVE  /\ at'[q] \in {"check", "create", "done", "failed"}
                          /\ c = q => at'[q] = "done" /\ mem'.said[q] = "created exclusively"
        OBVIOUS
      <3>1. CASE q = p
        BY <2>2, <3>1
      <3>2. CASE q # p
        BY <2>2, <2>4, <3>2 DEF OpenParts
      <3> QED BY <3>1, <3>2
    <2> QED BY <2>2, <2>3, <2>5 DEF OpenParts
  <1>3. CASE FI!OpenFails(p)
    <2>1. /\ at[p] \in {"check", "create"} /\ at' = [at EXCEPT ![p] = "failed"]
          /\ mem' = mem /\ os' = os
      BY <1>3 DEF FI!OpenFails, FI!Move
    <2>2. /\ DOMAIN at' = FI!Opens /\ at'[p] = "failed"
          /\ \A q \in FI!Opens : q # p => at'[q] = at[q]
      BY <2>1 DEF OpenParts
    <2> QED BY <2>1, <2>2 DEF OpenParts, FileType
  <1> QED BY <1>1, <1>2, <1>3

-----------------------------------------------------------------------------
(* t_unlink: the blocks of an open file stay. *)
UnlinkParts ==
    /\ MainType /\ mem.n \in Nat /\ mem.wrote \in Nat
    /\ at.main \in {"start", "unlink", "write", "close", "see", "done", "failed"}
    /\ at.main \in {"unlink", "write", "close"} => os.open
    /\ at.main = "start" => mem.wrote = 0
    /\ at.main \in {"start", "unlink"} => os.blocks = 0 /\ mem.wrote = 0
    /\ at.main \in {"unlink", "write"} => mem.seen = <<0>>
    /\ at.main = "write" => os.blocks = mem.wrote
    /\ at.main \in {"close", "see"} => mem.seen = <<0, mem.n>>
    /\ at.main = "close" => os.blocks = mem.n
    /\ at.main = "see" => os.blocks \in {0, mem.n}
    /\ at.main = "done" => mem.seen[1] = 0 /\ mem.seen[2] = mem.n /\ mem.seen[3] \in {0, mem.n}

LEMMA StepUnlink == UnlinkParts /\ (FI!t_unlink \/ FI!FreeBlocks) => UnlinkParts'
  <1> SUFFICES ASSUME UnlinkParts, FI!t_unlink \/ FI!FreeBlocks PROVE UnlinkParts'
    OBVIOUS
  <1> USE DEF UnlinkParts, MainType, FileType, FI!Go, FI!Move
  <1>1. CASE FI!OpenExclusive
    BY <1>1 DEF FI!OpenExclusive
  <1>2. CASE FI!Unlink \/ FI!Close \/ FI!UnlinkFails
    BY <1>2 DEF FI!Unlink, FI!Close, FI!UnlinkFails
  <1>3. CASE FI!WriteBlock
    BY <1>3 DEF FI!WriteBlock
  <1>4. CASE FI!SeeWritten
    <2>1. /\ mem.wrote = mem.n /\ at.main = "write" /\ at' = [at EXCEPT !.main = "close"] /\ os' = os
          /\ mem' = [mem EXCEPT !.seen = Append(<<0>>, mem.n)]
      BY <1>4 DEF FI!SeeWritten
    <2>2. Append(<<0>>, mem.n) = <<0, mem.n>>
      BY AppendSecond, ZenonT(60)
    <2> QED BY <2>1, <2>2
  <1>5. CASE FI!SeeFreed
    <2>1. PICK b \in {0, mem.n} : /\ b = os.blocks /\ at.main = "see"
                                  /\ at' = [at EXCEPT !.main = "done"] /\ os' = os
                                  /\ mem' = [mem EXCEPT !.seen = Append(<<0, mem.n>>, b)]
      BY <1>5 DEF FI!SeeFreed
    <2>2. Append(<<0, mem.n>>, b) = <<0, mem.n, b>>
      <3>1. PICK z, n : z = 0 /\ n = mem.n
        OBVIOUS
      <3>2. Append(<<z, n>>, b) = <<z, n, b>>
        BY ONLY AppendThird, Zenon
      <3> QED BY <3>1, <3>2
    <2>3. mem'.seen = <<0, mem.n, b>> /\ mem'.n = mem.n
      BY <2>1, <2>2
    <2>4. mem'.seen[1] = 0 /\ mem'.seen[2] = mem.n /\ mem'.seen[3] = b
      BY <2>3
    <2> QED BY <2>1, <2>3, <2>4
  <1>6. CASE FI!FreeBlocks
    BY <1>6 DEF FI!FreeBlocks
  <1> QED BY <1>1, <1>2, <1>3, <1>4, <1>5, <1>6 DEF FI!t_unlink

-----------------------------------------------------------------------------
OnesThenOld(r, w, first) ==
    /\ r \in Seq(Nat) /\ Len(r) = Larger(w, first)
    /\ \A i \in 1 .. Len(r) : r[i] = IF i =< w THEN 1 ELSE 100 + i

(* write_bytes: an old file keeps what is not written over. *)
WriteParts ==
    /\ MainType /\ mem.n \in Nat /\ mem.wrote \in Nat /\ os.first \in Nat
    /\ mem.wrote =< mem.n /\ at.main \in {"start", "done", "failed"}
    /\ at.main = "done" => mem.wrote = mem.n
    /\ OnesThenOld(os.file["f1"], mem.wrote, os.first)

LEMMA WriteOnes ==
    \A s, b, r : \A w, k, first \in Nat :
       /\ b \in Seq(Nat) /\ Len(b) = k /\ \A i \in 1 .. k : b[i] = 1
       /\ OnesThenOld(s, w, first) /\ IsWritten(r, s, w, b)
       => OnesThenOld(r, w + k, first)
  <1> SUFFICES ASSUME NEW s, NEW b, NEW r, NEW w \in Nat, NEW k \in Nat, NEW first \in Nat,
                      b \in Seq(Nat), Len(b) = k, \A i \in 1 .. k : b[i] = 1,
                      OnesThenOld(s, w, first), IsWritten(r, s, w, b)
               PROVE  OnesThenOld(r, w + k, first)
    BY Zenon
  <1>1. PICK c \in Nat : c = Len(s) /\ c = Larger(w, first)
    BY DEF OnesThenOld
  <1>2. \A i \in 1 .. c : s[i] = IF i =< w THEN 1 ELSE 100 + i
    BY <1>1 DEF OnesThenOld
  <1>3. /\ r \in Seq(Nat) /\ (k = 0 => r = s) /\ (k > 0 => Len(r) = Larger(c, w + k))
        /\ \A i \in 1 .. Len(r) : i > w /\ i =< w + k => r[i] = b[i - w]
        /\ \A i \in 1 .. c : i =< w \/ i > w + k => r[i] = s[i]
    <2>1. IsWritten(r, s, w, b) /\ Len(b) = k
      OBVIOUS
    <2>2. /\ r \in Seq(Nat) /\ (Len(b) = 0 => r = s)
          /\ Len(b) > 0 => Len(r) = Larger(Len(s), w + Len(b))
          /\ \A i \in 1 .. Len(r) : i > w /\ i =< w + Len(b) => r[i] = b[i - w]
          /\ \A i \in 1 .. Len(s) : i =< w \/ i > w + Len(b) => r[i] = s[i]
      BY ONLY <2>1 DEF IsWritten
    <2> QED BY ONLY <1>1, <2>1, <2>2, c \in Nat, k \in Nat, w \in Nat
  <1>4. Len(r) = Larger(w + k, first)
    <2>1. CASE k = 0
      <3>1. r = s /\ w + k = w
        BY <1>3, <2>1
      <3> QED BY <1>1, <3>1
    <2>2. CASE k > 0
      <3>1. Len(r) = Larger(Larger(w, first), w + k)
        BY <1>1, <1>3, <2>2
      <3> QED BY ONLY <3>1, w \in Nat, k \in Nat, first \in Nat DEF Larger
    <2> QED BY <2>1, <2>2
  <1>5. ASSUME NEW i \in 1 .. Len(r)
        PROVE  r[i] = IF i =< w + k THEN 1 ELSE 100 + i
    <2>0. Len(r) \in Nat /\ i \in Nat /\ i >= 1
      BY <1>3
    <2>1. CASE i > w /\ i =< w + k
      <3>1. i - w \in 1 .. k
        BY <2>0, <2>1
      <3>2. b[i - w] = 1
        BY <3>1
      <3> QED BY <1>3, <2>1, <3>2
    <2>2. CASE ~(i > w /\ i =< w + k)
      <3>1. i \in 1 .. c
        BY <1>1, <1>4, <2>0, <2>2 DEF Larger
      <3>2. i =< w \/ i > w + k
        BY <2>0, <2>2
      <3>3. r[i] = s[i]
        BY ONLY <1>3, <3>1, <3>2
      <3> QED BY <1>2, <2>0, <2>2, <3>1, <3>3
    <2> QED BY <2>1, <2>2
  <1> QED BY <1>3, <1>4, <1>5 DEF OnesThenOld

LEMMA StepWriteBytes == WriteParts /\ FI!write_bytes => WriteParts'
  <1> SUFFICES ASSUME WriteParts, FI!write_bytes PROVE WriteParts'
    OBVIOUS
  <1>0. /\ MainType /\ mem.n \in Nat /\ mem.wrote \in Nat /\ os.first \in Nat
        /\ mem.wrote =< mem.n
    BY DEF WriteParts
  <1>1. CASE FI!WriteBuffer
    <2>0. PICK n \in Nat, w \in Nat, first \in Nat : n = mem.n /\ w = mem.wrote /\ first = os.first
      BY <1>0
    <2>1. PICK s : s = os.file["f1"] /\ OnesThenOld(s, w, first)
      BY <2>0 DEF WriteParts
    <2>2. PICK k, l : /\ k \in 0 .. FI!Min({BufSize, n - w}) /\ w < n
                   /\ l \in {"start", "failed"}
                   /\ os' = [os EXCEPT !.file["f1"] = FI!Written(@, w, [i \in 1 .. k |-> 1])]
                   /\ mem' = [mem EXCEPT !.wrote = @ + k]
                   /\ at' = [at EXCEPT !.main = l]
      BY <1>1, <2>0 DEF FI!WriteBuffer
    <2>3. k \in Nat /\ w + k =< n
      <3>1. PICK d \in Nat : d = n - w
        BY <2>2
      <3>2. FI!Min({BufSize, d}) = IF BufSize =< d THEN BufSize ELSE d
        BY MinOfTwo, BufferAssumption
      <3> QED BY <2>2, <3>1, <3>2, BufferAssumption
    <2>4. PICK b \in Seq(Nat) : /\ b = [i \in 1 .. k |-> 1] /\ Len(b) = k
                               /\ \A i \in 1 .. k : b[i] = 1
      <3>1. [i \in 1 .. k |-> 1] \in [1 .. k -> Nat]
        OBVIOUS
      <3>2. \A f \in [1 .. k -> Nat] : f \in Seq(Nat) /\ Len(f) = k
        BY <2>3, FunSeq, Zenon
      <3>3. PICK b : b = [i \in 1 .. k |-> 1]
        OBVIOUS
      <3>4. b \in [1 .. k -> Nat] /\ \A i \in 1 .. k : b[i] = 1
        BY <3>1, <3>3
      <3> QED BY ONLY <3>2, <3>3, <3>4, Zenon
    <2>5. PICK r : r = FI!Written(s, w, b)
      OBVIOUS
    <2>6. s \in Seq(Nat)
      BY <2>1 DEF OnesThenOld
    <2>7. IsWritten(r, s, w, b)
      BY ONLY <2>5, <2>6, b \in Seq(Nat), w \in Nat, WrittenIs, Zenon
    <2>8. OnesThenOld(r, w + k, first)
      BY ONLY <2>1, <2>3, <2>4, <2>7, w \in Nat, first \in Nat, b \in Seq(Nat), WriteOnes, Zenon
    <2>9. /\ MainType' /\ mem'.n = n /\ mem'.wrote = w + k /\ os'.first = first
          /\ at'.main = l /\ os'.file["f1"] = r
      BY <1>0, <2>0, <2>1, <2>2, <2>4, <2>5 DEF MainType, FileType
    <2>10. w + k \in Nat
      BY <2>3
    <2> QED BY <2>2, <2>3, <2>8, <2>9, <2>10 DEF WriteParts
  <1>2. CASE \/ mem.wrote = mem.n /\ FI!Go("start", "done") /\ UNCHANGED <<mem, os>>
             \/ FI!Fail("start")
    BY <1>2 DEF WriteParts, FI!Fail, FI!Go, FI!Move, MainType, FileType, OnesThenOld
  <1> QED BY <1>1, <1>2 DEF FI!write_bytes

-----------------------------------------------------------------------------
(* mmcat: while nobody touches the file it is as fstat() found it. *)
MmcatParts ==
    /\ MainType /\ os.first \in Nat /\ os.touched \in Nat /\ os.file["f1"] \in Seq(Nat)
    /\ at.main \in {"start", "write", "done", "failed"}
    /\ os.touched = 0 => os.file["f1"] = FI!Bytes(os.first)
    /\ at.main = "write" => mem.n \in Nat /\ (os.touched = 0 => mem.n = os.first)
    /\ at.main = "done" => /\ Len(mem.buf) = mem.n
                           /\ os.touched = 0 => mem.buf = FI!Bytes(os.first)

(* What write() takes from the page. *)
Mapped(s, k) == [i \in 1 .. k |-> IF i =< Len(s) THEN s[i] ELSE 0]

LEMMA MappedIs ==
    /\ \A s \in Seq(Nat) : \A k \in Nat : Len(Mapped(s, k)) = k
    /\ \A k \in Nat : Mapped(FI!Bytes(k), k) = FI!Bytes(k)
  <1>1. ASSUME NEW s \in Seq(Nat), NEW k \in Nat
        PROVE  Len(Mapped(s, k)) = k
    <2>1. \A i \in 1 .. k : (IF i =< Len(s) THEN s[i] ELSE 0) \in Nat
      OBVIOUS
    <2>2. Mapped(s, k) \in [1 .. k -> Nat]
      BY <2>1 DEF Mapped
    <2> QED BY <2>2, FunSeq
  <1>2. ASSUME NEW k \in Nat
        PROVE  Mapped(FI!Bytes(k), k) = FI!Bytes(k)
    <2>1. PICK s \in Seq(Nat) : s = FI!Bytes(k) /\ Len(s) = k /\ \A i \in 1 .. k : s[i] = 100 + i
      BY BytesAre
    <2>2. \A i \in 1 .. k : (IF i =< Len(s) THEN s[i] ELSE 0) = 100 + i
      BY <2>1
    <2>3. Mapped(s, k) = [i \in 1 .. k |-> 100 + i]
      BY <2>2 DEF Mapped
    <2> QED BY <2>1, <2>3 DEF FI!Bytes
  <1> QED BY <1>1, <1>2

LEMMA StepMmcat == MmcatParts /\ FI!mmcat => MmcatParts'
  <1> SUFFICES ASSUME MmcatParts, FI!mmcat PROVE MmcatParts'
    OBVIOUS
  <1>1. CASE FI!Fstat
    <2>1. PICK s \in Seq(Nat), first \in Nat, l \in {"failed", "write"} :
             /\ s = os.file["f1"] /\ first = os.first
             /\ mem' = [mem EXCEPT !.n = Len(s)] /\ at' = [at EXCEPT !.main = l] /\ os' = os
      BY <1>1 DEF FI!Fstat, MmcatParts
    <2>2. os.touched = 0 => Len(s) = first
      BY <2>1, BytesAre DEF MmcatParts
    <2>3. MainType' /\ mem'.n = Len(s) /\ at'.main = l
      BY <2>1 DEF MmcatParts, MainType, FileType
    <2>4. Len(s) \in Nat
      OBVIOUS
    <2> QED BY <2>1, <2>2, <2>3, <2>4 DEF MmcatParts
  <1>2. CASE FI!WriteMapped
    <2>1. PICK s \in Seq(Nat), first \in Nat, n \in Nat :
             /\ s = os.file["f1"] /\ first = os.first /\ n = mem.n
             /\ os.touched = 0 => s = FI!Bytes(first) /\ n = first
      BY <1>2 DEF FI!WriteMapped, MmcatParts
    <2>2. PICK k : /\ k \in IF s = <<>> THEN {0} ELSE 0 .. n
                   /\ mem' = [mem EXCEPT !.buf = Mapped(s, k)] /\ os' = os
                   /\ at' = [at EXCEPT !.main = IF k = n THEN "done" ELSE "failed"]
      BY <1>2, <2>1 DEF FI!WriteMapped, Mapped
    <2>3. k \in Nat
      BY <2>2
    <2>4. PICK b : b = Mapped(s, k)
      OBVIOUS
    <2>5. MainType' /\ mem'.n = n /\ mem'.buf = b /\ os' = os
      BY <2>1, <2>2, <2>4 DEF MmcatParts, MainType, FileType
    <2>6. CASE k = n
      <3>1. Len(b) = n
        BY ONLY <2>3, <2>4, <2>6, s \in Seq(Nat), MappedIs, Zenon
      <3>2. os.touched = 0 => b = FI!Bytes(first)
        BY ONLY <2>1, <2>4, <2>6, first \in Nat, MappedIs, Zenon
      <3>3. at'.main = "done"
        BY <2>2, <2>6 DEF MmcatParts, MainType
      <3> QED BY <2>1, <2>5, <3>1, <3>2, <3>3 DEF MmcatParts
    <2>7. CASE k # n
      <3>1. at'.main = "failed"
        BY <2>2, <2>7 DEF MmcatParts, MainType
      <3> QED BY <2>1, <2>5, <3>1 DEF MmcatParts
    <2> QED BY <2>6, <2>7
  <1>3. CASE FI!Fail("start") \/ FI!Fail("write")
    BY <1>3 DEF MmcatParts, FI!Fail, FI!Go, FI!Move, MainType, FileType
  <1> QED BY <1>1, <1>2, <1>3 DEF FI!mmcat

LEMMA TouchMmcat == MmcatParts /\ FI!Touch => MmcatParts'
  <1> SUFFICES ASSUME MmcatParts, FI!Touch PROVE MmcatParts'
    OBVIOUS
  <1>1. PICK s \in Seq(Nat), t \in Nat : s = os.file["f1"] /\ t = os.touched
    BY DEF MmcatParts
  <1>2. PICK r \in Seq(Nat) : os' = [os EXCEPT !.file["f1"] = r, !.touched = @ + 1]
    <2>1. CASE os' = [os EXCEPT !.file["f1"] = Append(@, 9), !.touched = @ + 1]
      <3>1. os' = [os EXCEPT !.file["f1"] = Append(s, 9), !.touched = @ + 1]
        BY <1>1, <2>1 DEF MmcatParts, MainType, FileType
      <3>2. Append(s, 9) \in Seq(Nat)
        OBVIOUS
      <3> QED BY <3>1, <3>2
    <2>2. CASE os' = [os EXCEPT !.file["f1"] = <<>>, !.touched = @ + 1]
      <3>1. <<>> \in Seq(Nat)
        OBVIOUS
      <3> QED BY <2>2, <3>1
    <2> QED BY <2>1, <2>2 DEF FI!Touch
  <1>3. at' = at /\ mem' = mem
    BY DEF FI!Touch
  <1>4. MainType' /\ os'.file["f1"] = r /\ os'.touched = t + 1 /\ os'.first = os.first
    BY <1>1, <1>2, <1>3 DEF MmcatParts, MainType, FileType
  <1>5. t + 1 \in Nat /\ t + 1 # 0
    OBVIOUS
  <1> QED BY <1>3, <1>4, <1>5 DEF MmcatParts

-----------------------------------------------------------------------------
(* memlock: L is the m runs of ln pages at the multiples of st. *)
RunsOf(L, m, st, ln, n) ==
    /\ m \in Nat /\ \A k \in 0 .. (m - 1) : k * st + ln =< n
    /\ \A x : x \in L <=> \E k \in 0 .. (m - 1) : x \in (k * st) .. (k * st + ln - 1)

LEMMA Times ==
    /\ \A s \in Nat : 0 * s = 0
    /\ \A m, s \in Nat : m * s \in Nat /\ (m + 1) * s = m * s + s
    /\ \A m, k, s \in Nat : m =< k => m * s =< k * s
    /\ \A m, s \in Nat : s # 0 => m =< m * s
  <1>1. \A s \in Nat : 0 * s = 0
    OBVIOUS
  <1>2. \A m, s \in Nat : m * s \in Nat /\ (m + 1) * s = m * s + s
    OBVIOUS
  <1>3. ASSUME NEW m \in Nat, NEW k \in Nat, NEW s \in Nat, m =< k
        PROVE  m * s =< k * s
    <2>1. PICK d \in Nat : k = m + d
      <3>1. k - m \in Nat /\ k = m + (k - m)
        BY <1>3
      <3> QED BY <3>1
    <2>2. (m + d) * s = m * s + d * s
      OBVIOUS
    <2>3. m * s \in Nat /\ d * s \in Nat
      OBVIOUS
    <2> QED BY <2>1, <2>2, <2>3
  <1>4. ASSUME NEW m \in Nat, NEW s \in Nat, s # 0
        PROVE  m =< m * s
    <2>1. PICK d \in Nat : s = 1 + d
      <3>1. s - 1 \in Nat /\ s = 1 + (s - 1)
        BY <1>4
      <3> QED BY <3>1
    <2>2. m * (1 + d) = m + m * d
      OBVIOUS
    <2>3. m * d \in Nat
      OBVIOUS
    <2> QED BY <2>1, <2>2, <2>3
  <1> QED BY <1>1, <1>2, <1>3, <1>4

LEMMA FirstRun == \A st, ln, n \in Nat : RunsOf({}, 0, st, ln, n)
  BY DEF RunsOf

LEMMA NextRun ==
    ASSUME NEW L, NEW m \in Nat, NEW st \in Nat, NEW ln \in Nat, NEW n \in Nat,
           RunsOf(L, m, st, ln, n), m * st + ln =< n
    PROVE  RunsOf(L \cup (m * st) .. (m * st + ln - 1), m + 1, st, ln, n)
  <1>1. \A k : k \in 0 .. ((m + 1) - 1) <=> k \in 0 .. (m - 1) \/ k = m
    OBVIOUS
  <1>2. \A k \in 0 .. ((m + 1) - 1) : k * st + ln =< n
    BY ONLY <1>1, RunsOf(L, m, st, ln, n), m * st + ln =< n, Zenon DEF RunsOf
  <1>3. ASSUME NEW x
        PROVE  x \in L \cup (m * st) .. (m * st + ln - 1)
                  <=> \E k \in 0 .. ((m + 1) - 1) : x \in (k * st) .. (k * st + ln - 1)
    <2>1. x \in L <=> \E k \in 0 .. (m - 1) : x \in (k * st) .. (k * st + ln - 1)
      BY DEF RunsOf
    <2> QED BY ONLY <1>1, <2>1, Zenon
  <1>4. m + 1 \in Nat
    OBVIOUS
  <1> QED BY ONLY <1>2, <1>3, <1>4, Zenon DEF RunsOf

LEMMA RunsWithin ==
    ASSUME NEW L, NEW m \in Nat, NEW st \in Nat, NEW ln \in Nat, NEW n \in Nat,
           RunsOf(L, m, st, ln, n)
    PROVE  L \subseteq 0 .. (n - 1)
  <1> SUFFICES ASSUME NEW x \in L PROVE x \in 0 .. (n - 1)
    OBVIOUS
  <1>1. PICK k \in 0 .. (m - 1) : x \in (k * st) .. (k * st + ln - 1)
    BY DEF RunsOf
  <1>2. k \in Nat /\ k * st + ln =< n
    BY DEF RunsOf
  <1>3. PICK p \in Nat : p = k * st
    BY <1>2, Times
  <1> QED BY <1>1, <1>2, <1>3

(* The runs are all that fit. *)
AllOf(st, ln, n) == UNION {(k * st) .. (k * st + ln - 1) :
                              k \in {k \in 0 .. n : k * st + ln =< n}}

LEMMA AllRuns ==
    \A L : \A m, ln, n \in Nat : \A st \in Nat \ {0} :
       RunsOf(L, m, st, ln, n) /\ m * st + ln > n => L = AllOf(st, ln, n)
  <1> SUFFICES ASSUME NEW L, NEW m \in Nat, NEW st \in Nat \ {0}, NEW ln \in Nat, NEW n \in Nat,
                      RunsOf(L, m, st, ln, n), m * st + ln > n
               PROVE  L = AllOf(st, ln, n)
    OBVIOUS
  <1>1. ASSUME NEW k \in Nat
        PROVE  k \in 0 .. (m - 1) <=> k \in 0 .. n /\ k * st + ln =< n
    <2>1. PICK p \in Nat, q \in Nat : p = k * st /\ q = m * st
      BY Times
    <2>2. m =< k => q =< p
      BY <2>1, Times
    <2>3. k =< p
      BY <2>1, Times
    <2>4. k \in 0 .. (m - 1) => p + ln =< n
      BY <2>1 DEF RunsOf
    <2>5. q + ln > n
      BY <2>1
    <2>6. k \in 0 .. (m - 1) <=> k \in 0 .. n /\ p + ln =< n
      BY ONLY <2>2, <2>3, <2>4, <2>5, k \in Nat, p \in Nat, q \in Nat, m \in Nat, n \in Nat, ln \in Nat
    <2> QED BY <2>1, <2>6
  <1>2. \A k : k \in 0 .. (m - 1) <=> k \in 0 .. n /\ k * st + ln =< n
    <2>1. \A k : (k \in 0 .. (m - 1) => k \in Nat) /\ (k \in 0 .. n => k \in Nat)
      OBVIOUS
    <2> QED BY ONLY <1>1, <2>1, Zenon
  <1>3. ASSUME NEW x
        PROVE  x \in L <=> x \in AllOf(st, ln, n)
    <2>1. x \in L <=> \E k \in 0 .. (m - 1) : x \in (k * st) .. (k * st + ln - 1)
      BY DEF RunsOf
    <2> QED BY ONLY <1>2, <2>1, Zenon DEF AllOf
  <1> QED BY ONLY <1>3, Zenon

(* The runs locked so far, and at the end the mapping. *)
MemlockParts ==
    /\ MainType /\ mem.n \in Nat /\ mem.step \in Nat \ {0} /\ mem.len \in Nat
    /\ at.main \in {"start", "done", "failed"}
    /\ os.locked \subseteq 0 .. (mem.n - 1)
    /\ at.main = "start" =>
          \E m \in Nat : /\ mem.pos = m * mem.step
                         /\ RunsOf(os.locked, m, mem.step, mem.len, mem.n)
    /\ at.main = "done" => mem.seen[1] = AllOf(mem.step, mem.len, mem.n)

LEMMA StepMemlock == MemlockParts /\ FI!memlock => MemlockParts'
  <1> SUFFICES ASSUME MemlockParts, FI!memlock PROVE MemlockParts'
    OBVIOUS
  <1>0. PICK n \in Nat, st \in Nat \ {0}, ln \in Nat :
           n = mem.n /\ st = mem.step /\ ln = mem.len
    BY DEF MemlockParts
  <1>1. CASE FI!Mlock
    <2>1. PICK L, m : /\ m \in Nat /\ L = os.locked /\ mem.pos = m * st
                      /\ RunsOf(L, m, st, ln, n)
      BY <1>0, <1>1 DEF FI!Mlock, MemlockParts
    <2>2. PICK p \in Nat : p = m * st
      <3>1. st \in Nat /\ m \in Nat
        BY <2>1
      <3> QED BY ONLY <3>1, Times
    <2>3. PICK K : K = L \cup p .. (p + ln - 1)
      OBVIOUS
    <2>4. /\ p + ln =< n /\ os' = [os EXCEPT !.locked = K]
          /\ mem' = [mem EXCEPT !.pos = p + st] /\ at' = at /\ at.main = "start"
      BY <1>0, <1>1, <2>1, <2>2, <2>3 DEF FI!Mlock, MemlockParts, MainType, FileType
    <2>5. RunsOf(K, m + 1, st, ln, n)
      BY <2>1, <2>2, <2>3, <2>4, NextRun
    <2>6. m + 1 \in Nat /\ p + st = (m + 1) * st
      <3>1. st \in Nat /\ m \in Nat
        BY <2>1
      <3> QED BY ONLY <2>2, <3>1, Times
    <2>7. K \subseteq 0 .. (n - 1)
      BY <2>5, <2>6, RunsWithin
    <2>8. /\ MainType' /\ mem'.n = n /\ mem'.step = st /\ mem'.len = ln /\ mem'.pos = p + st
          /\ os'.locked = K /\ at'.main = "start"
      BY <1>0, <2>4 DEF MemlockParts, MainType, FileType
    <2> QED BY <2>5, <2>6, <2>7, <2>8 DEF MemlockParts
  <1>2. CASE FI!Mlockall
    <2>1. /\ mem.pos + ln > n /\ at.main = "start" /\ at' = [at EXCEPT !.main = "done"]
          /\ mem' = [mem EXCEPT !.seen = <<os.locked>>]
          /\ os' = [os EXCEPT !.locked = 0 .. (n - 1)]
      BY <1>0, <1>2 DEF FI!Mlockall, FI!Go, FI!Move
    <2>2. PICK L, m : /\ m \in Nat /\ L = os.locked /\ mem.pos = m * st
                      /\ RunsOf(L, m, st, ln, n)
      BY <1>0, <2>1 DEF MemlockParts
    <2>3. L = AllOf(st, ln, n)
      <3>1. m * st + ln > n
        BY <2>1, <2>2
      <3> QED BY ONLY <2>2, <3>1, n \in Nat, st \in Nat \ {0}, ln \in Nat, AllRuns
    <2>4. /\ MainType' /\ mem'.n = n /\ mem'.step = st /\ mem'.len = ln
          /\ mem'.seen = <<L>> /\ os'.locked = 0 .. (n - 1) /\ at'.main = "done"
      BY <1>0, <2>1, <2>2 DEF MemlockParts, MainType, FileType
    <2>5. mem'.seen[1] = L
      BY <2>4
    <2> QED BY <2>3, <2>4, <2>5 DEF MemlockParts
  <1>3. CASE FI!Fail("start")
    BY <1>3 DEF MemlockParts, FI!Fail, FI!Go, FI!Move, MainType, FileType
  <1> QED BY <1>1, <1>2, <1>3 DEF FI!memlock

-----------------------------------------------------------------------------
(* seek_io: entry e of the log wrote byte i. *)
Covers(log, e, i) == log[e][1] < i /\ i =< log[e][1] + log[e][2]

(* Every byte is the number of the last write that covers it, and nothing  *)
(* was written beyond the end of the file.                                 *)
SeekIs(f, log, first) ==
    /\ f \in Seq(Nat) /\ log \in Seq(Nat \X Nat) /\ first =< Len(f)
    /\ \A i \in Nat : \A e \in 1 .. Len(log) : Covers(log, e, i) => i =< Len(f)
    /\ \A i \in 1 .. Len(f) : \A e \in 1 .. Len(log) :
          Covers(log, e, i) => f[i] \in 1 .. Len(log) /\ Covers(log, f[i], i) /\ e =< f[i]
    /\ \A i \in 1 .. Len(f) :
          (\A e \in 1 .. Len(log) : ~Covers(log, e, i)) => f[i] = IF i =< first THEN 100 + i ELSE 0

LEMMA LogNext ==
    ASSUME NEW log \in Seq(Nat \X Nat), NEW pos \in Nat, NEW k \in Nat, NEW new,
           new = Append(log, <<pos, k>>)
    PROVE  /\ new \in Seq(Nat \X Nat) /\ Len(new) = Len(log) + 1
           /\ \A e \in 1 .. Len(log) : \A i : Covers(new, e, i) <=> Covers(log, e, i)
           /\ \A i : Covers(new, Len(log) + 1, i) <=> pos < i /\ i =< pos + k
  <1>1. PICK x \in Nat \X Nat : x = <<pos, k>> /\ x[1] = pos /\ x[2] = k
    <2>1. <<pos, k>> \in Nat \X Nat /\ <<pos, k>>[1] = pos /\ <<pos, k>>[2] = k
      OBVIOUS
    <2> QED BY ONLY <2>1, Zenon
  <1>2. new = Append(log, x)
    BY <1>1
  <1>3. /\ new \in Seq(Nat \X Nat) /\ Len(new) = Len(log) + 1 /\ new[Len(log) + 1] = x
        /\ \A e \in 1 .. Len(log) : new[e] = log[e]
    BY ONLY <1>2, log \in Seq(Nat \X Nat), x \in Nat \X Nat, AppendProperties
  <1>4. \A e \in 1 .. Len(log) : \A i : Covers(new, e, i) <=> Covers(log, e, i)
    BY ONLY <1>3, Zenon DEF Covers
  <1>5. \A i : Covers(new, Len(log) + 1, i) <=> pos < i /\ i =< pos + k
    BY ONLY <1>1, <1>3, Zenon DEF Covers
  <1> QED BY <1>3, <1>4, <1>5

LEMMA SeekNext ==
    \A f, log, b, r : \A first, pos, k \in Nat :
       /\ SeekIs(f, log, first) /\ IsWritten(r, f, pos, b)
       /\ b \in Seq(Nat) /\ Len(b) = k /\ \A i \in 1 .. k : b[i] = Len(log) + 1
       => SeekIs(r, Append(log, <<pos, k>>), first)
  <1> SUFFICES ASSUME NEW f, NEW log, NEW b, NEW r, NEW first \in Nat, NEW pos \in Nat, NEW k \in Nat,
                      SeekIs(f, log, first), IsWritten(r, f, pos, b),
                      b \in Seq(Nat), Len(b) = k, \A i \in 1 .. k : b[i] = Len(log) + 1
               PROVE  SeekIs(r, Append(log, <<pos, k>>), first)
    BY ZenonT(60)
  <1>1. PICK L \in Nat, c \in Nat : /\ L = Len(log) /\ c = Len(f) /\ first =< c
                                    /\ f \in Seq(Nat) /\ log \in Seq(Nat \X Nat)
    BY DEF SeekIs
  <1>2. /\ \A i \in Nat : \A e \in 1 .. L : Covers(log, e, i) => i =< c
        /\ \A i \in 1 .. c : \A e \in 1 .. L :
              Covers(log, e, i) => f[i] \in 1 .. L /\ Covers(log, f[i], i) /\ e =< f[i]
        /\ \A i \in 1 .. c :
              (\A e \in 1 .. L : ~Covers(log, e, i)) => f[i] = IF i =< first THEN 100 + i ELSE 0
    <2>1. SeekIs(f, log, first)
      OBVIOUS
    <2> QED BY ONLY <1>1, <2>1 DEF SeekIs
  <1>3. PICK new : new = Append(log, <<pos, k>>)
    OBVIOUS
  <1>4. /\ new \in Seq(Nat \X Nat) /\ Len(new) = L + 1
        /\ \A e \in 1 .. L : \A i : Covers(new, e, i) <=> Covers(log, e, i)
        /\ \A i : Covers(new, L + 1, i) <=> pos < i /\ i =< pos + k
    BY ONLY <1>1, <1>3, pos \in Nat, k \in Nat, LogNext, Zenon
  <1>5. /\ r \in Seq(Nat) /\ (k = 0 => r = f) /\ (k > 0 => Len(r) = Larger(c, pos + k))
        /\ \A i \in 1 .. Len(r) : i > pos /\ i =< pos + k => r[i] = b[i - pos]
        /\ \A i \in 1 .. Len(r) : i > c /\ i =< pos => r[i] = 0
        /\ \A i \in 1 .. c : i =< pos \/ i > pos + k => r[i] = f[i]
    <2>1. IsWritten(r, f, pos, b) /\ Len(b) = k
      OBVIOUS
    <2>2. /\ r \in Seq(Nat) /\ (Len(b) = 0 => r = f)
          /\ Len(b) > 0 => Len(r) = Larger(Len(f), pos + Len(b))
          /\ \A i \in 1 .. Len(r) : i > pos /\ i =< pos + Len(b) => r[i] = b[i - pos]
          /\ \A i \in 1 .. Len(r) : i > Len(f) /\ i =< pos => r[i] = 0
          /\ \A i \in 1 .. Len(f) : i =< pos \/ i > pos + Len(b) => r[i] = f[i]
      BY ONLY <2>1 DEF IsWritten
    <2> QED BY ONLY <1>1, <2>1, <2>2, c \in Nat, k \in Nat, pos \in Nat
  <1>6. PICK d \in Nat : d = Len(r)
    BY <1>5
  <1>7. c =< d /\ (k > 0 => pos + k =< d) /\ (d > c => k > 0 /\ d = pos + k)
    <2>1. CASE k = 0
      BY <1>1, <1>5, <1>6, <2>1
    <2>2. CASE k > 0
      <3>1. d = Larger(c, pos + k)
        BY <1>5, <1>6, <2>2
      <3> QED BY ONLY <2>2, <3>1, c \in Nat, pos \in Nat, k \in Nat DEF Larger
    <2> QED BY <2>1, <2>2
  <1>8. \A i \in 1 .. d : pos < i /\ i =< pos + k => r[i] = L + 1
    <2> SUFFICES ASSUME NEW i \in 1 .. d, pos < i, i =< pos + k PROVE r[i] = L + 1
      OBVIOUS
    <2>1. i - pos \in 1 .. k
      OBVIOUS
    <2>2. b[i - pos] = L + 1
      BY <1>1, <2>1
    <2> QED BY <1>5, <1>6, <2>2
  <1>9. \A e \in 1 .. (L + 1) : e \in 1 .. L \/ e = L + 1
    OBVIOUS
  <1>10. ASSUME NEW i \in Nat, NEW e \in 1 .. (L + 1), Covers(new, e, i)
         PROVE  i =< d
    <2>1. CASE e \in 1 .. L
      <3>1. i =< c
        BY ONLY <1>2, <1>4, <1>10, <2>1, Zenon
      <3> QED BY <1>7, <3>1
    <2>2. CASE e = L + 1
      <3>1. pos < i /\ i =< pos + k
        BY ONLY <1>4, <1>10, <2>2, Zenon
      <3> QED BY <1>7, <3>1
    <2> QED BY <1>9, <2>1, <2>2
  <1>11. ASSUME NEW i \in 1 .. d, NEW e \in 1 .. (L + 1), Covers(new, e, i)
         PROVE  r[i] \in 1 .. (L + 1) /\ Covers(new, r[i], i) /\ e =< r[i]
    <2>1. CASE pos < i /\ i =< pos + k
      <3>1. r[i] = L + 1
        BY <1>8, <2>1
      <3>2. Covers(new, r[i], i)
        BY ONLY <1>4, <2>1, <3>1, Zenon
      <3> QED BY <3>1, <3>2
    <2>2. CASE ~(pos < i /\ i =< pos + k)
      <3>1. e \in 1 .. L /\ Covers(log, e, i)
        <4>1. e # L + 1
          BY ONLY <1>4, <1>11, <2>2, Zenon
        <4> QED BY ONLY <1>4, <1>9, <1>11, <4>1, Zenon
      <3>2. i \in Nat /\ i \in 1 .. c
        <4>1. i \in Nat
          OBVIOUS
        <4>2. i =< c
          BY ONLY <1>2, <3>1, <4>1, Zenon
        <4> QED BY <4>1, <4>2
      <3>3. r[i] = f[i]
        <4>1. i =< pos \/ i > pos + k
          BY <2>2, <3>2
        <4> QED BY ONLY <1>5, <3>2, <4>1, Zenon
      <3>4. f[i] \in 1 .. L /\ Covers(log, f[i], i) /\ e =< f[i]
        BY ONLY <1>2, <3>1, <3>2, Zenon
      <3>5. Covers(new, f[i], i)
        BY ONLY <1>4, <3>4, Zenon
      <3>6. r[i] \in 1 .. (L + 1)
        BY <3>3, <3>4
      <3> QED BY ONLY <3>3, <3>4, <3>5, <3>6
    <2> QED BY <2>1, <2>2
  <1>12. ASSUME NEW i \in 1 .. d, \A e \in 1 .. (L + 1) : ~Covers(new, e, i)
         PROVE  r[i] = IF i =< first THEN 100 + i ELSE 0
    <2>1. ~(pos < i /\ i =< pos + k)
      <3>1. L + 1 \in 1 .. (L + 1)
        OBVIOUS
      <3> QED BY ONLY <1>4, <1>12, <3>1, Zenon
    <2>2. CASE i =< c
      <3>1. i \in 1 .. c
        BY <2>2
      <3>2. \A e \in 1 .. L : ~Covers(log, e, i)
        <4>1. \A e \in 1 .. L : e \in 1 .. (L + 1)
          OBVIOUS
        <4> QED BY ONLY <1>4, <1>12, <4>1, Zenon
      <3>3. f[i] = IF i =< first THEN 100 + i ELSE 0
        BY ONLY <1>2, <3>1, <3>2, Zenon
      <3>4. i =< pos \/ i > pos + k
        BY <2>1
      <3>5. r[i] = f[i]
        BY ONLY <1>5, <3>1, <3>4, Zenon
      <3> QED BY ONLY <3>3, <3>5, Zenon
    <2>3. CASE i > c
      <3>1. i =< pos /\ ~(i =< first)
        BY <1>1, <1>7, <2>1, <2>3
      <3>2. r[i] = 0
        BY <1>5, <1>6, <2>3, <3>1
      <3> QED BY <3>1, <3>2
    <2> QED BY <2>2, <2>3
  <1>13. first =< d
    BY <1>1, <1>7
  <1> QED BY ONLY <1>3, <1>4, <1>5, <1>6, <1>10, <1>11, <1>12, <1>13, Zenon DEF SeekIs

SeekParts ==
    /\ MainType /\ os.first \in Nat /\ mem.pos \in Nat
    /\ at.main \in {"start", "done", "failed"}
    /\ SeekIs(os.file["f1"], mem.log, os.first)
    /\ mem.last # <<>> /\ mem.last[3] = <<>> => mem.last[2] = 0 \/ mem.last[1] >= os.first

LEMMA StepSeek == SeekParts /\ FI!seek_io => SeekParts'
  <1> SUFFICES ASSUME SeekParts, FI!seek_io PROVE SeekParts'
    OBVIOUS
  <1>1. PICK first \in Nat, pos \in Nat : first = os.first /\ pos = mem.pos
    BY DEF SeekParts
  <1>2. PICK f, log : f = os.file["f1"] /\ log = mem.log /\ SeekIs(f, log, first)
    BY <1>1 DEF SeekParts
  <1>3. f \in Seq(Nat) /\ first =< Len(f) /\ log \in Seq(Nat \X Nat)
    BY <1>2 DEF SeekIs
  <1>4. PICK new : new = Append(log, <<0, 0>>)
    OBVIOUS
  <1>5. SeekIs(f, new, first)
    <2>1. PICK z \in Nat, b \in Seq(Nat) : z = 0 /\ Len(b) = z
      <3>1. 0 \in Nat /\ <<>> \in Seq(Nat) /\ Len(<<>>) = 0
        OBVIOUS
      <3> QED BY <3>1
    <2>2. IsWritten(f, f, z, b)
      BY <1>3, <2>1 DEF IsWritten
    <2>3. \A i \in 1 .. z : b[i] = Len(log) + 1
      BY <2>1
    <2>4. SeekIs(f, Append(log, <<z, z>>), first)
      BY ONLY <1>2, <2>1, <2>2, <2>3, first \in Nat, z \in Nat, b \in Seq(Nat), SeekNext, Zenon
    <2> QED BY <1>4, <2>1, <2>4
  <1>6. ASSUME NEW len \in Nat, FI!ReadBytes(len) PROVE SeekParts'
    <2>0. PICK t \in Nat : t = Len(f)
      BY <1>3
    <2>1. PICK q : q = FI!Min({t, pos + len})
      OBVIOUS
    <2>2. q \in Nat /\ q =< t /\ (q < pos + 1 => len = 0 \/ t =< pos)
      <3>1. PICK u \in Nat : u = pos + len
        OBVIOUS
      <3>2. q = IF t =< u THEN t ELSE u
        BY <2>1, <3>1, MinOfTwo
      <3> QED BY ONLY <3>1, <3>2, t \in Nat, u \in Nat, pos \in Nat, len \in Nat
    <2>3. PICK b : b = SubSeq(f, pos + 1, q)
      OBVIOUS
    <2>4. b \in Seq(Nat) /\ Len(b) \in Nat
      <3>0. f \in Seq(Nat) /\ q \in Nat /\ q =< Len(f)
        BY <1>3, <2>0, <2>2
      <3>1. CASE pos + 1 =< q
        BY ONLY <2>3, <3>0, <3>1, pos \in Nat
      <3>2. CASE q < pos + 1
        BY ONLY <2>3, <3>0, <3>2, pos \in Nat
      <3> QED BY <2>2, <3>1, <3>2
    <2>5. b = <<>> => len = 0 \/ pos >= first
      <3>1. b = <<>> => q < pos + 1
        <4>0. f \in Seq(Nat) /\ q \in Nat /\ q =< Len(f)
          BY <1>3, <2>0, <2>2
        <4>1. pos + 1 =< q => Len(b) = q - pos
          BY ONLY <2>3, <4>0, pos \in Nat
        <4> QED BY <2>2, <4>1
      <3> QED BY <1>3, <2>0, <2>2, <3>1
    <2>6. /\ mem' = [mem EXCEPT !.last = <<pos, len, b>>, !.pos = pos + Len(b), !.log = new]
          /\ at' = at /\ os' = os
      BY <1>1, <1>2, <1>4, <1>6, <2>0, <2>1, <2>3 DEF FI!ReadBytes, SeekParts, MainType, FileType
    <2>7. MainType' /\ mem'.last = <<pos, len, b>> /\ mem'.pos = pos + Len(b) /\ mem'.log = new
      BY <2>6 DEF SeekParts, MainType, FileType
    <2>8. mem'.last[1] = pos /\ mem'.last[2] = len /\ mem'.last[3] = b
      BY <2>7
    <2>9. pos + Len(b) \in Nat
      BY <2>4
    <2> QED BY <1>1, <1>2, <1>5, <2>5, <2>6, <2>7, <2>8, <2>9 DEF SeekParts
  <1>7. ASSUME NEW len \in Nat, FI!WriteBytes(len) PROVE SeekParts'
    <2>0. PICK k : /\ k \in IF len = 0 THEN {0} ELSE 1 .. len
                   /\ os' = [os EXCEPT !.file["f1"] =
                                FI!Written(@, mem.pos, [i \in 1 .. k |-> Len(mem.log) + 1])]
                   /\ mem' = [mem EXCEPT !.log = Append(@, <<mem.pos, k>>), !.pos = @ + k]
                   /\ at' = at
      BY <1>7, Zenon DEF FI!WriteBytes, FI!Ops
    <2>1. /\ k \in IF len = 0 THEN {0} ELSE 1 .. len
          /\ os' = [os EXCEPT !.file["f1"] =
                        FI!Written(f, pos, [i \in 1 .. k |-> Len(log) + 1])]
          /\ mem' = [mem EXCEPT !.log = Append(log, <<pos, k>>), !.pos = pos + k]
          /\ at' = at
      BY <1>1, <1>2, <2>0 DEF SeekParts, MainType, FileType
    <2>2. k \in Nat
      BY <2>1
    <2>3. PICK b : b = [i \in 1 .. k |-> Len(log) + 1]
      OBVIOUS
    <2>4. b \in Seq(Nat) /\ Len(b) = k /\ \A i \in 1 .. k : b[i] = Len(log) + 1
      <3>1. Len(log) + 1 \in Nat
        BY <1>3
      <3>2. b \in [1 .. k -> Nat] /\ \A i \in 1 .. k : b[i] = Len(log) + 1
        BY <2>3, <3>1
      <3> QED BY ONLY <2>2, <3>2, FunSeq, Zenon
    <2>5. PICK r, w : r = FI!Written(f, pos, b) /\ w = Append(log, <<pos, k>>)
      OBVIOUS
    <2>6. IsWritten(r, f, pos, b)
      BY ONLY <1>3, <2>4, <2>5, pos \in Nat, WrittenIs, Zenon
    <2>7. SeekIs(r, w, first)
      BY ONLY <1>2, <2>2, <2>4, <2>5, <2>6, first \in Nat, pos \in Nat, SeekNext, Zenon
    <2>8. /\ MainType' /\ mem'.log = w /\ mem'.pos = pos + k /\ mem'.last = mem.last
          /\ os'.file["f1"] = r /\ os'.first = first /\ at' = at
      BY <1>1, <2>1, <2>3, <2>5 DEF SeekParts, MainType, FileType
    <2>9. pos + k \in Nat
      BY <2>2
    <2> QED BY <1>1, <2>7, <2>8, <2>9 DEF SeekParts
  <1>8. ASSUME NEW off \in Nat, FI!Seek(off) PROVE SeekParts'
    <2>1. mem' = [mem EXCEPT !.log = new, !.pos = off] /\ at' = at /\ os' = os
      BY <1>2, <1>4, <1>8 DEF FI!Seek, SeekParts, MainType, FileType
    <2>2. MainType' /\ mem'.log = new /\ mem'.pos = off /\ mem'.last = mem.last
      BY <2>1 DEF SeekParts, MainType, FileType
    <2> QED BY <1>1, <1>2, <1>5, <2>1, <2>2 DEF SeekParts
  <1>9. CASE FI!Fail("start") \/ (FI!Go("start", "done") /\ UNCHANGED <<mem, os>>)
    BY <1>9 DEF SeekParts, FI!Fail, FI!Go, FI!Move, MainType, FileType
  <1>10. \A k \in 0 .. MaxFile : k \in Nat
    OBVIOUS
  <1>11. CASE \E k \in 0 .. MaxFile : FI!ReadBytes(k) \/ FI!WriteBytes(k) \/ FI!Seek(k)
    <2>1. PICK k \in Nat : FI!ReadBytes(k) \/ FI!WriteBytes(k) \/ FI!Seek(k)
      BY <1>10, <1>11, Zenon
    <2> QED BY <1>6, <1>7, <1>8, <2>1, Zenon
  <1> QED BY <1>9, <1>11 DEF FI!seek_io

(* What the run checks of the file. *)
LEMMA SeekBytes ==
    SeekParts => os.file["f1"] = [i \in 1 .. Len(os.file["f1"]) |-> FI!ByteAt(i)]
  <1> SUFFICES ASSUME SeekParts
               PROVE  os.file["f1"] = [i \in 1 .. Len(os.file["f1"]) |-> FI!ByteAt(i)]
    OBVIOUS
  <1>1. PICK f, log, first : /\ f = os.file["f1"] /\ log = mem.log /\ first = os.first
                             /\ SeekIs(f, log, first)
    BY DEF SeekParts
  <1>2. ASSUME NEW i \in 1 .. Len(f)
        PROVE  f[i] = FI!ByteAt(i)
    <2>1. PICK S : S = {e \in 1 .. Len(log) : Covers(log, e, i)}
      OBVIOUS
    <2>2. FI!ByteAt(i) = IF S # {} THEN FI!Max(S) ELSE IF i =< first THEN 100 + i ELSE 0
      BY <1>1, <2>1 DEF FI!ByteAt, FI!Ops, Covers
    <2>3. CASE S = {}
      <3>1. \A e \in 1 .. Len(log) : ~Covers(log, e, i)
        BY <2>1, <2>3
      <3>2. f[i] = IF i =< first THEN 100 + i ELSE 0
        BY ONLY <1>1, <1>2, <3>1, Zenon DEF SeekIs
      <3> QED BY <2>2, <2>3, <3>2
    <2>4. CASE S # {}
      <3>1. PICK e \in 1 .. Len(log) : Covers(log, e, i)
        BY <2>1, <2>4
      <3>2. /\ f[i] \in 1 .. Len(log) /\ Covers(log, f[i], i)
            /\ \A d \in 1 .. Len(log) : Covers(log, d, i) => d =< f[i]
        BY ONLY <1>1, <1>2, <3>1, Zenon DEF SeekIs
      <3>3. PICK m \in Nat : m = f[i] /\ m \in S /\ \A d \in S : d \in Nat /\ m >= d
        BY <2>1, <3>2
      <3>4. FI!Max(S) \in S /\ \A d \in S : FI!Max(S) >= d
        BY <3>3 DEF FI!Max
      <3>5. FI!Max(S) = m
        <4>1. PICK x : x = FI!Max(S)
          OBVIOUS
        <4>2. x \in Nat /\ x >= m /\ m >= x
          BY ONLY <3>3, <3>4, <4>1
        <4> QED BY <4>1, <4>2
      <3> QED BY <2>2, <2>4, <3>3, <3>5
    <2> QED BY <2>3, <2>4
  <1>3. f = [i \in 1 .. Len(f) |-> f[i]]
    <2>1. f \in Seq(Nat)
      BY <1>1 DEF SeekIs
    <2>2. f \in [1 .. Len(f) -> Nat]
      BY <2>1, SeqFun
    <2> QED BY <2>2
  <1> QED BY <1>1, <1>2, <1>3

-----------------------------------------------------------------------------
(* copy: of the input s, which still begins with its first bytes, w bytes  *)
(* are in the copy t and those up to pos in the buffer b.                  *)
CopyIs(s, t, b, pos, w, first) ==
    /\ s \in Seq(Nat) /\ t \in Seq(Nat) /\ b \in Seq(Nat) /\ first \in Nat
    /\ w = Len(t) /\ pos = w + Len(b) /\ pos =< Len(s) /\ first =< Len(s)
    /\ \A i \in 1 .. first : s[i] = 100 + i
    /\ \A i \in 1 .. w : t[i] = s[i]
    /\ \A i \in 1 .. Len(b) : b[i] = s[w + i]

(* A file copied to itself: nothing but what was appended since. *)
SelfIs(s, b, pos, w) ==
    /\ s \in Seq(Nat) /\ b \in Seq(Nat) /\ w \in Nat
    /\ pos = w + Len(b) /\ pos =< Len(s)
    /\ \A i \in 1 .. Len(s) : s[i] = 9
    /\ \A i \in 1 .. Len(b) : b[i] = 9

CopyParts ==
    /\ MainType /\ mem.to \in {"f1", "f2"}
    /\ at.main \in {"start", "read", "write", "done", "failed"}
    /\ at.main = "start" => mem.pos = 0 /\ mem.wrote = 0 /\ os.file["f1"] \in Seq(Nat)
    /\ at.main \in {"start", "read"} => mem.buf = <<>>
    /\ at.main # "failed" /\ mem.to = "f2" =>
          CopyIs(os.file["f1"], os.file["f2"], mem.buf, mem.pos, mem.wrote, os.first)
    /\ at.main \in {"read", "write", "done"} /\ mem.to = "f1" =>
          SelfIs(os.file["f1"], mem.buf, mem.pos, mem.wrote)
    /\ at.main = "done" /\ mem.to = "f2" => os.first =< Len(os.file["f2"])

LEMMA TakenIs ==
    \A s \in Seq(Nat) : \A p, k \in Nat :
       p + k =< Len(s) =>
          /\ SubSeq(s, p + 1, p + k) \in Seq(Nat) /\ Len(SubSeq(s, p + 1, p + k)) = k
          /\ \A i \in 1 .. k : SubSeq(s, p + 1, p + k)[i] = s[p + i]
  <1> SUFFICES ASSUME NEW s \in Seq(Nat), NEW p \in Nat, NEW k \in Nat, p + k =< Len(s)
               PROVE  /\ SubSeq(s, p + 1, p + k) \in Seq(Nat) /\ Len(SubSeq(s, p + 1, p + k)) = k
                      /\ \A i \in 1 .. k : SubSeq(s, p + 1, p + k)[i] = s[p + i]
    OBVIOUS
  <1>1. CASE k = 0
    BY <1>1
  <1>2. CASE k > 0
    BY <1>2
  <1> QED BY <1>1, <1>2

LEMMA ReadCopy ==
    \A s, t, e, b, first : \A p, w, k \in Nat :
       CopyIs(s, t, e, p, w, first) =>
          (Len(e) = 0 /\ p + k =< Len(s) /\ b = SubSeq(s, p + 1, p + k) =>
              CopyIs(s, t, b, p + k, w, first))
  <1> TAKE s, t, e, b, first
  <1> TAKE p, w, k \in Nat
  <1> HAVE CopyIs(s, t, e, p, w, first)
  <1> HAVE Len(e) = 0 /\ p + k =< Len(s) /\ b = SubSeq(s, p + 1, p + k)
  <1>1. p = w /\ s \in Seq(Nat)
    BY DEF CopyIs
  <1>2. b \in Seq(Nat) /\ Len(b) = k /\ \A i \in 1 .. k : b[i] = s[p + i]
    BY <1>1, TakenIs
  <1> QED BY <1>1, <1>2 DEF CopyIs

LEMMA ReadSelf ==
    \A s, e, b : \A p, w, k \in Nat :
       /\ SelfIs(s, e, p, w) /\ Len(e) = 0 /\ p + k =< Len(s) /\ b = SubSeq(s, p + 1, p + k)
       => SelfIs(s, b, p + k, w)
  <1> SUFFICES ASSUME NEW s, NEW e, NEW b, NEW p \in Nat, NEW w \in Nat, NEW k \in Nat,
                      SelfIs(s, e, p, w), Len(e) = 0, p + k =< Len(s), b = SubSeq(s, p + 1, p + k)
               PROVE  SelfIs(s, b, p + k, w)
    BY Zenon
  <1>1. p = w /\ s \in Seq(Nat)
    BY DEF SelfIs
  <1>2. b \in Seq(Nat) /\ Len(b) = k /\ \A i \in 1 .. k : b[i] = s[p + i]
    BY <1>1, TakenIs
  <1>3. \A i \in 1 .. k : p + i \in 1 .. Len(s)
    BY <1>1
  <1>4. \A i \in 1 .. k : b[i] = 9
    BY <1>2, <1>3 DEF SelfIs
  <1> QED BY <1>1, <1>2, <1>4 DEF SelfIs

LEMMA WriteCopy ==
    \A s, t, b, r, first, p, w :
       CopyIs(s, t, b, p, w, first) /\ IsWritten(r, t, w, b) => CopyIs(s, r, <<>>, p, p, first)
  <1> SUFFICES ASSUME NEW s, NEW t, NEW b, NEW r, NEW first, NEW p, NEW w,
                      CopyIs(s, t, b, p, w, first), IsWritten(r, t, w, b)
               PROVE  CopyIs(s, r, <<>>, p, p, first)
    BY Zenon
  <1>1. PICK k \in Nat : k = Len(b) /\ p = w + k
    BY DEF CopyIs
  <1>2. w \in Nat /\ w = Len(t) /\ t \in Seq(Nat)
    BY DEF CopyIs
  <1>3. /\ r \in Seq(Nat) /\ (k = 0 => r = t) /\ (k > 0 => Len(r) = Larger(w, w + k))
        /\ \A i \in 1 .. Len(r) : i > w /\ i =< w + k => r[i] = b[i - w]
        /\ \A i \in 1 .. w : i =< w \/ i > w + k => r[i] = t[i]
    <2>1. IsWritten(r, t, w, b)
      OBVIOUS
    <2>2. /\ r \in Seq(Nat) /\ (Len(b) = 0 => r = t)
          /\ Len(b) > 0 => Len(r) = Larger(Len(t), w + Len(b))
          /\ \A i \in 1 .. Len(r) : i > w /\ i =< w + Len(b) => r[i] = b[i - w]
          /\ \A i \in 1 .. Len(t) : i =< w \/ i > w + Len(b) => r[i] = t[i]
      BY ONLY <2>1 DEF IsWritten
    <2> QED BY ONLY <1>1, <1>2, <2>2, k \in Nat
  <1>4. Len(r) = p
    <2>1. CASE k = 0
      BY <1>1, <1>2, <1>3, <2>1
    <2>2. CASE k > 0
      <3>1. Larger(w, w + k) = w + k
        BY <1>2, <2>2 DEF Larger
      <3> QED BY <1>1, <1>3, <2>2, <3>1
    <2> QED BY <2>1, <2>2
  <1>5. ASSUME NEW i \in 1 .. p PROVE r[i] = s[i]
    <2>1. CASE i =< w
      <3>1. i \in 1 .. w /\ t[i] = s[i]
        BY <1>1, <1>2, <2>1 DEF CopyIs
      <3> QED BY <1>3, <2>1, <3>1
    <2>2. CASE i > w
      <3>1. i - w \in 1 .. k /\ w + (i - w) = i
        BY <1>1, <1>2, <2>2
      <3>2. b[i - w] = s[i]
        BY <1>1, <3>1 DEF CopyIs
      <3> QED BY <1>1, <1>3, <1>4, <2>2, <3>2
    <2> QED BY <1>1, <1>2, <2>1, <2>2
  <1>6. p \in Nat /\ <<>> \in Seq(Nat) /\ Len(<<>>) = 0 /\ p = p + 0
    BY <1>1, <1>2
  <1> QED BY <1>3, <1>4, <1>5, <1>6 DEF CopyIs

LEMMA WriteSelf ==
    \A s, b, r, p, w :
       SelfIs(s, b, p, w) /\ IsWritten(r, s, w, b) => SelfIs(r, <<>>, p, p)
  <1> SUFFICES ASSUME NEW s, NEW b, NEW r, NEW p, NEW w,
                      SelfIs(s, b, p, w), IsWritten(r, s, w, b)
               PROVE  SelfIs(r, <<>>, p, p)
    BY Zenon
  <1>1. PICK k \in Nat, c \in Nat : k = Len(b) /\ p = w + k /\ c = Len(s) /\ p =< c
    BY DEF SelfIs
  <1>2. w \in Nat /\ s \in Seq(Nat) /\ b \in Seq(Nat)
    BY DEF SelfIs
  <1>3. /\ r \in Seq(Nat) /\ (k = 0 => r = s) /\ (k > 0 => Len(r) = Larger(c, w + k))
        /\ \A i \in 1 .. Len(r) : i > w /\ i =< w + k => r[i] = b[i - w]
        /\ \A i \in 1 .. c : i =< w \/ i > w + k => r[i] = s[i]
    <2>1. IsWritten(r, s, w, b)
      OBVIOUS
    <2>2. /\ r \in Seq(Nat) /\ (Len(b) = 0 => r = s)
          /\ Len(b) > 0 => Len(r) = Larger(Len(s), w + Len(b))
          /\ \A i \in 1 .. Len(r) : i > w /\ i =< w + Len(b) => r[i] = b[i - w]
          /\ \A i \in 1 .. Len(s) : i =< w \/ i > w + Len(b) => r[i] = s[i]
      BY ONLY <2>1 DEF IsWritten
    <2> QED BY ONLY <1>1, <1>2, <2>2, k \in Nat, c \in Nat
  <1>4. Len(r) = c
    <2>1. CASE k = 0
      BY <1>1, <1>2, <1>3, <2>1
    <2>2. CASE k > 0
      <3>1. Larger(c, w + k) = c
        BY <1>1, <1>2, <2>2 DEF Larger
      <3> QED BY <1>1, <1>3, <2>2, <3>1
    <2> QED BY <2>1, <2>2
  <1>5. ASSUME NEW i \in 1 .. c PROVE r[i] = 9
    <2>1. CASE i =< w \/ i > w + k
      <3>1. s[i] = 9
        BY <1>1 DEF SelfIs
      <3> QED BY ONLY <1>3, <2>1, <3>1, i \in 1 .. c, Zenon
    <2>2. CASE i > w /\ i =< w + k
      <3>1. i - w \in 1 .. k
        BY <1>1, <1>2, <2>2
      <3>2. b[i - w] = 9
        BY <1>1, <3>1 DEF SelfIs
      <3> QED BY <1>3, <1>4, <2>2, <3>2
    <2> QED BY <1>1, <1>2, <2>1, <2>2
  <1>6. p \in Nat /\ <<>> \in Seq(Nat) /\ Len(<<>>) = 0 /\ p = p + 0 /\ p =< c
    BY <1>1, <1>2
  <1>7. \A i \in 1 .. Len(<<>>) : <<>>[i] = 9
    BY <1>6
  <1> QED BY <1>3, <1>4, <1>5, <1>6, <1>7 DEF SelfIs

LEMMA StepCopy == CopyParts /\ FI!copy => CopyParts'
  <1> SUFFICES ASSUME CopyParts, FI!copy PROVE CopyParts'
    OBVIOUS
  <1>0. PICK s, t, b, p, w, first :
           /\ s = os.file["f1"] /\ t = os.file["f2"] /\ b = mem.buf
           /\ p = mem.pos /\ w = mem.wrote /\ first = os.first
    OBVIOUS
  <1>a. MainType /\ mem.to \in {"f1", "f2"}
    BY DEF CopyParts
  <1>1. CASE FI!OpenBoth
    <2>1. /\ at.main = "start" /\ at' = [at EXCEPT !.main = "read"] /\ mem' = mem
          /\ os' = [os EXCEPT !.file[mem.to] = <<>>]
      BY <1>1 DEF FI!OpenBoth, FI!Go, FI!Move
    <2>2. b = <<>> /\ p = 0 /\ w = 0
      BY <1>0, <2>1 DEF CopyParts
    <2>3. MainType' /\ at'.main = "read" /\ os'.first = first
      BY <1>0, <1>a, <2>1 DEF MainType, FileType
    <2>4. CASE mem.to = "f2"
      <3>1. os'.file["f1"] = s /\ os'.file["f2"] = <<>>
        BY <1>0, <1>a, <2>1, <2>4 DEF MainType, FileType
      <3>2. CopyIs(s, t, b, p, w, first)
        BY <1>0, <2>1, <2>4 DEF CopyParts
      <3>3. t = <<>>
        BY <2>2, <3>2 DEF CopyIs
      <3> QED BY <1>0, <2>1, <2>2, <2>3, <2>4, <3>1, <3>2, <3>3 DEF CopyParts
    <2>5. CASE mem.to = "f1"
      <3>1. os'.file["f1"] = <<>>
        BY <1>0, <1>a, <2>1, <2>5 DEF MainType, FileType
      <3>2. SelfIs(<<>>, b, p, w)
        BY <2>2 DEF SelfIs
      <3> QED BY <1>0, <2>1, <2>2, <2>3, <2>5, <3>1, <3>2 DEF CopyParts
    <2> QED BY <1>a, <2>4, <2>5
  <1>2. CASE FI!Read
    <2>1. PICK k : /\ k \in 1 .. FI!Min({BufSize, Len(s) - p}) /\ p < Len(s)
                   /\ mem' = [mem EXCEPT !.buf = SubSeq(s, p + 1, p + k), !.pos = p + k]
                   /\ at.main = "read" /\ at' = [at EXCEPT !.main = "write"] /\ os' = os
      BY <1>0, <1>2, <1>a DEF FI!Read, FI!Go, FI!Move, MainType, FileType
    <2>2. PICK c : c = SubSeq(s, p + 1, p + k)
      OBVIOUS
    <2>3. /\ MainType' /\ at'.main = "write" /\ mem'.buf = c /\ mem'.pos = p + k
          /\ mem'.wrote = w /\ mem'.to = mem.to
      BY <1>0, <1>a, <2>1, <2>2 DEF MainType, FileType
    <2>4. b = <<>> /\ Len(b) = 0
      BY <1>0, <2>1 DEF CopyParts
    <2>5. ASSUME s \in Seq(Nat), p \in Nat
          PROVE  k \in Nat /\ p + k =< Len(s)
      <3>1. PICK d \in Nat : d = Len(s) - p
        BY <2>1, <2>5
      <3>2. FI!Min({BufSize, d}) = IF BufSize =< d THEN BufSize ELSE d
        BY MinOfTwo, BufferAssumption
      <3>3. k \in Nat /\ k =< d
        BY <2>1, <3>1, <3>2, BufferAssumption
      <3> QED BY <2>5, <3>1, <3>3
    <2>6. CASE mem.to = "f2"
      <3>1. CopyIs(s, t, b, p, w, first)
        BY <1>0, <2>1, <2>6 DEF CopyParts
      <3>2. s \in Seq(Nat) /\ p \in Nat /\ w \in Nat
        BY <3>1 DEF CopyIs
      <3>3. CopyIs(s, t, c, p + k, w, first)
        BY ONLY <2>2, <2>4, <2>5, <3>1, <3>2, ReadCopy, Zenon
      <3> QED BY <1>0, <2>1, <2>3, <2>6, <3>3 DEF CopyParts
    <2>7. CASE mem.to = "f1"
      <3>1. SelfIs(s, b, p, w)
        BY <1>0, <2>1, <2>7 DEF CopyParts
      <3>2. s \in Seq(Nat) /\ p \in Nat /\ w \in Nat
        BY <3>1 DEF SelfIs
      <3>3. SelfIs(s, c, p + k, w)
        BY ONLY <2>2, <2>4, <2>5, <3>1, <3>2, ReadSelf, Zenon
      <3> QED BY <1>0, <2>1, <2>3, <2>7, <3>3 DEF CopyParts
    <2> QED BY <1>a, <2>6, <2>7
  <1>3. CASE FI!Write
    <2>1. PICK k : /\ k \in 0 .. Len(b) /\ at.main = "write"
                   /\ os' = [os EXCEPT !.file[mem.to] = FI!Written(@, w, SubSeq(b, 1, k))]
                   /\ mem' = [mem EXCEPT !.buf = <<>>, !.wrote = w + k]
                   /\ at' = [at EXCEPT !.main = IF k = Len(b) THEN "read" ELSE "failed"]
      BY <1>0, <1>3, <1>a DEF FI!Write, MainType, FileType
    <2>2. MainType' /\ mem'.buf = <<>> /\ mem'.wrote = w + k /\ mem'.pos = p /\ mem'.to = mem.to
      BY <1>0, <1>a, <2>1 DEF MainType, FileType
    <2>3. CASE k # Len(b)
      <3>1. at'.main = "failed"
        BY <1>a, <2>1, <2>3 DEF MainType
      <3> QED BY <1>a, <2>2, <3>1 DEF CopyParts
    <2>4. CASE k = Len(b)
      <3>1. at'.main = "read"
        BY <1>a, <2>1, <2>4 DEF MainType
      <3>2. b \in Seq(Nat) => SubSeq(b, 1, k) = b
        BY <2>4
      <3>3. CASE mem.to = "f2"
        <4>1. CopyIs(s, t, b, p, w, first)
          BY <1>0, <2>1, <3>3 DEF CopyParts
        <4>2. t \in Seq(Nat) /\ w \in Nat /\ b \in Seq(Nat) /\ p = w + k
          BY <2>4, <4>1 DEF CopyIs
        <4>3. PICK r : r = FI!Written(t, w, b)
          OBVIOUS
        <4>4. IsWritten(r, t, w, b)
          BY ONLY <4>2, <4>3, WrittenIs, Zenon
        <4>5. CopyIs(s, r, <<>>, p, p, first)
          BY ONLY <4>1, <4>4, WriteCopy, Zenon
        <4>6. os'.file["f1"] = s /\ os'.file["f2"] = r /\ os'.first = first
          BY <1>0, <1>a, <2>1, <3>2, <3>3, <4>2, <4>3 DEF MainType, FileType
        <4> QED BY <2>2, <3>1, <3>3, <4>2, <4>5, <4>6 DEF CopyParts
      <3>4. CASE mem.to = "f1"
        <4>1. SelfIs(s, b, p, w)
          BY <1>0, <2>1, <3>4 DEF CopyParts
        <4>2. s \in Seq(Nat) /\ w \in Nat /\ b \in Seq(Nat) /\ p = w + k
          BY <2>4, <4>1 DEF SelfIs
        <4>3. PICK r : r = FI!Written(s, w, b)
          OBVIOUS
        <4>4. IsWritten(r, s, w, b)
          BY ONLY <4>2, <4>3, WrittenIs, Zenon
        <4>5. SelfIs(r, <<>>, p, p)
          BY ONLY <4>1, <4>4, WriteSelf, Zenon
        <4>6. os'.file["f1"] = r
          BY <1>0, <1>a, <2>1, <3>2, <3>4, <4>2, <4>3 DEF MainType, FileType
        <4> QED BY <2>2, <3>1, <3>4, <4>2, <4>5, <4>6 DEF CopyParts
      <3> QED BY <1>a, <3>3, <3>4
    <2> QED BY <2>3, <2>4
  <1>4. CASE FI!Eof
    <2>1. /\ p >= Len(s) /\ at.main = "read" /\ at' = [at EXCEPT !.main = "done"]
          /\ mem' = mem /\ os' = os
      BY <1>0, <1>4 DEF FI!Eof, FI!Go, FI!Move
    <2>2. MainType' /\ at'.main = "done"
      BY <1>a, <2>1 DEF MainType, FileType
    <2>3. b = <<>> /\ Len(b) = 0
      BY <1>0, <2>1 DEF CopyParts
    <2>4. ASSUME mem.to = "f2" PROVE CopyIs(s, t, b, p, w, first) /\ first =< Len(t)
      <3>1. CopyIs(s, t, b, p, w, first)
        BY <1>0, <2>1, <2>4 DEF CopyParts
      <3> QED BY <2>1, <2>3, <3>1 DEF CopyIs
    <2>5. mem.to = "f1" => SelfIs(s, b, p, w)
      BY <1>0, <2>1 DEF CopyParts
    <2> QED BY <1>0, <1>a, <2>1, <2>2, <2>4, <2>5 DEF CopyParts
  <1>5. CASE FI!Fail("start") \/ FI!Fail("read")
    <2>1. MainType' /\ at'.main = "failed" /\ mem' = mem
      BY <1>5, <1>a DEF FI!Fail, FI!Go, FI!Move, MainType, FileType
    <2> QED BY <1>a, <2>1 DEF CopyParts
  <1> QED BY <1>1, <1>2, <1>3, <1>4, <1>5 DEF FI!copy

LEMMA TouchCopy == CopyParts /\ mem.prog = "copy" /\ FI!Touch => CopyParts'
  <1> SUFFICES ASSUME CopyParts, mem.prog = "copy", FI!Touch PROVE CopyParts'
    OBVIOUS
  <1>0. PICK s, t, b, p, w, first :
           /\ s = os.file["f1"] /\ t = os.file["f2"] /\ b = mem.buf
           /\ p = mem.pos /\ w = mem.wrote /\ first = os.first
    OBVIOUS
  <1>a. MainType /\ mem.to \in {"f1", "f2"}
    BY DEF CopyParts
  <1>1. PICK r : r = Append(s, 9)
    OBVIOUS
  <1>2. /\ os' = [os EXCEPT !.file["f1"] = Append(@, 9), !.touched = @ + 1]
        /\ at' = at /\ mem' = mem
    BY DEF FI!Touch, FI!Runs
  <1>3. MainType' /\ os'.file["f1"] = r /\ os'.file["f2"] = t /\ os'.first = first
    BY <1>0, <1>1, <1>2, <1>a DEF MainType, FileType
  <1>4. ASSUME s \in Seq(Nat)
        PROVE  /\ r \in Seq(Nat) /\ Len(r) = Len(s) + 1 /\ Len(s) \in Nat /\ r[Len(s) + 1] = 9
               /\ \A i \in 1 .. Len(s) : r[i] = s[i]
    BY <1>1, <1>4
  <1>5. ASSUME CopyIs(s, t, b, p, w, first) PROVE CopyIs(r, t, b, p, w, first)
    <2>1. s \in Seq(Nat)
      BY <1>5 DEF CopyIs
    <2>2. PICK c \in Nat : c = Len(s) /\ w \in Nat /\ w =< c /\ first \in Nat /\ first =< c
      BY <1>5 DEF CopyIs
    <2>3. /\ r \in Seq(Nat) /\ Len(r) = c + 1 /\ \A i \in 1 .. c : r[i] = s[i]
      BY <1>4, <2>1, <2>2
    <2>4. \A i \in 1 .. first : r[i] = s[i]
      BY <2>2, <2>3
    <2>5. \A i \in 1 .. w : r[i] = s[i]
      BY <2>2, <2>3
    <2>6. \A i \in 1 .. Len(b) : r[w + i] = s[w + i]
      <3>1. \A i \in 1 .. Len(b) : w + i \in 1 .. c
        BY <1>5, <2>2 DEF CopyIs
      <3> QED BY <2>3, <3>1
    <2>7. p =< Len(r) /\ first =< Len(r)
      BY <1>5, <2>2, <2>3 DEF CopyIs
    <2> QED BY <1>5, <2>3, <2>4, <2>5, <2>6, <2>7 DEF CopyIs
  <1>6. ASSUME SelfIs(s, b, p, w) PROVE SelfIs(r, b, p, w)
    <2>1. s \in Seq(Nat)
      BY <1>6 DEF SelfIs
    <2>2. PICK c \in Nat : /\ c = Len(s) /\ p =< c /\ p \in Nat
                          /\ \A i \in 1 .. c : s[i] = 9
      BY <1>6 DEF SelfIs
    <2>3. /\ r \in Seq(Nat) /\ Len(r) = c + 1 /\ r[c + 1] = 9 /\ \A i \in 1 .. c : r[i] = s[i]
      BY <1>4, <2>1, <2>2
    <2>4. \A i \in 1 .. (c + 1) : i \in 1 .. c \/ i = c + 1
      OBVIOUS
    <2>5. \A i \in 1 .. Len(r) : r[i] = 9
      BY <2>2, <2>3, <2>4
    <2>6. p =< Len(r)
      BY <2>2, <2>3
    <2> QED BY <1>6, <2>3, <2>5, <2>6 DEF SelfIs
  <1> QED BY <1>0, <1>2, <1>3, <1>4, <1>5, <1>6, <1>a DEF CopyParts

(* What the run checks of the copy. *)
LEMMA CopyDone ==
    CopyParts /\ at.main = "done" =>
       IF mem.to = "f2"
       THEN /\ FI!IsPrefix(os.file["f2"], os.file["f1"])
            /\ FI!IsPrefix(FI!Bytes(os.first), os.file["f2"])
       ELSE \A i \in DOMAIN os.file["f1"] : os.file["f1"][i] = 9
  <1> SUFFICES ASSUME CopyParts, at.main = "done"
               PROVE  IF mem.to = "f2"
                      THEN /\ FI!IsPrefix(os.file["f2"], os.file["f1"])
                           /\ FI!IsPrefix(FI!Bytes(os.first), os.file["f2"])
                      ELSE \A i \in DOMAIN os.file["f1"] : os.file["f1"][i] = 9
    OBVIOUS
  <1>0. PICK s, t, b, p, w, first :
           /\ s = os.file["f1"] /\ t = os.file["f2"] /\ b = mem.buf
           /\ p = mem.pos /\ w = mem.wrote /\ first = os.first
    OBVIOUS
  <1>1. CASE mem.to = "f2"
    <2>1. CopyIs(s, t, b, p, w, first) /\ first =< Len(t)
      BY <1>0, <1>1 DEF CopyParts
    <2>2. /\ s \in Seq(Nat) /\ t \in Seq(Nat) /\ first \in Nat /\ Len(t) =< Len(s)
          /\ \A i \in 1 .. Len(t) : t[i] = s[i]
      BY <2>1 DEF CopyIs
    <2>3. FI!IsPrefix(t, s)
      BY <2>2, PrefixIs
    <2>4. PICK y \in Seq(Nat) : /\ y = FI!Bytes(first) /\ Len(y) = first
                               /\ \A i \in 1 .. first : y[i] = 100 + i
      BY <2>2, BytesAre
    <2>5. \A i \in 1 .. Len(y) : y[i] = t[i]
      <3>1. \A i \in 1 .. first : s[i] = 100 + i
        BY <2>1 DEF CopyIs
      <3>2. \A i \in 1 .. first : i \in 1 .. Len(t)
        BY <2>1, <2>2
      <3> QED BY <2>2, <2>4, <3>1, <3>2
    <2>6. FI!IsPrefix(y, t)
      BY <2>1, <2>2, <2>4, <2>5, PrefixIs
    <2> QED BY <1>0, <1>1, <2>3, <2>4, <2>6
  <1>2. CASE mem.to = "f1"
    <2>1. SelfIs(s, b, p, w)
      BY <1>0, <1>2 DEF CopyParts
    <2>2. DOMAIN s = 1 .. Len(s)
      BY <2>1 DEF SelfIs
    <2> QED BY <1>0, <1>2, <2>1, <2>2 DEF SelfIs
  <1> QED BY <1>1, <1>2 DEF CopyParts

-----------------------------------------------------------------------------
FilesInv ==
    /\ Runs("bad_exclusive_open") => OpenParts
    /\ Runs("copy") => CopyParts
    /\ Runs("seek_io") => SeekParts
    /\ Runs("write_bytes") => WriteParts
    /\ Runs("mmcat") => MmcatParts
    /\ Runs("t_unlink") => UnlinkParts
    /\ Runs("memlock") => MemlockParts

LEMMA InitFiles == MCInit => FilesInv
  <1> SUFFICES ASSUME MCInit, mem.prog \in FI!Progs PROVE FilesInv
    BY DEF FilesInv, Runs, FI!Progs
  <1>1. FI!Init
    BY DEF MCInit, NotRunning, Runs, FO!Init, FO!SyncInit, FO!StateInit, PI!Init, ER!Init,
       PI!PipeProgs, FO!SyncProgs, FO!StateProgs, ER!Progs, FI!Progs
  <1>2. PICK pr \in FI!Progs, k, n, st, ln \in 0 .. MaxFile, to \in {"f1", "f2"}, ex \in BOOLEAN :
          /\ to = "f1" => pr = "copy"
          /\ ex => pr = "bad_exclusive_open"
          /\ n > 0 => pr \in {"write_bytes", "t_unlink", "memlock"}
          /\ st + ln > 0 => pr = "memlock"
          /\ pr = "memlock" => n > 0 /\ st > 0 /\ ln > 0
          /\ pr \in {"write_bytes", "t_unlink"} => n > 0
          /\ pr \in {"memlock", "t_unlink", "bad_exclusive_open"} => k = 0
          /\ mem = [prog |-> pr, to |-> to, n |-> n, step |-> st, len |-> ln,
                    pos |-> 0, wrote |-> 0, buf |-> <<>>, log |-> <<>>, last |-> <<>>,
                    said |-> [p \in FI!Opens |-> "nothing"], seen |-> <<>>]
          /\ os = [file |-> [f1 |-> FI!Bytes(k), f2 |-> <<>>], first |-> k,
                   exists |-> ex, creator |-> IF ex THEN "other" ELSE "none",
                   linked |-> FALSE, blocks |-> 0, open |-> FALSE, locked |-> {},
                   touched |-> 0]
          /\ at = IF pr = "bad_exclusive_open" THEN [p \in FI!Opens |-> "check"]
                  ELSE [main |-> "start"]
    BY <1>1, Zenon DEF FI!Init
  <1>3. FileType
    BY <1>2 DEF FileType
  <1>4. k \in Nat /\ n \in Nat /\ st \in Nat /\ ln \in Nat
    BY <1>2
  <1>5. /\ mem.prog = pr /\ mem.to = to /\ mem.n = n /\ mem.step = st /\ mem.len = ln
        /\ mem.pos = 0 /\ mem.wrote = 0 /\ mem.buf = <<>> /\ mem.log = <<>> /\ mem.last = <<>>
        /\ mem.said = [p \in FI!Opens |-> "nothing"]
        /\ os.file["f1"] = FI!Bytes(k) /\ os.file["f2"] = <<>> /\ os.first = k
        /\ os.exists = ex /\ os.creator = (IF ex THEN "other" ELSE "none")
        /\ os.blocks = 0 /\ os.locked = {} /\ os.touched = 0
    BY <1>2
  <1>6. PICK s \in Seq(Nat) : s = FI!Bytes(k) /\ Len(s) = k /\ \A i \in 1 .. k : s[i] = 100 + i
    BY <1>4, BytesAre
  <1>7. CASE pr = "bad_exclusive_open"
    <2>1. /\ DOMAIN at = FI!Opens /\ DOMAIN mem.said = FI!Opens
          /\ \A p \in FI!Opens : at[p] = "check" /\ mem.said[p] = "nothing"
      BY <1>2, <1>5, <1>7
    <2>2. \A p \in FI!Opens : os.creator # p
      BY <1>5 DEF FI!Opens
    <2>3. os.exists \in BOOLEAN /\ (os.exists <=> os.creator # "none")
      <3>1. CASE ex = TRUE
        BY <1>5, <3>1
      <3>2. CASE ex = FALSE
        BY <1>5, <3>2
      <3> QED BY <1>2, <3>1, <3>2
    <2>4. OpenParts
      BY <1>3, <2>1, <2>2, <2>3 DEF OpenParts
    <2> QED BY <1>5, <1>7, <2>4 DEF FilesInv, Runs
  <1>8. CASE pr # "bad_exclusive_open"
    <2>1. MainType /\ at.main = "start"
      BY <1>2, <1>3, <1>8 DEF MainType
    <2>2. CopyParts
      <3>1. CopyIs(s, <<>>, <<>>, 0, 0, k)
        <4>1. <<>> \in Seq(Nat) /\ Len(<<>>) = 0
          OBVIOUS
        <4> QED BY <1>4, <1>6, <4>1 DEF CopyIs
      <3> QED BY <1>2, <1>5, <1>6, <2>1, <3>1 DEF CopyParts
    <2>3. SeekParts
      <3>1. SeekIs(s, <<>>, k)
        <4>1. <<>> \in Seq(Nat \X Nat) /\ Len(<<>>) = 0
          OBVIOUS
        <4>2. \A i \in 1 .. Len(s) : i =< k
          BY <1>4, <1>6
        <4> QED BY <1>4, <1>6, <4>1, <4>2 DEF SeekIs
      <3> QED BY <1>4, <1>5, <1>6, <2>1, <3>1 DEF SeekParts
    <2>4. WriteParts
      <3>1. OnesThenOld(s, 0, k)
        BY <1>4, <1>6 DEF OnesThenOld, Larger
      <3> QED BY <1>4, <1>5, <1>6, <2>1, <3>1 DEF WriteParts
    <2>5. MmcatParts
      BY <1>4, <1>5, <1>6, <2>1 DEF MmcatParts
    <2>6. UnlinkParts
      BY <1>4, <1>5, <2>1 DEF UnlinkParts
    <2>7. pr = "memlock" => MemlockParts
      <3> SUFFICES ASSUME pr = "memlock" PROVE MemlockParts
        OBVIOUS
      <3>1. st \in Nat \ {0}
        BY <1>2, <1>4
      <3>2. RunsOf({}, 0, st, ln, n)
        BY <1>4, FirstRun
      <3>3. 0 \in Nat /\ 0 * st = 0
        BY <1>4, Times
      <3> QED BY <1>4, <1>5, <2>1, <3>1, <3>2, <3>3 DEF MemlockParts
    <2> QED BY <1>5, <1>8, <2>2, <2>3, <2>4, <2>5, <2>6, <2>7 DEF FilesInv, Runs
  <1> QED BY <1>7, <1>8

LEMMA SameFiles == FilesInv /\ UNCHANGED <<at, mem, os>> => FilesInv'
  <1> SUFFICES ASSUME FilesInv, at' = at, mem' = mem, os' = os PROVE FilesInv'
    OBVIOUS
  <1>0. MainType' = MainType /\ FileType' = FileType
    BY DEF MainType, FileType
  <1>1. (OpenParts => OpenParts') /\ (CopyParts => CopyParts') /\ (SeekParts => SeekParts')
    BY <1>0 DEF OpenParts, CopyParts, SeekParts
  <1>2. (WriteParts => WriteParts') /\ (MmcatParts => MmcatParts')
    BY <1>0 DEF WriteParts, MmcatParts
  <1>3. (UnlinkParts => UnlinkParts') /\ (MemlockParts => MemlockParts')
    BY <1>0 DEF UnlinkParts, MemlockParts
  <1> QED BY <1>1, <1>2, <1>3 DEF FilesInv, Runs

LEMMA StepFiles == ProgInv /\ FilesInv /\ [MCNext]_<<machine, vars>> => FilesInv'
  <1> SUFFICES ASSUME ProgInv, FilesInv, [MCNext]_<<machine, vars>> PROVE FilesInv'
    OBVIOUS
  <1>1. CASE UNCHANGED <<at, mem, os>>
    BY <1>1, SameFiles
  <1>2. CASE FI!Next
    <2>1. mem.prog \in FI!Progs /\ mem'.prog = mem.prog
      BY <1>2, FilesKeep
    <2>2. CASE UNCHANGED FI!machine
      BY <2>2, SameFiles DEF FI!machine
    <2>3. CASE ~UNCHANGED FI!machine
      <3>0. FI!Program \/ FI!Touch \/ (FI!Runs("t_unlink") /\ FI!FreeBlocks)
        BY <1>2, <2>3 DEF FI!Next
      <3>1. Runs("bad_exclusive_open") => OpenParts'
        BY <3>0, StepOpen DEF FilesInv, FI!Program, FI!Touch, Runs, FI!Runs
      <3>2. Runs("copy") => CopyParts'
        BY <3>0, StepCopy, TouchCopy DEF FilesInv, FI!Program, Runs, FI!Runs
      <3>3. Runs("seek_io") => SeekParts'
        BY <3>0, StepSeek DEF FilesInv, FI!Program, FI!Touch, Runs, FI!Runs
      <3>4. Runs("write_bytes") => WriteParts'
        BY <3>0, StepWriteBytes DEF FilesInv, FI!Program, FI!Touch, Runs, FI!Runs
      <3>5. Runs("mmcat") => MmcatParts'
        BY <3>0, StepMmcat, TouchMmcat DEF FilesInv, FI!Program, Runs, FI!Runs
      <3>6. Runs("t_unlink") => UnlinkParts'
        BY <3>0, StepUnlink DEF FilesInv, FI!Program, FI!Touch, Runs, FI!Runs
      <3>7. Runs("memlock") => MemlockParts'
        BY <3>0, StepMemlock DEF FilesInv, FI!Program, FI!Touch, Runs, FI!Runs
      <3> QED BY <2>1, <3>1, <3>2, <3>3, <3>4, <3>5, <3>6, <3>7 DEF FilesInv, Runs
    <2> QED BY <2>2, <2>3
  <1>3. CASE FO!Step \/ FO!StateNext \/ PI!Next \/ ER!Next
    <2>1. mem'.prog = mem.prog /\ mem.prog \notin FI!Progs
      BY <1>3, SyncKeeps, StateKeeps, PipesKeep, ErrorsKeep
      DEF FO!SyncProgs, PI!PipeProgs, ER!Progs, FI!Progs, FO!StateProgs
    <2> QED BY <2>1 DEF FilesInv, Runs, FI!Progs
  <1> QED
    BY <1>1, <1>2, <1>3 DEF MCNext, machine, FO!Next, FO!SyncNext, FO!machine

(* A program of Files that reports success has done to its file what it    *)
(* says, whatever others do to the file meanwhile: who made the file of    *)
(* bad_exclusive_open says so; copy's copy is a prefix of the input that   *)
(* holds all there was; every byte of seek_io's file is that of the last   *)
(* write covering it; write_bytes keeps the old file's rest; mmcat writes  *)
(* what fstat() said; t_unlink sees its blocks while the file is open; and *)
(* memlock locks the whole runs and nothing beyond the mapping.            *)
THEOREM FilesAlways == MCSpec => []FI!FilesTrue
  <1>1. FilesInv => FI!FilesTrue
    <2> SUFFICES ASSUME FilesInv PROVE FI!FilesTrue
      OBVIOUS
    <2>1. Runs("bad_exclusive_open") =>
              /\ os.creator = "other" => \A p \in FI!Opens : mem.said[p] # "created exclusively"
              /\ \A p \in FI!Opens : /\ os.creator = p => mem.said[p] = "created exclusively"
                                     /\ mem.said[p] = "already exists" => os.creator # "none"
      BY DEF FilesInv, OpenParts
    <2>2. Runs("copy") /\ FI!Done =>
              IF mem.to = "f2"
              THEN /\ FI!IsPrefix(os.file["f2"], os.file["f1"])
                   /\ FI!IsPrefix(FI!Bytes(os.first), os.file["f2"])
              ELSE \A i \in DOMAIN os.file["f1"] : os.file["f1"][i] = 9
      BY CopyDone, Zenon DEF FilesInv, FI!Done
    <2>3. Runs("seek_io") =>
              /\ os.file["f1"] = [i \in 1 .. Len(os.file["f1"]) |-> FI!ByteAt(i)]
              /\ mem.last # <<>> /\ mem.last[3] = <<>> =>
                    mem.last[2] = 0 \/ mem.last[1] >= os.first
      BY SeekBytes, Zenon DEF FilesInv, SeekParts
    <2>4. Runs("write_bytes") /\ FI!Done =>
              os.file["f1"] = [i \in 1 .. FI!Max({mem.n, os.first}) |->
                                 IF i <= mem.n THEN 1 ELSE 100 + i]
      <3> SUFFICES ASSUME WriteParts, at.main = "done"
                   PROVE  os.file["f1"] = [i \in 1 .. FI!Max({mem.n, os.first}) |->
                                             IF i <= mem.n THEN 1 ELSE 100 + i]
        BY DEF FilesInv, FI!Done
      <3>1. PICK n \in Nat, first \in Nat : n = mem.n /\ first = os.first
        BY DEF WriteParts
      <3>2. PICK s : s = os.file["f1"] /\ OnesThenOld(s, n, first)
        BY <3>1 DEF WriteParts
      <3>3. FI!Max({n, first}) = Larger(n, first)
        BY MaxOfTwo
      <3>4. /\ s \in Seq(Nat) /\ Len(s) = FI!Max({n, first})
            /\ \A i \in 1 .. Len(s) : s[i] = IF i <= n THEN 1 ELSE 100 + i
        BY <3>2, <3>3 DEF OnesThenOld
      <3>5. s = [i \in 1 .. Len(s) |-> IF i <= n THEN 1 ELSE 100 + i]
        <4>1. DOMAIN s = 1 .. Len(s) /\ s \in [1 .. Len(s) -> Nat]
          BY <3>4, SeqFun
        <4> QED BY <3>4, <4>1
      <3> QED BY <3>1, <3>2, <3>4, <3>5
    <2>5. Runs("mmcat") /\ FI!Done =>
              Len(mem.buf) = mem.n /\ (os.touched = 0 => mem.buf = FI!Bytes(os.first))
      BY DEF FilesInv, MmcatParts, FI!Done
    <2>6. Runs("t_unlink") /\ FI!Done =>
              mem.seen[1] = 0 /\ mem.seen[2] = mem.n /\ mem.seen[3] \in {0, mem.n}
      BY DEF FilesInv, UnlinkParts, FI!Done
    <2>7. Runs("memlock") =>
              /\ os.locked \subseteq 0 .. (mem.n - 1)
              /\ FI!Done => mem.seen[1] = AllOf(mem.step, mem.len, mem.n)
      BY DEF FilesInv, MemlockParts, FI!Done
    <2> QED
      BY <2>1, <2>2, <2>3, <2>4, <2>5, <2>6, <2>7 DEF FI!FilesTrue, FI!Runs, Runs, AllOf
  <1> QED BY InitSync, StepSync, InitFiles, StepFiles, <1>1, PTL DEF MCSpec

(* Pipes deliver all that was written, fork() shares what it shares and    *)
(* nothing else, errors are reported in order and once, and what the       *)
(* programs on files say is true, for any number of children, bytes,       *)
(* patterns and arguments.                                                 *)
THEOREM SharedAlways == MCSpec => []SharedTrue
  BY PipesAlways, ForkSharesAlways, ErrorsAlways, FilesAlways, PTL DEF SharedTrue
=============================================================================
