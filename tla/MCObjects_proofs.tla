-------------------------- MODULE MCObjects_proofs --------------------------
(***************************************************************************)
(* createPidFile() for every set of processes: with the PID file kept, at  *)
(* most one instance runs and the file names it.  Then the users of file   *)
(* locks and the tools on POSIX objects, for any number of processes,      *)
(* objects and tools, any SEM_VALUE_MAX and strings of any length.         *)
(***************************************************************************)
EXTENDS MCObjects, SequenceTheorems, FiniteSetTheorems, TLAPS

-----------------------------------------------------------------------------
(* PidFile *)

(* Positions of a process that holds a lock it took in createPidFile(). *)
Locked == {"truncate", "write", "running", "unlinked"}

(* Positions after the open(). *)
Opened == Locked \cup {"lock"}

BasicType ==
    /\ deletes \in BOOLEAN /\ cloexec \in BOOLEAN
    /\ path \in 0 .. MaxInodes /\ inodes \in 0 .. MaxInodes
    /\ content \in [Inodes -> Procs \cup {"empty"}]
    /\ holder \in [Inodes -> SUBSET Procs]
    /\ pc \in [Procs -> Started \cup {"new", "refused", "dead"}]
    /\ fd \in [Procs -> SUBSET Inodes]
    /\ cur \in [Procs -> 0 .. MaxInodes]
    /\ execs \in [Procs -> 0 .. MaxExecs]

(* The kernel's side: a write lock has one holder, and its holder is a     *)
(* live process that has the file open.                                    *)
HolderInv ==
    /\ \A i \in Inodes : \A p, q \in holder[i] : p = q
    /\ \A i \in Inodes : \A p \in holder[i] : pc[p] \in Started /\ i \in fd[p]

(* A process past the lock holds the lock of the inode it opened. *)
LockInv ==
    /\ \A p \in Procs : pc[p] \in Opened => cur[p] \in Inodes /\ cur[p] \in fd[p]
    /\ \A p \in Procs : pc[p] \in Locked => p \in holder[cur[p]]

(* With the file kept there is only one inode under the name, and the file *)
(* of a running instance holds its PID.                                    *)
KeptInv ==
    /\ path # 0 => path = inodes
    /\ ~deletes => /\ path = inodes
                   /\ inodes \in {0, 1}
                   /\ \A p \in Procs : pc[p] \in Opened => cur[p] = path
                   /\ \A p \in Procs : pc[p] # "unlinked"
                   /\ \A p \in Procs : pc[p] = "running" => content[cur[p]] = p

IInv == BasicType /\ HolderInv /\ LockInv /\ KeptInv

-----------------------------------------------------------------------------
(* The initial states. *)
LEMMA InitIInv == Init => IInv
  <1> SUFFICES ASSUME Init PROVE IInv
    OBVIOUS
  <1> USE ConstantsAssumption DEF Init, Inodes, Started
  <1>1. deletes \in BOOLEAN /\ cloexec \in BOOLEAN
    BY Zenon
  <1>2. BasicType
    BY <1>1 DEF BasicType
  <1>3. HolderInv /\ LockInv /\ KeptInv
    BY DEF HolderInv, LockInv, KeptInv, Opened, Locked
  <1> QED BY <1>2, <1>3 DEF IInv

(* Every step of a process. *)
LEMMA StepIInv == IInv /\ [Next]_vars => IInv'
  <1> SUFFICES ASSUME IInv, [Next]_vars PROVE IInv'
    OBVIOUS
  <1> USE ConstantsAssumption DEF IInv, BasicType, Inodes, Started, env
  <1>1. ASSUME NEW p \in Procs, Start(p) PROVE IInv'
    BY <1>1 DEF Start, HolderInv, LockInv, KeptInv, Opened, Locked
  <1>2. ASSUME NEW p \in Procs, Open(p) PROVE IInv'
    <2>1. path' \in 1 .. MaxInodes /\ inodes' \in 1 .. MaxInodes
      BY <1>2 DEF Open, KeptInv
    <2>2. BasicType'
      BY <1>2, <2>1 DEF Open
    <2>3. HolderInv'
      BY <1>2, <2>1 DEF Open, HolderInv
    <2>4. LockInv'
      BY <1>2, <2>1 DEF Open, LockInv, Opened, Locked
    <2>5. KeptInv'
      BY <1>2, <2>1 DEF Open, KeptInv, LockInv, Opened, Locked
    <2> QED BY <2>2, <2>3, <2>4, <2>5
  <1>3. ASSUME NEW p \in Procs, Lock(p) PROVE IInv'
    <2>1. cur[p] \in Inodes /\ cur[p] \in fd[p]
      BY <1>3 DEF Lock, LockInv, Opened
    <2>2. BasicType' /\ HolderInv' /\ LockInv'
      <3>1. CASE holder[cur[p]] \subseteq {p}
        <4>1. /\ holder' = [holder EXCEPT ![cur[p]] = {p}]
              /\ pc' = [pc EXCEPT ![p] = "truncate"]
              /\ UNCHANGED <<deletes, cloexec, path, inodes, content, fd, cur, execs>>
          BY <1>3, <3>1 DEF Lock
        <4>2. BasicType'
          BY <2>1, <4>1
        <4>3. HolderInv'
          BY <2>1, <3>1, <4>1 DEF HolderInv
        <4>4. LockInv'
          BY <2>1, <3>1, <4>1, <1>3 DEF Lock, LockInv, Opened, Locked
        <4> QED BY <4>2, <4>3, <4>4
      <3>2. CASE ~(holder[cur[p]] \subseteq {p})
        <4>1. /\ holder' = [i \in Inodes |-> holder[i] \ {p}]
              /\ pc' = [pc EXCEPT ![p] = "refused"]
              /\ fd' = [fd EXCEPT ![p] = {}]
              /\ UNCHANGED <<deletes, cloexec, path, inodes, content, cur, execs>>
          BY <1>3, <3>2 DEF Lock
        <4>2. BasicType'
          BY <4>1
        <4>3. HolderInv'
          BY <4>1 DEF HolderInv
        <4>4. LockInv'
          BY <4>1 DEF LockInv, Opened, Locked
        <4> QED BY <4>2, <4>3, <4>4
      <3> QED BY <3>1, <3>2
    <2>3. KeptInv'
      BY <1>3, <2>1 DEF Lock, KeptInv, Opened, Locked
    <2> QED BY <2>2, <2>3
  <1>4. ASSUME NEW p \in Procs, Truncate(p) \/ WritePid(p) PROVE IInv'
    <2>1. cur[p] \in Inodes /\ p \in holder[cur[p]]
      BY <1>4 DEF Truncate, WritePid, LockInv, Opened, Locked
    <2>2. BasicType'
      <3>1. CASE Truncate(p)
        BY <3>1, <2>1 DEF Truncate
      <3>2. CASE WritePid(p)
        BY <3>2, <2>1 DEF WritePid
      <3> QED BY <1>4, <3>1, <3>2
    <2>3. HolderInv'
      BY <1>4, ZenonT(60) DEF Truncate, WritePid, HolderInv
    <2>4. LockInv'
      BY <1>4 DEF Truncate, WritePid, LockInv, Opened, Locked
    <2>5. ASSUME ~deletes, NEW q \in Procs, q # p, pc[q] \in Locked PROVE FALSE
      BY <2>1, <2>5, <1>4 DEF Truncate, WritePid, LockInv, KeptInv, HolderInv, Opened, Locked
    <2>6. KeptInv'
      <3>1. CASE Truncate(p)
        BY <3>1, <2>1, <2>5 DEF Truncate, KeptInv, Opened, Locked
      <3>2. CASE WritePid(p)
        <4>1. /\ content' = [content EXCEPT ![cur[p]] = p]
              /\ pc' = [pc EXCEPT ![p] = "running"]
              /\ UNCHANGED <<deletes, path, inodes, cur>>
          BY <3>2 DEF WritePid
        <4>2. ~deletes => \A q \in Procs : pc'[q] = "running" => content'[cur'[q]] = q
          BY <4>1, <2>1, <2>5 DEF KeptInv, Opened, Locked
        <4>3. ~deletes => \A q \in Procs : pc'[q] # "unlinked"
          BY <4>1 DEF KeptInv
        <4>4. ~deletes => \A q \in Procs : pc'[q] \in Opened => cur'[q] = path
          BY <3>2, <4>1 DEF WritePid, KeptInv, Opened, Locked
        <4>5. (path # 0 => path = inodes) /\ (~deletes => path = inodes /\ inodes \in {0, 1})
          BY DEF KeptInv
        <4> QED BY ONLY <4>1, <4>2, <4>3, <4>4, <4>5 DEF KeptInv
      <3> QED BY <1>4, <3>1, <3>2
    <2> QED BY <2>2, <2>3, <2>4, <2>6
  <1>5. ASSUME NEW p \in Procs, Exec(p) PROVE IInv'
    <2>2. BasicType'
      <3>1. CASE cloexec
        BY <1>5, <3>1 DEF Exec
      <3>2. CASE ~cloexec
        BY <1>5, <3>2 DEF Exec
      <3> QED BY <3>1, <3>2
    <2>3. HolderInv'
      BY <1>5 DEF Exec, HolderInv
    <2>4. LockInv'
      BY <1>5 DEF Exec, LockInv, Opened, Locked
    <2>5. KeptInv'
      BY <1>5 DEF Exec, KeptInv, Opened, Locked
    <2> QED BY <2>2, <2>3, <2>4, <2>5
  <1>6. ASSUME NEW p \in Procs, Unlink(p) PROVE IInv'
    BY <1>6 DEF Unlink, HolderInv, LockInv, KeptInv, Opened, Locked
  <1>7. ASSUME NEW p \in Procs, Exit(p) PROVE IInv'
    <2>2. BasicType'
      BY <1>7 DEF Exit
    <2>3. HolderInv'
      BY <1>7 DEF Exit, HolderInv
    <2>4. LockInv'
      BY <1>7 DEF Exit, LockInv, Opened, Locked
    <2>5. KeptInv'
      BY <1>7 DEF Exit, KeptInv, Opened, Locked
    <2> QED BY <2>2, <2>3, <2>4, <2>5
  <1>8. CASE UNCHANGED vars
    BY <1>8 DEF vars, HolderInv, LockInv, KeptInv, Opened, Locked
  <1> QED
    BY <1>1, <1>2, <1>3, <1>4, <1>5, <1>6, <1>7, <1>8
    DEF Next, createPidFile, Done

(* The inductive invariant holds in every reachable state. *)
THEOREM Invariance == Spec => []IInv
  BY InitIInv, StepIInv, PTL DEF Spec

(* A set whose elements are all equal has at most one element. *)
LEMMA AtMostOne ==
    ASSUME NEW S, \A x, y \in S : x = y
    PROVE  Cardinality(S) \in {0, 1}
  <1>1. CASE S = {}
    BY <1>1, FS_EmptySet
  <1>2. CASE S # {}
    <2>1. PICK x : S = {x}
      BY <1>2
    <2> QED BY <2>1, FS_Singleton
  <1> QED BY <1>1, <1>2

(* create_pid_file.c: types, and one holder per lock. *)
THEOREM TypeCorrect == Spec => []TypeOK
  <1>1. IInv => TypeOK
    <2> SUFFICES ASSUME IInv PROVE TypeOK
      OBVIOUS
    <2>1. \A i \in Inodes : Cardinality(holder[i]) \in {0, 1}
      BY AtMostOne DEF IInv, HolderInv
    <2> QED BY <2>1 DEF TypeOK, IInv, BasicType
  <1> QED BY Invariance, <1>1, PTL

(* create_pid_file.c:15, "only one instance of the program is running",    *)
(* for every number of processes, as long as nobody deletes the file.      *)
THEOREM OneInstance == Spec => []OneInstanceIfKept
  <1>1. IInv => OneInstanceIfKept
    <2> SUFFICES ASSUME IInv, ~deletes PROVE Cardinality(Instances) \in {0, 1}
      BY DEF OneInstanceIfKept, OnlyOneInstance
    <2>1. \A p, q \in Instances : p = q
      BY DEF IInv, LockInv, KeptInv, HolderInv, Instances, Opened, Locked
    <2> QED BY <2>1, AtMostOne
  <1> QED BY Invariance, <1>1, PTL

(* create_pid_file.c:77: the file a kept instance locked holds its PID.    *)
THEOREM FileCorrect == Spec => []FileNamesInstance
  <1>1. IInv => FileNamesInstance
    BY DEF IInv, LockInv, KeptInv, FileNamesInstance, Instances, Inodes, Opened, Locked
  <1> QED BY Invariance, <1>1, PTL

(* create_pid_file.c:66: a process is turned away only by a live process   *)
(* that holds the lock on the file it has opened, never by what a crash    *)
(* left behind.                                                            *)
THEOREM RefusalCorrect == Spec => RefusedOnlyByLive
  <1>1. IInv /\ [Next]_vars =>
          [\A p \in Procs : pc[p] # "refused" /\ pc'[p] = "refused" =>
              \E q \in Procs \ {p} : /\ pc[q] \in Started /\ cur[p] \in fd[q]
                                     /\ q \in holder[cur[p]]]_vars
    <2> SUFFICES ASSUME IInv, Next,
                        NEW p \in Procs, pc[p] # "refused", pc'[p] = "refused"
                 PROVE  \E q \in Procs \ {p} : /\ pc[q] \in Started /\ cur[p] \in fd[q]
                                                /\ q \in holder[cur[p]]
      BY DEF vars
    <2>1. Lock(p)
      BY DEF Next, createPidFile, Start, Open, Lock, Truncate, WritePid, Exec,
         Unlink, Exit, Done, vars, IInv, BasicType, Started
    <2>2. cur[p] \in Inodes
      BY <2>1 DEF Lock, IInv, LockInv, Opened
    <2> QED BY <2>1, <2>2 DEF Lock, IInv, BasicType, HolderInv
  <1> QED BY Invariance, <1>1, PTL DEF Spec, RefusedOnlyByLive

-----------------------------------------------------------------------------
(* i_fcntl_locking.c, region_locking.c and t_flock.c *)

Progs == {"none", "locks", "t_flock", "psem", "pshm", "pmsg"}
ProgInv == "prog" \in DOMAIN mem /\ mem.prog \in Progs

LocksType ==
    /\ DOMAIN mem = {"prog", "argc", "told"} /\ DOMAIN os = {"locks", "wait"}
    /\ DOMAIN at = LK!LockProcs /\ DOMAIN os.wait = LK!LockProcs
    /\ \A p \in LK!LockProcs : DOMAIN os.wait[p] = {"owner", "type", "range", "cmd", "blocker"}

(* What is held is what the users were told, and agrees. *)
HeldInv ==
    /\ mem.told = os.locks
    /\ \A l \in os.locks : l[2] \in {"r", "w"}
    /\ \A l, m \in os.locks : l[3] = m[3] /\ l[1] # m[1] => l[2] = "r" /\ m[2] = "r"

(* A waiter keeps what it asked for. *)
WaitInv ==
    \A p \in LK!LockProcs :
        at[p] = "wait" => /\ os.wait[p].type \in {"r", "w", "u"}
                          /\ os.wait[p].cmd = "w" => os.wait[p].owner = <<p, 0>>

(* Waiters for traditional locks, each for one of the others. *)
Ring(S) ==
    /\ S # {} /\ S \subseteq LK!LockProcs
    /\ \A p \in S : /\ at[p] = "wait" /\ os.wait[p].blocker # <<"none", 0>>
                    /\ os.wait[p].cmd = "w"
                    /\ \E q \in S : os.wait[p].blocker = <<q, 0>>
RingInv == \A S \in SUBSET LK!LockProcs : ~Ring(S)

LocksParts == LocksType /\ HeldInv /\ WaitInv /\ RingInv
LocksInv == mem.prog = "locks" => LocksParts

(* The initial states. *)
LEMMA InitLocks == MCInit => LocksInv
  <1> SUFFICES ASSUME MCInit, mem.prog = "locks" PROVE LocksParts
    BY DEF LocksInv
  <1>1. LK!LocksInit
    BY DEF MCInit, NotRunning, LK!Init, LK!FlockInit, PO!Init, PO!Family
  <1>2. LocksType /\ HeldInv /\ WaitInv
    BY <1>1 DEF LK!LocksInit, LK!NotWaiting, LocksType, HeldInv, WaitInv
  <1>3. RingInv
    BY <1>1 DEF LK!LocksInit, RingInv, Ring
  <1> QED BY <1>2, <1>3 DEF LocksParts

(* New locks: waiters are woken, none is queued. *)
LEMMA StepSetLocks ==
    ASSUME LocksParts, NEW locks, NEW wait, LK!SetLocks(locks, wait),
           DOMAIN wait = LK!LockProcs,
           \A p \in LK!LockProcs : DOMAIN wait[p] = {"owner", "type", "range", "cmd", "blocker"},
           DOMAIN at' = LK!LockProcs,
           \A p \in LK!LockProcs : at'[p] = "wait" => at[p] = "wait" /\ wait[p] = os.wait[p],
           DOMAIN mem' = {"prog", "argc", "told"}
    PROVE  LocksType' /\ WaitInv' /\ RingInv' /\ os'.locks = locks
  <1> USE DEF LocksParts
  <1>1. DOMAIN os = {"locks", "wait"}
    BY DEF LocksType
  <1>2. /\ DOMAIN os' = {"locks", "wait"} /\ os'.locks = locks
        /\ os'.wait = [p \in LK!LockProcs |->
                         IF wait[p].blocker \in LK!Blockers(locks, wait[p]) THEN wait[p]
                         ELSE [wait[p] EXCEPT !.blocker = <<"none", 0>>]]
    BY <1>1 DEF LK!SetLocks, LK!NotWaiting
  <1>3. ASSUME NEW p \in LK!LockProcs
        PROVE  /\ DOMAIN os'.wait[p] = {"owner", "type", "range", "cmd", "blocker"}
               /\ os'.wait[p].owner = wait[p].owner /\ os'.wait[p].type = wait[p].type
               /\ os'.wait[p].cmd = wait[p].cmd
               /\ \/ os'.wait[p].blocker = wait[p].blocker
                  \/ os'.wait[p].blocker = <<"none", 0>>
    BY <1>2
  <1>4. LocksType'
    BY <1>2, <1>3 DEF LocksType
  <1>5. WaitInv'
    BY <1>3 DEF WaitInv
  <1>6. ASSUME NEW S \in SUBSET LK!LockProcs, Ring(S)' PROVE Ring(S)
    BY <1>3, <1>6 DEF Ring
  <1>7. RingInv'
    BY <1>6 DEF RingInv
  <1> QED BY <1>2, <1>4, <1>5, <1>7

(* A lock that conflicts with none is placed, and told of. *)
LEMMA PlacedHolds ==
    ASSUME HeldInv, DOMAIN mem = {"prog", "argc", "told"}, NEW o, NEW type \in {"r", "w", "u"},
           NEW range, LK!Conflicting(os.locks, o, type, range) = {},
           os'.locks = LK!Replaced(os.locks, o, type, range), LK!Tell(o, type, range)
    PROVE  HeldInv' /\ DOMAIN mem' = {"prog", "argc", "told"}
  <1>1. mem'.told = os'.locks /\ DOMAIN mem' = {"prog", "argc", "told"}
    BY DEF LK!Tell, HeldInv
  <1>2. ASSUME NEW l \in os'.locks
        PROVE  \/ l \in os.locks /\ (l[1] # o \/ l[3] \notin range)
               \/ l[1] = o /\ l[2] = type /\ l[3] \in range /\ type # "u"
    BY DEF LK!Replaced
  <1>3. ASSUME NEW l \in os.locks, l[1] # o, l[3] \in range, type # "u"
        PROVE  type = "r" /\ l[2] = "r"
    BY <1>3 DEF LK!Conflicting, HeldInv
  <1>4. \A l \in os'.locks : l[2] \in {"r", "w"}
    BY <1>2 DEF HeldInv
  <1>5. ASSUME NEW l \in os'.locks, NEW m \in os'.locks, l[3] = m[3], l[1] # m[1]
        PROVE  l[2] = "r" /\ m[2] = "r"
    BY <1>2, <1>3, <1>5 DEF HeldInv
  <1> QED BY <1>1, <1>4, <1>5 DEF HeldInv

(* A question, a refusal, an error. *)
LEMMA SameLocks == LocksParts /\ UNCHANGED machine => LocksParts'
  <1> SUFFICES ASSUME LocksParts, UNCHANGED machine PROVE LocksParts'
    OBVIOUS
  <1> USE DEF machine, LocksParts
  <1>1. LocksType' /\ HeldInv' /\ WaitInv'
    BY DEF LocksType, HeldInv, WaitInv
  <1>2. ASSUME NEW S \in SUBSET LK!LockProcs, Ring(S)' PROVE Ring(S)
    BY <1>2 DEF Ring
  <1> QED BY <1>1, <1>2 DEF RingInv

(* F_SETLK *)
LEMMA StepSetlk ==
    ASSUME LocksParts, NEW p \in LK!LockProcs, NEW o, NEW type \in {"r", "w", "u"}, NEW range,
           LK!Setlk(p, o, type, range)
    PROVE  LocksParts'
  <1>1. CASE /\ LK!SetLocks(LK!Replaced(os.locks, o, type, range), os.wait)
             /\ LK!Tell(o, type, range) /\ LK!Conflicting(os.locks, o, type, range) = {}
             /\ UNCHANGED at
    <2>1. DOMAIN mem' = {"prog", "argc", "told"}
      BY <1>1 DEF LK!Tell, LocksParts, LocksType
    <2>2. LocksType' /\ WaitInv' /\ RingInv' /\ os'.locks = LK!Replaced(os.locks, o, type, range)
      BY <1>1, <2>1, StepSetLocks DEF LocksParts, LocksType
    <2>3. HeldInv'
      BY <1>1, <2>2, PlacedHolds DEF LocksParts, LocksType
    <2> QED BY <2>2, <2>3 DEF LocksParts
  <1>2. CASE UNCHANGED machine
    BY <1>2, SameLocks
  <1> QED BY <1>1, <1>2 DEF LK!Setlk, machine

(* F_SETLKW: a ring that p's request closes goes through the lock p is     *)
(* queued on, and the search would have followed it back to p.             *)
LEMMA StepTry ==
    ASSUME LocksParts, NEW p \in LK!LockProcs, NEW cmd, NEW o, NEW type \in {"r", "w", "u"}, NEW range,
           cmd = "w" => o = <<p, 0>>,
           LK!TryOrWait(p, cmd, o, type, range)
    PROVE  LocksParts'
  <1> USE DEF LocksParts
  <1> DEFINE Fields == {"owner", "type", "range", "cmd", "blocker"}
             Domains == /\ DOMAIN mem = {"prog", "argc", "told"} /\ DOMAIN os = {"locks", "wait"}
                        /\ DOMAIN at = LK!LockProcs /\ DOMAIN os.wait = LK!LockProcs
                        /\ \A q \in LK!LockProcs : DOMAIN os.wait[q] = Fields
  <1>0. Domains
    BY DEF LocksType
  <1>1. CASE /\ LK!SetLocks(LK!Replaced(os.locks, o, type, range), [os.wait EXCEPT ![p] = LK!NotWaiting])
             /\ LK!Tell(o, type, range) /\ LK!Conflicting(os.locks, o, type, range) = {}
             /\ at' = [at EXCEPT ![p] = "prompt"]
    <2>1. DOMAIN mem' = {"prog", "argc", "told"}
      BY <1>1, <1>0 DEF LK!Tell
    <2> DEFINE wait == [os.wait EXCEPT ![p] = LK!NotWaiting]
    <2>2. /\ DOMAIN wait = LK!LockProcs /\ DOMAIN at' = LK!LockProcs
          /\ \A q \in LK!LockProcs : DOMAIN wait[q] = Fields
          /\ \A q \in LK!LockProcs : at'[q] = "wait" => at[q] = "wait" /\ wait[q] = os.wait[q]
      BY <1>0, <1>1 DEF LK!NotWaiting
    <2>3. LK!SetLocks(LK!Replaced(os.locks, o, type, range), wait)
      BY <1>1
    <2> HIDE DEF wait
    <2>4. LocksType' /\ WaitInv' /\ RingInv' /\ os'.locks = LK!Replaced(os.locks, o, type, range)
      BY <2>1, <2>2, <2>3, StepSetLocks
    <2>5. HeldInv'
      BY <1>1, <1>0, <2>4, PlacedHolds
    <2> QED BY <2>4, <2>5
  <1>2. CASE /\ at' = [at EXCEPT ![p] = "prompt"]
             /\ os' = [os EXCEPT !.wait[p] = LK!NotWaiting]
             /\ UNCHANGED mem
    <2>1. /\ DOMAIN os' = {"locks", "wait"} /\ os'.locks = os.locks
          /\ os'.wait = [os.wait EXCEPT ![p] = LK!NotWaiting]
      BY <1>0, <1>2
    <2>2. LocksType' /\ HeldInv' /\ WaitInv'
      BY <1>0, <1>2, <2>1 DEF LocksType, HeldInv, WaitInv, LK!NotWaiting
    <2>3. ASSUME NEW S \in SUBSET LK!LockProcs, Ring(S)' PROVE Ring(S)
      BY <1>0, <1>2, <2>1, <2>3 DEF Ring
    <2> QED BY <2>2, <2>3 DEF RingInv
  <1>3. ASSUME NEW b, ~LK!DeadlockCheck(o, b),
               at' = [at EXCEPT ![p] = "wait"],
               os' = [os EXCEPT !.wait[p] =
                       [owner |-> o, type |-> type, range |-> range, cmd |-> cmd, blocker |-> b]],
               UNCHANGED mem
        PROVE  LocksParts'
    <2>1. /\ DOMAIN os' = {"locks", "wait"} /\ os'.locks = os.locks
          /\ os'.wait = [os.wait EXCEPT ![p] =
                [owner |-> o, type |-> type, range |-> range, cmd |-> cmd, blocker |-> b]]
      BY <1>0, <1>3
    <2>2. LocksType' /\ HeldInv' /\ WaitInv'
      BY <1>0, <1>3, <2>1 DEF LocksType, HeldInv, WaitInv
    <2>3. ASSUME NEW S \in SUBSET LK!LockProcs, Ring(S)' PROVE FALSE
      <3>1. \A q \in S : q # p => at[q] = at'[q] /\ os.wait[q] = os'.wait[q]
        BY <1>0, <1>3, <2>1
      <3>2. CASE p \notin S
        <4>1. Ring(S)
          BY <2>3, <3>1, <3>2 DEF Ring
        <4> QED BY <4>1 DEF RingInv
      <3>3. CASE p \in S
        <4>1. os'.wait[p].cmd = cmd /\ os'.wait[p].blocker = b
          BY <1>0, <2>1
        <4>2. PICK q \in S : b = <<q, 0>>
          BY <2>3, <3>3, <4>1 DEF Ring
        <4>3. o = <<p, 0>>
          BY <2>3, <3>3, <4>1 DEF Ring
        <4>4. PICK T \in SUBSET LK!LockProcs : LK!Followed(T) /\ q \in T /\ p \notin T
          BY <1>3, <4>2, <4>3 DEF LK!DeadlockCheck
        <4> DEFINE R == S \cap T
        <4>5. ASSUME NEW r \in R
              PROVE  /\ at[r] = "wait" /\ os.wait[r].blocker # <<"none", 0>>
                     /\ os.wait[r].cmd = "w"
                     /\ \E s \in R : os.wait[r].blocker = <<s, 0>>
          <5>1. r # p /\ r \in S /\ r \in T
            BY <4>4
          <5>2. /\ at[r] = "wait" /\ os.wait[r].blocker # <<"none", 0>> /\ os.wait[r].cmd = "w"
                /\ \E s \in S : os.wait[r].blocker = <<s, 0>>
            BY <2>3, <3>1, <5>1 DEF Ring
          <5>3. PICK s \in S : os.wait[r].blocker = <<s, 0>>
            BY <5>2
          <5>4. os.wait[r].owner = <<r, 0>>
            BY <5>1, <5>2 DEF WaitInv
          <5>5. s \in T
            BY <4>4, <5>1, <5>3, <5>4 DEF LK!Followed
          <5> QED BY <5>2, <5>3, <5>5
        <4>6. Ring(R)
          BY <4>2, <4>4, <4>5 DEF Ring
        <4> QED BY <4>6 DEF RingInv
      <3> QED BY <3>2, <3>3
    <2> QED BY <2>2, <2>3 DEF RingInv
  <1> QED BY <1>1, <1>2, <1>3 DEF LK!TryOrWait

(* All locks of a process go. *)
LEMMA StepQuit ==
    ASSUME LocksParts, NEW p \in LK!LockProcs, LK!Quit(p) PROVE LocksParts'
  <1> USE DEF LocksParts
  <1> DEFINE Fields == {"owner", "type", "range", "cmd", "blocker"}
             locks == {l \in os.locks : l[1][1] # p}
             wait == [os.wait EXCEPT ![p] = LK!NotWaiting]
  <1>1. /\ DOMAIN mem = {"prog", "argc", "told"} /\ DOMAIN os = {"locks", "wait"}
        /\ DOMAIN at = LK!LockProcs /\ DOMAIN os.wait = LK!LockProcs
        /\ \A q \in LK!LockProcs : DOMAIN os.wait[q] = Fields
    BY DEF LocksType
  <1>2. /\ DOMAIN mem' = {"prog", "argc", "told"} /\ mem'.told = {l \in mem.told : l[1][1] # p}
        /\ at' = [at EXCEPT ![p] = "exit"]
    BY <1>1 DEF LK!Quit
  <1>3. /\ DOMAIN wait = LK!LockProcs /\ DOMAIN at' = LK!LockProcs
        /\ \A q \in LK!LockProcs : DOMAIN wait[q] = Fields
        /\ \A q \in LK!LockProcs : at'[q] = "wait" => at[q] = "wait" /\ wait[q] = os.wait[q]
    BY <1>1, <1>2 DEF LK!NotWaiting
  <1>4. LK!SetLocks(locks, wait)
    BY DEF LK!Quit
  <1>5. locks \subseteq os.locks
    OBVIOUS
  <1>6. mem'.told = locks
    BY <1>2 DEF HeldInv
  <1> HIDE DEF locks, wait
  <1>7. LocksType' /\ WaitInv' /\ RingInv' /\ os'.locks = locks
    BY <1>2, <1>3, <1>4, StepSetLocks
  <1>8. HeldInv'
    BY <1>5, <1>6, <1>7 DEF HeldInv
  <1> QED BY <1>7, <1>8

(* Every step of a behaviour in which locks are used. *)
LEMMA StepLocksNext == ASSUME LocksParts, LK!LocksNext PROVE LocksParts'
  <1>1. ASSUME NEW p \in LockUsers, LK!i_fcntl_locking(p) PROVE LocksParts'
    <2>1. p \in LK!LockProcs
      BY DEF LK!LockProcs
    <2>2. ASSUME NEW file, NEW cmd, NEW type \in {"r", "w", "u"}, NEW range,
                 LK!Command(p, file, cmd, type, range)
          PROVE  LocksParts'
      <3>1. CASE LK!Setlk(p, LK!Owner(p, cmd, file), type, range)
        BY <2>1, <3>1, StepSetlk
      <3>2. CASE LK!Setlkw(p, cmd, LK!Owner(p, cmd, file), type, range)
        <4>1. cmd = "w" => LK!Owner(p, cmd, file) = <<p, 0>>
          BY DEF LK!Owner
        <4>2. UNCHANGED machine \/ LK!TryOrWait(p, cmd, LK!Owner(p, cmd, file), type, range)
          BY <3>2 DEF LK!Setlkw, machine, LK!machine
        <4> QED BY <2>1, <4>1, <4>2, StepTry, SameLocks
      <3> QED BY <2>2, <3>1, <3>2 DEF LK!Command
    <2> QED BY <1>1, <2>2, SameLocks DEF LK!i_fcntl_locking, LK!Report, machine, LK!machine
  <1>2. ASSUME NEW p \in LibUsers, LK!RegionCall(p) PROVE LocksParts'
    <2>1. p \in LK!LockProcs
      BY DEF LK!LockProcs
    <2>2. ASSUME NEW type \in {"r", "w", "u"}, NEW form, LK!lockRegion(p, type, form) PROVE LocksParts'
      BY <2>1, <2>2, StepSetlk DEF LK!lockRegion
    <2>3. ASSUME NEW type \in {"r", "w", "u"}, NEW form, LK!lockRegionWait(p, type, form) PROVE LocksParts'
      <3>1. UNCHANGED machine \/ LK!TryOrWait(p, "w", <<p, 0>>, type, LK!Range(form))
        BY <2>3 DEF LK!lockRegionWait, LK!Setlkw, machine, LK!machine
      <3> QED BY <2>1, <3>1, StepTry, SameLocks
    <2>4. LK!regionIsLocked(p) => LocksParts'
      BY SameLocks DEF LK!regionIsLocked, LK!Report, machine, LK!machine
    <2> QED BY <1>2, <2>2, <2>3, <2>4 DEF LK!RegionCall
  <1>3. ASSUME NEW p \in LK!LockProcs, LK!Woken(p) PROVE LocksParts'
    <2>1. /\ at[p] = "wait"
          /\ LK!TryOrWait(p, os.wait[p].cmd, os.wait[p].owner, os.wait[p].type, os.wait[p].range)
      BY <1>3 DEF LK!Woken
    <2>2. /\ os.wait[p].type \in {"r", "w", "u"}
          /\ os.wait[p].cmd = "w" => os.wait[p].owner = <<p, 0>>
      BY <2>1 DEF LocksParts, WaitInv
    <2> QED BY <2>1, <2>2, StepTry
  <1>4. UNCHANGED machine => LocksParts'
    BY SameLocks
  <1> QED BY <1>1, <1>2, <1>3, <1>4, StepQuit DEF LK!LocksNext, machine, LK!machine

-----------------------------------------------------------------------------
(* t_flock *)
FlockParts ==
    /\ DOMAIN mem = {"prog", "lock", "nb"} /\ DOMAIN os = {"holders"} /\ DOMAIN at = Flockers
    /\ mem.lock \in [Flockers -> {"LOCK_SH", "LOCK_EX"}]
    /\ os.holders = {p \in Flockers : at[p] = "sleep"}
    /\ \A p, q \in Flockers : p # q /\ at[p] = "sleep" /\ at[q] = "sleep" =>
           mem.lock[p] = "LOCK_SH" /\ mem.lock[q] = "LOCK_SH"
FlockInv == mem.prog = "t_flock" => FlockParts

(* The initial states. *)
LEMMA InitFlock == MCInit => FlockInv
  <1> SUFFICES ASSUME MCInit, mem.prog = "t_flock" PROVE FlockParts
    BY DEF FlockInv
  <1>1. LK!FlockInit
    BY DEF MCInit, NotRunning, LK!Init, LK!LocksInit, PO!Init, PO!Family
  <1> QED BY <1>1 DEF LK!FlockInit, FlockParts

(* Every step of a t_flock. *)
LEMMA StepFlockNext == ASSUME FlockParts, LK!FlockNext PROVE FlockParts'
  <1> USE DEF FlockParts
  <1>1. ASSUME NEW p \in Flockers, LK!Flock(p) PROVE FlockParts'
    <2>1. CASE LK!Incompatible(p) = {}
      <3>1. /\ UNCHANGED mem /\ at[p] = "flock" /\ at' = [at EXCEPT ![p] = "sleep"]
            /\ os' = [os EXCEPT !.holders = @ \cup {p}]
        BY <1>1, <2>1 DEF LK!Flock, LK!Move
      <3>2. DOMAIN os' = {"holders"} /\ os'.holders = os.holders \cup {p}
        BY <3>1
      <3>3. os'.holders = {q \in Flockers : at'[q] = "sleep"} /\ DOMAIN at' = Flockers
        BY <3>1, <3>2
      <3>4. ASSUME NEW q \in Flockers, q # p, at[q] = "sleep"
            PROVE  mem.lock[p] = "LOCK_SH" /\ mem.lock[q] = "LOCK_SH"
        BY <2>1, <3>4 DEF LK!Incompatible
      <3>5. \A q, r \in Flockers : q # r /\ at'[q] = "sleep" /\ at'[r] = "sleep" =>
              mem.lock[q] = "LOCK_SH" /\ mem.lock[r] = "LOCK_SH"
        BY <3>1, <3>4
      <3> QED BY <3>1, <3>2, <3>3, <3>5
    <2>2. CASE UNCHANGED <<mem, os>> /\ at[p] = "flock" /\ at' = [at EXCEPT ![p] = "fatal"]
      BY <2>2
    <2> QED BY <1>1, <2>1, <2>2 DEF LK!Flock, LK!Move
  <1>2. ASSUME NEW p \in Flockers, LK!Release(p) PROVE FlockParts'
    <2>1. /\ UNCHANGED mem /\ at[p] = "sleep" /\ at' = [at EXCEPT ![p] = "exit"]
          /\ os' = [os EXCEPT !.holders = @ \ {p}]
      BY <1>2 DEF LK!Release, LK!Move
    <2>2. DOMAIN os' = {"holders"} /\ os'.holders = os.holders \ {p}
      BY <2>1
    <2> QED BY <2>1, <2>2
  <1>3. UNCHANGED machine => FlockParts'
    BY DEF machine
  <1> QED BY <1>1, <1>2, <1>3 DEF LK!FlockNext, machine, LK!machine
-----------------------------------------------------------------------------
(* A behaviour stays with its program. *)
LEMMA InitProg == MCInit => ProgInv
  BY DEF MCInit, NotRunning, LK!Init, LK!LocksInit, LK!FlockInit, PO!Init, PO!Family, ProgInv, Progs

(* The users of locks. *)
LEMMA LocksProg == ASSUME ProgInv, LK!Next PROVE DOMAIN mem' = DOMAIN mem /\ mem'.prog = mem.prog
  <1> DEFINE Same == DOMAIN mem' = DOMAIN mem /\ mem'.prog = mem.prog
  <1> USE DEF ProgInv
  <1>1. ASSUME NEW p, NEW o, NEW type, NEW range, LK!Setlk(p, o, type, range) PROVE Same
    BY <1>1 DEF LK!Setlk, LK!Tell
  <1>2. ASSUME NEW p, NEW cmd, NEW o, NEW type, NEW range, LK!TryOrWait(p, cmd, o, type, range) PROVE Same
    BY <1>2 DEF LK!TryOrWait, LK!Tell
  <1>3. ASSUME NEW p, NEW cmd, NEW o, NEW type, NEW range, LK!Setlkw(p, cmd, o, type, range) PROVE Same
    BY <1>2, <1>3 DEF LK!Setlkw, LK!machine
  <1>4. ASSUME NEW p, LK!Quit(p) PROVE Same
    BY <1>4 DEF LK!Quit
  <1>5. ASSUME NEW p, LK!Woken(p) PROVE Same
    BY <1>2, <1>5 DEF LK!Woken
  <1>6. ASSUME NEW p, LK!i_fcntl_locking(p) PROVE Same
    BY <1>1, <1>3, <1>6 DEF LK!i_fcntl_locking, LK!Command, LK!Report, LK!machine
  <1>7. ASSUME NEW p, LK!RegionCall(p) PROVE Same
    BY <1>1, <1>3, <1>7 DEF LK!RegionCall, LK!lockRegion, LK!lockRegionWait, LK!regionIsLocked,
       LK!Report, LK!machine
  <1>8. LK!FlockNext => Same
    BY DEF LK!FlockNext, LK!Flock, LK!Release, LK!machine
  <1>9. LK!LocksNext => Same
    BY <1>4, <1>5, <1>6, <1>7 DEF LK!LocksNext, LK!machine
  <1> QED BY <1>8, <1>9 DEF LK!Next

(* The tools on POSIX objects. *)
LEMMA ObjectsProg == ASSUME ProgInv, PO!Next PROVE DOMAIN mem' = DOMAIN mem /\ mem'.prog = mem.prog
  <1> DEFINE Same == DOMAIN mem' = DOMAIN mem /\ mem'.prog = mem.prog
  <1> USE DEF ProgInv
  <1>1. ASSUME NEW p, PO!psem(p) PROVE Same
    BY <1>1 DEF PO!psem, PO!psem_create, PO!psem_post, PO!psem_wait, PO!psem_getvalue, PO!psem_unlink,
       PO!Open, PO!Opened, PO!Closed, PO!Unlink, PO!machine
  <1>2. ASSUME NEW p, NEW k, NEW opened, NEW arg, PO!ShmOpened(p, k, opened, arg) PROVE Same
    BY <1>2 DEF PO!ShmOpened
  <1>3. ASSUME NEW p, NEW k, NEW s, PO!Holds(p, k, s) PROVE Same
    BY <1>3 DEF PO!Holds, PO!ShmClosed, PO!Closed
  <1>4. ASSUME NEW p, PO!pshm_create(p) PROVE Same
    BY <1>2, <1>3, <1>4 DEF PO!pshm_create
  <1>5. ASSUME NEW p, PO!pshm_write(p) PROVE Same
    BY <1>2, <1>3, <1>5 DEF PO!pshm_write, PO!Truncate
  <1>6. ASSUME NEW p, PO!pshm_read(p) PROVE Same
    BY <1>2, <1>6 DEF PO!pshm_read, PO!ShmClosed, PO!Closed
  <1>7. ASSUME NEW p, PO!pmsg_create(p) \/ PO!pmsg_getattr(p) \/ PO!Unlink(p) PROVE Same
    BY <1>7 DEF PO!pmsg_create, PO!pmsg_getattr, PO!Unlink, PO!machine
  <1>8. ASSUME NEW p, PO!pmsg_send(p) PROVE Same
    BY <1>8 DEF PO!pmsg_send, PO!MqClosed, PO!Closed
  <1>9. ASSUME NEW p, PO!pmsg_receive(p) PROVE Same
    BY <1>9 DEF PO!pmsg_receive, PO!Getattr, PO!MqClosed, PO!Closed
  <1> QED BY <1>1, <1>4, <1>5, <1>6, <1>7, <1>8, <1>9
          DEF PO!Next, PO!pshm, PO!pmsg, PO!pshm_unlink, PO!pmsg_unlink, PO!machine

(* Every step. *)
LEMMA StepProg ==
    ASSUME ProgInv, [MCNext]_<<machine, vars>> PROVE ProgInv' /\ mem'.prog = mem.prog
  <1>1. DOMAIN mem' = DOMAIN mem /\ mem'.prog = mem.prog
    BY LocksProg, ObjectsProg DEF MCNext, machine
  <1> QED BY <1>1 DEF ProgInv

(* Only the program's own steps, or none. *)
LEMMA StepLocks ==
    ASSUME ProgInv, LocksInv, FlockInv, [MCNext]_<<machine, vars>> PROVE LocksInv' /\ FlockInv'
  <1>1. mem'.prog = mem.prog
    BY StepProg
  <1>2. ASSUME mem.prog = "locks" PROVE LocksParts'
    <2>1. LK!LocksNext \/ UNCHANGED machine
      BY <1>2 DEF MCNext, Runs, LK!Runs, PO!Runs, LK!Next, LK!FlockNext, PO!Next, machine
    <2> QED BY <1>2, <2>1, StepLocksNext, SameLocks DEF LocksInv
  <1>3. ASSUME mem.prog = "t_flock" PROVE FlockParts'
    <2>1. LK!FlockNext \/ UNCHANGED machine
      BY <1>3 DEF MCNext, Runs, LK!Runs, PO!Runs, LK!Next, LK!LocksNext, PO!Next, machine
    <2>2. UNCHANGED machine => FlockParts'
      BY <1>3 DEF FlockInv, FlockParts, machine
    <2> QED BY <1>3, <2>1, <2>2, StepFlockNext DEF FlockInv
  <1> QED BY <1>1, <1>2, <1>3 DEF LocksInv, FlockInv

(* The users of i_fcntl_locking.c and region_locking.c hold what they were *)
(* told, nobody holds what conflicts with it, and no ring of 'w' waiters   *)
(* forms: the kernel's search finds every ring a request would close.  A   *)
(* t_flock lock has one exclusive holder.                                  *)
THEOREM LocksAlways == MCSpec => []LocksTrue
  <1> DEFINE Inv == ProgInv /\ LocksInv /\ FlockInv
  <1>1. MCInit => Inv
    BY InitProg, InitLocks, InitFlock
  <1>2. Inv /\ [MCNext]_<<machine, vars>> => Inv'
    BY StepProg, StepLocks
  <1>3. Inv => LocksTrue
    <2> SUFFICES ASSUME Inv PROVE LocksTrue
      OBVIOUS
    <2>1. LK!LocksAsTold
      BY DEF LK!LocksAsTold, LocksInv, LocksParts, HeldInv, LK!Runs
    <2>2. LK!NoRing
      <3> SUFFICES ASSUME LocksParts,
                          NEW S \in SUBSET {p \in LK!LockProcs : LK!Stuck(p) /\ os.wait[p].cmd = "w"},
                          S # {}, \A p \in S : os.wait[p].blocker \in {<<q, 0>> : q \in S}
                   PROVE  FALSE
        BY DEF LK!NoRing, LK!Runs, LocksInv
      <3>1. Ring(S)
        BY DEF Ring, LK!Stuck, LK!NotWaiting
      <3> QED BY <3>1 DEF LocksParts, RingInv
    <2>3. LK!FlockExclusive
      BY DEF LK!FlockExclusive, FlockInv, FlockParts, LK!Runs
    <2> QED BY <2>1, <2>2, <2>3 DEF LocksTrue
  <1> QED BY <1>1, <1>2, <1>3, PTL DEF MCSpec
-----------------------------------------------------------------------------
(* The tools on POSIX objects: objects are numbered as they are made, and  *)
(* a tool at work has one of them open.                                    *)
NamesInv ==
    /\ DOMAIN os = {"name", "made", "obj"} /\ DOMAIN at = Shells
    /\ DOMAIN mem.obj = Shells /\ DOMAIN os.obj = 1 .. MaxObjs
    /\ os.made \in 0 .. MaxObjs /\ os.name \in 0 .. os.made
    /\ \A p \in Shells : at[p] # "shell" => mem.obj[p] \in 1 .. os.made

(* The psem_wait that have passed semaphore i and are still to say so. *)
Said(i) == {p \in Shells : at[p] = "said" /\ mem.obj[p] = i}

(* The values and the counts of the semaphores agree. *)
SemParts ==
    /\ DOMAIN mem = {"prog", "tools", "obj"} /\ NamesInv
    /\ \A i \in 1 .. MaxObjs :
          /\ DOMAIN os.obj[i] = {"value", "net"}
          /\ os.obj[i].value \in 0 .. SemMax
          /\ os.obj[i].net = os.obj[i].value + Cardinality(Said(i))
SemInv == mem.prog = "psem" => SemParts

(* They are finitely many. *)
LEMMA SaidFinite ==
    \A i : IsFiniteSet(Said(i)) /\ Cardinality(Said(i)) \in Nat
  <1> SUFFICES ASSUME NEW i PROVE IsFiniteSet(Said(i)) /\ Cardinality(Said(i)) \in Nat
    OBVIOUS
  <1>1. Said(i) \subseteq Shells
    BY DEF Said
  <1>2. IsFiniteSet(Said(i))
    BY <1>1, ToolsAssumption, FS_Subset
  <1> QED BY <1>2, FS_CardinalityType

(* The initial states. *)
LEMMA InitSem == MCInit => SemInv
  <1> SUFFICES ASSUME MCInit, mem.prog = "psem" PROVE SemParts
    BY DEF SemInv
  <1>1. PO!Family([value |-> 0, net |-> 0], [prog |-> "psem", tools |-> 0, obj |-> [p \in Shells |-> 0]])
    BY DEF MCInit, NotRunning, LK!Init, LK!LocksInit, LK!FlockInit, PO!Init, PO!Family
  <1>2. DOMAIN mem = {"prog", "tools", "obj"} /\ NamesInv
    BY <1>1, ToolsAssumption DEF PO!Family, PO!Objs, NamesInv
  <1>3. \A i : Said(i) = {}
    BY <1>1 DEF PO!Family, Said
  <1>4. ASSUME NEW i \in 1 .. MaxObjs
        PROVE  /\ DOMAIN os.obj[i] = {"value", "net"}
               /\ os.obj[i].value = 0 /\ os.obj[i].net = 0
    BY <1>1 DEF PO!Family, PO!Objs
  <1> QED BY <1>2, <1>3, <1>4, ToolsAssumption, FS_EmptySet DEF SemParts

(* A tool opens an object under the name, or makes it. *)
LEMMA NamesObject ==
    ASSUME NamesInv, NEW creat, NEW excl, PO!Opens(creat, excl), NEW fresh
    PROVE  LET o == PO!Object(fresh)
           IN  /\ DOMAIN o = {"name", "made", "obj"} /\ DOMAIN o.obj = 1 .. MaxObjs
               /\ o.made \in os.made .. MaxObjs /\ o.name \in 1 .. o.made
               /\ \A i \in 1 .. MaxObjs : \/ o.obj[i] = os.obj[i]
                                          \/ os.name = 0 /\ i = os.made + 1 /\ o.obj[i] = fresh
  <1> DEFINE o == PO!Object(fresh)
  <1>1. CASE os.name # 0
    BY <1>1 DEF PO!Object, NamesInv
  <1>2. CASE os.name = 0
    <2>1. os.made + 1 \in 1 .. MaxObjs /\ os.made \in Nat
      BY <1>2, ToolsAssumption DEF PO!Opens, NamesInv
    <2>2. /\ DOMAIN o = {"name", "made", "obj"} /\ o.made = os.made + 1 /\ o.name = os.made + 1
          /\ o.obj = [os.obj EXCEPT ![os.made + 1] = fresh]
      BY <1>2 DEF PO!Object, NamesInv
    <2> HIDE DEF o
    <2>3. DOMAIN o.obj = 1 .. MaxObjs
      BY <2>2 DEF NamesInv
    <2>4. \A i \in 1 .. MaxObjs : o.obj[i] = os.obj[i] \/ (i = os.made + 1 /\ o.obj[i] = fresh)
      BY <2>2 DEF NamesInv
    <2>5. o.made \in os.made .. MaxObjs /\ o.name \in 1 .. o.made
      BY <2>1, <2>2, ToolsAssumption
    <2> QED BY <2>2, <2>3, <2>4, <2>5, <1>2 DEF o
  <1> QED BY <1>1, <1>2

(* psem_create *)
LEMMA StepSemCreate ==
    ASSUME SemParts, NEW p \in Shells, PO!psem_create(p) PROVE SemParts'
  <1> USE DEF SemParts
  <1>1. PICK creat \in BOOLEAN, excl \in BOOLEAN, value \in {-1, 0, 1} :
          /\ PO!Opens(creat, excl) /\ (os.name = 0 => value >= 0)
          /\ os' = PO!Object([value |-> value, net |-> value])
          /\ UNCHANGED <<at, mem>>
    BY DEF PO!psem_create
  <1>2. /\ DOMAIN os' = {"name", "made", "obj"} /\ DOMAIN os'.obj = 1 .. MaxObjs
        /\ os'.made \in os.made .. MaxObjs /\ os'.name \in 1 .. os'.made
        /\ \A i \in 1 .. MaxObjs :
             \/ os'.obj[i] = os.obj[i]
             \/ os.name = 0 /\ i = os.made + 1 /\ os'.obj[i] = [value |-> value, net |-> value]
    BY <1>1, NamesObject
  <1>3. NamesInv'
    BY <1>1, <1>2, ToolsAssumption DEF NamesInv
  <1>4. \A i : Said(i)' = Said(i)
    BY <1>1 DEF Said
  <1>5. Said(os.made + 1) = {}
    BY DEF Said, NamesInv
  <1>6. Cardinality(Said(os.made + 1)) = 0
    BY <1>5, FS_EmptySet
  <1>7. ASSUME NEW i \in 1 .. MaxObjs
        PROVE  /\ DOMAIN os'.obj[i] = {"value", "net"}
               /\ os'.obj[i].value \in 0 .. SemMax
               /\ os'.obj[i].net = os'.obj[i].value + Cardinality(Said(i)')
    <2>1. CASE os'.obj[i] = os.obj[i]
      BY <2>1, <1>4
    <2>2. CASE os.name = 0 /\ i = os.made + 1 /\ os'.obj[i] = [value |-> value, net |-> value]
      <3>1. value \in {0, 1}
        BY <1>1, <2>2
      <3>2. DOMAIN os'.obj[i] = {"value", "net"} /\ os'.obj[i].value = value /\ os'.obj[i].net = value
        BY <2>2
      <3>3. Cardinality(Said(i)') = 0
        BY <2>2, <1>4, <1>6
      <3> QED BY <3>1, <3>2, <3>3, ToolsAssumption
    <2> QED BY <1>2, <2>1, <2>2
  <1>8. DOMAIN mem' = {"prog", "tools", "obj"}
    BY <1>1
  <1> QED BY <1>3, <1>7, <1>8

(* psem_post and psem_wait open the semaphore. *)
LEMMA StepSemOpen ==
    ASSUME SemParts, NEW p \in Shells, NEW k, k # "said", PO!Open(p, k) PROVE SemParts'
  <1> USE DEF SemParts
  <1>1. /\ at[p] = "shell" /\ at' = [at EXCEPT ![p] = k] /\ os' = os /\ os.name # 0
        /\ DOMAIN mem' = {"prog", "tools", "obj"} /\ mem'.obj = [mem.obj EXCEPT ![p] = os.name]
    BY DEF PO!Open, PO!Opens, PO!Opened, PO!Move
  <1>2. NamesInv'
    BY <1>1 DEF NamesInv
  <1>3. ASSUME NEW i PROVE Said(i)' = Said(i)
    BY <1>1 DEF Said, NamesInv
  <1>4. \A i \in 1 .. MaxObjs : os'.obj[i] = os.obj[i]
    BY <1>1
  <1> QED BY <1>1, <1>2, <1>3, <1>4

(* A tool is done with its object. *)
LEMMA NamesClosed ==
    ASSUME NamesInv, NEW p \in Shells, at' = [at EXCEPT ![p] = "shell"],
           mem'.obj = [mem.obj EXCEPT ![p] = 0],
           DOMAIN os' = {"name", "made", "obj"}, DOMAIN os'.obj = 1 .. MaxObjs,
           os'.made = os.made, os'.name = os.name
    PROVE  NamesInv'
  BY SMTT(40) DEF NamesInv

(* sem_post() *)
LEMMA StepSemPost ==
    ASSUME SemParts, NEW p \in Shells, PO!Move(p, "sem_post", "shell"),
           os' = (IF PO!Here(p).value = SemMax THEN os
                  ELSE [os EXCEPT !.obj[mem.obj[p]].value = @ + 1, !.obj[mem.obj[p]].net = @ + 1]),
           mem' = PO!Closed(mem, p)
    PROVE  SemParts'
  <1> USE DEF SemParts
  <1>0. PICK i : i = mem.obj[p]
    OBVIOUS
  <1>1. i \in 1 .. MaxObjs /\ at[p] = "sem_post"
    BY <1>0, ToolsAssumption DEF NamesInv, PO!Move
  <1>2. /\ at' = [at EXCEPT ![p] = "shell"] /\ DOMAIN mem' = {"prog", "tools", "obj"}
        /\ mem'.obj = [mem.obj EXCEPT ![p] = 0]
    BY DEF PO!Move, PO!Closed
  <1>3. ASSUME NEW j \in 1 .. MaxObjs PROVE Said(j)' = Said(j)
    BY <1>0, <1>1, <1>2, SMTT(40) DEF Said, NamesInv
  <1>4. CASE os' = os
    <2>1. NamesInv'
      BY <1>2, <1>4, NamesClosed DEF NamesInv
    <2>2. \A j \in 1 .. MaxObjs : os'.obj[j] = os.obj[j]
      BY <1>4
    <2> QED BY <1>2, <1>3, <2>1, <2>2
  <1>5. CASE os.obj[i].value # SemMax /\ os' = [os EXCEPT !.obj[i].value = @ + 1, !.obj[i].net = @ + 1]
    <2>1. os' = [os EXCEPT !.obj[i].value = os.obj[i].value + 1, !.obj[i].net = os.obj[i].net + 1]
      BY <1>1, <1>5 DEF NamesInv
    <2>2. /\ DOMAIN os' = {"name", "made", "obj"} /\ DOMAIN os'.obj = 1 .. MaxObjs
          /\ os'.made = os.made /\ os'.name = os.name
          /\ DOMAIN os'.obj[i] = {"value", "net"}
          /\ os'.obj[i].value = os.obj[i].value + 1 /\ os'.obj[i].net = os.obj[i].net + 1
          /\ \A j \in 1 .. MaxObjs : j # i => os'.obj[j] = os.obj[j]
      <3> DEFINE half == [os EXCEPT !.obj[i].value = os.obj[i].value + 1]
      <3>1. os' = [half EXCEPT !.obj[i].net = os.obj[i].net + 1]
        BY <2>1
      <3>2. /\ DOMAIN half = {"name", "made", "obj"} /\ DOMAIN half.obj = 1 .. MaxObjs
            /\ half.made = os.made /\ half.name = os.name
            /\ DOMAIN half.obj[i] = {"value", "net"} /\ half.obj[i].value = os.obj[i].value + 1
            /\ \A j \in 1 .. MaxObjs : j # i => half.obj[j] = os.obj[j]
        BY <1>1 DEF NamesInv
      <3> HIDE DEF half
      <3>3. \A n : [half EXCEPT !.obj[i].net = n] =
                     [half EXCEPT !.obj = [half.obj EXCEPT ![i] = [half.obj[i] EXCEPT !.net = n]]]
        OBVIOUS
      <3>4. os' = [half EXCEPT !.obj = [half.obj EXCEPT ![i] = [half.obj[i] EXCEPT !.net = os.obj[i].net + 1]]]
        BY <3>1, <3>3
      <3>5. /\ DOMAIN os' = {"name", "made", "obj"} /\ os'.made = os.made /\ os'.name = os.name
            /\ os'.obj = [half.obj EXCEPT ![i] = [half.obj[i] EXCEPT !.net = os.obj[i].net + 1]]
        BY ONLY <3>4, <3>2
      <3>6. /\ DOMAIN os'.obj = 1 .. MaxObjs
            /\ os'.obj[i] = [half.obj[i] EXCEPT !.net = os.obj[i].net + 1]
            /\ \A j \in 1 .. MaxObjs : j # i => os'.obj[j] = os.obj[j]
        BY ONLY <1>1, <3>2, <3>5, ZenonT(60)
      <3>7. /\ DOMAIN os'.obj[i] = {"value", "net"} /\ os'.obj[i].value = os.obj[i].value + 1
            /\ os'.obj[i].net = os.obj[i].net + 1
        BY ONLY <3>2, <3>6
      <3> QED BY ONLY <3>5, <3>6, <3>7
    <2>3. NamesInv'
      BY <1>2, <2>2, NamesClosed
    <2>4. ASSUME NEW j \in 1 .. MaxObjs
          PROVE  /\ DOMAIN os'.obj[j] = {"value", "net"}
                 /\ os'.obj[j].value \in 0 .. SemMax
                 /\ os'.obj[j].net = os'.obj[j].value + Cardinality(Said(j)')
      <3>1. CASE j # i
        BY ONLY <3>1, <1>3, <2>2, SemParts DEF SemParts
      <3>2. CASE j = i
        <4>1. /\ os.obj[i].value \in 0 .. SemMax /\ Cardinality(Said(i)) \in Nat
              /\ os.obj[i].net = os.obj[i].value + Cardinality(Said(i))
          BY <1>1, SaidFinite
        <4>2. Cardinality(Said(i)') = Cardinality(Said(i))
          BY <1>1, <1>3
        <4> QED BY ONLY <3>2, <1>5, <2>2, <4>1, <4>2, ToolsAssumption
      <3> QED BY <3>1, <3>2
    <2> QED BY <1>2, <2>3, <2>4
  <1> QED BY <1>0, <1>4, <1>5 DEF PO!Here

(* sem_wait() *)
LEMMA StepSemWait ==
    ASSUME SemParts, NEW p \in Shells, PO!Here(p).value > 0, PO!Move(p, "sem_wait", "said"),
           os' = [os EXCEPT !.obj[mem.obj[p]].value = @ - 1], UNCHANGED mem
    PROVE  SemParts'
  <1> USE DEF SemParts
  <1>0. PICK i : i = mem.obj[p]
    OBVIOUS
  <1>1. i \in 1 .. MaxObjs /\ i \in 1 .. os.made /\ at[p] = "sem_wait"
        /\ at' = [at EXCEPT ![p] = "said"] /\ os.obj[i].value > 0
    BY <1>0, ToolsAssumption DEF NamesInv, PO!Move, PO!Here
  <1>2. /\ DOMAIN os' = {"name", "made", "obj"} /\ DOMAIN os'.obj = 1 .. MaxObjs
        /\ os'.made = os.made /\ os'.name = os.name
        /\ DOMAIN os'.obj[i] = {"value", "net"}
        /\ os'.obj[i].value = os.obj[i].value - 1 /\ os'.obj[i].net = os.obj[i].net
        /\ \A j \in 1 .. MaxObjs : j # i => os'.obj[j] = os.obj[j]
    BY <1>0, <1>1 DEF NamesInv
  <1>3. NamesInv'
    BY <1>1, <1>2 DEF NamesInv
  <1>4. ASSUME NEW j \in 1 .. MaxObjs, j # i PROVE Said(j)' = Said(j)
    BY <1>0, <1>1, <1>4 DEF Said, NamesInv
  <1>5. Said(i)' = Said(i) \cup {p} /\ p \notin Said(i)
    BY <1>0, <1>1 DEF Said, NamesInv
  <1>6. Cardinality(Said(i)') = Cardinality(Said(i)) + 1
    BY <1>5, SaidFinite, FS_AddElement
  <1>7. ASSUME NEW j \in 1 .. MaxObjs
        PROVE  /\ DOMAIN os'.obj[j] = {"value", "net"}
               /\ os'.obj[j].value \in 0 .. SemMax
               /\ os'.obj[j].net = os'.obj[j].value + Cardinality(Said(j)')
    <2>1. CASE j # i
      BY <2>1, <1>2, <1>4
    <2>2. CASE j = i
      <3>1. /\ os.obj[i].value \in 0 .. SemMax /\ Cardinality(Said(i)) \in Nat
            /\ os.obj[i].net = os.obj[i].value + Cardinality(Said(i))
        BY <1>1, SaidFinite
      <3>2. Cardinality(Said(i)') = Cardinality(Said(i)) + 1
        BY <1>6
      <3>3. os.obj[i].value - 1 \in 0 .. SemMax
        BY ONLY <1>1, <3>1, ToolsAssumption
      <3>4. \A a, c \in Nat : a + c = (a - 1) + (c + 1)
        OBVIOUS
      <3>5. os.obj[i].net = (os.obj[i].value - 1) + (Cardinality(Said(i)) + 1)
        BY ONLY <3>1, <3>4
      <3> QED BY ONLY <2>2, <1>2, <3>2, <3>3, <3>5
    <2> QED BY <2>1, <2>2
  <1> QED BY <1>3, <1>7

(* psem_wait has said that it passed. *)
LEMMA StepSemSaid ==
    ASSUME SemParts, NEW p \in Shells, PO!Move(p, "said", "shell"),
           os' = [os EXCEPT !.obj[mem.obj[p]].net = @ - 1], mem' = PO!Closed(mem, p)
    PROVE  SemParts'
  <1> USE DEF SemParts
  <1>0. PICK i : i = mem.obj[p]
    OBVIOUS
  <1>1. i \in 1 .. MaxObjs /\ i \in 1 .. os.made /\ at[p] = "said" /\ at' = [at EXCEPT ![p] = "shell"]
    BY <1>0, ToolsAssumption DEF NamesInv, PO!Move
  <1>2. DOMAIN mem' = {"prog", "tools", "obj"} /\ mem'.obj = [mem.obj EXCEPT ![p] = 0]
    BY DEF PO!Closed
  <1>3. /\ DOMAIN os' = {"name", "made", "obj"} /\ DOMAIN os'.obj = 1 .. MaxObjs
        /\ os'.made = os.made /\ os'.name = os.name
        /\ DOMAIN os'.obj[i] = {"value", "net"}
        /\ os'.obj[i].value = os.obj[i].value /\ os'.obj[i].net = os.obj[i].net - 1
        /\ \A j \in 1 .. MaxObjs : j # i => os'.obj[j] = os.obj[j]
    BY <1>0, <1>1 DEF NamesInv
  <1>4. NamesInv'
    BY <1>1, <1>2, <1>3, NamesClosed
  <1>5. ASSUME NEW j \in 1 .. MaxObjs, j # i PROVE Said(j)' = Said(j)
    BY <1>0, <1>1, <1>2, <1>5 DEF Said, NamesInv
  <1>6. Said(i)' = Said(i) \ {p} /\ p \in Said(i)
    BY <1>0, <1>1, <1>2 DEF Said, NamesInv
  <1>7. Cardinality(Said(i)') = Cardinality(Said(i)) - 1
    BY <1>6, SaidFinite, FS_RemoveElement
  <1>8. ASSUME NEW j \in 1 .. MaxObjs
        PROVE  /\ DOMAIN os'.obj[j] = {"value", "net"}
               /\ os'.obj[j].value \in 0 .. SemMax
               /\ os'.obj[j].net = os'.obj[j].value + Cardinality(Said(j)')
    <2>1. CASE j # i
      BY <2>1, <1>3, <1>5
    <2>2. CASE j = i
      <3>1. /\ os.obj[i].value \in 0 .. SemMax /\ Cardinality(Said(i)) \in Nat
            /\ os.obj[i].net = os.obj[i].value + Cardinality(Said(i))
        BY <1>1, SaidFinite
      <3>2. Cardinality(Said(i)') = Cardinality(Said(i)) - 1
        BY <1>7
      <3>3. \A a, c \in Nat : (a + c) - 1 = a + (c - 1)
        OBVIOUS
      <3>4. os.obj[i].value \in Nat
        BY ONLY <3>1, ToolsAssumption
      <3>5. os.obj[i].net - 1 = os.obj[i].value + (Cardinality(Said(i)) - 1)
        BY ONLY <3>1, <3>3, <3>4
      <3> QED BY ONLY <2>2, <1>3, <3>1, <3>2, <3>5
    <2> QED BY <2>1, <2>2
  <1> QED BY <1>2, <1>4, <1>8

(* Nothing changes. *)
LEMMA SameSem == SemParts /\ UNCHANGED machine => SemParts'
  <1> SUFFICES ASSUME SemParts, UNCHANGED machine PROVE SemParts'
    OBVIOUS
  <1>1. UNCHANGED <<at, mem, os>>
    BY DEF machine
  <1>2. \A i : Said(i)' = Said(i)
    BY <1>1 DEF Said
  <1>3. NamesInv'
    BY <1>1, SMTT(40) DEF NamesInv, SemParts
  <1> QED BY <1>1, <1>2, <1>3 DEF SemParts

(* Every step of a psem tool. *)
LEMMA StepSem == ASSUME SemParts, NEW p \in Shells, PO!psem(p) PROVE SemParts'
  <1>1. ASSUME PO!Unlink(p) PROVE SemParts'
    <2>1. /\ DOMAIN os' = {"name", "made", "obj"} /\ os'.made = os.made /\ os'.name = 0
          /\ os'.obj = os.obj /\ UNCHANGED <<at, mem>>
      BY <1>1 DEF PO!Unlink, SemParts, NamesInv
    <2>2. NamesInv'
      BY <2>1 DEF NamesInv, SemParts
    <2>3. \A i : Said(i)' = Said(i)
      BY <2>1 DEF Said
    <2> QED BY <2>1, <2>2, <2>3 DEF SemParts
  <1>2. PO!psem_getvalue(p) => SemParts'
    BY SameSem DEF PO!psem_getvalue, PO!machine, machine
  <1> QED BY <1>1, <1>2, StepSemCreate, StepSemOpen, StepSemPost, StepSemWait, StepSemSaid
          DEF PO!psem, PO!psem_post, PO!psem_wait,
             PO!psem_unlink

-----------------------------------------------------------------------------
(* pshm_create, pshm_write, pshm_read *)
ShmType ==
    /\ DOMAIN mem = {"prog", "tools", "obj", "arg", "copied", "alone", "last"} /\ NamesInv
    /\ mem.arg \in [Shells -> Seq(Int)] /\ mem.copied \in [Shells -> 0 .. MaxLen]
    /\ mem.alone \in [Shells -> BOOLEAN] /\ mem.last \in [1 .. MaxObjs -> Seq(Int)]
    /\ \A p \in Shells : at[p] \in PO!Writing => Len(mem.arg[p]) <= MaxLen
    /\ \A i \in 1 .. MaxObjs : /\ DOMAIN os.obj[i] = {"size", "page"}
                               /\ os.obj[i].size \in 0 .. MaxLen
                               /\ os.obj[i].page \in [1 .. MaxLen -> Int]

(* An object that is still to be made. *)
UntouchedInv ==
    \A i \in 1 .. MaxObjs : i > os.made =>
        os.obj[i] = [size |-> 0, page |-> PO!Zeros] /\ mem.last[i] = <<>>

(* Who is alone with its object shares it with no writer. *)
Alone(p) ==
    at[p] # "shell" /\ mem.alone[p] =>
        \A q \in Shells : q # p => ~(at[q] \in PO!Writing /\ mem.obj[q] = mem.obj[p])

(* A writer that is alone has copied what it says. *)
Copying(p) ==
    /\ at[p] = "truncate" => mem.copied[p] = 0
    /\ at[p] = "memcpy" /\ mem.alone[p] =>
        /\ os.obj[mem.obj[p]].size = Len(mem.arg[p]) /\ mem.copied[p] <= Len(mem.arg[p])
        /\ \A k \in 1 .. MaxLen :
              /\ k <= mem.copied[p] => os.obj[mem.obj[p]].page[k] = mem.arg[p][k]
              /\ k > Len(mem.arg[p]) => os.obj[mem.obj[p]].page[k] = 0

(* A reader that is alone finds the object as it was. *)
Reading(p) ==
    mem.alone[p] =>
        /\ at[p] = "write" => mem.copied[p] = os.obj[mem.obj[p]].size
        /\ at[p] = "read" /\ mem.last[mem.obj[p]] # PO!Mixed => mem.arg[p] = mem.last[mem.obj[p]]

(* An object nobody copies to holds the last string. *)
Content(i) ==
    mem.last[i] # PO!Mixed /\ (\A q \in Shells : ~(at[q] = "memcpy" /\ mem.obj[q] = i)) =>
        /\ Len(mem.last[i]) = os.obj[i].size
        /\ \A k \in 1 .. MaxLen :
              os.obj[i].page[k] = IF k <= os.obj[i].size THEN mem.last[i][k] ELSE 0

ShmParts ==
    /\ ShmType /\ UntouchedInv
    /\ \A p \in Shells : Alone(p) /\ Copying(p) /\ Reading(p)
    /\ \A i \in 1 .. MaxObjs : Content(i)
ShmInv == mem.prog = "pshm" => ShmParts
(* Sequences of given length. *)
LEMMA ConstSeq ==
    ASSUME NEW n \in Nat, NEW c \in Int
    PROVE  /\ [k \in 1 .. n |-> c] \in Seq(Int) /\ Len([k \in 1 .. n |-> c]) = n
  OBVIOUS

(* Fit(s, n) *)
LEMMA FitSeq ==
    ASSUME NEW n \in Nat, NEW s \in Seq(Int)
    PROVE  /\ PO!Fit(s, n) \in Seq(Int) /\ Len(PO!Fit(s, n)) = n
           /\ \A k \in 1 .. n : PO!Fit(s, n)[k] = IF k <= Len(s) THEN s[k] ELSE 0
  <1>1. \A k \in 1 .. n : (IF k <= Len(s) THEN s[k] ELSE 0) \in Int
    OBVIOUS
  <1> QED BY <1>1 DEF PO!Fit

(* The first bytes of a page. *)
LEMMA PrefixSeq ==
    ASSUME NEW f \in [1 .. MaxLen -> Int], NEW n \in 0 .. MaxLen
    PROVE  /\ SubSeq(f, 1, n) \in Seq(Int) /\ Len(SubSeq(f, 1, n)) = n
           /\ \A k \in 1 .. n : SubSeq(f, 1, n)[k] = f[k]
  <1>1. f \in Seq(Int) /\ Len(f) = MaxLen
    BY ToolsAssumption
  <1> QED BY <1>1, SubSeqProperties, ToolsAssumption

(* The initial states. *)
LEMMA InitShm == MCInit => ShmInv
  <1> SUFFICES ASSUME MCInit, mem.prog = "pshm" PROVE ShmParts
    BY DEF ShmInv
  <1>1. PO!Family([size |-> 0, page |-> PO!Zeros],
                  [prog |-> "pshm", tools |-> 0, obj |-> [p \in Shells |-> 0],
                   arg |-> [p \in Shells |-> <<>>], copied |-> [p \in Shells |-> 0],
                   alone |-> [p \in Shells |-> TRUE], last |-> [i \in PO!Objs |-> <<>>]])
    BY DEF MCInit, NotRunning, LK!Init, LK!LocksInit, LK!FlockInit, PO!Init, PO!Family
  <1>2. /\ DOMAIN mem = {"prog", "tools", "obj", "arg", "copied", "alone", "last"}
        /\ mem.arg = [p \in Shells |-> <<>>] /\ mem.copied = [p \in Shells |-> 0]
        /\ mem.alone = [p \in Shells |-> TRUE] /\ mem.last = [i \in 1 .. MaxObjs |-> <<>>]
        /\ at = [p \in Shells |-> "shell"] /\ os.made = 0
        /\ os.obj = [i \in 1 .. MaxObjs |-> [size |-> 0, page |-> PO!Zeros]]
    BY <1>1 DEF PO!Family, PO!Objs
  <1>3. NamesInv
    BY <1>1, ToolsAssumption DEF PO!Family, PO!Objs, NamesInv
  <1>4. PO!Zeros \in [1 .. MaxLen -> Int] /\ \A k \in 1 .. MaxLen : PO!Zeros[k] = 0
    BY DEF PO!Zeros
  <1>5. ShmType
    BY <1>2, <1>3, <1>4, ToolsAssumption DEF ShmType, PO!Writing
  <1>6. UntouchedInv
    BY <1>2 DEF UntouchedInv
  <1>7. \A p \in Shells : Alone(p) /\ Copying(p) /\ Reading(p)
    BY <1>2 DEF Alone, Copying, Reading
  <1>8. \A i \in 1 .. MaxObjs : Content(i)
    BY <1>2, <1>4, ToolsAssumption DEF Content
  <1> QED BY <1>5, <1>6, <1>7, <1>8 DEF ShmParts

(* A step of p that goes on with its tool, or ends it, leaves the others   *)
(* what they know: an object it changes is nobody's alone.                 *)
LEMMA ShmFrame ==
    ASSUME ShmParts, NEW p \in Shells, NEW k, at[p] # "shell", at'[p] = k,
           \A q \in Shells : q # p => at'[q] = at[q],
           k \in PO!Writing => at[p] \in PO!Writing,
           \A q \in Shells : q # p => /\ mem'.obj[q] = mem.obj[q] /\ mem'.alone[q] = mem.alone[q]
                                      /\ mem'.arg[q] = mem.arg[q] /\ mem'.copied[q] = mem.copied[q],
           k # "shell" => mem'.obj[p] = mem.obj[p] /\ mem'.alone[p] = mem.alone[p],
           os'.made = os.made,
           \A i \in 1 .. MaxObjs :
               i # mem.obj[p] \/ at[p] \notin PO!Writing =>
                   os'.obj[i] = os.obj[i] /\ mem'.last[i] = mem.last[i]
    PROVE  /\ UntouchedInv'
           /\ \A q \in Shells : Alone(q)'
           /\ \A q \in Shells : q # p => Copying(q)' /\ Reading(q)'
           /\ \A i \in 1 .. MaxObjs :
                 i # mem.obj[p] \/ (at[p] \notin PO!Writing /\ k # "memcpy") => Content(i)'
  <1> USE DEF ShmParts
  <1>1. /\ DOMAIN at = Shells /\ mem.obj[p] \in 1 .. os.made /\ os.made \in 0 .. MaxObjs
        /\ \A q \in Shells : at[q] # "shell" => mem.obj[q] \in 1 .. MaxObjs
    BY ToolsAssumption DEF ShmType, NamesInv
  <1>2. at'[p] = k /\ \A q \in Shells : q # p => at'[q] = at[q]
    OBVIOUS
  <1>3. UntouchedInv'
    BY <1>1 DEF UntouchedInv
  <1>4. ASSUME NEW q \in Shells PROVE Alone(q)'
    <2>1. CASE q = p
      <3>1. Alone(p) /\ Alone(q)' = Alone(p)'
        BY <2>1
      <3>2. Alone(p)'
        BY <1>2, <3>1 DEF Alone
      <3> QED BY <2>1, <3>2
    <2>2. CASE q # p
      BY <1>2, <2>2 DEF Alone, PO!Writing
    <2> QED BY <2>1, <2>2
  <1>5. ASSUME NEW q \in Shells, q # p, at[q] # "shell", mem.alone[q]
        PROVE  /\ os'.obj[mem.obj[q]] = os.obj[mem.obj[q]]
               /\ mem'.last[mem.obj[q]] = mem.last[mem.obj[q]]
    BY <1>1, <1>5 DEF Alone
  <1>6. ASSUME NEW q \in Shells, q # p PROVE Copying(q)' /\ Reading(q)'
    <2>1. /\ at'[q] = at[q] /\ mem'.obj[q] = mem.obj[q] /\ mem'.alone[q] = mem.alone[q]
          /\ mem'.arg[q] = mem.arg[q] /\ mem'.copied[q] = mem.copied[q]
      BY <1>2, <1>6
    <2>2. Copying(q) /\ Reading(q)
      OBVIOUS
    <2>3. CASE at[q] # "shell" /\ mem.alone[q]
      BY ONLY <1>5, <1>6, <2>1, <2>2, <2>3 DEF Copying, Reading
    <2>4. CASE ~(at[q] # "shell" /\ mem.alone[q])
      BY ONLY <2>1, <2>2, <2>4 DEF Copying, Reading
    <2> QED BY <2>3, <2>4
  <1>7. ASSUME NEW i \in 1 .. MaxObjs, i # mem.obj[p] \/ (at[p] \notin PO!Writing /\ k # "memcpy")
        PROVE  Content(i)'
    <2>1. os'.obj[i] = os.obj[i] /\ mem'.last[i] = mem.last[i]
      BY <1>7
    <2>2. (\A q \in Shells : ~(at'[q] = "memcpy" /\ mem'.obj[q] = i)) =>
              \A q \in Shells : ~(at[q] = "memcpy" /\ mem.obj[q] = i)
      BY <1>2, <1>7 DEF PO!Writing
    <2>3. Content(i)
      OBVIOUS
    <2> QED BY ONLY <2>1, <2>2, <2>3 DEF Content
  <1> QED BY <1>3, <1>4, <1>6, <1>7
(* A tool opens the object. *)
LEMMA StepShmOpened ==
    ASSUME ShmParts, NEW p \in Shells, NEW k \in {"size", "truncate", "fstat"}, NEW o,
           NEW arg \in Seq(Int), Len(arg) <= MaxLen, PO!ShmOpened(p, k, o, arg),
           DOMAIN o = {"name", "made", "obj"}, DOMAIN o.obj = 1 .. MaxObjs,
           \A i \in 1 .. MaxObjs : o.obj[i] = os.obj[i],
           o.made \in os.made .. MaxObjs, o.name \in 1 .. o.made
    PROVE  ShmParts'
  <1> USE DEF ShmParts
  <1> DEFINE users == {q \in Shells \ {p} : at[q] # "shell" /\ mem.obj[q] = os'.name}
  <1>1. /\ NamesInv /\ DOMAIN mem = {"prog", "tools", "obj", "arg", "copied", "alone", "last"}
        /\ DOMAIN mem.arg = Shells /\ DOMAIN mem.copied = Shells /\ DOMAIN mem.obj = Shells
        /\ DOMAIN at = Shells /\ mem.alone \in [Shells -> BOOLEAN]
        /\ os.made \in 0 .. MaxObjs
    BY DEF ShmType, NamesInv
  <1>2. /\ at[p] = "shell" /\ at' = [at EXCEPT ![p] = k] /\ os' = o
    BY DEF PO!ShmOpened, PO!Move
  <1>3. /\ DOMAIN mem' = DOMAIN mem /\ mem'.last = mem.last
        /\ mem'.obj = [mem.obj EXCEPT ![p] = o.name] /\ mem'.arg = [mem.arg EXCEPT ![p] = arg]
        /\ mem'.copied = [mem.copied EXCEPT ![p] = 0]
        /\ mem'.alone = [q \in Shells |->
                           IF q = p THEN \A u \in users : at[u] \notin PO!Writing
                           ELSE mem.alone[q] /\ ~(q \in users /\ k \in PO!Writing)]
    BY <1>1, <1>2 DEF PO!ShmOpened
  <1>4. \A q \in Shells : q # p => /\ at'[q] = at[q] /\ mem'.obj[q] = mem.obj[q]
                                   /\ mem'.arg[q] = mem.arg[q] /\ mem'.copied[q] = mem.copied[q]
    BY <1>1, <1>2, <1>3
  <1>5. at'[p] = k /\ mem'.obj[p] = o.name /\ mem'.arg[p] = arg /\ mem'.copied[p] = 0
    BY <1>1, <1>2, <1>3
  <1>6. \A q \in Shells : q # p => (mem'.alone[q] => mem.alone[q])
    BY <1>1, <1>3
  <1>7. NamesInv'
    BY <1>1, <1>2, <1>3, <1>4, <1>5, ToolsAssumption DEF NamesInv
  <1>8. ShmType'
    <2>1. /\ mem'.arg \in [Shells -> Seq(Int)] /\ mem'.copied \in [Shells -> 0 .. MaxLen]
          /\ mem'.last \in [1 .. MaxObjs -> Seq(Int)]
      BY <1>3, ToolsAssumption DEF ShmType
    <2>2. mem'.alone \in [Shells -> BOOLEAN]
      BY <1>1, <1>3
    <2>3. \A q \in Shells : at'[q] \in PO!Writing => Len(mem'.arg[q]) <= MaxLen
      BY <1>4, <1>5 DEF ShmType
    <2>4. \A i \in 1 .. MaxObjs : os'.obj[i] = os.obj[i]
      BY <1>2
    <2> QED BY <1>1, <1>3, <1>7, <2>1, <2>2, <2>3, <2>4 DEF ShmType
  <1>9. UntouchedInv'
    BY <1>1, <1>2, <1>3, ToolsAssumption DEF UntouchedInv
  <1>10. ASSUME NEW q \in Shells PROVE Alone(q)'
    <2>1. CASE q = p
      <3>1. ASSUME mem'.alone[p], NEW u \in Shells, u # p, at[u] \in PO!Writing, mem.obj[u] = o.name
            PROVE  FALSE
        <4>1. u \in users
          BY <1>2, <3>1 DEF PO!Writing
        <4> QED BY <1>3, <3>1, <4>1
      <3> QED BY <1>4, <1>5, <2>1, <3>1 DEF Alone
    <2>2. CASE q # p
      <3>1. Alone(q)
        OBVIOUS
      <3>2. ASSUME mem'.alone[q], at[q] # "shell", mem.obj[q] = o.name PROVE k \notin PO!Writing
        <4>1. q \in users
          BY <1>2, <2>2, <3>2
        <4> QED BY <1>1, <1>3, <2>2, <3>2, <4>1
      <3> QED BY <1>4, <1>5, <1>6, <2>2, <3>1, <3>2 DEF Alone
    <2> QED BY <2>1, <2>2
  <1>11. ASSUME NEW q \in Shells PROVE Copying(q)' /\ Reading(q)'
    <2>1. CASE q = p
      BY <1>5, <2>1 DEF Copying, Reading
    <2>2. CASE q # p
      <3>1. Copying(q) /\ Reading(q) /\ mem'.last = mem.last
        BY <1>3
      <3>2. /\ at'[q] = at[q] /\ mem'.obj[q] = mem.obj[q] /\ (mem'.alone[q] => mem.alone[q])
            /\ mem'.arg[q] = mem.arg[q] /\ mem'.copied[q] = mem.copied[q]
        BY <1>4, <1>6, <2>2
      <3>3. at[q] # "shell" => os'.obj[mem.obj[q]] = os.obj[mem.obj[q]]
        BY <1>1, <1>2, ToolsAssumption DEF NamesInv
      <3> QED BY ONLY <3>1, <3>2, <3>3 DEF Copying, Reading
    <2> QED BY <2>1, <2>2
  <1>12. ASSUME NEW i \in 1 .. MaxObjs PROVE Content(i)'
    <2>1. Content(i) /\ os'.obj[i] = os.obj[i] /\ mem'.last = mem.last
      BY <1>2, <1>3
    <2>2. (\A q \in Shells : ~(at'[q] = "memcpy" /\ mem'.obj[q] = i)) =>
              \A q \in Shells : ~(at[q] = "memcpy" /\ mem.obj[q] = i)
      BY <1>2, <1>4
    <2> QED BY ONLY <2>1, <2>2 DEF Content
  <1> QED BY <1>8, <1>9, <1>10, <1>11, <1>12

(* The name stands for the object, or for a fresh one. *)
LEMMA ShmObject ==
    ASSUME ShmParts, NEW creat, NEW excl, PO!Opens(creat, excl), NEW o,
           o = PO!Object([size |-> 0, page |-> PO!Zeros])
    PROVE  /\ DOMAIN o = {"name", "made", "obj"} /\ DOMAIN o.obj = 1 .. MaxObjs
           /\ \A i \in 1 .. MaxObjs : o.obj[i] = os.obj[i]
           /\ o.made \in os.made .. MaxObjs /\ o.name \in 1 .. o.made
  <1> DEFINE fresh == [size |-> 0, page |-> PO!Zeros]
  <1>1. NamesInv
    BY DEF ShmParts, ShmType
  <1>2. CASE os.name # 0
    <2>1. o = os
      BY <1>2 DEF PO!Object
    <2>2. /\ DOMAIN os = {"name", "made", "obj"} /\ DOMAIN os.obj = 1 .. MaxObjs
          /\ os.made \in os.made .. MaxObjs /\ os.name \in 1 .. os.made
      BY <1>1, <1>2, ToolsAssumption DEF NamesInv
    <2> QED BY <2>1, <2>2
  <1>3. CASE os.name = 0
    <2>1. os.made + 1 \in 1 .. MaxObjs /\ os.made \in Nat
      BY <1>1, <1>3, ToolsAssumption DEF PO!Opens, NamesInv
    <2>2. o = [os EXCEPT !.made = @ + 1, !.name = os.made + 1, !.obj[os.made + 1] = fresh]
      BY <1>3 DEF PO!Object
    <2>3. os.obj[os.made + 1] = fresh
      BY <2>1 DEF ShmParts, UntouchedInv
    <2>5. /\ DOMAIN o = {"name", "made", "obj"} /\ o.made = os.made + 1 /\ o.name = os.made + 1
          /\ o.obj = [os.obj EXCEPT ![os.made + 1] = fresh]
      BY <1>1, <2>2 DEF NamesInv
    <2>6. DOMAIN o.obj = 1 .. MaxObjs /\ \A i \in 1 .. MaxObjs : o.obj[i] = os.obj[i]
      BY <1>1, <2>1, <2>3, <2>5 DEF NamesInv
    <2> QED BY <2>1, <2>5, <2>6, ToolsAssumption
  <1> QED BY <1>2, <1>3

(* The strings pshm_write is given. *)
LEMMA StringSeq == \A s \in PO!Strings : s \in Seq(Int) /\ Len(s) <= MaxLen
  <1> SUFFICES ASSUME NEW s \in PO!Strings PROVE s \in Seq(Int) /\ Len(s) <= MaxLen
    OBVIOUS
  <1>1. PICK n \in 0 .. MaxLen : s = [k \in 1 .. n |-> n]
    BY DEF PO!Strings
  <1> QED BY <1>1, ConstSeq, ToolsAssumption

(* The three tools open the object. *)
LEMMA StepShmOpen ==
    ASSUME ShmParts, NEW p \in Shells,
           \/ \E creat, excl \in BOOLEAN, size \in 0 .. MaxLen :
                 PO!Opens(creat, excl)
                 /\ PO!ShmOpened(p, "size", PO!Object([size |-> 0, page |-> PO!Zeros]), PO!Fit(<<>>, size))
           \/ \E s \in PO!Strings : PO!Opens(FALSE, FALSE) /\ PO!ShmOpened(p, "truncate", os, s)
           \/ PO!Opens(FALSE, FALSE) /\ PO!ShmOpened(p, "fstat", os, <<>>)
    PROVE  ShmParts'
  <1>1. ASSUME NEW creat \in BOOLEAN, NEW excl \in BOOLEAN, NEW size \in 0 .. MaxLen,
               PO!Opens(creat, excl),
               PO!ShmOpened(p, "size", PO!Object([size |-> 0, page |-> PO!Zeros]), PO!Fit(<<>>, size))
        PROVE  ShmParts'
    <2> DEFINE o == PO!Object([size |-> 0, page |-> PO!Zeros])
    <2>1. PO!Fit(<<>>, size) \in Seq(Int) /\ Len(PO!Fit(<<>>, size)) <= MaxLen
      <3>1. <<>> \in Seq(Int) /\ size \in Nat /\ size <= MaxLen
        BY ToolsAssumption
      <3> QED BY <3>1, FitSeq
    <2>3. PO!ShmOpened(p, "size", o, PO!Fit(<<>>, size)) /\ o = PO!Object([size |-> 0, page |-> PO!Zeros])
      BY <1>1
    <2> HIDE DEF o
    <2>4. /\ DOMAIN o = {"name", "made", "obj"} /\ DOMAIN o.obj = 1 .. MaxObjs
          /\ \A i \in 1 .. MaxObjs : o.obj[i] = os.obj[i]
          /\ o.made \in os.made .. MaxObjs /\ o.name \in 1 .. o.made
      BY <1>1, <2>3, ShmObject
    <2> QED BY <2>1, <2>3, <2>4, StepShmOpened
  <1>2. ASSUME PO!Opens(FALSE, FALSE), NEW k \in {"truncate", "fstat"}, NEW s \in Seq(Int),
               Len(s) <= MaxLen, PO!ShmOpened(p, k, os, s)
        PROVE  ShmParts'
    <2>1. os.name # 0
      BY <1>2 DEF PO!Opens
    <2>2. /\ DOMAIN os = {"name", "made", "obj"} /\ DOMAIN os.obj = 1 .. MaxObjs
          /\ os.made \in os.made .. MaxObjs /\ os.name \in 1 .. os.made
      BY <2>1, ToolsAssumption DEF ShmParts, ShmType, NamesInv
    <2> QED BY <1>2, <2>2, StepShmOpened
  <1>3. <<>> \in Seq(Int) /\ Len(<<>>) <= MaxLen
    BY ToolsAssumption
  <1> QED BY <1>1, <1>2, <1>3, StringSeq
(* The object is resized. *)
LEMMA ResizeFacts ==
    ASSUME ShmType, NEW p \in Shells, NEW i \in 1 .. MaxObjs, i = mem.obj[p],
           NEW n \in 0 .. MaxLen, PO!Resize(p, n)
    PROVE  /\ DOMAIN os' = {"name", "made", "obj"} /\ DOMAIN os'.obj = 1 .. MaxObjs
           /\ os'.made = os.made /\ os'.name = os.name
           /\ \A j \in 1 .. MaxObjs : j # i => os'.obj[j] = os.obj[j]
           /\ DOMAIN os'.obj[i] = {"size", "page"} /\ os'.obj[i].size = n
           /\ os'.obj[i].page \in [1 .. MaxLen -> Int]
           /\ \A k \in 1 .. MaxLen : os'.obj[i].page[k] = IF k > n THEN 0 ELSE os.obj[i].page[k]
  <1> DEFINE new == [size |-> n,
                     page |-> [k \in 1 .. MaxLen |-> IF k > n THEN 0 ELSE os.obj[i].page[k]]]
  <1>1. DOMAIN os = {"name", "made", "obj"} /\ DOMAIN os.obj = 1 .. MaxObjs
    BY DEF ShmType, NamesInv
  <1>2. os' = [os EXCEPT !.obj[i] = new]
    BY <1>1 DEF PO!Resize, PO!Resized
  <1>3. /\ DOMAIN new = {"size", "page"} /\ new.size = n /\ new.page \in [1 .. MaxLen -> Int]
        /\ \A k \in 1 .. MaxLen : new.page[k] = IF k > n THEN 0 ELSE os.obj[i].page[k]
    <2>0. os.obj[i].page \in [1 .. MaxLen -> Int]
      BY DEF ShmType
    <2>1. ASSUME NEW k \in 1 .. MaxLen PROVE (IF k > n THEN 0 ELSE os.obj[i].page[k]) \in Int
      <3>1. os.obj[i].page[k] \in Int
        BY <2>0
      <3> QED BY <3>1
    <2> QED BY <2>1
  <1> HIDE DEF new
  <1>4. /\ DOMAIN os' = {"name", "made", "obj"} /\ DOMAIN os'.obj = 1 .. MaxObjs
        /\ os'.made = os.made /\ os'.name = os.name /\ os'.obj[i] = new
        /\ \A j \in 1 .. MaxObjs : j # i => os'.obj[j] = os.obj[j]
    BY <1>1, <1>2
  <1> QED BY <1>3, <1>4

(* A tool ends: what it says of the object it held. *)
LEMMA HoldsFacts ==
    ASSUME ShmType, NEW p \in Shells, NEW i \in 1 .. MaxObjs, i = mem.obj[p], NEW s \in Seq(Int),
           PO!Holds(p, "shell", s)
    PROVE  /\ at' = [at EXCEPT ![p] = "shell"]
           /\ DOMAIN mem' = {"prog", "tools", "obj", "arg", "copied", "alone", "last"}
           /\ mem'.obj = [mem.obj EXCEPT ![p] = 0] /\ mem'.arg = [mem.arg EXCEPT ![p] = <<>>]
           /\ mem'.copied = [mem.copied EXCEPT ![p] = 0] /\ mem'.alone = [mem.alone EXCEPT ![p] = TRUE]
           /\ mem'.last = [mem.last EXCEPT ![i] = IF mem.alone[p] THEN s ELSE PO!Mixed]
           /\ mem'.last \in [1 .. MaxObjs -> Seq(Int)]
  <1>1. /\ at' = [at EXCEPT ![p] = "shell"]
        /\ DOMAIN mem' = {"prog", "tools", "obj", "arg", "copied", "alone", "last"}
        /\ mem'.obj = [mem.obj EXCEPT ![p] = 0] /\ mem'.arg = [mem.arg EXCEPT ![p] = <<>>]
        /\ mem'.copied = [mem.copied EXCEPT ![p] = 0] /\ mem'.alone = [mem.alone EXCEPT ![p] = TRUE]
        /\ mem'.last = [mem.last EXCEPT ![i] = IF mem.alone[p] THEN s ELSE PO!Mixed]
    BY DEF PO!Holds, PO!ShmClosed, PO!Closed, ShmType
  <1>2. PO!Mixed \in Seq(Int)
    BY DEF PO!Mixed
  <1>3. mem'.last \in [1 .. MaxObjs -> Seq(Int)]
    BY <1>1, <1>2 DEF ShmType
  <1> QED BY <1>1, <1>3

(* The types, when a tool ends. *)
LEMMA ShmTypeEnd ==
    ASSUME ShmType, NEW p \in Shells, at' = [at EXCEPT ![p] = "shell"],
           DOMAIN mem' = {"prog", "tools", "obj", "arg", "copied", "alone", "last"},
           mem'.obj = [mem.obj EXCEPT ![p] = 0], mem'.arg = [mem.arg EXCEPT ![p] = <<>>],
           mem'.copied = [mem.copied EXCEPT ![p] = 0], mem'.alone = [mem.alone EXCEPT ![p] = TRUE],
           mem'.last \in [1 .. MaxObjs -> Seq(Int)],
           DOMAIN os' = {"name", "made", "obj"}, DOMAIN os'.obj = 1 .. MaxObjs,
           os'.made = os.made, os'.name = os.name,
           \A i \in 1 .. MaxObjs : /\ DOMAIN os'.obj[i] = {"size", "page"}
                                   /\ os'.obj[i].size \in 0 .. MaxLen
                                   /\ os'.obj[i].page \in [1 .. MaxLen -> Int]
    PROVE  ShmType'
  <1>1. NamesInv'
    BY NamesClosed DEF ShmType
  <1>2. /\ mem'.arg \in [Shells -> Seq(Int)] /\ mem'.copied \in [Shells -> 0 .. MaxLen]
        /\ mem'.alone \in [Shells -> BOOLEAN]
    BY ToolsAssumption DEF ShmType
  <1>3. \A q \in Shells : at'[q] \in PO!Writing => Len(mem'.arg[q]) <= MaxLen
    BY DEF ShmType, NamesInv, PO!Writing
  <1> QED BY <1>1, <1>2, <1>3 DEF ShmType

(* What others know when p ends. *)
LEMMA ShmEnd ==
    ASSUME ShmParts, NEW p \in Shells, NEW i, i = mem.obj[p], at[p] # "shell", ShmType',
           at' = [at EXCEPT ![p] = "shell"],
           mem'.obj = [mem.obj EXCEPT ![p] = 0], mem'.arg = [mem.arg EXCEPT ![p] = <<>>],
           mem'.copied = [mem.copied EXCEPT ![p] = 0], mem'.alone = [mem.alone EXCEPT ![p] = TRUE],
           os'.made = os.made,
           \A j \in 1 .. MaxObjs : j # i \/ at[p] \notin PO!Writing =>
               os'.obj[j] = os.obj[j] /\ mem'.last[j] = mem.last[j],
           at[p] \in PO!Writing => Content(i)'
    PROVE  ShmParts'
  <1>1. \A q \in Shells : q # p => /\ mem'.obj[q] = mem.obj[q] /\ mem'.alone[q] = mem.alone[q]
                                   /\ mem'.arg[q] = mem.arg[q] /\ mem'.copied[q] = mem.copied[q]
    BY DEF ShmParts, ShmType, NamesInv
  <1>2. "shell" \notin PO!Writing
    BY DEF PO!Writing
  <1>3. /\ UntouchedInv'
        /\ \A q \in Shells : Alone(q)'
        /\ \A q \in Shells : q # p => Copying(q)' /\ Reading(q)'
        /\ \A j \in 1 .. MaxObjs : j # i \/ at[p] \notin PO!Writing => Content(j)'
    <2> DEFINE k == "shell"
    <2>1. /\ at'[p] = k /\ (k \in PO!Writing => at[p] \in PO!Writing)
          /\ (\A q \in Shells : q # p => at'[q] = at[q])
          /\ (k # "shell" => mem'.obj[p] = mem.obj[p] /\ mem'.alone[p] = mem.alone[p])
          /\ k # "memcpy" /\ at[p] # "shell" /\ os'.made = os.made /\ p \in Shells
      BY <1>2 DEF ShmParts, ShmType, NamesInv
    <2> HIDE DEF k
    <2>2. \A j \in 1 .. MaxObjs : j # mem.obj[p] \/ at[p] \notin PO!Writing =>
             os'.obj[j] = os.obj[j] /\ mem'.last[j] = mem.last[j]
      OBVIOUS
    <2>3. /\ UntouchedInv'
          /\ \A q \in Shells : Alone(q)'
          /\ \A q \in Shells : q # p => Copying(q)' /\ Reading(q)'
          /\ \A j \in 1 .. MaxObjs :
               j # mem.obj[p] \/ (at[p] \notin PO!Writing /\ k # "memcpy") => Content(j)'
      BY ONLY ShmParts, <1>1, <2>1, <2>2, ShmFrame
    <2> QED BY <2>1, <2>3
  <1>4. at'[p] = "shell"
    BY DEF ShmParts, ShmType, NamesInv
  <1>5. Copying(p)' /\ Reading(p)'
    BY <1>4 DEF Copying, Reading
  <1>6. \A q \in Shells : Copying(q)' /\ Reading(q)'
    BY <1>3, <1>5
  <1>7. \A j \in 1 .. MaxObjs : Content(j)'
    BY <1>3
  <1> QED BY <1>3, <1>6, <1>7 DEF ShmParts
(* What others know when p goes on. *)
LEMMA ShmOn ==
    ASSUME ShmParts, NEW p \in Shells, NEW k, k # "shell", at[p] # "shell", ShmType',
           at'[p] = k, \A q \in Shells : q # p => at'[q] = at[q],
           k \in PO!Writing => at[p] \in PO!Writing,
           mem'.obj = mem.obj, mem'.alone = mem.alone, mem'.last = mem.last,
           \A q \in Shells : q # p => mem'.arg[q] = mem.arg[q] /\ mem'.copied[q] = mem.copied[q],
           os'.made = os.made,
           \A j \in 1 .. MaxObjs : j # mem.obj[p] \/ at[p] \notin PO!Writing => os'.obj[j] = os.obj[j],
           Copying(p)', Reading(p)', at[p] \in PO!Writing => k = "memcpy"
    PROVE  ShmParts'
  <1>1. /\ \A q \in Shells : q # p => /\ mem'.obj[q] = mem.obj[q] /\ mem'.alone[q] = mem.alone[q]
                                      /\ mem'.arg[q] = mem.arg[q] /\ mem'.copied[q] = mem.copied[q]
        /\ mem'.obj[p] = mem.obj[p] /\ mem'.alone[p] = mem.alone[p]
    OBVIOUS
  <1>2. \A j \in 1 .. MaxObjs : j # mem.obj[p] \/ at[p] \notin PO!Writing =>
             os'.obj[j] = os.obj[j] /\ mem'.last[j] = mem.last[j]
    OBVIOUS
  <1>3. /\ at'[p] = k /\ (k \in PO!Writing => at[p] \in PO!Writing)
        /\ (\A q \in Shells : q # p => at'[q] = at[q])
        /\ at[p] # "shell" /\ os'.made = os.made /\ p \in Shells
    OBVIOUS
  <1>4. /\ UntouchedInv'
        /\ \A q \in Shells : Alone(q)'
        /\ \A q \in Shells : q # p => Copying(q)' /\ Reading(q)'
        /\ \A j \in 1 .. MaxObjs :
              j # mem.obj[p] \/ (at[p] \notin PO!Writing /\ k # "memcpy") => Content(j)'
    BY ONLY ShmParts, <1>1, <1>2, <1>3, ShmFrame
  <1>5. \A q \in Shells : Copying(q)' /\ Reading(q)'
    BY <1>4
  <1>6. ASSUME NEW j \in 1 .. MaxObjs PROVE Content(j)'
    <2>1. CASE j # mem.obj[p] \/ at[p] \notin PO!Writing
      BY <1>4, <2>1 DEF PO!Writing
    <2>2. CASE j = mem.obj[p] /\ at[p] \in PO!Writing
      <3>1. at'[p] = "memcpy" /\ mem'.obj[p] = j
        BY <2>2
      <3> QED BY <3>1 DEF Content
    <2> QED BY <2>1, <2>2
  <1> QED BY <1>4, <1>5, <1>6 DEF ShmParts

(* The types, when p goes on. *)
LEMMA ShmTypeOn ==
    ASSUME ShmType, NEW p \in Shells, NEW k, at[p] # "shell", DOMAIN at' = Shells, at'[p] = k,
           \A q \in Shells : q # p => at'[q] = at[q],
           DOMAIN mem' = {"prog", "tools", "obj", "arg", "copied", "alone", "last"},
           mem'.obj = mem.obj, mem'.alone = mem.alone, mem'.last = mem.last,
           mem'.arg \in [Shells -> Seq(Int)], mem'.copied \in [Shells -> 0 .. MaxLen],
           \A q \in Shells : q # p => mem'.arg[q] = mem.arg[q],
           k \in PO!Writing => Len(mem'.arg[p]) <= MaxLen,
           DOMAIN os' = {"name", "made", "obj"}, DOMAIN os'.obj = 1 .. MaxObjs,
           os'.made = os.made, os'.name = os.name,
           \A i \in 1 .. MaxObjs : /\ DOMAIN os'.obj[i] = {"size", "page"}
                                   /\ os'.obj[i].size \in 0 .. MaxLen
                                   /\ os'.obj[i].page \in [1 .. MaxLen -> Int]
    PROVE  ShmType'
  <1>2. at'[p] = k /\ \A q \in Shells : q # p => at'[q] = at[q]
    OBVIOUS
  <1>1. NamesInv'
    BY <1>2 DEF ShmType, NamesInv
  <1>3. \A q \in Shells : at'[q] \in PO!Writing => Len(mem'.arg[q]) <= MaxLen
    BY <1>2, ZenonT(60) DEF ShmType
  <1>4. mem'.alone \in [Shells -> BOOLEAN] /\ mem'.last \in [1 .. MaxObjs -> Seq(Int)]
    BY DEF ShmType
  <1> QED BY <1>1, <1>3, <1>4 DEF ShmType

(* What a tool at work knows of the types. *)
LEMMA AtWork ==
    ASSUME ShmType, NEW p \in Shells, at[p] # "shell"
    PROVE  /\ DOMAIN at = Shells /\ mem.obj[p] \in 1 .. MaxObjs
           /\ mem.arg \in [Shells -> Seq(Int)] /\ mem.copied \in [Shells -> 0 .. MaxLen]
           /\ DOMAIN mem = {"prog", "tools", "obj", "arg", "copied", "alone", "last"}
           /\ mem.arg[p] \in Seq(Int) /\ Len(mem.arg[p]) \in Nat /\ mem.copied[p] \in 0 .. MaxLen
           /\ at[p] \in PO!Writing => Len(mem.arg[p]) \in 0 .. MaxLen
  <1>1. /\ DOMAIN at = Shells /\ mem.obj[p] \in 1 .. MaxObjs
        /\ mem.arg \in [Shells -> Seq(Int)] /\ mem.copied \in [Shells -> 0 .. MaxLen]
        /\ DOMAIN mem = {"prog", "tools", "obj", "arg", "copied", "alone", "last"}
    BY ToolsAssumption DEF ShmType, NamesInv
  <1>2. mem.arg[p] \in Seq(Int) /\ mem.copied[p] \in 0 .. MaxLen
    BY <1>1
  <1>3. at[p] \in PO!Writing => Len(mem.arg[p]) <= MaxLen
    BY DEF ShmType
  <1> QED BY <1>1, <1>2, <1>3, ToolsAssumption

(* ftruncate() *)
LEMMA StepShmTruncate ==
    ASSUME ShmParts, NEW p \in Shells, PO!Move(p, "truncate", "memcpy"), PO!Truncate(p)
    PROVE  ShmParts'
  <1>0. ShmType
    BY DEF ShmParts
  <1>1. at[p] = "truncate" /\ at' = [at EXCEPT ![p] = "memcpy"] /\ mem' = mem
        /\ PO!Resize(p, Len(mem.arg[p]))
    BY DEF PO!Move, PO!Truncate
  <1>2. /\ DOMAIN at = Shells /\ mem.obj[p] \in 1 .. MaxObjs
        /\ mem.arg \in [Shells -> Seq(Int)] /\ mem.copied \in [Shells -> 0 .. MaxLen]
        /\ DOMAIN mem = {"prog", "tools", "obj", "arg", "copied", "alone", "last"}
        /\ Len(mem.arg[p]) \in 0 .. MaxLen
    BY <1>0, <1>1, AtWork DEF PO!Writing
  <1>3. PICK i \in 1 .. MaxObjs : i = mem.obj[p]
    BY <1>2
  <1>4. PICK n \in 0 .. MaxLen : n = Len(mem.arg[p])
    BY <1>2
  <1>5. /\ DOMAIN os' = {"name", "made", "obj"} /\ DOMAIN os'.obj = 1 .. MaxObjs
        /\ os'.made = os.made /\ os'.name = os.name
        /\ \A j \in 1 .. MaxObjs : j # i => os'.obj[j] = os.obj[j]
        /\ DOMAIN os'.obj[i] = {"size", "page"} /\ os'.obj[i].size = n
        /\ os'.obj[i].page \in [1 .. MaxLen -> Int]
        /\ \A k \in 1 .. MaxLen : os'.obj[i].page[k] = IF k > n THEN 0 ELSE os.obj[i].page[k]
    <2>1. PO!Resize(p, n)
      BY <1>1, <1>4
    <2> QED BY ONLY <1>0, <1>3, <1>4, <2>1, p \in Shells, ResizeFacts, SMTT(40)
  <1>6. \A j \in 1 .. MaxObjs : /\ DOMAIN os'.obj[j] = {"size", "page"}
                                /\ os'.obj[j].size \in 0 .. MaxLen
                                /\ os'.obj[j].page \in [1 .. MaxLen -> Int]
    BY <1>0, <1>4, <1>5 DEF ShmType
  <1>7. /\ DOMAIN at' = Shells /\ at'[p] = "memcpy"
        /\ \A q \in Shells : q # p => at'[q] = at[q]
    BY <1>1, <1>2
  <1>8. ShmType'
    <2>1. /\ DOMAIN mem' = {"prog", "tools", "obj", "arg", "copied", "alone", "last"}
          /\ mem'.obj = mem.obj /\ mem'.alone = mem.alone /\ mem'.last = mem.last /\ mem'.arg = mem.arg
          /\ mem'.arg \in [Shells -> Seq(Int)] /\ mem'.copied \in [Shells -> 0 .. MaxLen]
          /\ Len(mem'.arg[p]) <= MaxLen
      BY <1>1, <1>2
    <2>2. at[p] # "shell"
      BY <1>1
    <2> QED BY <1>0, <1>5, <1>6, <1>7, <2>1, <2>2, ShmTypeOn
  <1>9. Copying(p)'
    <2>1. mem'.obj[p] = i /\ Len(mem'.arg[p]) = n /\ mem'.copied[p] = mem.copied[p] /\ n \in Nat
      BY <1>1, <1>2, <1>3, <1>4
    <2>2. mem.copied[p] = 0
      BY <1>1 DEF ShmParts, Copying
    <2> QED BY ONLY <1>5, <1>7, <2>1, <2>2, ToolsAssumption DEF Copying
  <1>10. Reading(p)'
    BY <1>7 DEF Reading
  <1>11. \A j \in 1 .. MaxObjs : j # mem.obj[p] \/ at[p] \notin PO!Writing => os'.obj[j] = os.obj[j]
    BY <1>1, <1>3, <1>5 DEF PO!Writing
  <1> QED BY <1>1, <1>5, <1>7, <1>8, <1>9, <1>10, <1>11, ShmOn DEF PO!Writing

(* memcpy() copies a byte. *)
LEMMA StepShmCopy ==
    ASSUME ShmParts, NEW p \in Shells, at[p] = "memcpy", mem.copied[p] < Len(mem.arg[p]), UNCHANGED at,
           os' = [os EXCEPT !.obj[mem.obj[p]].page[mem.copied[p] + 1] = mem.arg[p][mem.copied[p] + 1]],
           mem' = [mem EXCEPT !.copied[p] = @ + 1]
    PROVE  ShmParts'
  <1>0. ShmType
    BY DEF ShmParts
  <1>1. /\ DOMAIN at = Shells /\ mem.obj[p] \in 1 .. MaxObjs
        /\ mem.arg \in [Shells -> Seq(Int)] /\ mem.copied \in [Shells -> 0 .. MaxLen]
        /\ DOMAIN mem = {"prog", "tools", "obj", "arg", "copied", "alone", "last"}
        /\ Len(mem.arg[p]) \in 0 .. MaxLen /\ mem.arg[p] \in Seq(Int) /\ mem.copied[p] \in 0 .. MaxLen
    BY <1>0, AtWork DEF PO!Writing
  <1>2. PICK i \in 1 .. MaxObjs : i = mem.obj[p]
    BY <1>1
  <1>3. PICK c : c = mem.copied[p] + 1
    OBVIOUS
  <1>4. c \in 1 .. MaxLen /\ c \in 1 .. Len(mem.arg[p])
    BY <1>1, <1>3, ToolsAssumption
  <1>5. PICK v \in Int : v = mem.arg[p][c]
    BY <1>1, <1>4
  <1>6. /\ DOMAIN os' = {"name", "made", "obj"} /\ DOMAIN os'.obj = 1 .. MaxObjs
        /\ os'.made = os.made /\ os'.name = os.name
        /\ \A j \in 1 .. MaxObjs : j # i => os'.obj[j] = os.obj[j]
        /\ DOMAIN os'.obj[i] = {"size", "page"} /\ os'.obj[i].size = os.obj[i].size
        /\ os'.obj[i].page = [os.obj[i].page EXCEPT ![c] = v]
    BY <1>0, <1>1, <1>2, <1>3, <1>5 DEF ShmType, NamesInv
  <1>7. os.obj[i].page \in [1 .. MaxLen -> Int] /\ os.obj[i].size \in 0 .. MaxLen
    BY <1>0, <1>2 DEF ShmType
  <1>8. os'.obj[i].page \in [1 .. MaxLen -> Int]
        /\ \A k \in 1 .. MaxLen : os'.obj[i].page[k] = IF k = c THEN v ELSE os.obj[i].page[k]
    <2>1. PICK f \in [1 .. MaxLen -> Int] : f = os.obj[i].page
      BY <1>7
    <2>2. os'.obj[i].page = [f EXCEPT ![c] = v]
      BY <1>6, <2>1
    <2>3. [f EXCEPT ![c] = v] \in [1 .. MaxLen -> Int]
          /\ \A k \in 1 .. MaxLen : [f EXCEPT ![c] = v][k] = IF k = c THEN v ELSE f[k]
      BY <1>4, SMTT(40)
    <2> QED BY <2>1, <2>2, <2>3
  <1>9. \A j \in 1 .. MaxObjs : /\ DOMAIN os'.obj[j] = {"size", "page"}
                                /\ os'.obj[j].size \in 0 .. MaxLen
                                /\ os'.obj[j].page \in [1 .. MaxLen -> Int]
    BY <1>0, <1>6, <1>7, <1>8 DEF ShmType
  <1>10. /\ DOMAIN mem' = {"prog", "tools", "obj", "arg", "copied", "alone", "last"}
         /\ mem'.obj = mem.obj /\ mem'.alone = mem.alone /\ mem'.last = mem.last /\ mem'.arg = mem.arg
         /\ mem'.copied = [mem.copied EXCEPT ![p] = c]
    BY <1>1, <1>3
  <1>11. mem'.copied \in [Shells -> 0 .. MaxLen] /\ mem'.copied[p] = c
         /\ \A q \in Shells : q # p => mem'.copied[q] = mem.copied[q]
    BY <1>1, <1>4, <1>10
  <1>12. DOMAIN at' = Shells /\ at'[p] = "memcpy" /\ \A q \in Shells : q # p => at'[q] = at[q]
    BY <1>1, SMTT(40)
  <1>13. ShmType'
    <2>1. Len(mem'.arg[p]) <= MaxLen
      BY <1>1, <1>10
    <2> QED BY <1>0, <1>1, <1>6, <1>9, <1>10, <1>11, <1>12, <2>1, ShmTypeOn
  <1>14. Copying(p)'
    <2>1. mem'.obj[p] = i /\ mem'.arg[p] = mem.arg[p] /\ mem'.copied[p] = c /\ mem'.alone[p] = mem.alone[p]
      BY <1>2, <1>10, <1>11
    <2>2. mem.alone[p] => /\ os.obj[i].size = Len(mem.arg[p])
                          /\ \A k \in 1 .. MaxLen :
                                /\ k <= mem.copied[p] => os.obj[i].page[k] = mem.arg[p][k]
                                /\ k > Len(mem.arg[p]) => os.obj[i].page[k] = 0
      BY <1>2 DEF ShmParts, Copying
    <2>3. ASSUME mem.alone[p], NEW k \in 1 .. MaxLen
          PROVE  /\ k <= c => os'.obj[i].page[k] = mem.arg[p][k]
                 /\ k > Len(mem.arg[p]) => os'.obj[i].page[k] = 0
      <3>1. k <= c => k = c \/ k <= mem.copied[p]
        BY <1>1, <1>3
      <3>2. k > Len(mem.arg[p]) => k # c
        BY <1>1, <1>4
      <3> QED BY ONLY <1>5, <1>8, <2>2, <2>3, <3>1, <3>2
    <2>4. c <= Len(mem.arg[p]) /\ os'.obj[i].size = os.obj[i].size
      BY <1>1, <1>4, <1>6
    <2> QED BY ONLY <1>12, <2>1, <2>2, <2>3, <2>4 DEF Copying
  <1>15. Reading(p)'
    BY <1>12 DEF Reading
  <1>16. \A j \in 1 .. MaxObjs : j # mem.obj[p] \/ at[p] \notin PO!Writing => os'.obj[j] = os.obj[j]
    BY <1>2, <1>6 DEF PO!Writing
  <1> QED BY <1>6, <1>10, <1>11, <1>12, <1>13, <1>14, <1>15, <1>16, ShmOn DEF PO!Writing
(* fstat() *)
LEMMA StepShmFstat ==
    ASSUME ShmParts, NEW p \in Shells, PO!Move(p, "fstat", "write"), UNCHANGED os,
           mem' = [mem EXCEPT !.copied[p] = PO!Here(p).size]
    PROVE  ShmParts'
  <1>0. ShmType
    BY DEF ShmParts
  <1>1. at[p] = "fstat" /\ at' = [at EXCEPT ![p] = "write"]
    BY DEF PO!Move
  <1>2. /\ DOMAIN at = Shells /\ mem.obj[p] \in 1 .. MaxObjs
        /\ mem.arg \in [Shells -> Seq(Int)] /\ mem.copied \in [Shells -> 0 .. MaxLen]
        /\ DOMAIN mem = {"prog", "tools", "obj", "arg", "copied", "alone", "last"}
    BY <1>0, <1>1, AtWork
  <1>3. PICK n \in 0 .. MaxLen : n = os.obj[mem.obj[p]].size
    BY <1>0, <1>2 DEF ShmType
  <1>4. /\ DOMAIN mem' = {"prog", "tools", "obj", "arg", "copied", "alone", "last"}
        /\ mem'.obj = mem.obj /\ mem'.alone = mem.alone /\ mem'.last = mem.last /\ mem'.arg = mem.arg
        /\ mem'.copied = [mem.copied EXCEPT ![p] = n]
    BY <1>2, <1>3 DEF PO!Here
  <1>5. /\ mem'.copied \in [Shells -> 0 .. MaxLen] /\ mem'.copied[p] = n
        /\ \A q \in Shells : q # p => mem'.copied[q] = mem.copied[q]
    BY <1>2, <1>4
  <1>6. DOMAIN at' = Shells /\ at'[p] = "write" /\ \A q \in Shells : q # p => at'[q] = at[q]
    BY <1>1, <1>2
  <1>7. /\ DOMAIN os' = {"name", "made", "obj"} /\ DOMAIN os'.obj = 1 .. MaxObjs
        /\ os'.made = os.made /\ os'.name = os.name /\ os'.obj = os.obj
        /\ \A j \in 1 .. MaxObjs : /\ DOMAIN os'.obj[j] = {"size", "page"}
                                   /\ os'.obj[j].size \in 0 .. MaxLen
                                   /\ os'.obj[j].page \in [1 .. MaxLen -> Int]
    BY <1>0 DEF ShmType, NamesInv
  <1>8. ShmType'
    <2>1. mem'.arg \in [Shells -> Seq(Int)] /\ "write" \notin PO!Writing /\ at[p] # "shell"
      BY <1>1, <1>2, <1>4 DEF PO!Writing
    <2> QED BY <1>0, <1>4, <1>5, <1>6, <1>7, <2>1, ShmTypeOn
  <1>9. Copying(p)' /\ Reading(p)'
    BY <1>3, <1>4, <1>5, <1>6, <1>7 DEF Copying, Reading
  <1> QED BY <1>1, <1>4, <1>5, <1>6, <1>7, <1>8, <1>9, ShmOn DEF PO!Writing

(* What is printed. *)
LEMMA StepShmPrint ==
    ASSUME ShmParts, NEW p \in Shells, PO!Move(p, "write", "read"), UNCHANGED os,
           mem' = [mem EXCEPT !.arg[p] = IF PO!Here(p).size = 0 THEN <<>>
                                         ELSE SubSeq(PO!Here(p).page, 1, mem.copied[p]),
                              !.copied[p] = 0]
    PROVE  ShmParts'
  <1>0. ShmType
    BY DEF ShmParts
  <1>1. at[p] = "write" /\ at' = [at EXCEPT ![p] = "read"]
    BY DEF PO!Move
  <1>2. /\ DOMAIN at = Shells /\ mem.obj[p] \in 1 .. MaxObjs
        /\ mem.arg \in [Shells -> Seq(Int)] /\ mem.copied \in [Shells -> 0 .. MaxLen]
        /\ DOMAIN mem = {"prog", "tools", "obj", "arg", "copied", "alone", "last"}
        /\ mem.copied[p] \in 0 .. MaxLen
    BY <1>0, <1>1, AtWork
  <1>3. PICK i \in 1 .. MaxObjs : i = mem.obj[p]
    BY <1>2
  <1>4. PICK s : s = IF os.obj[i].size = 0 THEN <<>> ELSE SubSeq(os.obj[i].page, 1, mem.copied[p])
    OBVIOUS
  <1>5. os.obj[i].page \in [1 .. MaxLen -> Int] /\ os.obj[i].size \in 0 .. MaxLen
    BY <1>0, <1>3 DEF ShmType
  <1>6. /\ SubSeq(os.obj[i].page, 1, mem.copied[p]) \in Seq(Int)
        /\ Len(SubSeq(os.obj[i].page, 1, mem.copied[p])) = mem.copied[p]
        /\ \A k \in 1 .. mem.copied[p] : SubSeq(os.obj[i].page, 1, mem.copied[p])[k] = os.obj[i].page[k]
    BY <1>2, <1>5, PrefixSeq
  <1>7. s \in Seq(Int)
    BY <1>4, <1>6
  <1>8. /\ DOMAIN mem' = {"prog", "tools", "obj", "arg", "copied", "alone", "last"}
        /\ mem'.obj = mem.obj /\ mem'.alone = mem.alone /\ mem'.last = mem.last
        /\ mem'.arg = [mem.arg EXCEPT ![p] = s] /\ mem'.copied = [mem.copied EXCEPT ![p] = 0]
    BY <1>2, <1>3, <1>4 DEF PO!Here
  <1>9. /\ mem'.copied \in [Shells -> 0 .. MaxLen] /\ mem'.arg \in [Shells -> Seq(Int)]
        /\ mem'.arg[p] = s
        /\ \A q \in Shells : q # p => mem'.arg[q] = mem.arg[q] /\ mem'.copied[q] = mem.copied[q]
    <2>1. mem'.arg \in [Shells -> Seq(Int)] /\ mem'.arg[p] = s
          /\ \A q \in Shells : q # p => mem'.arg[q] = mem.arg[q]
      BY <1>2, <1>7, <1>8
    <2>2. 0 \in 0 .. MaxLen
      BY ToolsAssumption
    <2>3. mem'.copied \in [Shells -> 0 .. MaxLen]
          /\ \A q \in Shells : q # p => mem'.copied[q] = mem.copied[q]
      BY <1>2, <1>8, <2>2
    <2> QED BY <2>1, <2>3
  <1>10. DOMAIN at' = Shells /\ at'[p] = "read" /\ \A q \in Shells : q # p => at'[q] = at[q]
    BY <1>1, <1>2
  <1>11. /\ DOMAIN os' = {"name", "made", "obj"} /\ DOMAIN os'.obj = 1 .. MaxObjs
         /\ os'.made = os.made /\ os'.name = os.name /\ os'.obj = os.obj
         /\ \A j \in 1 .. MaxObjs : /\ DOMAIN os'.obj[j] = {"size", "page"}
                                    /\ os'.obj[j].size \in 0 .. MaxLen
                                    /\ os'.obj[j].page \in [1 .. MaxLen -> Int]
    BY <1>0 DEF ShmType, NamesInv
  <1>12. ShmType'
    <2>1. "read" \notin PO!Writing /\ at[p] # "shell"
      BY <1>1 DEF PO!Writing
    <2> QED BY <1>0, <1>8, <1>9, <1>10, <1>11, <2>1, ShmTypeOn
  <1>13. ASSUME mem.alone[p], mem.last[i] # PO!Mixed PROVE s = mem.last[i]
    <2>1. \A q \in Shells : ~(at[q] = "memcpy" /\ mem.obj[q] = i)
      BY <1>1, <1>3, <1>13 DEF ShmParts, Alone, PO!Writing
    <2>2. /\ Len(mem.last[i]) = os.obj[i].size
          /\ \A k \in 1 .. MaxLen :
               os.obj[i].page[k] = IF k <= os.obj[i].size THEN mem.last[i][k] ELSE 0
      BY <1>13, <2>1 DEF ShmParts, Content
    <2>3. mem.copied[p] = os.obj[i].size
      BY <1>1, <1>3, <1>13 DEF ShmParts, Reading
    <2>4. mem.last[i] \in Seq(Int)
      BY <1>0 DEF ShmType
    <2>5. Len(s) = os.obj[i].size /\ \A k \in 1 .. os.obj[i].size : s[k] = mem.last[i][k]
      <3>1. CASE os.obj[i].size = 0
        BY <1>4, <3>1
      <3>2. CASE os.obj[i].size # 0
        <4>1. /\ s \in Seq(Int) /\ Len(s) = mem.copied[p]
              /\ \A k \in 1 .. mem.copied[p] : s[k] = os.obj[i].page[k]
          BY <1>4, <1>6, <3>2
        <4>2. \A k \in 1 .. os.obj[i].size : k \in 1 .. MaxLen /\ k <= os.obj[i].size
          BY <1>5, ToolsAssumption
        <4> QED BY ONLY <2>2, <2>3, <4>1, <4>2
      <3> QED BY <3>1, <3>2
    <2>6. Len(s) = Len(mem.last[i]) /\ \A k \in 1 .. Len(s) : s[k] = mem.last[i][k]
      BY <2>2, <2>5
    <2> QED BY ONLY <1>7, <2>4, <2>6, SeqEqual
  <1>14. Reading(p)'
    <2>1. mem'.obj[p] = i /\ mem'.alone[p] = mem.alone[p] /\ mem'.last[i] = mem.last[i]
      BY <1>3, <1>8
    <2> QED BY ONLY <1>9, <1>10, <1>13, <2>1 DEF Reading
  <1>15. Copying(p)'
    BY <1>10 DEF Copying
  <1> QED BY <1>1, <1>8, <1>9, <1>10, <1>11, <1>12, <1>14, <1>15, ShmOn DEF PO!Writing
(* A reader ends. *)
LEMMA StepShmRead ==
    ASSUME ShmParts, NEW p \in Shells, PO!Move(p, "read", "shell"), mem' = PO!ShmClosed(mem, p), UNCHANGED os
    PROVE  ShmParts'
  <1>0. ShmType
    BY DEF ShmParts
  <1>1. /\ at[p] # "shell" /\ at[p] \notin PO!Writing /\ at' = [at EXCEPT ![p] = "shell"]
    BY DEF PO!Move, PO!Writing
  <1>2. /\ DOMAIN mem' = {"prog", "tools", "obj", "arg", "copied", "alone", "last"}
        /\ mem'.obj = [mem.obj EXCEPT ![p] = 0] /\ mem'.arg = [mem.arg EXCEPT ![p] = <<>>]
        /\ mem'.copied = [mem.copied EXCEPT ![p] = 0] /\ mem'.alone = [mem.alone EXCEPT ![p] = TRUE]
        /\ mem'.last = mem.last
    BY <1>0 DEF PO!ShmClosed, PO!Closed, ShmType
  <1>3. /\ DOMAIN os' = {"name", "made", "obj"} /\ DOMAIN os'.obj = 1 .. MaxObjs
        /\ os'.made = os.made /\ os'.name = os.name /\ os'.obj = os.obj
        /\ \A j \in 1 .. MaxObjs : /\ DOMAIN os'.obj[j] = {"size", "page"}
                                   /\ os'.obj[j].size \in 0 .. MaxLen
                                   /\ os'.obj[j].page \in [1 .. MaxLen -> Int]
        /\ mem'.last \in [1 .. MaxObjs -> Seq(Int)]
    BY <1>0, <1>2 DEF ShmType, NamesInv
  <1>4. ShmType'
    BY <1>0, <1>1, <1>2, <1>3, ShmTypeEnd
  <1> QED BY <1>1, <1>2, <1>3, <1>4, ShmEnd

(* A writer ends. *)
LEMMA StepShmHolds ==
    ASSUME ShmParts, NEW p \in Shells, at[p] = "memcpy",
           mem.copied[p] = Len(mem.arg[p]) \/ PO!Here(p).size = 0,
           PO!Holds(p, "shell", mem.arg[p]), UNCHANGED os
    PROVE  ShmParts'
  <1>0. ShmType
    BY DEF ShmParts
  <1>1. /\ DOMAIN at = Shells /\ mem.obj[p] \in 1 .. MaxObjs
        /\ Len(mem.arg[p]) \in 0 .. MaxLen /\ mem.arg[p] \in Seq(Int) /\ mem.copied[p] \in 0 .. MaxLen
    BY <1>0, AtWork DEF PO!Writing
  <1>2. PICK i \in 1 .. MaxObjs : i = mem.obj[p]
    BY <1>1
  <1>3. PICK s \in Seq(Int) : s = mem.arg[p]
    BY <1>1
  <1>4. /\ at' = [at EXCEPT ![p] = "shell"]
        /\ DOMAIN mem' = {"prog", "tools", "obj", "arg", "copied", "alone", "last"}
        /\ mem'.obj = [mem.obj EXCEPT ![p] = 0] /\ mem'.arg = [mem.arg EXCEPT ![p] = <<>>]
        /\ mem'.copied = [mem.copied EXCEPT ![p] = 0] /\ mem'.alone = [mem.alone EXCEPT ![p] = TRUE]
        /\ mem'.last = [mem.last EXCEPT ![i] = IF mem.alone[p] THEN s ELSE PO!Mixed]
        /\ mem'.last \in [1 .. MaxObjs -> Seq(Int)]
    <2>1. PO!Holds(p, "shell", s) /\ p \in Shells /\ s \in Seq(Int)
      BY <1>3
    <2> QED BY ONLY <1>0, <1>2, <2>1, HoldsFacts
  <1>5. /\ DOMAIN os' = {"name", "made", "obj"} /\ DOMAIN os'.obj = 1 .. MaxObjs
        /\ os'.made = os.made /\ os'.name = os.name /\ os'.obj = os.obj
        /\ \A j \in 1 .. MaxObjs : /\ DOMAIN os'.obj[j] = {"size", "page"}
                                   /\ os'.obj[j].size \in 0 .. MaxLen
                                   /\ os'.obj[j].page \in [1 .. MaxLen -> Int]
    BY <1>0 DEF ShmType, NamesInv
  <1>6. ShmType'
    BY <1>0, <1>4, <1>5, ShmTypeEnd
  <1>7. /\ mem'.last[i] = (IF mem.alone[p] THEN s ELSE PO!Mixed)
        /\ \A j \in 1 .. MaxObjs : j # i => mem'.last[j] = mem.last[j]
    BY <1>0, <1>4 DEF ShmType
  <1>8. Content(i)'
    <2>1. CASE ~mem.alone[p]
      BY <1>7, <2>1 DEF Content
    <2>2. CASE mem.alone[p]
      <3>1. /\ os.obj[i].size = Len(s) /\ mem.copied[p] <= Len(s)
            /\ \A k \in 1 .. MaxLen : /\ k <= mem.copied[p] => os.obj[i].page[k] = s[k]
                                      /\ k > Len(s) => os.obj[i].page[k] = 0
        BY <1>2, <1>3, <2>2 DEF ShmParts, Copying
      <3>2. mem.copied[p] = Len(s)
        BY <1>1, <1>2, <1>3, <3>1 DEF PO!Here
      <3>3. \A k \in 1 .. MaxLen : os.obj[i].page[k] = IF k <= os.obj[i].size THEN s[k] ELSE 0
        BY <1>1, <1>3, <3>1, <3>2
      <3>4. mem'.last[i] = s /\ os'.obj[i] = os.obj[i]
        BY <1>5, <1>7, <2>2
      <3> QED BY ONLY <3>1, <3>3, <3>4 DEF Content
    <2> QED BY <2>1, <2>2
  <1>9. at[p] # "shell" /\ at[p] \in PO!Writing
    BY DEF PO!Writing
  <1>10. \A j \in 1 .. MaxObjs : j # i \/ at[p] \notin PO!Writing =>
             os'.obj[j] = os.obj[j] /\ mem'.last[j] = mem.last[j]
    BY <1>5, <1>7, <1>9
  <1>11. /\ at' = [at EXCEPT ![p] = "shell"]
         /\ mem'.obj = [mem.obj EXCEPT ![p] = 0] /\ mem'.arg = [mem.arg EXCEPT ![p] = <<>>]
         /\ mem'.copied = [mem.copied EXCEPT ![p] = 0] /\ mem'.alone = [mem.alone EXCEPT ![p] = TRUE]
         /\ os'.made = os.made /\ i = mem.obj[p] /\ p \in Shells
    BY <1>2, <1>4, <1>5
  <1> QED BY ONLY ShmParts, <1>6, <1>8, <1>9, <1>10, <1>11, ShmEnd, ZenonT(60)

(* pshm_create sets the size. *)
LEMMA StepShmSize ==
    ASSUME ShmParts, NEW p \in Shells, at[p] = "size", PO!Resize(p, Len(mem.arg[p])),
           PO!Holds(p, "shell", IF mem.last[mem.obj[p]] = PO!Mixed THEN PO!Mixed
                                ELSE PO!Fit(mem.last[mem.obj[p]], Len(mem.arg[p])))
    PROVE  ShmParts'
  <1>0. ShmType
    BY DEF ShmParts
  <1>1. /\ DOMAIN at = Shells /\ mem.obj[p] \in 1 .. MaxObjs
        /\ Len(mem.arg[p]) \in 0 .. MaxLen /\ mem.arg[p] \in Seq(Int) /\ mem.copied[p] \in 0 .. MaxLen
    BY <1>0, AtWork DEF PO!Writing
  <1>2. PICK i \in 1 .. MaxObjs : i = mem.obj[p]
    BY <1>1
  <1>3. PICK n \in 0 .. MaxLen : n = Len(mem.arg[p])
    BY <1>1
  <1>4. PICK s : s = IF mem.last[i] = PO!Mixed THEN PO!Mixed ELSE PO!Fit(mem.last[i], n)
    OBVIOUS
  <1>5. n \in Nat /\ mem.last[i] \in Seq(Int) /\ PO!Mixed \in Seq(Int)
    BY <1>0, ToolsAssumption DEF ShmType, PO!Mixed
  <1>6. /\ PO!Fit(mem.last[i], n) \in Seq(Int) /\ Len(PO!Fit(mem.last[i], n)) = n
        /\ \A k \in 1 .. n : PO!Fit(mem.last[i], n)[k] =
                               IF k <= Len(mem.last[i]) THEN mem.last[i][k] ELSE 0
    BY <1>5, FitSeq
  <1>7. s \in Seq(Int)
    BY <1>4, <1>5, <1>6
  <1>8. /\ DOMAIN os' = {"name", "made", "obj"} /\ DOMAIN os'.obj = 1 .. MaxObjs
        /\ os'.made = os.made /\ os'.name = os.name
        /\ \A j \in 1 .. MaxObjs : j # i => os'.obj[j] = os.obj[j]
        /\ DOMAIN os'.obj[i] = {"size", "page"} /\ os'.obj[i].size = n
        /\ os'.obj[i].page \in [1 .. MaxLen -> Int]
        /\ \A k \in 1 .. MaxLen : os'.obj[i].page[k] = IF k > n THEN 0 ELSE os.obj[i].page[k]
    <2>1. PO!Resize(p, n)
      BY <1>3
    <2> QED BY ONLY <1>0, <1>2, <1>3, <2>1, p \in Shells, ResizeFacts
  <1>9. \A j \in 1 .. MaxObjs : /\ DOMAIN os'.obj[j] = {"size", "page"}
                                /\ os'.obj[j].size \in 0 .. MaxLen
                                /\ os'.obj[j].page \in [1 .. MaxLen -> Int]
    BY <1>0, <1>8 DEF ShmType
  <1>10. /\ at' = [at EXCEPT ![p] = "shell"]
         /\ DOMAIN mem' = {"prog", "tools", "obj", "arg", "copied", "alone", "last"}
         /\ mem'.obj = [mem.obj EXCEPT ![p] = 0] /\ mem'.arg = [mem.arg EXCEPT ![p] = <<>>]
         /\ mem'.copied = [mem.copied EXCEPT ![p] = 0] /\ mem'.alone = [mem.alone EXCEPT ![p] = TRUE]
         /\ mem'.last = [mem.last EXCEPT ![i] = IF mem.alone[p] THEN s ELSE PO!Mixed]
         /\ mem'.last \in [1 .. MaxObjs -> Seq(Int)]
    <2>1. PO!Holds(p, "shell", s) /\ p \in Shells
      BY <1>2, <1>3, <1>4
    <2> QED BY ONLY <1>0, <1>2, <1>7, <2>1, HoldsFacts
  <1>11. ShmType'
    BY ONLY <1>0, p \in Shells, <1>8, <1>9, <1>10, ShmTypeEnd
  <1>12. /\ mem'.last[i] = (IF mem.alone[p] THEN s ELSE PO!Mixed)
         /\ \A j \in 1 .. MaxObjs : j # i => mem'.last[j] = mem.last[j]
    BY <1>0, <1>10 DEF ShmType
  <1>13. Content(i)'
    <2>1. CASE ~mem.alone[p] \/ mem.last[i] = PO!Mixed
      BY <1>4, <1>12, <2>1 DEF Content
    <2>2. CASE mem.alone[p] /\ mem.last[i] # PO!Mixed
      <3>1. \A q \in Shells : ~(at[q] = "memcpy" /\ mem.obj[q] = i)
        BY <1>2, <2>2 DEF ShmParts, Alone, PO!Writing
      <3>2. /\ Len(mem.last[i]) = os.obj[i].size
            /\ \A k \in 1 .. MaxLen :
                 os.obj[i].page[k] = IF k <= os.obj[i].size THEN mem.last[i][k] ELSE 0
        BY <2>2, <3>1 DEF ShmParts, Content
      <3>3. s = PO!Fit(mem.last[i], n) /\ mem'.last[i] = s
        BY <1>4, <1>12, <2>2
      <3>4. ASSUME NEW k \in 1 .. MaxLen
            PROVE  os'.obj[i].page[k] = IF k <= n THEN s[k] ELSE 0
        <4>1. CASE k <= n
          <5>1. k \in 1 .. n /\ ~(k > n)
            BY <1>5, <4>1
          <5>2. os'.obj[i].page[k] = os.obj[i].page[k]
            BY <1>8, <5>1
          <5> QED BY ONLY <1>6, <3>2, <3>3, <3>4, <4>1, <5>1, <5>2
        <4>2. CASE ~(k <= n)
          BY <1>5, <1>8, <4>2
        <4> QED BY <4>1, <4>2
      <3>5. Len(s) = n
        BY <1>6, <3>3
      <3> QED BY ONLY <1>8, <3>3, <3>4, <3>5 DEF Content
    <2> QED BY <2>1, <2>2
  <1>14. at[p] # "shell" /\ at[p] \in PO!Writing
    BY DEF PO!Writing
  <1>15. \A j \in 1 .. MaxObjs : j # i \/ at[p] \notin PO!Writing =>
             os'.obj[j] = os.obj[j] /\ mem'.last[j] = mem.last[j]
    BY <1>8, <1>12, <1>14
  <1>16. /\ at' = [at EXCEPT ![p] = "shell"]
         /\ mem'.obj = [mem.obj EXCEPT ![p] = 0] /\ mem'.arg = [mem.arg EXCEPT ![p] = <<>>]
         /\ mem'.copied = [mem.copied EXCEPT ![p] = 0] /\ mem'.alone = [mem.alone EXCEPT ![p] = TRUE]
         /\ os'.made = os.made /\ i = mem.obj[p] /\ p \in Shells
    BY <1>2, <1>8, <1>10
  <1> QED BY ONLY ShmParts, <1>11, <1>13, <1>14, <1>15, <1>16, ShmEnd, ZenonT(60)

(* Nothing but the name changes, or nothing. *)
LEMMA ShmSame ==
    ASSUME ShmParts, UNCHANGED <<at, mem>>, os' = os \/ os' = [os EXCEPT !.name = 0]
    PROVE  ShmParts'
  <1> USE DEF ShmParts
  <1>1. /\ DOMAIN os' = {"name", "made", "obj"} /\ os'.made = os.made /\ os'.obj = os.obj
        /\ os'.name \in {0, os.name}
    BY DEF ShmType, NamesInv
  <1>2. NamesInv'
    BY <1>1, ToolsAssumption DEF ShmType, NamesInv
  <1>3. ShmType' /\ UntouchedInv'
    BY <1>1, <1>2 DEF ShmType, UntouchedInv
  <1>4. ASSUME NEW q \in Shells PROVE Alone(q)' /\ Copying(q)' /\ Reading(q)'
    BY <1>1 DEF Alone, Copying, Reading
  <1>5. ASSUME NEW i \in 1 .. MaxObjs PROVE Content(i)'
    BY <1>1 DEF Content
  <1> QED BY <1>3, <1>4, <1>5

(* Every step of a pshm tool. *)
LEMMA StepShm == ASSUME ShmParts, NEW p \in Shells, PO!pshm(p) PROVE ShmParts'
  <1>1. PO!pshm_create(p) => ShmParts'
    BY StepShmOpen, StepShmSize DEF PO!pshm_create
  <1>2. PO!pshm_write(p) => ShmParts'
    BY StepShmOpen, StepShmTruncate, StepShmCopy, StepShmHolds DEF PO!pshm_write
  <1>3. PO!pshm_read(p) => ShmParts'
    BY StepShmOpen, StepShmFstat, StepShmPrint, StepShmRead DEF PO!pshm_read
  <1>4. PO!pshm_unlink(p) => ShmParts'
    BY ShmSame DEF PO!pshm_unlink, PO!Unlink
  <1> QED BY <1>1, <1>2, <1>3, <1>4 DEF PO!pshm

-----------------------------------------------------------------------------
(* pmsg_create, pmsg_send, pmsg_receive *)
MqType ==
    /\ DOMAIN mem = {"prog", "tools", "obj", "msg", "sent", "got"} /\ NamesInv
    /\ mem.tools \in Nat /\ mem.got \in Seq(Int)
    /\ DOMAIN mem.msg = Shells
    /\ \A p \in Shells : at[p] # "too_small" /\ DOMAIN mem.msg[p] = {"id", "len", "prio", "n"}

(* A queue is empty or full. *)
QueueInv ==
    \A i \in 1 .. MaxObjs :
        /\ DOMAIN os.obj[i] = {"maxmsg", "msgsize", "q"} /\ os.obj[i].maxmsg = 1
        /\ os.obj[i].msgsize \in Nat
        /\ os.obj[i].q = <<>> \/ \E m : os.obj[i].q = <<m>>
        /\ i > os.made => os.obj[i].q = <<>>

(* A message on its way is new, and a receiver's buffer fits its queue. *)
ToolInv ==
    \A p \in Shells :
        /\ at[p] = "mq_send" =>
              /\ mem.msg[p].id \in 0 .. mem.tools - 1 /\ mem.msg[p].id \notin mem.sent
              /\ \A r \in Shells : r # p /\ at[r] = "mq_send" => mem.msg[r].id # mem.msg[p].id
        /\ at[p] = "mq_receive" => mem.msg[p].len = os.obj[mem.obj[p]].msgsize

(* A message sent is in one queue, or was received once. *)
Queued(i, x) == os.obj[i].q # <<>> /\ os.obj[i].q[1].id = x
Received(x) == \E k \in 1 .. Len(mem.got) : mem.got[k] = x
SentInv ==
    /\ \A x \in mem.sent : x \in 0 .. mem.tools - 1
    /\ \A x : x \in mem.sent <=> (Received(x) \/ \E i \in 1 .. MaxObjs : Queued(i, x))
    /\ \A x : \A i \in 1 .. MaxObjs : Queued(i, x) => ~Received(x)
    /\ \A x : \A i, j \in 1 .. MaxObjs : Queued(i, x) /\ Queued(j, x) => i = j
    /\ \A k, l \in 1 .. Len(mem.got) : k # l => mem.got[k] # mem.got[l]

MqParts == MqType /\ QueueInv /\ ToolInv /\ SentInv
MqInv == mem.prog = "pmsg" => MqParts

(* Into an empty queue. *)
LEMMA InOrderFirst == \A m : PO!InOrder(<<>>, m) = <<m>>
  <1> SUFFICES ASSUME NEW m PROVE PO!InOrder(<<>>, m) = <<m>>
    OBVIOUS
  <1> DEFINE k == CHOOSE k \in 0 .. Len(<<>>) : /\ \A i \in 1 .. k : <<>>[i].prio >= m.prio
                                                /\ \A i \in k + 1 .. Len(<<>>) : <<>>[i].prio < m.prio
  <1>1. \E x \in 0 .. Len(<<>>) : /\ \A i \in 1 .. x : <<>>[i].prio >= m.prio
                                  /\ \A i \in x + 1 .. Len(<<>>) : <<>>[i].prio < m.prio
    <2>1. 0 \in 0 .. Len(<<>>) /\ 1 .. 0 = {} /\ 0 + 1 .. Len(<<>>) = {}
      OBVIOUS
    <2> QED BY <2>1
  <1>2. k \in 0 .. Len(<<>>)
    BY <1>1
  <1>3. k = 0
    BY <1>2
  <1>4. PO!InOrder(<<>>, m) = SubSeq(<<>>, 1, k) \o <<m>> \o SubSeq(<<>>, k + 1, Len(<<>>))
    BY DEF PO!InOrder
  <1> HIDE DEF k
  <1>5. SubSeq(<<>>, 1, k) = <<>> /\ SubSeq(<<>>, k + 1, Len(<<>>)) = <<>>
    BY <1>3
  <1>6. PO!InOrder(<<>>, m) = <<>> \o <<m>> \o <<>>
    BY <1>4, <1>5
  <1> QED BY <1>6

(* The initial states. *)
LEMMA InitMq == MCInit => MqInv
  <1> SUFFICES ASSUME MCInit, mem.prog = "pmsg" PROVE MqParts
    BY DEF MqInv
  <1>1. PO!Family([maxmsg |-> 1, msgsize |-> 1, q |-> <<>>],
                  [prog |-> "pmsg", tools |-> 0, obj |-> [p \in Shells |-> 0],
                   msg |-> [p \in Shells |-> PO!NoMsg], sent |-> {}, got |-> <<>>])
    BY DEF MCInit, NotRunning, LK!Init, LK!LocksInit, LK!FlockInit, PO!Init, PO!Family
  <1>2. /\ DOMAIN mem = {"prog", "tools", "obj", "msg", "sent", "got"}
        /\ mem.tools = 0 /\ mem.msg = [p \in Shells |-> PO!NoMsg] /\ mem.sent = {} /\ mem.got = <<>>
        /\ at = [p \in Shells |-> "shell"]
        /\ os.obj = [i \in 1 .. MaxObjs |-> [maxmsg |-> 1, msgsize |-> 1, q |-> <<>>]]
    BY <1>1 DEF PO!Family, PO!Objs
  <1>3. NamesInv
    BY <1>1, ToolsAssumption DEF PO!Family, PO!Objs, NamesInv
  <1>4. MqType
    BY <1>2, <1>3 DEF MqType, PO!NoMsg
  <1>5. QueueInv /\ ToolInv
    BY <1>2 DEF QueueInv, ToolInv
  <1>6. SentInv
    BY <1>2 DEF SentInv, Queued, Received
  <1> QED BY <1>4, <1>5, <1>6 DEF MqParts

(* The queues and the messages stay as they are. *)
LEMMA SentSame ==
    ASSUME SentInv, NEW t, mem'.tools = t, t \in Nat, mem.tools \in Nat, t >= mem.tools,
           mem'.sent = mem.sent, mem'.got = mem.got,
           \A i \in 1 .. MaxObjs : os'.obj[i].q = os.obj[i].q
    PROVE  SentInv'
  <1>1. \A x : Received(x)' <=> Received(x)
    BY DEF Received
  <1>2. \A x : \A i \in 1 .. MaxObjs : Queued(i, x)' <=> Queued(i, x)
    BY DEF Queued
  <1>3. \A x \in mem'.sent : x \in 0 .. mem'.tools - 1
    BY DEF SentInv
  <1> QED BY <1>1, <1>2, <1>3 DEF SentInv

(* A tool opens a queue. *)
LEMMA StepMqOpen ==
    ASSUME MqParts, NEW p \in Shells, NEW k, k \in {"mq_send", "getattr"}, os.name # 0,
           at[p] = "shell", at' = [at EXCEPT ![p] = k], UNCHANGED os,
           NEW m, DOMAIN m = {"id", "len", "prio", "n"}, k = "mq_send" => m.id = mem.tools,
           mem' = [mem EXCEPT !.tools = @ + 1, !.obj[p] = os.name, !.msg[p] = m]
    PROVE  MqParts'
  <1> USE DEF MqParts
  <1>1. /\ DOMAIN mem = {"prog", "tools", "obj", "msg", "sent", "got"} /\ NamesInv
        /\ DOMAIN mem.msg = Shells /\ DOMAIN at = Shells /\ DOMAIN mem.obj = Shells
        /\ mem.tools \in Nat /\ mem.got \in Seq(Int)
    BY DEF MqType, NamesInv
  <1>2. /\ DOMAIN mem' = {"prog", "tools", "obj", "msg", "sent", "got"}
        /\ mem'.tools = mem.tools + 1 /\ mem'.sent = mem.sent /\ mem'.got = mem.got
        /\ mem'.obj = [mem.obj EXCEPT ![p] = os.name] /\ mem'.msg = [mem.msg EXCEPT ![p] = m]
    BY <1>1
  <1>3. NamesInv'
    BY <1>1, <1>2 DEF NamesInv
  <1>4. /\ at'[p] = k /\ mem'.msg[p] = m /\ mem'.obj[p] = os.name
        /\ \A r \in Shells : r # p => at'[r] = at[r] /\ mem'.msg[r] = mem.msg[r] /\ mem'.obj[r] = mem.obj[r]
    BY <1>1, <1>2
  <1>5. MqType'
    BY <1>1, <1>2, <1>3, <1>4 DEF MqType
  <1>6. QueueInv'
    BY DEF QueueInv
  <1>7. SentInv'
    BY <1>1, <1>2, SentSame
  <1>8. \A x \in mem.sent : x # mem.tools
    BY <1>1 DEF SentInv
  <1>9. ASSUME NEW r \in Shells, at[r] = "mq_send"
        PROVE  mem.msg[r].id # mem.tools /\ mem.msg[r].id \in 0 .. mem'.tools - 1
    BY <1>1, <1>2, <1>9 DEF ToolInv
  <1>10. ToolInv'
    BY <1>1, <1>2, <1>4, <1>8, <1>9 DEF ToolInv
  <1> QED BY <1>5, <1>6, <1>7, <1>10
(* A tool goes on, or ends, and the queues stay as they are. *)
LEMMA MqOn ==
    ASSUME MqParts, NEW p \in Shells, at[p] # "shell", UNCHANGED os,
           DOMAIN at' = Shells, at'[p] \in {"shell", "mq_receive"},
           DOMAIN mem' = {"prog", "tools", "obj", "msg", "sent", "got"},
           mem'.tools = mem.tools, mem'.sent = mem.sent, mem'.got = mem.got,
           DOMAIN mem'.obj = Shells, at'[p] # "shell" => mem'.obj[p] = mem.obj[p],
           DOMAIN mem'.msg = Shells, DOMAIN mem'.msg[p] = {"id", "len", "prio", "n"},
           at'[p] = "mq_receive" => mem'.msg[p].len = os.obj[mem.obj[p]].msgsize,
           \A r \in Shells : r # p => at'[r] = at[r] /\ mem'.msg[r] = mem.msg[r] /\ mem'.obj[r] = mem.obj[r]
    PROVE  MqParts'
  <1> USE DEF MqParts
  <1>1. NamesInv /\ mem.tools \in Nat /\ mem.got \in Seq(Int)
    BY DEF MqType
  <1>2. NamesInv'
    BY <1>1 DEF NamesInv
  <1>3. MqType'
    BY <1>1, <1>2 DEF MqType
  <1>4. QueueInv'
    BY DEF QueueInv
  <1>5. SentInv'
    BY <1>1, SentSame
  <1>6. ToolInv'
    <2>1. ASSUME NEW r \in Shells, at'[r] = "mq_send"
          PROVE  /\ mem'.msg[r].id \in 0 .. mem'.tools - 1 /\ mem'.msg[r].id \notin mem'.sent
                 /\ \A s \in Shells : s # r /\ at'[s] = "mq_send" => mem'.msg[s].id # mem'.msg[r].id
      <3>1. \A s \in Shells : at'[s] = "mq_send" => at[s] = "mq_send" /\ mem'.msg[s] = mem.msg[s]
        OBVIOUS
      <3>2. /\ mem.msg[r].id \in 0 .. mem.tools - 1 /\ mem.msg[r].id \notin mem.sent
            /\ \A s \in Shells : s # r /\ at[s] = "mq_send" => mem.msg[s].id # mem.msg[r].id
        BY <2>1, <3>1 DEF ToolInv
      <3> QED BY <2>1, <3>1, <3>2
    <2>2. ASSUME NEW r \in Shells, at'[r] = "mq_receive"
          PROVE  mem'.msg[r].len = os'.obj[mem'.obj[r]].msgsize
      <3>1. CASE r = p
        BY <2>2, <3>1
      <3>2. CASE r # p
        BY <2>2, <3>2 DEF ToolInv
      <3> QED BY <3>1, <3>2
    <2> QED BY <2>1, <2>2 DEF ToolInv
  <1> QED BY <1>3, <1>4, <1>5, <1>6

(* pmsg_create *)
LEMMA StepMqCreate ==
    ASSUME MqParts, NEW p \in Shells, PO!pmsg_create(p) PROVE MqParts'
  <1> USE DEF MqParts
  <1>1. PICK creat \in BOOLEAN, excl \in BOOLEAN, maxmsg \in 0 .. 1, msgsize \in 0 .. 2 :
          /\ PO!Opens(creat, excl) /\ (os.name = 0 => maxmsg > 0 /\ msgsize > 0)
          /\ os' = PO!Object([maxmsg |-> maxmsg, msgsize |-> msgsize, q |-> <<>>])
          /\ UNCHANGED <<at, mem>>
    BY DEF PO!pmsg_create
  <1>2. NamesInv
    BY DEF MqType
  <1>3. /\ DOMAIN os' = {"name", "made", "obj"} /\ DOMAIN os'.obj = 1 .. MaxObjs
        /\ os'.made \in os.made .. MaxObjs /\ os'.name \in 1 .. os'.made
        /\ \A i \in 1 .. MaxObjs :
             \/ os'.obj[i] = os.obj[i]
             \/ os.name = 0 /\ i = os.made + 1
                /\ os'.obj[i] = [maxmsg |-> maxmsg, msgsize |-> msgsize, q |-> <<>>]
    BY <1>1, <1>2, NamesObject
  <1>4. NamesInv'
    BY <1>1, <1>2, <1>3, ToolsAssumption DEF NamesInv
  <1>5. MqType'
    BY <1>1, <1>4 DEF MqType
  <1>6. os.made \in 0 .. MaxObjs
    BY <1>2 DEF NamesInv
  <1>7. ASSUME NEW i \in 1 .. MaxObjs
        PROVE  /\ os'.obj[i].q = os.obj[i].q /\ DOMAIN os'.obj[i] = {"maxmsg", "msgsize", "q"}
               /\ os'.obj[i].maxmsg = 1 /\ os'.obj[i].msgsize \in Nat
               /\ i <= os.made => os'.obj[i] = os.obj[i]
    <2>1. CASE os'.obj[i] = os.obj[i]
      BY <2>1 DEF QueueInv
    <2>2. CASE os.name = 0 /\ i = os.made + 1
                /\ os'.obj[i] = [maxmsg |-> maxmsg, msgsize |-> msgsize, q |-> <<>>]
      <3>1. os.obj[i].q = <<>> /\ maxmsg = 1 /\ ~(i <= os.made)
        BY <1>1, <1>6, <2>2, ToolsAssumption DEF QueueInv
      <3> QED BY <2>2, <3>1
    <2> QED BY <1>3, <2>1, <2>2
  <1>8. QueueInv'
    <2>1. \A i \in 1 .. MaxObjs : i > os'.made => i > os.made
      BY <1>3, <1>6, ToolsAssumption
    <2> QED BY <1>7, <2>1 DEF QueueInv
  <1>9. SentInv'
    BY <1>1, <1>7, SentSame DEF MqType
  <1>10. ASSUME NEW r \in Shells, at[r] # "shell" PROVE os'.obj[mem.obj[r]] = os.obj[mem.obj[r]]
    BY <1>2, <1>7, <1>10, ToolsAssumption DEF NamesInv
  <1>11. ToolInv'
    BY <1>1, <1>10 DEF ToolInv
  <1> QED BY <1>5, <1>8, <1>9, <1>11

(* The message goes into the queue. *)
LEMMA StepMqSent ==
    ASSUME MqParts, NEW p \in Shells, at[p] = "mq_send", at' = [at EXCEPT ![p] = "shell"],
           Len(os.obj[mem.obj[p]].q) # os.obj[mem.obj[p]].maxmsg,
           os' = [os EXCEPT !.obj[mem.obj[p]].q = PO!InOrder(@, mem.msg[p])],
           mem' = PO!MqClosed([mem EXCEPT !.sent = @ \cup {mem.msg[p].id}], p)
    PROVE  MqParts'
  <1> USE DEF MqParts
  <1>1. /\ DOMAIN mem = {"prog", "tools", "obj", "msg", "sent", "got"} /\ NamesInv
        /\ DOMAIN mem.msg = Shells /\ DOMAIN at = Shells /\ DOMAIN mem.obj = Shells
        /\ mem.tools \in Nat /\ mem.got \in Seq(Int) /\ DOMAIN os.obj = 1 .. MaxObjs
        /\ DOMAIN os = {"name", "made", "obj"} /\ os.made \in 0 .. MaxObjs
    BY DEF MqType, NamesInv
  <1>2. PICK i \in 1 .. MaxObjs : i = mem.obj[p] /\ i <= os.made
    BY <1>1, ToolsAssumption DEF NamesInv
  <1>3. PICK m : m = mem.msg[p]
    OBVIOUS
  <1>4. os.obj[i].q = <<>> /\ DOMAIN os.obj[i] = {"maxmsg", "msgsize", "q"} /\ os.obj[i].maxmsg = 1
    <2>1. /\ DOMAIN os.obj[i] = {"maxmsg", "msgsize", "q"} /\ os.obj[i].maxmsg = 1
          /\ os.obj[i].q = <<>> \/ \E x : os.obj[i].q = <<x>>
      BY DEF QueueInv
    <2>2. \A x : Len(<<x>>) = 1
      OBVIOUS
    <2> QED BY <1>2, <2>1, <2>2
  <1>5. /\ DOMAIN os' = {"name", "made", "obj"} /\ os'.name = os.name /\ os'.made = os.made
        /\ DOMAIN os'.obj = 1 .. MaxObjs /\ DOMAIN os'.obj[i] = {"maxmsg", "msgsize", "q"}
        /\ os'.obj[i].maxmsg = 1 /\ os'.obj[i].msgsize = os.obj[i].msgsize
        /\ os'.obj[i].q = PO!InOrder(os.obj[i].q, m)
        /\ \A j \in 1 .. MaxObjs : j # i => os'.obj[j] = os.obj[j]
    BY <1>1, <1>2, <1>3, <1>4
  <1>6. os'.obj[i].q = <<m>>
    BY <1>4, <1>5, InOrderFirst
  <1>7. /\ DOMAIN mem' = {"prog", "tools", "obj", "msg", "sent", "got"}
        /\ mem'.tools = mem.tools /\ mem'.sent = mem.sent \cup {m.id} /\ mem'.got = mem.got
        /\ mem'.obj = [mem.obj EXCEPT ![p] = 0] /\ mem'.msg = [mem.msg EXCEPT ![p] = PO!NoMsg]
    BY <1>1, <1>3 DEF PO!MqClosed, PO!Closed
  <1>8. /\ at'[p] = "shell" /\ mem'.msg[p] = PO!NoMsg /\ mem'.obj[p] = 0
        /\ \A r \in Shells : r # p => at'[r] = at[r] /\ mem'.msg[r] = mem.msg[r] /\ mem'.obj[r] = mem.obj[r]
    BY <1>1, <1>7
  <1>9. NamesInv'
    BY <1>1, <1>5, <1>7, NamesClosed
  <1>10. MqType'
    <2>1. DOMAIN PO!NoMsg = {"id", "len", "prio", "n"}
      BY DEF PO!NoMsg
    <2>2. \A r \in Shells : at'[r] # "too_small" /\ DOMAIN mem'.msg[r] = {"id", "len", "prio", "n"}
      BY <1>8, <2>1 DEF MqType
    <2>3. DOMAIN mem'.msg = Shells
      BY <1>1, <1>7
    <2> QED BY <1>1, <1>7, <1>9, <2>2, <2>3 DEF MqType
  <1>11. QueueInv'
    <2>1. i > os.made => FALSE
      BY ONLY <1>1, <1>2, ToolsAssumption
    <2>2. os.obj[i].msgsize \in Nat
      BY ONLY QueueInv, <1>2 DEF QueueInv
    <2>3. ASSUME NEW j \in 1 .. MaxObjs
          PROVE  /\ DOMAIN os'.obj[j] = {"maxmsg", "msgsize", "q"} /\ os'.obj[j].maxmsg = 1
                 /\ os'.obj[j].msgsize \in Nat
                 /\ os'.obj[j].q = <<>> \/ \E x : os'.obj[j].q = <<x>>
                 /\ j > os'.made => os'.obj[j].q = <<>>
      <3>1. CASE j = i
        BY ONLY <1>5, <1>6, <2>1, <2>2, <3>1, Zenon
      <3>2. CASE j # i
        <4>1. os'.obj[j] = os.obj[j] /\ os'.made = os.made
          BY ONLY <1>5, <3>2
        <4> QED BY ONLY <4>1, QueueInv, Zenon DEF QueueInv
      <3> QED BY ONLY <3>1, <3>2
    <2> QED BY ONLY <2>3, Zenon DEF QueueInv
  <1>12. /\ m.id \in 0 .. mem.tools - 1 /\ m.id \notin mem.sent
         /\ \A r \in Shells : r # p /\ at[r] = "mq_send" => mem.msg[r].id # m.id
    BY <1>3, SMTT(40) DEF ToolInv
  <1>13. ToolInv'
    <2>1. ASSUME NEW r \in Shells, at'[r] = "mq_send"
          PROVE  /\ mem'.msg[r].id \in 0 .. mem'.tools - 1 /\ mem'.msg[r].id \notin mem'.sent
                 /\ \A s \in Shells : s # r /\ at'[s] = "mq_send" => mem'.msg[s].id # mem'.msg[r].id
      <3>1. r # p /\ at[r] = "mq_send" /\ mem'.msg[r] = mem.msg[r]
        BY <1>8, <2>1
      <3>2. /\ mem.msg[r].id \in 0 .. mem.tools - 1 /\ mem.msg[r].id \notin mem.sent
            /\ \A s \in Shells : s # r /\ at[s] = "mq_send" => mem.msg[s].id # mem.msg[r].id
        BY <3>1 DEF ToolInv
      <3>3. \A s \in Shells : at'[s] = "mq_send" => at[s] = "mq_send" /\ mem'.msg[s] = mem.msg[s]
        BY <1>8
      <3> QED BY ONLY r \in Shells, <1>7, <1>12, <3>1, <3>2, <3>3
    <2>2. ASSUME NEW r \in Shells, at'[r] = "mq_receive"
          PROVE  mem'.msg[r].len = os'.obj[mem'.obj[r]].msgsize
      <3>1. r # p /\ mem.obj[r] \in 1 .. MaxObjs
        BY <1>1, <1>8, <2>2, ToolsAssumption DEF NamesInv
      <3>2. os'.obj[mem.obj[r]].msgsize = os.obj[mem.obj[r]].msgsize
        BY <1>5, <3>1
      <3> QED BY <1>8, <2>2, <3>1, <3>2 DEF ToolInv
    <2> QED BY <2>1, <2>2 DEF ToolInv
  <1>14. SentInv'
    <2>1. \A x : Received(x)' <=> Received(x)
      BY <1>7 DEF Received
    <2>2. \A x : Queued(i, x)' <=> x = m.id
      BY <1>6, SMTT(40) DEF Queued
    <2>3. \A x : ~Queued(i, x)
      BY <1>4 DEF Queued
    <2>4. \A x : \A j \in 1 .. MaxObjs : j # i => (Queued(j, x)' <=> Queued(j, x))
      BY <1>5 DEF Queued
    <2>5. \A x \in mem'.sent : x \in 0 .. mem'.tools - 1
      BY <1>7, <1>12 DEF SentInv
    <2>6. ASSUME NEW x PROVE x \in mem'.sent <=> (Received(x)' \/ \E j \in 1 .. MaxObjs : Queued(j, x)')
      <3>1. x \in mem.sent <=> (Received(x) \/ \E j \in 1 .. MaxObjs : Queued(j, x))
        BY DEF SentInv
      <3>2. (\E j \in 1 .. MaxObjs : Queued(j, x)') <=> x = m.id \/ \E j \in 1 .. MaxObjs : Queued(j, x)
        BY <2>2, <2>3, <2>4
      <3> QED BY <1>7, <2>1, <3>1, <3>2
    <2>7. \A x : \A j \in 1 .. MaxObjs : Queued(j, x)' => ~Received(x)'
      BY <1>12, <2>1, <2>2, <2>4 DEF SentInv
    <2>8. \A x : \A j, l \in 1 .. MaxObjs : Queued(j, x)' /\ Queued(l, x)' => j = l
      BY <1>12, <2>2, <2>4 DEF SentInv
    <2>9. \A k, l \in 1 .. Len(mem'.got) : k # l => mem'.got[k] # mem'.got[l]
      BY <1>7 DEF SentInv
    <2> QED BY <2>5, <2>6, <2>7, <2>8, <2>9 DEF SentInv
  <1> QED BY <1>10, <1>11, <1>13, <1>14

(* What Append() makes. *)
LEMMA AppendSeq ==
    ASSUME NEW s \in Seq(Int), NEW x \in Int
    PROVE  /\ Append(s, x) \in Seq(Int) /\ Len(Append(s, x)) = Len(s) + 1 /\ Len(s) \in Nat
           /\ Append(s, x)[Len(s) + 1] = x
           /\ \A k \in 1 .. Len(s) : Append(s, x)[k] = s[k]
  OBVIOUS

(* The message is taken out. *)
LEMMA StepMqGot ==
    ASSUME MqParts, NEW p \in Shells, at[p] = "mq_receive", at' = [at EXCEPT ![p] = "shell"],
           os.obj[mem.obj[p]].q # <<>>,
           os' = [os EXCEPT !.obj[mem.obj[p]].q = Tail(@)],
           mem' = PO!MqClosed([mem EXCEPT !.got = Append(@, Head(PO!Here(p).q).id)], p)
    PROVE  MqParts'
  <1> USE DEF MqParts
  <1>1. /\ DOMAIN mem = {"prog", "tools", "obj", "msg", "sent", "got"} /\ NamesInv
        /\ DOMAIN mem.msg = Shells /\ DOMAIN at = Shells /\ DOMAIN mem.obj = Shells
        /\ mem.tools \in Nat /\ mem.got \in Seq(Int) /\ DOMAIN os.obj = 1 .. MaxObjs
        /\ DOMAIN os = {"name", "made", "obj"} /\ os.made \in 0 .. MaxObjs
    BY DEF MqType, NamesInv
  <1>2. PICK i \in 1 .. MaxObjs : i = mem.obj[p] /\ i <= os.made
    BY <1>1, ToolsAssumption DEF NamesInv
  <1>3. PICK m : os.obj[i].q = <<m>>
    BY <1>2 DEF QueueInv
  <1>4. Head(os.obj[i].q) = m /\ Tail(os.obj[i].q) = <<>> /\ os.obj[i].q # <<>> /\ os.obj[i].q[1] = m
    BY <1>3
  <1>5. /\ DOMAIN os' = {"name", "made", "obj"} /\ os'.name = os.name /\ os'.made = os.made
        /\ DOMAIN os'.obj = 1 .. MaxObjs /\ DOMAIN os'.obj[i] = {"maxmsg", "msgsize", "q"}
        /\ os'.obj[i].maxmsg = 1 /\ os'.obj[i].msgsize = os.obj[i].msgsize
        /\ os'.obj[i].q = <<>>
        /\ \A j \in 1 .. MaxObjs : j # i => os'.obj[j] = os.obj[j]
    <2>1. DOMAIN os.obj[i] = {"maxmsg", "msgsize", "q"} /\ os.obj[i].maxmsg = 1
      BY DEF QueueInv
    <2> QED BY <1>1, <1>2, <1>4, <2>1
  <1>6. PICK x : x = m.id
    OBVIOUS
  <1>7. Queued(i, x) /\ ~Received(x) /\ x \in mem.sent /\ x \in Int
    <2>1. Queued(i, x)
      BY <1>4, <1>6 DEF Queued
    <2>2. ~Received(x) /\ x \in mem.sent
      BY <2>1, SMTT(40) DEF SentInv
    <2> QED BY <1>1, <2>1, <2>2 DEF SentInv
  <1>8. /\ DOMAIN mem' = {"prog", "tools", "obj", "msg", "sent", "got"}
        /\ mem'.tools = mem.tools /\ mem'.sent = mem.sent /\ mem'.got = Append(mem.got, x)
        /\ mem'.obj = [mem.obj EXCEPT ![p] = 0] /\ mem'.msg = [mem.msg EXCEPT ![p] = PO!NoMsg]
    BY <1>1, <1>2, <1>4, <1>6 DEF PO!MqClosed, PO!Closed, PO!Here
  <1>9. /\ at'[p] = "shell" /\ mem'.msg[p] = PO!NoMsg /\ mem'.obj[p] = 0
        /\ \A r \in Shells : r # p => at'[r] = at[r] /\ mem'.msg[r] = mem.msg[r] /\ mem'.obj[r] = mem.obj[r]
    BY <1>1, <1>8
  <1>10. NamesInv'
    BY <1>1, <1>5, <1>8, NamesClosed
  <1>11. /\ mem'.got \in Seq(Int) /\ Len(mem'.got) = Len(mem.got) + 1 /\ Len(mem.got) \in Nat
         /\ mem'.got[Len(mem.got) + 1] = x
         /\ \A k \in 1 .. Len(mem.got) : mem'.got[k] = mem.got[k]
    BY ONLY <1>1, <1>7, <1>8, AppendSeq
  <1>12. MqType'
    <2>1. DOMAIN PO!NoMsg = {"id", "len", "prio", "n"}
      BY DEF PO!NoMsg
    <2>2. \A r \in Shells : at'[r] # "too_small" /\ DOMAIN mem'.msg[r] = {"id", "len", "prio", "n"}
      BY <1>9, <2>1 DEF MqType
    <2>3. DOMAIN mem'.msg = Shells
      BY <1>1, <1>8
    <2> QED BY <1>1, <1>8, <1>10, <1>11, <2>2, <2>3 DEF MqType
  <1>13. QueueInv'
    <2>1. ASSUME NEW j \in 1 .. MaxObjs
          PROVE  /\ DOMAIN os'.obj[j] = {"maxmsg", "msgsize", "q"} /\ os'.obj[j].maxmsg = 1
                 /\ os'.obj[j].msgsize \in Nat
                 /\ os'.obj[j].q = <<>> \/ \E y : os'.obj[j].q = <<y>>
                 /\ j > os'.made => os'.obj[j].q = <<>>
      <3>1. CASE j = i
        BY <1>5, <3>1, SMTT(40) DEF QueueInv
      <3>2. CASE j # i
        <4>1. os'.obj[j] = os.obj[j] /\ os'.made = os.made
          BY <1>5, <3>2, SMTT(40)
        <4> QED BY <4>1 DEF QueueInv
      <3> QED BY <3>1, <3>2
    <2> QED BY <2>1, SMTT(40) DEF QueueInv
  <1>14. ToolInv'
    <2>1. ASSUME NEW r \in Shells, at'[r] = "mq_send"
          PROVE  /\ mem'.msg[r].id \in 0 .. mem'.tools - 1 /\ mem'.msg[r].id \notin mem'.sent
                 /\ \A s \in Shells : s # r /\ at'[s] = "mq_send" => mem'.msg[s].id # mem'.msg[r].id
      <3>1. r # p /\ at[r] = "mq_send" /\ mem'.msg[r] = mem.msg[r]
        BY <1>9, <2>1
      <3>2. /\ mem.msg[r].id \in 0 .. mem.tools - 1 /\ mem.msg[r].id \notin mem.sent
            /\ \A s \in Shells : s # r /\ at[s] = "mq_send" => mem.msg[s].id # mem.msg[r].id
        BY <3>1 DEF ToolInv
      <3>3. \A s \in Shells : at'[s] = "mq_send" => at[s] = "mq_send" /\ mem'.msg[s] = mem.msg[s]
        BY <1>9
      <3> QED BY ONLY r \in Shells, <1>8, <3>1, <3>2, <3>3
    <2>2. ASSUME NEW r \in Shells, at'[r] = "mq_receive"
          PROVE  mem'.msg[r].len = os'.obj[mem'.obj[r]].msgsize
      <3>1. r # p /\ mem.obj[r] \in 1 .. MaxObjs
        BY <1>1, <1>9, <2>2, ToolsAssumption DEF NamesInv
      <3>2. os'.obj[mem.obj[r]].msgsize = os.obj[mem.obj[r]].msgsize
        BY <1>5, <3>1
      <3> QED BY <1>9, <2>2, <3>1, <3>2 DEF ToolInv
    <2> QED BY <2>1, <2>2 DEF ToolInv
  <1>15. SentInv'
    <2>1. ASSUME NEW y PROVE Received(y)' <=> Received(y) \/ y = x
      <3>1. Received(y) => Received(y)'
        <4>1. ASSUME NEW k \in 1 .. Len(mem.got), mem.got[k] = y PROVE Received(y)'
          <5>1. k \in 1 .. Len(mem'.got) /\ mem'.got[k] = y
            BY ONLY <1>11, <4>1, k \in 1 .. Len(mem.got)
          <5> QED BY <5>1 DEF Received
        <4> QED BY <4>1 DEF Received
      <3>2. Received(x)'
        <4>1. Len(mem.got) + 1 \in 1 .. Len(mem'.got)
          BY <1>11
        <4> QED BY <1>11, <4>1 DEF Received
      <3>3. ASSUME NEW k \in 1 .. Len(mem'.got), mem'.got[k] = y PROVE Received(y) \/ y = x
        <4>1. k \in 1 .. Len(mem.got) \/ k = Len(mem.got) + 1
          BY <1>11, SMTT(40)
        <4> QED BY <1>11, <3>3, <4>1 DEF Received
      <3> QED BY <3>1, <3>2, <3>3 DEF Received
    <2>2. \A y : ~Queued(i, y)'
      BY <1>5 DEF Queued
    <2>3. \A y : Queued(i, y) <=> y = x
      BY <1>4, <1>6, SMTT(40) DEF Queued
    <2>4. \A y : \A j \in 1 .. MaxObjs : j # i => (Queued(j, y)' <=> Queued(j, y))
      BY <1>5 DEF Queued
    <2>5. \A y \in mem'.sent : y \in 0 .. mem'.tools - 1
      BY <1>8 DEF SentInv
    <2>6. \A y : y \in mem'.sent <=> (Received(y)' \/ \E j \in 1 .. MaxObjs : Queued(j, y)')
      BY <1>8, <2>1, <2>2, <2>3, <2>4 DEF SentInv
    <2>7. \A y : \A j \in 1 .. MaxObjs : Queued(j, y)' => ~Received(y)'
      BY <1>7, <2>1, <2>2, <2>4 DEF SentInv
    <2>8. \A y : \A j, l \in 1 .. MaxObjs : Queued(j, y)' /\ Queued(l, y)' => j = l
      BY <2>2, <2>4 DEF SentInv
    <2>9. ASSUME NEW k \in 1 .. Len(mem'.got), NEW l \in 1 .. Len(mem'.got), k # l
          PROVE  mem'.got[k] # mem'.got[l]
      <3>1. /\ k \in 1 .. Len(mem.got) \/ k = Len(mem.got) + 1
            /\ l \in 1 .. Len(mem.got) \/ l = Len(mem.got) + 1
        BY <1>11, SMTT(40)
      <3>2. \A n \in 1 .. Len(mem.got) : mem.got[n] # x
        BY <1>7 DEF Received
      <3> QED BY <1>11, <2>9, <3>1, <3>2 DEF SentInv
    <2> QED BY <2>5, <2>6, <2>7, <2>8, <2>9 DEF SentInv
  <1> QED BY <1>12, <1>13, <1>14, <1>15
(* Nothing but the name changes, or nothing. *)
LEMMA MqSame ==
    ASSUME MqParts, UNCHANGED <<at, mem>>, os' = os \/ os' = [os EXCEPT !.name = 0]
    PROVE  MqParts'
  <1> USE DEF MqParts
  <1>1. /\ DOMAIN os' = {"name", "made", "obj"} /\ os'.made = os.made /\ os'.obj = os.obj
        /\ os'.name \in {0, os.name}
    BY DEF MqType, NamesInv
  <1>2. NamesInv'
    BY <1>1, ToolsAssumption DEF MqType, NamesInv
  <1>3. MqType'
    BY <1>2 DEF MqType
  <1>4. QueueInv' /\ ToolInv'
    BY <1>1 DEF QueueInv, ToolInv
  <1>5. SentInv'
    BY <1>1, SentSame DEF MqType
  <1> QED BY <1>3, <1>4, <1>5

(* A tool ends and leaves everything else. *)
LEMMA MqEnd ==
    ASSUME MqParts, NEW p \in Shells, at[p] # "shell", at' = [at EXCEPT ![p] = "shell"],
           mem' = PO!MqClosed(mem, p), UNCHANGED os
    PROVE  MqParts'
  <1>1. DOMAIN mem = {"prog", "tools", "obj", "msg", "sent", "got"}
    BY DEF MqParts, MqType
  <1>2. /\ DOMAIN mem' = {"prog", "tools", "obj", "msg", "sent", "got"}
        /\ mem'.tools = mem.tools /\ mem'.sent = mem.sent /\ mem'.got = mem.got
        /\ mem'.obj = [mem.obj EXCEPT ![p] = 0] /\ mem'.msg = [mem.msg EXCEPT ![p] = PO!NoMsg]
    BY <1>1 DEF PO!MqClosed, PO!Closed
  <1>3. DOMAIN PO!NoMsg = {"id", "len", "prio", "n"}
    BY DEF PO!NoMsg
  <1>4. /\ DOMAIN at' = Shells /\ DOMAIN mem'.obj = Shells /\ DOMAIN mem'.msg = Shells
        /\ at'[p] = "shell" /\ mem'.msg[p] = PO!NoMsg
        /\ \A r \in Shells : r # p =>
              at'[r] = at[r] /\ mem'.msg[r] = mem.msg[r] /\ mem'.obj[r] = mem.obj[r]
    BY <1>2, SMTT(40) DEF MqParts, MqType, NamesInv
  <1> QED BY <1>2, <1>3, <1>4, MqOn

(* pmsg_send *)
LEMMA StepMqSend == ASSUME MqParts, NEW p \in Shells, PO!pmsg_send(p) PROVE MqParts'
  <1>1. ASSUME NEW len \in 1 .. 2, NEW prio \in PO!Prios, NEW n \in BOOLEAN,
               PO!Opens(FALSE, FALSE), PO!Move(p, "shell", "mq_send"), UNCHANGED os,
               mem' = [mem EXCEPT !.tools = @ + 1, !.obj[p] = os.name,
                         !.msg[p] = [id |-> mem.tools, len |-> len, prio |-> prio, n |-> n]]
        PROVE  MqParts'
    <2>1. PICK m : m = [id |-> mem.tools, len |-> len, prio |-> prio, n |-> n]
      OBVIOUS
    <2>2. DOMAIN m = {"id", "len", "prio", "n"} /\ m.id = mem.tools
      BY <2>1
    <2>3. mem' = [mem EXCEPT !.tools = @ + 1, !.obj[p] = os.name, !.msg[p] = m]
      BY <1>1, <2>1
    <2>4. os.name # 0 /\ at[p] = "shell" /\ at' = [at EXCEPT ![p] = "mq_send"]
      BY <1>1 DEF PO!Opens, PO!Move
    <2> QED BY <1>1, <2>2, <2>3, <2>4, StepMqOpen
  <1>2. ASSUME at[p] = "mq_send", PO!Move(p, "mq_send", "shell"),
               Len(PO!Here(p).q) # PO!Here(p).maxmsg,
               os' = [os EXCEPT !.obj[mem.obj[p]].q = PO!InOrder(@, mem.msg[p])],
               mem' = PO!MqClosed([mem EXCEPT !.sent = @ \cup {mem.msg[p].id}], p)
        PROVE  MqParts'
    BY <1>2, StepMqSent DEF PO!Move, PO!Here
  <1>3. ASSUME PO!Move(p, "mq_send", "shell"), UNCHANGED os,
               mem' = PO!MqClosed([mem EXCEPT !.sent = @], p)
        PROVE  MqParts'
    <2>1. DOMAIN mem = {"prog", "tools", "obj", "msg", "sent", "got"}
      BY DEF MqParts, MqType
    <2>2. /\ DOMAIN mem' = {"prog", "tools", "obj", "msg", "sent", "got"}
          /\ mem'.tools = mem.tools /\ mem'.sent = mem.sent /\ mem'.got = mem.got
          /\ mem'.obj = [mem.obj EXCEPT ![p] = 0] /\ mem'.msg = [mem.msg EXCEPT ![p] = PO!NoMsg]
      BY <1>3, <2>1 DEF PO!MqClosed, PO!Closed
    <2>3. DOMAIN PO!NoMsg = {"id", "len", "prio", "n"}
      BY DEF PO!NoMsg
    <2>4. at[p] # "shell" /\ at' = [at EXCEPT ![p] = "shell"]
      BY <1>3 DEF PO!Move
    <2>5. /\ DOMAIN at' = Shells /\ DOMAIN mem'.obj = Shells /\ DOMAIN mem'.msg = Shells
          /\ at'[p] = "shell" /\ mem'.msg[p] = PO!NoMsg
          /\ \A r \in Shells : r # p =>
                at'[r] = at[r] /\ mem'.msg[r] = mem.msg[r] /\ mem'.obj[r] = mem.obj[r]
      BY <2>2, <2>4 DEF MqParts, MqType, NamesInv
    <2> QED BY <1>3, <2>2, <2>3, <2>4, <2>5, MqOn
  <1>4. ASSUME at[p] = "mq_send", PO!Move(p, "mq_send", "shell"),
               LET m    == mem.msg[p]
                   bad  == m.len > PO!Here(p).msgsize \/ m.prio < 0
                   full == Len(PO!Here(p).q) = PO!Here(p).maxmsg
               IN  /\ os' = IF bad \/ full THEN os
                            ELSE [os EXCEPT !.obj[mem.obj[p]].q = PO!InOrder(@, m)]
                   /\ mem' = PO!MqClosed([mem EXCEPT !.sent = IF bad \/ full THEN @ ELSE @ \cup {m.id}], p)
        PROVE  MqParts'
    <2> DEFINE bad == mem.msg[p].len > PO!Here(p).msgsize \/ mem.msg[p].prio < 0
               full == Len(PO!Here(p).q) = PO!Here(p).maxmsg
    <2>1. /\ os' = IF bad \/ full THEN os
                   ELSE [os EXCEPT !.obj[mem.obj[p]].q = PO!InOrder(@, mem.msg[p])]
          /\ mem' = PO!MqClosed([mem EXCEPT !.sent = IF bad \/ full THEN @ ELSE @ \cup {mem.msg[p].id}], p)
      BY <1>4
    <2>2. ~full => Len(PO!Here(p).q) # PO!Here(p).maxmsg
      OBVIOUS
    <2> HIDE DEF bad, full
    <2>3. CASE bad \/ full
      BY <1>3, <1>4, <2>1, <2>3
    <2>4. CASE ~(bad \/ full)
      BY <1>2, <1>4, <2>1, <2>2, <2>4
    <2> QED BY <2>3, <2>4
  <1> QED BY <1>1, <1>4 DEF PO!pmsg_send

(* pmsg_receive *)
LEMMA StepMqReceive == ASSUME MqParts, NEW p \in Shells, PO!pmsg_receive(p) PROVE MqParts'
  <1>0. /\ DOMAIN mem = {"prog", "tools", "obj", "msg", "sent", "got"} /\ DOMAIN mem.msg = Shells
        /\ DOMAIN mem.msg[p] = {"id", "len", "prio", "n"} /\ DOMAIN mem.obj = Shells
    BY DEF MqParts, MqType, NamesInv
  <1>1. ASSUME NEW n \in BOOLEAN, PO!Opens(FALSE, FALSE), PO!Move(p, "shell", "getattr"), UNCHANGED os,
               mem' = [mem EXCEPT !.tools = @ + 1, !.obj[p] = os.name, !.msg[p].n = n]
        PROVE  MqParts'
    <2>1. PICK m : m = [mem.msg[p] EXCEPT !.n = n]
      OBVIOUS
    <2>2. DOMAIN m = {"id", "len", "prio", "n"}
      BY <1>0, <2>1
    <2>3. mem' = [mem EXCEPT !.tools = @ + 1, !.obj[p] = os.name, !.msg[p] = m]
      BY <1>0, <1>1, <2>1
    <2>4. os.name # 0 /\ at[p] = "shell" /\ at' = [at EXCEPT ![p] = "getattr"]
      BY <1>1 DEF PO!Opens, PO!Move
    <2> QED BY <1>1, <2>2, <2>3, <2>4, StepMqOpen
  <1>2. ASSUME PO!Move(p, "getattr", "mq_receive"), PO!Getattr(p), UNCHANGED os PROVE MqParts'
    <2>1. PICK m : m = [mem.msg[p] EXCEPT !.len = os.obj[mem.obj[p]].msgsize]
      OBVIOUS
    <2>2. DOMAIN m = {"id", "len", "prio", "n"} /\ m.len = os.obj[mem.obj[p]].msgsize
      BY <1>0, <2>1
    <2>3. mem' = [mem EXCEPT !.msg[p] = m]
      BY <1>0, <1>2, <2>1 DEF PO!Getattr, PO!Here
    <2>4. /\ DOMAIN mem' = {"prog", "tools", "obj", "msg", "sent", "got"}
          /\ mem'.tools = mem.tools /\ mem'.sent = mem.sent /\ mem'.got = mem.got
          /\ mem'.obj = mem.obj /\ mem'.msg = [mem.msg EXCEPT ![p] = m]
      BY <1>0, <2>3
    <2>5. at[p] # "shell" /\ at' = [at EXCEPT ![p] = "mq_receive"]
      BY <1>2 DEF PO!Move
    <2>6. /\ DOMAIN at' = Shells /\ DOMAIN mem'.obj = Shells /\ DOMAIN mem'.msg = Shells
          /\ at'[p] = "mq_receive" /\ mem'.msg[p] = m
          /\ \A r \in Shells : r # p =>
                at'[r] = at[r] /\ mem'.msg[r] = mem.msg[r] /\ mem'.obj[r] = mem.obj[r]
      BY <2>4, <2>5 DEF MqParts, MqType, NamesInv
    <2> QED BY <1>2, <2>2, <2>4, <2>5, <2>6, MqOn
  <1>3. ASSUME at[p] = "mq_receive",
               LET small == mem.msg[p].len < PO!Here(p).msgsize
                   empty == PO!Here(p).q = <<>>
               IN  /\ small \/ ~empty \/ mem.msg[p].n
                   /\ PO!Move(p, "mq_receive", IF small THEN "too_small" ELSE "shell")
                   /\ IF small \/ empty THEN mem' = PO!MqClosed(mem, p) /\ UNCHANGED os
                      ELSE /\ mem' = PO!MqClosed([mem EXCEPT !.got = Append(@, Head(PO!Here(p).q).id)], p)
                           /\ os' = [os EXCEPT !.obj[mem.obj[p]].q = Tail(@)]
        PROVE  MqParts'
    <2> DEFINE small == mem.msg[p].len < PO!Here(p).msgsize
               empty == PO!Here(p).q = <<>>
    <2>1. ~small
      <3>1. /\ mem.msg[p].len = os.obj[mem.obj[p]].msgsize
            /\ mem.obj[p] \in 1 .. MaxObjs
        BY <1>3, ToolsAssumption DEF MqParts, ToolInv, MqType, NamesInv
      <3>2. os.obj[mem.obj[p]].msgsize \in Nat
        BY <3>1 DEF MqParts, QueueInv
      <3> QED BY <3>1, <3>2 DEF PO!Here
    <2>2. PO!Move(p, "mq_receive", IF small THEN "too_small" ELSE "shell")
      BY <1>3
    <2>3. IF small \/ empty THEN mem' = PO!MqClosed(mem, p) /\ UNCHANGED os
          ELSE /\ mem' = PO!MqClosed([mem EXCEPT !.got = Append(@, Head(PO!Here(p).q).id)], p)
               /\ os' = [os EXCEPT !.obj[mem.obj[p]].q = Tail(@)]
      BY <1>3
    <2>4. ~empty => os.obj[mem.obj[p]].q # <<>>
      BY DEF PO!Here
    <2> HIDE DEF small, empty
    <2>5. at[p] # "shell" /\ at' = [at EXCEPT ![p] = "shell"]
      BY <2>1, <2>2 DEF PO!Move
    <2>6. CASE empty
      BY <2>3, <2>5, <2>6, MqEnd
    <2>7. CASE ~empty
      BY <1>3, <2>1, <2>3, <2>4, <2>5, <2>7, StepMqGot
    <2> QED BY <2>6, <2>7
  <1> QED BY <1>1, <1>2, <1>3 DEF PO!pmsg_receive

(* Every step of a pmsg tool. *)
LEMMA StepMq == ASSUME MqParts, NEW p \in Shells, PO!pmsg(p) PROVE MqParts'
  <1>1. PO!pmsg_unlink(p) => MqParts'
    BY MqSame DEF PO!pmsg_unlink, PO!Unlink
  <1>2. PO!pmsg_getattr(p) => MqParts'
    BY MqSame DEF PO!pmsg_getattr, PO!machine
  <1> QED BY <1>1, <1>2, StepMqCreate, StepMqSend, StepMqReceive DEF PO!pmsg

-----------------------------------------------------------------------------
(* Every step. *)
LEMMA StepObjects ==
    ASSUME ProgInv, SemInv, ShmInv, MqInv, [MCNext]_<<machine, vars>> PROVE SemInv' /\ ShmInv' /\ MqInv'
  <1>1. mem'.prog = mem.prog
    BY StepProg
  <1>2. ASSUME mem.prog \in {"psem", "pshm", "pmsg"}
        PROVE  \/ UNCHANGED machine
               \/ \E p \in Shells : \/ mem.prog = "psem" /\ PO!psem(p)
                                    \/ mem.prog = "pshm" /\ PO!pshm(p)
                                    \/ mem.prog = "pmsg" /\ PO!pmsg(p)
    BY <1>2 DEF MCNext, Runs, LK!Runs, PO!Runs, LK!Next, LK!LocksNext, LK!FlockNext, PO!Next,
       machine, PO!machine
  <1>3. mem.prog = "psem" => SemParts'
    BY <1>2, StepSem, SameSem DEF SemInv
  <1>4. mem.prog = "pshm" => ShmParts'
    BY <1>2, StepShm, ShmSame DEF ShmInv, machine
  <1>5. mem.prog = "pmsg" => MqParts'
    BY <1>2, StepMq, MqSame DEF MqInv, machine
  <1> QED BY <1>1, <1>3, <1>4, <1>5 DEF SemInv, ShmInv, MqInv

(* Cardinality is the same operator in both modules. *)
LEMMA CardObjects == \A S : PO!Cardinality(S) = Cardinality(S)
  BY Zenon DEF Cardinality, PO!Cardinality

(* psem_*.c, pshm_*.c and pmsg_*.c: no post is lost or counted twice, a    *)
(* reader that is alone prints the last string wholly, a receiver's buffer *)
(* fits its queue, and a message sent is received once or still queued.    *)
THEOREM ObjectsAlways == MCSpec => []ObjectsTrue
  <1> DEFINE Inv == ProgInv /\ SemInv /\ ShmInv /\ MqInv
  <1>1. MCInit => Inv
    BY InitProg, InitSem, InitShm, InitMq
  <1>2. Inv /\ [MCNext]_<<machine, vars>> => Inv'
    BY StepProg, StepObjects
  <1>3. Inv => ObjectsTrue
    <2> SUFFICES ASSUME Inv PROVE ObjectsTrue
      OBVIOUS
    <2>1. PO!SemConserved
      <3> SUFFICES ASSUME SemParts, NEW i \in 1 .. MaxObjs
                   PROVE  /\ os.obj[i].value \in 0 .. SemMax
                          /\ os.obj[i].net = os.obj[i].value +
                               PO!Cardinality({p \in Shells : at[p] = "said" /\ mem.obj[p] = i})
        BY DEF PO!SemConserved, PO!Objs, PO!Runs, SemInv
      <3>1. os.obj[i].value \in 0 .. SemMax /\ os.obj[i].net = os.obj[i].value + Cardinality(Said(i))
        BY DEF SemParts
      <3>2. PO!Cardinality({p \in Shells : at[p] = "said" /\ mem.obj[p] = i}) = Cardinality(Said(i))
        BY CardObjects DEF Said
      <3> QED BY <3>1, <3>2
    <2>2. PO!ReadWhole
      BY DEF PO!ReadWhole, PO!Runs, ShmInv, ShmParts, Reading
    <2>3. PO!ReceiveFits
      <3> SUFFICES ASSUME MqParts, mem.prog = "pmsg" PROVE PO!ReceiveFits
        BY DEF PO!ReceiveFits, PO!Runs, MqInv
      <3> DEFINE Ids(i) == {os.obj[i].q[k].id : k \in 1 .. Len(os.obj[i].q)}
      <3>1. ASSUME NEW i \in 1 .. MaxObjs, NEW x PROVE x \in Ids(i) <=> Queued(i, x)
        <4>1. CASE os.obj[i].q = <<>>
          BY <4>1 DEF Queued
        <4>2. ASSUME NEW m, os.obj[i].q = <<m>> PROVE x \in Ids(i) <=> Queued(i, x)
          <5>1. Len(os.obj[i].q) = 1 /\ os.obj[i].q # <<>>
            BY <4>2
          <5>2. Ids(i) = {os.obj[i].q[1].id}
            BY <5>1
          <5> QED BY <5>1, <5>2 DEF Queued
        <4> QED BY <4>1, <4>2 DEF MqParts, QueueInv
      <3>2. ASSUME NEW x
            PROVE  x \in mem.sent <=> \/ x \in {mem.got[i] : i \in 1 .. Len(mem.got)}
                                      \/ x \in UNION {Ids(i) : i \in 1 .. MaxObjs}
        <4>1. x \in mem.sent <=> (Received(x) \/ \E i \in 1 .. MaxObjs : Queued(i, x))
          BY DEF MqParts, SentInv
        <4>2. Received(x) <=> x \in {mem.got[i] : i \in 1 .. Len(mem.got)}
          BY DEF Received
        <4>3. (\E i \in 1 .. MaxObjs : Queued(i, x)) <=> x \in UNION {Ids(i) : i \in 1 .. MaxObjs}
          BY <3>1
        <4> QED BY <4>1, <4>2, <4>3
      <3>3. mem.sent = {mem.got[i] : i \in 1 .. Len(mem.got)} \cup UNION {Ids(i) : i \in 1 .. MaxObjs}
        BY <3>2
      <3>4. \A p \in Shells : at[p] # "too_small"
        BY DEF MqParts, MqType
      <3>5. \A i, j \in 1 .. Len(mem.got) : i # j => mem.got[i] # mem.got[j]
        BY DEF MqParts, SentInv
      <3> QED BY <3>3, <3>4, <3>5 DEF PO!ReceiveFits, PO!Objs
    <2> QED BY <2>1, <2>2, <2>3 DEF ObjectsTrue
  <1> QED BY <1>1, <1>2, <1>3, PTL DEF MCSpec
=============================================================================
