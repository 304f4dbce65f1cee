-------------------------------- MODULE Locks --------------------------------
(***************************************************************************)
(* File locks: 55-filelock/i_fcntl_locking.c, whose user types locking     *)
(* commands, lib/region_locking.c, whose functions other programs call,    *)
(* and 55-filelock/t_flock.c.                                              *)
(*                                                                         *)
(* All processes work on one file, which a process may have named twice on *)
(* its command line.  A traditional lock belongs to the process, whatever  *)
(* descriptor it was asked for on; an OFD lock belongs to the open file    *)
(* description, so that a process can lock itself out.                     *)
(***************************************************************************)
EXTENDS Machine, Integers, FiniteSets

CONSTANTS LockUsers,    \* processes that run i_fcntl_locking
          LibUsers,     \* processes that call the functions of region_locking.c
          Flockers,     \* processes that run t_flock
          MaxLocks      \* bound on the bytes locked at a time, each owner's counted

Size == 2               \* bytes of the file

LockProcs == LockUsers \cup LibUsers

(* fdList: the file numbers a process may type, here all of the same file. *)
Files(p) == IF p \in LibUsers THEN {1} ELSE 1 .. mem.argc - 1

(* An owner of locks: the process itself, or one of its descriptions. *)
Owner(p, cmd, file) == IF cmd \in {"G", "S", "W"} THEN <<p, file>> ELSE <<p, 0>>

(* l_whence, l_start and l_len as typed, and the bytes they stand for: the *)
(* file offset stays 0, length 0 reaches to the end of the file, a negative *)
(* length names the bytes before the start.  A start before byte 0 is      *)
(* EINVAL, shown here as no bytes at all.                                  *)
Forms == {<<"s", 0, 0>>, <<"e", 0, -1>>, <<"c", -1, 2>>}

Range(form) ==
    LET start == form[2] + (IF form[1] = "e" THEN Size ELSE 0)
        len   == form[3]
        first == IF len < 0 THEN start + len ELSE start
        end   == IF len = 0 THEN Size ELSE IF len < 0 THEN start ELSE start + len
    IN  IF first < 0 THEN {} ELSE first .. end - 1

-----------------------------------------------------------------------------
(* The kernel's record locks: triples of owner, type and byte. *)

Conflicting(locks, o, type, range) ==
    {l \in locks : l[1] # o /\ l[3] \in range /\ type # "u" /\ "w" \in {type, l[2]}}

Blockers(locks, w) == {l[1] : l \in Conflicting(locks, w.owner, w.type, w.range)}

(* The owner's own locks on the range are replaced: split, converted or    *)
(* merged.                                                                 *)
Replaced(locks, o, type, range) ==
    {l \in locks : l[1] # o \/ l[3] \notin range}
        \cup (IF type = "u" THEN {} ELSE {<<o, type, b>> : b \in range})

NotWaiting == [owner |-> <<"none", 0>>, type |-> "u", range |-> {}, cmd |-> "w",
               blocker |-> <<"none", 0>>]

Room(o, type, range) == Cardinality(Replaced(os.locks, o, type, range)) <= MaxLocks

(* New locks wake the processes that waited for one that is gone. *)
SetLocks(locks, wait) ==
    os' = [os EXCEPT !.locks = locks,
             !.wait = [p \in LockProcs |->
                 IF wait[p].blocker \in Blockers(locks, wait[p]) THEN wait[p]
                 ELSE [wait[p] EXCEPT !.blocker = NotWaiting.blocker]]]

(* The kernel follows the one lock each waiter is queued on, through       *)
(* traditional owners only: o would wait for itself if every set of        *)
(* processes that contains the blocker, and with a waiter the one it waits *)
(* for, contains o.  (It gives up after ten waiters, more than there are   *)
(* processes here.)                                                        *)
Followed(S) ==
    \A q \in S, r \in LockProcs :
        os.wait[q].owner = <<q, 0>> /\ os.wait[q].blocker = <<r, 0>> => r \in S
DeadlockCheck(o, blocker) ==
    /\ o[2] = 0 /\ blocker[2] = 0
    /\ \A S \in SUBSET LockProcs : Followed(S) /\ blocker[1] \in S => o[1] \in S

(* What the user has been told it holds: the answers, read with the        *)
(* commands they answer.                                                   *)
Tell(o, type, range) == mem' = [mem EXCEPT !.told = Replaced(@, o, type, range)]

(* F_SETLK, and F_OFD_SETLK: done, or EAGAIN or EINVAL, and the answer is  *)
(* printed.                                                                *)
Setlk(p, o, type, range) ==
    /\ at[p] = "prompt" /\ Room(o, type, range)
    /\ UNCHANGED at
    /\ IF Conflicting(os.locks, o, type, range) = {} /\ range # {}
       THEN /\ SetLocks(Replaced(os.locks, o, type, range), os.wait)
            /\ Tell(o, type, range)
       ELSE UNCHANGED <<os, mem>>

(* F_SETLKW, first tried or tried again: done, EDEADLK, or queued on one   *)
(* of the locks in its way.                                                *)
TryOrWait(p, cmd, o, type, range) ==
    IF Conflicting(os.locks, o, type, range) = {}
    THEN /\ SetLocks(Replaced(os.locks, o, type, range), [os.wait EXCEPT ![p] = NotWaiting])
         /\ Tell(o, type, range)
         /\ at' = [at EXCEPT ![p] = "prompt"]
    ELSE \E b \in Blockers(os.locks, [owner |-> o, type |-> type, range |-> range]) :
           IF DeadlockCheck(o, b)
           THEN /\ at' = [at EXCEPT ![p] = "prompt"]
                /\ os' = [os EXCEPT !.wait[p] = NotWaiting]
                /\ UNCHANGED mem
           ELSE /\ at' = [at EXCEPT ![p] = "wait"]
                /\ os' = [os EXCEPT !.wait[p] =
                            [owner |-> o, type |-> type, range |-> range, cmd |-> cmd,
                             blocker |-> b]]
                /\ UNCHANGED mem

Setlkw(p, cmd, o, type, range) ==
    /\ at[p] = "prompt" /\ Room(o, type, range)
    /\ IF range = {} THEN UNCHANGED machine ELSE TryOrWait(p, cmd, o, type, range)

(* The lock waited for is gone. *)
Woken(p) ==
    /\ at[p] = "wait" /\ os.wait[p].blocker = NotWaiting.blocker
    /\ Room(os.wait[p].owner, os.wait[p].type, os.wait[p].range)
    /\ TryOrWait(p, os.wait[p].cmd, os.wait[p].owner, os.wait[p].type, os.wait[p].range)

-----------------------------------------------------------------------------
(* i_fcntl_locking *)

(* Mutant: 'w' is taken for the OFD command. *)
CommandMixed(p, file, cmd, type, range) ==
    \/ cmd \in {"s", "S"} /\ Setlk(p, Owner(p, cmd, file), type, range)
    \/ cmd \in {"w", "W"} /\ Setlkw(p, cmd, Owner(p, "W", file), type, range)

(* A command is parsed and carried out.  'g' and 'G' only report: who      *)
(* would be in the way, or that the lock can be placed.                    *)
Command(p, file, cmd, type, range) ==
    \/ cmd \in {"s", "S"} /\ Setlk(p, Owner(p, cmd, file), type, range)
    \/ cmd \in {"w", "W"} /\ Setlkw(p, cmd, Owner(p, cmd, file), type, range)

(* A blank line, '?', a file number out of range, an invalid command, or   *)
(* one of the two that only ask.                                           *)
Report(p) == at[p] = "prompt" /\ UNCHANGED machine

(* End of file on standard input, or a signal while it waits: the files    *)
(* are closed and all locks go, of either kind.                            *)
Quit(p) ==
    /\ at[p] \in {"prompt", "wait"}
    /\ at' = [at EXCEPT ![p] = "exit"]
    /\ SetLocks({l \in os.locks : l[1][1] # p}, [os.wait EXCEPT ![p] = NotWaiting])
    /\ mem' = [mem EXCEPT !.told = {l \in @ : l[1][1] # p}]

i_fcntl_locking(p) ==
    \/ \E file \in Files(p), cmd \in {"s", "w", "S", "W"}, type \in {"r", "w", "u"},
          form \in Forms : Command(p, file, cmd, type, Range(form))
    \/ Report(p)

(* region_locking.c: traditional locks only. *)
lockRegion(p, type, form) == Setlk(p, <<p, 0>>, type, Range(form))
lockRegionWait(p, type, form) == Setlkw(p, "w", <<p, 0>>, type, Range(form))

(* The PID of the process in the way, 0 if there is none, -1 for an error; *)
(* the PID the kernel gives for an OFD lock is -1 too.  Nothing changes.   *)
regionIsLocked(p) == Report(p)

RegionCall(p) ==
    \E type \in {"r", "w", "u"}, form \in Forms :
        lockRegion(p, type, form) \/ lockRegionWait(p, type, form) \/ regionIsLocked(p)

(* Either the users name the file twice, or they share it with a program   *)
(* that uses region_locking.c.                                             *)
LocksInit ==
    /\ \E argc \in {2, 3} :
          /\ mem = [prog |-> "locks", argc |-> argc, told |-> {}]
          /\ at = [p \in LockProcs |-> IF argc = 3 /\ p \in LibUsers THEN "exit" ELSE "prompt"]
    /\ os = [locks |-> {}, wait |-> [p \in LockProcs |-> NotWaiting]]

LocksNext ==
    /\ Runs("locks")
    /\ \/ \E p \in LockUsers : i_fcntl_locking(p)
       \/ \E p \in LibUsers : RegionCall(p)
       \/ \E p \in LockProcs : Woken(p) \/ Quit(p)
       \/ (\A p \in LockProcs : at[p] = "exit") /\ UNCHANGED machine

-----------------------------------------------------------------------------
(* t_flock: lock is a shared or an exclusive lock, nb asks not to wait.    *)

FlockInit ==
    /\ \E lock \in [Flockers -> {"LOCK_SH", "LOCK_EX"}], nb \in [Flockers -> BOOLEAN] :
          mem = [prog |-> "t_flock", lock |-> lock, nb |-> nb]
    /\ at = [p \in Flockers |-> "flock"]
    /\ os = [holders |-> {}]

Incompatible(p) ==
    {q \in os.holders \ {p} : "LOCK_EX" \in {mem.lock[p], mem.lock[q]}}

(* open() and flock(fd, lock): EWOULDBLOCK is fatal. *)
Flock(p) ==
    /\ IF Incompatible(p) = {}
       THEN Move(p, "flock", "sleep") /\ os' = [os EXCEPT !.holders = @ \cup {p}]
       ELSE mem.nb[p] /\ Move(p, "flock", "fatal") /\ UNCHANGED os
    /\ UNCHANGED mem

(* Mutant: neither LOCK_UN nor close() releases the lock. *)
ReleaseKeeps(p) == Move(p, "sleep", "exit") /\ UNCHANGED <<mem, os>>

(* sleep() is over, or a signal ends the process: the lock is released, by *)
(* LOCK_UN or by closing the file.                                         *)
Release(p) ==
    /\ Move(p, "sleep", "exit")
    /\ os' = [os EXCEPT !.holders = @ \ {p}]
    /\ UNCHANGED mem

FlockNext ==
    /\ Runs("t_flock")
    /\ \/ \E p \in Flockers : Flock(p) \/ Release(p)
       \/ (\A p \in Flockers : at[p] \in {"exit", "fatal"}) /\ UNCHANGED machine

-----------------------------------------------------------------------------
Init == LocksInit \/ FlockInit
Next == LocksNext \/ FlockNext

(* A sleep ends, and the kernel grants a lock that is free.  Nobody makes  *)
(* a user type.                                                            *)
Fairness == WF_machine(FlockNext)

-----------------------------------------------------------------------------
(* The users were told the truth: put together from the answers to all     *)
(* their commands, splits, conversions and waits included, what they       *)
(* believe to hold is what is held, and no byte is write-locked by one     *)
(* owner and locked by another, traditional and OFD locks taken together.  *)
LocksAsTold ==
    Runs("locks") =>
        /\ mem.told = os.locks
        /\ \A l, m \in mem.told : l[3] = m[3] /\ l[1] # m[1] => l[2] = "r" /\ m[2] = "r"

(* Processes that typed 'w' never wait for each other's traditional locks  *)
(* in a ring: the one that would close it is told so (EDEADLK), at once or *)
(* when it is woken.  The kernel does not look at OFD locks: 'W' can close *)
(* a ring, and a process that locks a byte with 'S' and then with 'w'      *)
(* waits for itself.                                                       *)
Stuck(p) == at[p] = "wait" /\ os.wait[p].blocker # NotWaiting.blocker
NoRing ==
    Runs("locks") =>
        \A S \in SUBSET {p \in LockProcs : Stuck(p) /\ os.wait[p].cmd = "w"} :
            S # {} => \E p \in S : os.wait[p].blocker \notin {<<q, 0>> : q \in S}

(* An exclusive flock() lock has one holder; and who was refused or waits  *)
(* is kept out by somebody's lock, never by a lock of a process that left. *)
FlockExclusive ==
    Runs("t_flock") =>
        /\ \A p, q \in Flockers : p # q /\ at[p] = "sleep" /\ at[q] = "sleep" =>
               mem.lock[p] = "LOCK_SH" /\ mem.lock[q] = "LOCK_SH"
        /\ os.holders = {p \in Flockers : at[p] = "sleep"}

(* Every t_flock ends, also one that waits for the others. *)
FlockEnds ==
    Runs("t_flock") ~> (Runs("t_flock") /\ \A p \in Flockers : at[p] \in {"exit", "fatal"})
=============================================================================
