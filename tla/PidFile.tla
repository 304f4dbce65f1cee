------------------------------- MODULE PidFile -------------------------------
(***************************************************************************)
(* lib/create_pid_file.c and lib/region_locking.c: createPidFile() lets    *)
(* only one instance of a program run, by a write lock on its PID file.    *)
(* Several processes start, run, exec themselves again, exit and crash.    *)
(* An fcntl() lock belongs to a process and an inode; it goes away when    *)
(* the process ends or closes the file.  'deletes' says whether an         *)
(* instance deletes the file just before it terminates, as the comment of  *)
(* createPidFile() asks of its caller.                                     *)
(***************************************************************************)
EXTENDS Naturals, FiniteSets

CONSTANTS Procs,        \* the processes (PIDs) that run the program
          MaxInodes,    \* bound on the files created under the name
          MaxExecs      \* bound on the execs of one process

ASSUME ConstantsAssumption ==
    MaxInodes \in Nat \ {0} /\ MaxExecs \in Nat /\ "empty" \notin Procs

VARIABLES deletes, cloexec, \* how the program is written: CPF_CLOEXEC flag
          path,         \* the inode the name 'pidFile' refers to, 0 if none
          inodes,       \* inodes created so far
          content,      \* inode -> the PID in the file, or "empty"
          holder,       \* inode -> the processes that hold its write lock
          pc,           \* each process's position
          fd,           \* each process: the inodes it has open
          cur,          \* each process: the inode of the latest open()
          execs

vars == <<deletes, cloexec, path, inodes, content, holder, pc, fd, cur, execs>>
env == <<deletes, cloexec>>

Inodes == 1 .. MaxInodes
Started == {"open", "lock", "truncate", "write", "running", "unlinked"}

Init ==
    /\ deletes \in BOOLEAN
    /\ cloexec \in BOOLEAN
    /\ path = 0
    /\ inodes = 0
    /\ content = [i \in Inodes |-> "empty"]
    /\ holder = [i \in Inodes |-> {}]
    /\ pc = [p \in Procs |-> "new"]
    /\ fd = [p \in Procs |-> {}]
    /\ cur = [p \in Procs |-> 0]
    /\ execs = [p \in Procs |-> 0]

Start(p) ==
    /\ pc[p] = "new"
    /\ pc' = [pc EXCEPT ![p] = "open"]
    /\ UNCHANGED <<env, path, inodes, content, holder, fd, cur, execs>>

-----------------------------------------------------------------------------
(* createPidFile() *)

(* Mutant: open() with O_EXCL. *)
OpenExclusive(p) ==
    /\ pc[p] = "open"
    /\ inodes < MaxInodes \/ path # 0
    /\ IF path = 0
       THEN /\ inodes' = inodes + 1 /\ path' = inodes + 1
            /\ fd' = [fd EXCEPT ![p] = @ \cup {path'}]
            /\ cur' = [cur EXCEPT ![p] = path']
            /\ pc' = [pc EXCEPT ![p] = "lock"]
       ELSE /\ pc' = [pc EXCEPT ![p] = "refused"]
            /\ UNCHANGED <<inodes, path, fd, cur>>
    /\ UNCHANGED <<env, content, holder, execs>>

(* Mutant: open() with O_TRUNC, before the lock is held. *)
OpenTruncating(p) ==
    /\ pc[p] = "open"
    /\ inodes < MaxInodes \/ path # 0
    /\ inodes' = IF path = 0 THEN inodes + 1 ELSE inodes
    /\ path' = IF path = 0 THEN inodes + 1 ELSE path
    /\ fd' = [fd EXCEPT ![p] = @ \cup {path'}]
    /\ cur' = [cur EXCEPT ![p] = path']
    /\ pc' = [pc EXCEPT ![p] = "lock"]
    /\ content' = [content EXCEPT ![path'] = "empty"]
    /\ UNCHANGED <<env, holder, execs>>

(* open(pidFile, O_RDWR | O_CREAT), then FD_CLOEXEC if asked for. *)
Open(p) ==
    /\ pc[p] = "open"
    /\ inodes < MaxInodes \/ path # 0
    /\ inodes' = IF path = 0 THEN inodes + 1 ELSE inodes
    /\ path' = IF path = 0 THEN inodes + 1 ELSE path
    /\ fd' = [fd EXCEPT ![p] = @ \cup {path'}]
    /\ cur' = [cur EXCEPT ![p] = path']
    /\ pc' = [pc EXCEPT ![p] = "lock"]
    /\ UNCHANGED <<env, content, holder, execs>>

(* Mutant: the result of lockRegion() is not looked at. *)
LockUnchecked(p) ==
    /\ pc[p] = "lock"
    /\ pc' = [pc EXCEPT ![p] = "truncate"]
    /\ holder' = [holder EXCEPT ![cur[p]] = IF @ = {} THEN {p} ELSE @]
    /\ UNCHANGED <<env, path, inodes, content, fd, cur, execs>>

(* lockRegion(fd, F_WRLCK, SEEK_SET, 0, 0): F_SETLK on the whole file.     *)
(* Refused by another process's lock: fatal(), which closes its files.     *)
Lock(p) ==
    /\ pc[p] = "lock"
    /\ IF holder[cur[p]] \subseteq {p}
       THEN /\ holder' = [holder EXCEPT ![cur[p]] = {p}]
            /\ pc' = [pc EXCEPT ![p] = "truncate"]
            /\ UNCHANGED fd
       ELSE /\ pc' = [pc EXCEPT ![p] = "refused"]
            /\ fd' = [fd EXCEPT ![p] = {}]
            /\ holder' = [i \in Inodes |-> holder[i] \ {p}]
    /\ UNCHANGED <<env, path, inodes, content, cur, execs>>

Truncate(p) ==
    /\ pc[p] = "truncate"
    /\ content' = [content EXCEPT ![cur[p]] = "empty"]
    /\ pc' = [pc EXCEPT ![p] = "write"]
    /\ UNCHANGED <<env, path, inodes, holder, fd, cur, execs>>

WritePid(p) ==
    /\ pc[p] = "write"
    /\ content' = [content EXCEPT ![cur[p]] = p]
    /\ pc' = [pc EXCEPT ![p] = "running"]
    /\ UNCHANGED <<env, path, inodes, holder, fd, cur, execs>>

createPidFile(p) == Open(p) \/ Lock(p) \/ Truncate(p) \/ WritePid(p)

-----------------------------------------------------------------------------
(* The caller, and the end of a process *)

(* The daemon execs itself (a reload): CPF_CLOEXEC closes the file, and    *)
(* closing it drops the lock.                                              *)
Exec(p) ==
    /\ pc[p] = "running"
    /\ execs[p] < MaxExecs
    /\ execs' = [execs EXCEPT ![p] = @ + 1]
    /\ pc' = [pc EXCEPT ![p] = "open"]
    /\ IF cloexec
       THEN /\ fd' = [fd EXCEPT ![p] = {}]
            /\ holder' = [i \in Inodes |-> holder[i] \ {p}]
       ELSE UNCHANGED <<fd, holder>>
    /\ UNCHANGED <<env, path, inodes, content, cur>>

Unlink(p) ==
    /\ deletes
    /\ pc[p] = "running"
    /\ path' = 0
    /\ pc' = [pc EXCEPT ![p] = "unlinked"]
    /\ UNCHANGED <<env, inodes, content, holder, fd, cur, execs>>

(* exit() after the deletion, a call of createPidFile() that fails, or a   *)
(* crash at any point.                                                     *)
Exit(p) ==
    /\ pc[p] \in Started
    /\ pc' = [pc EXCEPT ![p] = "dead"]
    /\ fd' = [fd EXCEPT ![p] = {}]
    /\ holder' = [i \in Inodes |-> holder[i] \ {p}]
    /\ UNCHANGED <<env, path, inodes, content, cur, execs>>

Done == (\A p \in Procs : pc[p] \in {"refused", "dead"}) /\ UNCHANGED vars

Next ==
    \/ \E p \in Procs : \/ Start(p) \/ createPidFile(p) \/ Exec(p) \/ Unlink(p)
                        \/ Exit(p)
    \/ Done

Spec == Init /\ [][Next]_vars

-----------------------------------------------------------------------------
(* The instances that run the program proper. *)
Instances == {p \in Procs : pc[p] = "running"}

TypeOK ==
    /\ deletes \in BOOLEAN /\ cloexec \in BOOLEAN
    /\ path \in 0 .. MaxInodes /\ inodes \in 0 .. MaxInodes
    /\ content \in [Inodes -> Procs \cup {"empty"}]
    /\ holder \in [Inodes -> SUBSET Procs]
    /\ \A i \in Inodes : Cardinality(holder[i]) <= 1
    /\ pc \in [Procs -> Started \cup {"new", "refused", "dead"}]
    /\ fd \in [Procs -> SUBSET Inodes]
    /\ cur \in [Procs -> 0 .. MaxInodes]
    /\ execs \in [Procs -> 0 .. MaxExecs]

(* create_pid_file.c:15, "to ensure that only one instance of the program  *)
(* is running".                                                            *)
OnlyOneInstance == Cardinality(Instances) <= 1

(* That holds, through crashes and execs, when nobody deletes the file.    *)
OneInstanceIfKept == ~deletes => OnlyOneInstance

(* While an instance runs and the file is kept, the file holds its PID: a  *)
(* process that is refused has not damaged the file.                       *)
FileNamesInstance ==
    ~deletes => \A p \in Instances : path # 0 /\ content[path] = p

(* A process is refused only because another live process holds the lock:  *)
(* a file left by a crash does not keep the program from starting.         *)
RefusedOnlyByLive ==
    [][\A p \in Procs : pc[p] # "refused" /\ pc'[p] = "refused" =>
          \E q \in Procs \ {p} : /\ pc[q] \in Started /\ cur[p] \in fd[q]
                                 /\ q \in holder[cur[p]]]_vars
=============================================================================
