----------------------------- MODULE ThreadIncr -----------------------------
(***************************************************************************)
(* Two threads increment the global 'glob' 'loops' times each, as a load,  *)
(* an increment of the local copy 'loc' and a store:                       *)
(*   "none"   30-thread-sync/thread_incr.c          nothing guards the loop*)
(*   "mutex"  30-thread-sync/thread_incr_mutex.c    pthread_mutex_t        *)
(*   "sem"    53-posix-semaphore/thread_incr_psem.c a semaphore of value 1 *)
(*   "spin"   30-experimental/thread_incr_spinlock.c pthread_spinlock_t    *)
(* The variable prog says which of the four programs is running; 'permits' *)
(* is its lock: 1 when it is free (for "sem", the semaphore's value).      *)
(* pthread_mutex_lock() on a statically initialised mutex, sem_wait() in a *)
(* program without signal handlers and pthread_spin_lock() do not fail;    *)
(* pthread_create() may, and then errExitEN() ends the process.            *)
(***************************************************************************)
EXTENDS CInt

VARIABLES prog,         \* the program being run
          loops,        \* its argument, getInt(argv[1], GN_GT_0)
          glob,         \* the shared counter
          permits,      \* 1 when the lock is free
          pc, loc, j,   \* per thread: position in threadFunc() and its locals
          main,         \* position of main()
          printed       \* the values main() printed as "glob = %d"

vars == <<prog, loops, glob, permits, pc, loc, j, main, printed>>

Threads == {"t1", "t2"}
Progs   == {"none", "mutex", "sem", "spin"}

Init ==
    /\ prog \in Progs
    /\ loops \in 1 .. IntMax
    /\ glob = 0
    /\ permits = 1
    /\ pc = [t \in Threads |-> "new"]
    /\ loc = [t \in Threads |-> 0]
    /\ j = [t \in Threads |-> 0]
    /\ main = "create1"
    /\ printed = {}

-----------------------------------------------------------------------------
(* threadFunc() *)

Running(t, label) == main # "exit" /\ pc[t] = label

InLoop(t) == Running(t, "loop") /\ j[t] < loops

(* thread_incr.c goes straight to the load. *)
NoLock(t) ==
    /\ InLoop(t)
    /\ pc' = [pc EXCEPT ![t] = "load"]
    /\ UNCHANGED <<prog, loops, glob, permits, loc, j, main, printed>>

(* The three locks all wait until the lock is free and take it. *)
Take(t) ==
    /\ InLoop(t)
    /\ permits > 0
    /\ permits' = permits - 1
    /\ pc' = [pc EXCEPT ![t] = "load"]
    /\ UNCHANGED <<prog, loops, glob, loc, j, main, printed>>

MutexLock(t) == Take(t)
SemWait(t)   == Take(t)
SpinLock(t)  == Take(t)

(* Mutant: glob is not volatile; from the second iteration on 'loc' stays  *)
(* in its register instead of being loaded again.                          *)
LoadCached(t) ==
    /\ Running(t, "load")
    /\ loc' = [loc EXCEPT ![t] = IF j[t] = 0 THEN glob ELSE @]
    /\ pc' = [pc EXCEPT ![t] = "store"]
    /\ UNCHANGED <<prog, loops, glob, permits, j, main, printed>>

Load(t) ==
    /\ Running(t, "load")
    /\ loc' = [loc EXCEPT ![t] = glob]
    /\ pc' = [pc EXCEPT ![t] = "store"]
    /\ UNCHANGED <<prog, loops, glob, permits, j, main, printed>>

(* Mutant: glob = loc++ stores the value before the increment. *)
StoreOld(t) ==
    /\ Running(t, "store")
    /\ loc' = [loc EXCEPT ![t] = Incr(loc[t])]
    /\ glob' = loc[t]
    /\ pc' = [pc EXCEPT ![t] = "unlock"]
    /\ UNCHANGED <<prog, loops, permits, j, main, printed>>

Store(t) ==
    /\ Running(t, "store")
    /\ loc' = [loc EXCEPT ![t] = Incr(loc[t])]
    /\ glob' = Incr(loc[t])
    /\ pc' = [pc EXCEPT ![t] = "unlock"]
    /\ UNCHANGED <<prog, loops, permits, j, main, printed>>

(* Unlock (sem_post, pthread_spin_unlock), then the loop's j++. *)
Unlock(t) ==
    /\ Running(t, "unlock")
    /\ permits' = IF prog = "none" THEN permits ELSE permits + 1
    /\ j' = [j EXCEPT ![t] = @ + 1]
    /\ pc' = [pc EXCEPT ![t] = "loop"]
    /\ UNCHANGED <<prog, loops, glob, loc, main, printed>>

Return(t) ==
    /\ Running(t, "loop")
    /\ j[t] >= loops
    /\ pc' = [pc EXCEPT ![t] = "done"]
    /\ UNCHANGED <<prog, loops, glob, permits, loc, j, main, printed>>

(* The body all four threadFunc()s share. *)
LoopBody(t) == Load(t) \/ Store(t) \/ Unlock(t) \/ Return(t)

threadFunc_none(t)  == prog = "none"  /\ (NoLock(t) \/ LoopBody(t))
threadFunc_mutex(t) == prog = "mutex" /\ (MutexLock(t) \/ LoopBody(t))
threadFunc_psem(t)  == prog = "sem"   /\ (SemWait(t) \/ LoopBody(t))
threadFunc_spin(t)  == prog = "spin"  /\ (SpinLock(t) \/ LoopBody(t))

threadFunc(t) ==
    \/ threadFunc_none(t) \/ threadFunc_mutex(t)
    \/ threadFunc_psem(t) \/ threadFunc_spin(t)

-----------------------------------------------------------------------------
(* main() *)

Create(t, next) ==
    /\ \/ /\ main' = next
          /\ pc' = [pc EXCEPT ![t] = "loop"]
       \/ main' = "exit" /\ pc' = pc             \* errExitEN()
    /\ UNCHANGED <<prog, loops, glob, permits, loc, j, printed>>

CreateFirst  == main = "create1" /\ Create("t1", "create2")
CreateSecond == main = "create2" /\ Create("t2", "join1")

Join(t, next) ==
    /\ pc[t] = "done"
    /\ main' = next
    /\ UNCHANGED <<prog, loops, glob, permits, pc, loc, j, printed>>

JoinFirst  == main = "join1" /\ Join("t1", "join2")
JoinSecond == main = "join2" /\ Join("t2", "print")

PrintGlob ==
    /\ main = "print"
    /\ printed' = {glob}
    /\ main' = "exit"
    /\ UNCHANGED <<prog, loops, glob, permits, pc, loc, j>>

(* The four main()s differ in how the lock is made, which is in Init. *)
MainBody ==
    \/ CreateFirst \/ CreateSecond \/ JoinFirst \/ JoinSecond \/ PrintGlob

main_none  == prog = "none"  /\ MainBody
main_mutex == prog = "mutex" /\ MainBody
main_psem  == prog = "sem"   /\ MainBody
main_spin  == prog = "spin"  /\ MainBody

MainStep == main_none \/ main_mutex \/ main_psem \/ main_spin

Exited == main = "exit" /\ UNCHANGED vars

Next == MainStep \/ (\E t \in Threads : threadFunc(t)) \/ Exited

(* The kernel schedules every runnable thread. *)
Fairness == WF_vars(MainStep) /\ \A t \in Threads : WF_vars(threadFunc(t))

Spec == Init /\ [][Next]_vars /\ Fairness

-----------------------------------------------------------------------------
TypeOK ==
    /\ prog \in Progs
    /\ loops \in 1 .. IntMax
    /\ glob \in (-IntMax - 1) .. IntMax
    /\ permits \in 0 .. 1
    /\ pc \in [Threads -> {"new", "loop", "load", "store", "unlock", "done"}]
    /\ loc \in [Threads -> (-IntMax - 1) .. IntMax]
    /\ j \in [Threads -> 0 .. loops]
    /\ main \in {"create1", "create2", "join1", "join2", "print", "exit"}
    /\ printed \in {{}, {glob}}

(* The int that n increments of a zero leave: at most one wrap, because    *)
(* n <= 2 * IntMax.                                                        *)
Signed(n) == IF n <= IntMax THEN n ELSE n - 2 * IntMax - 2

(* With any of the three locks no increment is lost: what main() prints is *)
(* 2 * loops, wrapped to an int when the sum exceeds INT_MAX.              *)
FinalCount ==
    prog # "none" /\ printed # {} => printed = {Signed(2 * loops)}

(* Without a lock increments are lost, but never so many that the total    *)
(* falls below 2 (1 when loops is 1): the thread that stores last has      *)
(* loaded a value the other thread or itself had already advanced.         *)
LostUpdateBound ==
    prog = "none" /\ printed # {} /\ 2 * loops <= IntMax
        => \A n \in printed : (IF loops = 1 THEN 1 ELSE 2) <= n /\ n <= 2 * loops

(* Every program ends: no thread waits for ever on a lock or a join.       *)
Termination == <>(main = "exit")
=============================================================================
