-------------------------- MODULE MCThreads_proofs --------------------------
(***************************************************************************)
(* The programs of MCThreads for every number of threads, every number of  *)
(* loops and every INT_MAX: thread_multijoin.c (its counters, the join     *)
(* under the mutex, no lost wakeup), the thread_incr programs (no lost     *)
(* update with a lock, at most so many without one), and the threads of    *)
(* ThreadData (what a cancelled one leaves, whose message is printed).     *)
(***************************************************************************)
EXTENDS MCThreads, FiniteSetTheorems, TLAPS

-----------------------------------------------------------------------------
(* thread_multijoin.c *)

Critical == {"count", "mark", "unlock"}
Holding  == {"check", "scan"}

Dead == {i \in Threads : state[i] = "TERMINATED"}
Unjoined == {i \in Threads : state[i] # "JOINED"}

(* The mutex is held exactly by the thread inside its critical section. *)
MutexInv ==
    /\ \A i \in Threads : tpc[i] \in Critical => threadMutex = i
    /\ mpc \in Holding => threadMutex = Main

(* A thread's state says how far it has come: it is marked under the mutex *)
(* and joined only after it returned.                                      *)
StateInv ==
    \A i \in Threads :
        /\ state[i] = "ALIVE" <=> tpc[i] \in {"new", "sleep", "lock", "count", "mark"}
        /\ state[i] = "JOINED" => tpc[i] = "done"

(* numUnjoined is one ahead of the marks between numUnjoined++ and the     *)
(* mark.                                                                   *)
CountInv ==
    /\ numUnjoined = Cardinality(Dead)
                     + (IF \E i \in Threads : tpc[i] = "mark" THEN 1 ELSE 0)
    /\ numLive = Cardinality(Unjoined)

BasicType ==
    /\ state \in [Threads -> {"ALIVE", "TERMINATED", "JOINED"}]
    /\ tpc \in [Threads -> {"new", "sleep", "lock", "count", "mark", "unlock",
                            "signal", "done"}]
    /\ numLive \in Int
    /\ numUnjoined \in Int
    /\ threadMutex \in 0 .. N + 1
    /\ mpc \in {"create", "test", "lock", "check", "wait", "relock", "scan",
                "exit", "failed"}
    /\ idx \in 0 .. N

(* Threads are created in order. *)
CreateInv == mpc = "create" => \A i \in Threads : i >= idx => tpc[i] = "new"

ControlInv == BasicType /\ MutexInv /\ StateInv /\ CreateInv /\ NoLostWakeup

IInv == ControlInv /\ CountInv

-----------------------------------------------------------------------------
(* The threads can be counted. *)
LEMMA ThreadsFinite ==
    /\ IsFiniteSet(Threads)
    /\ Cardinality(Threads) = N
  <1>1. N - 1 \in Int /\ 0 \in Int /\ 0 <= N
    BY NAssumption
  <1>2. IsFiniteSet(0 .. N - 1) /\ Cardinality(0 .. N - 1) = IF 0 > N - 1 THEN 0 ELSE (N - 1) - 0 + 1
    BY <1>1, FS_Interval
  <1> QED BY <1>2, NAssumption DEF Threads

(* So can any of them. *)
LEMMA SubsetFinite ==
    ASSUME NEW S, S \subseteq Threads
    PROVE  IsFiniteSet(S) /\ Cardinality(S) \in 0 .. N
  <1>1. IsFiniteSet(S) /\ Cardinality(S) <= N
    BY ThreadsFinite, FS_Subset
  <1>2. Cardinality(S) \in Nat
    BY <1>1, FS_CardinalityType
  <1> QED BY <1>1, <1>2, NAssumption

(* The initial states. *)
LEMMA InitIInv == Init => IInv
  <1> SUFFICES ASSUME Init PROVE IInv
    OBVIOUS
  <1> USE NAssumption DEF Init, Threads
  <1>1. ControlInv
    BY DEF ControlInv, BasicType, MutexInv, StateInv, CreateInv, NoLostWakeup,
           Critical, Holding, Main, Free
  <1>2. Dead = {} /\ Unjoined = Threads /\ \A i \in Threads : tpc[i] # "mark"
    BY DEF Dead, Unjoined
  <1>3. Cardinality({}) = 0
    BY FS_EmptySet
  <1>4. CountInv
    BY <1>2, <1>3, ThreadsFinite DEF CountInv
  <1> QED BY <1>1, <1>4 DEF IInv

(* The control part is inductive on its own. *)
LEMMA StepControl == ControlInv /\ [Next]_vars => ControlInv'
  <1> SUFFICES ASSUME ControlInv, [Next]_vars PROVE ControlInv'
    OBVIOUS
  <1> USE NAssumption DEF ControlInv, BasicType, MutexInv, StateInv, CreateInv,
          NoLostWakeup, Critical, Holding, Main, Free, Threads
  <1>1. ASSUME NEW i \in Threads, Wake(i) PROVE ControlInv'
    BY <1>1 DEF Wake, Step, Exited
  <1>2. ASSUME NEW i \in Threads, Lock(i) PROVE ControlInv'
    BY <1>2 DEF Lock, Step, Exited
  <1>3. ASSUME NEW i \in Threads, Count(i) PROVE ControlInv'
    BY <1>3 DEF Count, Step, Exited
  <1>4. ASSUME NEW i \in Threads, Mark(i) PROVE ControlInv'
    BY <1>4 DEF Mark, Step, Exited
  <1>5. ASSUME NEW i \in Threads, Unlock(i) PROVE ControlInv'
    BY <1>5 DEF Unlock, Step, Exited
  <1>6. ASSUME NEW i \in Threads, Signal(i) PROVE ControlInv'
    BY <1>6 DEF Signal, Step, Exited
  <1>7. CASE Create
    BY <1>7 DEF Create
  <1>8. CASE TestLive \/ SpuriousWakeup
    BY <1>8 DEF TestLive, SpuriousWakeup
  <1>9. CASE MainLock
    BY <1>9 DEF MainLock
  <1>10. CASE Check
    BY <1>10 DEF Check
  <1>11. CASE Skip \/ MainUnlock
    BY <1>11 DEF Skip, MainUnlock
  <1>12. CASE Join
    BY <1>12 DEF Join
  <1>13. CASE UNCHANGED vars
    BY <1>13 DEF vars
  <1> QED
    BY <1>1, <1>2, <1>3, <1>4, <1>5, <1>6, <1>7, <1>8, <1>9, <1>10, <1>11,
       <1>12, <1>13
    DEF Next, MainStep, threadFunc, Terminated

(* Only Count, Mark and Join touch the counters or the states. *)
LEMMA StepCount == IInv /\ [Next]_vars => CountInv'
  <1> SUFFICES ASSUME IInv, [Next]_vars PROVE CountInv'
    OBVIOUS
  <1> USE DEF IInv, ControlInv, BasicType
  <1>1. /\ IsFiniteSet(Dead) /\ Cardinality(Dead) \in Nat
        /\ IsFiniteSet(Unjoined) /\ Cardinality(Unjoined) \in Nat
    BY SubsetFinite, NAssumption DEF Dead, Unjoined
  <1>2. ASSUME UNCHANGED <<state, numLive, numUnjoined>>,
               \A i \in Threads : tpc'[i] = "mark" <=> tpc[i] = "mark"
        PROVE  CountInv'
    BY <1>2 DEF CountInv, Dead, Unjoined
  <1>3. ASSUME NEW i \in Threads, Count(i) PROVE CountInv'
    <2>1. \A k \in Threads : tpc[k] # "mark"
      BY <1>3 DEF Count, Step, MutexInv, Critical
    <2>2. tpc'[i] = "mark"
      BY <1>3 DEF Count, Step
    <2> QED BY <1>1, <1>3, <2>1, <2>2 DEF Count, CountInv, Dead, Unjoined
  <1>4. ASSUME NEW i \in Threads, Mark(i) PROVE CountInv'
    <2>1. \A k \in Threads : tpc'[k] # "mark"
      BY <1>4 DEF Mark, Step, MutexInv, Critical
    <2>2. i \notin Dead /\ Dead' = Dead \cup {i} /\ Unjoined' = Unjoined
      BY <1>4 DEF Mark, Step, StateInv, Dead, Unjoined
    <2>3. Cardinality(Dead') = Cardinality(Dead) + 1
      BY <1>1, <2>2, FS_AddElement
    <2> QED BY <1>1, <1>4, <2>1, <2>2, <2>3 DEF Mark, Step, CountInv
  <1>5. CASE Join
    <2>1. \A k \in Threads : tpc[k] # "mark" /\ tpc'[k] # "mark"
      BY <1>5, NAssumption DEF Join, MutexInv, Critical, Holding, Main, Threads
    <2>2. /\ idx \in Dead /\ Dead' = Dead \ {idx}
          /\ idx \in Unjoined /\ Unjoined' = Unjoined \ {idx}
      BY <1>5, NAssumption DEF Join, Dead, Unjoined, Threads
    <2>3. /\ Cardinality(Dead') = Cardinality(Dead) - 1
          /\ Cardinality(Unjoined') = Cardinality(Unjoined) - 1
      BY <1>1, <2>2, FS_RemoveElement
    <2> QED BY <1>1, <1>5, <2>1, <2>3 DEF Join, CountInv
  <1>6. ASSUME NEW i \in Threads, Wake(i) \/ Lock(i) \/ Unlock(i) \/ Signal(i)
        PROVE  CountInv'
    BY <1>2, <1>6 DEF Wake, Lock, Unlock, Signal, Step
  <1>7. CASE Create
    BY <1>2, <1>7, NAssumption DEF Create, CreateInv, Threads
  <1>8. CASE TestLive \/ MainLock \/ Check \/ SpuriousWakeup
    BY <1>2, <1>8 DEF TestLive, MainLock, Check, SpuriousWakeup
  <1>9. CASE Skip \/ MainUnlock \/ UNCHANGED vars
    BY <1>2, <1>9 DEF Skip, MainUnlock, vars
  <1> QED
    BY <1>3, <1>4, <1>5, <1>6, <1>7, <1>8, <1>9
    DEF Next, MainStep, threadFunc, Terminated

-----------------------------------------------------------------------------
(* thread_incr.c and its three versions with a lock *)

Inside(t) == pc[t] \in {"load", "store", "unlock"}

(* Increments of thread t that have reached glob. *)
Stored(t) == IF pc[t] = "unlock" THEN j[t] + 1 ELSE j[t]

(* A thread between the head of its loop and j++ has an iteration left; a  *)
(* thread that returned has none.                                          *)
LoopInv ==
    \A t \in TI!Threads : /\ Inside(t) => j[t] < loops
                          /\ pc[t] = "done" => j[t] = loops

(* A thread runs only once main() created it; main() passes a join only    *)
(* after the thread returned, and prints last.                             *)
JoinInv ==
    /\ main = "create1" => pc["t1"] = "new"
    /\ main \in {"create1", "create2"} => pc["t2"] = "new"
    /\ printed # {} => main = "exit" /\ \A t \in TI!Threads : pc[t] = "done"
    /\ main \in {"join2", "print"} => pc["t1"] = "done"
    /\ main = "print" => pc["t2"] = "done"

(* The lock is free exactly when no thread is inside it. *)
LockInv ==
    prog # "none" =>
        /\ \A s, t \in TI!Threads : Inside(s) /\ Inside(t) => s = t
        /\ permits = IF \E t \in TI!Threads : Inside(t) THEN 0 ELSE 1

(* Inside the lock 'loc' is fresh, so glob counts the stored increments.   *)
SumInv ==
    prog # "none" =>
        /\ \A t \in TI!Threads : pc[t] = "store" => loc[t] = glob
        /\ glob = TI!Signed(Stored("t1") + Stored("t2"))

NoLockInv == prog = "none" => permits = 1

(* Without a lock, as long as the sum is an int: no value is larger than   *)
(* the number of increments stored; a thread that has stored one has seen  *)
(* at least 1 when it loads the next; so once both have stored two, the    *)
(* last store was of at least 2.                                           *)
BoundInv ==
    prog = "none" /\ 2 * loops <= IntMax =>
        /\ glob \in 0 .. (Stored("t1") + Stored("t2"))
        /\ (\E t \in TI!Threads : Stored(t) >= 1) => glob >= 1
        /\ (\A t \in TI!Threads : Stored(t) >= 2) => glob >= 2
        /\ \A t \in TI!Threads : pc[t] = "store" =>
              /\ loc[t] \in 0 .. (Stored("t1") + Stored("t2"))
              /\ j[t] >= 1 => loc[t] >= 1

IncrInv ==
    /\ TI!TypeOK /\ LoopInv /\ JoinInv /\ LockInv /\ SumInv /\ NoLockInv
    /\ TI!FinalCount

-----------------------------------------------------------------------------
(* Incr follows Signed while at most 2 * IntMax increments have been made. *)
LEMMA IncrSigned ==
    ASSUME NEW n \in 0 .. (2 * IntMax)
    PROVE  /\ TI!Incr(TI!Signed(n)) = TI!Signed(n + 1)
           /\ TI!Signed(n) \in (-IntMax - 1) .. IntMax
  BY IntMaxAssumption DEF TI!Incr, TI!Signed

(* Incr stays within int. *)
LEMMA IncrInt ==
    ASSUME NEW n \in (-IntMax - 1) .. IntMax
    PROVE  TI!Incr(n) \in (-IntMax - 1) .. IntMax
  BY IntMaxAssumption DEF TI!Incr

(* The initial states. *)
LEMMA InitIncrInv == TI!Init => IncrInv
  <1> SUFFICES ASSUME TI!Init PROVE IncrInv
    OBVIOUS
  <1> USE IntMaxAssumption DEF TI!Init, TI!Threads
  <1>1. \A t \in TI!Threads : pc[t] = "new" /\ j[t] = 0
    OBVIOUS
  <1>2. TI!TypeOK
    BY DEF TI!TypeOK
  <1>3. LoopInv /\ JoinInv /\ LockInv /\ NoLockInv /\ TI!FinalCount
    BY <1>1 DEF LoopInv, JoinInv, LockInv, NoLockInv, TI!FinalCount, Inside
  <1>4. SumInv
    BY <1>1 DEF SumInv, Stored, TI!Signed
  <1> QED BY <1>2, <1>3, <1>4 DEF IncrInv

(* One step per instruction of threadFunc() and of main(). *)
LEMMA StepIncrInv == IncrInv /\ [TI!Next]_TI!vars => IncrInv'
  <1> SUFFICES ASSUME IncrInv, [TI!Next]_TI!vars PROVE IncrInv'
    OBVIOUS
  <1> USE IntMaxAssumption
  <1>1. ASSUME NEW t \in TI!Threads, TI!NoLock(t), prog = "none" PROVE IncrInv'
    BY <1>1 DEF TI!NoLock, TI!InLoop, TI!Running, IncrInv, TI!TypeOK, LoopInv, JoinInv,
       LockInv, SumInv, NoLockInv, TI!FinalCount, Inside, Stored, TI!Threads
  <1>2. ASSUME NEW t \in TI!Threads, TI!Take(t), prog # "none" PROVE IncrInv'
    BY <1>2 DEF TI!Take, TI!InLoop, TI!Running, IncrInv, TI!TypeOK, LoopInv, JoinInv,
       LockInv, SumInv, NoLockInv, TI!FinalCount, Inside, Stored, TI!Threads
  <1>3. ASSUME NEW t \in TI!Threads, TI!Load(t) PROVE IncrInv'
    BY <1>3 DEF TI!Load, TI!Running, IncrInv, TI!TypeOK, LoopInv, JoinInv,
       LockInv, SumInv, NoLockInv, TI!FinalCount, Inside, Stored, TI!Threads
  <1>4. ASSUME NEW t \in TI!Threads, TI!Store(t) PROVE IncrInv'
    <2> DEFINE n == Stored("t1") + Stored("t2")
    <2>1. n \in 0 .. (2 * IntMax)
      <3>1. \A s \in TI!Threads : Stored(s) \in 0 .. IntMax
        BY DEF IncrInv, TI!TypeOK, LoopInv, Stored, Inside
      <3> QED BY <3>1 DEF TI!Threads
    <2>2. TI!Incr(loc[t]) \in (-IntMax - 1) .. IntMax
      BY <1>4, IncrInt DEF IncrInv, TI!TypeOK
    <2>3. (Stored("t1") + Stored("t2"))' = n + 1
      BY <1>4 DEF TI!Store, TI!Running, IncrInv, TI!TypeOK, Stored, TI!Threads
    <2>4. printed = {}
      BY <1>4 DEF TI!Store, TI!Running, IncrInv, JoinInv
    <2>5. ASSUME prog # "none" PROVE glob' = TI!Signed(n + 1)
      BY <1>4, <2>1, <2>5, IncrSigned DEF TI!Store, TI!Running, IncrInv, SumInv
    <2>6. TI!TypeOK'
      BY <1>4, <2>2, <2>4 DEF TI!Store, TI!Running, IncrInv, TI!TypeOK
    <2>7. (LoopInv /\ JoinInv /\ LockInv /\ NoLockInv /\ TI!FinalCount)'
      BY <1>4, <2>4 DEF TI!Store, TI!Running, IncrInv, TI!TypeOK, LoopInv, JoinInv,
         LockInv, NoLockInv, TI!FinalCount, Inside, TI!Threads
    <2>8. SumInv'
      BY <1>4, <2>3, <2>5 DEF TI!Store, TI!Running, IncrInv, TI!TypeOK, LockInv,
         SumInv, Inside, TI!Threads
    <2> QED BY <2>6, <2>7, <2>8 DEF IncrInv
  <1>5. ASSUME NEW t \in TI!Threads, TI!Unlock(t) PROVE IncrInv'
    BY <1>5 DEF TI!Unlock, TI!Running, IncrInv, TI!TypeOK, LoopInv, JoinInv,
       LockInv, SumInv, NoLockInv, TI!FinalCount, Inside, Stored, TI!Threads
  <1>6. ASSUME NEW t \in TI!Threads, TI!Return(t) PROVE IncrInv'
    BY <1>6 DEF TI!Return, TI!Running, IncrInv, TI!TypeOK, LoopInv, JoinInv,
       LockInv, SumInv, NoLockInv, TI!FinalCount, Inside, Stored, TI!Threads
  <1>7. CASE TI!CreateFirst \/ TI!CreateSecond
    BY <1>7 DEF TI!CreateFirst, TI!CreateSecond, TI!Create, IncrInv, TI!TypeOK, LoopInv,
       JoinInv, LockInv, SumInv, NoLockInv, TI!FinalCount, Inside, Stored,
       TI!Threads
  <1>8. CASE TI!JoinFirst \/ TI!JoinSecond
    BY <1>8 DEF TI!JoinFirst, TI!JoinSecond, TI!Join, IncrInv, TI!TypeOK, LoopInv,
       JoinInv, LockInv, SumInv, NoLockInv, TI!FinalCount, Inside, Stored,
       TI!Threads
  <1>9. CASE TI!PrintGlob
    BY <1>9 DEF TI!PrintGlob, IncrInv, TI!TypeOK, LoopInv, JoinInv, LockInv,
       SumInv, NoLockInv, TI!FinalCount, Inside, Stored, TI!Threads
  <1>10. CASE UNCHANGED TI!vars
    BY <1>10 DEF TI!vars, IncrInv, TI!TypeOK, LoopInv, JoinInv, LockInv, SumInv,
       NoLockInv, TI!FinalCount, Inside, Stored
  <1> QED
    BY <1>1, <1>2, <1>3, <1>4, <1>5, <1>6, <1>7, <1>8, <1>9, <1>10
    DEF TI!Next, TI!MainStep, TI!main_none, TI!main_mutex, TI!main_psem, TI!main_spin, TI!MainBody,
        TI!threadFunc, TI!threadFunc_none, TI!threadFunc_mutex, TI!threadFunc_psem,
        TI!threadFunc_spin, TI!LoopBody, TI!MutexLock, TI!SemWait, TI!SpinLock, TI!Exited

(* What a lost update can cost: only Load and Store touch the values. *)
LEMMA StepBound == IncrInv /\ BoundInv /\ [TI!Next]_TI!vars => BoundInv'
  <1> SUFFICES ASSUME IncrInv, BoundInv, [TI!Next]_TI!vars, prog' = "none", 2 * loops' <= IntMax
               PROVE  BoundInv'
    BY DEF BoundInv
  <1> USE IntMaxAssumption
  <1>0. /\ loops \in Nat \ {0} /\ glob \in Int /\ loc \in [TI!Threads -> Int]
        /\ j \in [TI!Threads -> 0 .. loops]
        /\ pc \in [TI!Threads -> {"new", "loop", "load", "store", "unlock", "done"}]
    BY DEF IncrInv, TI!TypeOK
  <1>1. \A s \in TI!Threads : Stored(s) \in 0 .. loops
    BY <1>0 DEF IncrInv, LoopInv, Stored, Inside
  <1>2. ASSUME UNCHANGED <<prog, loops, glob, loc>>,
               \A s \in TI!Threads : /\ Stored(s)' = Stored(s)
                                     /\ pc'[s] = "store" => pc[s] = "store" /\ j'[s] = j[s]
        PROVE  BoundInv'
    BY <1>2 DEF BoundInv, TI!Threads
  <1>3. ASSUME NEW t \in TI!Threads, TI!Load(t) PROVE BoundInv'
    <2>1. /\ UNCHANGED <<prog, loops, glob, j>> /\ pc[t] = "load"
          /\ pc' = [pc EXCEPT ![t] = "store"] /\ loc' = [loc EXCEPT ![t] = glob]
      BY <1>3 DEF TI!Load, TI!Running
    <2>2. \A s \in TI!Threads : Stored(s)' = Stored(s)
      BY <1>0, <2>1 DEF Stored
    <2>3. Stored(t) = j[t]
      BY <2>1 DEF Stored
    <2> QED BY <1>0, <1>1, <2>1, <2>2, <2>3 DEF BoundInv, TI!Threads
  <1>4. ASSUME NEW t \in TI!Threads, TI!Store(t) PROVE BoundInv'
    <2>1. /\ UNCHANGED <<prog, loops, j>> /\ pc[t] = "store" /\ pc' = [pc EXCEPT ![t] = "unlock"]
          /\ glob' = TI!Incr(loc[t]) /\ loc' = [loc EXCEPT ![t] = TI!Incr(loc[t])]
      BY <1>4 DEF TI!Store, TI!Running
    <2>2. Stored(t) = j[t] /\ Stored(t)' = j[t] + 1 /\ j[t] < loops
      BY <1>0, <2>1 DEF IncrInv, LoopInv, Inside, Stored
    <2>3. \A s \in TI!Threads : s # t => Stored(s)' = Stored(s) /\ pc'[s] = pc[s] /\ loc'[s] = loc[s]
      BY <1>0, <2>1 DEF Stored
    <2>4. Stored("t1") + Stored("t2") < 2 * loops
      BY <1>0, <1>1, <2>2 DEF TI!Threads
    <2>5. glob' = loc[t] + 1
      <3>1. loc[t] \in Int /\ loc[t] <= Stored("t1") + Stored("t2")
        BY <1>0, <2>1 DEF BoundInv
      <3>2. Stored("t1") \in Int /\ Stored("t2") \in Int /\ loc[t] < IntMax
        BY <1>0, <1>1, <2>1, <2>4, <3>1 DEF TI!Threads
      <3> QED BY <2>1, <3>1, <3>2 DEF TI!Incr
    <2>6. (Stored("t1") + Stored("t2"))' = Stored("t1") + Stored("t2") + 1
      BY <1>0, <1>1, <2>2, <2>3 DEF TI!Threads
    <2> QED BY <1>0, <1>1, <2>1, <2>2, <2>3, <2>5, <2>6 DEF BoundInv, TI!Threads
  <1>5. ASSUME NEW t \in TI!Threads,
               TI!NoLock(t) \/ TI!Take(t) \/ TI!Unlock(t) \/ TI!Return(t)
        PROVE  BoundInv'
    BY <1>0, <1>2, <1>5 DEF TI!NoLock, TI!Take, TI!Unlock, TI!Return, TI!InLoop, TI!Running, Stored
  <1>6. CASE TI!CreateFirst \/ TI!CreateSecond
    BY <1>0, <1>2, <1>6 DEF TI!CreateFirst, TI!CreateSecond, TI!Create, Stored, IncrInv, JoinInv
  <1>7. CASE TI!JoinFirst \/ TI!JoinSecond \/ TI!PrintGlob \/ UNCHANGED TI!vars
    BY <1>2, <1>7 DEF TI!JoinFirst, TI!JoinSecond, TI!Join, TI!PrintGlob, TI!vars, Stored
  <1> QED
    BY <1>3, <1>4, <1>5, <1>6, <1>7
    DEF TI!Next, TI!MainStep, TI!main_none, TI!main_mutex, TI!main_psem, TI!main_spin, TI!MainBody,
        TI!threadFunc, TI!threadFunc_none, TI!threadFunc_mutex, TI!threadFunc_psem,
        TI!threadFunc_spin, TI!LoopBody, TI!MutexLock, TI!SemWait, TI!SpinLock, TI!Exited

(* At the print both threads have stored all their increments. *)
LEMMA BoundEnds == IncrInv /\ BoundInv => TI!LostUpdateBound
  <1> SUFFICES ASSUME IncrInv, BoundInv, prog = "none", printed # {}, 2 * loops <= IntMax
               PROVE  \A n \in printed : (IF loops = 1 THEN 1 ELSE 2) <= n /\ n <= 2 * loops
    BY DEF TI!LostUpdateBound
  <1>1. loops \in Nat \ {0} /\ printed = {glob}
    BY IntMaxAssumption DEF IncrInv, TI!TypeOK
  <1>2. \A t \in TI!Threads : Stored(t) = loops
    BY DEF IncrInv, JoinInv, LoopInv, Stored
  <1>3. Stored("t1") = loops /\ Stored("t2") = loops
    BY <1>2 DEF TI!Threads
  <1>4. glob \in 0 .. 2 * loops /\ glob >= 1 /\ (loops >= 2 => glob >= 2)
    BY <1>1, <1>2, <1>3 DEF BoundInv, TI!Threads
  <1> QED BY <1>1, <1>4

-----------------------------------------------------------------------------
(* thread_cleanup.c *)

CleanupType ==
    /\ at \in [{"main", "thread"} ->
               {"create", "act", "unlock", "signal", "join", "exit", "failed", "unborn", "malloc",
                "printed", "lock", "test", "wait", "woken", "completed", "pop", "free", "end", "done"}]
    /\ mem \in [prog : {"thread_cleanup"}, cancels : BOOLEAN, glob : {0, 1},
                buf : {"none", "allocated", "freed"}, handlers : {0, 1},
                res : {"none", "canceled"}, exiting : {"none", "canceled"}]
    /\ os \in [mtx : {"free", "thread", "main"}, cancel : BOOLEAN]

(* The mutex is the thread's, or main()'s, exactly at these positions. *)
OwnerInv ==
    /\ os.mtx = "thread" <=> at.thread \in {"test", "completed", "pop", "free", "unlock"}
    /\ os.mtx = "main" <=> at.main = "unlock"

(* The handler is pushed under the mutex and stays until it runs. *)
HandlerInv ==
    /\ mem.handlers = 1 <=> at.thread \in {"test", "wait", "woken", "completed", "pop", "free"}
    /\ mem.handlers = 1 \/ at.thread \in {"printed", "lock"} => mem.buf = "allocated"
    /\ at.thread = "unlock" => mem.buf = "freed"

(* The thread is created once, and only main() of a program started to     *)
(* cancel asks for it.                                                     *)
RequestInv ==
    /\ at.main = "create" => at.thread = "unborn"
    /\ os.cancel => mem.cancels
    /\ at.thread \in {"end", "done"} /\ ~mem.cancels => mem.buf = "freed"

CleanupInv == CleanupType /\ OwnerInv /\ HandlerInv /\ RequestInv

(* A step of the thread or of main(). *)
LEMMA CleanupStep ==
    ASSUME CleanupInv,
           TD!cleanup_threadFunc \/ TD!ThreadEnd \/ TD!cleanup_main \/ TD!CondWaitWakes("wait")
    PROVE  CleanupInv'
  <1> USE DEF CleanupInv, CleanupType, OwnerInv, HandlerInv, RequestInv,
              TD!Move, TD!Lock, TD!Unlock, TD!Runs
  <1>1. ASSUME NEW l, TD!ActOnCancel(l), l \in {"printed", "completed"} PROVE CleanupInv'
    BY <1>1 DEF TD!ActOnCancel
  <1>2. CASE TD!Printf("printed", "lock") \/ TD!Printf("completed", "pop")
    BY <1>1, <1>2 DEF TD!Printf
  <1>3. CASE TD!Malloc
    BY <1>3 DEF TD!Malloc
  <1>4. CASE TD!LockAndPush
    BY <1>4 DEF TD!LockAndPush
  <1>5. CASE TD!TestGlob
    BY <1>5 DEF TD!TestGlob
  <1>6. CASE TD!CondWaitCanceled
    BY <1>6 DEF TD!CondWaitCanceled
  <1>7. CASE TD!CondWaitWakes("woken") \/ TD!CondWaitWakes("wait")
    BY <1>7 DEF TD!CondWaitWakes
  <1>8. CASE TD!Pop
    BY <1>8 DEF TD!Pop
  <1>9. CASE TD!CleanupFree
    <2>1. /\ mem'.buf = "freed" /\ mem'.handlers = 0 /\ mem'.cancels = mem.cancels
          /\ mem' \in [prog : {"thread_cleanup"}, cancels : BOOLEAN, glob : {0, 1},
                       buf : {"none", "allocated", "freed"}, handlers : {0, 1},
                       res : {"none", "canceled"}, exiting : {"none", "canceled"}]
      BY <1>9 DEF TD!CleanupFree
    <2>2. /\ at'.thread = "unlock" /\ at'.main = at.main /\ at.thread = "free" /\ os' = os
          /\ at' \in [{"main", "thread"} ->
               {"create", "act", "unlock", "signal", "join", "exit", "failed", "unborn", "malloc",
                "printed", "lock", "test", "wait", "woken", "completed", "pop", "free", "end", "done"}]
      BY <1>9 DEF TD!CleanupFree
    <2>3. CleanupType' /\ OwnerInv' /\ RequestInv'
      BY <2>1, <2>2
    <2>4. HandlerInv'
      BY <2>1, <2>2
    <2> QED BY <2>3, <2>4
  <1>10. CASE TD!CleanupUnlock
    BY <1>10 DEF TD!CleanupUnlock
  <1>11. CASE TD!ThreadEnd
    BY <1>11 DEF TD!ThreadEnd
  <1>12. CASE TD!CreateOK
    BY <1>12 DEF TD!CreateOK
  <1>13. CASE TD!CreateFails
    BY <1>13 DEF TD!CreateFails
  <1>14. CASE TD!Cancel
    BY <1>14 DEF TD!Cancel
  <1>15. CASE TD!SetGlob
    BY <1>15 DEF TD!SetGlob
  <1>16. CASE TD!UnlockGlob
    BY <1>16 DEF TD!UnlockGlob
  <1>17. CASE TD!Signal
    BY <1>17 DEF TD!Signal
  <1>18. CASE TD!Join
    BY <1>18 DEF TD!Join
  <1> QED
    BY <1>2, <1>3, <1>4, <1>5, <1>6, <1>7, <1>8, <1>9, <1>10, <1>11, <1>12, <1>13, <1>14, <1>15,
       <1>16, <1>17, <1>18
    DEF TD!cleanup_threadFunc, TD!cleanupHandler, TD!cleanup_main, TD!cancel_main

-----------------------------------------------------------------------------
(* strerror_test.c *)

StrerrorType ==
    /\ at \in [TD!Threads -> {"unborn", "call", "createKey", "malloc", "copy", "copying", "print",
                              "return", "create2", "join", "last", "exit", "done"}]
    /\ mem \in [prog : {"strerror"}, version : TD!Versions, once : {"init", "running", "done"},
                specific : [TD!Threads -> SUBSET TD!Heap],
                text : [TD!Heap \cup TD!Threads -> SUBSET TD!Threads],
                str : [TD!Threads -> SUBSET (TD!Heap \cup TD!Threads)],
                said : [TD!Threads -> SUBSET TD!Threads]]
    /\ os \in [allocated : SUBSET TD!Heap, keys : Nat]

(* The buffer of t, if it has one yet: its specific value or its __thread  *)
(* variable.                                                               *)
Own(t) == IF mem.version = "tsd" THEN mem.specific[t] ELSE {t}

Copied == {"print", "return", "create2", "join", "last", "exit"}

(* A thread-specific buffer is a block in use, and nobody else's. *)
BlocksInv ==
    \A t \in TD!Threads :
        /\ mem.specific[t] \subseteq os.allocated
        /\ \A u \in TD!Threads \ {t} : mem.specific[t] \cap mem.specific[u] = {}

(* strerror() returned t's own buffer, which holds t's message once it has *)
(* been copied there, whatever the other threads do; and t printed that.   *)
MessageInv ==
    mem.version # "static" =>
        \A t \in TD!Threads :
            /\ at[t] \in {"createKey", "malloc"} => mem.version = "tsd"
            /\ at[t] \in {"copy", "copying"} \cup Copied => mem.str[t] = Own(t)
            /\ at[t] \in Copied => \A b \in Own(t) : mem.text[b] = {t}
            /\ mem.said[t] \subseteq {t}

StrerrorInv == StrerrorType /\ BlocksInv /\ MessageInv

(* The buffers of two threads are apart. *)
LEMMA OwnApart ==
    ASSUME StrerrorInv, mem.version # "static", NEW t \in TD!Threads, NEW u \in TD!Threads, t # u
    PROVE  Own(t) \cap Own(u) = {}
  BY DEF StrerrorInv, BlocksInv, Own

(* pthread_once(), createKey() and the first look at the specific value    *)
(* leave every buffer alone.                                               *)
LEMMA StrerrorKey ==
    ASSUME StrerrorInv, NEW t \in TD!Threads,
           TD!Once(t) \/ TD!createKey(t) \/ TD!GetSpecific(t) \/ TD!strerror_static(t)
                      \/ TD!strerror_tls(t)
    PROVE  StrerrorInv'
  <1> USE DEF StrerrorInv, StrerrorType, TD!Move
  <1>1. CASE TD!Once(t)
    <2>1. StrerrorType'
      BY <1>1 DEF TD!Once
    <2>2. BlocksInv' /\ MessageInv'
      BY <1>1, <2>1 DEF TD!Once, BlocksInv, MessageInv, Own, Copied
    <2> QED BY <2>1, <2>2
  <1>2. CASE TD!createKey(t)
    <2>1. StrerrorType'
      BY <1>2 DEF TD!createKey
    <2>2. BlocksInv' /\ MessageInv'
      <3>1. /\ mem'.version = mem.version /\ mem'.specific = mem.specific /\ mem'.str = mem.str
            /\ mem'.said = mem.said /\ mem'.text = mem.text /\ os'.allocated = os.allocated
            /\ at' = [at EXCEPT ![t] = "call"]
        BY <1>2 DEF TD!createKey
      <3>2. BlocksInv'
        BY <3>1 DEF BlocksInv
      <3>3. MessageInv'
        BY <3>1 DEF MessageInv, Own, Copied
      <3> QED BY <3>2, <3>3
    <2> QED BY <2>1, <2>2
  <1>3. CASE TD!GetSpecific(t)
    <2>1. StrerrorType'
      BY <1>3 DEF TD!GetSpecific
    <2>2. BlocksInv' /\ MessageInv'
      BY <1>3, <2>1 DEF TD!GetSpecific, BlocksInv, MessageInv, Own, Copied
    <2> QED BY <2>1, <2>2
  <1>4. CASE TD!strerror_static(t)
    <2>1. StrerrorType'
      BY <1>4 DEF TD!strerror_static, TD!Heap
    <2>2. BlocksInv' /\ MessageInv'
      BY <1>4, <2>1 DEF TD!strerror_static, BlocksInv, MessageInv, Own, Copied
    <2> QED BY <2>1, <2>2
  <1>5. CASE TD!strerror_tls(t)
    <2>1. StrerrorType'
      BY <1>5 DEF TD!strerror_tls
    <2>2. BlocksInv' /\ MessageInv'
      <3>1. /\ mem'.version = "tls" /\ mem.version = "tls" /\ mem'.specific = mem.specific
            /\ mem'.str = [mem.str EXCEPT ![t] = {t}]
            /\ mem'.said = mem.said /\ mem'.text = mem.text /\ os' = os
            /\ at' = [at EXCEPT ![t] = "copy"]
        BY <1>5 DEF TD!strerror_tls
      <3>2. BlocksInv'
        BY <3>1 DEF BlocksInv
      <3>3. MessageInv'
        BY <3>1 DEF MessageInv, Own, Copied
      <3> QED BY <3>2, <3>3
    <2> QED BY <2>1, <2>2
  <1> QED BY <1>1, <1>2, <1>3, <1>4, <1>5

(* The block malloc() returns is nobody's; the one the destructor frees is *)
(* nobody else's.                                                          *)
LEMMA StrerrorBlock ==
    ASSUME StrerrorInv, NEW t \in TD!Threads,
           TD!SetSpecific(t) \/ (TD!Move(t, "return", "done") /\ TD!destructor(t))
    PROVE  StrerrorInv'
  <1> USE DEF StrerrorInv, StrerrorType, TD!Move
  <1>1. CASE TD!SetSpecific(t)
    <2>0. PICK b \in TD!Heap \ os.allocated :
              /\ os' = [os EXCEPT !.allocated = @ \cup {b}]
              /\ mem' = [mem EXCEPT !.specific[t] = {b}, !.str[t] = {b}]
      BY <1>1 DEF TD!SetSpecific
    <2>a. /\ mem'.version = mem.version /\ mem'.said = mem.said /\ mem'.text = mem.text
          /\ mem'.specific = [mem.specific EXCEPT ![t] = {b}]
          /\ mem'.str = [mem.str EXCEPT ![t] = {b}] /\ os'.allocated = os.allocated \cup {b}
          /\ at[t] = "malloc" /\ at' = [at EXCEPT ![t] = "copy"]
      BY <1>1, <2>0 DEF TD!SetSpecific
    <2>1. StrerrorType'
      <3>1. /\ [mem.specific EXCEPT ![t] = {b}] \in [TD!Threads -> SUBSET TD!Heap]
            /\ [mem.str EXCEPT ![t] = {b}] \in [TD!Threads -> SUBSET (TD!Heap \cup TD!Threads)]
        OBVIOUS
      <3>2. mem' = [mem EXCEPT !.specific = [mem.specific EXCEPT ![t] = {b}],
                               !.str = [mem.str EXCEPT ![t] = {b}]]
        BY <2>0
      <3>3. mem' \in [prog : {"strerror"}, version : TD!Versions, once : {"init", "running", "done"},
                      specific : [TD!Threads -> SUBSET TD!Heap],
                      text : [TD!Heap \cup TD!Threads -> SUBSET TD!Threads],
                      str : [TD!Threads -> SUBSET (TD!Heap \cup TD!Threads)],
                      said : [TD!Threads -> SUBSET TD!Threads]]
        BY <3>1, <3>2
      <3>4. os' \in [allocated : SUBSET TD!Heap, keys : Nat]
        BY <2>0
      <3>5. at' \in [TD!Threads -> {"unborn", "call", "createKey", "malloc", "copy", "copying",
                                   "print", "return", "create2", "join", "last", "exit", "done"}]
        BY <2>a
      <3> HIDE DEF StrerrorInv
      <3> QED BY <3>3, <3>4, <3>5
    <2>2. BlocksInv'
      BY <2>a DEF BlocksInv
    <2>3. MessageInv'
      BY <2>a DEF MessageInv, Own, Copied
    <2> QED BY <2>1, <2>2, <2>3
  <1>2. CASE TD!Move(t, "return", "done") /\ TD!destructor(t)
    <2>1. StrerrorType'
      BY <1>2 DEF TD!destructor
    <2>2. BlocksInv'
      BY <1>2, <2>1 DEF TD!destructor, BlocksInv
    <2>3. MessageInv'
      BY <1>2, <2>1 DEF TD!destructor, MessageInv, Own, Copied
    <2> QED BY <2>1, <2>2, <2>3
  <1> QED BY <1>1, <1>2

(* A copy goes to the caller's own buffer, so it neither mixes with        *)
(* another one nor spoils a message.                                       *)
LEMMA StrerrorCopy ==
    ASSUME StrerrorInv, NEW t \in TD!Threads, TD!CopyBegin(t) \/ TD!CopyEnd(t)
    PROVE  StrerrorInv'
  <1> USE DEF TD!Move
  <1>0. StrerrorType /\ BlocksInv /\ MessageInv
    BY DEF StrerrorInv
  <1>a. mem.version # "static" =>
            /\ mem.str[t] = Own(t)
            /\ \A u \in TD!Threads \ {t} : \A b \in Own(u) : b \notin mem.str[t]
    BY <1>0, OwnApart DEF TD!CopyBegin, TD!CopyEnd, MessageInv
  <1>b. \A u \in TD!Threads : Own(u) \subseteq DOMAIN mem.text
    BY <1>0 DEF StrerrorType, Own
  <1>1. CASE TD!CopyBegin(t)
    <2>1. StrerrorType'
      BY <1>0, <1>1 DEF TD!CopyBegin, TD!Err, StrerrorType
    <2>2. /\ mem'.version = mem.version /\ mem'.specific = mem.specific /\ mem'.str = mem.str
          /\ mem'.said = mem.said /\ os' = os
          /\ mem'.text = [b \in DOMAIN mem.text |->
                   IF b \in mem.str[t] THEN mem.text[b] \cup {TD!Err(t)} ELSE mem.text[b]]
      BY <1>0, <1>1 DEF TD!CopyBegin, StrerrorType
    <2>3. BlocksInv'
      BY <1>0, <2>2 DEF BlocksInv
    <2>4. \A u \in TD!Threads : Own(u)' = Own(u)
      BY <2>2 DEF Own
    <2>5. MessageInv'
      BY <1>0, <1>1, <1>a, <1>b, <2>2, <2>4 DEF TD!CopyBegin, MessageInv, Copied, StrerrorType
    <2> QED BY <2>1, <2>3, <2>5 DEF StrerrorInv
  <1>2. CASE TD!CopyEnd(t)
    <2> DEFINE overlapped == \E u \in TD!Threads \ {t} : at[u] = "copying" /\ mem.str[u] = mem.str[t]
    <2>2. /\ mem'.version = mem.version /\ mem'.specific = mem.specific /\ mem'.str = mem.str
          /\ mem'.said = mem.said /\ os' = os
          /\ mem'.text = [b \in DOMAIN mem.text |->
                   IF b \in mem.str[t] /\ ~overlapped THEN {TD!Err(t)} ELSE mem.text[b]]
      BY <1>0, <1>2 DEF TD!CopyEnd, StrerrorType
    <2>1. StrerrorType'
      BY <1>0, <1>2 DEF TD!CopyEnd, TD!Err, StrerrorType
    <2>3. BlocksInv'
      BY <1>0, <2>2 DEF BlocksInv
    <2>4. \A u \in TD!Threads : Own(u)' = Own(u)
      BY <2>2 DEF Own
    <2>5. ASSUME mem.version # "static", NEW b \in mem.str[t] PROVE ~overlapped
      BY <1>0, <1>a, <2>5 DEF MessageInv
    <2>6. mem.version # "static" =>
              /\ \A b \in Own(t) : mem'.text[b] = {t}
              /\ \A u \in TD!Threads \ {t} : \A b \in Own(u) : mem'.text[b] = mem.text[b]
      BY <1>a, <1>b, <2>2, <2>5 DEF TD!Err
    <2> HIDE DEF overlapped
    <2>7. at[t] = "copying" /\ at' = [at EXCEPT ![t] = "print"]
      BY <1>2 DEF TD!CopyEnd
    <2>8. MessageInv'
      <3> SUFFICES ASSUME mem.version # "static", NEW u \in TD!Threads
                   PROVE  /\ at'[u] \in {"createKey", "malloc"} => mem.version = "tsd"
                          /\ at'[u] \in {"copy", "copying"} \cup Copied => mem.str[u] = Own(u)
                          /\ at'[u] \in Copied => \A b \in Own(u) : mem'.text[b] = {u}
                          /\ mem.said[u] \subseteq {u}
        BY <2>2, <2>4 DEF MessageInv
      <3>1. CASE u = t
        BY <1>0, <1>a, <2>6, <2>7, <3>1 DEF MessageInv, Copied, StrerrorType
      <3>2. CASE u # t
        BY <1>0, <2>6, <2>7, <3>2 DEF MessageInv, Copied, StrerrorType
      <3> QED BY <3>1, <3>2
    <2> QED BY <2>1, <2>3, <2>8 DEF StrerrorInv
  <1> QED BY <1>1, <1>2

(* What a thread prints is in its own buffer. *)
LEMMA StrerrorSaid ==
    ASSUME StrerrorInv, NEW t \in TD!Threads, NEW l \in Copied, NEW k \in {"return", "exit"},
           TD!Move(t, l, k), TD!Said(t), UNCHANGED os
    PROVE  StrerrorInv'
  <1> USE DEF TD!Move, TD!Said
  <1>0. StrerrorType /\ BlocksInv /\ MessageInv
    BY DEF StrerrorInv
  <1>1. UNION {mem.text[b] : b \in mem.str[t]} \in SUBSET TD!Threads
    BY <1>0 DEF StrerrorType
  <1>2. mem.version # "static" => UNION {mem.text[b] : b \in mem.str[t]} \subseteq {t}
    BY <1>0 DEF MessageInv
  <1>3. StrerrorType'
    BY <1>0, <1>1 DEF StrerrorType, Copied
  <1>4. /\ mem'.version = mem.version /\ mem'.specific = mem.specific /\ mem'.str = mem.str
        /\ mem'.text = mem.text
        /\ mem'.said = [mem.said EXCEPT ![t] = UNION {mem.text[b] : b \in mem.str[t]}]
    BY <1>0 DEF StrerrorType
  <1>5. BlocksInv'
    BY <1>0, <1>4 DEF BlocksInv
  <1>6. MessageInv'
    BY <1>0, <1>2, <1>4 DEF MessageInv, Copied, Own, StrerrorType
  <1> QED BY <1>3, <1>5, <1>6 DEF StrerrorInv

(* A step of strerror_test. *)
LEMMA StrerrorStep ==
    ASSUME StrerrorInv, TD!strerror_test \/ \E t \in {"t1", "t2"} : TD!threadFunc(t)
    PROVE  StrerrorInv'
  <1>1. ASSUME NEW t \in TD!Threads, TD!strerror(t) PROVE StrerrorInv'
    BY <1>1, StrerrorKey, StrerrorBlock, StrerrorCopy DEF TD!strerror, TD!strerror_tsd
  <1>2. ASSUME NEW t \in {"t1", "t2"}, TD!threadFunc(t) PROVE StrerrorInv'
    <2>1. t \in TD!Threads
      BY DEF TD!Threads
    <2> QED
      BY <1>1, <1>2, <2>1, StrerrorBlock, StrerrorSaid DEF TD!threadFunc, Copied
  <1>3. CASE TD!PrintLast
    BY <1>3, StrerrorSaid DEF TD!PrintLast, TD!Threads, Copied
  <1>4. CASE TD!Create("t1", "print", "create2") \/ TD!Create("t2", "create2", "join")
    <2>1. StrerrorType' /\ BlocksInv'
      <3>1. /\ mem' = mem /\ os' = os
            /\ \/ at' = [at EXCEPT !["main"] = "create2", !["t1"] = "call"]
               \/ at' = [at EXCEPT !["main"] = "join", !["t2"] = "call"]
        BY <1>4 DEF TD!Create
      <3>2. StrerrorType'
        BY <3>1 DEF StrerrorInv, StrerrorType
      <3>3. BlocksInv'
        BY <3>1 DEF StrerrorInv, BlocksInv
      <3> QED BY <3>2, <3>3
    <2>2. mem' = mem /\ \A t \in TD!Threads : at'[t] = "call" \/ at'[t] = at[t]
                                             \/ (at[t] \in Copied /\ at'[t] \in Copied)
      <3>1. ASSUME TD!Create("t1", "print", "create2"), NEW t \in TD!Threads
            PROVE  at'[t] = "call" \/ at'[t] = at[t] \/ (at[t] \in Copied /\ at'[t] \in Copied)
        BY <3>1 DEF TD!Create, StrerrorInv, StrerrorType, TD!Threads, Copied
      <3>2. ASSUME TD!Create("t2", "create2", "join"), NEW t \in TD!Threads
            PROVE  at'[t] = "call" \/ at'[t] = at[t] \/ (at[t] \in Copied /\ at'[t] \in Copied)
        BY <3>2 DEF TD!Create, StrerrorInv, StrerrorType, TD!Threads, Copied
      <3> QED BY <1>4, <3>1, <3>2 DEF TD!Create
    <2>3. MessageInv'
      BY <2>2 DEF StrerrorInv, MessageInv, Own, Copied
    <2> QED BY <2>1, <2>3 DEF StrerrorInv
  <1>5. CASE TD!JoinBoth
    BY <1>5 DEF TD!JoinBoth, TD!Move, StrerrorInv, StrerrorType, BlocksInv, MessageInv, Own, Copied,
                TD!Threads
  <1> QED BY <1>1, <1>2, <1>3, <1>4, <1>5 DEF TD!strerror_test, TD!Threads

-----------------------------------------------------------------------------
(* The programs together *)

ThreadPart ==
    /\ "prog" \in DOMAIN mem
    /\ Runs("thread_cleanup") => CleanupInv
    /\ Runs("strerror") => StrerrorInv

(* Each of the two programs starts in its invariant. *)
LEMMA ThreadInit == TD!Init => ThreadPart
  <1>1. ASSUME TD!CancelInit PROVE ThreadPart
    <2>1. PICK p \in TD!Progs, c \in BOOLEAN :
              mem = [prog |-> p, cancels |-> c, glob |-> 0, buf |-> "none",
                     handlers |-> 0, res |-> "none", exiting |-> "none"]
      BY <1>1 DEF TD!CancelInit
    <2>2. at = [main |-> "create", thread |-> "unborn"] /\ os = [mtx |-> "free", cancel |-> FALSE]
      BY <1>1 DEF TD!CancelInit
    <2>3. Runs("thread_cleanup") => CleanupInv
      BY <2>1, <2>2 DEF Runs, CleanupInv, CleanupType, OwnerInv, HandlerInv, RequestInv
    <2>4. mem.prog # "strerror"
      BY <2>1 DEF TD!Progs
    <2> QED BY <2>1, <2>3, <2>4 DEF ThreadPart, Runs
  <1>2. ASSUME TD!StrerrorInit PROVE ThreadPart
    <2>1. PICK v \in TD!Versions : mem =
          [prog |-> "strerror", version |-> v, once |-> "init",
           specific |-> [t \in TD!Threads |-> {}], text |-> [b \in TD!Heap \cup TD!Threads |-> {}],
           str |-> [t \in TD!Threads |-> {}], said |-> [t \in TD!Threads |-> {}]]
      BY <1>2 DEF TD!StrerrorInit
    <2>2. /\ at = [main |-> "call", t1 |-> "unborn", t2 |-> "unborn"]
          /\ os = [allocated |-> {}, keys |-> 0]
      BY <1>2 DEF TD!StrerrorInit
    <2>3. at \in [TD!Threads -> {"unborn", "call"}]
      BY <2>2 DEF TD!Threads
    <2>4. StrerrorType
      BY <2>1, <2>2, <2>3 DEF StrerrorType
    <2>5. BlocksInv /\ MessageInv
      BY <2>1, <2>2, <2>3 DEF BlocksInv, MessageInv, Copied
    <2> QED BY <2>1, <2>4, <2>5 DEF ThreadPart, Runs, StrerrorInv
  <1> QED BY <1>1, <1>2 DEF TD!Init

(* The program that runs is the one that ran. *)
LEMMA ThreadStep ==
    ASSUME ThreadPart, TD!Next \/ UNCHANGED machine
    PROVE  ThreadPart' /\ mem'.prog = mem.prog
  <1>1. CASE UNCHANGED machine
    <2> USE <1>1 DEF machine
    <2>1. CleanupInv => CleanupInv'
      BY DEF CleanupInv, CleanupType, OwnerInv, HandlerInv, RequestInv
    <2>2. StrerrorInv => StrerrorInv'
      BY DEF StrerrorInv, StrerrorType, BlocksInv, MessageInv, Own
    <2> QED BY <2>1, <2>2 DEF ThreadPart, Runs
  <1>2. CASE mem.prog = "thread_cancel"
    <2>1. UNCHANGED machine \/ TD!cancel_threadFunc \/ TD!ThreadEnd \/ TD!cancel_main
      BY <1>1, <1>2 DEF TD!Next, TD!CancelNext, TD!StrerrorNext, TD!ThreadStep, TD!StrerrorExited,
         TD!Thread, TD!MainStep, TD!Spurious, TD!CancelExited, TD!Runs, TD!machine, machine
    <2>2. mem' = mem \/ mem' = [mem EXCEPT !.exiting = "canceled"]
                     \/ mem' = [mem EXCEPT !.res = mem.exiting]
      BY <2>1 DEF machine, TD!cancel_threadFunc, TD!Printf, TD!Sleep, TD!ActOnCancel, TD!ThreadEnd,
         TD!cancel_main, TD!CreateOK, TD!CreateFails, TD!Cancel, TD!Join
    <2>3. "prog" \in DOMAIN mem' /\ mem'.prog = mem.prog
      BY <2>2 DEF ThreadPart
    <2> QED BY <1>2, <2>3 DEF ThreadPart, Runs
  <1>3. CASE mem.prog = "thread_cleanup"
    <2>1. \/ UNCHANGED machine
          \/ TD!cleanup_threadFunc \/ TD!ThreadEnd \/ TD!cleanup_main \/ TD!CondWaitWakes("wait")
      BY <1>1, <1>3 DEF TD!Next, TD!CancelNext, TD!StrerrorNext, TD!ThreadStep, TD!StrerrorExited,
         TD!Thread, TD!MainStep, TD!Spurious, TD!CancelExited, TD!Runs, TD!machine, machine
    <2>2. CASE ~ UNCHANGED machine
      <3>1. CleanupInv'
        BY <1>3, <2>1, <2>2, CleanupStep DEF ThreadPart, Runs
      <3>2. "prog" \in DOMAIN mem' /\ mem'.prog = "thread_cleanup"
        BY <3>1 DEF CleanupInv, CleanupType
      <3> QED BY <1>3, <3>1, <3>2 DEF ThreadPart, Runs
    <2> QED BY <1>1, <2>2
  <1>4. CASE mem.prog = "strerror"
    <2>1. \/ UNCHANGED machine
          \/ TD!strerror_test \/ \E t \in {"t1", "t2"} : TD!threadFunc(t)
      BY <1>1, <1>4 DEF TD!Next, TD!CancelNext, TD!StrerrorNext, TD!ThreadStep, TD!StrerrorExited,
         TD!Thread, TD!MainStep, TD!Spurious, TD!CancelExited, TD!Runs, TD!machine, machine
    <2>2. CASE ~ UNCHANGED machine
      <3>1. StrerrorInv'
        BY <1>4, <2>1, <2>2, StrerrorStep DEF ThreadPart, Runs
      <3>2. "prog" \in DOMAIN mem' /\ mem'.prog = "strerror"
        BY <3>1 DEF StrerrorInv, StrerrorType
      <3> QED BY <1>4, <3>1, <3>2 DEF ThreadPart, Runs
    <2> QED BY <1>1, <2>2
  <1> QED
    BY <1>1, <1>2, <1>3, <1>4 DEF TD!Next, TD!CancelNext, TD!StrerrorNext, TD!ThreadStep,
       TD!StrerrorExited, TD!Thread, TD!MainStep, TD!Spurious, TD!CancelExited, TD!Progs, TD!Runs,
       TD!machine, machine

MCInv == IInv /\ IncrInv /\ BoundInv /\ ThreadPart

(* Every program starts in its invariant, and one that does not run stays  *)
(* there.                                                                  *)
LEMMA InitMCInv == MCInit => MCInv
  <1> SUFFICES ASSUME MCInit PROVE MCInv
    OBVIOUS
  <1>1. IInv
    BY InitIInv DEF MCInit
  <1>2. IncrInv
    BY InitIncrInv DEF MCInit
  <1>3. BoundInv
    BY DEF MCInit, TI!Init, BoundInv, Stored, TI!Threads
  <1>4. ThreadPart
    BY ThreadInit DEF MCInit, NotRunning, ThreadPart, Runs
  <1> QED BY <1>1, <1>2, <1>3, <1>4 DEF MCInv

(* A step of one program leaves the invariants of the others alone. *)
LEMMA StepMCInv == MCInv /\ [MCNext]_<<machine, vars, tiVars>> => MCInv'
  <1> SUFFICES ASSUME MCInv, [MCNext]_<<machine, vars, tiVars>> PROVE MCInv'
    OBVIOUS
  <1>1. /\ Next \/ UNCHANGED vars
        /\ TI!Next \/ UNCHANGED TI!vars
        /\ TD!Next \/ UNCHANGED machine
    BY DEF MCNext, tiVars, TI!vars
  <1>2. IInv'
    BY <1>1, StepControl, StepCount DEF MCInv, IInv
  <1>3. IncrInv' /\ BoundInv'
    BY <1>1, StepIncrInv, StepBound DEF MCInv
  <1>4. ThreadPart'
    BY <1>1, ThreadStep DEF MCInv
  <1> QED BY <1>2, <1>3, <1>4 DEF MCInv

(* The inductive invariant holds in every reachable state. *)
LEMMA Invariance == MCSpec => []MCInv
  BY InitMCInv, StepMCInv, PTL DEF MCSpec

-----------------------------------------------------------------------------
(* thread_multijoin.c: the counters stay within 0 .. totThreads and the    *)
(* loop index within the array; thread_incr*.c: glob and loc stay ints,    *)
(* the semaphore's value stays 0 or 1 and j never passes loops.            *)
THEOREM TypeCorrect == MCSpec => [](TypeOK /\ TI!TypeOK)
  <1>1. IInv /\ IncrInv => TypeOK /\ TI!TypeOK
    <2> SUFFICES ASSUME IInv, IncrInv PROVE TypeOK /\ TI!TypeOK
      OBVIOUS
    <2> USE DEF IInv, ControlInv, BasicType
    <2>1. Cardinality(Dead) \in 0 .. N /\ Cardinality(Unjoined) \in 0 .. N
      BY SubsetFinite DEF Dead, Unjoined
    <2>2. ASSUME NEW i \in Threads, tpc[i] = "mark"
          PROVE  Cardinality(Dead) + 1 \in 0 .. N
      <3>1. i \notin Dead /\ Dead \cup {i} \subseteq Threads
        BY <2>2 DEF StateInv, Dead
      <3>2. IsFiniteSet(Dead)
        BY SubsetFinite DEF Dead
      <3>3. Cardinality(Dead \cup {i}) = Cardinality(Dead) + 1
        BY <3>1, <3>2, FS_AddElement
      <3> QED BY <3>1, <3>3, SubsetFinite
    <2>3. numUnjoined \in 0 .. N /\ numLive \in 0 .. N
      BY <2>1, <2>2 DEF CountInv
    <2> QED BY <2>3 DEF TypeOK, IncrInv
  <1> QED BY Invariance, <1>1, PTL DEF MCInv

(* thread_multijoin.c: "Protects all of the following global variables":   *)
(* whenever the mutex is free, numUnjoined and numLive count the states.   *)
THEOREM CountersCorrect == MCSpec => []CountersAgree
  <1>1. IInv => CountersAgree
    <2> SUFFICES ASSUME IInv, threadMutex = Free
                 PROVE  /\ numUnjoined = Cardinality(Dead)
                        /\ numLive = Cardinality(Unjoined)
      BY DEF CountersAgree, Dead, Unjoined
    <2>1. \A i \in Threads : tpc[i] # "mark"
      BY NAssumption DEF IInv, ControlInv, MutexInv, Critical, Free, Threads
    <2>2. Cardinality(Dead) \in 0 .. N
      BY SubsetFinite DEF Dead
    <2> QED BY <2>1, <2>2 DEF IInv, CountInv
  <1> QED BY Invariance, <1>1, PTL DEF MCInv

(* thread_multijoin.c:92: pthread_join() under the mutex only ever waits   *)
(* for a thread that has given the mutex up for good.                      *)
THEOREM JoinSafe == MCSpec => []JoinCannotBlock
  <1>1. IInv => JoinCannotBlock
    BY NAssumption DEF IInv, ControlInv, BasicType, StateInv, MutexInv, Critical,
       Holding, Main, Threads, JoinCannotBlock
  <1> QED BY Invariance, <1>1, PTL DEF MCInv

(* thread_multijoin.c:84: main() never sleeps through the last signal.     *)
THEOREM WakeupSafe == MCSpec => []NoLostWakeup
  <1>1. IInv => NoLostWakeup
    BY DEF IInv, ControlInv
  <1> QED BY Invariance, <1>1, PTL DEF MCInv

(* thread_incr_mutex.c, thread_incr_psem.c, thread_incr_spinlock.c: what   *)
(* main() prints is the number of increments, for every INT_MAX and loops; *)
(* thread_incr.c without a lock prints at least 2 (1 for a single loop)    *)
(* and at most all of them.                                                *)
THEOREM NoLostUpdate == MCSpec => []FinalCount
  <1>1. IncrInv /\ BoundInv => FinalCount
    BY BoundEnds DEF IncrInv, FinalCount
  <1> QED BY Invariance, <1>1, PTL DEF MCInv

(* thread_cleanup.c: wherever the cancel request is acted on the handler   *)
(* unlocks what it owns and the thread leaves nothing behind;              *)
(* strerror_tsd.c, strerror_tls.c: every thread prints its own message     *)
(* from a buffer that has not been freed.                                  *)
THEOREM ThreadsOwnAlways == MCSpec => []ThreadsOwn
  <1>1. ThreadPart => TD!CleanupComplete
    BY DEF ThreadPart, Runs, TD!Runs, TD!CleanupComplete, CleanupInv, CleanupType, OwnerInv,
       HandlerInv, RequestInv
  <1>2. ThreadPart => TD!OwnMessage
    BY DEF ThreadPart, Runs, TD!Runs, TD!OwnMessage, StrerrorInv, BlocksInv, MessageInv, Own, Copied,
       TD!Err
  <1>3. MCInv => ThreadsOwn
    BY <1>1, <1>2 DEF MCInv, ThreadsOwn
  <1> QED BY Invariance, <1>3, PTL
=============================================================================
