------------------------------ MODULE MultiJoin ------------------------------
(***************************************************************************)
(* 30-thread-sync/thread_multijoin.c: main() creates N threads and joins   *)
(* each one as it terminates.  A thread marks itself TS_TERMINATED under   *)
(* threadMutex, unlocks, and then signals threadDied; main() calls         *)
(* pthread_join() while it HOLDS threadMutex.                              *)
(***************************************************************************)
EXTENDS Integers, FiniteSets

CONSTANT N                      \* argc - 1, the number of threads

ASSUME NAssumption == N \in Nat \ {0}

VARIABLES state,                \* thread[idx].state
          tpc,                  \* per thread: position in threadFunc()
          numLive, numUnjoined,
          threadMutex,          \* its holder: a thread, Main or Free
          mpc, idx              \* position of main() and its loop index

vars == <<state, tpc, numLive, numUnjoined, threadMutex, mpc, idx>>

Threads == 0 .. N - 1
Main == N
Free == N + 1

Init ==
    /\ state = [i \in Threads |-> "ALIVE"]
    /\ tpc = [i \in Threads |-> "new"]
    /\ numLive = N
    /\ numUnjoined = 0
    /\ threadMutex = Free
    /\ mpc = "create"
    /\ idx = 0

Exited == mpc \in {"exit", "failed"}

-----------------------------------------------------------------------------
(* threadFunc() *)

Step(i, from, to) ==
    /\ ~Exited
    /\ tpc[i] = from
    /\ tpc' = [tpc EXCEPT ![i] = to]

(* Mutant: the thread marks itself before it takes the mutex. *)
WakeMarks(i) ==
    /\ Step(i, "sleep", "lock")
    /\ state' = [state EXCEPT ![i] = "TERMINATED"]
    /\ UNCHANGED <<numLive, numUnjoined, threadMutex, mpc, idx>>

(* sleep() is over. *)
Wake(i) ==
    /\ Step(i, "sleep", "lock")
    /\ UNCHANGED <<state, numLive, numUnjoined, threadMutex, mpc, idx>>

Lock(i) ==
    /\ Step(i, "lock", "count")
    /\ threadMutex = Free
    /\ threadMutex' = i
    /\ UNCHANGED <<state, numLive, numUnjoined, mpc, idx>>

Count(i) ==
    /\ Step(i, "count", "mark")
    /\ numUnjoined' = numUnjoined + 1
    /\ UNCHANGED <<state, numLive, threadMutex, mpc, idx>>

Mark(i) ==
    /\ Step(i, "mark", "unlock")
    /\ state' = [state EXCEPT ![i] = "TERMINATED"]
    /\ UNCHANGED <<numLive, numUnjoined, threadMutex, mpc, idx>>

Unlock(i) ==
    /\ Step(i, "unlock", "signal")
    /\ threadMutex' = Free
    /\ UNCHANGED <<state, numLive, numUnjoined, mpc, idx>>

(* Mutant: pthread_cond_signal() is missing. *)
SignalNobody(i) ==
    /\ Step(i, "signal", "done")
    /\ UNCHANGED <<state, numLive, numUnjoined, threadMutex, mpc, idx>>

(* pthread_cond_signal() wakes main() if it waits; the thread returns. *)
Signal(i) ==
    /\ Step(i, "signal", "done")
    /\ mpc' = IF mpc = "wait" THEN "relock" ELSE mpc
    /\ UNCHANGED <<state, numLive, numUnjoined, threadMutex, idx>>

threadFunc(i) ==
    Wake(i) \/ Lock(i) \/ Count(i) \/ Mark(i) \/ Unlock(i) \/ Signal(i)

-----------------------------------------------------------------------------
(* main() *)

(* getInt() on the argument and pthread_create() both may end the process. *)
Create ==
    /\ mpc = "create"
    /\ idx < N
    /\ \/ /\ tpc' = [tpc EXCEPT ![idx] = "sleep"]
          /\ idx' = idx + 1
          /\ mpc' = IF idx' = N THEN "test" ELSE "create"
       \/ mpc' = "failed" /\ UNCHANGED <<tpc, idx>>
    /\ UNCHANGED <<state, numLive, numUnjoined, threadMutex>>

(* while (numLive > 0) *)
TestLive ==
    /\ mpc = "test"
    /\ mpc' = IF numLive > 0 THEN "lock" ELSE "exit"
    /\ UNCHANGED <<state, tpc, numLive, numUnjoined, threadMutex, idx>>

(* The loop's lock, or the one pthread_cond_wait() takes on its way out. *)
MainLock ==
    /\ mpc \in {"lock", "relock"}
    /\ threadMutex = Free
    /\ threadMutex' = Main
    /\ mpc' = "check"
    /\ UNCHANGED <<state, tpc, numLive, numUnjoined, idx>>

(* Mutant: the mutex is given up before main() is on the condition's wait  *)
(* queue.                                                                  *)
CheckThenWait ==
    /\ mpc \in {"check", "test"}
    /\ \/ /\ mpc = "test" /\ mpc' = "wait" /\ UNCHANGED <<threadMutex, idx>>
       \/ /\ mpc = "check" /\ numUnjoined = 0
          /\ mpc' = "test" /\ threadMutex' = Free /\ UNCHANGED idx
       \/ /\ mpc = "check" /\ numUnjoined # 0
          /\ mpc' = "scan" /\ idx' = 0 /\ UNCHANGED threadMutex
    /\ UNCHANGED <<state, tpc, numLive, numUnjoined>>

(* while (numUnjoined == 0) pthread_cond_wait() *)
Check ==
    /\ mpc = "check"
    /\ \/ /\ numUnjoined = 0
          /\ mpc' = "wait" /\ threadMutex' = Free /\ UNCHANGED idx
       \/ /\ numUnjoined # 0
          /\ mpc' = "scan" /\ idx' = 0 /\ UNCHANGED threadMutex
    /\ UNCHANGED <<state, tpc, numLive, numUnjoined>>

SpuriousWakeup ==
    /\ mpc = "wait"
    /\ mpc' = "relock"
    /\ UNCHANGED <<state, tpc, numLive, numUnjoined, threadMutex, idx>>

Skip ==
    /\ mpc = "scan"
    /\ idx < N
    /\ state[idx] # "TERMINATED"
    /\ idx' = idx + 1
    /\ UNCHANGED <<state, tpc, numLive, numUnjoined, threadMutex, mpc>>

(* pthread_join() blocks until the thread has returned. *)
Join ==
    /\ mpc = "scan"
    /\ idx < N
    /\ state[idx] = "TERMINATED"
    /\ tpc[idx] = "done"
    /\ state' = [state EXCEPT ![idx] = "JOINED"]
    /\ numLive' = numLive - 1
    /\ numUnjoined' = numUnjoined - 1
    /\ idx' = idx + 1
    /\ UNCHANGED <<tpc, threadMutex, mpc>>

MainUnlock ==
    /\ mpc = "scan"
    /\ idx = N
    /\ threadMutex' = Free
    /\ mpc' = "test"
    /\ UNCHANGED <<state, tpc, numLive, numUnjoined, idx>>

MainStep ==
    Create \/ TestLive \/ MainLock \/ Check \/ Skip \/ Join \/ MainUnlock

Terminated == Exited /\ UNCHANGED vars

Next ==
    \/ MainStep \/ SpuriousWakeup \/ (\E i \in Threads : threadFunc(i))
    \/ Terminated

(* The kernel runs every runnable thread and every sleep() ends; a waiter  *)
(* that keeps finding the mutex free gets it.                              *)
Fairness == SF_vars(MainStep) /\ \A i \in Threads : SF_vars(threadFunc(i))

Spec == Init /\ [][Next]_vars /\ Fairness

-----------------------------------------------------------------------------
TypeOK ==
    /\ state \in [Threads -> {"ALIVE", "TERMINATED", "JOINED"}]
    /\ tpc \in [Threads -> {"new", "sleep", "lock", "count", "mark", "unlock",
                            "signal", "done"}]
    /\ numLive \in 0 .. N
    /\ numUnjoined \in 0 .. N
    /\ threadMutex \in 0 .. N + 1
    /\ mpc \in {"create", "test", "lock", "check", "wait", "relock", "scan",
                "exit", "failed"}
    /\ idx \in 0 .. N

(* Whenever the mutex is free the two counters agree with the states they  *)
(* summarise ("Protects all of the following global variables").           *)
CountersAgree ==
    threadMutex = Free =>
        /\ numUnjoined = Cardinality({i \in Threads : state[i] = "TERMINATED"})
        /\ numLive = Cardinality({i \in Threads : state[i] # "JOINED"})

(* main() holds the mutex across pthread_join(): the thread it waits for   *)
(* never needs the mutex again, so the join cannot block for ever.         *)
JoinCannotBlock ==
    mpc = "scan" /\ idx < N =>
        (state[idx] = "TERMINATED" => tpc[idx] \in {"signal", "done"})

(* While main() sleeps and a terminated thread is unjoined, some thread is *)
(* still going to call pthread_cond_signal().                              *)
NoLostWakeup ==
    mpc = "wait" /\ numUnjoined > 0 =>
        \E i \in Threads : tpc[i] \in {"mark", "unlock", "signal"}

(* Every thread is joined and main() ends, unless a thread could not be    *)
(* created.                                                                *)
AllJoined ==
    <>(mpc = "failed" \/ (mpc = "exit" /\ \A i \in Threads : state[i] = "JOINED"))
=============================================================================
