----------------------------- MODULE MCThreads -----------------------------
(***************************************************************************)
(* The programs of two or more threads, one of which runs in a behaviour:  *)
(* thread_multijoin (MultiJoin) or, by mem.prog, the counter programs      *)
(* (ThreadIncr), the cancelled threads and strerror_test (ThreadData).  A  *)
(* program that does not run stays in an initial state.                    *)
(***************************************************************************)
EXTENDS MultiJoin, CInt, Machine

VARIABLES prog, loops, glob, permits, pc, loc, j, main, printed     \* ThreadIncr's

tiVars == <<prog, loops, glob, permits, pc, loc, j, main, printed>>

TI == INSTANCE ThreadIncr
TD == INSTANCE ThreadData

MCInit ==
    /\ Init /\ TI!Init
    /\ \/ /\ TD!Init \/ NotRunning
          /\ prog = "none" /\ loops = 1
       \/ at = [main |-> "none"] /\ mem = [prog |-> "thread_incr"] /\ os = {}

MCNext ==
    \/ Runs("none") /\ Next /\ UNCHANGED <<machine, tiVars>>
    \/ Runs("thread_incr") /\ TI!Next /\ UNCHANGED <<machine, vars>>
    \/ TD!Next /\ UNCHANGED <<vars, tiVars>>

MCSpec ==
    /\ MCInit /\ [][MCNext]_<<machine, vars, tiVars>>
    /\ Runs("none") => Fairness
    /\ Runs("thread_incr") => TI!Fairness
    /\ TD!Fairness

-----------------------------------------------------------------------------
(* With a lock no increment is lost; without one the two threads lose      *)
(* increments, but not below 2.                                            *)
FinalCount == TI!FinalCount /\ TI!LostUpdateBound

(* What belongs to a thread stays its own: a cancelled one leaves neither  *)
(* the mutex nor the buffer behind, and thread-specific buffers keep every *)
(* caller's message.                                                       *)
ThreadsOwn == TD!CleanupComplete /\ TD!OwnMessage

(* Every program ends: thread_multijoin with every thread joined, the      *)
(* cancelled thread the way it was asked to, nobody waiting for a lock,    *)
(* pthread_once() or a join for ever.                                      *)
ThreadsEnd ==
    /\ Runs("none") => AllJoined
    /\ Runs("thread_incr") => TI!Termination
    /\ TD!CancelEnds
    /\ TD!StrerrorEnds
=============================================================================
