------------------------------ MODULE ProdCons ------------------------------
(***************************************************************************)
(* 30-thread-sync/prod_condvar.c ("condvar") and prod_no_condvar.c         *)
(* ("poll"): one producer thread per argument, each making cnt units, and  *)
(* main() consuming them.  'avail' is guarded by the mutex 'mtx'.  In      *)
(* "condvar" main() sleeps in pthread_cond_wait() and producers signal     *)
(* AFTER they have unlocked the mutex; in "poll" main() spins.             *)
(* Arguments go through atoi(), so zero and negative counts are inputs the *)
(* programs accept; such a producer makes nothing, and totRequired is the  *)
(* plain sum.  pthread_create() may fail; the other calls do not.          *)
(***************************************************************************)
EXTENDS Integers, FiniteSets

CONSTANTS Producers,    \* one thread per command-line argument
          MaxCnt        \* bound on the arguments: -1 .. MaxCnt

ASSUME ConstantsAssumption ==
    /\ MaxCnt \in Nat /\ IsFiniteSet(Producers)
    /\ "main" \notin Producers /\ "free" \notin Producers

VARIABLES prog,         \* "condvar" or "poll"
          cnt,          \* per producer: its argument
          ppc, made,    \* per producer: position in producer(), its counter j
          reg,          \* per producer: the value avail++ has loaded
          mpc,          \* position of main()
          mtx,          \* the thread that holds the mutex, or "free"
          avail,        \* units produced and not yet consumed
          totRequired, numConsumed, done

vars == <<prog, cnt, ppc, made, reg, mpc, mtx, avail, totRequired, numConsumed, done>>
consumerVars == <<totRequired, numConsumed, done>>

Init ==
    /\ prog \in {"condvar", "poll"}
    /\ cnt \in [Producers -> -1 .. MaxCnt]
    /\ ppc = [p \in Producers |-> "new"]
    /\ made = [p \in Producers |-> 0]
    /\ reg = [p \in Producers |-> 0]
    /\ mpc = "create"
    /\ mtx = "free"
    /\ avail = 0
    /\ totRequired = 0
    /\ numConsumed = 0
    /\ done = FALSE

Exited == mpc \in {"exit", "failed"}

-----------------------------------------------------------------------------
(* producer() *)

At(p, label) == ~Exited /\ ppc[p] = label
Goto(p, label) == ppc' = [ppc EXCEPT ![p] = label]

(* Mutant: a failed pthread_mutex_trylock() is not noticed. *)
ProducerTryLock(p) ==
    /\ At(p, "loop")
    /\ made[p] < cnt[p]
    /\ mtx' = IF mtx = "free" THEN p ELSE mtx
    /\ Goto(p, "load")
    /\ UNCHANGED <<prog, cnt, reg, made, mpc, avail, consumerVars>>

ProducerLock(p) ==
    /\ At(p, "loop")
    /\ made[p] < cnt[p]
    /\ mtx = "free"
    /\ mtx' = p
    /\ Goto(p, "load")
    /\ UNCHANGED <<prog, cnt, reg, made, mpc, avail, consumerVars>>

(* avail++ is a load and a store. *)
ProducerLoad(p) ==
    /\ At(p, "load")
    /\ reg' = [reg EXCEPT ![p] = avail]
    /\ Goto(p, "store")
    /\ UNCHANGED <<prog, cnt, made, mpc, mtx, avail, consumerVars>>

ProducerStore(p) ==
    /\ At(p, "store")
    /\ avail' = reg[p] + 1
    /\ Goto(p, "unlock")
    /\ UNCHANGED <<prog, cnt, reg, made, mpc, mtx, consumerVars>>

(* prod_no_condvar.c: unlock and j++. *)
PollProducerUnlock(p) ==
    /\ At(p, "unlock")
    /\ mtx' = "free"
    /\ made' = [made EXCEPT ![p] = @ + 1]
    /\ Goto(p, "loop")
    /\ UNCHANGED <<prog, cnt, reg, mpc, avail, consumerVars>>

(* prod_condvar.c: unlock, and only then signal. *)
ProducerUnlock(p) ==
    /\ At(p, "unlock")
    /\ mtx' = "free"
    /\ Goto(p, "signal")
    /\ UNCHANGED <<prog, cnt, reg, made, mpc, avail, consumerVars>>

(* Mutant: pthread_cond_signal() is not called for the last unit. *)
ProducerSignalButLast(p) ==
    /\ At(p, "signal")
    /\ mpc' = IF mpc = "wait" /\ made[p] + 1 < cnt[p] THEN "relock" ELSE mpc
    /\ made' = [made EXCEPT ![p] = @ + 1]
    /\ Goto(p, "loop")
    /\ UNCHANGED <<prog, cnt, reg, mtx, avail, consumerVars>>

(* pthread_cond_signal() wakes main() if it is waiting, and is lost if it  *)
(* is not; then j++.                                                       *)
ProducerSignal(p) ==
    /\ At(p, "signal")
    /\ mpc' = IF mpc = "wait" THEN "relock" ELSE mpc
    /\ made' = [made EXCEPT ![p] = @ + 1]
    /\ Goto(p, "loop")
    /\ UNCHANGED <<prog, cnt, reg, mtx, avail, consumerVars>>

ProducerReturn(p) ==
    /\ At(p, "loop")
    /\ made[p] >= cnt[p]
    /\ Goto(p, "done")
    /\ UNCHANGED <<prog, cnt, reg, made, mpc, mtx, avail, consumerVars>>

Producing(p) ==
    ProducerLock(p) \/ ProducerLoad(p) \/ ProducerStore(p) \/ ProducerReturn(p)

condvar_producer(p) ==
    prog = "condvar" /\ (Producing(p) \/ ProducerUnlock(p) \/ ProducerSignal(p))

poll_producer(p) == prog = "poll" /\ (Producing(p) \/ PollProducerUnlock(p))

producer(p) == condvar_producer(p) \/ poll_producer(p)

-----------------------------------------------------------------------------
(* main() *)

Create(p) ==
    /\ mpc = "create"
    /\ ppc[p] = "new"
    /\ totRequired' = totRequired + cnt[p]
    /\ \/ Goto(p, "loop") /\ mpc' = mpc
       \/ UNCHANGED ppc /\ mpc' = "failed"         \* errExitEN()
    /\ UNCHANGED <<prog, cnt, reg, made, mtx, avail, numConsumed, done>>

AllCreated ==
    /\ mpc = "create"
    /\ \A p \in Producers : ppc[p] # "new"
    /\ mpc' = "lock"
    /\ UNCHANGED <<prog, cnt, reg, ppc, made, mtx, avail, consumerVars>>

(* prod_no_condvar.c goes from the lock straight to the consuming loop. *)
PollLock ==
    /\ mpc = "lock"
    /\ mtx = "free"
    /\ mtx' = "main"
    /\ mpc' = "consume"
    /\ UNCHANGED <<prog, cnt, reg, ppc, made, avail, consumerVars>>

(* The first lock and the one pthread_cond_wait() takes before it returns. *)
ConsumerLock ==
    /\ mpc \in {"lock", "relock"}
    /\ mtx = "free"
    /\ mtx' = "main"
    /\ mpc' = "check"
    /\ UNCHANGED <<prog, cnt, reg, ppc, made, avail, consumerVars>>

(* Mutant: the mutex is unlocked first and main() starts waiting later. *)
CheckThenWait ==
    /\ mpc \in {"check", "lock"}
    /\ \/ /\ mpc = "check" /\ avail > 0 /\ mpc' = "consume" /\ mtx' = mtx
       \/ /\ mpc = "check" /\ avail = 0 /\ mpc' = "lock" /\ mtx' = "free"
       \/ /\ prog = "condvar" /\ mpc = "lock" /\ mpc' = "wait" /\ mtx' = mtx
    /\ UNCHANGED <<prog, cnt, reg, ppc, made, avail, consumerVars>>

(* while (avail == 0): pthread_cond_wait() unlocks and waits in one step. *)
Check ==
    /\ mpc = "check"
    /\ \/ avail > 0 /\ mpc' = "consume" /\ mtx' = mtx
       \/ avail = 0 /\ mpc' = "wait" /\ mtx' = "free"
    /\ UNCHANGED <<prog, cnt, reg, ppc, made, avail, consumerVars>>

(* POSIX lets pthread_cond_wait() return without a signal. *)
SpuriousWakeup ==
    /\ mpc = "wait"
    /\ mpc' = "relock"
    /\ UNCHANGED <<prog, cnt, reg, ppc, made, mtx, avail, consumerVars>>

Consume ==
    /\ mpc = "consume"
    /\ avail > 0
    /\ numConsumed' = numConsumed + 1
    /\ avail' = avail - 1
    /\ done' = (numConsumed' >= totRequired)
    /\ UNCHANGED <<prog, cnt, reg, ppc, made, mpc, mtx, totRequired>>

ConsumerUnlock ==
    /\ mpc = "consume"
    /\ avail = 0
    /\ mtx' = "free"
    /\ mpc' = IF done THEN "exit" ELSE "lock"
    /\ UNCHANGED <<prog, cnt, reg, ppc, made, avail, consumerVars>>

Creating  == (\E p \in Producers : Create(p)) \/ AllCreated
Consuming == Consume \/ ConsumerUnlock

condvar_main ==
    prog = "condvar" /\ (Creating \/ ConsumerLock \/ Check \/ Consuming)

poll_main == prog = "poll" /\ (Creating \/ PollLock \/ Consuming)

MainStep == condvar_main \/ poll_main

Terminated == Exited /\ UNCHANGED vars

Next ==
    \/ MainStep \/ SpuriousWakeup \/ (\E p \in Producers : producer(p))
    \/ Terminated

(* Every runnable thread runs; a thread that keeps finding the mutex free  *)
(* eventually gets it (the futex queue), even against a polling main().    *)
(* Nothing promises a spurious wakeup.                                     *)
Fairness ==
    /\ SF_vars(MainStep)
    /\ \A p \in Producers : SF_vars(producer(p))

Spec == Init /\ [][Next]_vars /\ Fairness

-----------------------------------------------------------------------------
TypeOK ==
    /\ prog \in {"condvar", "poll"}
    /\ cnt \in [Producers -> -1 .. MaxCnt]
    /\ ppc \in [Producers ->
                {"new", "loop", "load", "store", "unlock", "signal", "done"}]
    /\ made \in [Producers -> Nat]
    /\ reg \in [Producers -> Nat]
    /\ mpc \in {"create", "lock", "check", "wait", "relock", "consume",
                "exit", "failed"}
    /\ mtx \in Producers \cup {"main", "free"}
    /\ avail \in Nat
    /\ totRequired \in Int
    /\ numConsumed \in Nat
    /\ done \in BOOLEAN

(* Units that producer p has added to avail. *)
Added(p) == IF ppc[p] \in {"unlock", "signal"} THEN made[p] + 1 ELSE made[p]

(* The units made when every producer p makes n[p]: <<p, 1>>, <<p, 2>>,... *)
Units(n) == {u \in Producers \X (1 .. MaxCnt) : u[2] <= n[u[1]]}

(* No unit is lost or consumed twice, whatever the interleaving of the     *)
(* producers' avail++ with main()'s avail--; and main() leaves with every  *)
(* unit consumed, unless a negative argument made totRequired smaller than *)
(* what the producers make.                                                *)
Conservation ==
    /\ Cardinality(Units([p \in Producers |-> Added(p)])) = avail + numConsumed
    /\ mpc = "exit" /\ (\A p \in Producers : cnt[p] >= 0) =>
          numConsumed = Cardinality(Units(cnt))

(* While main() sleeps with units available, a producer is still on its    *)
(* way to pthread_cond_signal(): the signal sent after the unlock is never *)
(* the one main() needed and missed.                                       *)
NoLostWakeup ==
    mpc = "wait" /\ avail > 0 =>
        \E p \in Producers : ppc[p] \in {"unlock", "signal"}

(* main() ends exactly when the arguments ask for at least one unit: 'done'*)
(* is only computed inside the consuming loop, so with nothing to produce  *)
(* main() sleeps (or polls) for ever.                                      *)
EndsIffUnits ==
    /\ (\E p \in Producers : cnt[p] > 0) ~> Exited
    /\ (\A p \in Producers : cnt[p] <= 0) => [](mpc # "exit")
=============================================================================
