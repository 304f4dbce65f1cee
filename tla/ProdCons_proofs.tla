--------------------------- MODULE ProdCons_proofs ---------------------------
(***************************************************************************)
(* prod_condvar.c and prod_no_condvar.c for every set of producers and     *)
(* every bound on their counts: types, mutual exclusion on 'avail', the    *)
(* absence of a lost wakeup although the signal follows the unlock, and    *)
(* the conservation of units, which are counted as the elements of a set.  *)
(***************************************************************************)
EXTENDS ProdCons, FiniteSetTheorems, TLAPS

(* Inside the mutex. *)
Critical == {"load", "store", "unlock"}

(* The mutex is held by the thread inside its critical section. *)
MutexInv ==
    /\ \A p \in Producers : ppc[p] \in Critical => mtx = p
    /\ mpc \in {"check", "consume"} => mtx = "main"

(* The value avail++ loaded is still current when it is stored. *)
FreshInv == \A p \in Producers : ppc[p] = "store" => reg[p] = avail

(* prod_no_condvar.c never waits on a condition variable. *)
PollInv == prog = "poll" => mpc \notin {"check", "wait", "relock"}

IInv == TypeOK /\ MutexInv /\ FreshInv /\ PollInv /\ NoLostWakeup

(* A step that changes avail changes it by one and leaves the mutex held.  *)
ExactUpdate ==
    avail' # avail => /\ avail' \in {avail - 1, avail + 1}
                      /\ mtx # "free" /\ mtx' = mtx

-----------------------------------------------------------------------------
(* The initial states. *)
LEMMA InitIInv == Init => IInv
  <1> SUFFICES ASSUME Init PROVE IInv
    OBVIOUS
  <1> USE ConstantsAssumption DEF Init
  <1>1. /\ ppc \in [Producers -> {"new", "loop", "load", "store", "unlock",
                                  "signal", "done"}]
        /\ made \in [Producers -> Nat] /\ reg \in [Producers -> Nat]
    OBVIOUS
  <1>2. /\ prog \in {"condvar", "poll"}
        /\ cnt \in [Producers -> -1 .. MaxCnt]
        /\ mpc = "create" /\ mtx = "free"
        /\ avail \in Nat /\ totRequired \in Int /\ numConsumed \in Nat
    OBVIOUS
  <1>3. done \in BOOLEAN
    BY Zenon
  <1>4. TypeOK
    BY <1>1, <1>2, <1>3, Zenon DEF TypeOK
  <1>5. MutexInv /\ FreshInv /\ PollInv /\ NoLostWakeup
    BY DEF MutexInv, FreshInv, PollInv, NoLostWakeup, Critical
  <1> QED BY <1>4, <1>5 DEF IInv

(* Every step of a producer or of main(). *)
LEMMA StepIInv == IInv /\ [Next]_vars => IInv'
  <1> SUFFICES ASSUME IInv, [Next]_vars PROVE IInv'
    OBVIOUS
  <1> USE ConstantsAssumption DEF IInv, TypeOK, MutexInv, FreshInv, PollInv,
          NoLostWakeup, Critical, consumerVars, At, Goto
  <1>1. ASSUME NEW p \in Producers, ProducerLock(p) PROVE IInv'
    BY <1>1 DEF ProducerLock
  <1>2. ASSUME NEW p \in Producers, ProducerLoad(p) PROVE IInv'
    BY <1>2 DEF ProducerLoad
  <1>3. ASSUME NEW p \in Producers, ProducerStore(p) PROVE IInv'
    BY <1>3 DEF ProducerStore
  <1>4. ASSUME NEW p \in Producers, PollProducerUnlock(p), prog = "poll" PROVE IInv'
    BY <1>4 DEF PollProducerUnlock
  <1>5. ASSUME NEW p \in Producers, ProducerUnlock(p) PROVE IInv'
    BY <1>5 DEF ProducerUnlock
  <1>6. ASSUME NEW p \in Producers, ProducerSignal(p) PROVE IInv'
    BY <1>6 DEF ProducerSignal
  <1>7. ASSUME NEW p \in Producers, ProducerReturn(p) PROVE IInv'
    BY <1>7 DEF ProducerReturn
  <1>8. ASSUME NEW p \in Producers, Create(p) PROVE IInv'
    BY <1>8 DEF Create
  <1>9. CASE AllCreated
    BY <1>9 DEF AllCreated
  <1>10. CASE PollLock
    BY <1>10 DEF PollLock
  <1>11. CASE ConsumerLock /\ prog = "condvar"
    BY <1>11 DEF ConsumerLock
  <1>12. CASE Check
    BY <1>12 DEF Check
  <1>13. CASE Consume
    BY <1>13 DEF Consume
  <1>14. CASE ConsumerUnlock
    BY <1>14 DEF ConsumerUnlock
  <1>15. CASE SpuriousWakeup
    BY <1>15 DEF SpuriousWakeup
  <1>16. CASE UNCHANGED vars
    BY <1>16 DEF vars
  <1> QED
    BY <1>1, <1>2, <1>3, <1>4, <1>5, <1>6, <1>7, <1>8, <1>9, <1>10, <1>11,
       <1>12, <1>13, <1>14, <1>15, <1>16
    DEF Next, MainStep, condvar_main, poll_main, Creating, Consuming, producer,
        condvar_producer, poll_producer, Producing, Terminated

(* The inductive invariant holds in every reachable state. *)
THEOREM Invariance == Spec => []IInv
  BY InitIInv, StepIInv, PTL DEF Spec

(* prod_condvar.c, prod_no_condvar.c: avail never goes negative, whatever  *)
(* the number of producers.                                                *)
THEOREM TypeCorrect == Spec => []TypeOK
  <1>1. IInv => TypeOK BY DEF IInv
  <1> QED BY Invariance, <1>1, PTL

(* prod_condvar.c:48, the signal after the unlock: main() never sleeps     *)
(* with units available and no producer left to signal.                    *)
THEOREM WakeupSafe == Spec => []NoLostWakeup
  <1>1. IInv => NoLostWakeup BY DEF IInv
  <1> QED BY Invariance, <1>1, PTL

(* avail++ and avail-- never overlap: avail changes by exactly one unit,   *)
(* under a mutex that its holder keeps.                                    *)
THEOREM ExactUpdates == Spec => [][ExactUpdate]_vars
  <1>1. IInv /\ [Next]_vars => [ExactUpdate]_vars
    <2> SUFFICES ASSUME IInv, Next PROVE ExactUpdate
      BY DEF vars
    <2> USE DEF ExactUpdate, IInv, TypeOK, MutexInv, Critical, FreshInv,
            consumerVars, At
    <2>1. ASSUME NEW p \in Producers, producer(p) PROVE ExactUpdate
      BY <2>1, ConstantsAssumption DEF producer, condvar_producer,
         poll_producer, Producing, ProducerLock, ProducerLoad, ProducerStore,
         ProducerReturn, ProducerUnlock, ProducerSignal, PollProducerUnlock
    <2>2. CASE MainStep
      BY <2>2 DEF MainStep, condvar_main, poll_main, Creating, Consuming, Create,
         AllCreated, ConsumerLock, PollLock, Check, Consume, ConsumerUnlock
    <2>3. CASE SpuriousWakeup \/ Terminated
      BY <2>3 DEF SpuriousWakeup, Terminated, vars
    <2> QED BY <2>1, <2>2, <2>3 DEF Next
  <1> QED BY Invariance, <1>1, PTL DEF Spec

-----------------------------------------------------------------------------
(* Conservation *)

AddedUnits == Units([p \in Producers |-> Added(p)])

(* A producer is inside its loop only for a unit it was asked for. *)
LoopInv ==
    \A p \in Producers :
        /\ ppc[p] \in {"load", "store", "unlock", "signal"} => made[p] < cnt[p]
        /\ made[p] > 0 => made[p] <= cnt[p]
        /\ ppc[p] = "new" => made[p] = 0

(* Every producer is created before main() consumes. *)
PlaceInv == mpc \notin {"create", "failed"} => \A p \in Producers : ppc[p] # "new"

(* 'done' is computed after a unit was consumed, and stays true. *)
DoneInv ==
    /\ done => numConsumed >= totRequired /\ numConsumed > 0
    /\ mpc \in {"create", "failed"} => ~done
    /\ mpc = "exit" => done /\ avail = 0

SumInv == Cardinality(AddedUnits) = avail + numConsumed

(* totRequired counts the units asked of the producers created so far. *)
Wanted == {u \in Producers \X (1 .. MaxCnt) : ppc[u[1]] # "new" /\ u[2] <= cnt[u[1]]}

WantInv ==
    (\A p \in Producers : cnt[p] >= 0) /\ mpc # "failed" => totRequired = Cardinality(Wanted)

UnitsInv == LoopInv /\ PlaceInv /\ DoneInv /\ SumInv /\ WantInv

(* A step adds no unit and moves at most one from avail to numConsumed, or *)
(* adds one of one producer, to avail.                                     *)
StepConserves ==
    \/ /\ \A p \in Producers : Added(p)' = Added(p)
       /\ (avail + numConsumed)' = avail + numConsumed
    \/ /\ (avail + numConsumed)' = avail + numConsumed + 1
       /\ \E p \in Producers :
             /\ Added(p)' = Added(p) + 1 /\ Added(p)' \in 1 .. MaxCnt
             /\ \A q \in Producers \ {p} : Added(q)' = Added(q)

(* There are finitely many units. *)
LEMMA UnitsFinite ==
    ASSUME NEW U \in SUBSET (Producers \X (1 .. MaxCnt))
    PROVE  IsFiniteSet(U) /\ Cardinality(U) \in Nat
  <1>1. IsFiniteSet(1 .. MaxCnt)
    BY ConstantsAssumption, FS_Interval
  <1>2. IsFiniteSet(Producers \X (1 .. MaxCnt))
    BY <1>1, ConstantsAssumption, FS_Product
  <1>3. IsFiniteSet(U)
    BY <1>2, FS_Subset
  <1> QED BY <1>3, FS_CardinalityType

(* One more of one producer is one more in all. *)
LEMMA OneMore ==
    ASSUME NEW n \in [Producers -> Int], NEW m \in [Producers -> Int], NEW p \in Producers,
           m[p] = n[p] + 1, m[p] \in 1 .. MaxCnt,
           \A q \in Producers \ {p} : m[q] = n[q]
    PROVE  Cardinality(Units(m)) = Cardinality(Units(n)) + 1
  <1>1. Units(m) = Units(n) \cup {<<p, m[p]>>}
    BY ConstantsAssumption DEF Units
  <1>2. <<p, m[p]>> \notin Units(n)
    BY DEF Units
  <1>3. IsFiniteSet(Units(n))
    BY UnitsFinite DEF Units
  <1> QED BY <1>1, <1>2, <1>3, FS_AddElement

(* A producer asked for c units brings c of them. *)
LEMMA UnitsOfOne ==
    ASSUME NEW p \in Producers, NEW c \in 0 .. MaxCnt
    PROVE  IsFiniteSet({p} \X (1 .. c)) /\ Cardinality({p} \X (1 .. c)) = c
  <1>1. IsFiniteSet(1 .. c) /\ Cardinality(1 .. c) = c
    BY ConstantsAssumption, FS_Interval
  <1>2. IsFiniteSet({p}) /\ Cardinality({p}) = 1
    BY FS_Singleton
  <1>3. /\ IsFiniteSet({p} \X (1 .. c))
        /\ Cardinality({p} \X (1 .. c)) = Cardinality({p}) * Cardinality(1 .. c)
    BY <1>1, <1>2, FS_Product
  <1>4. 1 * c = c
    BY ConstantsAssumption
  <1> QED BY <1>1, <1>2, <1>3, <1>4

(* The initial states. *)
LEMMA InitUnits == Init => UnitsInv
  <1> SUFFICES ASSUME Init PROVE UnitsInv
    OBVIOUS
  <1>1. AddedUnits = {} /\ Wanted = {}
    BY ConstantsAssumption DEF Init, AddedUnits, Units, Added, Wanted
  <1>2. Cardinality({}) = 0
    BY FS_EmptySet
  <1>3. SumInv /\ WantInv
    BY <1>1, <1>2 DEF Init, SumInv, WantInv
  <1>4. LoopInv /\ PlaceInv
    BY DEF Init, LoopInv, PlaceInv
  <1>5. DoneInv
    BY DEF Init, DoneInv
  <1> QED BY <1>3, <1>4, <1>5 DEF UnitsInv

(* The control of a producer's loop and of main()'s. *)
LEMMA StepLoop == IInv /\ UnitsInv /\ [Next]_vars => LoopInv' /\ PlaceInv' /\ DoneInv'
  <1> SUFFICES ASSUME IInv, UnitsInv, [Next]_vars PROVE LoopInv' /\ PlaceInv' /\ DoneInv'
    OBVIOUS
  <1> USE DEF IInv, TypeOK, UnitsInv, LoopInv, PlaceInv, DoneInv, consumerVars, At, Goto, Exited
  <1>1. ASSUME NEW p \in Producers, ProducerLock(p) \/ ProducerLoad(p)
        PROVE  LoopInv' /\ PlaceInv' /\ DoneInv'
    BY <1>1 DEF ProducerLock, ProducerLoad
  <1>2. ASSUME NEW p \in Producers, ProducerStore(p) PROVE LoopInv' /\ PlaceInv' /\ DoneInv'
    BY <1>2 DEF ProducerStore
  <1>3. ASSUME NEW p \in Producers, PollProducerUnlock(p) PROVE LoopInv' /\ PlaceInv' /\ DoneInv'
    BY <1>3 DEF PollProducerUnlock
  <1>4. ASSUME NEW p \in Producers, ProducerUnlock(p) \/ ProducerReturn(p)
        PROVE  LoopInv' /\ PlaceInv' /\ DoneInv'
    BY <1>4 DEF ProducerUnlock, ProducerReturn
  <1>5. ASSUME NEW p \in Producers, ProducerSignal(p) PROVE LoopInv' /\ PlaceInv' /\ DoneInv'
    BY <1>5 DEF ProducerSignal
  <1>6. ASSUME NEW p \in Producers, Create(p) PROVE LoopInv' /\ PlaceInv' /\ DoneInv'
    BY <1>6 DEF Create
  <1>7. CASE AllCreated \/ PollLock \/ ConsumerLock \/ Check \/ SpuriousWakeup
    BY <1>7 DEF AllCreated, PollLock, ConsumerLock, Check, SpuriousWakeup
  <1>8. CASE Consume
    BY <1>8 DEF Consume
  <1>9. CASE ConsumerUnlock
    BY <1>9 DEF ConsumerUnlock
  <1>10. CASE UNCHANGED vars
    BY <1>10 DEF vars
  <1> QED
    BY <1>1, <1>2, <1>3, <1>4, <1>5, <1>6, <1>7, <1>8, <1>9, <1>10
    DEF Next, MainStep, condvar_main, poll_main, Creating, Consuming, producer,
        condvar_producer, poll_producer, Producing, Terminated

(* avail++ and avail-- under the mutex count every unit once. *)
LEMMA StepExact == IInv /\ UnitsInv /\ [Next]_vars => StepConserves
  <1> SUFFICES ASSUME IInv, UnitsInv, [Next]_vars PROVE StepConserves
    OBVIOUS
  <1> USE DEF IInv, TypeOK, UnitsInv, LoopInv, Added, consumerVars, At, Goto
  <1>1. ASSUME NEW p \in Producers,
               \/ ProducerLock(p) \/ ProducerLoad(p) \/ PollProducerUnlock(p)
               \/ ProducerUnlock(p) \/ ProducerSignal(p) \/ ProducerReturn(p)
        PROVE  StepConserves
    <2>1. \A q \in Producers : Added(q)' = Added(q)
      BY <1>1 DEF ProducerLock, ProducerLoad, PollProducerUnlock, ProducerUnlock, ProducerSignal,
         ProducerReturn
    <2>2. (avail + numConsumed)' = avail + numConsumed
      BY <1>1 DEF ProducerLock, ProducerLoad, PollProducerUnlock, ProducerUnlock, ProducerSignal,
         ProducerReturn
    <2> QED BY <2>1, <2>2 DEF StepConserves
  <1>2. ASSUME NEW p \in Producers, ProducerStore(p) PROVE StepConserves
    <2>1. /\ \A q \in Producers \ {p} : Added(q)' = Added(q)
          /\ Added(p)' = Added(p) + 1 /\ Added(p)' \in 1 .. MaxCnt
      BY <1>2, ConstantsAssumption DEF ProducerStore
    <2>2. (avail + numConsumed)' = avail + numConsumed + 1
      BY <1>2 DEF ProducerStore, FreshInv
    <2> QED BY <2>1, <2>2 DEF StepConserves
  <1>3. ASSUME NEW p \in Producers, Create(p) PROVE StepConserves
    BY <1>3 DEF Create, StepConserves
  <1>4. CASE \/ AllCreated \/ PollLock \/ ConsumerLock \/ Check \/ SpuriousWakeup
             \/ ConsumerUnlock \/ UNCHANGED vars
    BY <1>4 DEF AllCreated, PollLock, ConsumerLock, Check, SpuriousWakeup, ConsumerUnlock, vars,
       StepConserves
  <1>5. CASE Consume
    BY <1>5 DEF Consume, StepConserves
  <1> QED
    BY <1>1, <1>2, <1>3, <1>4, <1>5
    DEF Next, MainStep, condvar_main, poll_main, Creating, Consuming, producer,
        condvar_producer, poll_producer, Producing, Terminated

(* So the number of units added stays the sum of those available and those *)
(* consumed.                                                               *)
LEMMA StepSum == IInv /\ UnitsInv /\ [Next]_vars => SumInv'
  <1> SUFFICES ASSUME IInv, UnitsInv, [Next]_vars PROVE SumInv'
    OBVIOUS
  <1> DEFINE n == [p \in Producers |-> Added(p)]
             m == [p \in Producers |-> Added(p)']
  <1>1. StepConserves
    BY StepExact
  <1>2. n \in [Producers -> Int] /\ m \in [Producers -> Int]
    <2>1. \A p \in Producers : Added(p) \in Int
      BY DEF Added, IInv, TypeOK
    <2>2. IInv'
      BY StepIInv
    <2>3. \A p \in Producers : Added(p)' \in Int
      BY <2>2 DEF Added, IInv, TypeOK
    <2> QED BY <2>1, <2>3
  <1>3. AddedUnits = Units(n) /\ AddedUnits' = Units(m)
    BY DEF AddedUnits, Units
  <1>4. Cardinality(Units(n)) = avail + numConsumed
    BY <1>3 DEF UnitsInv, SumInv
  <1>5. CASE /\ \A p \in Producers : Added(p)' = Added(p)
             /\ (avail + numConsumed)' = avail + numConsumed
    BY <1>3, <1>4, <1>5 DEF SumInv
  <1>6. ASSUME (avail + numConsumed)' = avail + numConsumed + 1,
               NEW p \in Producers, Added(p)' = Added(p) + 1, Added(p)' \in 1 .. MaxCnt,
               \A q \in Producers \ {p} : Added(q)' = Added(q)
        PROVE  SumInv'
    <2>1. m[p] = n[p] + 1 /\ m[p] \in 1 .. MaxCnt /\ \A q \in Producers \ {p} : m[q] = n[q]
      BY <1>6
    <2> HIDE DEF n, m
    <2>2. Cardinality(Units(m)) = Cardinality(Units(n)) + 1
      BY <1>2, <2>1, OneMore
    <2> QED BY <1>3, <1>4, <1>6, <2>2 DEF SumInv
  <1> QED BY <1>1, <1>5, <1>6 DEF StepConserves

(* main() adds up what it asks for. *)
LEMMA StepWant == IInv /\ UnitsInv /\ [Next]_vars => WantInv'
  <1> SUFFICES ASSUME IInv, UnitsInv, [Next]_vars PROVE WantInv'
    OBVIOUS
  <1>1. ASSUME UNCHANGED <<cnt, totRequired>>,
               \A p \in Producers : ppc'[p] = "new" <=> ppc[p] = "new",
               mpc' # "failed" => mpc # "failed"
        PROVE  WantInv'
    <2>1. Wanted' = Wanted
      BY <1>1 DEF Wanted
    <2> QED BY <1>1, <2>1 DEF UnitsInv, WantInv
  <1>2. ASSUME NEW p \in Producers, Create(p) PROVE WantInv'
    <2> SUFFICES ASSUME \A q \in Producers : cnt[q] >= 0, mpc' # "failed"
                 PROVE  totRequired' = Cardinality(Wanted')
      BY <1>2 DEF WantInv, Create
    <2>1. /\ ppc[p] = "new" /\ ppc' = [ppc EXCEPT ![p] = "loop"] /\ cnt' = cnt
          /\ mpc = "create" /\ totRequired' = totRequired + cnt[p]
          /\ ppc \in [Producers -> {"new", "loop", "load", "store", "unlock", "signal", "done"}]
          /\ cnt[p] \in 0 .. MaxCnt
      BY <1>2, ConstantsAssumption DEF Create, Goto, IInv, TypeOK
    <2> DEFINE new == {p} \X (1 .. cnt[p])
    <2>2. Wanted' = Wanted \cup new
      BY <2>1, ConstantsAssumption DEF Wanted
    <2>3. Wanted \cap new = {}
      BY <2>1 DEF Wanted
    <2>4. IsFiniteSet(new) /\ Cardinality(new) = cnt[p]
      BY <2>1, UnitsOfOne
    <2>5. IsFiniteSet(Wanted) /\ Cardinality(Wanted) \in Nat
      BY UnitsFinite DEF Wanted
    <2> HIDE DEF new
    <2>6. Cardinality(Wanted \cup new) =
              Cardinality(Wanted) + Cardinality(new) - Cardinality(Wanted \cap new)
      BY <2>4, <2>5, FS_Union
    <2>7. Cardinality(Wanted \cap new) = 0
      BY <2>3, FS_EmptySet
    <2>8. totRequired = Cardinality(Wanted)
      BY <2>1 DEF UnitsInv, WantInv
    <2> QED BY <2>1, <2>2, <2>4, <2>5, <2>6, <2>7, <2>8
  <1> USE DEF IInv, TypeOK, consumerVars, At, Goto
  <1>3. ASSUME NEW p \in Producers, producer(p) PROVE WantInv'
    BY <1>1, <1>3 DEF producer, condvar_producer, poll_producer, Producing, ProducerLock,
       ProducerLoad, ProducerStore, ProducerReturn, ProducerUnlock, ProducerSignal,
       PollProducerUnlock
  <1>4. CASE \/ AllCreated \/ PollLock \/ ConsumerLock \/ Check \/ SpuriousWakeup
             \/ Consume \/ ConsumerUnlock \/ UNCHANGED vars
    BY <1>1, <1>4 DEF AllCreated, PollLock, ConsumerLock, Check, SpuriousWakeup, Consume,
       ConsumerUnlock, vars
  <1> QED
    BY <1>2, <1>3, <1>4
    DEF Next, MainStep, condvar_main, poll_main, Creating, Consuming, Terminated

(* Both invariants hold in every reachable state. *)
LEMMA UnitsInvariance == Spec => [](IInv /\ UnitsInv)
  <1>1. IInv /\ UnitsInv /\ [Next]_vars => UnitsInv'
    BY StepLoop, StepSum, StepWant DEF UnitsInv
  <1> QED BY InitIInv, InitUnits, StepIInv, <1>1, PTL DEF Spec

(* prod_condvar.c:42, :97: every unit a producer has added is available    *)
(* or consumed, and once; main() ends with all of them consumed, unless a  *)
(* negative argument made totRequired too small.                           *)
THEOREM UnitsConserved == Spec => []Conservation
  <1>1. IInv /\ UnitsInv => Conservation
    <2> SUFFICES ASSUME IInv, UnitsInv PROVE Conservation
      OBVIOUS
    <2>1. Cardinality(AddedUnits) = avail + numConsumed
      BY DEF UnitsInv, SumInv
    <2>2. ASSUME mpc = "exit", \A p \in Producers : cnt[p] >= 0
          PROVE  numConsumed = Cardinality(Units(cnt))
      <3>1. Wanted = Units(cnt)
        BY <2>2 DEF UnitsInv, PlaceInv, Wanted, Units
      <3>2. numConsumed >= Cardinality(Units(cnt)) /\ avail = 0
        BY <2>2, <3>1 DEF UnitsInv, WantInv, DoneInv
      <3>3. AddedUnits \subseteq Units(cnt)
        BY <2>2, ConstantsAssumption DEF UnitsInv, LoopInv, AddedUnits, Units, Added, IInv, TypeOK
      <3>4. IsFiniteSet(Units(cnt)) /\ Cardinality(Units(cnt)) \in Nat
        BY UnitsFinite DEF Units
      <3>5. Cardinality(AddedUnits) <= Cardinality(Units(cnt))
        BY <3>3, <3>4, FS_Subset
      <3> QED BY <2>1, <3>2, <3>4, <3>5 DEF IInv, TypeOK
    <2> QED BY <2>1, <2>2 DEF Conservation, AddedUnits
  <1> QED BY UnitsInvariance, <1>1, PTL

(* The same of every step: no interleaving of avail++ with avail-- loses   *)
(* or doubles a unit.                                                      *)
THEOREM EveryStepConserves == Spec => [][StepConserves]_vars
  <1>1. IInv /\ UnitsInv /\ [Next]_vars => [StepConserves]_vars
    BY StepExact
  <1> QED BY UnitsInvariance, <1>1, PTL DEF Spec

(* prod_condvar.c:101, prod_no_condvar.c:92: 'done' is only computed after *)
(* a unit was consumed, so main() of a program that is asked for nothing   *)
(* never ends; the safety half of EndsIffUnits.                            *)
THEOREM NothingAskedNoEnd == Spec => ((\A p \in Producers : cnt[p] <= 0) => [](mpc # "exit"))
  <1> DEFINE Nothing == \A p \in Producers : cnt[p] <= 0
  <1>1. Nothing /\ [Next]_vars => Nothing'
    <2> SUFFICES ASSUME Nothing, [Next]_vars PROVE Nothing'
      OBVIOUS
    <2>1. cnt' = cnt
      BY DEF Next, MainStep, condvar_main, poll_main, Creating, Consuming, Create, AllCreated,
         ConsumerLock, PollLock, Check, Consume, ConsumerUnlock, SpuriousWakeup, Terminated, vars,
         producer, condvar_producer, poll_producer, Producing, ProducerLock, ProducerLoad,
         ProducerStore, ProducerReturn, ProducerUnlock, ProducerSignal, PollProducerUnlock
    <2> QED BY <2>1
  <1>2. IInv /\ UnitsInv /\ Nothing => mpc # "exit"
    <2> SUFFICES ASSUME IInv, UnitsInv, Nothing, mpc = "exit" PROVE FALSE
      OBVIOUS
    <2>1. AddedUnits = {}
      BY ConstantsAssumption DEF UnitsInv, LoopInv, AddedUnits, Units, Added, IInv, TypeOK
    <2>2. avail + numConsumed = 0
      BY <2>1, FS_EmptySet DEF UnitsInv, SumInv
    <2> QED BY <2>2 DEF UnitsInv, DoneInv, IInv, TypeOK
  <1> HIDE DEF Nothing
  <1>3. Spec => (Nothing => [](mpc # "exit"))
    BY <1>1, <1>2, UnitsInvariance, PTL DEF Spec
  <1> QED BY <1>3 DEF Nothing
=============================================================================
