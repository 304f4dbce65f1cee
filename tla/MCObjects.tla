------------------------------ MODULE MCObjects ------------------------------
(***************************************************************************)
(* Programs that meet at a name in the file system, one kind of which runs *)
(* in a behaviour: instances with a PID file (PidFile) or, by mem.prog,    *)
(* users of file locks (Locks) or tools on POSIX objects (PosixObjects).   *)
(***************************************************************************)
EXTENDS PidFile, Machine

CONSTANTS LockUsers, LibUsers, Flockers, MaxLocks,
          Shells, MaxObjs, MaxTools, SemMax, MaxLen

ASSUME ToolsAssumption ==
    /\ IsFiniteSet(Shells) /\ MaxObjs \in Nat /\ MaxTools \in Nat
    /\ SemMax \in Nat \ {0} /\ MaxLen \in Nat

LK == INSTANCE Locks
PO == INSTANCE PosixObjects

MCInit ==
    /\ Init
    /\ \/ NotRunning
       \/ (LK!Init \/ PO!Init) /\ ~deletes /\ ~cloexec

MCNext ==
    \/ Runs("none") /\ Next /\ UNCHANGED <<at, mem, os>>
    \/ (LK!Next \/ PO!Next) /\ UNCHANGED vars

MCSpec == MCInit /\ [][MCNext]_<<machine, vars>> /\ LK!Fairness

-----------------------------------------------------------------------------
(* Users of locks hold what they were told they hold, nobody else holds    *)
(* what conflicts with it, and no ring of waiters for traditional locks    *)
(* goes unnoticed.                                                         *)
LocksTrue == LK!LocksAsTold /\ LK!NoRing /\ LK!FlockExclusive

(* Whatever happens to the name between a tool's open and its operation,   *)
(* the operation counts, reads or receives on one object, and wholly.      *)
ObjectsTrue == PO!SemConserved /\ PO!ReadWhole /\ PO!ReceiveFits

(* Every t_flock gets its turn or is refused. *)
FlocksEnd == LK!FlockEnds
=============================================================================
