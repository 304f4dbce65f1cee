------------------------------ MODULE Machine ------------------------------
(***************************************************************************)
(* The state in which the smaller programs are written: where each process *)
(* or thread is, what the program keeps in memory, and what the kernel     *)
(* keeps for it.  One program runs in a behaviour; mem.prog names it, and  *)
(* the modules of the other programs have no step then.                    *)
(***************************************************************************)
VARIABLES at,       \* process or thread -> its position in the code
          mem,      \* the program's variables, as a record
          os        \* the kernel's objects the program uses, as a record

machine == <<at, mem, os>>

Runs(prog) == mem.prog = prog

(* p is at label l, and goes on to label k. *)
Move(p, l, k) == at[p] = l /\ at' = [at EXCEPT ![p] = k]

(* No program of this kind runs. *)
NotRunning ==
    /\ at = [main |-> "none"]
    /\ mem = [prog |-> "none"]
    /\ os = [x \in {} |-> {}]
=============================================================================
