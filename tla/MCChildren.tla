----------------------------- MODULE MCChildren -----------------------------
(***************************************************************************)
(* The programs that make children and wait for them, one of which runs in *)
(* a behaviour: multi_SIGCHLD and multi_wait (MultiSIGCHLD) or, by         *)
(* mem.prog, the synchronised parents and what fork() copies or shares     *)
(* (Forking), the pipes (Pipes), errors reported by a process or its child *)
(* (Errors) and files that others use too (Files).                         *)
(***************************************************************************)
EXTENDS MultiSIGCHLD, Machine

CONSTANTS NumChildren, PipeCap, MaxData, MaxPatterns, MaxChanges,
          BufSize, MaxFile, MaxOps, MaxTouched

(* fork_whos_on_first.c:35, GN_GT_0; pipe_sync.c:10, argc < 2.             *)
ASSUME ChildrenAssumption == NumChildren \in Nat \ {0}

(* BUF_SIZE of copy.c; write_bytes.c:42, GN_GT_0.                          *)
ASSUME BufferAssumption == BufSize \in Nat \ {0}

FO == INSTANCE Forking
PI == INSTANCE Pipes
ER == INSTANCE Errors
FI == INSTANCE Files

MCInit ==
    /\ Init
    /\ \/ NotRunning
       \/ (FO!Init \/ PI!Init \/ ER!Init \/ FI!Init) /\ prog = "sigchld"

MCNext ==
    \/ Runs("none") /\ Next /\ UNCHANGED <<at, mem, os>>
    \/ (FO!Next \/ PI!Next \/ ER!Next \/ FI!Next) /\ UNCHANGED vars

MCSpec ==
    /\ MCInit /\ [][MCNext]_<<machine, vars>>
    /\ Runs("none") => Fairness
    /\ FO!Fairness /\ PI!Fairness /\ ER!Fairness /\ FI!Fairness

-----------------------------------------------------------------------------
(* A parent goes on only after its children's work. *)
SyncedWithChildren == FO!SyncedWithChildren

(* Across a pipe everything written arrives; across fork() the processes   *)
(* share what the call shares and nothing else; output, message and exit   *)
(* handlers of a process that fails come in order and once; and a program  *)
(* that reports success has done to its file what it says.                 *)
SharedTrue == PI!PipeWhole /\ FO!ForkShares /\ ER!ErrorsTrue /\ FI!FilesTrue

(* Every program ends: multi_SIGCHLD and multi_wait with their children    *)
(* reaped, the synchronised parents, the readers and writers of the pipes, *)
(* the other parents of Forking, and the programs of Errors and Files.     *)
ChildrenEnd ==
    /\ Runs("none") => ParentEnds
    /\ FO!SyncEnds /\ PI!PipesEnd /\ FO!ForkEnds /\ ER!ErrorsEnd /\ FI!FilesEnd
=============================================================================
