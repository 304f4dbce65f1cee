------------------------------- MODULE MCTty -------------------------------
(***************************************************************************)
(* The programs about the terminal, sessions and process groups, one of    *)
(* which runs in a behaviour: test_tty_functions (TtySuspend) or, by       *)
(* mem.prog, script with the pseudoterminal functions (Script), the        *)
(* orphaned process group, the hung-up terminal and becomeDaemon()         *)
(* (Sessions), and the programs that are stopped and continued             *)
(* (JobControl).                                                           *)
(***************************************************************************)
EXTENDS TtySuspend, Machine

CONSTANTS MaxTyped, MaxOutput, InSize, OutSize, NumChildren, MaxFd, MaxClose,
          JobSize, MaxJobSigs, MaxTtySigs, HupChildren

(* A process has at least its three standard descriptors. *)
ASSUME SessionsAssumption ==
    /\ NumChildren \in Nat /\ HupChildren \in Nat /\ JobSize \in Nat
    /\ MaxFd \in Nat \ {0, 1} /\ MaxClose \in Nat

SR == INSTANCE Script
SS == INSTANCE Sessions
JC == INSTANCE JobControl

MCInit ==
    /\ Init
    /\ \/ NotRunning
       \/ /\ SR!Init \/ SS!Init \/ JC!Init
          /\ mode = "raw" /\ tty = CHOOSE s \in Settings : TRUE
          /\ intDisp = "SIG_DFL" /\ tstpDisp = "SIG_DFL"

MCNext ==
    \/ Runs("none") /\ Next /\ UNCHANGED <<at, mem, os>>
    \/ (SR!Next \/ SS!Next \/ JC!Next) /\ UNCHANGED vars

MCSpec ==
    /\ MCInit /\ [][MCNext]_<<machine, vars>>
    /\ SR!Fairness /\ SS!Fairness /\ JC!Fairness

-----------------------------------------------------------------------------
(* script: the typescript is true, and the terminal is given back. *)
ScriptTrue == SR!TypescriptTrue /\ SR!TerminalBack

(* Sessions and process groups: no stopped member of an orphaned group     *)
(* runs on unawares, becomeDaemon() detaches the process from its          *)
(* terminal, stops and continuations are not lost but where the property   *)
(* of JobControl says, and SIGHUP reaches the foreground group.            *)
SessionsTrue ==
    /\ SS!HangupReachesAll /\ SS!DaemonDetached
    /\ JC!JobsTrue /\ SS!HangupTrue

(* script and its shell end each other, and until then output is shown;    *)
(* the orphaned children end, and the other processes of Sessions and      *)
(* JobControl as far as they are not stopped.                              *)
TerminalsEnd ==
    /\ SR!BothEnd /\ SR!OutputShown
    /\ SS!OrphansEnd /\ JC!JobsEnd /\ SS!HangupEnds
=============================================================================
