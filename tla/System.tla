------------------------------- MODULE System -------------------------------
(***************************************************************************)
(* Running a shell command from a program that has its own signal          *)
(* dispositions and its own SIGCHLD handler:                               *)
(*   "system"  27-process-execute/system.c (and my_system() of t_system.c, *)
(*             which has the same body): SIGCHLD blocked, SIGINT and       *)
(*             SIGQUIT ignored around fork() and waitpid();                *)
(*   "simple"  simple_system.c (and simple_system() of t_system.c): fork() *)
(*             and waitpid() only.                                         *)
(* system(NULL) is the same call for the command ":".  The terminal sends  *)
(* SIGINT and SIGQUIT to the caller and to the command.                    *)
(***************************************************************************)
EXTENDS Naturals

CONSTANTS MaxCalls,     \* bound: calls made by the program
          MaxTyped,     \* bound: SIGINTs and SIGQUITs typed
          MaxEintr      \* bound: waitpid()s interrupted by another handler

ASSUME ConstantsAssumption ==
    MaxCalls \in Nat /\ MaxTyped \in Nat /\ MaxEintr \in Nat

Sigs == {"SIGINT", "SIGQUIT"}
Dispositions == {"SIG_DFL", "SIG_IGN", "handler"}

VARIABLES prog,
          disp, masked,         \* caller: dispositions, is SIGCHLD blocked
          chld, chldPending,    \* caller: SIGCHLD's disposition ("reaper" is
                                \* a handler that waits for any child), pending
          pc,                   \* caller: position in system()
          saOrig, origMask,     \* locals saOrigInt, saOrigQuit, origMask
          status,               \* the value system() returns
          entry,                \* disp and masked when the call began
          child, cdisp, cmasked,\* the child: position, dispositions, mask
          cstatus,              \* its wait status
          calls, keys, eintrs

callerVars == <<pc, saOrig, origMask, status, entry, calls>>
childVars == <<child, cdisp, cmasked, cstatus>>
vars == <<prog, disp, masked, chld, chldPending, callerVars, childVars, keys, eintrs>>

Init ==
    /\ prog \in {"system", "simple"}
    /\ disp \in [Sigs -> Dispositions]
    /\ masked \in BOOLEAN
    /\ chld \in {"SIG_DFL", "SIG_IGN", "reaper"}
    /\ chldPending = FALSE
    /\ pc = "caller"
    /\ saOrig = disp
    /\ origMask = masked
    /\ status = "none"
    /\ entry = [disp |-> disp, masked |-> masked]
    /\ child = "none"
    /\ cdisp = disp
    /\ cmasked = masked
    /\ cstatus = "none"
    /\ calls = 0
    /\ keys = 0
    /\ eintrs = 0

-----------------------------------------------------------------------------
(* The caller *)

(* t_system.c's main() stops when system() returned -1. *)
Call ==
    /\ pc = "caller"
    /\ calls < MaxCalls /\ status # "-1"
    /\ calls' = calls + 1
    /\ entry' = [disp |-> disp, masked |-> masked]
    /\ status' = "none"
    /\ child' = "none" /\ cstatus' = "none"
    /\ pc' = IF prog = "system" THEN "block" ELSE "fork"
    /\ UNCHANGED <<prog, disp, masked, chld, chldPending, saOrig, origMask,
                   cdisp, cmasked, keys, eintrs>>

(* Mutant: SIGCHLD is not blocked. *)
BlockNothing ==
    /\ pc = "block"
    /\ origMask' = masked
    /\ pc' = "ignoreSIGINT"
    /\ UNCHANGED <<prog, disp, masked, chld, chldPending, saOrig, status, entry,
                   calls, childVars, keys, eintrs>>

Block ==
    /\ pc = "block"
    /\ origMask' = masked
    /\ masked' = TRUE
    /\ pc' = "ignoreSIGINT"
    /\ UNCHANGED <<prog, disp, chld, chldPending, saOrig, status, entry, calls,
                   childVars, keys, eintrs>>

Ignore(sig, from, to) ==
    /\ pc = from
    /\ saOrig' = [saOrig EXCEPT ![sig] = disp[sig]]
    /\ disp' = [disp EXCEPT ![sig] = "SIG_IGN"]
    /\ pc' = to
    /\ UNCHANGED <<prog, masked, chld, chldPending, origMask, status, entry, calls,
                   childVars, keys, eintrs>>

(* Mutant: SIGQUIT is not ignored. *)
IgnoreIntOnly == Ignore("SIGINT", "ignoreSIGINT", "fork")

IgnoreInt == Ignore("SIGINT", "ignoreSIGINT", "ignoreSIGQUIT")
IgnoreQuit == Ignore("SIGQUIT", "ignoreSIGQUIT", "fork")

(* Where the call goes once status is known. *)
After == IF prog = "system" THEN "restoreMask" ELSE "caller"

ForkOk ==
    /\ pc = "fork"
    /\ child' = IF prog = "system" THEN "defaultInt" ELSE "exec"
    /\ cdisp' = disp
    /\ cmasked' = masked
    /\ pc' = "wait"
    /\ UNCHANGED <<prog, disp, masked, chld, chldPending, saOrig, origMask, status,
                   entry, calls, cstatus, keys, eintrs>>

ForkFails ==
    /\ pc = "fork"
    /\ status' = "-1"
    /\ pc' = After
    /\ UNCHANGED <<prog, disp, masked, chld, chldPending, saOrig, origMask, entry,
                   calls, childVars, keys, eintrs>>

WaitChild ==
    /\ pc = "wait"
    /\ child = "zombie"
    /\ child' = "reaped"
    /\ status' = cstatus
    /\ pc' = After
    /\ UNCHANGED <<prog, disp, masked, chld, chldPending, saOrig, origMask, entry,
                   calls, cdisp, cmasked, cstatus, keys, eintrs>>

(* Mutant: waitpid() is repeated after every error, not only after EINTR. *)
WaitFailsRetry == pc = "wait" /\ child = "gone" /\ UNCHANGED vars

(* The child's status went elsewhere: ECHILD. *)
WaitFails ==
    /\ pc = "wait"
    /\ child = "gone"
    /\ status' = "-1"
    /\ pc' = After
    /\ UNCHANGED <<prog, disp, masked, chld, chldPending, saOrig, origMask, entry,
                   calls, childVars, keys, eintrs>>

(* Some handler of the caller interrupts waitpid(): system() calls it      *)
(* again, simple_system() returns -1.                                      *)
WaitInterrupted ==
    /\ pc = "wait"
    /\ child \notin {"zombie", "gone"}
    /\ eintrs < MaxEintr /\ eintrs' = eintrs + 1
    /\ IF prog = "system" THEN UNCHANGED <<status, pc>>
                          ELSE status' = "-1" /\ pc' = After
    /\ UNCHANGED <<prog, disp, masked, chld, chldPending, saOrig, origMask, entry,
                   calls, childVars, keys>>

(* Mutant: the mask is set back to empty instead of to origMask. *)
RestoreMaskEmpty ==
    /\ pc = "restoreMask"
    /\ masked' = FALSE
    /\ pc' = "restoreSIGINT"
    /\ UNCHANGED <<prog, disp, chld, chldPending, saOrig, origMask, status, entry,
                   calls, childVars, keys, eintrs>>

RestoreMask ==
    /\ pc = "restoreMask"
    /\ masked' = origMask
    /\ pc' = "restoreSIGINT"
    /\ UNCHANGED <<prog, disp, chld, chldPending, saOrig, origMask, status, entry,
                   calls, childVars, keys, eintrs>>

Restore(sig, saved, from, to) ==
    /\ pc = from
    /\ disp' = [disp EXCEPT ![sig] = saOrig[saved]]
    /\ pc' = to
    /\ UNCHANGED <<prog, masked, chld, chldPending, saOrig, origMask, status, entry,
                   calls, childVars, keys, eintrs>>

RestoreInt == Restore("SIGINT", "SIGINT", "restoreSIGINT", "restoreSIGQUIT")

(* sigaction(SIGQUIT, &saOrigInt, NULL): the saved SIGINT disposition. *)
RestoreQuit == Restore("SIGQUIT", "SIGINT", "restoreSIGQUIT", "caller")

ForkAndWait == ForkOk \/ ForkFails \/ WaitChild \/ WaitFails \/ WaitInterrupted

my_system ==
    /\ prog = "system"
    /\ \/ Block \/ IgnoreInt \/ IgnoreQuit \/ ForkAndWait
       \/ RestoreMask \/ RestoreInt \/ RestoreQuit

simple_system == prog = "simple" /\ ForkAndWait

Caller == Call \/ my_system \/ simple_system

-----------------------------------------------------------------------------
(* The child *)

(* A child's end: auto-reaped when SIGCHLD is ignored, else a zombie. *)
ChildDies(how) ==
    /\ cstatus' = how
    /\ child' = IF chld = "SIG_IGN" THEN "gone" ELSE "zombie"
    /\ chldPending' = (chldPending \/ chld = "reaper")

(* Back to the default unless the caller ignores the signal.  (saOrig and  *)
(* origMask do not change while the child exists.)                         *)
ChildDefault(sig, from, to) ==
    /\ child = from
    /\ cdisp' = [cdisp EXCEPT ![sig] = IF saOrig[sig] # "SIG_IGN" THEN "SIG_DFL" ELSE @]
    /\ child' = to
    /\ UNCHANGED <<prog, disp, masked, chld, chldPending, callerVars, cmasked, cstatus, keys, eintrs>>

DefaultInt == ChildDefault("SIGINT", "defaultInt", "defaultQuit")
DefaultQuit == ChildDefault("SIGQUIT", "defaultQuit", "unmask")

ChildUnmask ==
    /\ child = "unmask"
    /\ cmasked' = origMask
    /\ child' = "exec"
    /\ UNCHANGED <<prog, disp, masked, chld, chldPending, callerVars, cdisp, cstatus, keys, eintrs>>

(* execl() resets handlers to the default action and keeps SIG_IGN. *)
Exec ==
    /\ child = "exec"
    /\ child' = "shell"
    /\ cdisp' = [s \in Sigs |-> IF cdisp[s] = "handler" THEN "SIG_DFL" ELSE cdisp[s]]
    /\ UNCHANGED <<prog, disp, masked, chld, chldPending, callerVars, cmasked, cstatus, keys, eintrs>>

ChildExit ==
    /\ \/ child = "exec" /\ ChildDies("exit127")         \* execl() failed
       \/ child = "shell" /\ ChildDies("exited")         \* the command is done
    /\ UNCHANGED <<prog, disp, masked, chld, callerVars, cdisp, cmasked, keys, eintrs>>

Child == DefaultInt \/ DefaultQuit \/ ChildUnmask \/ Exec \/ ChildExit

-----------------------------------------------------------------------------
(* Signals *)

(* The caller's SIGCHLD handler takes whatever child has died. *)
SigchldHandler ==
    /\ pc # "killed"
    /\ chldPending /\ ~masked
    /\ chldPending' = FALSE
    /\ child' = IF child = "zombie" THEN "gone" ELSE child
    /\ UNCHANGED <<prog, disp, masked, chld, callerVars, cdisp, cmasked, cstatus, keys, eintrs>>

Running == {"defaultInt", "defaultQuit", "unmask", "exec", "shell"}

Key(sig) ==
    /\ pc # "killed"
    /\ keys < MaxTyped /\ keys' = keys + 1
    /\ pc' = IF disp[sig] = "SIG_DFL" THEN "killed" ELSE pc
    /\ IF child \in Running /\ cdisp[sig] = "SIG_DFL"
       THEN ChildDies(sig) ELSE UNCHANGED <<child, cstatus, chldPending>>
    /\ UNCHANGED <<prog, disp, masked, chld, saOrig, origMask, status, entry, calls,
                   cdisp, cmasked, eintrs>>

Ended ==
    /\ \/ pc = "killed"
       \/ pc = "caller" /\ (calls = MaxCalls \/ status = "-1")
    /\ UNCHANGED vars

Next == Caller \/ Child \/ SigchldHandler \/ (\E sig \in Sigs : Key(sig)) \/ Ended

(* The kernel runs the caller and the child, the command ends, and an      *)
(* unblocked pending signal is delivered.                                  *)
Spec ==
    /\ Init /\ [][Next]_vars
    /\ WF_vars(Caller) /\ WF_vars(Child) /\ WF_vars(SigchldHandler)

-----------------------------------------------------------------------------
Returned == pc = "caller" /\ status # "none"

TypeOK ==
    /\ prog \in {"system", "simple"}
    /\ disp \in [Sigs -> Dispositions]
    /\ masked \in BOOLEAN
    /\ chld \in {"SIG_DFL", "SIG_IGN", "reaper"}
    /\ chldPending \in BOOLEAN
    /\ pc \in {"caller", "block", "ignoreSIGINT", "ignoreSIGQUIT", "fork", "wait",
               "restoreMask", "restoreSIGINT", "restoreSIGQUIT", "killed"}
    /\ saOrig \in [Sigs -> Dispositions]
    /\ origMask \in BOOLEAN
    /\ status \in {"none", "-1", "exit127", "exited"} \cup Sigs
    /\ entry \in [disp : [Sigs -> Dispositions], masked : BOOLEAN]
    /\ child \in Running \cup {"none", "zombie", "gone", "reaped"}
    /\ cdisp \in [Sigs -> Dispositions]
    /\ cmasked \in BOOLEAN
    /\ cstatus \in {"none", "exit127", "exited"} \cup Sigs
    /\ calls \in 0 .. MaxCalls /\ keys \in 0 .. MaxTyped /\ eintrs \in 0 .. MaxEintr

(* system() gives its caller back the SIGCHLD mask and the disposition of  *)
(* SIGINT it had, on every path (fork() or waitpid() failing too).         *)
MaskAndIntRestored ==
    Returned => masked = entry.masked /\ disp["SIGINT"] = entry.disp["SIGINT"]

(* system.c:59: "restore dispositions of SIGINT and SIGQUIT". *)
DispositionsRestored == Returned => disp = entry.disp

(* The caller's own SIGCHLD handler cannot take the command's status from  *)
(* system(), nor an interrupted waitpid() leave the command unwaited-for:  *)
(* unless SIGCHLD is ignored, system() returns the status of the command.  *)
StatusNotLost ==
    prog = "system" /\ Returned /\ chld # "SIG_IGN" /\ cstatus # "none"
        => status = cstatus

(* SIGINT and SIGQUIT typed while the command runs never kill the caller   *)
(* of system(), and the command takes or ignores them exactly as it would  *)
(* have done without system(): it runs with the mask of the caller and     *)
(* ignores what the caller ignored.                                        *)
KeyboardSignals ==
    /\ prog = "system" /\ child \in Running \cup {"zombie"} => pc # "killed"
    /\ child = "shell" /\ pc # "killed" =>
          /\ cmasked = entry.masked
          /\ \A s \in Sigs : cdisp[s] = IF entry.disp[s] = "SIG_IGN" THEN "SIG_IGN" ELSE "SIG_DFL"

(* Every call returns, or the caller is killed by a key. *)
CallReturns == pc # "caller" ~> (Returned \/ pc = "killed")
=============================================================================
