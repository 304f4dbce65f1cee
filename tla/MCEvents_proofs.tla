--------------------------- MODULE MCEvents_proofs ---------------------------
(***************************************************************************)
(* The programs that wait for signals, input, timers or messages, for      *)
(* every number of them, and for every size of pipe, queue and buffer:     *)
(* what arrives is not left lying, and what is reported is what happened.  *)
(* One program runs in a behaviour, so the invariant is a disjunction: the *)
(* part of the program that runs holds.                                    *)
(*                                                                         *)
(* Before them, system.c and simple_system.c for every number of calls,    *)
(* typed keys and interrupted waits: what a call gives back to its caller, *)
(* whose status it returns, and what the keyboard's signals do to caller   *)
(* and command.                                                            *)
(***************************************************************************)
EXTENDS MCEvents, System, FiniteSetTheorems, SequenceTheorems, TLAPS

(* Part 1: system() *)

(* The positions of system() at which SIGCHLD is blocked. *)
Blocked == {"ignoreSIGINT", "ignoreSIGQUIT", "fork", "wait", "restoreMask"}

(* The positions at which both keyboard signals are ignored. *)
Ignoring == {"fork", "wait", "restoreMask", "restoreSIGINT"}

(* The child is a process of its own, or a zombie. *)
Live == {"defaultInt", "defaultQuit", "unmask", "exec", "shell", "zombie"}

BasicType ==
    /\ prog \in {"system", "simple"}
    /\ disp \in [Sigs -> Dispositions]
    /\ chld \in {"SIG_DFL", "SIG_IGN", "reaper"}
    /\ pc \in {"caller", "block", "ignoreSIGINT", "ignoreSIGQUIT", "fork", "wait",
               "restoreMask", "restoreSIGINT", "restoreSIGQUIT", "killed"}
    /\ saOrig \in [Sigs -> Dispositions]
    /\ status \in {"none", "-1", "exit127", "exited"} \cup Sigs
    /\ child \in Live \cup {"none", "gone", "reaped"}
    /\ cdisp \in [Sigs -> Dispositions]
    /\ cstatus \in {"none", "exit127", "exited"} \cup Sigs

CountType == calls \in 0 .. MaxCalls /\ keys \in 0 .. MaxTyped /\ eintrs \in 0 .. MaxEintr

FlagType ==
    /\ masked \in BOOLEAN /\ chldPending \in BOOLEAN
    /\ origMask \in BOOLEAN /\ cmasked \in BOOLEAN

EntryType == entry \in [disp : [Sigs -> Dispositions], masked : BOOLEAN]

(* What only the child of system() does before execl(). *)
Prepare == {"defaultInt", "defaultQuit", "unmask"}

(* Which positions each program has. *)
PhaseInv ==
    /\ prog = "simple" => pc \in {"caller", "fork", "wait", "killed"} /\ child \notin Prepare
    /\ pc \in {"block", "ignoreSIGINT", "ignoreSIGQUIT", "fork"} =>
          child = "none" /\ status = "none"
    /\ pc = "wait" => status = "none" /\ child # "none"
    /\ prog = "system" /\ child \in Live => pc = "wait"
    /\ prog = "simple" /\ child \in Live => \/ pc \in {"wait", "killed"}
                                            \/ pc = "caller" /\ status = "-1"

(* SIGCHLD's mask: the caller's, or blocked with the caller's saved. *)
MaskInv ==
    /\ prog = "simple" => masked = entry.masked
    /\ prog = "system" /\ pc \in Blocked => masked /\ origMask = entry.masked
    /\ prog = "system" /\ pc \notin Blocked \cup {"killed"} => masked = entry.masked

(* The dispositions of the keyboard's signals, and the saved ones. *)
DispInv ==
    /\ prog = "simple" => disp = entry.disp
    /\ pc \in {"block", "ignoreSIGINT"} => disp = entry.disp
    /\ pc = "ignoreSIGQUIT" =>
          /\ disp["SIGINT"] = "SIG_IGN" /\ saOrig["SIGINT"] = entry.disp["SIGINT"]
          /\ disp["SIGQUIT"] = entry.disp["SIGQUIT"]
    /\ prog = "system" /\ pc \in Ignoring =>
          \A s \in Sigs : disp[s] = "SIG_IGN" /\ saOrig[s] = entry.disp[s]
    /\ pc \in {"restoreSIGQUIT", "caller"} => disp["SIGINT"] = entry.disp["SIGINT"]

(* What the child has inherited and changed. *)
ChildDispInv ==
    /\ child = "defaultInt" => cdisp["SIGINT"] = "SIG_IGN"
    /\ child \in {"defaultInt", "defaultQuit"} => cdisp["SIGQUIT"] = "SIG_IGN"
    /\ child = "defaultQuit" =>
          cdisp["SIGINT"] = IF entry.disp["SIGINT"] = "SIG_IGN" THEN "SIG_IGN" ELSE "SIG_DFL"
    /\ child = "exec" /\ prog = "simple" => cdisp = entry.disp
    /\ child \in {"unmask", "shell"} \/ (child = "exec" /\ prog = "system") =>
          \A s \in Sigs : cdisp[s] = IF entry.disp[s] = "SIG_IGN" THEN "SIG_IGN" ELSE "SIG_DFL"

ChildMaskInv == child \in {"exec", "shell"} => cmasked = entry.masked

(* Where the command's status is. *)
StatusInv ==
    prog = "system" =>
        /\ child \in Prepare \cup {"none", "exec", "shell"} => cstatus = "none"
        /\ child = "gone" => chld = "SIG_IGN"
        /\ child = "reaped" => status = cstatus

IInv ==
    /\ BasicType /\ CountType /\ FlagType /\ EntryType
    /\ PhaseInv /\ MaskInv /\ DispInv /\ ChildDispInv /\ ChildMaskInv /\ StatusInv
-----------------------------------------------------------------------------
(* The invariant holds initially. *)
LEMMA InitIInv == Init => IInv
  <1> SUFFICES ASSUME Init PROVE IInv
    OBVIOUS
  <1> USE DEF Init
  <1>1. BasicType /\ CountType
    BY ConstantsAssumption DEF BasicType, CountType, Sigs
  <1>2. FlagType /\ EntryType
    BY Zenon DEF FlagType, EntryType
  <1>3. entry.disp = disp /\ entry.masked = masked
    BY Zenon
  <1>4. PhaseInv /\ DispInv /\ ChildDispInv /\ StatusInv
    BY <1>3 DEF PhaseInv, DispInv, ChildDispInv, StatusInv, Live, Prepare, Ignoring, Sigs
  <1>5. ChildMaskInv
    BY DEF ChildMaskInv
  <1>6. MaskInv
    BY <1>3, Zenon DEF MaskInv, Blocked
  <1> QED BY <1>1, <1>2, <1>4, <1>5, <1>6 DEF IInv

(* The reaper never takes the command of system(): while that is a zombie  *)
(* SIGCHLD is blocked.                                                     *)
LEMMA ReaperBlocked ==
    IInv /\ SigchldHandler => ~(prog = "system" /\ child = "zombie")
  <1> SUFFICES ASSUME IInv, SigchldHandler, prog = "system", child = "zombie" PROVE FALSE
    OBVIOUS
  <1>1. pc = "wait"
    BY DEF IInv, PhaseInv, Live
  <1>2. masked
    BY <1>1, Zenon DEF IInv, MaskInv, Blocked
  <1> QED BY <1>2, Zenon DEF SigchldHandler

(* The control part of the invariant: positions, dispositions, statuses. *)
ControlInv == BasicType /\ CountType /\ PhaseInv /\ DispInv /\ ChildDispInv /\ StatusInv

(* What the mask and the dispositions are at each position. *)
LEMMA StepControl == IInv /\ [Next]_vars => ControlInv'
  <1> SUFFICES ASSUME IInv, [Next]_vars PROVE ControlInv'
    OBVIOUS
  <1> USE ConstantsAssumption DEF ControlInv, BasicType, CountType, PhaseInv, DispInv,
          ChildDispInv, StatusInv, Live, Prepare, Ignoring, Sigs, Dispositions
  <1> USE DEF IInv
  <1>1. CASE Call
    <2>1. entry'.disp = disp
      BY <1>1, Zenon DEF Call
    <2>2. child \notin Live
      BY <1>1 DEF Call
    <2>3. /\ pc = "caller" /\ status' = "none" /\ child' = "none" /\ cstatus' = "none"
          /\ pc' = IF prog = "system" THEN "block" ELSE "fork"
          /\ calls' \in 0 .. MaxCalls
          /\ UNCHANGED <<prog, disp, chld, saOrig, cdisp, keys, eintrs>>
      BY <1>1 DEF Call
    <2> QED BY <2>1, <2>2, <2>3
  <1>2. CASE prog = "system" /\ Block
    BY <1>2 DEF Block, childVars
  <1>3. CASE prog = "system" /\ IgnoreInt
    BY <1>3 DEF IgnoreInt, Ignore, childVars
  <1>4. CASE prog = "system" /\ IgnoreQuit
    BY <1>4 DEF IgnoreQuit, Ignore, childVars
  <1>5. CASE ForkOk
    BY <1>5 DEF ForkOk
  <1>6. CASE ForkFails
    BY <1>6 DEF ForkFails, After, childVars
  <1>7. CASE WaitChild
    BY <1>7 DEF WaitChild, After
  <1>8. CASE WaitFails
    BY <1>8 DEF WaitFails, After, childVars
  <1>9. CASE WaitInterrupted
    BY <1>9 DEF WaitInterrupted, After, childVars
  <1>10. CASE prog = "system" /\ RestoreMask
    BY <1>10 DEF RestoreMask, childVars
  <1>11. CASE prog = "system" /\ RestoreInt
    BY <1>11 DEF RestoreInt, Restore, childVars
  <1>12. CASE prog = "system" /\ RestoreQuit
    BY <1>12 DEF RestoreQuit, Restore, childVars
  <1>13. CASE DefaultInt
    BY <1>13 DEF DefaultInt, ChildDefault, callerVars
  <1>19. CASE DefaultQuit
    BY <1>19 DEF DefaultQuit, ChildDefault, callerVars
  <1>20. CASE ChildUnmask
    BY <1>20 DEF ChildUnmask, callerVars
  <1>14. CASE Exec
    BY <1>14 DEF Exec, callerVars
  <1>15. CASE ChildExit
    BY <1>15 DEF ChildExit, ChildDies, callerVars
  <1>16. CASE SigchldHandler
    <2>1. ~(prog = "system" /\ child = "zombie")
      BY <1>16, ReaperBlocked
    <2> QED BY <1>16, <2>1 DEF SigchldHandler, callerVars
  <1>17. ASSUME NEW sig \in Sigs, Key(sig) PROVE ControlInv'
    BY <1>17 DEF Key, Running, ChildDies
  <1>18. CASE UNCHANGED vars
    BY <1>18 DEF vars, callerVars, childVars
  <1> QED
    BY <1>1, <1>2, <1>3, <1>4, <1>5, <1>6, <1>7, <1>8, <1>9, <1>10, <1>11, <1>12, <1>13,
       <1>14, <1>15, <1>16, <1>17, <1>18, <1>19, <1>20, Zenon
    DEF Next, Caller, my_system, simple_system, ForkAndWait, Child, Ended

(* The flags: the mask of SIGCHLD, the saved one and the child's. *)
FlagInv == FlagType /\ EntryType /\ MaskInv /\ ChildMaskInv

(* The mask of SIGCHLD, the saved one and the child's. *)
LEMMA StepFlags == IInv /\ [Next]_vars => FlagInv'
  <1> SUFFICES ASSUME IInv, [Next]_vars PROVE FlagInv'
    OBVIOUS
  <1>a. FlagInv /\ BasicType /\ PhaseInv
    BY DEF IInv, FlagInv
  <1> USE DEF FlagInv, FlagType, EntryType, MaskInv, ChildMaskInv, Blocked
  <1>1. CASE Call
    <2>1. entry'.masked = masked /\ masked' = masked /\ origMask' = origMask
      BY <1>1, Zenon DEF Call
    <2>2. EntryType'
      BY <1>a, <1>1, Zenon DEF Call, BasicType
    <2>3. FlagType'
      BY <1>a, <1>1, Zenon DEF Call
    <2>4. pc' \in {"block", "fork"} /\ (pc' = "fork" => prog = "simple") /\ child' = "none"
          /\ prog' = prog /\ prog \in {"system", "simple"}
      BY <1>a, <1>1 DEF Call, BasicType
    <2>5. MaskInv'
      BY <2>1, <2>4, Zenon
    <2>6. ChildMaskInv'
      BY <2>4, Zenon
    <2> QED BY <2>2, <2>3, <2>5, <2>6, Zenon
  <1>2. CASE prog = "system" /\ Block
    BY <1>a, <1>2, Zenon DEF Block, childVars
  <1>3. CASE prog = "system" /\ IgnoreInt
    BY <1>a, <1>3, Zenon DEF IgnoreInt, Ignore, childVars
  <1>4. CASE prog = "system" /\ IgnoreQuit
    BY <1>a, <1>4, Zenon DEF IgnoreQuit, Ignore, childVars
  <1>5. CASE ForkOk
    <2>1. child' \in {"exec", "shell"} => prog = "simple"
      BY <1>a, <1>5 DEF ForkOk, BasicType
    <2>2. FlagType' /\ EntryType' /\ MaskInv'
      BY <1>a, <1>5, Zenon DEF ForkOk
    <2>3. ChildMaskInv'
      BY <1>a, <1>5, <2>1, Zenon DEF ForkOk
    <2> QED BY <2>2, <2>3, Zenon
  <1>6. CASE ForkFails
    BY <1>a, <1>6, Zenon DEF ForkFails, After, childVars
  <1>7. CASE WaitChild
    BY <1>a, <1>7, Zenon DEF WaitChild, After
  <1>8. CASE WaitFails
    BY <1>a, <1>8, Zenon DEF WaitFails, After, childVars
  <1>9. CASE WaitInterrupted
    BY <1>a, <1>9, Zenon DEF WaitInterrupted, After, childVars
  <1>10. CASE prog = "system" /\ RestoreMask
    BY <1>a, <1>10, Zenon DEF RestoreMask, childVars
  <1>11. CASE prog = "system" /\ RestoreInt
    BY <1>a, <1>11, Zenon DEF RestoreInt, Restore, childVars
  <1>12. CASE prog = "system" /\ RestoreQuit
    BY <1>a, <1>12, Zenon DEF RestoreQuit, Restore, childVars
  <1>13. CASE DefaultInt
    BY <1>a, <1>13, Zenon DEF DefaultInt, ChildDefault, callerVars
  <1>19. CASE DefaultQuit
    BY <1>a, <1>19, Zenon DEF DefaultQuit, ChildDefault, callerVars
  <1>20. CASE ChildUnmask
    <2>1. prog = "system" /\ pc = "wait"
      BY <1>a, <1>20 DEF ChildUnmask, BasicType, PhaseInv, Live, Prepare
    <2>2. FlagType' /\ EntryType' /\ MaskInv'
      BY <1>a, <1>20, Zenon DEF ChildUnmask, callerVars
    <2>3. ChildMaskInv'
      BY <1>a, <1>20, <2>1, Zenon DEF ChildUnmask, callerVars
    <2> QED BY <2>2, <2>3, Zenon
  <1>14. CASE Exec
    BY <1>a, <1>14, Zenon DEF Exec, callerVars
  <1>15. CASE ChildExit
    BY <1>a, <1>15, Zenon DEF ChildExit, ChildDies, callerVars
  <1>16. CASE SigchldHandler
    BY <1>a, <1>16, Zenon DEF SigchldHandler, callerVars
  <1>17. ASSUME NEW sig \in Sigs, Key(sig) PROVE FlagInv'
    BY <1>a, <1>17, Zenon DEF Key, ChildDies
  <1>18. CASE UNCHANGED vars
    BY <1>a, <1>18, Zenon DEF vars, callerVars, childVars
  <1> QED
    BY <1>1, <1>2, <1>3, <1>4, <1>5, <1>6, <1>7, <1>8, <1>9, <1>10, <1>11, <1>12, <1>13,
       <1>14, <1>15, <1>16, <1>17, <1>18, <1>19, <1>20, Zenon
    DEF Next, Caller, my_system, simple_system, ForkAndWait, Child, Ended

-----------------------------------------------------------------------------
(* The inductive invariant holds in every reachable state. *)
LEMMA Invariant == Spec => []IInv
  <1>1. Init => IInv
    BY InitIInv
  <1>2. IInv /\ [Next]_vars => IInv'
    BY StepControl, StepFlags DEF IInv, ControlInv, FlagInv
  <1> QED BY <1>1, <1>2, PTL DEF Spec

(* Every variable of the caller, the child and the kernel keeps its type. *)
THEOREM TypeCorrect == Spec => []TypeOK
  <1>1. IInv => TypeOK
    <2> SUFFICES ASSUME IInv PROVE TypeOK
      OBVIOUS
    <2>1. child \in Running \cup {"none", "zombie", "gone", "reaped"}
      BY DEF IInv, BasicType, Live, Running
    <2> QED BY <2>1, Zenon DEF IInv, BasicType, CountType, FlagType, EntryType, TypeOK
  <1> QED BY <1>1, Invariant, PTL

(* On every path out of system() the caller has its SIGCHLD mask and its   *)
(* disposition of SIGINT back, however often it calls, whatever fails and  *)
(* whatever is typed meanwhile.                                            *)
THEOREM MaskAndIntRestoredAlways == Spec => []MaskAndIntRestored
  <1>1. IInv => MaskAndIntRestored
    <2> SUFFICES ASSUME IInv, Returned PROVE masked = entry.masked /\ disp["SIGINT"] = entry.disp["SIGINT"]
      BY DEF MaskAndIntRestored
    <2>1. pc = "caller" /\ prog \in {"system", "simple"}
      BY DEF Returned, IInv, BasicType
    <2>2. masked = entry.masked
      BY <2>1, Zenon DEF IInv, MaskInv, Blocked
    <2>3. disp["SIGINT"] = entry.disp["SIGINT"]
      BY <2>1 DEF IInv, DispInv
    <2> QED BY <2>2, <2>3
  <1> QED BY <1>1, Invariant, PTL

(* The caller's own SIGCHLD handler never takes the status system() waits  *)
(* for: unless SIGCHLD is ignored, system() returns the command's status.  *)
THEOREM StatusNeverLost == Spec => []StatusNotLost
  <1>1. IInv => StatusNotLost
    BY DEF IInv, BasicType, PhaseInv, StatusInv, StatusNotLost, Returned, Live, Sigs
  <1> QED BY <1>1, Invariant, PTL

(* A key never kills the caller of system() while its command exists, and  *)
(* the command's mask and dispositions are the caller's own.               *)
THEOREM KeyboardSignalsRight == Spec => []KeyboardSignals
  <1>1. IInv => KeyboardSignals
    <2> SUFFICES ASSUME IInv PROVE KeyboardSignals
      OBVIOUS
    <2>1. prog = "system" /\ child \in Running \cup {"zombie"} => pc # "killed"
      BY DEF IInv, PhaseInv, Live, Running
    <2>2. child = "shell" => cmasked = entry.masked
      BY Zenon DEF IInv, ChildMaskInv
    <2>3. child = "shell" =>
            \A s \in Sigs : cdisp[s] = IF entry.disp[s] = "SIG_IGN" THEN "SIG_IGN" ELSE "SIG_DFL"
      BY DEF IInv, ChildDispInv
    <2> QED BY <2>1, <2>2, <2>3, Zenon DEF KeyboardSignals
  <1> QED BY <1>1, Invariant, PTL

(* No step, of the caller, the child or the kernel, changes the caller's   *)
(* mask and dispositions, or the saved ones the child reads, while the     *)
(* command of system() exists or is a zombie.                              *)
THEOREM SettingsStable ==
    Spec => [][prog = "system" /\ child \in Live
                  => UNCHANGED <<masked, disp, saOrig, origMask, entry>>]_vars
  <1>1. IInv /\ [Next]_vars =>
          [prog = "system" /\ child \in Live
              => UNCHANGED <<masked, disp, saOrig, origMask, entry>>]_vars
    <2> SUFFICES ASSUME IInv, Next, prog = "system", child \in Live
                 PROVE  UNCHANGED <<masked, disp, saOrig, origMask, entry>>
      BY Zenon
    <2>1. pc = "wait"
      BY DEF IInv, PhaseInv
    <2>2. ~(Call \/ Block \/ IgnoreInt \/ IgnoreQuit \/ RestoreMask \/ RestoreInt \/ RestoreQuit)
      BY <2>1 DEF Call, Block, IgnoreInt, IgnoreQuit, Ignore, RestoreMask, RestoreInt,
                  RestoreQuit, Restore
    <2> QED
      BY <2>2, Zenon
      DEF Next, Caller, my_system, simple_system, ForkAndWait, Child, Ended, ForkOk, ForkFails,
          WaitChild, WaitFails, WaitInterrupted, DefaultInt, DefaultQuit, ChildDefault, ChildUnmask,
          Exec, ChildExit, SigchldHandler,
          Key, vars, callerVars, childVars
  <1> QED BY <1>1, Invariant, PTL DEF Spec

-----------------------------------------------------------------------------
(* Part 2: signals, input, timers and messages *)

(* self_pipe: while select() is to be called or blocked the pipe holds a   *)
(* byte exactly if a signal was caught, and who is blocked has an empty    *)
(* pipe.                                                                   *)
SelfParts ==
    /\ Runs("self_pipe") /\ DOMAIN mem = {"prog", "pto", "readfds", "caught", "said"}
    /\ DOMAIN at = {"main", "handler"} /\ DOMAIN os = {"signals", "pending", "pipe", "input"}
    /\ os.pipe \in Nat
    /\ at.main \in {"pipe", "sigaction"} =>
          ~mem.caught /\ os.pipe = 0 /\ at.handler = "none" /\ ~os.pending
    /\ at.main \in {"select", "blocked"} => (mem.caught <=> os.pipe > 0)
    /\ at.main = "blocked" => os.pipe = 0
    /\ at.main = "test" => (mem.caught <=> "pipe" \in mem.readfds)
    /\ at.main \in {"drain", "print", "exit"} => (mem.said <=> mem.caught)

Keys == {"a", "hash"}

HashFrom(s, n) == \A k \in 1 .. Len(s) : s[k] = "hash" => k >= n

(* demo_sigio: unread input has the flag set or a signal pending while the *)
(* loop spins; a hash is among the last two characters read, and only once *)
(* done is set, except for the one being looked at.                        *)
SigioParts ==
    /\ Runs("demo_sigio") /\ DOMAIN mem = {"prog", "gotSigio", "done", "ch", "read"}
    /\ DOMAIN at = {"main"} /\ DOMAIN os = {"async", "pending", "queue", "keys"}
    /\ os.queue \in Seq(Keys) /\ mem.read \in Seq(Keys)
    /\ at.main # "setAsync" => os.async
    /\ at.main \in {"loop", "test"} /\ ~mem.done /\ os.queue # <<>> => os.pending \/ mem.gotSigio
    /\ at.main \in {"setAsync", "cbreak", "test", "clear", "print"} => ~mem.done
    /\ ~mem.done /\ at.main # "print" => HashFrom(mem.read, Len(mem.read) + 1)
    /\ at.main = "print" => Len(mem.read) > 0 /\ mem.ch = mem.read[Len(mem.read)]
    /\ at.main \in {"print", "read"} => HashFrom(mem.read, Len(mem.read))
    /\ HashFrom(mem.read, Len(mem.read) - 1)

(* The notification is in one place: registered, pending, or taken by who  *)
(* is about to register again.  Registered and a message in the queue:     *)
(* somebody is still reading.                                              *)
MqParts ==
    /\ mem.prog \in MQ!Progs /\ DOMAIN mem = {"prog", "stale"}
    /\ DOMAIN at = {"main"} \cup Workers
    /\ DOMAIN os = {"queue", "registered", "pending", "sent"} /\ os.queue \in Nat
    /\ at.main \in {"notify", "wait", "again", "drain"}
    /\ \A w \in Workers : at[w] \in {"unborn", "setup", "drain", "done"}
    /\ at.main = "notify" => ~os.registered /\ ~os.pending /\ \A w \in Workers : at[w] = "unborn"
    /\ at.main # "notify" =>
          os.registered \/ os.pending \/ at.main = "again" \/ \E w \in Workers : at[w] = "setup"
    /\ os.registered => ~os.pending /\ at.main # "again" /\ \A w \in Workers : at[w] # "setup"
    /\ os.pending => at.main # "again"
    /\ \A w, v \in Workers : at[w] = "setup" /\ at[v] = "setup" => w = v
    /\ Runs("mq_notify_sig") => \A w \in Workers : at[w] = "unborn"
    /\ Runs("mq_notify_thread") => ~os.pending /\ at.main \in {"notify", "wait"}
    /\ os.registered /\ os.queue > 0 =>
          mem.stale \/ at.main = "drain" \/ \E w \in Workers : at[w] = "drain"

HangsUp(e) == "EPOLLHUP" \in e.events /\ "EPOLLIN" \notin e.events

(* epoll_input: a FIFO reported as hung up and empty is still so, unless   *)
(* somebody has opened it since.                                           *)
EpollParts ==
    /\ Runs("epoll_input") /\ DOMAIN mem = {"prog", "open", "evlist", "lost"}
    /\ DOMAIN at = {"main"}
    /\ DOMAIN os = {"list", "writers", "opens", "unread", "written", "late"}
    /\ os.unread \in [Fds -> Nat] /\ DOMAIN os.writers = Fds /\ mem.open \subseteq Fds
    /\ mem.evlist \in Seq([fd : Fds, events : SUBSET {"EPOLLIN", "EPOLLHUP"}])
    /\ at.main # "loop" => mem.evlist = <<>>
    /\ \A k \in 1 .. Len(mem.evlist) : HangsUp(mem.evlist[k]) =>
          \/ mem.evlist[k].fd \in os.late
          \/ os.unread[mem.evlist[k].fd] = 0 /\ ~os.writers[mem.evlist[k].fd]
    /\ mem.lost = {}

(* poll_pipes: the writes made so far are each in one pipe. *)
PollParts ==
    /\ Runs("poll_pipes") /\ DOMAIN mem = {"prog", "left", "numWrites", "ready"}
    /\ DOMAIN at = {"main"} /\ DOMAIN os = {"unread"} /\ DOMAIN os.unread = PL!Pipes
    /\ mem.numWrites \in Nat \ {0} /\ mem.left \in 0 .. mem.numWrites
    /\ \A p \in PL!Pipes : os.unread[p] \subseteq mem.left + 1 .. mem.numWrites
    /\ \A k \in mem.left + 1 .. mem.numWrites : \E p \in PL!Pipes : k \in os.unread[p]
    /\ \A p, q \in PL!Pipes : p # q => os.unread[p] \cap os.unread[q] = {}
    /\ at.main = "exit" => mem.left = 0 /\ mem.ready = {p \in PL!Pipes : os.unread[p] # {}}

(* The bits of the arguments before the n-th. *)
BitsOf(args, n) ==
    {b \in PL!Bits : \E i \in 1 .. n - 1 : b[1] = args[i].fd /\ b[2] \in args[i].mode}

(* None of them is negative. *)
NoneNegative(args, n) == \A i \in 1 .. n - 1 : ~(args[i].fd < 0)

(* t_select: the sets hold the arguments looked at so far, below nfds, and *)
(* nothing else unless an argument was negative; and when select() has     *)
(* returned, those that were ready then.                                   *)
SelectParts ==
    /\ Runs("t_select")
    /\ DOMAIN mem = {"prog", "args", "timeout", "next", "nfds", "sets", "shown"}
    /\ DOMAIN at = {"main"} /\ DOMAIN os = {"open", "ready", "atReturn", "expired"}
    /\ mem.args \in Seq(PL!Args) /\ mem.nfds \in Nat /\ mem.next \in 1 .. Len(mem.args) + 1
    /\ mem.sets \subseteq PL!Bits /\ os.ready \subseteq PL!Bits
    /\ at.main = "args" =>
          /\ BitsOf(mem.args, mem.next) \subseteq mem.sets
          /\ \A b \in BitsOf(mem.args, mem.next) : b[1] < mem.nfds
          /\ NoneNegative(mem.args, mem.next) => mem.sets = BitsOf(mem.args, mem.next)
    /\ at.main \in {"show", "exit"} =>
          /\ \A b \in mem.sets : b[1] < mem.nfds
          /\ mem.sets \cap PL!Asked = os.atReturn \cap PL!Asked
          /\ mem.sets \subseteq os.atReturn
          /\ ~PL!Negative => mem.sets \subseteq PL!Asked
          /\ mem.sets = {} => mem.timeout = "zero" \/ os.expired
          /\ \A b \in PL!Asked : b[1] \in os.open
    /\ at.main = "exit" => mem.shown = mem.sets

(* sig_receiver and catch_rtsigs: what was caught and what is queued are   *)
(* the values sent, in order; the standard signals counted and pending are *)
(* no more than were sent.                                                 *)
CountParts ==
    /\ mem.prog \in SG!SigProgs
    /\ DOMAIN mem = {"prog", "blocks", "sigCnt", "values", "done", "sent", "queued"}
    /\ DOMAIN at = {"main", "sig_sender", "t_sigqueue"}
    /\ DOMAIN os = {"usr", "int", "rt", "blocked"}
    /\ mem.sigCnt \in Nat /\ mem.sent \in Nat /\ mem.queued \in Nat
    /\ mem.values \in Seq(Nat) /\ os.rt \in Seq(Nat)
    /\ at.main = "establish" => mem.sent = 0
    /\ at.main # "killed" =>
          /\ Len(mem.values) + Len(os.rt) = mem.queued
          /\ \A k \in 1 .. Len(mem.values) : mem.values[k] = SG!Data + k - 1
          /\ \A k \in 1 .. Len(os.rt) : os.rt[k] = SG!Data + Len(mem.values) + k - 1
    /\ mem.sigCnt >= Len(mem.values)
    /\ mem.sigCnt - Len(mem.values) <= IF os.usr THEN mem.sent - 1 ELSE mem.sent
    /\ at.main \notin {"establish", "killed"} /\ mem.sent > 0 =>
          os.usr \/ mem.sigCnt - Len(mem.values) >= 1

(* t_nanosleep: what was slept and what is left is what was asked for. *)
NanoParts ==
    /\ Runs("t_nanosleep") /\ DOMAIN mem = {"prog", "asked", "request", "remain"}
    /\ DOMAIN at = {"main"} /\ DOMAIN os = {"slept", "total", "ints"}
    /\ mem.asked \in Nat /\ mem.request \in Nat /\ mem.remain \in Nat
    /\ os.slept \in Nat /\ os.total \in Nat
    /\ at.main = "sleep" => os.slept <= mem.request /\ os.total + mem.request - os.slept = mem.asked
    /\ at.main = "again" => os.total + mem.remain = mem.asked
    /\ at.main = "exit" => os.total = mem.asked

(* timed_read: from read() on, numRead and the errno that will be looked   *)
(* at say how read() ended.                                                *)
ReadParts ==
    /\ Runs("timed_read")
    /\ DOMAIN mem = {"prog", "restart", "numRead", "errno", "savedErrno", "said"}
    /\ DOMAIN at = {"main"} /\ DOMAIN os = {"value", "armed", "input", "did"}
    /\ at.main \in {"alarm", "read", "blocked", "save", "off", "restore", "report", "exit"}
    /\ os.input \in {"none", "data", "error"}
    /\ at.main \in {"save", "off", "restore", "report"} =>
          /\ os.did \in {"data", "error", "interrupted"}
          /\ mem.numRead = "-1" <=> os.did # "data"
          /\ os.did = "interrupted" => ~os.armed
    /\ at.main \in {"save", "report"} /\ mem.numRead = "-1" =>
          (mem.errno = "EINTR" <=> os.did = "interrupted")
    /\ at.main \in {"off", "restore"} /\ mem.numRead = "-1" =>
          (mem.savedErrno = "EINTR" <=> os.did = "interrupted")
    /\ at.main = "exit" =>
          /\ mem.said = "timed out" <=> os.did = "interrupted"
          /\ mem.said = "read" <=> os.did = "data"

AlarmParts == Runs("real_timer") /\ "prog" \in DOMAIN mem

-----------------------------------------------------------------------------
HandlersType ==
    /\ DOMAIN mem = {"prog", "cond", "cond2", "stack", "step", "canJump", "env", "jumps", "shown",
                     "armed", "buf", "cr1", "torn", "mismatch", "handled", "j", "out"}
    /\ DOMAIN at = {"main"} /\ DOMAIN os = {"disp", "mask", "pending", "sent", "held"}
    /\ DOMAIN os.disp = {"INT", "QUIT", "FPE"} /\ mem.cond \in BOOLEAN

(* Only SIGINT comes; its handler, once installed, stays, and runs with it *)
(* blocked.                                                                *)
OneHandler ==
    /\ HandlersType /\ os.pending \subseteq {"INT"} /\ mem.stack \in {<<>>, <<"INT">>}
    /\ mem.armed <=> os.disp["INT"] = "handler"
    /\ ~mem.armed => mem.stack = <<>>
    /\ at.main = "killed" => ~mem.armed
    /\ mem.stack # <<>> => "INT" \in os.mask

(* sigmask_longjmp: after a longjmp() the signal stays blocked. *)
JumpParts ==
    /\ Runs("sigmask_longjmp") /\ OneHandler /\ mem.jumps \in Nat
    /\ at.main = "canJump" => mem.env
    /\ mem.canJump => mem.env
    /\ mem.jumps > 0 => mem.env
    /\ at.main = "jumped" => mem.jumps > 0
    /\ ~mem.cond /\ mem.jumps > 0 => mem.stack = <<>> /\ mem.jumps = 1
    /\ os.mask = IF mem.stack # <<>> \/ (~mem.cond /\ mem.jumps > 0) THEN {"INT"} ELSE {}
    /\ mem.shown # <<>> => (mem.shown[1] = {}) = mem.cond

(* A mismatch that main() may still report. *)
Owed ==
    \/ at.main = "crypt" /\ mem.torn
    \/ at.main = "strcmp" /\ (mem.torn \/ mem.buf # mem.cr1)

(* nonreentrant: the handler that spoils a round of main() is counted. *)
CryptParts ==
    /\ Runs("nonreentrant") /\ OneHandler /\ mem.mismatch \in Nat /\ mem.handled \in Nat
    /\ mem.step \in {0, 1} /\ (mem.stack = <<>> => mem.step = 0)
    /\ at.main \in {"loop", "crypt", "strcmp"} => mem.cr1 = "one"
    /\ at.main = "sigaction" => mem.cr1 = "one"
    /\ mem.mismatch <= mem.handled
    /\ mem.step = 0 /\ Owed => mem.mismatch < mem.handled

IntQuitStacks == {<<>>, <<"INT">>, <<"QUIT">>, <<"INT", "QUIT">>, <<"QUIT", "INT">>}

(* intquit: SIGINT's handler is interrupted only by one that does not      *)
(* return.                                                                 *)
IntQuitParts ==
    /\ Runs("intquit") /\ HandlersType /\ os.pending \subseteq {"INT", "QUIT"}
    /\ mem.stack \in IntQuitStacks /\ mem.handled \in Nat /\ mem.out \in Seq(Nat)
    /\ \A s \in {"INT", "QUIT"} : s \in os.mask <=> \E k \in 1 .. Len(mem.stack) : mem.stack[k] = s
    /\ \A i \in 1 .. Len(mem.out) : mem.out[i] = i
    /\ mem.stack \in {<<>>, <<"QUIT">>} => mem.handled = Len(mem.out)
    /\ mem.stack \in {<<"INT">>, <<"QUIT", "INT">>} =>
          mem.handled = Len(mem.out) + (IF mem.step = 0 THEN 0 ELSE 1)

(* ouch *)
OuchParts ==
    /\ Runs("ouch") /\ HandlersType /\ os.pending \subseteq {"INT"} /\ mem.j \in Nat
    /\ mem.armed => os.disp["INT"] = "handler" \/ mem.j >= Rounds
    /\ at.main = "killed" /\ mem.armed => mem.j >= Rounds

(* block: a SIGINT that is held is pending, until it ends the program. *)
BlockParts ==
    /\ Runs("block") /\ HandlersType /\ os.pending \subseteq {"INT"} /\ ~mem.armed
    /\ os.disp["INT"] = "dfl"
    /\ os.held => "INT" \in os.pending \/ at.main = "killed"
    /\ at.main = "start" => mem.out = <<>>
    /\ at.main = "unblocked" => os.mask = {}
    /\ mem.out # <<>> => os.mask = {} /\ ~os.held

(* pause: who is woken is so by a handler that has counted. *)
PauseParts ==
    /\ Runs("pause") /\ OneHandler /\ mem.handled \in Nat
    /\ mem.stack # <<>> /\ mem.step = 1 => mem.handled > 0
    /\ at.main = "woken" /\ mem.stack = <<>> => mem.handled > 0
    /\ at.main = "done" => mem.handled > 0

Parity(s) == Len(s) % 2

(* sigaction: between the two writes the handler runs. *)
OuchTwiceParts ==
    /\ Runs("sigaction") /\ OneHandler /\ mem.step \in {0, 1} /\ (mem.stack = <<>> => mem.step = 0)
    /\ mem.out \in Seq({"Ouch", "!!!!!!"}) /\ HA!Alternates(mem.out)
    /\ Parity(mem.out) = mem.step

(* demo_SIGFPE: a SIGFPE that is delivered is neither ignored nor blocked. *)
FpeParts ==
    /\ Runs("demo_SIGFPE") /\ HandlersType /\ os.pending \subseteq {"FPE"} /\ ~mem.armed
    /\ mem.stack \in {<<>>, <<"FPE">>} /\ mem.handled \in Nat
    /\ at.main = "start" => os.disp["FPE"] = "dfl"
    /\ at.main # "start" => os.disp["FPE"] = IF mem.cond THEN "ign" ELSE "handler"
    /\ at.main \in {"start", "divide", "killed"}
    /\ os.pending # {} \/ mem.stack # <<>> \/ mem.handled > 0 => ~mem.cond /\ ~mem.cond2
    /\ os.pending # {} \/ mem.stack # <<>> => at.main = "divide"
    /\ mem.stack # <<>> => "FPE" \in os.mask
    /\ mem.stack = <<>> /\ "FPE" \in os.mask => mem.cond2
    /\ at.main # "start" /\ mem.cond2 => "FPE" \in os.mask
    /\ at.main = "killed" => mem.cond \/ mem.cond2

HandlersParts ==
    \/ JumpParts \/ CryptParts \/ IntQuitParts \/ OuchParts \/ BlockParts \/ PauseParts
    \/ OuchTwiceParts \/ FpeParts

(* One program runs, and its part of the invariant holds. *)
EventsInv ==
    \/ SelfParts \/ SigioParts \/ MqParts \/ EpollParts \/ PollParts \/ SelectParts
    \/ CountParts \/ NanoParts \/ ReadParts \/ AlarmParts \/ HandlersParts

-----------------------------------------------------------------------------
(* The initial states, program by program. *)
LEMMA InitSelf == SI!SelfPipeInit => SelfParts
  BY DEF SI!SelfPipeInit, SelfParts, Runs

LEMMA InitSigio == SI!SigioInit => SigioParts
  BY DEF SI!SigioInit, SigioParts, Runs, HashFrom, Keys

LEMMA InitMq == MQ!Init => MqParts
  BY EventsAssumption DEF MQ!Init, MqParts, Runs, MQ!Progs

LEMMA StepSelf == ASSUME SelfParts, SI!SelfPipeNext PROVE SelfParts'
  <1> USE DEF Runs, SI!Runs, SI!Move, SI!machine, SI!Main, SI!Ended
  <1>1. CASE SI!Sigint
    BY <1>1 DEF SelfParts, SI!Sigint
  <1>2. CASE SI!Deliver
    BY <1>2 DEF SelfParts, SI!Deliver
  <1>3. CASE SI!Handler
    <2>1. /\ at' = [main |-> IF at.main = "blocked" THEN "select" ELSE at.main, handler |-> "none"]
          /\ at.handler = "write" /\ at.main \notin {"pipe", "sigaction"}
      BY <1>3 DEF SI!Handler, SelfParts
    <2>2. /\ DOMAIN at' = {"main", "handler"} /\ at'.handler = "none"
          /\ at'.main = IF at.main = "blocked" THEN "select" ELSE at.main
      BY <2>1
    <2>3. /\ mem' = [mem EXCEPT !.caught = @ \/ at.main \in {"select", "blocked"}]
          /\ os' = [os EXCEPT !.pipe = IF @ < PipeSize THEN @ + 1 ELSE @]
      BY <1>3 DEF SI!Handler
    <2>4. /\ DOMAIN mem' = DOMAIN mem /\ mem'.prog = mem.prog
          /\ mem'.caught <=> mem.caught \/ at.main \in {"select", "blocked"}
          /\ mem'.said = mem.said /\ mem'.readfds = mem.readfds
      BY <2>3 DEF SelfParts
    <2>5. /\ DOMAIN os' = DOMAIN os /\ os'.pending = os.pending
          /\ os'.pipe \in Nat /\ os'.pipe > 0
      BY <2>3, EventsAssumption DEF SelfParts
    <2> QED BY <2>1, <2>2, <2>4, <2>5 DEF SelfParts
  <1>4. CASE SI!MakePipe \/ SI!Establish \/ SI!PrintReady
    BY <1>4 DEF SelfParts, SI!MakePipe, SI!Establish, SI!PrintReady
  <1>5. CASE SI!Select
    BY <1>5 DEF SelfParts, SI!Select, SI!Ready
  <1>6. CASE SI!Wake \/ SI!Timeout
    BY <1>6 DEF SelfParts, SI!Wake, SI!Timeout, SI!Ready
  <1>7. CASE SI!Test
    BY <1>7 DEF SelfParts, SI!Test
  <1>8. CASE SI!Drain
    BY <1>8 DEF SelfParts, SI!Drain
  <1>9. CASE SI!Input \/ UNCHANGED SI!machine
    BY <1>9 DEF SelfParts, SI!Input
  <1> QED
    BY <1>1, <1>2, <1>3, <1>4, <1>5, <1>6, <1>7, <1>8, <1>9
    DEF SI!SelfPipeNext, SI!Program, SI!Environment, SI!Idle, SI!self_pipe

LEMMA StepSigio == ASSUME SigioParts, SI!SigioNext PROVE SigioParts'
  <1> USE DEF Runs, SI!Runs, SI!Move, SI!machine
  <1>1. CASE SI!Key
    <2>1. PICK c \in Keys : os' = [os EXCEPT !.keys = @ + 1, !.queue = Append(@, c),
                                             !.pending = @ \/ os.async]
      BY <1>1 DEF SI!Key, Keys
    <2>2. os'.queue = Append(os.queue, c) /\ os'.queue \in Seq(Keys)
      BY <2>1 DEF SigioParts
    <2> QED BY <1>1, <2>1, <2>2 DEF SigioParts, SI!Key, HashFrom
  <1>2. CASE SI!SigioHandler
    BY <1>2 DEF SigioParts, SI!SigioHandler, HashFrom
  <1>3. CASE SI!SetAsync \/ SI!SetCbreak \/ SI!RestoreTty
    <2>2. CASE SI!SetAsync
      <3>1. /\ at.main = "setAsync" /\ DOMAIN at' = {"main"} /\ at'.main = "cbreak" /\ mem' = mem
            /\ DOMAIN os' = DOMAIN os /\ os'.queue = os.queue /\ os'.async
        BY <2>2 DEF SigioParts, SI!SetAsync
      <3> QED BY <3>1 DEF SigioParts, HashFrom
    <2>3. CASE SI!SetCbreak \/ SI!RestoreTty
      <3>1. /\ at.main \in {"cbreak", "restore"} /\ DOMAIN at' = {"main"} /\ mem' = mem
            /\ at'.main = IF at.main = "cbreak" THEN "loop" ELSE "exit"
            /\ os' = [os EXCEPT !.queue = <<>>]
        BY <2>3 DEF SigioParts, SI!SetCbreak, SI!RestoreTty
      <3>2. DOMAIN os' = DOMAIN os /\ os'.queue = <<>> /\ os'.async
        BY <3>1 DEF SigioParts
      <3> QED BY <3>1, <3>2 DEF SigioParts, HashFrom
    <2> QED BY <1>3, <2>2, <2>3
  <1>4. CASE SI!Loop \/ SI!TestFlag
    BY <1>4 DEF SigioParts, SI!Loop, SI!TestFlag, HashFrom
  <1>5. CASE SI!ClearFlag
    BY <1>5 DEF SigioParts, SI!ClearFlag, HashFrom
  <1>6. CASE SI!Take /\ SI!Move("main", "read", IF mem.done THEN "loop" ELSE "print")
    <2>0. os.queue \in Seq(Keys) /\ os.queue # <<>>
      BY <1>6 DEF SigioParts, SI!Take
    <2>1. PICK c \in Keys, rest \in Seq(Keys) : Head(os.queue) = c /\ Tail(os.queue) = rest
      BY <2>0, HeadTailProperties
    <2>2. /\ mem' = [mem EXCEPT !.ch = c, !.read = Append(@, c)]
          /\ os' = [os EXCEPT !.queue = rest] /\ at.main = "read"
          /\ at' = [at EXCEPT !.main = IF mem.done THEN "loop" ELSE "print"]
      BY <1>6, <2>1 DEF SI!Take
    <2>3. PICK r \in Seq(Keys) : mem.read = r
      BY DEF SigioParts
    <2>4. /\ Append(r, c) \in Seq(Keys) /\ Len(Append(r, c)) = Len(r) + 1
          /\ \A k \in 1 .. Len(r) : Append(r, c)[k] = r[k]
          /\ Append(r, c)[Len(r) + 1] = c
      BY <2>3
    <2>5. /\ mem'.read = Append(r, c) /\ mem'.ch = c /\ mem'.done = mem.done
          /\ mem'.prog = mem.prog /\ DOMAIN mem' = DOMAIN mem
      BY <2>2, <2>3 DEF SigioParts
    <2>6. HashFrom(r, Len(r)) /\ (~mem.done => HashFrom(r, Len(r) + 1))
      BY <2>2, <2>3 DEF SigioParts
    <2>7. HashFrom(Append(r, c), Len(r)) /\ (~mem.done => HashFrom(Append(r, c), Len(r) + 1))
      BY <2>3, <2>4, <2>6 DEF HashFrom
    <2>8. /\ DOMAIN at' = {"main"} /\ at'.main = IF mem.done THEN "loop" ELSE "print"
          /\ DOMAIN os' = DOMAIN os /\ os'.queue = rest /\ os'.async
      BY <2>2 DEF SigioParts
    <2>9. Len(r) \in Nat
      BY <2>3
    <2>10. CASE mem.done
      BY <2>4, <2>5, <2>7, <2>8, <2>9, <2>10 DEF SigioParts
    <2>11. CASE ~mem.done
      BY <2>4, <2>5, <2>7, <2>8, <2>9, <2>11 DEF SigioParts
    <2> QED BY <2>10, <2>11
  <1>7. CASE SI!Eagain /\ SI!Move("main", "read", "loop")
    BY <1>7 DEF SigioParts, SI!Eagain, HashFrom
  <1>8. CASE SI!PrintChar
    <2>1. PICK r \in Seq(Keys) : mem.read = r
      BY DEF SigioParts
    <2>2. /\ mem' = [mem EXCEPT !.done = mem.ch = "hash"] /\ os' = os
          /\ at.main = "print" /\ at' = [at EXCEPT !.main = "read"]
      BY <1>8 DEF SI!PrintChar
    <2>3. HashFrom(r, Len(r)) /\ Len(r) > 0 /\ mem.ch = r[Len(r)]
      BY <2>1, <2>2 DEF SigioParts
    <2>4. HashFrom(r, Len(r) - 1) /\ (mem.ch # "hash" => HashFrom(r, Len(r) + 1))
      BY <2>1, <2>3 DEF HashFrom
    <2> QED BY <2>1, <2>2, <2>3, <2>4 DEF SigioParts
  <1>9. CASE UNCHANGED SI!machine
    BY <1>9 DEF SigioParts, HashFrom
  <1> QED
    BY <1>1, <1>2, <1>3, <1>4, <1>5, <1>6, <1>7, <1>8, <1>9
    DEF SI!SigioNext, SI!HandlerStep, SI!MainStep, SI!Exited, SI!demo_sigio, SI!ReadChar

LEMMA StepMq == ASSUME MqParts, MQ!Next PROVE MqParts'
  <1> USE EventsAssumption DEF Runs, MQ!Runs, MQ!Move, MQ!machine, MQ!Progs
  <1>1. CASE MQ!Send
    <2>1. CASE os.queue = 0 /\ os.registered
      <3>1. /\ os' = [os EXCEPT !.sent = @ + 1, !.queue = @ + 1,
                                !.registered = @ /\ ~(os.queue = 0 /\ os.registered),
                                !.pending = @ \/ ((os.queue = 0 /\ os.registered)
                                                  /\ Runs("mq_notify_sig"))]
            /\ mem' = mem
        BY <1>1 DEF MQ!Send
      <3>a. DOMAIN os = {"queue", "registered", "pending", "sent"} /\ ~os.pending
        BY <2>1 DEF MqParts
      <3>b. os'.pending = (os.pending \/ ((os.queue = 0 /\ os.registered)
                                                  /\ Runs("mq_notify_sig")))
        BY <3>1, <3>a
      <3>2. /\ DOMAIN os' = DOMAIN os /\ os'.queue = 1 /\ ~os'.registered
            /\ os'.pending <=> Runs("mq_notify_sig")
        <4>1. /\ DOMAIN os' = DOMAIN os /\ os'.queue = os.queue + 1
              /\ os'.registered = (os.registered /\ ~(os.queue = 0 /\ os.registered))
          BY <3>1, <3>a
        <4>2. os'.queue = 1
          BY <2>1, <4>1
        <4>4. ~os'.registered
          BY ONLY <2>1, <4>1, Zenon
        <4>3. os'.pending <=> Runs("mq_notify_sig")
          BY ONLY <2>1, <3>a, <3>b, Zenon
        <4> QED BY <4>1, <4>2, <4>3, <4>4
      <3>3. CASE Runs("mq_notify_sig")
        BY <1>1, <2>1, <3>1, <3>2, <3>3 DEF MqParts, MQ!Send
      <3>4. CASE Runs("mq_notify_thread")
        <4>1. PICK w \in Workers : at[w] = "unborn" /\ at' = [at EXCEPT ![w] = "setup"]
          BY <1>1, <2>1, <3>4 DEF MQ!Send
        <4> QED BY <2>1, <3>1, <3>2, <3>4, <4>1 DEF MqParts
      <3> QED BY <3>3, <3>4 DEF MqParts
    <2>2. CASE ~(os.queue = 0 /\ os.registered)
      <3>1. /\ DOMAIN os' = DOMAIN os /\ os'.queue = os.queue + 1 /\ at' = at /\ mem' = mem
            /\ os'.registered <=> os.registered
            /\ os'.pending <=> os.pending
        BY <1>1, <2>2 DEF MqParts, MQ!Send
      <3> QED BY <2>2, <3>1 DEF MqParts
    <2> QED BY <2>1, <2>2
  <1>2. CASE MQ!FirstRegister
    BY <1>2 DEF MqParts, MQ!FirstRegister, MQ!Register
  <1>3. CASE Runs("mq_notify_sig") /\ MQ!Suspend
    BY <1>3 DEF MqParts, MQ!Suspend
  <1>4. CASE Runs("mq_notify_sig") /\ MQ!Reregister
    BY <1>4 DEF MqParts, MQ!Reregister, MQ!Register
  <1>5. CASE Runs("mq_notify_sig") /\ MQ!Receive("main", "drain", "wait")
    BY <1>5 DEF MqParts, MQ!Receive
  <1>6. ASSUME Runs("mq_notify_thread"), NEW w \in Workers, MQ!notifySetup(w) PROVE MqParts'
    BY <1>6 DEF MqParts, MQ!notifySetup, MQ!Register
  <1>7. ASSUME Runs("mq_notify_thread"), NEW w \in Workers, MQ!Receive(w, "drain", "done")
        PROVE MqParts'
    BY <1>7 DEF MqParts, MQ!Receive
  <1>8. CASE UNCHANGED MQ!machine
    BY <1>8 DEF MqParts
  <1> QED
    BY <1>1, <1>2, <1>3, <1>4, <1>5, <1>6, <1>7, <1>8
    DEF MQ!Next, MQ!Program, MQ!Sender, MQ!Idle, MQ!sig_main, MQ!threadFunc

LEMMA InitEpoll == PL!EpollInit => EpollParts
  <1> SUFFICES ASSUME PL!EpollInit PROVE EpollParts
    OBVIOUS
  <1>1. /\ os.unread = [f \in Fds |-> 0] /\ os.writers = [f \in Fds |-> TRUE]
        /\ DOMAIN os = {"list", "writers", "opens", "unread", "written", "late"}
    BY DEF PL!EpollInit
  <1> QED BY <1>1 DEF PL!EpollInit, EpollParts, Runs

LEMMA InitPoll == PL!PollInit => PollParts
  <1> SUFFICES ASSUME PL!PollInit PROVE PollParts
    OBVIOUS
  <1>1. PICK n \in 1 .. MaxWrites :
        /\ at = [main |-> "write"]
        /\ mem = [prog |-> "poll_pipes", left |-> n, numWrites |-> n, ready |-> {}]
        /\ os = [unread |-> [p \in PL!Pipes |-> {}]]
    BY DEF PL!PollInit
  <1> QED BY <1>1, EventsAssumption DEF PollParts, Runs

LEMMA InitSelect == PL!SelectInit => SelectParts
  <1> SUFFICES ASSUME PL!SelectInit PROVE SelectParts
    OBVIOUS
  <1>1. /\ at = [main |-> "args"] /\ mem.prog = "t_select"
        /\ DOMAIN mem = {"prog", "args", "timeout", "next", "nfds", "sets", "shown"}
        /\ mem.next = 1 /\ mem.nfds = 0 /\ mem.sets = {}
        /\ DOMAIN os = {"open", "ready", "atReturn", "expired"} /\ os.ready = {}
        /\ \E n \in 0 .. MaxFds : mem.args \in [1 .. n -> PL!Args]
    BY DEF PL!SelectInit
  <1>2. mem.args \in Seq(PL!Args)
    BY <1>1, EventsAssumption
  <1>3. BitsOf(mem.args, mem.next) = {}
    BY <1>1 DEF BitsOf
  <1> QED BY <1>1, <1>2, <1>3 DEF SelectParts, Runs


Events == [fd : Fds, events : SUBSET {"EPOLLIN", "EPOLLHUP"}]

(* What EpollParts says of one event. *)
StillSo(e, late, unread, writers) ==
    HangsUp(e) => e.fd \in late \/ (unread[e.fd] = 0 /\ ~writers[e.fd])

LEMMA StepEpoll == ASSUME EpollParts, PL!EpollNext PROVE EpollParts'
  <1> USE DEF Runs, PL!Runs, PL!Move, PL!machine
  <1>0. /\ os.unread \in [Fds -> Nat] /\ mem.evlist \in Seq(Events)
        /\ \A k \in 1 .. Len(mem.evlist) :
              StillSo(mem.evlist[k], os.late, os.unread, os.writers)
    BY DEF EpollParts, Events, StillSo
  <1>1. ASSUME NEW f \in Fds, PL!Write(f) PROVE EpollParts'
    <2>1. /\ os'.unread = [os.unread EXCEPT ![f] = @ + 1] /\ os'.writers = os.writers
          /\ os'.late = os.late /\ DOMAIN os' = DOMAIN os /\ os.writers[f]
      BY <1>1 DEF PL!Write, EpollParts
    <2>2. os'.unread \in [Fds -> Nat]
      BY <1>0, <2>1
    <2>3. ASSUME NEW k \in 1 .. Len(mem.evlist)
          PROVE  StillSo(mem.evlist[k], os'.late, os'.unread, os'.writers)
      BY <1>0, <2>1, SMTT(40) DEF StillSo, Events
    <2> QED BY <1>1, <2>1, <2>2, <2>3 DEF PL!Write, EpollParts, StillSo
  <1>2. ASSUME NEW f \in Fds, PL!CloseWriter(f) PROVE EpollParts'
    <2>1. /\ os'.unread = os.unread /\ os'.writers = [os.writers EXCEPT ![f] = FALSE]
          /\ os'.late = os.late /\ DOMAIN os' = DOMAIN os
      BY <1>2 DEF PL!CloseWriter, EpollParts
    <2>2. ASSUME NEW k \in 1 .. Len(mem.evlist)
          PROVE  StillSo(mem.evlist[k], os'.late, os'.unread, os'.writers)
      BY <1>0, <2>1 DEF StillSo, Events, EpollParts
    <2> QED BY <1>2, <2>1, <2>2 DEF PL!CloseWriter, EpollParts, StillSo
  <1>3. ASSUME NEW f \in Fds, PL!OpenWriter(f) PROVE EpollParts'
    <2>1. /\ os'.unread = os.unread /\ os'.writers = [os.writers EXCEPT ![f] = TRUE]
          /\ os'.late = IF at.main = "loop" THEN os.late \cup {f} ELSE os.late
          /\ DOMAIN os' = DOMAIN os
      BY <1>3 DEF PL!OpenWriter, EpollParts
    <2>2. ASSUME NEW k \in 1 .. Len(mem.evlist)
          PROVE  StillSo(mem.evlist[k], os'.late, os'.unread, os'.writers)
      <3>1. at.main = "loop"
        BY <1>0 DEF EpollParts
      <3> QED BY <1>0, <2>1, <3>1 DEF StillSo, Events, EpollParts
    <2> QED BY <1>3, <2>1, <2>2 DEF PL!OpenWriter, EpollParts, StillSo
  <1>4. CASE PL!EpollWait
    <2>1. PICK some \in PL!BoundedSeq(mem.open, MaxEvents) :
          /\ at.main = "wait" /\ at' = [at EXCEPT !.main = "loop"]
          /\ mem' = [mem EXCEPT !.evlist =
                        [k \in DOMAIN some |-> [fd |-> some[k], events |-> PL!Events(some[k])]]]
          /\ os' = [os EXCEPT !.late = {}, !.list = os'.list]
      BY <1>4 DEF PL!EpollWait
    <2>2. PICK m \in 0 .. MaxEvents : some \in [1 .. m -> mem.open]
      BY <2>1 DEF PL!BoundedSeq, PL!SeqOf
    <2>3. PICK ev : ev = [k \in 1 .. m |-> [fd |-> some[k], events |-> PL!Events(some[k])]]
      OBVIOUS
    <2>4. /\ mem'.evlist = ev /\ DOMAIN mem' = DOMAIN mem /\ mem'.open = mem.open
          /\ mem'.lost = mem.lost /\ mem'.prog = mem.prog
          /\ DOMAIN os' = DOMAIN os /\ os'.unread = os.unread /\ os'.writers = os.writers
          /\ os'.late = {}
      BY <2>1, <2>2, <2>3 DEF EpollParts
    <2>5. m \in Nat
      BY EventsAssumption
    <2>6. ASSUME NEW k \in 1 .. m
          PROVE  ev[k] \in Events /\ StillSo(ev[k], {}, os.unread, os.writers)
      <3>1. some[k] \in Fds
        BY <2>2 DEF EpollParts
      <3>2. /\ ev[k].fd = some[k] /\ ev[k].events = PL!Events(some[k])
            /\ ev[k] = [fd |-> some[k], events |-> PL!Events(some[k])]
        BY <2>3
      <3>3. /\ PL!Events(some[k]) \in SUBSET {"EPOLLIN", "EPOLLHUP"}
            /\ "EPOLLIN" \in PL!Events(some[k]) <=> os.unread[some[k]] > 0
            /\ "EPOLLHUP" \in PL!Events(some[k]) <=> ~os.writers[some[k]]
        BY DEF PL!Events
      <3>4. os.unread[some[k]] \in Nat
        BY <1>0, <3>1
      <3> QED BY <3>1, <3>2, <3>3, <3>4 DEF Events, StillSo, HangsUp
    <2>7. ev \in Seq(Events) /\ Len(ev) = m
      BY <2>3, <2>5, <2>6
    <2>8. DOMAIN at' = {"main"} /\ at'.main = "loop"
      BY <2>1 DEF EpollParts
    <2>9. \A k \in 1 .. Len(mem'.evlist) :
             StillSo(mem'.evlist[k], os'.late, os'.unread, os'.writers)
      BY <2>4, <2>6, <2>7
    <2> QED BY <2>4, <2>7, <2>8, <2>9 DEF EpollParts, StillSo, Events
  <1>5. CASE PL!HandleEvent
    <2>1. mem.evlist # <<>> /\ at.main = "loop" /\ at' = at
      BY <1>5 DEF PL!HandleEvent
    <2>0. PICK s \in Seq(Events) : s = mem.evlist /\ s # <<>>
      BY <1>0, <2>1
    <2>2. PICK e \in Events, rest \in Seq(Events) :
          /\ e = mem.evlist[1] /\ e = Head(mem.evlist) /\ rest = Tail(mem.evlist)
          /\ Len(rest) = Len(mem.evlist) - 1 /\ Len(mem.evlist) \in Nat \ {0}
          /\ \A k \in 1 .. Len(rest) : rest[k] = mem.evlist[k + 1]
      <3>1. /\ Tail(s) \in Seq(Events) /\ Head(s) \in Events /\ Len(Tail(s)) = Len(s) - 1
            /\ \A k \in 1 .. Len(Tail(s)) : Tail(s)[k] = s[k + 1]
        BY <2>0, HeadTailProperties
      <3>2. Head(s) = s[1] /\ Len(s) \in Nat \ {0}
        BY <2>0, EmptySeq
      <3> QED BY <2>0, <3>1, <3>2
    <2>3. StillSo(e, os.late, os.unread, os.writers)
      BY <1>0, <2>2
    <2>4. ASSUME NEW k \in 1 .. Len(rest)
          PROVE  StillSo(rest[k], os.late, os.unread, os.writers) /\ rest[k] \in Events
      BY <1>0, <2>2
    <2>5. CASE "EPOLLIN" \in e.events
      <3>1. /\ mem' = [mem EXCEPT !.evlist = rest]
            /\ os' = [os EXCEPT !.unread[e.fd] = IF @ > MaxBuf THEN @ - MaxBuf ELSE 0]
        BY <1>5, <2>2, <2>5 DEF PL!HandleEvent
      <3>2. PICK n : n = IF os.unread[e.fd] > MaxBuf THEN os.unread[e.fd] - MaxBuf ELSE 0
        OBVIOUS
      <3>3. n \in Nat /\ (os.unread[e.fd] = 0 => n = 0)
        BY <1>0, <3>2, EventsAssumption DEF Events
      <3>4. /\ os'.unread = [os.unread EXCEPT ![e.fd] = n] /\ os'.writers = os.writers
            /\ os'.late = os.late /\ DOMAIN os' = DOMAIN os
        BY <3>1, <3>2 DEF EpollParts
      <3>5. ASSUME NEW k \in 1 .. Len(rest)
            PROVE  StillSo(rest[k], os'.late, os'.unread, os'.writers)
        BY <1>0, <2>4, <3>3, <3>4 DEF StillSo, Events
      <3>6. os'.unread \in [Fds -> Nat]
        BY <1>0, <3>3, <3>4
      <3>7. /\ mem'.evlist = rest /\ DOMAIN mem' = DOMAIN mem /\ mem'.open = mem.open
            /\ mem'.lost = mem.lost /\ mem'.prog = mem.prog
        BY <3>1 DEF EpollParts
      <3> QED BY <2>1, <2>2, <3>4, <3>5, <3>6, <3>7 DEF EpollParts, StillSo, Events
    <2>6. CASE "EPOLLIN" \notin e.events /\ "EPOLLHUP" \in e.events
      <3>1. /\ mem' = [mem EXCEPT !.evlist = rest, !.open = @ \ {e.fd}, !.lost = PL!Unread(e.fd)]
            /\ os' = os
        BY <1>5, <2>2, <2>6 DEF PL!HandleEvent
      <3>2. PL!Unread(e.fd) = {}
        BY <2>3, <2>6 DEF PL!Unread, StillSo, HangsUp, EpollParts
      <3>3. /\ mem'.evlist = rest /\ DOMAIN mem' = DOMAIN mem /\ mem'.open = mem.open \ {e.fd}
            /\ mem'.lost = {} /\ mem'.prog = mem.prog
        BY <3>1, <3>2 DEF EpollParts
      <3> QED BY <2>1, <2>2, <2>4, <3>1, <3>3 DEF EpollParts, StillSo, Events
    <2> QED BY <1>5, <2>2, <2>5, <2>6 DEF PL!HandleEvent
  <1>6. CASE PL!HandledAll \/ PL!AllClosed
    BY <1>6 DEF EpollParts, PL!HandledAll, PL!AllClosed
  <1>7. CASE UNCHANGED PL!machine
    BY <1>7 DEF EpollParts
  <1> QED
    BY <1>1, <1>2, <1>3, <1>4, <1>5, <1>6, <1>7
    DEF PL!EpollNext, PL!EpollProgram, PL!Writers, PL!Writer, PL!Exited, PL!epoll_input

LEMMA StepPoll == ASSUME PollParts, PL!poll_pipes PROVE PollParts'
  <1> USE DEF Runs, PL!Runs, PL!Move, PL!machine
  <1>1. CASE PL!WriteRandom
    <2>1. PICK p \in PL!Pipes :
          /\ mem.left > 0 /\ at.main = "write" /\ at' = at
          /\ mem' = [mem EXCEPT !.left = @ - 1]
          /\ os' = [os EXCEPT !.unread[p] = @ \cup {mem.left}]
      BY <1>1 DEF PL!WriteRandom
    <2>2. PICK l \in Nat \ {0}, n \in Nat : mem.left = l /\ mem.numWrites = n /\ l <= n
      BY <2>1 DEF PollParts
    <2>3. /\ mem'.left = l - 1 /\ mem'.numWrites = n /\ mem'.prog = mem.prog
          /\ DOMAIN mem' = DOMAIN mem
      BY <2>1, <2>2 DEF PollParts
    <2>4. PICK u : u = os.unread
      OBVIOUS
    <2>5. os'.unread = [u EXCEPT ![p] = @ \cup {l}] /\ DOMAIN os' = DOMAIN os
      BY <2>1, <2>2, <2>4 DEF PollParts
    <2>6. /\ DOMAIN u = PL!Pipes /\ \A q \in PL!Pipes : u[q] \subseteq l + 1 .. n
          /\ \A k \in l + 1 .. n : \E q \in PL!Pipes : k \in u[q]
          /\ \A q, r \in PL!Pipes : q # r => u[q] \cap u[r] = {}
      BY <2>2, <2>4 DEF PollParts
    <2>7. PICK v : v = [u EXCEPT ![p] = @ \cup {l}]
      OBVIOUS
    <2>8. /\ v[p] = u[p] \cup {l} /\ \A q \in PL!Pipes : q # p => v[q] = u[q]
          /\ DOMAIN v = PL!Pipes
      BY <2>6, <2>7
    <2>9. \A q \in PL!Pipes : v[q] \subseteq (l - 1) + 1 .. n
      BY <2>2, <2>6, <2>8
    <2>10. \A k \in (l - 1) + 1 .. n : \E q \in PL!Pipes : k \in v[q]
      <3> SUFFICES ASSUME NEW k \in l .. n PROVE \E q \in PL!Pipes : k \in v[q]
        BY <2>2
      <3>1. CASE k = l
        BY <2>8, <3>1
      <3>2. CASE k # l
        <4>1. PICK q \in PL!Pipes : k \in u[q]
          BY <2>2, <2>6, <3>2
        <4> QED BY <2>8, <4>1
      <3> QED BY <3>1, <3>2
    <2>11. \A q, r \in PL!Pipes : q # r => v[q] \cap v[r] = {}
      <3>1. \A q \in PL!Pipes : l \notin u[q]
        BY <2>2, <2>6
      <3> QED BY <2>6, <2>8, <3>1
    <2> QED BY <2>1, <2>2, <2>3, <2>5, <2>7, <2>8, <2>9, <2>10, <2>11 DEF PollParts
  <1>2. CASE PL!WriteBlocks
    BY <1>2 DEF PollParts, PL!WriteBlocks
  <1>3. CASE PL!Poll
    <2>1. /\ mem.left = 0 /\ at.main = "write" /\ at' = [at EXCEPT !.main = "exit"]
          /\ mem' = [mem EXCEPT !.ready = {p \in PL!Pipes : os.unread[p] # {}}] /\ os' = os
      BY <1>3 DEF PL!Poll
    <2>2. /\ mem'.left = mem.left /\ mem'.numWrites = mem.numWrites /\ mem'.prog = mem.prog
          /\ DOMAIN mem' = DOMAIN mem /\ mem'.ready = {p \in PL!Pipes : os.unread[p] # {}}
      BY <2>1 DEF PollParts
    <2> QED BY <2>1, <2>2 DEF PollParts
  <1> QED BY <1>1, <1>2, <1>3 DEF PL!poll_pipes

LEMMA StepSelect ==
    ASSUME SelectParts, PL!t_select \/ PL!BecomeReady \/ PL!Expire PROVE SelectParts'
  <1> USE DEF Runs, PL!Runs, PL!Move, PL!machine
  <1>0. /\ mem.args \in Seq(PL!Args) /\ mem.nfds \in Nat /\ mem.next \in 1 .. Len(mem.args) + 1
        /\ mem.sets \subseteq PL!Bits /\ os.ready \subseteq PL!Bits
        /\ at.main = "args" =>
              /\ BitsOf(mem.args, mem.next) \subseteq mem.sets
              /\ \A b \in BitsOf(mem.args, mem.next) : b[1] < mem.nfds
              /\ NoneNegative(mem.args, mem.next) => mem.sets = BitsOf(mem.args, mem.next)
    BY DEF SelectParts
  <1>1. CASE PL!AddArg
    <2>1. PICK args \in Seq(PL!Args), i \in Nat, nfds \in Nat, sets \in SUBSET PL!Bits :
          /\ args = mem.args /\ i = mem.next /\ nfds = mem.nfds /\ sets = mem.sets
          /\ i \in 1 .. Len(args)
      <3>1. mem.next <= Len(mem.args)
        BY <1>1 DEF PL!AddArg
      <3>2. Len(mem.args) \in Nat /\ mem.next \in Nat /\ mem.next >= 1
        BY <1>0
      <3> QED BY <1>0, <3>1, <3>2, SMTT(40)
    <2>2. PICK a \in PL!Args : a = args[i]
      BY <2>1
    <2>3. CASE at' = [at EXCEPT !.main = "failed"] /\ mem' = mem /\ os' = os
      BY <2>3 DEF SelectParts
    <2>4. ASSUME NEW bit \in PL!Bit(a.fd), a.fd < FdSetSize, at.main = "args", at' = at, os' = os,
                 mem' = [mem EXCEPT !.next = i + 1, !.nfds = IF a.fd >= nfds THEN a.fd + 1 ELSE nfds,
                                    !.sets = sets \cup {bit} \X a.mode]
          PROVE  SelectParts'
      <3>2. /\ mem'.next = i + 1 /\ mem'.nfds = IF a.fd >= nfds THEN a.fd + 1 ELSE nfds
            /\ mem'.sets = sets \cup {bit} \X a.mode /\ mem'.args = args
            /\ mem'.timeout = mem.timeout /\ mem'.prog = mem.prog /\ DOMAIN mem' = DOMAIN mem
        BY <2>1, <2>4 DEF SelectParts
      <3>3. a.fd \in -1 .. FdSetSize - 1 /\ a.mode \subseteq {"r", "w"}
        BY <2>2, <2>4, EventsAssumption, SMTT(40) DEF PL!Args
      <3>4. bit \in 0 .. FdSetSize - 1 /\ (~(a.fd < 0) => bit = a.fd)
        BY <2>4, <3>3, EventsAssumption, SMTT(40) DEF PL!Bit
      <3> DEFINE Own == {b \in PL!Bits : b[1] = a.fd /\ b[2] \in a.mode}
      <3>5. {bit} \X a.mode \subseteq PL!Bits
        BY <3>3, <3>4 DEF PL!Bits
      <3>6. Own \subseteq {bit} \X a.mode /\ (~(a.fd < 0) => {bit} \X a.mode = Own)
        <4>1. CASE a.fd < 0
          <5>1. \A b \in PL!Bits : b[1] # a.fd
            BY <3>3, <4>1, EventsAssumption DEF PL!Bits
          <5> QED BY <4>1, <5>1
        <4>2. CASE ~(a.fd < 0)
          BY <3>3, <3>4, <4>2 DEF PL!Bits
        <4> QED BY <4>1, <4>2
      <3>7. \A k : k \in 1 .. (i + 1) - 1 <=> k \in 1 .. i - 1 \/ k = i
        BY <2>1
      <3>8. BitsOf(args, i + 1) = BitsOf(args, i) \cup Own
        BY <2>2, <3>7 DEF BitsOf
      <3>9. NoneNegative(args, i + 1) <=> NoneNegative(args, i) /\ ~(a.fd < 0)
        BY <2>2, <3>7 DEF NoneNegative
      <3> HIDE DEF Own
      <3>10. /\ BitsOf(args, i) \subseteq sets /\ \A b \in BitsOf(args, i) : b[1] < nfds
             /\ NoneNegative(args, i) => sets = BitsOf(args, i)
        BY <1>0, <2>1, <2>4
      <3>11. mem'.nfds \in Nat /\ nfds <= mem'.nfds /\ a.fd < mem'.nfds
        BY <2>1, <3>2, <3>3, EventsAssumption
      <3>12. \A b \in BitsOf(args, i + 1) : b[1] < mem'.nfds
        <4> SUFFICES ASSUME NEW b \in BitsOf(args, i) \cup Own PROVE b[1] < mem'.nfds
          BY <3>8
        <4>1. CASE b \in BitsOf(args, i)
          <5>1. b[1] < nfds /\ b[1] \in 0 .. FdSetSize - 1
            BY <3>10, <4>1 DEF PL!Bits, BitsOf
          <5> QED BY <5>1, <3>11, EventsAssumption
        <4>2. CASE b \in Own
          BY <3>11, <4>2 DEF Own
        <4> QED BY <4>1, <4>2
      <3>13. /\ BitsOf(args, i + 1) \subseteq mem'.sets
             /\ NoneNegative(args, i + 1) => mem'.sets = BitsOf(args, i + 1)
        BY <3>2, <3>6, <3>8, <3>9, <3>10
      <3>14. mem'.sets \subseteq PL!Bits /\ mem'.next \in 1 .. Len(mem'.args) + 1
        BY <2>1, <3>2, <3>5
      <3>15. mem'.args \in Seq(PL!Args) /\ os'.ready \subseteq PL!Bits
        BY <1>0, <2>1, <2>4, <3>2, SMTT(40)
      <3> QED
        BY <2>4, <3>2, <3>11, <3>12, <3>13, <3>14, <3>15 DEF SelectParts
    <2>5. \/ at' = [at EXCEPT !.main = "failed"] /\ mem' = mem /\ os' = os
          \/ /\ a.fd < FdSetSize /\ at.main = "args" /\ at' = at /\ os' = os
             /\ \E bit \in PL!Bit(a.fd) :
                   mem' = [mem EXCEPT !.next = i + 1, !.nfds = IF a.fd >= nfds THEN a.fd + 1 ELSE nfds,
                                      !.sets = sets \cup {bit} \X a.mode]
      BY <1>1, <2>1, <2>2 DEF PL!AddArg
    <2> QED BY <2>3, <2>4, <2>5
  <1>2. CASE PL!Select
    <2>1. at.main = "args" /\ mem.next = Len(mem.args) + 1
      BY <1>0, <1>2 DEF PL!Select, PL!Waiting
    <2>2. CASE PL!BadFd
      BY <1>2, <2>1, <2>2 DEF PL!Select, SelectParts
    <2>3. CASE ~PL!BadFd
      <3>1. /\ at' = [at EXCEPT !.main = "show"]
            /\ os.ready \cap PL!Watched # {} \/ mem.timeout = "zero" \/ os.expired
            /\ mem' = [mem EXCEPT !.sets = os.ready \cap PL!Watched]
            /\ os' = [os EXCEPT !.atReturn = os.ready]
        BY <1>2, <2>1, <2>3 DEF PL!Select
      <3>2. \A k : k \in 1 .. (Len(mem.args) + 1) - 1 <=> k \in DOMAIN mem.args
        BY <1>0
      <3>3. BitsOf(mem.args, mem.next) = PL!Asked /\ (NoneNegative(mem.args, mem.next) <=> ~PL!Negative)
        BY <2>1, <3>2 DEF PL!Asked, PL!Negative, BitsOf, NoneNegative
      <3>4. /\ PL!Asked \subseteq PL!Watched /\ (~PL!Negative => PL!Watched = PL!Asked)
            /\ \A b \in PL!Watched : b[1] < mem.nfds
        BY <1>0, <2>1, <3>3 DEF PL!Watched
      <3>5. /\ mem'.sets = os.ready \cap PL!Watched /\ mem'.args = mem.args /\ mem'.nfds = mem.nfds
            /\ mem'.next = mem.next /\ mem'.timeout = mem.timeout /\ mem'.prog = mem.prog
            /\ DOMAIN mem' = DOMAIN mem
        BY <3>1 DEF SelectParts
      <3>6. /\ os'.atReturn = os.ready /\ os'.ready = os.ready /\ os'.open = os.open
            /\ os'.expired = os.expired /\ DOMAIN os' = DOMAIN os
        BY <3>1 DEF SelectParts
      <3>7. PL!Asked' = PL!Asked /\ (PL!Negative' <=> PL!Negative)
        BY <3>5 DEF PL!Asked, PL!Negative
      <3>8. \A b \in PL!Asked : b[1] \in os.open
        BY <2>3, <3>4 DEF PL!BadFd
      <3>9. at'.main = "show" /\ DOMAIN at' = DOMAIN at
        BY <3>1 DEF SelectParts
      <3>10. mem'.sets \subseteq PL!Bits
        BY <1>0, <3>5
      <3> QED
        BY <1>0, <3>1, <3>4, <3>5, <3>6, <3>7, <3>8, <3>9, <3>10 DEF SelectParts
    <2> QED BY <2>2, <2>3
  <1>3. CASE PL!Show
    <2>1. /\ at.main = "show" /\ at' = [at EXCEPT !.main = "exit"] /\ os' = os
          /\ mem' = [mem EXCEPT !.shown = {b \in mem.sets : b[1] \in 0 .. mem.nfds - 1}]
      BY <1>3 DEF PL!Show
    <2>2. {b \in mem.sets : b[1] \in 0 .. mem.nfds - 1} = mem.sets
      <3> SUFFICES ASSUME NEW b \in mem.sets PROVE b[1] \in 0 .. mem.nfds - 1
        OBVIOUS
      <3>1. b[1] \in 0 .. FdSetSize - 1 /\ b[1] < mem.nfds
        BY <1>0, <2>1 DEF PL!Bits, SelectParts
      <3> QED BY <1>0, <3>1, EventsAssumption
    <2>3. /\ mem'.sets = mem.sets /\ mem'.args = mem.args /\ mem'.nfds = mem.nfds
          /\ mem'.next = mem.next /\ mem'.timeout = mem.timeout /\ mem'.prog = mem.prog
          /\ DOMAIN mem' = DOMAIN mem /\ mem'.shown = mem.sets
      BY <2>1, <2>2 DEF SelectParts
    <2>4. PL!Asked' = PL!Asked /\ (PL!Negative' <=> PL!Negative)
      BY <2>3 DEF PL!Asked, PL!Negative
    <2> QED BY <2>1, <2>3, <2>4 DEF SelectParts
  <1>4. CASE PL!BecomeReady
    <2>1. PICK b \in PL!Bits : os' = [os EXCEPT !.ready = @ \cup {b}]
      BY <1>4 DEF PL!BecomeReady
    <2>2. at' = at /\ mem' = mem /\ at.main = "args"
      BY <1>4 DEF PL!BecomeReady, PL!Waiting
    <2> QED BY <2>1, <2>2 DEF SelectParts
  <1>5. CASE PL!Expire
    <2>1. at' = at /\ mem' = mem /\ at.main = "args" /\ os' = [os EXCEPT !.expired = TRUE]
      BY <1>5 DEF PL!Expire, PL!Waiting
    <2> QED BY <2>1 DEF SelectParts
  <1> QED BY <1>1, <1>2, <1>3, <1>4, <1>5 DEF PL!t_select

LEMMA InitCount == SG!SigInit => CountParts
  <1> SUFFICES ASSUME SG!SigInit PROVE CountParts
    OBVIOUS
  <1>1. /\ mem.prog \in SG!SigProgs /\ mem.sigCnt = 0 /\ mem.values = <<>>
        /\ mem.sent = 0 /\ mem.queued = 0
        /\ DOMAIN mem = {"prog", "blocks", "sigCnt", "values", "done", "sent", "queued"}
    BY DEF SG!SigInit
  <1>2. /\ at = [main |-> "establish", sig_sender |-> "send", t_sigqueue |-> "send"]
        /\ os = [usr |-> FALSE, int |-> FALSE, rt |-> <<>>, blocked |-> {}]
    BY DEF SG!SigInit
  <1> QED BY <1>1, <1>2 DEF CountParts

LEMMA InitTimer == SG!TimerInit => NanoParts \/ ReadParts \/ AlarmParts
  <1> SUFFICES ASSUME SG!TimerInit PROVE NanoParts \/ ReadParts \/ AlarmParts
    OBVIOUS
  <1>1. PICK value \in BOOLEAN, interval \in BOOLEAN, restart \in BOOLEAN, secs \in 0 .. MaxSleep :
        \/ mem = [prog |-> "real_timer", interval |-> interval, gotAlarm |-> FALSE,
                  sigCnt |-> 0, maxSigs |-> 0]
        \/ /\ mem = [prog |-> "timed_read", restart |-> restart, numRead |-> "none", errno |-> "none",
                     savedErrno |-> "none", said |-> "none"]
           /\ at = [main |-> "alarm"]
           /\ os = [value |-> value, armed |-> FALSE, input |-> "none", did |-> "none"]
        \/ /\ mem = [prog |-> "t_nanosleep", asked |-> secs, request |-> secs, remain |-> 0]
           /\ at = [main |-> "sleep"]
           /\ os = [slept |-> 0, total |-> 0, ints |-> 0]
    BY DEF SG!TimerInit
  <1>2. secs \in Nat
    BY EventsAssumption
  <1>3. CASE mem = [prog |-> "real_timer", interval |-> interval, gotAlarm |-> FALSE,
                    sigCnt |-> 0, maxSigs |-> 0]
    BY <1>3 DEF AlarmParts, Runs
  <1>4. CASE /\ mem = [prog |-> "timed_read", restart |-> restart, numRead |-> "none", errno |-> "none",
                        savedErrno |-> "none", said |-> "none"]
             /\ at = [main |-> "alarm"]
             /\ os = [value |-> value, armed |-> FALSE, input |-> "none", did |-> "none"]
    BY <1>4 DEF ReadParts, Runs
  <1>5. CASE /\ mem = [prog |-> "t_nanosleep", asked |-> secs, request |-> secs, remain |-> 0]
             /\ at = [main |-> "sleep"]
             /\ os = [slept |-> 0, total |-> 0, ints |-> 0]
    BY <1>2, <1>5 DEF NanoParts, Runs
  <1> QED BY <1>1, <1>3, <1>4, <1>5

(* What CountParts says of the values. *)
InOrder(values, rt, n) ==
    /\ Len(values) + Len(rt) = n
    /\ \A k \in 1 .. Len(values) : values[k] = SG!Data + k - 1
    /\ \A k \in 1 .. Len(rt) : rt[k] = SG!Data + Len(values) + k - 1

LEMMA OrderQueue ==
    \A v, r \in Seq(Nat), n \in Nat :
        InOrder(v, r, n) => InOrder(v, Append(r, SG!Data + n), n + 1)
  <1> SUFFICES ASSUME NEW v \in Seq(Nat), NEW r \in Seq(Nat), NEW n \in Nat, InOrder(v, r, n)
               PROVE  InOrder(v, Append(r, SG!Data + n), n + 1)
    OBVIOUS
  <1> QED BY DEF InOrder, SG!Data

LEMMA OrderCatch ==
    \A v, r \in Seq(Nat), n \in Nat :
        InOrder(v, r, n) /\ r # <<>> => InOrder(Append(v, Head(r)), Tail(r), n)
  <1> SUFFICES ASSUME NEW v \in Seq(Nat), NEW r \in Seq(Nat), NEW n \in Nat, InOrder(v, r, n),
                      r # <<>>
               PROVE  InOrder(Append(v, Head(r)), Tail(r), n)
    BY SMTT(40)
  <1>1. PICK h \in Nat, t \in Seq(Nat) :
        /\ h = Head(r) /\ t = Tail(r) /\ h = r[1] /\ Len(t) = Len(r) - 1 /\ Len(r) \in Nat \ {0}
        /\ \A k \in 1 .. Len(t) : t[k] = r[k + 1]
    <2>1. /\ Tail(r) \in Seq(Nat) /\ Head(r) \in Nat /\ Len(Tail(r)) = Len(r) - 1
          /\ \A k \in 1 .. Len(Tail(r)) : Tail(r)[k] = r[k + 1]
      BY HeadTailProperties
    <2>2. Head(r) = r[1] /\ Len(r) \in Nat \ {0}
      BY EmptySeq
    <2> QED BY <2>1, <2>2
  <1>2. h = SG!Data + Len(v)
    BY <1>1 DEF InOrder, SG!Data
  <1>3. PICK w \in Seq(Nat) :
        /\ w = Append(v, h) /\ Len(w) = Len(v) + 1 /\ w[Len(v) + 1] = h
        /\ \A k \in 1 .. Len(v) : w[k] = v[k]
    <2>1. /\ Append(v, h) \in Seq(Nat) /\ Len(Append(v, h)) = Len(v) + 1
          /\ Append(v, h)[Len(v) + 1] = h
          /\ \A k \in 1 .. Len(v) : Append(v, h)[k] = v[k]
      BY AppendProperties
    <2> QED BY <2>1
  <1>4. \A k \in 1 .. Len(w) : w[k] = SG!Data + k - 1
    BY <1>2, <1>3 DEF InOrder, SG!Data
  <1>5. \A k \in 1 .. Len(t) : t[k] = SG!Data + Len(w) + k - 1
    BY <1>1, <1>3 DEF InOrder, SG!Data
  <1>6. Len(w) + Len(t) = n
    <2>1. Len(v) \in Nat /\ Len(r) \in Nat /\ Len(v) + Len(r) = n
      BY DEF InOrder
    <2>2. Len(w) = Len(v) + 1 /\ Len(t) = Len(r) - 1
      BY <1>1, <1>3
    <2>3. (Len(v) + 1) + (Len(r) - 1) = n
      BY ONLY <2>1, SMT
    <2> QED BY ONLY <2>2, <2>3, Zenon
  <1> QED BY <1>1, <1>3, <1>4, <1>5, <1>6 DEF InOrder

(* The numbers of CountParts, for every place of main() but the first. *)
Counted(cnt, v, usr, sent, place) ==
    /\ cnt >= Len(v)
    /\ cnt - Len(v) <= IF usr THEN sent - 1 ELSE sent
    /\ place \notin {"establish", "killed"} /\ sent > 0 => usr \/ cnt - Len(v) >= 1

SigType ==
    /\ mem.prog \in SG!SigProgs
    /\ DOMAIN mem = {"prog", "blocks", "sigCnt", "values", "done", "sent", "queued"}
    /\ DOMAIN at = {"main", "sig_sender", "t_sigqueue"}
    /\ DOMAIN os = {"usr", "int", "rt", "blocked"}
    /\ mem.sigCnt \in Nat /\ mem.sent \in Nat /\ mem.queued \in Nat
    /\ mem.values \in Seq(Nat) /\ os.rt \in Seq(Nat)

LEMMA CountAs ==
    CountParts <=> /\ SigType
                   /\ at.main = "establish" => mem.sent = 0
                   /\ at.main # "killed" => InOrder(mem.values, os.rt, mem.queued)
                   /\ Counted(mem.sigCnt, mem.values, os.usr, mem.sent, at.main)
  BY DEF CountParts, SigType, InOrder, Counted

LEMMA StepCount == ASSUME CountParts, SG!SigNext PROVE CountParts'
  <1> USE DEF Runs, SG!Runs, SG!Move, SG!machine, SG!Ended
  <1> SUFFICES /\ SigType'
               /\ at'.main = "establish" => mem'.sent = 0
               /\ at'.main # "killed" => InOrder(mem'.values, os'.rt, mem'.queued)
               /\ Counted(mem'.sigCnt, mem'.values, os'.usr, mem'.sent, at'.main)
    BY DEF CountParts, SigType, InOrder, Counted
  <1>0. /\ SigType /\ Len(mem.values) \in Nat
        /\ at.main = "establish" => mem.sent = 0
        /\ at.main # "killed" => InOrder(mem.values, os.rt, mem.queued)
        /\ Counted(mem.sigCnt, mem.values, os.usr, mem.sent, at.main)
    BY CountAs DEF SigType
  <1>1. CASE SG!SendSig
    <2>1. /\ mem' = [mem EXCEPT !.sent = @ + 1] /\ os' = [os EXCEPT !["usr"] = TRUE]
          /\ at.main \notin {"exit", "killed"}
          /\ at' = [at EXCEPT !["sig_sender"] = "send",
                              !.main = IF @ = "establish" THEN "killed" ELSE @]
      BY <1>1 DEF SG!SendSig, SG!Post
    <2>2. /\ os'.rt = os.rt /\ os'.usr = TRUE /\ DOMAIN os' = DOMAIN os
          /\ mem'.sent = mem.sent + 1 /\ mem'.values = mem.values /\ mem'.sigCnt = mem.sigCnt
          /\ mem'.queued = mem.queued /\ mem'.prog = mem.prog /\ DOMAIN mem' = DOMAIN mem
          /\ at'.main = (IF at.main = "establish" THEN "killed" ELSE at.main)
          /\ DOMAIN at' = DOMAIN at
      BY <1>0, <2>1 DEF SigType
    <2>3. Counted(mem'.sigCnt, mem'.values, os'.usr, mem'.sent, at'.main)
      BY <1>0, <2>2 DEF Counted, SigType
    <2>4. SigType'
      BY <1>0, <2>2 DEF SigType
    <2> QED BY <1>0, <2>1, <2>2, <2>3, <2>4
  <1>2. CASE SG!SendSig2
    <2>1. /\ mem' = mem /\ os' = [os EXCEPT !["int"] = TRUE]
          /\ at.main \notin {"exit", "killed"}
          /\ at' = [at EXCEPT !["sig_sender"] = "exit",
                              !.main = IF @ = "establish" THEN "killed" ELSE @]
      BY <1>2 DEF SG!SendSig2, SG!Post
    <2>2. /\ os'.rt = os.rt /\ os'.usr = os.usr /\ DOMAIN os' = DOMAIN os
          /\ at'.main = (IF at.main = "establish" THEN "killed" ELSE at.main)
          /\ DOMAIN at' = DOMAIN at
      BY <1>0, <2>1 DEF SigType
    <2> QED BY <1>0, <2>1, <2>2 DEF SigType, Counted
  <1>3. CASE SG!Queue
    <2>1. /\ mem' = [mem EXCEPT !.queued = @ + 1]
          /\ os' = [os EXCEPT !["rt"] = Append(os.rt, SG!Data + mem.queued)]
          /\ at.main \notin {"exit", "killed"}
          /\ at' = [at EXCEPT !["t_sigqueue"] = "send",
                              !.main = IF @ = "establish" THEN "killed" ELSE @]
      BY <1>3 DEF SG!Queue, SG!Post
    <2>2. /\ os'.rt = Append(os.rt, SG!Data + mem.queued) /\ os'.usr = os.usr
          /\ DOMAIN os' = DOMAIN os
          /\ mem'.sent = mem.sent /\ mem'.values = mem.values /\ mem'.sigCnt = mem.sigCnt
          /\ mem'.queued = mem.queued + 1 /\ mem'.prog = mem.prog /\ DOMAIN mem' = DOMAIN mem
          /\ at'.main = (IF at.main = "establish" THEN "killed" ELSE at.main)
          /\ DOMAIN at' = DOMAIN at
      BY <1>0, <2>1 DEF SigType
    <2>3. InOrder(mem'.values, os'.rt, mem'.queued)
      BY <1>0, <2>1, <2>2, OrderQueue DEF SigType
    <2>4. Append(os.rt, SG!Data + mem.queued) \in Seq(Nat)
      BY <1>0 DEF SigType, SG!Data
    <2>5. SigType'
      BY <1>0, <2>2, <2>4 DEF SigType
    <2>6. Counted(mem'.sigCnt, mem'.values, os'.usr, mem'.sent, at'.main)
      BY <1>0, <2>2 DEF Counted
    <2> QED BY <1>0, <2>1, <2>2, <2>3, <2>5, <2>6
  <1>4. CASE SG!QueueFails
    <2>1. mem' = mem /\ os' = os /\ at' = [at EXCEPT !["t_sigqueue"] = "failed"]
      BY <1>4 DEF SG!QueueFails
    <2>2. at'.main = at.main /\ DOMAIN at' = DOMAIN at
      BY <1>0, <2>1 DEF SigType
    <2> QED BY <1>0, <2>1, <2>2 DEF SigType
  <1>5. ASSUME at.main \notin {"exit", "killed", "establish"}, SG!Resume
        PROVE  /\ at'.main \notin {"establish", "killed"} /\ DOMAIN at' = DOMAIN at
    BY <1>0, <1>5 DEF SG!Resume, SigType
  <1>6. CASE SG!handler /\ SG!CatchUsr
    <2>1. /\ mem' = [mem EXCEPT !.sigCnt = @ + 1] /\ os' = [os EXCEPT !.usr = FALSE] /\ os.usr
          /\ at.main \notin {"exit", "killed", "establish"} /\ SG!Resume
      BY <1>6 DEF SG!handler, SG!CatchUsr
    <2>2. /\ os'.rt = os.rt /\ os'.usr = FALSE /\ DOMAIN os' = DOMAIN os
          /\ mem'.sent = mem.sent /\ mem'.values = mem.values /\ mem'.sigCnt = mem.sigCnt + 1
          /\ mem'.queued = mem.queued /\ mem'.prog = mem.prog /\ DOMAIN mem' = DOMAIN mem
      BY <1>0, <2>1 DEF SigType
    <2>3. Counted(mem'.sigCnt, mem'.values, os'.usr, mem'.sent, at'.main)
      <3>1. mem.sigCnt - Len(mem.values) <= mem.sent - 1
        BY <1>0, <2>1 DEF Counted
      <3> QED BY <1>0, <2>2, <3>1 DEF Counted, SigType
    <2>4. SigType'
      BY <1>0, <1>5, <2>1, <2>2 DEF SigType
    <2> QED BY <1>0, <1>5, <2>1, <2>2, <2>3, <2>4
  <1>7. CASE SG!handler /\ SG!CatchRt
    <2>1. /\ os.rt # <<>> /\ os' = [os EXCEPT !.rt = Tail(@)]
          /\ mem' = [mem EXCEPT !.sigCnt = @ + 1, !.values = Append(@, Head(os.rt))]
          /\ at.main \notin {"exit", "killed", "establish"} /\ SG!Resume
      BY <1>7 DEF SG!handler, SG!CatchRt
    <2>2. PICK v \in Seq(Nat), r \in Seq(Nat) : v = mem.values /\ r = os.rt
      BY <1>0 DEF SigType
    <2>3. /\ Tail(r) \in Seq(Nat) /\ Append(v, Head(r)) \in Seq(Nat)
          /\ Len(Append(v, Head(r))) = Len(v) + 1
      BY <2>1, <2>2
    <2>4. /\ os'.rt = Tail(r) /\ os'.usr = os.usr /\ DOMAIN os' = DOMAIN os
          /\ mem'.sent = mem.sent /\ mem'.values = Append(v, Head(r))
          /\ mem'.sigCnt = mem.sigCnt + 1
          /\ mem'.queued = mem.queued /\ mem'.prog = mem.prog /\ DOMAIN mem' = DOMAIN mem
      BY <1>0, <2>1, <2>2 DEF SigType
    <2>5. InOrder(mem'.values, os'.rt, mem'.queued)
      BY <1>0, <2>1, <2>2, <2>4, OrderCatch DEF SigType
    <2>6. Counted(mem'.sigCnt, mem'.values, os'.usr, mem'.sent, at'.main)
      BY <1>0, <2>1, <2>2, <2>3, <2>4 DEF Counted, SigType
    <2>7. SigType'
      <3>1. DOMAIN at' = DOMAIN at
        BY <1>5, <2>1
      <3> QED BY <1>0, <2>3, <2>4, <3>1 DEF SigType
    <2> QED BY <1>5, <2>1, <2>5, <2>6, <2>7
  <1>8. CASE SG!handler /\ SG!CatchInt
    <2>1. /\ mem' = [mem EXCEPT !.done = TRUE] /\ os' = [os EXCEPT !.int = FALSE]
          /\ at.main \notin {"exit", "killed", "establish"} /\ SG!Resume
      BY <1>8 DEF SG!handler, SG!CatchInt
    <2>2. /\ os'.rt = os.rt /\ os'.usr = os.usr /\ DOMAIN os' = DOMAIN os
          /\ mem'.sent = mem.sent /\ mem'.values = mem.values /\ mem'.sigCnt = mem.sigCnt
          /\ mem'.queued = mem.queued /\ mem'.prog = mem.prog /\ DOMAIN mem' = DOMAIN mem
      BY <1>0, <2>1 DEF SigType
    <2> QED BY <1>0, <1>5, <2>1, <2>2 DEF SigType, Counted
  <1>9. CASE SG!sig_receiver \/ SG!Pause
    <2>1. /\ mem' = mem /\ os'.rt = os.rt /\ os'.usr = os.usr /\ DOMAIN os' = DOMAIN os
          /\ at'.main \notin {"establish", "killed"} /\ at.main # "killed"
          /\ DOMAIN at' = DOMAIN at
      BY <1>0, <1>9
      DEF SG!sig_receiver, SG!Establish, SG!Block, SG!Unblock, SG!Test, SG!PrintCount, SG!Pause,
          SigType
    <2> QED BY <1>0, <2>1 DEF SigType, Counted
  <1>10. CASE UNCHANGED SG!machine
    BY <1>0, <1>10 DEF SigType
  <1>11. SG!handler => SG!CatchUsr \/ SG!CatchRt \/ SG!CatchInt
    BY DEF SG!handler
  <1>12. \/ SG!sig_sender \/ SG!t_sigqueue \/ SG!handler \/ SG!sig_receiver \/ SG!Pause
         \/ UNCHANGED SG!machine
    BY DEF SG!SigNext, SG!Receiver, SG!Sender, SG!SigIdle, SG!catch_rtsigs
  <1> QED
    BY <1>1, <1>2, <1>3, <1>4, <1>6, <1>7, <1>8, <1>9, <1>10, <1>11, <1>12
    DEF SG!sig_sender, SG!t_sigqueue

LEMMA StepNano ==
    ASSUME NanoParts, SG!t_nanosleep \/ SG!Tick \/ SG!Interrupt PROVE NanoParts'
  <1> USE DEF Runs, SG!Runs, SG!Move
  <1>1. CASE SG!Tick
    BY <1>1 DEF NanoParts, SG!Tick
  <1>2. CASE SG!SleepEnds
    BY <1>2 DEF NanoParts, SG!SleepEnds
  <1>3. CASE SG!Interrupt
    BY <1>3 DEF NanoParts, SG!Interrupt
  <1>4. CASE SG!SleepAgain
    BY <1>4 DEF NanoParts, SG!SleepAgain
  <1> QED BY <1>1, <1>2, <1>3, <1>4 DEF SG!t_nanosleep

LEMMA StepRead ==
    ASSUME ReadParts, SG!timed_read \/ SG!AlarmHandler \/ SG!Type PROVE ReadParts'
  <1> USE DEF Runs, SG!Runs, SG!Move, ReadParts
  <1>1. CASE SG!Alarm
    BY <1>1 DEF SG!Alarm
  <1>2. CASE SG!Read
    <2>1. CASE /\ os.input # "none" /\ at' = [at EXCEPT !.main = "save"]
               /\ mem' = IF os.input = "data" THEN [mem EXCEPT !.numRead = "bytes"]
                         ELSE [mem EXCEPT !.numRead = "-1", !.errno = "EIO"]
               /\ os' = [os EXCEPT !.did = os.input]
      <3>1. CASE os.input = "data"
        BY <2>1, <3>1
      <3>2. CASE os.input = "error"
        BY <2>1, <3>2
      <3> QED BY <2>1, <3>1, <3>2
    <2>2. CASE at.main = "read" /\ at' = [at EXCEPT !.main = "blocked"] /\ mem' = mem /\ os' = os
      BY <2>2
    <2> QED BY <1>2, <2>1, <2>2 DEF SG!Read
  <1>3. CASE SG!SaveErrno
    BY <1>3 DEF SG!SaveErrno
  <1>4. CASE SG!AlarmOff
    BY <1>4 DEF SG!AlarmOff
  <1>5. CASE SG!RestoreErrno
    BY <1>5 DEF SG!RestoreErrno
  <1>6. CASE SG!Report
    BY <1>6 DEF SG!Report
  <1>7. CASE SG!AlarmHandler
    <2>1. CASE /\ at' = [at EXCEPT !.main = "save"]
               /\ mem' = [mem EXCEPT !.numRead = "-1", !.errno = "EINTR"]
               /\ os' = [os EXCEPT !.armed = FALSE, !.did = "interrupted"]
      BY <2>1
    <2>2. CASE /\ at.main # "exit" /\ os.armed /\ UNCHANGED at
               /\ \E e \in {mem.errno, "other"} : mem' = [mem EXCEPT !.errno = e]
               /\ os' = [os EXCEPT !.armed = FALSE]
      <3>1. PICK e \in {mem.errno, "other"} : mem' = [mem EXCEPT !.errno = e]
        BY <2>2
      <3> QED BY <2>2, <3>1
    <2> QED BY <1>7, <2>1, <2>2 DEF SG!AlarmHandler
  <1>8. CASE SG!Type
    BY <1>8 DEF SG!Type
  <1> QED BY <1>1, <1>2, <1>3, <1>4, <1>5, <1>6, <1>7, <1>8 DEF SG!timed_read

LEMMA StepAlarm ==
    ASSUME AlarmParts, SG!real_timer \/ SG!sigalrmHandler PROVE AlarmParts'
  BY DEF AlarmParts, Runs, SG!real_timer, SG!MaxSigs, SG!SetTimer, SG!TestAlarm, SG!ClearAlarm,
     SG!CountAlarm, SG!sigalrmHandler

LEMMA CountsRight == CountParts => SG!CountsSignals
  <1> SUFFICES ASSUME CountParts PROVE SG!CountsSignals
    OBVIOUS
  <1>1. PICK v \in Seq(Nat), r \in Seq(Nat), n \in Nat :
        v = mem.values /\ r = os.rt /\ n = mem.queued
    BY DEF CountParts
  <1>2. ASSUME at.main # "killed" PROVE v \o r = [k \in 1 .. n |-> SG!Data + k - 1]
    <2>1. InOrder(v, r, n)
      BY <1>1, <1>2 DEF CountParts, InOrder
    <2>2. PICK s : s = v \o r
      OBVIOUS
    <2>3. /\ s \in Seq(Nat) /\ Len(s) = Len(v) + Len(r)
          /\ \A k \in 1 .. Len(v) : s[k] = v[k]
          /\ \A k \in Len(v) + 1 .. Len(v) + Len(r) : s[k] = r[k - Len(v)]
      <3>1. /\ s \in Seq(Nat) /\ Len(s) = Len(v) + Len(r) /\ Len(v) \in Nat /\ Len(r) \in Nat
            /\ \A k \in 1 .. Len(v) + Len(r) :
                  s[k] = IF k <= Len(v) THEN v[k] ELSE r[k - Len(v)]
        BY <2>2, ConcatProperties
      <3>2. ASSUME NEW k \in 1 .. Len(v) PROVE s[k] = v[k]
        <4>1. k \in 1 .. Len(v) + Len(r) /\ k <= Len(v)
          BY <3>1
        <4> QED BY <3>1, <4>1
      <3>3. ASSUME NEW k \in Len(v) + 1 .. Len(v) + Len(r) PROVE s[k] = r[k - Len(v)]
        <4>1. k \in 1 .. Len(v) + Len(r) /\ ~(k <= Len(v))
          BY <3>1
        <4> QED BY <3>1, <4>1
      <3> QED BY <3>1, <3>2, <3>3
    <2>4. ASSUME NEW k \in 1 .. n PROVE s[k] = SG!Data + k - 1
      <3>0. Len(v) \in Nat /\ Len(r) \in Nat /\ SG!Data \in Nat
        BY <1>1 DEF SG!Data
      <3>1. CASE k <= Len(v)
        BY <2>1, <2>3, <3>0, <3>1 DEF InOrder
      <3>2. CASE k > Len(v)
        <4>1. k \in Len(v) + 1 .. Len(v) + Len(r) /\ k - Len(v) \in 1 .. Len(r)
          BY <2>1, <3>0, <3>2 DEF InOrder
        <4>2. r[k - Len(v)] = SG!Data + Len(v) + (k - Len(v)) - 1
          BY <2>1, <4>1 DEF InOrder
        <4> QED BY <2>3, <3>0, <4>1, <4>2
      <3> QED BY <3>0, <3>1, <3>2
    <2>5. DOMAIN s = 1 .. n /\ s = [k \in DOMAIN s |-> s[k]]
      BY <2>1, <2>3 DEF InOrder
    <2> QED BY <2>2, <2>4, <2>5
  <1>3. Len(v) \in Nat /\ mem.sigCnt \in Nat /\ mem.sent \in Nat
    BY <1>1 DEF CountParts
  <1>4. mem.sigCnt - Len(v) <= mem.sent
    BY <1>1, <1>3 DEF CountParts
  <1> QED BY <1>1, <1>2, <1>3, <1>4 DEF SG!CountsSignals, CountParts

LEMMA FrontLast ==
    /\ \A x : HA!Front(<<x>>) = <<>> /\ HA!Last(<<x>>) = x /\ Append(<<>>, x) = <<x>>
    /\ \A x, y : HA!Front(<<x, y>>) = <<x>> /\ HA!Last(<<x, y>>) = y /\ Append(<<x>>, y) = <<x, y>>
  <1>1. ASSUME NEW x PROVE HA!Front(<<x>>) = <<>> /\ HA!Last(<<x>>) = x /\ Append(<<>>, x) = <<x>>
    BY SubSeqEmpty DEF HA!Front, HA!Last
  <1>2. ASSUME NEW x, NEW y
        PROVE  HA!Front(<<x, y>>) = <<x>> /\ HA!Last(<<x, y>>) = y /\ Append(<<x>>, y) = <<x, y>>
    <2>1. SubSeq(<<x, y>>, 1, 1) = <<x>>
      <3>1. /\ SubSeq(<<x, y>>, 1, 1) \in Seq({x, y}) /\ Len(SubSeq(<<x, y>>, 1, 1)) = 1
            /\ SubSeq(<<x, y>>, 1, 1)[1] = x
        BY SubSeqProperties
      <3>2. <<x>> \in Seq({x, y}) /\ Len(<<x>>) = 1 /\ <<x>>[1] = x
        OBVIOUS
      <3>3. \A i \in 1 .. Len(<<x>>) : <<x>>[i] = SubSeq(<<x, y>>, 1, 1)[i]
        BY <3>1, <3>2
      <3> QED BY <3>1, <3>2, <3>3, SeqEqual
    <2>2. Append(<<x>>, y) = <<x, y>>
      <3>1. /\ Append(<<x>>, y) \in Seq({x, y}) /\ Len(Append(<<x>>, y)) = 2
            /\ Append(<<x>>, y)[1] = x /\ Append(<<x>>, y)[2] = y
        <4>1. <<x>> \in Seq({x, y}) /\ Len(<<x>>) = 1 /\ <<x>>[1] = x
          OBVIOUS
        <4> QED BY <4>1, AppendProperties
      <3>2. <<x, y>> \in Seq({x, y}) /\ Len(<<x, y>>) = 2 /\ <<x, y>>[1] = x /\ <<x, y>>[2] = y
        OBVIOUS
      <3>3. \A i \in 1 .. Len(<<x, y>>) : <<x, y>>[i] = Append(<<x>>, y)[i]
        BY <3>1, <3>2
      <3> QED BY <3>1, <3>2, <3>3, SeqEqual
    <2> QED BY <2>1, <2>2 DEF HA!Front, HA!Last
  <1> QED BY <1>1, <1>2

(* A signal comes and changes nothing but the pending set. *)
LEMMA SendDoes ==
    ASSUME HandlersType, NEW sig, HA!Send(sig)
    PROVE  /\ at' = at /\ mem' = mem /\ HandlersType'
           /\ os'.pending = os.pending \cup {sig} /\ os'.disp = os.disp /\ os'.mask = os.mask
           /\ os'.held = (os.held \/ (Runs("block") /\ sig \in os.mask))
           /\ at.main \notin {"killed", "done", "exited"}
  BY DEF HandlersType, HA!Send, HA!Ended, Runs, HA!Runs

(* It is delivered: its handler starts, or the program ends. *)
LEMMA DeliverDoes ==
    ASSUME HandlersType, NEW sig, HA!Deliver(sig)
    PROVE  /\ sig \in os.pending /\ sig \notin os.mask /\ os'.pending = os.pending \ {sig}
           /\ os'.disp = os.disp /\ os'.held = os.held /\ HandlersType'
           /\ at.main \notin {"killed", "done", "exited"}
           /\ IF os.disp[sig] = "handler"
              THEN /\ os'.mask = os.mask \cup {sig}
                   /\ mem' = [mem EXCEPT !.stack = Append(@, sig), !.step = 0]
                   /\ at'.main = IF at.main = "pause" THEN "woken" ELSE at.main
              ELSE os'.mask = os.mask /\ mem' = mem /\ at'.main = "killed"
  <1>1. /\ sig \in os.pending /\ sig \notin os.mask /\ at.main \notin {"killed", "done", "exited"}
        /\ os' = [os EXCEPT !.pending = @ \ {sig},
                            !.mask = IF os.disp[sig] = "handler" THEN @ \cup {sig} ELSE @]
    BY DEF HA!Deliver, HA!Deliverable, HA!Ended
  <1>2. /\ os'.pending = os.pending \ {sig} /\ os'.disp = os.disp /\ os'.held = os.held
        /\ os'.mask = (IF os.disp[sig] = "handler" THEN os.mask \cup {sig} ELSE os.mask)
        /\ DOMAIN os' = DOMAIN os
    BY <1>1 DEF HandlersType
  <1>3. CASE os.disp[sig] = "handler"
    <2>1. /\ mem' = [mem EXCEPT !.stack = Append(@, sig), !.step = 0]
          /\ at' = [at EXCEPT !.main = IF @ = "pause" THEN "woken" ELSE @]
      BY <1>3 DEF HA!Deliver
    <2> QED BY <1>1, <1>2, <1>3, <2>1 DEF HandlersType
  <1>4. CASE os.disp[sig] # "handler"
    <2>1. mem' = mem /\ at' = [at EXCEPT !.main = "killed"]
      BY <1>4 DEF HA!Deliver
    <2> QED BY <1>1, <1>2, <1>4, <2>1 DEF HandlersType
  <1> QED BY <1>3, <1>4

(* Where one handler is all there is, a delivery finds none running.       *)
LEMMA DeliverOne ==
    ASSUME OneHandler, NEW sig, HA!Deliver(sig)
    PROVE  /\ OneHandler' /\ mem.stack = <<>> /\ at.main \notin {"killed", "done", "exited"}
           /\ IF mem.armed
              THEN /\ mem' = [mem EXCEPT !.stack = <<"INT">>, !.step = 0]
                   /\ at'.main = IF at.main = "pause" THEN "woken" ELSE at.main
                   /\ os'.mask = os.mask \cup {"INT"} /\ "INT" \notin os.mask
              ELSE mem' = mem /\ at'.main = "killed" /\ os'.mask = os.mask
  <1>1. HandlersType /\ sig = "INT"
    BY DeliverDoes DEF OneHandler
  <1>2. mem.stack = <<>>
    BY <1>1, DeliverDoes DEF OneHandler
  <1>3. CASE mem.armed
    <2>1. /\ mem' = [mem EXCEPT !.stack = Append(@, "INT"), !.step = 0]
          /\ at'.main = (IF at.main = "pause" THEN "woken" ELSE at.main)
          /\ os'.mask = os.mask \cup {"INT"} /\ "INT" \notin os.mask /\ os'.disp = os.disp
          /\ os'.pending = os.pending \ {"INT"} /\ HandlersType'
          /\ at.main \notin {"killed", "done", "exited"}
      BY <1>1, <1>3, DeliverDoes DEF OneHandler
    <2>2. mem' = [mem EXCEPT !.stack = <<"INT">>, !.step = 0]
      BY <1>2, <2>1, FrontLast
    <2>3. mem'.stack = <<"INT">> /\ mem'.armed = mem.armed
      BY <1>1, <2>2 DEF HandlersType
    <2> QED BY <1>2, <1>3, <2>1, <2>2, <2>3 DEF OneHandler
  <1>4. CASE ~mem.armed
    <2>1. /\ mem' = mem /\ at'.main = "killed" /\ os'.mask = os.mask
          /\ os'.disp = os.disp /\ os'.pending = os.pending \ {"INT"} /\ HandlersType'
          /\ at.main \notin {"killed", "done", "exited"}
      BY <1>1, <1>4, DeliverDoes DEF OneHandler
    <2> QED BY <1>2, <1>4, <2>1 DEF OneHandler
  <1> QED BY <1>3, <1>4

LEMMA InstallOne ==
    ASSUME OneHandler, NEW l, NEW k, l # "killed", k \notin {"killed", "jumped"},
           HA!Install("INT", l, k)
    PROVE  /\ OneHandler' /\ mem' = [mem EXCEPT !.armed = TRUE] /\ at.main = l /\ at'.main = k
           /\ os'.mask = os.mask /\ mem.stack = <<>> /\ os'.held = os.held
  <1>1. /\ mem.stack = <<>> /\ at.main = l /\ at' = [at EXCEPT !["main"] = k]
        /\ os' = [os EXCEPT !.disp["INT"] = "handler"] /\ mem' = [mem EXCEPT !.armed = TRUE]
    BY DEF HA!Install, HA!Go, HA!MainRuns, HA!Move
  <1>2. /\ os'.disp = [os.disp EXCEPT !["INT"] = "handler"] /\ os'.mask = os.mask
        /\ os'.pending = os.pending /\ os'.held = os.held /\ DOMAIN os' = DOMAIN os
    BY <1>1 DEF OneHandler, HandlersType
  <1>3. /\ os'.disp["INT"] = "handler" /\ DOMAIN os'.disp = DOMAIN os.disp
    BY <1>2 DEF OneHandler, HandlersType
  <1>4. /\ mem'.armed = TRUE /\ mem'.stack = mem.stack /\ mem'.cond = mem.cond
        /\ DOMAIN mem' = DOMAIN mem /\ at'.main = k /\ DOMAIN at' = DOMAIN at
    BY <1>1 DEF OneHandler, HandlersType
  <1> QED BY <1>1, <1>2, <1>3, <1>4 DEF OneHandler, HandlersType

-----------------------------------------------------------------------------
LEMMA StepJump ==
    ASSUME JumpParts, HA!sigmask_longjmp \/ HA!Send("INT") \/ \E sig : HA!Deliver(sig)
    PROVE  JumpParts'
  <1> USE DEF Runs, HA!Runs
  <1>0. OneHandler /\ HandlersType
    BY DEF JumpParts, OneHandler
  <1>1. CASE HA!Install("INT", "start", "setjmp")
    <2>1. /\ OneHandler' /\ mem' = [mem EXCEPT !.armed = TRUE] /\ at'.main = "setjmp"
          /\ os'.mask = os.mask /\ mem.stack = <<>>
      BY <1>0, <1>1, InstallOne
    <2> QED BY <1>0, <2>1 DEF JumpParts, HandlersType
  <1>2. CASE HA!Setjmp \/ HA!CanJump \/ HA!PauseLoop
    <2>1. /\ os' = os /\ at'.main \notin {"killed", "jumped"} /\ DOMAIN at' = DOMAIN at
          /\ \/ mem' = [mem EXCEPT !.env = TRUE]
             \/ mem' = [mem EXCEPT !.canJump = TRUE] /\ at.main = "canJump"
             \/ mem' = mem
          /\ mem.stack = <<>>
      BY <1>0, <1>2 DEF HA!Setjmp, HA!CanJump, HA!PauseLoop, HA!Go, HA!Move, HA!MainRuns, HA!Quiet,
         HandlersType
    <2>2. /\ mem'.armed = mem.armed /\ mem'.stack = mem.stack /\ mem'.cond = mem.cond
          /\ mem'.jumps = mem.jumps /\ mem'.shown = mem.shown /\ DOMAIN mem' = DOMAIN mem
          /\ mem'.prog = mem.prog
          /\ \/ mem'.env = TRUE /\ mem'.canJump = mem.canJump
             \/ mem'.env = mem.env /\ mem'.canJump = TRUE /\ at.main = "canJump"
             \/ mem'.env = mem.env /\ mem'.canJump = mem.canJump
      BY <1>0, <2>1 DEF HandlersType
    <2>3. OneHandler'
      BY <1>0, <2>1, <2>2 DEF OneHandler, HandlersType
    <2>4. os'.mask = os.mask /\ (mem.canJump => mem.env)
      BY <2>1 DEF JumpParts
    <2>5. mem'.canJump => mem'.env
      <3>1. CASE at.main = "canJump"
        <4>1. mem.env
          BY <3>1 DEF JumpParts
        <4> QED BY <2>2, <4>1
      <3> QED BY <2>2, <2>4, <3>1
    <2>6. mem.env => mem'.env
      BY <2>2
    <2>7. at'.main = "canJump" => mem'.env
      BY <1>0, <1>2 DEF HA!Setjmp, HA!CanJump, HA!PauseLoop, HA!Go, HA!Move, HandlersType
    <2> QED BY <2>1, <2>2, <2>3, <2>4, <2>5, <2>6, <2>7 DEF JumpParts
  <1>3. CASE HA!Handler
    <2>1. mem.stack = <<"INT">> /\ at.main # "killed"
      BY <1>0, <1>3 DEF HA!Handler, HA!Handling, OneHandler, HA!Ended
    <2>2. CASE mem.canJump
      <3>1. /\ mem' = [mem EXCEPT !.stack = <<>>, !.jumps = @ + 1]
            /\ at' = [at EXCEPT !.main = "jumped"]
            /\ os' = [os EXCEPT !.mask = IF mem.cond THEN {} ELSE @]
        BY <1>3, <2>2 DEF HA!Handler
      <3>2. /\ mem'.stack = <<>> /\ mem'.jumps = mem.jumps + 1 /\ mem'.armed = mem.armed
            /\ mem'.cond = mem.cond /\ mem'.shown = mem.shown /\ DOMAIN mem' = DOMAIN mem
            /\ mem'.prog = mem.prog /\ mem'.env = mem.env /\ mem'.canJump = mem.canJump
            /\ at'.main = "jumped" /\ DOMAIN at' = DOMAIN at
            /\ os'.mask = (IF mem.cond THEN {} ELSE os.mask) /\ os'.disp = os.disp
            /\ os'.pending = os.pending /\ DOMAIN os' = DOMAIN os
        BY <1>0, <3>1 DEF HandlersType
      <3>3. OneHandler'
        BY <1>0, <3>2 DEF OneHandler, HandlersType
      <3>4. mem.jumps \in Nat /\ (~mem.cond => mem.jumps = 0 /\ os.mask = {"INT"}) /\ mem.env
        BY <2>1, <2>2 DEF JumpParts
      <3> QED BY <3>2, <3>3, <3>4 DEF JumpParts
    <2>3. CASE ~mem.canJump
      <3>1. /\ mem' = [mem EXCEPT !.stack = <<>>, !.step = 0] /\ at' = at
            /\ os' = [os EXCEPT !.mask = @ \ {"INT"}]
        BY <1>3, <2>1, <2>3, FrontLast DEF HA!Handler, HA!Popped, HA!Unmask
      <3>2. /\ mem'.stack = <<>> /\ mem'.jumps = mem.jumps /\ mem'.armed = mem.armed
            /\ mem'.cond = mem.cond /\ mem'.shown = mem.shown /\ DOMAIN mem' = DOMAIN mem
            /\ mem'.prog = mem.prog /\ mem'.env = mem.env /\ mem'.canJump = mem.canJump
            /\ os'.mask = os.mask \ {"INT"} /\ os'.disp = os.disp
            /\ os'.pending = os.pending /\ DOMAIN os' = DOMAIN os
        BY <1>0, <3>1 DEF HandlersType
      <3>3. OneHandler'
        BY <1>0, <2>1, <3>1, <3>2 DEF OneHandler, HandlersType
      <3> QED BY <2>1, <3>1, <3>2, <3>3 DEF JumpParts
    <2> QED BY <2>2, <2>3
  <1>4. CASE HA!AfterJump
    <2>1. /\ mem' = [mem EXCEPT !.shown = <<os.mask>>] /\ os' = os /\ mem.stack = <<>>
          /\ at.main = "jumped" /\ at' = [at EXCEPT !["main"] = "call"]
      BY <1>4 DEF HA!AfterJump, HA!Go, HA!Move, HA!MainRuns
    <2>2. /\ mem'.stack = mem.stack /\ mem'.jumps = mem.jumps /\ mem'.armed = mem.armed
          /\ mem'.cond = mem.cond /\ mem'.shown = <<os.mask>> /\ DOMAIN mem' = DOMAIN mem
          /\ mem'.prog = mem.prog /\ mem'.env = mem.env /\ mem'.canJump = mem.canJump
          /\ at'.main = "call" /\ DOMAIN at' = DOMAIN at
      BY <1>0, <2>1 DEF HandlersType
    <2>3. OneHandler'
      BY <1>0, <2>1, <2>2 DEF OneHandler, HandlersType
    <2>4. (os.mask = {}) = mem.cond
      BY <1>0, <2>1 DEF JumpParts, HandlersType
    <2> QED BY <2>1, <2>2, <2>3, <2>4 DEF JumpParts
  <1>5. CASE HA!Send("INT")
    <2>1. /\ at' = at /\ mem' = mem /\ HandlersType' /\ os'.disp = os.disp /\ os'.mask = os.mask
          /\ os'.pending = os.pending \cup {"INT"}
      BY <1>0, <1>5, SendDoes
    <2>2. OneHandler'
      BY <1>0, <2>1 DEF OneHandler
    <2> QED BY <2>1, <2>2 DEF JumpParts
  <1>6. ASSUME NEW sig, HA!Deliver(sig) PROVE JumpParts'
    <2>1. OneHandler' /\ mem.stack = <<>>
      BY <1>0, <1>6, DeliverOne
    <2>2. CASE mem.armed
      <3>1. /\ mem' = [mem EXCEPT !.stack = <<"INT">>, !.step = 0]
            /\ at'.main = (IF at.main = "pause" THEN "woken" ELSE at.main)
            /\ os'.mask = os.mask \cup {"INT"} /\ "INT" \notin os.mask
        BY <1>0, <1>6, <2>2, DeliverOne
      <3>2. /\ mem'.stack = <<"INT">> /\ mem'.jumps = mem.jumps /\ mem'.armed = mem.armed
            /\ mem'.cond = mem.cond /\ mem'.shown = mem.shown
            /\ mem'.prog = mem.prog /\ mem'.env = mem.env /\ mem'.canJump = mem.canJump
        BY <1>0, <3>1 DEF HandlersType
      <3> QED BY <2>1, <3>1, <3>2 DEF JumpParts
    <2>3. CASE ~mem.armed
      <3>1. mem' = mem /\ at'.main = "killed" /\ os'.mask = os.mask
        BY <1>0, <1>6, <2>3, DeliverOne
      <3> QED BY <2>1, <3>1 DEF JumpParts
    <2> QED BY <2>2, <2>3
  <1> QED BY <1>1, <1>2, <1>3, <1>4, <1>5, <1>6 DEF HA!sigmask_longjmp

LEMMA StepCrypt ==
    ASSUME CryptParts, HA!nonreentrant \/ HA!Send("INT") \/ \E sig : HA!Deliver(sig)
    PROVE  CryptParts'
  <1> USE DEF Runs, HA!Runs
  <1>0. OneHandler /\ HandlersType
    BY DEF CryptParts, OneHandler
  <1>1. CASE HA!Install("INT", "sigaction", "loop")
    <2>1. /\ OneHandler' /\ mem' = [mem EXCEPT !.armed = TRUE] /\ at.main = "sigaction"
          /\ at'.main = "loop"
      BY <1>0, <1>1, InstallOne
    <2> QED BY <1>0, <2>1 DEF CryptParts, HandlersType, Owed
  <1>2. CASE \/ HA!Strdup \/ HA!CryptBegins \/ HA!CryptReturns \/ HA!Mismatch \/ HA!Match
    <2>1. /\ mem.stack = <<>> /\ os' = os /\ mem'.stack = mem.stack /\ mem'.step = mem.step
          /\ mem'.armed = mem.armed /\ mem'.cond = mem.cond /\ mem'.prog = mem.prog
          /\ mem'.handled = mem.handled /\ DOMAIN mem' = DOMAIN mem
          /\ DOMAIN at' = DOMAIN at /\ at'.main # "killed"
      BY <1>0, <1>2, ZenonT(60) DEF HA!Strdup, HA!CryptBegins, HA!CryptReturns, HA!Mismatch, HA!Match, HA!Go,
         HA!Move, HA!MainRuns, HA!Quiet, HandlersType
    <2>2. OneHandler' /\ mem.step = 0
      BY <1>0, <2>1 DEF OneHandler, HandlersType, CryptParts
    <2>3. CASE HA!Strdup
      <3>1. at'.main = "sigaction" /\ mem'.cr1 = "one" /\ mem'.mismatch = mem.mismatch
        BY <1>0, <2>3 DEF HA!Strdup, HA!Go, HA!Move, HandlersType
      <3> QED BY <2>1, <2>2, <3>1 DEF CryptParts, Owed
    <2>4. CASE HA!CryptBegins
      <3>1. /\ at.main = "loop" /\ at'.main = "crypt" /\ mem'.torn = FALSE
            /\ mem'.cr1 = mem.cr1 /\ mem'.mismatch = mem.mismatch
        BY <1>0, <2>4 DEF HA!CryptBegins, HA!Go, HA!Move, HandlersType
      <3> QED BY <2>1, <2>2, <3>1 DEF CryptParts, Owed
    <2>5. CASE HA!CryptReturns
      <3>1. PICK b \in IF mem.torn THEN {"one", "two", "mixed"} ELSE {"one"} :
            mem' = [mem EXCEPT !.buf = b, !.torn = FALSE]
        BY <2>5 DEF HA!CryptReturns
      <3>2. /\ at.main = "crypt" /\ at'.main = "strcmp" /\ mem'.torn = FALSE /\ mem'.buf = b
            /\ mem'.cr1 = mem.cr1 /\ mem'.mismatch = mem.mismatch
        BY <1>0, <2>5, <3>1 DEF HA!CryptReturns, HA!Go, HA!Move, HandlersType
      <3> QED BY <2>1, <2>2, <3>1, <3>2 DEF CryptParts, Owed
    <2>6. CASE HA!Mismatch
      <3>1. /\ at.main = "strcmp" /\ at'.main = "loop" /\ Owed
            /\ mem'.cr1 = mem.cr1 /\ mem'.mismatch = mem.mismatch + 1
        BY <1>0, <2>6 DEF HA!Mismatch, HA!Go, HA!Move, HandlersType, Owed
      <3> QED BY <2>1, <2>2, <3>1 DEF CryptParts, Owed
    <2>7. CASE HA!Match
      <3>1. at.main = "strcmp" /\ at'.main = "loop" /\ mem' = mem
        BY <1>0, <2>7 DEF HA!Match, HA!Go, HA!Move, HA!Quiet, HandlersType
      <3> QED BY <2>1, <2>2, <3>1 DEF CryptParts, Owed
    <2> QED BY <1>2, <2>3, <2>4, <2>5, <2>6, <2>7
  <1>3. CASE HA!CryptSecond \/ HA!CountHandled
    <2>1. mem.stack = <<"INT">> /\ at.main # "killed"
      BY <1>0, <1>3 DEF HA!CryptSecond, HA!CountHandled, HA!Handling, OneHandler, HA!Ended
    <2>2. CASE HA!CryptSecond
      <3>1. /\ at' = at /\ os' = os /\ mem.step = 0
            /\ mem' = [mem EXCEPT !.buf = HA!Second, !.step = 1,
                                  !.torn = at.main \in {"crypt", "strcmp"}]
        BY <2>2 DEF HA!CryptSecond, HA!Handling
      <3>2. /\ mem'.step = 1 /\ mem'.stack = mem.stack /\ mem'.cr1 = mem.cr1
            /\ mem'.mismatch = mem.mismatch /\ mem'.handled = mem.handled
            /\ mem'.armed = mem.armed /\ mem'.cond = mem.cond /\ mem'.prog = mem.prog
            /\ DOMAIN mem' = DOMAIN mem
        BY <1>0, <3>1 DEF HandlersType
      <3>3. OneHandler'
        BY <1>0, <3>1, <3>2 DEF OneHandler, HandlersType
      <3> QED BY <2>1, <3>1, <3>2, <3>3 DEF CryptParts
    <2>3. CASE HA!CountHandled
      <3>1. /\ at' = at /\ os' = [os EXCEPT !.mask = @ \ {"INT"}] /\ mem.step = 1
            /\ mem' = [[mem EXCEPT !.handled = @ + 1] EXCEPT !.stack = HA!Front(@), !.step = 0]
        BY <2>1, <2>3, FrontLast DEF HA!CountHandled, HA!Handling, HA!Popped, HA!Unmask
      <3>2. /\ mem'.step = 0 /\ mem'.stack = HA!Front(mem.stack) /\ mem'.cr1 = mem.cr1
            /\ mem'.mismatch = mem.mismatch /\ mem'.handled = mem.handled + 1
            /\ mem'.armed = mem.armed /\ mem'.cond = mem.cond /\ mem'.prog = mem.prog
            /\ DOMAIN mem' = DOMAIN mem
        BY <1>0, <3>1 DEF HandlersType
      <3>3. mem'.stack = <<>>
        BY <2>1, <3>2, FrontLast
      <3>4. /\ os'.disp = os.disp /\ os'.pending = os.pending /\ DOMAIN os' = DOMAIN os
        BY <1>0, <3>1 DEF HandlersType
      <3>5. OneHandler'
        BY <1>0, <2>1, <3>1, <3>2, <3>3, <3>4 DEF OneHandler, HandlersType
      <3> QED BY <2>1, <3>1, <3>2, <3>3, <3>5 DEF CryptParts
    <2> QED BY <1>3, <2>2, <2>3
  <1>4. CASE HA!Send("INT")
    <2>1. /\ at' = at /\ mem' = mem /\ HandlersType' /\ os'.disp = os.disp /\ os'.mask = os.mask
          /\ os'.pending = os.pending \cup {"INT"}
      BY <1>0, <1>4, SendDoes
    <2>2. OneHandler'
      BY <1>0, <2>1 DEF OneHandler
    <2> QED BY <2>1, <2>2 DEF CryptParts, Owed
  <1>5. ASSUME NEW sig, HA!Deliver(sig) PROVE CryptParts'
    <2>1. OneHandler' /\ mem.stack = <<>>
      BY <1>0, <1>5, DeliverOne
    <2>2. CASE mem.armed
      <3>1. /\ mem' = [mem EXCEPT !.stack = <<"INT">>, !.step = 0]
            /\ at'.main = (IF at.main = "pause" THEN "woken" ELSE at.main)
        BY <1>0, <1>5, <2>2, DeliverOne
      <3>2. /\ mem'.stack = <<"INT">> /\ mem'.step = 0 /\ mem'.cr1 = mem.cr1 /\ mem'.prog = mem.prog
            /\ mem'.mismatch = mem.mismatch /\ mem'.handled = mem.handled
            /\ mem'.torn = mem.torn /\ mem'.buf = mem.buf
        BY <1>0, <3>1 DEF HandlersType
      <3> QED BY <2>1, <3>1, <3>2 DEF CryptParts, Owed
    <2>3. CASE ~mem.armed
      <3>1. mem' = mem /\ at'.main = "killed"
        BY <1>0, <1>5, <2>3, DeliverOne
      <3> QED BY <2>1, <3>1 DEF CryptParts, Owed
    <2> QED BY <2>2, <2>3
  <1> QED BY <1>1, <1>2, <1>3, <1>4, <1>5 DEF HA!nonreentrant

LEMMA StepPause ==
    ASSUME PauseParts, HA!pause \/ HA!Send("INT") \/ \E sig : HA!Deliver(sig)
    PROVE  PauseParts'
  <1> USE DEF Runs, HA!Runs
  <1>0. OneHandler /\ HandlersType
    BY DEF PauseParts, OneHandler
  <1>1. CASE HA!Install("INT", "start", "call")
    <2>1. /\ OneHandler' /\ mem' = [mem EXCEPT !.armed = TRUE] /\ at'.main = "call"
      BY <1>0, <1>1, InstallOne
    <2> QED BY <1>0, <2>1 DEF PauseParts, HandlersType
  <1>2. CASE (HA!Go("call", "pause") \/ HA!Go("woken", "done")) /\ HA!Quiet
    <2>1. /\ mem.stack = <<>> /\ mem' = mem /\ os' = os /\ DOMAIN at' = DOMAIN at
          /\ \/ at.main = "call" /\ at'.main = "pause"
             \/ at.main = "woken" /\ at'.main = "done"
      BY <1>0, <1>2 DEF HA!Go, HA!Move, HA!MainRuns, HA!Quiet, HandlersType
    <2>2. OneHandler'
      BY <1>0, <2>1 DEF OneHandler, HandlersType
    <2> QED BY <2>1, <2>2 DEF PauseParts
  <1>3. CASE HA!CountInt
    <2>1. /\ mem.stack # <<>> /\ at.main # "killed" /\ at' = at /\ os' = os
          /\ mem' = [mem EXCEPT !.handled = @ + 1, !.step = 1]
      BY <1>3 DEF HA!CountInt, HA!Handling, HA!Ended
    <2>2. /\ mem'.step = 1 /\ mem'.stack = mem.stack /\ mem'.handled = mem.handled + 1
          /\ mem'.armed = mem.armed /\ mem'.cond = mem.cond /\ mem'.prog = mem.prog
          /\ DOMAIN mem' = DOMAIN mem
      BY <1>0, <2>1 DEF HandlersType
    <2>3. OneHandler'
      BY <1>0, <2>1, <2>2 DEF OneHandler, HandlersType
    <2> QED BY <2>1, <2>2, <2>3 DEF PauseParts
  <1>4. CASE HA!Caught("Ouch!")
    <2>1. /\ mem.stack = <<"INT">> /\ at.main # "killed" /\ mem.step = 1
      BY <1>0, <1>4 DEF HA!Caught, HA!Handling, HA!Ended, OneHandler
    <2>2. /\ at' = at /\ os' = [os EXCEPT !.mask = @ \ {"INT"}]
          /\ mem' = [[mem EXCEPT !.out = Append(@, "Ouch!")]
                        EXCEPT !.stack = HA!Front(@), !.step = 0]
      BY <1>4, <2>1, FrontLast DEF HA!Caught, HA!Popped, HA!Unmask
    <2>3. /\ mem'.stack = HA!Front(mem.stack) /\ mem'.handled = mem.handled
          /\ mem'.armed = mem.armed /\ mem'.cond = mem.cond /\ mem'.prog = mem.prog
          /\ DOMAIN mem' = DOMAIN mem
          /\ os'.disp = os.disp /\ os'.pending = os.pending /\ DOMAIN os' = DOMAIN os
      BY <1>0, <2>2 DEF HandlersType
    <2>4. mem'.stack = <<>>
      BY <2>1, <2>3, FrontLast
    <2>5. OneHandler'
      BY <1>0, <2>1, <2>2, <2>3, <2>4 DEF OneHandler, HandlersType
    <2> QED BY <2>1, <2>2, <2>3, <2>4, <2>5 DEF PauseParts
  <1>5. CASE HA!Send("INT")
    <2>1. /\ at' = at /\ mem' = mem /\ HandlersType' /\ os'.disp = os.disp /\ os'.mask = os.mask
          /\ os'.pending = os.pending \cup {"INT"}
      BY <1>0, <1>5, SendDoes
    <2>2. OneHandler'
      BY <1>0, <2>1 DEF OneHandler
    <2> QED BY <2>1, <2>2 DEF PauseParts
  <1>6. ASSUME NEW sig, HA!Deliver(sig) PROVE PauseParts'
    <2>1. OneHandler' /\ mem.stack = <<>> /\ at.main # "done"
      BY <1>0, <1>6, DeliverOne
    <2>2. CASE mem.armed
      <3>1. /\ mem' = [mem EXCEPT !.stack = <<"INT">>, !.step = 0]
            /\ at'.main = (IF at.main = "pause" THEN "woken" ELSE at.main)
        BY <1>0, <1>6, <2>2, DeliverOne
      <3>2. /\ mem'.stack = <<"INT">> /\ mem'.step = 0 /\ mem'.prog = mem.prog
            /\ mem'.handled = mem.handled
        BY <1>0, <3>1 DEF HandlersType
      <3> QED BY <2>1, <3>1, <3>2 DEF PauseParts
    <2>3. CASE ~mem.armed
      <3>1. mem' = mem /\ at'.main = "killed"
        BY <1>0, <1>6, <2>3, DeliverOne
      <3> QED BY <2>1, <3>1 DEF PauseParts
    <2> QED BY <2>2, <2>3
  <1> QED BY <1>1, <1>2, <1>3, <1>4, <1>5, <1>6 DEF HA!pause

(* One more word, and the words still alternate. *)
LEMMA OneMore ==
    \A s \in Seq({"Ouch", "!!!!!!"}), next \in {"Ouch", "!!!!!!"} :
        HA!Alternates(s) /\ (next = "Ouch" <=> Parity(s) = 0) =>
        /\ HA!Alternates(Append(s, next)) /\ Append(s, next) \in Seq({"Ouch", "!!!!!!"})
        /\ Parity(Append(s, next)) = IF next = "Ouch" THEN 1 ELSE 0
  <1> SUFFICES ASSUME NEW s \in Seq({"Ouch", "!!!!!!"}), NEW next \in {"Ouch", "!!!!!!"},
                      HA!Alternates(s), next = "Ouch" <=> Parity(s) = 0
               PROVE  /\ HA!Alternates(Append(s, next))
                      /\ Append(s, next) \in Seq({"Ouch", "!!!!!!"})
                      /\ Parity(Append(s, next)) = IF next = "Ouch" THEN 1 ELSE 0
    OBVIOUS
  <1>1. PICK t \in Seq({"Ouch", "!!!!!!"}) :
        /\ t = Append(s, next) /\ Len(t) = Len(s) + 1 /\ t[Len(s) + 1] = next
        /\ \A i \in 1 .. Len(s) : t[i] = s[i]
    <2>1. /\ Append(s, next) \in Seq({"Ouch", "!!!!!!"}) /\ Len(Append(s, next)) = Len(s) + 1
          /\ Append(s, next)[Len(s) + 1] = next
          /\ \A i \in 1 .. Len(s) : Append(s, next)[i] = s[i]
      BY AppendProperties
    <2> QED BY <2>1
  <1>2. Len(s) \in Nat
    OBVIOUS
  <1>3. \A n \in Nat : (n + 1) % 2 = 1 - (n % 2) /\ n % 2 \in {0, 1}
    OBVIOUS
  <1>4. ASSUME NEW i \in 1 .. Len(t) PROVE t[i] = IF i % 2 = 1 THEN "Ouch" ELSE "!!!!!!"
    <2>1. CASE i = Len(s) + 1
      BY <1>1, <1>2, <1>3, <2>1 DEF Parity
    <2>2. CASE i # Len(s) + 1
      BY <1>1, <1>2, <2>2 DEF HA!Alternates
    <2> QED BY <2>1, <2>2
  <1>5. Parity(t) = IF next = "Ouch" THEN 1 ELSE 0
    <2>1. Len(t) % 2 = 1 - (Len(s) % 2) /\ Len(s) % 2 \in {0, 1}
      BY <1>1, <1>2, <1>3
    <2> QED BY <2>1 DEF Parity
  <1> QED BY <1>1, <1>4, <1>5 DEF HA!Alternates

LEMMA StepOuchTwice ==
    ASSUME OuchTwiceParts, HA!sigaction \/ HA!Send("INT") \/ \E sig : HA!Deliver(sig)
    PROVE  OuchTwiceParts'
  <1> USE DEF Runs, HA!Runs
  <1>0. OneHandler /\ HandlersType
    BY DEF OuchTwiceParts, OneHandler
  <1>1. CASE HA!Install("INT", "start", "call")
    <2>1. OneHandler' /\ mem' = [mem EXCEPT !.armed = TRUE]
      BY <1>0, <1>1, InstallOne
    <2>2. /\ mem'.step = mem.step /\ mem'.stack = mem.stack /\ mem'.out = mem.out
          /\ mem'.prog = mem.prog
      BY <1>0, <2>1 DEF HandlersType
    <2> QED BY <2>1, <2>2 DEF OuchTwiceParts
  <1>2. CASE HA!PauseLoop
    <2>1. /\ mem' = mem /\ os' = os /\ DOMAIN at' = DOMAIN at /\ at'.main # "killed"
      BY <1>0, <1>2 DEF HA!PauseLoop, HA!Go, HA!Move, HA!MainRuns, HA!Quiet, HandlersType
    <2>2. OneHandler'
      BY <1>0, <2>1 DEF OneHandler, HandlersType
    <2> QED BY <2>1, <2>2 DEF OuchTwiceParts
  <1>3. CASE HA!OuchBegins
    <2>1. /\ mem.stack # <<>> /\ at.main # "killed" /\ at' = at /\ os' = os /\ mem.step = 0
          /\ mem' = [mem EXCEPT !.out = Append(@, "Ouch"), !.step = 1]
      BY <1>3 DEF HA!OuchBegins, HA!Handling, HA!Ended
    <2>2. /\ mem'.step = 1 /\ mem'.stack = mem.stack /\ mem'.out = Append(mem.out, "Ouch")
          /\ mem'.armed = mem.armed /\ mem'.cond = mem.cond /\ mem'.prog = mem.prog
          /\ DOMAIN mem' = DOMAIN mem
      BY <1>0, <2>1 DEF HandlersType
    <2>3. OneHandler'
      BY <1>0, <2>1, <2>2 DEF OneHandler, HandlersType
    <2>4. Parity(mem.out) = 0 /\ mem.out \in Seq({"Ouch", "!!!!!!"}) /\ HA!Alternates(mem.out)
      BY <2>1 DEF OuchTwiceParts
    <2>5. /\ HA!Alternates(Append(mem.out, "Ouch"))
          /\ Append(mem.out, "Ouch") \in Seq({"Ouch", "!!!!!!"})
          /\ Parity(Append(mem.out, "Ouch")) = 1
      BY <2>4, OneMore
    <2>6. mem'.stack # <<>> /\ HA!Alternates(mem'.out) /\ mem'.out \in Seq({"Ouch", "!!!!!!"})
          /\ Parity(mem'.out) = mem'.step
      BY <2>1, <2>2, <2>5
    <2> QED BY <2>1, <2>2, <2>3, <2>6 DEF OuchTwiceParts
  <1>4. CASE HA!Caught("!!!!!!")
    <2>1. /\ mem.stack = <<"INT">> /\ at.main # "killed" /\ mem.step = 1
      BY <1>0, <1>4 DEF HA!Caught, HA!Handling, HA!Ended, OneHandler
    <2>2. /\ at' = at /\ os' = [os EXCEPT !.mask = @ \ {"INT"}]
          /\ mem' = [[mem EXCEPT !.out = Append(@, "!!!!!!")]
                        EXCEPT !.stack = HA!Front(@), !.step = 0]
      BY <1>4, <2>1, FrontLast DEF HA!Caught, HA!Popped, HA!Unmask
    <2>3. /\ mem'.stack = HA!Front(mem.stack) /\ mem'.out = Append(mem.out, "!!!!!!")
          /\ mem'.armed = mem.armed /\ mem'.cond = mem.cond /\ mem'.prog = mem.prog
          /\ DOMAIN mem' = DOMAIN mem /\ mem'.step = 0
          /\ os'.disp = os.disp /\ os'.pending = os.pending /\ DOMAIN os' = DOMAIN os
      BY <1>0, <2>2 DEF HandlersType
    <2>4. mem'.stack = <<>>
      BY <2>1, <2>3, FrontLast
    <2>5. OneHandler'
      BY <1>0, <2>1, <2>2, <2>3, <2>4 DEF OneHandler, HandlersType
    <2>6. Parity(mem.out) = 1 /\ mem.out \in Seq({"Ouch", "!!!!!!"}) /\ HA!Alternates(mem.out)
      BY <2>1 DEF OuchTwiceParts
    <2>7. /\ HA!Alternates(Append(mem.out, "!!!!!!"))
          /\ Append(mem.out, "!!!!!!") \in Seq({"Ouch", "!!!!!!"})
          /\ Parity(Append(mem.out, "!!!!!!")) = 0
      <3>1. "!!!!!!" # "Ouch"
        OBVIOUS
      <3> QED BY <2>6, <3>1, OneMore
    <2>8. /\ HA!Alternates(mem'.out) /\ mem'.out \in Seq({"Ouch", "!!!!!!"})
          /\ Parity(mem'.out) = mem'.step
      BY <2>3, <2>7
    <2> QED BY <2>3, <2>4, <2>5, <2>8 DEF OuchTwiceParts
  <1>5. CASE HA!Send("INT")
    <2>1. /\ at' = at /\ mem' = mem /\ HandlersType' /\ os'.disp = os.disp /\ os'.mask = os.mask
          /\ os'.pending = os.pending \cup {"INT"}
      BY <1>0, <1>5, SendDoes
    <2>2. OneHandler'
      BY <1>0, <2>1 DEF OneHandler
    <2> QED BY <2>1, <2>2 DEF OuchTwiceParts
  <1>6. ASSUME NEW sig, HA!Deliver(sig) PROVE OuchTwiceParts'
    <2>1. OneHandler' /\ mem.stack = <<>>
      BY <1>0, <1>6, DeliverOne
    <2>2. mem.step = 0
      BY <2>1 DEF OuchTwiceParts
    <2>3. CASE mem.armed
      <3>1. mem' = [mem EXCEPT !.stack = <<"INT">>, !.step = 0]
        BY <1>0, <1>6, <2>3, DeliverOne
      <3>2. mem'.step = 0 /\ mem'.prog = mem.prog /\ mem'.out = mem.out
        BY <1>0, <3>1 DEF HandlersType
      <3> QED BY <2>1, <2>2, <3>2 DEF OuchTwiceParts
    <2>4. CASE ~mem.armed
      <3>1. mem' = mem
        BY <1>0, <1>6, <2>4, DeliverOne
      <3> QED BY <2>1, <3>1 DEF OuchTwiceParts
    <2> QED BY <2>3, <2>4
  <1> QED BY <1>1, <1>2, <1>3, <1>4, <1>5, <1>6 DEF HA!sigaction

LEMMA StepOuch ==
    ASSUME OuchParts, HA!ouch \/ HA!Send("INT") \/ \E sig : HA!Deliver(sig)
    PROVE  OuchParts'
  <1> USE EventsAssumption DEF Runs, HA!Runs
  <1>0. HandlersType
    BY DEF OuchParts
  <1>1. CASE HA!Install("INT", "start", "sleep")
    <2>1. /\ at' = [at EXCEPT !["main"] = "sleep"] /\ mem' = [mem EXCEPT !.armed = TRUE]
          /\ os' = [os EXCEPT !.disp["INT"] = "handler"]
      BY <1>1 DEF HA!Install, HA!Go, HA!Move
    <2>2. /\ os'.disp = [os.disp EXCEPT !["INT"] = "handler"] /\ os'.pending = os.pending
          /\ DOMAIN os' = DOMAIN os /\ mem'.j = mem.j /\ mem'.prog = mem.prog
          /\ mem'.cond = mem.cond /\ DOMAIN mem' = DOMAIN mem
          /\ at'.main = "sleep" /\ DOMAIN at' = DOMAIN at
      BY <1>0, <2>1 DEF HandlersType
    <2> QED BY <1>0, <2>2 DEF OuchParts, HandlersType
  <1>2. CASE HA!Ouch
    <2>1. /\ at' = at /\ os'.disp = os.disp /\ os'.pending = os.pending /\ DOMAIN os' = DOMAIN os
          /\ mem'.j = mem.j /\ mem'.prog = mem.prog /\ mem'.armed = mem.armed
          /\ mem'.cond = mem.cond /\ DOMAIN mem' = DOMAIN mem
      BY <1>0, <1>2 DEF HA!Ouch, HA!Popped, HA!Unmask, HandlersType
    <2> QED BY <1>0, <2>1 DEF OuchParts, HandlersType
  <1>3. CASE HA!Go("sleep", "test") /\ HA!Quiet
    <2>1. at'.main = "test" /\ DOMAIN at' = DOMAIN at /\ mem' = mem /\ os' = os
      BY <1>0, <1>3 DEF HA!Go, HA!Move, HA!Quiet, HandlersType
    <2> QED BY <1>0, <2>1 DEF OuchParts, HandlersType
  <1>4. CASE HA!NextRound("test", "sleep") /\ (UNCHANGED os \/ HA!Default)
    <2>1. /\ at'.main = "sleep" /\ DOMAIN at' = DOMAIN at
          /\ mem'.j = (IF mem.j < Rounds THEN mem.j + 1 ELSE mem.j) /\ mem'.prog = mem.prog
          /\ mem'.armed = mem.armed /\ mem'.cond = mem.cond /\ DOMAIN mem' = DOMAIN mem
      BY <1>0, <1>4 DEF HA!NextRound, HA!Go, HA!Move, HandlersType
    <2>2. mem'.j \in Nat /\ (mem.j >= Rounds => mem'.j >= Rounds)
      BY <2>1 DEF OuchParts
    <2>3. CASE UNCHANGED os
      BY <1>0, <2>1, <2>2, <2>3 DEF OuchParts, HandlersType
    <2>4. CASE HA!Default
      <3>1. os' = [os EXCEPT !.disp["INT"] = "dfl"] /\ mem.j >= Rounds
        BY <2>4 DEF HA!Default
      <3>2. /\ os'.pending = os.pending /\ DOMAIN os' = DOMAIN os
            /\ os'.disp = [os.disp EXCEPT !["INT"] = "dfl"]
        BY <1>0, <3>1 DEF HandlersType
      <3>3. DOMAIN os'.disp = DOMAIN os.disp
        BY <3>2
      <3> QED BY <1>0, <2>1, <2>2, <3>1, <3>2, <3>3 DEF OuchParts, HandlersType
    <2> QED BY <1>4, <2>3, <2>4
  <1>5. CASE HA!Send("INT")
    BY <1>0, <1>5, SendDoes DEF OuchParts
  <1>6. ASSUME NEW sig, HA!Deliver(sig) PROVE OuchParts'
    <2>1. /\ sig = "INT" /\ HandlersType' /\ os'.disp = os.disp
          /\ os'.pending \subseteq {"INT"} /\ at.main # "killed"
      BY <1>0, <1>6, DeliverDoes DEF OuchParts
    <2>2. CASE os.disp["INT"] = "handler"
      <3>1. /\ mem' = [mem EXCEPT !.stack = Append(@, sig), !.step = 0]
            /\ at'.main = (IF at.main = "pause" THEN "woken" ELSE at.main)
        BY <1>0, <1>6, <2>1, <2>2, DeliverDoes
      <3>2. mem'.j = mem.j /\ mem'.prog = mem.prog /\ mem'.armed = mem.armed
        BY <1>0, <3>1 DEF HandlersType
      <3> QED BY <2>1, <2>2, <3>1, <3>2 DEF OuchParts
    <2>3. CASE os.disp["INT"] # "handler"
      <3>1. mem' = mem
        BY <1>0, <1>6, <2>1, <2>3, DeliverDoes
      <3> QED BY <2>1, <2>3, <3>1 DEF OuchParts
    <2> QED BY <2>2, <2>3
  <1> QED BY <1>1, <1>2, <1>3, <1>4, <1>5, <1>6 DEF HA!ouch, HA!Default

LEMMA StepBlock ==
    ASSUME BlockParts, HA!block \/ HA!Send("INT") \/ \E sig : HA!Deliver(sig)
    PROVE  BlockParts'
  <1> USE DEF Runs, HA!Runs
  <1>0. HandlersType
    BY DEF BlockParts
  <1>1. CASE HA!Sigprocmask
    <2>1. /\ at.main = "start" /\ at' = [at EXCEPT !["main"] = "sleep"] /\ mem' = mem
          /\ os' = [os EXCEPT !.mask = {"INT", "QUIT"}]
      BY <1>1 DEF HA!Sigprocmask, HA!Go, HA!Move
    <2>2. /\ at'.main = "sleep" /\ DOMAIN at' = DOMAIN at
          /\ os'.pending = os.pending /\ os'.disp = os.disp /\ os'.held = os.held
          /\ DOMAIN os' = DOMAIN os
      BY <1>0, <2>1 DEF HandlersType
    <2> QED BY <2>1, <2>2 DEF BlockParts, HandlersType
  <1>2. CASE HA!Unblock
    <2>1. /\ at' = [at EXCEPT !["main"] = "unblocked"] /\ os' = [os EXCEPT !.mask = {}]
          /\ mem' = [mem EXCEPT !.j = IF @ < Rounds THEN @ + 1 ELSE @] /\ at.main = "test"
      BY <1>2 DEF HA!Unblock, HA!NextRound, HA!Go, HA!Move
    <2>2. /\ at'.main = "unblocked" /\ DOMAIN at' = DOMAIN at
          /\ os'.pending = os.pending /\ os'.disp = os.disp /\ os'.held = os.held
          /\ DOMAIN os' = DOMAIN os /\ os'.mask = {}
          /\ mem'.prog = mem.prog /\ mem'.out = mem.out /\ mem'.armed = mem.armed
          /\ mem'.cond = mem.cond /\ DOMAIN mem' = DOMAIN mem
      BY <1>0, <2>1 DEF HandlersType
    <2> QED BY <2>1, <2>2 DEF BlockParts, HandlersType
  <1>3. CASE HA!NeverReached
    <2>1. /\ at.main = "unblocked" /\ at' = [at EXCEPT !["main"] = "sleep"] /\ os' = os
          /\ mem' = [mem EXCEPT !.out = <<"never reached!">>] /\ os.pending \ os.mask = {}
      BY <1>3 DEF HA!NeverReached, HA!Go, HA!Move, HA!MainRuns, HA!Deliverable
    <2>2. os.mask = {} /\ ~os.held
      BY <2>1 DEF BlockParts
    <2>3. /\ at'.main = "sleep" /\ DOMAIN at' = DOMAIN at
          /\ mem'.prog = mem.prog /\ mem'.armed = mem.armed
          /\ mem'.cond = mem.cond /\ DOMAIN mem' = DOMAIN mem
      BY <1>0, <2>1 DEF HandlersType
    <2> QED BY <2>1, <2>2, <2>3 DEF BlockParts, HandlersType
  <1>4. CASE (HA!Go("sleep", "test") /\ HA!Quiet) \/ (HA!NextRound("test", "sleep") /\ UNCHANGED os)
    <2>1. /\ at.main \in {"sleep", "test"} /\ at'.main \in {"test", "sleep"}
          /\ DOMAIN at' = DOMAIN at /\ os' = os
          /\ mem'.prog = mem.prog /\ mem'.out = mem.out /\ mem'.armed = mem.armed
          /\ mem'.cond = mem.cond /\ DOMAIN mem' = DOMAIN mem
      BY <1>0, <1>4 DEF HA!Go, HA!Move, HA!Quiet, HA!NextRound, HandlersType
    <2> QED BY <2>1 DEF BlockParts, HandlersType
  <1>5. CASE HA!Send("INT")
    <2>1. /\ at' = at /\ mem' = mem /\ HandlersType'
          /\ os'.pending = os.pending \cup {"INT"} /\ os'.disp = os.disp /\ os'.mask = os.mask
          /\ os'.held = (os.held \/ "INT" \in os.mask)
      BY <1>0, <1>5, SendDoes DEF BlockParts
    <2> QED BY <2>1 DEF BlockParts
  <1>6. ASSUME NEW sig, HA!Deliver(sig) PROVE BlockParts'
    <2>1. /\ sig = "INT" /\ HandlersType' /\ os'.disp = os.disp /\ os'.held = os.held
          /\ os'.pending \subseteq {"INT"} /\ os'.mask = os.mask /\ mem' = mem
          /\ at'.main = "killed"
      BY <1>0, <1>6, DeliverDoes DEF BlockParts
    <2> QED BY <2>1 DEF BlockParts
  <1> QED BY <1>1, <1>2, <1>3, <1>4, <1>5, <1>6 DEF HA!block

LEMMA StepFpe ==
    ASSUME FpeParts, HA!demo_SIGFPE \/ \E sig : HA!Deliver(sig)
    PROVE  FpeParts'
  <1> USE DEF Runs, HA!Runs
  <1>0. HandlersType
    BY DEF FpeParts
  <1>1. CASE HA!Prepare
    <2>1. /\ at.main = "start" /\ at' = [at EXCEPT !["main"] = "divide"] /\ mem' = mem
          /\ os' = [os EXCEPT !.disp["FPE"] = IF mem.cond THEN "ign" ELSE "handler",
                              !.mask = IF mem.cond2 THEN {"FPE"} ELSE {}]
      BY <1>1 DEF HA!Prepare, HA!Go, HA!Move
    <2>2. /\ at'.main = "divide" /\ DOMAIN at' = DOMAIN at
          /\ os'.pending = os.pending /\ DOMAIN os' = DOMAIN os
          /\ os'.disp = [os.disp EXCEPT !["FPE"] = IF mem.cond THEN "ign" ELSE "handler"]
          /\ os'.mask = (IF mem.cond2 THEN {"FPE"} ELSE {})
      BY <1>0, <2>1 DEF HandlersType
    <2>3. /\ DOMAIN os'.disp = DOMAIN os.disp
          /\ os'.disp["FPE"] = IF mem.cond THEN "ign" ELSE "handler"
      BY <1>0, <2>2 DEF HandlersType
    <2>4. os.pending = {} /\ mem.stack = <<>>
      BY <2>1 DEF FpeParts
    <2> QED BY <2>1, <2>2, <2>3, <2>4 DEF FpeParts, HandlersType
  <1>2. CASE HA!Divide
    <2>1. mem' = mem /\ mem.stack = <<>> /\ at.main = "divide"
      BY <1>2 DEF HA!Divide, HA!MainRuns
    <2>2. CASE os.disp["FPE"] = "handler" /\ "FPE" \notin os.mask
      <3>1. at' = at /\ os' = [os EXCEPT !.pending = @ \cup {"FPE"}]
        BY <1>2, <2>2 DEF HA!Divide
      <3>2. /\ os'.pending = os.pending \cup {"FPE"} /\ os'.disp = os.disp /\ os'.mask = os.mask
            /\ DOMAIN os' = DOMAIN os
        BY <1>0, <3>1 DEF HandlersType
      <3>3. ~mem.cond /\ ~mem.cond2
        BY <2>1, <2>2 DEF FpeParts
      <3> QED BY <2>1, <3>1, <3>2, <3>3 DEF FpeParts, HandlersType
    <2>3. CASE ~(os.disp["FPE"] = "handler" /\ "FPE" \notin os.mask)
      <3>1. at' = [at EXCEPT !.main = "killed"] /\ os' = os
        BY <1>2, <2>3 DEF HA!Divide
      <3>2. at'.main = "killed" /\ DOMAIN at' = DOMAIN at
        BY <1>0, <3>1 DEF HandlersType
      <3>3. mem.cond \/ mem.cond2
        BY <2>1, <2>3 DEF FpeParts
      <3>4. os.pending = {}
        BY <3>3 DEF FpeParts
      <3> QED BY <2>1, <3>1, <3>2, <3>3, <3>4 DEF FpeParts, HandlersType
    <2> QED BY <2>2, <2>3
  <1>3. CASE HA!SigfpeCatcher
    <2>1. mem.stack = <<"FPE">>
      BY <1>3 DEF HA!SigfpeCatcher, HA!Handling, FpeParts
    <2>2. /\ at' = at /\ os' = [os EXCEPT !.mask = @ \ {"FPE"}]
          /\ mem' = [[mem EXCEPT !.handled = 1] EXCEPT !.stack = HA!Front(@), !.step = 0]
      BY <1>3, <2>1, FrontLast DEF HA!SigfpeCatcher, HA!Popped, HA!Unmask
    <2>3. /\ mem'.stack = HA!Front(mem.stack) /\ mem'.handled = 1 /\ mem'.armed = mem.armed
          /\ mem'.cond = mem.cond /\ mem'.cond2 = mem.cond2 /\ mem'.prog = mem.prog
          /\ DOMAIN mem' = DOMAIN mem
          /\ os'.mask = os.mask \ {"FPE"} /\ os'.disp = os.disp /\ os'.pending = os.pending
          /\ DOMAIN os' = DOMAIN os
      BY <1>0, <2>2 DEF HandlersType
    <2>4. mem'.stack = <<>>
      BY <2>1, <2>3, FrontLast
    <2> QED BY <2>1, <2>2, <2>3, <2>4 DEF FpeParts, HandlersType
  <1>4. ASSUME NEW sig, HA!Deliver(sig) PROVE FpeParts'
    <2>1. /\ sig = "FPE" /\ HandlersType' /\ os'.disp = os.disp /\ "FPE" \in os.pending
          /\ os'.pending = os.pending \ {"FPE"} /\ "FPE" \notin os.mask
      BY <1>0, <1>4, DeliverDoes DEF FpeParts
    <2>2. mem.stack = <<>> /\ ~mem.cond /\ ~mem.cond2 /\ at.main = "divide"
          /\ os.disp["FPE"] = "handler"
      BY <2>1 DEF FpeParts
    <2>3. /\ mem' = [mem EXCEPT !.stack = Append(@, "FPE"), !.step = 0]
          /\ at'.main = "divide" /\ os'.mask = os.mask \cup {"FPE"}
      BY <1>0, <1>4, <2>1, <2>2, DeliverDoes
    <2>4. /\ mem'.stack = Append(mem.stack, "FPE") /\ mem'.handled = mem.handled
          /\ mem'.cond = mem.cond /\ mem'.cond2 = mem.cond2 /\ mem'.prog = mem.prog
          /\ mem'.armed = mem.armed
      BY <1>0, <2>3 DEF HandlersType
    <2>5. mem'.stack = <<"FPE">>
      BY <2>2, <2>4, FrontLast
    <2> QED BY <2>1, <2>2, <2>3, <2>4, <2>5 DEF FpeParts
  <1> QED BY <1>1, <1>2, <1>3, <1>4 DEF HA!demo_SIGFPE

(* What IntQuitParts says of mask, stack, count and output. *)
MaskIs(mask, stack) ==
    \A s \in {"INT", "QUIT"} : s \in mask <=> \E k \in 1 .. Len(stack) : stack[k] = s

CountIs(stack, step, handled, len) ==
    /\ stack \in {<<>>, <<"QUIT">>} => handled = len
    /\ stack \in {<<"INT">>, <<"QUIT", "INT">>} => handled = len + (IF step = 0 THEN 0 ELSE 1)

LEMMA MaskPlaces ==
    /\ \A mask : MaskIs(mask, <<>>) <=> \A s \in {"INT", "QUIT"} : s \notin mask
    /\ \A mask, x : MaskIs(mask, <<x>>) <=> \A s \in {"INT", "QUIT"} : s \in mask <=> s = x
    /\ \A mask, x, y :
          MaskIs(mask, <<x, y>>) <=> \A s \in {"INT", "QUIT"} : s \in mask <=> s = x \/ s = y
  <1>1. /\ \A s : ~\E k \in 1 .. Len(<<>>) : <<>>[k] = s
        /\ \A x, s : (\E k \in 1 .. Len(<<x>>) : <<x>>[k] = s) <=> s = x
    OBVIOUS
  <1>2. ASSUME NEW x, NEW y, NEW s
        PROVE  (\E k \in 1 .. Len(<<x, y>>) : <<x, y>>[k] = s) <=> s = x \/ s = y
    <2>1. 1 \in 1 .. Len(<<x, y>>) /\ 2 \in 1 .. Len(<<x, y>>) /\ <<x, y>>[1] = x /\ <<x, y>>[2] = y
      OBVIOUS
    <2>2. \A k \in 1 .. Len(<<x, y>>) : k = 1 \/ k = 2
      OBVIOUS
    <2> QED BY <2>1, <2>2, Zenon
  <1> QED BY <1>1, <1>2 DEF MaskIs

LEMMA StepIntQuit ==
    ASSUME IntQuitParts,
           HA!intquit \/ HA!Send("INT") \/ HA!Send("QUIT") \/ \E sig : HA!Deliver(sig)
    PROVE  IntQuitParts'
  <1> USE DEF Runs, HA!Runs
  <1> SUFFICES /\ mem'.prog = "intquit" /\ HandlersType' /\ os'.pending \subseteq {"INT", "QUIT"}
               /\ mem'.stack \in IntQuitStacks /\ mem'.handled \in Nat /\ mem'.out \in Seq(Nat)
               /\ MaskIs(os'.mask, mem'.stack)
               /\ \A i \in 1 .. Len(mem'.out) : mem'.out[i] = i
               /\ CountIs(mem'.stack, mem'.step, mem'.handled, Len(mem'.out))
    BY DEF IntQuitParts, MaskIs, CountIs
  <1>0. /\ mem.prog = "intquit" /\ HandlersType /\ os.pending \subseteq {"INT", "QUIT"}
        /\ mem.stack \in IntQuitStacks /\ mem.handled \in Nat /\ mem.out \in Seq(Nat)
        /\ MaskIs(os.mask, mem.stack)
        /\ \A i \in 1 .. Len(mem.out) : mem.out[i] = i
        /\ CountIs(mem.stack, mem.step, mem.handled, Len(mem.out))
    BY DEF IntQuitParts, MaskIs, CountIs
  <1>1. ASSUME NEW sig, NEW l, NEW k, HA!Install(sig, l, k), sig \in {"INT", "QUIT"}
        PROVE  IntQuitParts'
    <2>1. /\ at' = [at EXCEPT !["main"] = k] /\ mem' = [mem EXCEPT !.armed = TRUE]
          /\ os' = [os EXCEPT !.disp[sig] = "handler"]
      BY <1>1 DEF HA!Install, HA!Go, HA!Move
    <2>2. /\ os'.mask = os.mask /\ os'.pending = os.pending /\ DOMAIN os' = DOMAIN os
          /\ os'.disp = [os.disp EXCEPT ![sig] = "handler"] /\ DOMAIN at' = DOMAIN at
          /\ mem'.stack = mem.stack /\ mem'.step = mem.step /\ mem'.handled = mem.handled
          /\ mem'.out = mem.out /\ mem'.cond = mem.cond /\ mem'.prog = mem.prog
          /\ DOMAIN mem' = DOMAIN mem
      BY <1>0, <2>1 DEF HandlersType
    <2>3. DOMAIN os'.disp = DOMAIN os.disp
      BY <2>2
    <2> QED BY <1>0, <2>2, <2>3 DEF IntQuitParts, HandlersType, MaskIs, CountIs
  <1>2. CASE HA!PauseLoop \/ HA!CaughtQuit
    <2>1. mem' = mem /\ os' = os /\ DOMAIN at' = DOMAIN at
      BY <1>0, <1>2 DEF HA!PauseLoop, HA!CaughtQuit, HA!Go, HA!Move, HA!Quiet, HandlersType
    <2> QED BY <1>0, <2>1 DEF HandlersType
  <1>3. CASE HA!CountInt
    <2>1. /\ mem.stack # <<>> /\ HA!Last(mem.stack) = "INT" /\ mem.step = 0 /\ at' = at /\ os' = os
          /\ mem' = [mem EXCEPT !.handled = @ + 1, !.step = 1]
      BY <1>3 DEF HA!CountInt, HA!Handling
    <2>2. mem.stack \in {<<"INT">>, <<"QUIT", "INT">>}
      BY <1>0, <2>1, FrontLast DEF IntQuitStacks
    <2>3. /\ mem'.stack = mem.stack /\ mem'.step = 1 /\ mem'.handled = mem.handled + 1
          /\ mem'.out = mem.out /\ mem'.cond = mem.cond /\ mem'.prog = mem.prog
          /\ DOMAIN mem' = DOMAIN mem
      BY <1>0, <2>1 DEF HandlersType
    <2>4. CountIs(mem'.stack, mem'.step, mem'.handled, Len(mem'.out))
      <3>1. mem.stack # <<>> /\ mem.stack # <<"QUIT">>
        BY <2>2
      <3>2. mem.handled = Len(mem.out)
        BY <1>0, <2>1, <2>2 DEF CountIs
      <3> QED BY <2>3, <3>1, <3>2 DEF CountIs
    <2> QED BY <1>0, <2>1, <2>3, <2>4 DEF HandlersType
  <1>4. CASE HA!CaughtInt
    <2>1. mem.stack # <<>> /\ HA!Last(mem.stack) = "INT" /\ mem.step = 1 /\ at' = at
      BY <1>4 DEF HA!CaughtInt, HA!Caught, HA!Handling
    <2>2. mem.stack \in {<<"INT">>, <<"QUIT", "INT">>}
      BY <1>0, <2>1, FrontLast DEF IntQuitStacks
    <2>3. /\ os' = [os EXCEPT !.mask = @ \ {"INT"}]
          /\ mem' = [[mem EXCEPT !.out = Append(@, mem.handled)]
                        EXCEPT !.stack = HA!Front(@), !.step = 0]
      BY <1>4, <2>1 DEF HA!CaughtInt, HA!Caught, HA!Popped, HA!Unmask
    <2>4. /\ mem'.stack = HA!Front(mem.stack) /\ mem'.step = 0 /\ mem'.handled = mem.handled
          /\ mem'.out = Append(mem.out, mem.handled) /\ mem'.cond = mem.cond
          /\ mem'.prog = mem.prog /\ DOMAIN mem' = DOMAIN mem
          /\ os'.mask = os.mask \ {"INT"} /\ os'.disp = os.disp /\ os'.pending = os.pending
          /\ DOMAIN os' = DOMAIN os
      BY <1>0, <2>3 DEF HandlersType
    <2>5. mem.handled = Len(mem.out) + 1
      BY <1>0, <2>1, <2>2 DEF CountIs
    <2>6. PICK o \in Seq(Nat) :
          /\ o = Append(mem.out, mem.handled) /\ Len(o) = Len(mem.out) + 1
          /\ o[Len(mem.out) + 1] = mem.handled /\ \A i \in 1 .. Len(mem.out) : o[i] = mem.out[i]
      <3>1. PICK u \in Seq(Nat), h \in Nat : u = mem.out /\ h = mem.handled
        BY <1>0
      <3>2. /\ Append(u, h) \in Seq(Nat) /\ Len(Append(u, h)) = Len(u) + 1
            /\ Append(u, h)[Len(u) + 1] = h /\ \A i \in 1 .. Len(u) : Append(u, h)[i] = u[i]
        BY AppendProperties
      <3> QED BY <3>1, <3>2
    <2>7. \A i \in 1 .. Len(o) : o[i] = i
      BY <1>0, <2>5, <2>6
    <2>8. /\ mem'.stack \in {<<>>, <<"QUIT">>}
          /\ MaskIs(os'.mask, mem'.stack)
      <3>1. CASE mem.stack = <<"INT">>
        <4>1. mem'.stack = <<>> /\ "QUIT" \notin os.mask
          BY <1>0, <2>4, <3>1, FrontLast DEF MaskIs
        <4> QED BY <2>4, <4>1 DEF MaskIs
      <3>2. CASE mem.stack = <<"QUIT", "INT">>
        <4>1. mem'.stack = <<"QUIT">> /\ "QUIT" \in os.mask
          BY <1>0, <2>4, <3>2, FrontLast DEF MaskIs
        <4> QED BY <2>4, <4>1 DEF MaskIs
      <3> QED BY <2>2, <3>1, <3>2
    <2>9. CountIs(mem'.stack, mem'.step, mem'.handled, Len(mem'.out))
      BY <2>4, <2>5, <2>6, <2>8 DEF CountIs
    <2> QED BY <1>0, <2>1, <2>4, <2>6, <2>7, <2>8, <2>9 DEF HandlersType, IntQuitStacks
  <1>5. ASSUME NEW sig \in {"INT", "QUIT"}, HA!Send(sig) PROVE IntQuitParts'
    <2>1. /\ at' = at /\ mem' = mem /\ HandlersType' /\ os'.mask = os.mask
          /\ os'.pending = os.pending \cup {sig}
      BY <1>0, <1>5, SendDoes
    <2> QED BY <1>0, <2>1 DEF IntQuitParts, MaskIs, CountIs
  <1>6. ASSUME NEW sig, HA!Deliver(sig) PROVE IntQuitParts'
    <2>1. /\ sig \in {"INT", "QUIT"} /\ sig \notin os.mask /\ HandlersType'
          /\ os'.pending = os.pending \ {sig}
      BY <1>0, <1>6, DeliverDoes
    <2>2. CASE os.disp[sig] = "handler"
      <3>1. /\ mem' = [mem EXCEPT !.stack = Append(@, sig), !.step = 0]
            /\ os'.mask = os.mask \cup {sig}
        BY <1>0, <1>6, <2>2, DeliverDoes
      <3>2. /\ mem'.stack = Append(mem.stack, sig) /\ mem'.step = 0 /\ mem'.handled = mem.handled
            /\ mem'.out = mem.out /\ mem'.prog = mem.prog
        BY <1>0, <3>1 DEF HandlersType
      <3>3. CASE mem.stack = <<>>
        <4>1. mem'.stack = <<sig>>
          BY <3>2, <3>3, FrontLast
        <4>2. mem.handled = Len(mem.out)
          BY <1>0, <3>3 DEF CountIs
        <4>3. mem'.stack \in IntQuitStacks
          BY <2>1, <4>1 DEF IntQuitStacks
        <4>4. MaskIs(os'.mask, mem'.stack)
          BY <1>0, <2>1, <3>1, <3>3, <4>1 DEF MaskIs
        <4>5. CountIs(mem'.stack, mem'.step, mem'.handled, Len(mem'.out))
          BY <1>0, <3>2, <4>2 DEF CountIs
        <4> QED BY <1>0, <2>1, <3>2, <4>3, <4>4, <4>5 DEF IntQuitParts, MaskIs, CountIs
      <3>4. CASE mem.stack = <<"INT">>
        <4>1. sig = "QUIT"
          BY <1>0, <2>1, <3>4 DEF MaskIs
        <4>2. mem'.stack = <<"INT", "QUIT">>
          BY <3>2, <3>4, <4>1, FrontLast
        <4>3. MaskIs(os'.mask, mem'.stack)
          <5>1. \A s \in {"INT", "QUIT"} : s \in os.mask <=> s = "INT"
            BY <1>0, <3>4, MaskPlaces
          <5>2. \A s \in {"INT", "QUIT"} : s \in os'.mask <=> s = "INT" \/ s = "QUIT"
            BY <3>1, <4>1, <5>1
          <5> QED BY <4>2, <5>2, MaskPlaces
        <4>4. CountIs(mem'.stack, mem'.step, mem'.handled, Len(mem'.out))
          BY <4>2 DEF CountIs
        <4> QED
          BY <1>0, <2>1, <3>2, <4>2, <4>3, <4>4 DEF IntQuitParts, MaskIs, CountIs, IntQuitStacks
      <3>5. CASE mem.stack = <<"QUIT">>
        <4>1. sig = "INT"
          BY <1>0, <2>1, <3>5 DEF MaskIs
        <4>2. mem'.stack = <<"QUIT", "INT">>
          BY <3>2, <3>5, <4>1, FrontLast
        <4>3. MaskIs(os'.mask, mem'.stack)
          <5>1. \A s \in {"INT", "QUIT"} : s \in os.mask <=> s = "QUIT"
            BY <1>0, <3>5, MaskPlaces
          <5>2. \A s \in {"INT", "QUIT"} : s \in os'.mask <=> s = "QUIT" \/ s = "INT"
            BY <3>1, <4>1, <5>1
          <5> QED BY <4>2, <5>2, MaskPlaces
        <4>4. mem.handled = Len(mem.out)
          BY <1>0, <3>5 DEF CountIs
        <4>5. CountIs(mem'.stack, mem'.step, mem'.handled, Len(mem'.out))
          BY <1>0, <3>2, <4>2, <4>4 DEF CountIs
        <4> QED
          BY <1>0, <2>1, <3>2, <4>2, <4>3, <4>5 DEF IntQuitParts, MaskIs, CountIs, IntQuitStacks
      <3>6. CASE mem.stack \in {<<"INT", "QUIT">>, <<"QUIT", "INT">>}
        <4>1. "INT" \in os.mask /\ "QUIT" \in os.mask
          BY <1>0, <3>6, MaskPlaces
        <4> QED BY <2>1, <4>1
      <3> QED BY <1>0, <3>3, <3>4, <3>5, <3>6 DEF IntQuitStacks
    <2>3. CASE os.disp[sig] # "handler"
      <3>1. mem' = mem /\ os'.mask = os.mask
        BY <1>0, <1>6, <2>3, DeliverDoes
      <3> QED BY <1>0, <2>1, <3>1 DEF IntQuitParts, MaskIs, CountIs
    <2> QED BY <2>2, <2>3
  <1>7. IntQuitParts' \/ HA!PauseLoop \/ HA!CaughtQuit \/ HA!CountInt \/ HA!CaughtInt
    BY <1>1, <1>5, <1>6 DEF HA!intquit
  <1>8. IntQuitParts' =>
           /\ mem'.prog = "intquit" /\ HandlersType' /\ os'.pending \subseteq {"INT", "QUIT"}
           /\ mem'.stack \in IntQuitStacks /\ mem'.handled \in Nat /\ mem'.out \in Seq(Nat)
           /\ MaskIs(os'.mask, mem'.stack)
           /\ \A i \in 1 .. Len(mem'.out) : mem'.out[i] = i
           /\ CountIs(mem'.stack, mem'.step, mem'.handled, Len(mem'.out))
    BY DEF IntQuitParts, MaskIs, CountIs
  <1> QED BY <1>2, <1>3, <1>4, <1>7, <1>8

-----------------------------------------------------------------------------
LEMMA InitHandlers == HA!Init => HandlersParts
  <1> SUFFICES ASSUME HA!Init PROVE HandlersParts
    OBVIOUS
  <1>1. PICK p \in HA!Progs, cond \in BOOLEAN, cond2 \in BOOLEAN :
        /\ cond => p \in {"sigmask_longjmp", "nonreentrant", "demo_SIGFPE"}
        /\ mem = [prog |-> p, cond |-> cond, cond2 |-> cond2, stack |-> <<>>, step |-> 0,
                  canJump |-> FALSE, env |-> FALSE, jumps |-> 0, shown |-> <<>>,
                  armed |-> FALSE, buf |-> "none", cr1 |-> "none", torn |-> FALSE,
                  mismatch |-> 0, handled |-> 0, j |-> 0, out |-> <<>>]
    BY DEF HA!Init
  <1>2. /\ at = [main |-> "start"]
        /\ os = [disp |-> [INT |-> "dfl", QUIT |-> "dfl", FPE |-> "dfl"],
                 mask |-> {}, pending |-> {}, sent |-> 0, held |-> FALSE]
    BY DEF HA!Init
  <1>3. /\ mem.prog = p /\ mem.cond = cond /\ mem.cond2 = cond2 /\ mem.stack = <<>>
        /\ mem.step = 0 /\ mem.canJump = FALSE /\ mem.env = FALSE /\ mem.jumps = 0
        /\ mem.shown = <<>> /\ mem.armed = FALSE /\ mem.mismatch = 0 /\ mem.handled = 0
        /\ mem.j = 0 /\ mem.out = <<>>
    BY <1>1
  <1>4. /\ at.main = "start" /\ os.disp["INT"] = "dfl" /\ os.disp["FPE"] = "dfl" /\ os.mask = {}
        /\ os.pending = {} /\ os.held = FALSE
    BY <1>2
  <1>5. HandlersType
    BY <1>1, <1>2 DEF HandlersType
  <1>6. OneHandler
    BY <1>3, <1>4, <1>5 DEF OneHandler
  <1> HIDE DEF HA!Progs
  <1>7. CASE p = "sigmask_longjmp"
    BY <1>3, <1>4, <1>6, <1>7 DEF HandlersParts, JumpParts, Runs
  <1>8. CASE p = "nonreentrant"
    BY <1>3, <1>4, <1>6, <1>8 DEF HandlersParts, CryptParts, Runs, Owed
  <1>9. CASE p = "intquit"
    <2>1. MaskIs(os.mask, mem.stack)
      BY <1>3, <1>4, MaskPlaces
    <2> QED BY <1>3, <1>4, <1>5, <1>9, <2>1
        DEF HandlersParts, IntQuitParts, Runs, IntQuitStacks, MaskIs
  <1>10. CASE p = "ouch"
    BY <1>3, <1>4, <1>5, <1>10 DEF HandlersParts, OuchParts, Runs
  <1>11. CASE p = "block"
    BY <1>3, <1>4, <1>5, <1>11 DEF HandlersParts, BlockParts, Runs
  <1>12. CASE p = "pause"
    BY <1>3, <1>4, <1>6, <1>12 DEF HandlersParts, PauseParts, Runs
  <1>13. CASE p = "sigaction"
    <2>1. Parity(<<>>) = 0 /\ HA!Alternates(<<>>)
      BY DEF Parity, HA!Alternates
    <2> QED BY <1>3, <1>4, <1>6, <1>13, <2>1 DEF HandlersParts, OuchTwiceParts, Runs
  <1>14. CASE p = "demo_SIGFPE"
    BY <1>3, <1>4, <1>5, <1>14 DEF HandlersParts, FpeParts, Runs
  <1> QED BY <1>1, <1>7, <1>8, <1>9, <1>10, <1>11, <1>12, <1>13, <1>14 DEF HA!Progs

LEMMA InitEvents == MCInit => EventsInv
  BY InitSelf, InitSigio, InitMq, InitEpoll, InitPoll, InitSelect, InitCount, InitTimer,
     InitHandlers
  DEF MCInit, SI!Init, SG!Init, PL!Init, PL!ReadyInit, EventsInv

-----------------------------------------------------------------------------
(* Which program runs tells which part of the invariant holds. *)
LEMMA Which ==
    EventsInv =>
       /\ Runs("self_pipe") => SelfParts
       /\ Runs("demo_sigio") => SigioParts
       /\ mem.prog \in MQ!Progs => MqParts
       /\ Runs("epoll_input") => EpollParts
       /\ Runs("poll_pipes") => PollParts
       /\ Runs("t_select") => SelectParts
       /\ mem.prog \in SG!SigProgs => CountParts
       /\ Runs("t_nanosleep") => NanoParts
       /\ Runs("timed_read") => ReadParts
       /\ Runs("real_timer") => AlarmParts
       /\ mem.prog \in HA!Progs => HandlersParts
  <1>1. /\ SelfParts => mem.prog = "self_pipe"
        /\ SigioParts => mem.prog = "demo_sigio"
        /\ MqParts => mem.prog \in {"mq_notify_sig", "mq_notify_thread"}
        /\ EpollParts => mem.prog = "epoll_input"
        /\ PollParts => mem.prog = "poll_pipes"
        /\ SelectParts => mem.prog = "t_select"
        /\ CountParts => mem.prog \in {"sig_receiver", "catch_rtsigs"}
        /\ NanoParts => mem.prog = "t_nanosleep"
        /\ ReadParts => mem.prog = "timed_read"
        /\ AlarmParts => mem.prog = "real_timer"
    BY DEF SelfParts, SigioParts, MqParts, EpollParts, PollParts, SelectParts, CountParts,
       NanoParts, ReadParts, AlarmParts, Runs, MQ!Progs, SG!SigProgs
  <1>2. HandlersParts =>
           mem.prog \in {"sigmask_longjmp", "nonreentrant", "intquit", "ouch", "block", "pause",
                         "sigaction", "demo_SIGFPE"}
    BY DEF HandlersParts, JumpParts, CryptParts, IntQuitParts, OuchParts, BlockParts, PauseParts,
       OuchTwiceParts, FpeParts, Runs
  <1> QED BY <1>1, <1>2 DEF EventsInv, Runs, MQ!Progs, SG!SigProgs, HA!Progs

LEMMA WhichHandler ==
    HandlersParts =>
       /\ Runs("sigmask_longjmp") => JumpParts
       /\ Runs("nonreentrant") => CryptParts
       /\ Runs("intquit") => IntQuitParts
       /\ Runs("ouch") => OuchParts
       /\ Runs("block") => BlockParts
       /\ Runs("pause") => PauseParts
       /\ Runs("sigaction") => OuchTwiceParts
       /\ Runs("demo_SIGFPE") => FpeParts
  <1>1. /\ JumpParts => mem.prog = "sigmask_longjmp"
        /\ CryptParts => mem.prog = "nonreentrant"
        /\ IntQuitParts => mem.prog = "intquit"
        /\ OuchParts => mem.prog = "ouch"
        /\ BlockParts => mem.prog = "block"
        /\ PauseParts => mem.prog = "pause"
        /\ OuchTwiceParts => mem.prog = "sigaction"
        /\ FpeParts => mem.prog = "demo_SIGFPE"
    BY DEF JumpParts, CryptParts, IntQuitParts, OuchParts, BlockParts, PauseParts,
       OuchTwiceParts, FpeParts, Runs
  <1> QED BY <1>1 DEF HandlersParts, Runs

(* A step that changes nothing. *)
LEMMA SameEvents == ASSUME EventsInv, UNCHANGED machine PROVE EventsInv'
  <1>0. at' = at /\ mem' = mem /\ os' = os
    BY DEF machine
  <1>1. (SelfParts => SelfParts') /\ (SigioParts => SigioParts') /\ (MqParts => MqParts')
    BY <1>0 DEF SelfParts, SigioParts, MqParts, Runs, MQ!Progs, HashFrom, Keys
  <1>2. (EpollParts => EpollParts') /\ (PollParts => PollParts') /\ (SelectParts => SelectParts')
    BY <1>0 DEF EpollParts, PollParts, SelectParts, Runs, HangsUp, PL!Pipes, PL!Args, PL!Bits,
       PL!Asked, PL!Negative, BitsOf, NoneNegative
  <1>3. /\ CountParts => CountParts'
        /\ NanoParts => NanoParts'
        /\ ReadParts => ReadParts'
        /\ AlarmParts => AlarmParts'
    BY <1>0 DEF CountParts, NanoParts, ReadParts, AlarmParts, Runs, SG!SigProgs, SG!Data
  <1>4. (HandlersType => HandlersType') /\ (OneHandler => OneHandler') /\ (Owed' => Owed)
    BY <1>0 DEF HandlersType, OneHandler, Owed
  <1>5. (JumpParts => JumpParts') /\ (CryptParts => CryptParts') /\ (PauseParts => PauseParts')
    BY <1>0, <1>4 DEF JumpParts, CryptParts, PauseParts, Runs
  <1>6. /\ IntQuitParts => IntQuitParts'
        /\ OuchParts => OuchParts'
        /\ BlockParts => BlockParts'
        /\ FpeParts => FpeParts'
    BY <1>0, <1>4 DEF IntQuitParts, OuchParts, BlockParts, FpeParts, Runs, IntQuitStacks
  <1>7. OuchTwiceParts => OuchTwiceParts'
    BY <1>0, <1>4 DEF OuchTwiceParts, Runs, Parity, HA!Alternates
  <1> QED BY <1>1, <1>2, <1>3, <1>5, <1>6, <1>7 DEF EventsInv, HandlersParts

LEMMA StepHandlers == ASSUME HandlersParts, HA!Next PROVE HandlersParts' \/ UNCHANGED machine
  <1> USE DEF Runs, HA!Runs
  <1>1. CASE UNCHANGED HA!machine
    BY <1>1 DEF HA!machine, machine
  <1>2. CASE Runs("sigmask_longjmp")
    <2>1. HA!sigmask_longjmp \/ HA!Send("INT") \/ (\E sig : HA!Deliver(sig)) \/ UNCHANGED HA!machine
      BY <1>2 DEF HA!Next, HA!Program
    <2> QED BY <1>1, <1>2, <2>1, WhichHandler, StepJump DEF HandlersParts
  <1>3. CASE Runs("nonreentrant")
    <2>1. HA!nonreentrant \/ HA!Send("INT") \/ (\E sig : HA!Deliver(sig)) \/ UNCHANGED HA!machine
      BY <1>3 DEF HA!Next, HA!Program
    <2> QED BY <1>1, <1>3, <2>1, WhichHandler, StepCrypt DEF HandlersParts
  <1>4. CASE Runs("intquit")
    <2>1. \/ HA!intquit \/ HA!Send("INT") \/ HA!Send("QUIT") \/ (\E sig : HA!Deliver(sig))
          \/ UNCHANGED HA!machine
      BY <1>4 DEF HA!Next, HA!Program
    <2> QED BY <1>1, <1>4, <2>1, WhichHandler, StepIntQuit DEF HandlersParts
  <1>5. CASE Runs("ouch")
    <2>1. HA!ouch \/ HA!Send("INT") \/ (\E sig : HA!Deliver(sig)) \/ UNCHANGED HA!machine
      BY <1>5 DEF HA!Next, HA!Program
    <2> QED BY <1>1, <1>5, <2>1, WhichHandler, StepOuch DEF HandlersParts
  <1>6. CASE Runs("block")
    <2>1. HA!block \/ HA!Send("INT") \/ (\E sig : HA!Deliver(sig)) \/ UNCHANGED HA!machine
      BY <1>6 DEF HA!Next, HA!Program
    <2> QED BY <1>1, <1>6, <2>1, WhichHandler, StepBlock DEF HandlersParts
  <1>7. CASE Runs("pause")
    <2>1. HA!pause \/ HA!Send("INT") \/ (\E sig : HA!Deliver(sig)) \/ UNCHANGED HA!machine
      BY <1>7 DEF HA!Next, HA!Program
    <2> QED BY <1>1, <1>7, <2>1, WhichHandler, StepPause DEF HandlersParts
  <1>8. CASE Runs("sigaction")
    <2>1. HA!sigaction \/ HA!Send("INT") \/ (\E sig : HA!Deliver(sig)) \/ UNCHANGED HA!machine
      BY <1>8 DEF HA!Next, HA!Program
    <2> QED BY <1>1, <1>8, <2>1, WhichHandler, StepOuchTwice DEF HandlersParts
  <1>9. CASE Runs("demo_SIGFPE")
    <2>1. HA!demo_SIGFPE \/ (\E sig : HA!Deliver(sig)) \/ UNCHANGED HA!machine
      BY <1>9 DEF HA!Next, HA!Program, HA!Progs
    <2> QED BY <1>1, <1>9, <2>1, WhichHandler, StepFpe DEF HandlersParts
  <1>10. mem.prog \in HA!Progs
    BY DEF HA!Next, HA!Program, HA!Progs
  <1> QED BY <1>2, <1>3, <1>4, <1>5, <1>6, <1>7, <1>8, <1>9, <1>10 DEF HA!Progs

LEMMA StepEvents == ASSUME EventsInv, [MCNext]_machine PROVE EventsInv'
  <1> USE DEF Runs, SI!Runs, SG!Runs, MQ!Runs, PL!Runs, HA!Runs
  <1>1. CASE SI!SelfPipeNext
    <2>1. mem.prog = "self_pipe"
      BY <1>1 DEF SI!SelfPipeNext, SI!Program, SI!Environment, SI!Idle
    <2> QED BY <1>1, <2>1, Which, StepSelf DEF EventsInv
  <1>2. CASE SI!SigioNext
    <2>1. mem.prog = "demo_sigio"
      BY <1>2 DEF SI!SigioNext, SI!HandlerStep, SI!MainStep, SI!Exited
    <2> QED BY <1>2, <2>1, Which, StepSigio DEF EventsInv
  <1>3. CASE SG!SigNext
    <2>1. mem.prog \in SG!SigProgs
      BY <1>3 DEF SG!SigNext, SG!Receiver, SG!Sender, SG!SigIdle, SG!SigProgs
    <2> QED BY <1>3, <2>1, Which, StepCount DEF EventsInv
  <1>4. CASE SG!TimerNext
    <2>1. \/ mem.prog = "real_timer" /\ (SG!real_timer \/ SG!sigalrmHandler)
          \/ mem.prog = "timed_read" /\ (SG!timed_read \/ SG!AlarmHandler \/ SG!Type)
          \/ mem.prog = "t_nanosleep" /\ (SG!t_nanosleep \/ SG!Tick \/ SG!Interrupt)
          \/ UNCHANGED machine
      BY <1>4 DEF SG!TimerNext, SG!TimerProgram, SG!TimerClock, SG!User, SG!TimerIdle, SG!machine,
         machine
    <2> QED BY <2>1, Which, StepAlarm, StepRead, StepNano, SameEvents DEF EventsInv
  <1>5. CASE MQ!Next
    <2>1. mem.prog \in MQ!Progs
      BY <1>5 DEF MQ!Next, MQ!Program, MQ!Sender, MQ!Idle, MQ!Progs
    <2> QED BY <1>5, <2>1, Which, StepMq DEF EventsInv
  <1>6. CASE PL!EpollNext
    <2>1. mem.prog = "epoll_input"
      BY <1>6 DEF PL!EpollNext, PL!EpollProgram, PL!Writers, PL!Exited
    <2> QED BY <1>6, <2>1, Which, StepEpoll DEF EventsInv
  <1>7. CASE PL!ReadyNext
    <2>1. \/ mem.prog = "poll_pipes" /\ PL!poll_pipes
          \/ mem.prog = "t_select" /\ (PL!t_select \/ PL!BecomeReady \/ PL!Expire)
          \/ UNCHANGED machine
      BY <1>7 DEF PL!ReadyNext, PL!ReadyProgram, PL!machine, machine
    <2> QED BY <2>1, Which, StepPoll, StepSelect, SameEvents DEF EventsInv
  <1>8. CASE HA!Next
    <2>1. mem.prog \in HA!Progs
      BY <1>8 DEF HA!Next, HA!Program, HA!Progs
    <2> QED BY <1>8, <2>1, Which, StepHandlers, SameEvents DEF EventsInv
  <1>9. CASE UNCHANGED machine
    BY <1>9, SameEvents
  <1> QED
    BY <1>1, <1>2, <1>3, <1>4, <1>5, <1>6, <1>7, <1>8, <1>9
    DEF MCNext, SI!Next, SG!Next, PL!Next

-----------------------------------------------------------------------------
LEMMA CardinalityIs == \A S : PL!Cardinality(S) = Cardinality(S)
  BY DEF PL!Cardinality, Cardinality

(* What poll() reports covers every write, and no pipe without one. *)
LEMMA PollReady == PollParts => PL!ReadyTrue
  <1> SUFFICES ASSUME PollParts PROVE PL!ReadyTrue
    OBVIOUS
  <1>0. mem.prog = "poll_pipes"
    BY DEF PollParts, Runs
  <1>a. ~PL!Runs("t_select")
    BY <1>0 DEF PL!Runs
  <1> SUFFICES ASSUME at.main = "exit"
               PROVE  /\ mem.ready # {} /\ PL!Cardinality(mem.ready) <= mem.numWrites
                      /\ \A k \in 1 .. mem.numWrites : \E p \in mem.ready :
                            k \in os.unread[p] /\ \A q \in PL!Pipes \ {p} : k \notin os.unread[q]
    BY <1>a, Zenon DEF PL!ReadyTrue
  <1>1. PICK n, unread, ready :
        /\ n \in Nat \ {0}
        /\ n = mem.numWrites /\ unread = os.unread /\ ready = mem.ready
        /\ ready = {p \in PL!Pipes : unread[p] # {}}
        /\ \A p \in PL!Pipes : unread[p] \subseteq 1 .. n
        /\ \A k \in 1 .. n : \E p \in PL!Pipes : k \in unread[p]
        /\ \A p, q \in PL!Pipes : p # q => unread[p] \cap unread[q] = {}
    BY DEF PollParts
  <1>2. ASSUME NEW k \in 1 .. n
        PROVE  \E p \in ready : k \in unread[p] /\ \A q \in PL!Pipes \ {p} : k \notin unread[q]
    BY <1>1
  <1>3. ready # {}
    <2>1. 1 \in 1 .. n
      BY <1>1
    <2> QED BY <1>2, <2>1
  <1>4. Cardinality(ready) <= n
    <2> DEFINE first == [p \in ready |-> CHOOSE k \in 1 .. n : k \in unread[p]]
    <2>1. ASSUME NEW p \in ready PROVE first[p] \in 1 .. n /\ first[p] \in unread[p]
      <3>1. \E k \in 1 .. n : k \in unread[p]
        BY <1>1
      <3> QED BY <3>1
    <2>2. first \in Injection(ready, 1 .. n)
      <3>1. first \in [ready -> 1 .. n]
        BY <2>1
      <3>2. \A p, q \in ready : first[p] = first[q] => p = q
        BY <1>1, <2>1
      <3> HIDE DEF first
      <3> QED BY <3>1, <3>2 DEF Injection, IsInjective
    <2>3. IsFiniteSet(1 .. n) /\ Cardinality(1 .. n) = n
      BY <1>1, FS_Interval
    <2> HIDE DEF first
    <2>4. Cardinality(ready) <= Cardinality(1 .. n)
      BY <2>2, <2>3, FS_Injection
    <2> QED BY <2>3, <2>4
  <1> QED BY <1>1, <1>2, <1>3, <1>4, CardinalityIs

(* Where another program runs nothing is asked. *)
LEMMA Elsewhere ==
    /\ mem.prog # "self_pipe" => SI!SignalReported
    /\ mem.prog # "demo_sigio" => SI!NoStrandedInput
    /\ mem.prog \notin MQ!Progs => MQ!NoStrandedMessage
    /\ mem.prog # "epoll_input" => PL!InputConsumed
    /\ mem.prog \notin SG!SigProgs => SG!CountsSignals
    /\ mem.prog \notin {"t_nanosleep", "timed_read"} => SG!SleptAsAsked
    /\ mem.prog \notin {"poll_pipes", "t_select"} => PL!ReadyTrue
    /\ mem.prog \notin HA!Progs => HA!HandlersTrue
  BY DEF SI!SignalReported, SI!NoStrandedInput, SI!Waiting, MQ!NoStrandedMessage, PL!InputConsumed,
     SG!CountsSignals, SG!SleptAsAsked, PL!ReadyTrue, HA!HandlersTrue, HA!Progs, SI!Runs, MQ!Runs,
     SG!Runs, PL!Runs, HA!Runs

LEMMA HandlersRight == HandlersParts => HA!HandlersTrue
  <1> USE DEF Runs, HA!Runs, HA!HandlersTrue, HA!Progs, HA!Ended
  <1>1. CASE JumpParts
    BY <1>1 DEF JumpParts, OneHandler
  <1>2. CASE CryptParts
    BY <1>2 DEF CryptParts, OneHandler
  <1>3. CASE IntQuitParts
    BY <1>3 DEF IntQuitParts
  <1>4. CASE OuchParts
    BY <1>4 DEF OuchParts
  <1>5. CASE BlockParts
    BY <1>5 DEF BlockParts
  <1>6. CASE PauseParts
    BY <1>6 DEF PauseParts, OneHandler
  <1>7. CASE OuchTwiceParts
    BY <1>7 DEF OuchTwiceParts, OneHandler
  <1>8. CASE FpeParts
    BY <1>8 DEF FpeParts
  <1> QED BY <1>1, <1>2, <1>3, <1>4, <1>5, <1>6, <1>7, <1>8 DEF HandlersParts

LEMMA Stranded == EventsInv => NothingStranded
  <1> SUFFICES ASSUME EventsInv PROVE NothingStranded
    OBVIOUS
  <1>1. SI!SignalReported
    <2>1. SelfParts => SI!SignalReported
      BY DEF SelfParts, SI!SignalReported
    <2> QED BY <2>1, Which, Elsewhere DEF Runs
  <1>2. SI!NoStrandedInput
    <2>1. SigioParts => SI!NoStrandedInput
      BY DEF SigioParts, SI!NoStrandedInput, SI!Waiting, HashFrom
    <2> QED BY <2>1, Which, Elsewhere DEF Runs
  <1>3. MQ!NoStrandedMessage
    <2>1. MqParts => MQ!NoStrandedMessage
      BY DEF MqParts, MQ!NoStrandedMessage, MQ!Waiting
    <2> QED BY <2>1, Which, Elsewhere
  <1>4. PL!InputConsumed
    <2>1. EpollParts => PL!InputConsumed
      BY DEF EpollParts, PL!InputConsumed
    <2> QED BY <2>1, Which, Elsewhere DEF Runs
  <1> QED BY <1>1, <1>2, <1>3, <1>4 DEF NothingStranded

LEMMA Reports == EventsInv => ReportsTrue
  <1> SUFFICES ASSUME EventsInv PROVE ReportsTrue
    OBVIOUS
  <1>1. SG!CountsSignals
    BY Which, Elsewhere, CountsRight
  <1>2. SG!SleptAsAsked
    <2>1. (NanoParts => SG!SleptAsAsked) /\ (ReadParts => SG!SleptAsAsked)
      BY DEF NanoParts, ReadParts, SG!SleptAsAsked, Runs, SG!Runs
    <2> QED BY <2>1, Which, Elsewhere DEF Runs
  <1>3. PL!ReadyTrue
    <2>1. SelectParts => PL!ReadyTrue
      BY DEF SelectParts, PL!ReadyTrue, Runs, PL!Runs
    <2> QED BY <2>1, PollReady, Which, Elsewhere DEF Runs
  <1>4. HA!HandlersTrue
    BY Which, Elsewhere, HandlersRight
  <1> QED BY <1>1, <1>2, <1>3, <1>4 DEF ReportsTrue

(* Nothing that arrives is left lying, in any of the programs and whatever *)
(* the sizes: a signal caught before select() returned is reported by      *)
(* self_pipe, input has its SIGIO pending or noticed, no message waits in  *)
(* the queue with nobody reading or registered for it, and epoll_input     *)
(* closes no FIFO that still had input when it was seen to hang up.        *)
THEOREM NothingStrandedAlways == MCSpec => []NothingStranded
  <1>1. EventsInv => NothingStranded
    BY Stranded
  <1> QED BY InitEvents, StepEvents, <1>1, PTL DEF MCSpec

(* What the programs report is what happened, for every number of signals, *)
(* arguments, writes and seconds: no queued signal is lost, reordered or   *)
(* counted twice, the sleep adds up, timed_read says "timed out" just when *)
(* its read() was interrupted, select() shows every argument (other than a *)
(* negative one) that was ready and nothing that was not, poll() names the *)
(* pipes written to, and the handlers leave main() what HandlersTrue       *)
(* lists.                                                                  *)
THEOREM ReportsAlways == MCSpec => []ReportsTrue
  <1>1. EventsInv => ReportsTrue
    BY Reports
  <1> QED BY InitEvents, StepEvents, <1>1, PTL DEF MCSpec
=============================================================================
