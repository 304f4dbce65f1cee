----------------------------- MODULE TtySuspend -----------------------------
(***************************************************************************)
(* 62-terminal/test_tty_functions.c with lib/tty_functions.c: a program    *)
(* that puts the terminal in cbreak or raw mode, gives it back when it is  *)
(* suspended (tstpHandler(), the pattern of 34's handling_SIGTSTP.c) and   *)
(* when it ends (handler()).  While it is stopped the user may set the     *)
(* terminal up differently.  A signal handler interrupts main() or the     *)
(* other handler at any point: 'stack' holds the interrupted positions,    *)
(* and only its head runs.                                                 *)
(***************************************************************************)
EXTENDS Naturals, Sequences

CONSTANTS Settings,     \* what the user may set the terminal to
          MaxStops,     \* bound: times the program is stopped
          MaxConts      \* bound: SIGCONTs sent while it is not stopped

ASSUME ConstantsAssumption ==
    /\ MaxStops \in Nat /\ MaxConts \in Nat
    /\ {"cbreak", "raw", "none"} \cap Settings = {}

VARIABLES mode,         \* "cbreak" (an argument was given) or "raw"
          tty,          \* the terminal's settings
          user,         \* what the user set the terminal to last
          userTermios, ourTermios,
          pc,           \* position of main()
          stack,        \* positions in handlers, the running one first
          intDisp, termDisp, tstpDisp,  \* dispositions (SIGQUIT as SIGINT)
          pending,      \* SIGTSTP is pending
          stopped, stops, conts,
          uncaught      \* it was stopped where it has no handler for SIGTSTP

dispVars == <<intDisp, termDisp, tstpDisp>>
vars == <<mode, tty, user, userTermios, ourTermios, pc, stack, dispVars, pending,
          stopped, stops, conts, uncaught>>

Init ==
    /\ mode \in {"cbreak", "raw"}
    /\ tty \in Settings
    /\ user = tty
    /\ userTermios = "none"
    /\ ourTermios = "none"
    /\ pc = "setMode"
    /\ stack = <<>>
    /\ intDisp \in {"SIG_DFL", "SIG_IGN"}
    /\ termDisp = "SIG_DFL"
    /\ tstpDisp \in {"SIG_DFL", "SIG_IGN"}
    /\ pending = FALSE
    /\ stopped = FALSE
    /\ stops = 0
    /\ conts = 0
    /\ uncaught = FALSE

Ended == pc \in {"exit", "killed"}

(* main() runs; the handler at position 'label' runs. *)
Main(label) == pc = label /\ stack = <<>> /\ ~stopped
InHandler(label) == ~Ended /\ ~stopped /\ stack # <<>> /\ Head(stack) = label
Goto(label) == stack' = <<label>> \o Tail(stack)

(* SIGTSTP is blocked inside tstpHandler(), but for the part between its   *)
(* two calls of sigprocmask().                                             *)
TstpLabels == {"get", "setUser", "default", "raise", "unblock", "reblock", "handle",
               "getUser", "setOurs"}
InTstpHandler == \E k \in 1 .. Len(stack) : stack[k] \in TstpLabels
TstpBlocked ==
    \E k \in 1 .. Len(stack) : stack[k] \in TstpLabels \ {"reblock"}

-----------------------------------------------------------------------------
(* main() *)

(* Save the settings, then change them. *)
SetMode(m, next) ==
    /\ Main("setMode") /\ mode = m
    /\ userTermios' = tty
    /\ tty' = m
    /\ pc' = next
    /\ UNCHANGED <<mode, user, ourTermios, stack, dispVars, pending, stopped, stops, conts, uncaught>>

ttySetCbreak == SetMode("cbreak", "handleInt")
ttySetRaw    == SetMode("raw", "handleTerm")

(* Handlers only for signals that are not being ignored. *)
HandleInt ==
    /\ Main("handleInt")
    /\ intDisp' = IF intDisp # "SIG_IGN" THEN "handler" ELSE intDisp
    /\ pc' = "handleTstp"
    /\ UNCHANGED <<mode, tty, user, userTermios, ourTermios, stack, termDisp, tstpDisp,
                   pending, stopped, stops, conts, uncaught>>

HandleTstp ==
    /\ Main("handleTstp")
    /\ tstpDisp' = IF tstpDisp # "SIG_IGN" THEN "handler" ELSE tstpDisp
    /\ pc' = "handleTerm"
    /\ UNCHANGED <<mode, tty, user, userTermios, ourTermios, stack, intDisp, termDisp,
                   pending, stopped, stops, conts, uncaught>>

HandleTerm ==
    /\ Main("handleTerm")
    /\ termDisp' = "handler"
    /\ pc' = "read"
    /\ UNCHANGED <<mode, tty, user, userTermios, ourTermios, stack, intDisp, tstpDisp,
                   pending, stopped, stops, conts, uncaught>>

(* The loop ends with 'q', EOF or an error; other input is echoed. *)
Quit ==
    /\ Main("read")
    /\ pc' = "restore"
    /\ UNCHANGED <<mode, tty, user, userTermios, ourTermios, stack, dispVars, pending,
                   stopped, stops, conts, uncaught>>

Restore ==
    /\ Main("restore")
    /\ tty' = userTermios
    /\ pc' = "restored"
    /\ UNCHANGED <<mode, user, userTermios, ourTermios, stack, dispVars, pending,
                   stopped, stops, conts, uncaught>>

MainExit ==
    /\ Main("restored")
    /\ pc' = "exit"
    /\ UNCHANGED <<mode, tty, user, userTermios, ourTermios, stack, dispVars, pending,
                   stopped, stops, conts, uncaught>>

-----------------------------------------------------------------------------
(* handler() *)

(* The position of handler() after its tcsetattr(). *)
ExitOf(label) == IF label = "int" THEN "int_exit" ELSE "term_exit"

(* SIGINT, SIGQUIT or SIGTERM; each is blocked while its handler runs. *)
Signal(disp, label) ==
    /\ ~Ended /\ ~stopped
    /\ \A k \in 1 .. Len(stack) : stack[k] \notin {label, ExitOf(label)}
    /\ \/ /\ disp = "SIG_DFL" /\ pc' = "killed" /\ UNCHANGED stack
       \/ /\ disp = "handler" /\ stack' = <<label>> \o stack /\ UNCHANGED pc
    /\ UNCHANGED <<mode, tty, user, userTermios, ourTermios, dispVars, pending, stopped,
                   stops, conts, uncaught>>

HandlerRestore ==
    /\ InHandler("int") \/ InHandler("term")
    /\ tty' = userTermios
    /\ Goto(ExitOf(Head(stack)))
    /\ UNCHANGED <<mode, user, userTermios, ourTermios, pc, dispVars, pending, stopped,
                   stops, conts, uncaught>>

HandlerExit ==
    /\ InHandler("int_exit") \/ InHandler("term_exit")
    /\ pc' = "exit"
    /\ UNCHANGED <<mode, tty, user, userTermios, ourTermios, stack, dispVars, pending,
                   stopped, stops, conts, uncaught>>

-----------------------------------------------------------------------------
(* tstpHandler() *)

(* SIGTSTP arrives: pending while blocked, else by its disposition. *)
Tstp ==
    /\ ~Ended /\ ~stopped /\ stops < MaxStops
    /\ \/ /\ TstpBlocked /\ ~pending
          /\ pending' = TRUE /\ UNCHANGED <<stack, stopped, stops, uncaught>>
       \/ /\ ~TstpBlocked /\ tstpDisp = "handler"
          /\ stack' = <<"get">> \o stack /\ UNCHANGED <<pending, stopped, stops, uncaught>>
       \/ /\ ~TstpBlocked /\ tstpDisp = "SIG_DFL"
          /\ stopped' = TRUE /\ stops' = stops + 1 /\ UNCHANGED <<pending, stack>>
          /\ uncaught' = (uncaught \/ ~InTstpHandler)
    /\ UNCHANGED <<mode, tty, user, userTermios, ourTermios, pc, dispVars, conts>>

GetOurs ==
    /\ InHandler("get")
    /\ ourTermios' = tty
    /\ Goto("setUser")
    /\ UNCHANGED <<mode, tty, user, userTermios, pc, dispVars, pending, stopped, stops, conts, uncaught>>

(* Mutant: the terminal is not given back before the program stops. *)
SetUserSkipped ==
    /\ InHandler("setUser")
    /\ Goto("default")
    /\ UNCHANGED <<mode, tty, user, userTermios, ourTermios, pc, dispVars, pending,
                   stopped, stops, conts, uncaught>>

SetUser ==
    /\ InHandler("setUser")
    /\ tty' = userTermios
    /\ Goto("default")
    /\ UNCHANGED <<mode, user, userTermios, ourTermios, pc, dispVars, pending, stopped,
                   stops, conts, uncaught>>

SetDefault ==
    /\ InHandler("default")
    /\ tstpDisp' = "SIG_DFL"
    /\ Goto("raise")
    /\ UNCHANGED <<mode, tty, user, userTermios, ourTermios, pc, intDisp, termDisp,
                   pending, stopped, stops, conts, uncaught>>

RaiseTstp ==
    /\ InHandler("raise")
    /\ pending' = TRUE
    /\ Goto("unblock")
    /\ UNCHANGED <<mode, tty, user, userTermios, ourTermios, pc, dispVars, stopped, stops, conts, uncaught>>

(* Unblocking delivers the pending SIGTSTP, unless a SIGCONT discarded it. *)
Unblock ==
    /\ InHandler("unblock")
    /\ pending' = FALSE
    /\ IF pending /\ tstpDisp = "SIG_DFL"
       THEN Goto("reblock") /\ stopped' = TRUE /\ stops' = stops + 1
       ELSE /\ stack' = (IF pending THEN <<"get", "reblock">> ELSE <<"reblock">>) \o Tail(stack)
            /\ UNCHANGED <<stopped, stops>>
    /\ UNCHANGED <<mode, tty, user, userTermios, ourTermios, pc, dispVars, conts, uncaught>>

Reblock ==
    /\ InHandler("reblock")
    /\ Goto("handle")
    /\ UNCHANGED <<mode, tty, user, userTermios, ourTermios, pc, dispVars, pending,
                   stopped, stops, conts, uncaught>>

Reestablish ==
    /\ InHandler("handle")
    /\ tstpDisp' = "handler"
    /\ Goto("getUser")
    /\ UNCHANGED <<mode, tty, user, userTermios, ourTermios, pc, intDisp, termDisp,
                   pending, stopped, stops, conts, uncaught>>

(* Mutant: settings the user made meanwhile are not saved. *)
GetUserSkipped ==
    /\ InHandler("getUser")
    /\ Goto("setOurs")
    /\ UNCHANGED <<mode, tty, user, userTermios, ourTermios, pc, dispVars, pending,
                   stopped, stops, conts, uncaught>>

GetUser ==
    /\ InHandler("getUser")
    /\ userTermios' = tty
    /\ Goto("setOurs")
    /\ UNCHANGED <<mode, tty, user, ourTermios, pc, dispVars, pending, stopped, stops, conts, uncaught>>

(* The handler returns, into a new one if SIGTSTP came meanwhile. *)
SetOurs ==
    /\ InHandler("setOurs")
    /\ tty' = ourTermios
    /\ stack' = IF pending THEN <<"get">> \o Tail(stack) ELSE Tail(stack)
    /\ pending' = FALSE
    /\ UNCHANGED <<mode, user, userTermios, ourTermios, pc, dispVars, stopped, stops, conts, uncaught>>

tstpHandler ==
    \/ GetOurs \/ SetUser \/ SetDefault \/ RaiseTstp \/ Unblock \/ Reblock
    \/ Reestablish \/ GetUser \/ SetOurs

-----------------------------------------------------------------------------
(* The user and the shell *)

ChangeTty ==
    /\ stopped
    /\ \E s \in Settings : tty' = s /\ user' = s
    /\ UNCHANGED <<mode, userTermios, ourTermios, pc, stack, dispVars, pending, stopped,
                   stops, conts, uncaught>>

(* SIGCONT resumes the program and discards a pending SIGTSTP. *)
Cont ==
    /\ ~Ended
    /\ stopped \/ (pending /\ conts < MaxConts)
    /\ conts' = IF stopped THEN conts ELSE conts + 1
    /\ stopped' = FALSE
    /\ pending' = FALSE
    /\ UNCHANGED <<mode, tty, user, userTermios, ourTermios, pc, stack, dispVars, stops, uncaught>>

Program ==
    \/ ttySetCbreak \/ ttySetRaw \/ HandleInt \/ HandleTstp \/ HandleTerm
    \/ Restore \/ MainExit
    \/ HandlerRestore \/ HandlerExit \/ tstpHandler

Terminated == Ended /\ UNCHANGED vars

Next ==
    \/ Program \/ Quit \/ Signal(intDisp, "int") \/ Signal(termDisp, "term")
    \/ Tstp \/ ChangeTty \/ Cont \/ Terminated

Spec == Init /\ [][Next]_vars

-----------------------------------------------------------------------------
TypeOK ==
    /\ mode \in {"cbreak", "raw"}
    /\ tty \in Settings \cup {"cbreak", "raw"} /\ user \in Settings
    /\ userTermios \in Settings \cup {"cbreak", "raw", "none"}
    /\ ourTermios \in Settings \cup {"cbreak", "raw", "none"}
    /\ pc \in {"setMode", "handleInt", "handleTstp", "handleTerm", "read", "restore",
               "restored", "exit", "killed"}
    /\ stack \in Seq(TstpLabels \cup {"int", "term", "int_exit", "term_exit"})
    /\ Len(stack) <= 3 /\ \A k, l \in 1 .. Len(stack) : stack[k] = stack[l] => k = l
    /\ {intDisp, termDisp, tstpDisp} \subseteq {"SIG_DFL", "SIG_IGN", "handler"}
    /\ pending \in BOOLEAN /\ stopped \in BOOLEAN
    /\ stops \in Nat /\ conts \in 0 .. MaxConts /\ uncaught \in BOOLEAN

(* The step in which handler() sets the terminal. *)
HandlerRestores ==
    /\ stack # <<>> /\ Head(stack) \in {"int", "term"}
    /\ stack' = <<ExitOf(Head(stack))>> \o Tail(stack)

(* Stopped through tstpHandler(), the program has left the user a terminal *)
(* with the settings the user made last, not the program's own; resumed,   *)
(* it is back in its own mode, whatever the user did to the terminal.      *)
SuspendHandsOver ==
    /\ stopped /\ ~uncaught /\ Head(stack) \in TstpLabels => tty = user
    /\ pc = "read" /\ stack = <<>> /\ ~stopped /\ ~uncaught => tty = mode

(* At the end of main() the terminal gets the user's latest settings, also *)
(* those made while the program was stopped; and handler() does as well if *)
(* the program has never been stopped.                                     *)
EndGivesBack ==
    [][~uncaught /\ ((pc = "restore" /\ pc' = "restored") \/ (stops = 0 /\ HandlerRestores))
         => tty' = user]_vars

=============================================================================
