---------------------------- MODULE MCTty_proofs ----------------------------
(***************************************************************************)
(* test_tty_functions.c, for every set of terminal settings and any number *)
(* of stops and SIGCONTs: the stack of interrupted handlers is what the    *)
(* signal masks make it, the user finds his own settings whenever          *)
(* tstpHandler() stops the program, the program finds its mode again, and  *)
(* the terminal is given back at the end.  Then script, for any amount of  *)
(* output and any size of the queues, and the programs of Sessions and     *)
(* JobControl, for any number of processes and descriptors.                *)
(***************************************************************************)
EXTENDS MCTty, SequenceTheorems, TLAPS

Labels == TstpLabels \cup {"int", "term", "int_exit", "term_exit"}
Modes == {"cbreak", "raw"}

BasicType ==
    /\ mode \in Modes
    /\ tty \in Settings \cup Modes /\ user \in Settings
    /\ userTermios \in Settings \cup Modes \cup {"none"}
    /\ ourTermios \in Settings \cup Modes \cup {"none"}
    /\ pc \in {"setMode", "handleInt", "handleTstp", "handleTerm", "read", "restore",
               "restored", "exit", "killed"}
    /\ stack \in Seq(Labels)
    /\ intDisp \in {"SIG_DFL", "SIG_IGN", "handler"}
    /\ termDisp \in {"SIG_DFL", "SIG_IGN", "handler"}
    /\ tstpDisp \in {"SIG_DFL", "SIG_IGN", "handler"}
    /\ pending \in BOOLEAN /\ stopped \in BOOLEAN /\ uncaught \in BOOLEAN
    /\ stops \in Nat /\ conts \in 0 .. MaxConts

(* The signal mask keeps every handler from being entered twice; before    *)
(* the mode is set there is none.                                          *)
Family(l) ==
    IF l \in TstpLabels THEN "tstp" ELSE IF l \in {"int", "int_exit"} THEN "int" ELSE "term"

StackInv ==
    /\ \A k, l \in 1 .. Len(stack) : Family(stack[k]) = Family(stack[l]) => k = l
    /\ pc = "setMode" =>
          stack = <<>> /\ intDisp # "handler" /\ termDisp # "handler" /\ tstpDisp # "handler"

(* A second SIGTSTP before the handler is reestablished meets the default. *)
DispInv ==
    \A k \in 1 .. Len(stack) :
        stack[k] \in {"raise", "unblock", "reblock", "handle"} => tstpDisp = "SIG_DFL"

(* The settings a tcsetattr() will use have been saved. *)
SavedInv ==
    /\ pc \notin {"setMode", "killed"} => userTermios # "none"
    /\ \A k \in 1 .. Len(stack) : stack[k] \in TstpLabels \ {"get"} => ourTermios # "none"

(* A stop that tstpHandler() does not know of is the only one outside of   *)
(* the stretch in which it has SIGTSTP unblocked.                          *)
StopInv ==
    /\ stopped /\ ~uncaught => \E k \in 1 .. Len(stack) : stack[k] = "reblock"
    /\ stops = 0 => ~stopped

(* userTermios is what the user set last, but for the time from the stop   *)
(* until the handler asks.                                                 *)
UserInv ==
    ~uncaught /\ ~Ended =>
        /\ pc = "setMode" => tty = user
        /\ \/ pc = "setMode"
           \/ userTermios = user
           \/ stops > 0 /\ \E k \in 1 .. Len(stack) : stack[k] \in {"reblock", "handle", "getUser"}

(* While tstpHandler() has given the terminal away it is the user's. *)
AwayInv ==
    ~uncaught /\ stack # <<>>
      /\ stack[1] \in {"default", "raise", "unblock", "reblock", "handle", "getUser"} => tty = user

(* Where main() is interrupted only by tstpHandler(), the program's mode   *)
(* is on the terminal or in ourTermios.                                    *)
OursInv ==
    ~uncaught /\ pc \in {"handleInt", "handleTstp", "handleTerm", "read", "restore"} =>
        /\ stack = <<>> => tty = mode
        /\ Len(stack) = 1 /\ stack[1] = "get" => tty = mode
        /\ Len(stack) = 1 /\ stack[1] \in TstpLabels \ {"get"} => ourTermios = mode

IInv == BasicType /\ StackInv /\ DispInv /\ SavedInv /\ StopInv /\ UserInv /\ AwayInv /\ OursInv

-----------------------------------------------------------------------------
(* The running handler goes on. *)
LEMMA GotoFacts ==
    ASSUME NEW s \in Seq(Labels), s # <<>>, NEW l \in Labels, NEW t, t = <<l>> \o Tail(s)
    PROVE  /\ t \in Seq(Labels) /\ t # <<>> /\ Len(t) = Len(s) /\ Len(s) \in Nat \ {0}
           /\ t[1] = l /\ \A k \in 2 .. Len(s) : t[k] = s[k]
  <1>1. Tail(s) \in Seq(Labels) /\ Len(Tail(s)) = Len(s) - 1 /\ Len(s) \in Nat \ {0}
        /\ \A k \in 1 .. Len(s) - 1 : Tail(s)[k] = s[k + 1]
    BY HeadTailProperties
  <1>2. <<l>> \in Seq(Labels) /\ Len(<<l>>) = 1 /\ <<l>>[1] = l
    OBVIOUS
  <1> HIDE DEF Labels
  <1>3. t \in Seq(Labels) /\ Len(t) = 1 + Len(Tail(s))
    BY <1>1, <1>2
  <1> QED BY <1>1, <1>2, <1>3

(* A handler is entered. *)
LEMMA PushFacts ==
    ASSUME NEW s \in Seq(Labels), NEW l \in Labels, NEW t, t = <<l>> \o s
    PROVE  /\ t \in Seq(Labels) /\ t # <<>> /\ Len(t) = Len(s) + 1 /\ Len(s) \in Nat
           /\ t[1] = l /\ \A k \in 1 .. Len(s) : t[k + 1] = s[k]
           /\ \A k \in 2 .. Len(t) : t[k] = s[k - 1]
  OBVIOUS

(* A handler returns. *)
LEMMA PopFacts ==
    ASSUME NEW s \in Seq(Labels), s # <<>>, NEW t, t = Tail(s)
    PROVE  /\ t \in Seq(Labels) /\ Len(t) = Len(s) - 1 /\ Len(s) \in Nat \ {0}
           /\ \A k \in 1 .. Len(t) : t[k] = s[k + 1]
  BY HeadTailProperties

(* The initial states. *)
LEMMA InitIInv == Init => IInv
  <1> SUFFICES ASSUME Init PROVE IInv
    OBVIOUS
  <1>1. BasicType
    <2>1. <<>> \in Seq(Labels)
      OBVIOUS
    <2>2. pending \in BOOLEAN /\ stopped \in BOOLEAN /\ uncaught \in BOOLEAN
      BY DEF Init
    <2>3. stops \in Nat /\ conts \in 0 .. MaxConts
      BY ConstantsAssumption DEF Init
    <2> QED BY <2>1, <2>2, <2>3 DEF Init, BasicType, Modes
  <1>2. Len(stack) = 0
    BY DEF Init
  <1> QED
    BY <1>1, <1>2 DEF Init, IInv, StackInv, DispInv, SavedInv, StopInv, UserInv, AwayInv, OursInv

(* A step of main() outside the handlers, or of the user and the shell. *)
LEMMA StepMain ==
    ASSUME IInv,
           \/ ttySetCbreak \/ ttySetRaw \/ HandleInt \/ HandleTstp \/ HandleTerm
           \/ Quit \/ Restore \/ MainExit \/ ChangeTty \/ Cont \/ UNCHANGED vars
    PROVE  IInv'
  <1> USE DEF IInv, BasicType, StackInv, DispInv, SavedInv, StopInv, UserInv, AwayInv, OursInv,
              dispVars, Main, Ended, Modes
  <1>1. CASE ttySetCbreak \/ ttySetRaw
    BY <1>1, ConstantsAssumption DEF ttySetCbreak, ttySetRaw, SetMode
  <1>2. CASE HandleInt
    BY <1>2 DEF HandleInt
  <1>3. CASE HandleTstp
    BY <1>3 DEF HandleTstp
  <1>4. CASE HandleTerm
    BY <1>4 DEF HandleTerm
  <1>5. CASE Quit \/ MainExit
    BY <1>5 DEF Quit, MainExit
  <1>6. CASE Restore
    BY <1>6 DEF Restore
  <1>7. CASE ChangeTty
    BY <1>7, ConstantsAssumption DEF ChangeTty
  <1>8. CASE Cont
    <2>1. stopped' \in BOOLEAN /\ pending' \in BOOLEAN
      BY <1>8 DEF Cont
    <2>2. conts' \in 0 .. MaxConts
      BY <1>8, ConstantsAssumption DEF Cont
    <2>3. BasicType'
      BY <1>8, <2>1, <2>2 DEF Cont
    <2>4. StackInv' /\ DispInv' /\ SavedInv' /\ StopInv' /\ UserInv' /\ AwayInv' /\ OursInv'
      BY <1>8 DEF Cont
    <2> QED BY <2>3, <2>4
  <1>9. CASE UNCHANGED vars
    BY <1>9 DEF vars
  <1> QED BY <1>1, <1>2, <1>3, <1>4, <1>5, <1>6, <1>7, <1>8, <1>9

(* SIGINT, SIGQUIT or SIGTERM interrupts whatever runs. *)
LEMMA StepSignal ==
    ASSUME IInv, Signal(intDisp, "int") \/ Signal(termDisp, "term")
    PROVE  IInv'
  <1> USE DEF IInv
  <1>0. PICK l \in {"int", "term"} :
            /\ ~Ended /\ ~stopped
            /\ \A k \in 1 .. Len(stack) : stack[k] \notin {l, ExitOf(l)}
            /\ \/ pc' = "killed" /\ stack' = stack
               \/ pc # "setMode" /\ stack' = <<l>> \o stack /\ pc' = pc
            /\ UNCHANGED <<mode, tty, user, userTermios, ourTermios, dispVars, pending, stopped,
                           stops, conts, uncaught>>
    BY DEF Signal, StackInv
  <1>1. CASE pc' = "killed" /\ stack' = stack
    BY <1>0, <1>1 DEF BasicType, StackInv, DispInv, SavedInv, StopInv, UserInv, AwayInv, OursInv,
       dispVars, Ended
  <1>2. CASE pc # "setMode" /\ stack' = <<l>> \o stack /\ pc' = pc
    <2>1. l \in Labels /\ stack \in Seq(Labels)
      BY DEF Labels, BasicType
    <2>2. /\ stack' \in Seq(Labels) /\ stack' # <<>> /\ Len(stack') = Len(stack) + 1
          /\ Len(stack) \in Nat /\ stack'[1] = l
          /\ \A k \in 1 .. Len(stack) : stack'[k + 1] = stack[k]
          /\ \A k \in 2 .. Len(stack') : stack'[k] = stack[k - 1]
      BY <1>2, <2>1, PushFacts
    <2>3. BasicType'
      BY <1>0, <1>2, <2>2 DEF BasicType, dispVars
    <2>4. l \notin TstpLabels /\ \A k \in 1 .. Len(stack) : Family(stack[k]) # Family(l)
      <3>1. l \notin TstpLabels /\ Family(l) = l
        BY DEF TstpLabels, Family
      <3>2. ASSUME NEW k \in 1 .. Len(stack) PROVE Family(stack[k]) # l
        BY <1>0, <2>1 DEF Family, ExitOf, TstpLabels, Labels
      <3> QED BY <3>1, <3>2
    <2>5. StackInv'
      BY <1>0, <1>2, <2>2, <2>4 DEF StackInv, dispVars
    <2>6. DispInv' /\ SavedInv'
      BY <1>0, <1>2, <2>2, <2>4 DEF DispInv, SavedInv, dispVars, TstpLabels
    <2>7. StopInv' /\ UserInv' /\ AwayInv'
      BY <1>0, <1>2, <2>2, <2>4 DEF StopInv, UserInv, AwayInv, Ended, TstpLabels
    <2>8. OursInv'
      BY <1>0, <1>2, <2>2, <2>4 DEF OursInv, TstpLabels
    <2> QED BY <2>3, <2>5, <2>6, <2>7, <2>8
  <1> QED BY <1>0, <1>1, <1>2

(* In its place on the stack a handler is replaced by itself, further on. *)
LEMMA SamePlace ==
    ASSUME BasicType, StackInv, stack # <<>>, NEW l \in Labels, stack' = <<l>> \o Tail(stack),
           Family(l) = Family(stack[1])
    PROVE  /\ stack' \in Seq(Labels) /\ stack' # <<>> /\ Len(stack') = Len(stack)
           /\ Len(stack) \in Nat \ {0} /\ stack'[1] = l
           /\ \A k \in 2 .. Len(stack) : stack'[k] = stack[k]
           /\ \A k, m \in 1 .. Len(stack') : Family(stack'[k]) = Family(stack'[m]) => k = m
           /\ \A k \in 1 .. Len(stack) : k # 1 => Family(stack[k]) # Family(l)
  <1>1. /\ stack' \in Seq(Labels) /\ stack' # <<>> /\ Len(stack') = Len(stack)
        /\ Len(stack) \in Nat \ {0} /\ stack'[1] = l
        /\ \A k \in 2 .. Len(stack) : stack'[k] = stack[k]
    BY GotoFacts DEF BasicType
  <1>2. \A k \in 1 .. Len(stack) : Family(stack'[k]) = Family(stack[k])
    BY <1>1
  <1> QED BY <1>1, <1>2 DEF StackInv

(* tstpHandler() is on the stack at most once. *)
LEMMA TstpPlace ==
    ASSUME BasicType, StackInv, NEW a \in TstpLabels, InHandler(a)
    PROVE  /\ stack # <<>> /\ stack[1] = a /\ Len(stack) \in Nat \ {0}
           /\ \A k \in 2 .. Len(stack) : stack[k] \notin TstpLabels
  <1>1. stack # <<>> /\ stack[1] = a /\ Len(stack) \in Nat \ {0}
    BY DEF InHandler, BasicType
  <1>2. \A k \in 2 .. Len(stack) : Family(stack[k]) # Family(stack[1])
    BY <1>1 DEF StackInv
  <1> QED BY <1>1, <1>2 DEF Family

(* tstpHandler() goes on from a to l, and is nowhere else on the stack. *)
GoesOn(a, l) ==
    /\ stack[1] = a /\ stack' \in Seq(Labels) /\ stack' # <<>> /\ Len(stack') = Len(stack)
    /\ Len(stack) \in Nat \ {0} /\ stack'[1] = l
    /\ \A k \in 2 .. Len(stack) : stack'[k] = stack[k] /\ stack[k] \notin TstpLabels
    /\ \A k, m \in 1 .. Len(stack') : Family(stack'[k]) = Family(stack'[m]) => k = m

(* A step within tstpHandler(). *)
LEMMA TstpGoto ==
    ASSUME BasicType, StackInv, NEW a \in TstpLabels, NEW l \in TstpLabels, InHandler(a),
           stack' = <<l>> \o Tail(stack)
    PROVE  GoesOn(a, l)
  <1>1. l \in Labels
    BY DEF Labels
  <1>2. Family(l) = Family(stack[1])
    BY TstpPlace DEF Family
  <1> QED BY <1>1, <1>2, TstpPlace, SamePlace DEF GoesOn

(* The handler that runs goes on to its next position. *)
LEMMA StepGoto ==
    ASSUME IInv, HandlerRestore \/ GetOurs \/ SetUser \/ SetDefault \/ RaiseTstp \/ Reblock
                                \/ Reestablish \/ GetUser
    PROVE  IInv'
  <1> USE DEF IInv
  <1>0. stack # <<>> /\ stack \in Seq(Labels) /\ ~Ended /\ ~stopped /\ Head(stack) = stack[1]
    BY DEF HandlerRestore, GetOurs, SetUser, SetDefault, RaiseTstp, Reblock, Reestablish, GetUser,
       InHandler, BasicType
  <1>2. CASE HandlerRestore
    <2>1. PICK l \in {"int_exit", "term_exit"} :
              /\ stack' = <<l>> \o Tail(stack) /\ Family(l) = Family(stack[1])
              /\ stack[1] \in {"int", "term"}
      BY <1>0, <1>2 DEF HandlerRestore, InHandler, Goto, ExitOf, Family, TstpLabels
    <2>2. l \in Labels /\ l \notin TstpLabels
      BY DEF Labels, TstpLabels
    <2>3. BasicType'
      BY <1>0, SamePlace, <1>2, <2>1, <2>2 DEF HandlerRestore, BasicType, SavedInv, StackInv, Ended,
         dispVars
    <2>4. StackInv'
      BY <1>0, SamePlace, <1>2, <2>1, <2>2 DEF HandlerRestore, StackInv, dispVars
    <2>5. DispInv' /\ SavedInv' /\ StopInv'
      BY <1>0, SamePlace, <1>2, <2>1, <2>2
      DEF HandlerRestore, DispInv, SavedInv, StopInv, dispVars, TstpLabels
    <2>6. UserInv' /\ AwayInv' /\ OursInv'
      BY <1>0, SamePlace, <1>2, <2>1, <2>2
      DEF HandlerRestore, StackInv, UserInv, AwayInv, OursInv, Ended, TstpLabels
    <2> QED BY <2>3, <2>4, <2>5, <2>6
  <1>3. CASE GetOurs
    <2>1. GoesOn("get", "setUser")
      BY <1>3, TstpGoto DEF GetOurs, Goto, TstpLabels
    <2>2. BasicType' /\ StackInv'
      BY <1>0, <1>3, <2>1 DEF GoesOn, GetOurs, BasicType, StackInv, SavedInv, Ended, dispVars, Modes
    <2>3. DispInv' /\ SavedInv' /\ StopInv'
      BY <1>0, <1>3, <2>1, ConstantsAssumption
      DEF GoesOn, GetOurs, BasicType, DispInv, SavedInv, StopInv, Ended, dispVars, Modes, TstpLabels
    <2>4. UserInv' /\ AwayInv' /\ OursInv'
      BY <1>0, <1>3, <2>1
      DEF GoesOn, GetOurs, BasicType, StackInv, UserInv, AwayInv, OursInv, Ended, TstpLabels
    <2> QED BY <2>2, <2>3, <2>4
  <1>4. CASE SetUser
    <2>1. GoesOn("setUser", "default")
      BY <1>4, TstpGoto DEF SetUser, Goto, TstpLabels
    <2>2. BasicType' /\ StackInv'
      BY <1>0, <1>4, <2>1 DEF GoesOn, SetUser, BasicType, StackInv, SavedInv, Ended, dispVars, Modes
    <2>3. DispInv' /\ SavedInv' /\ StopInv'
      BY <1>0, <1>4, <2>1, ConstantsAssumption
      DEF GoesOn, SetUser, BasicType, DispInv, SavedInv, StopInv, Ended, dispVars, Modes, TstpLabels
    <2>4. UserInv' /\ AwayInv' /\ OursInv'
      BY <1>0, <1>4, <2>1
      DEF GoesOn, SetUser, BasicType, StackInv, UserInv, AwayInv, OursInv, Ended, TstpLabels
    <2> QED BY <2>2, <2>3, <2>4
  <1>5. CASE SetDefault
    <2>1. GoesOn("default", "raise")
      BY <1>5, TstpGoto DEF SetDefault, Goto, TstpLabels
    <2>2. BasicType' /\ StackInv'
      BY <1>0, <1>5, <2>1 DEF GoesOn, SetDefault, BasicType, StackInv, SavedInv, Ended, dispVars, Modes
    <2>3. DispInv' /\ SavedInv' /\ StopInv'
      BY <1>0, <1>5, <2>1, ConstantsAssumption
      DEF GoesOn, SetDefault, BasicType, DispInv, SavedInv, StopInv, Ended, dispVars, Modes, TstpLabels
    <2>4. UserInv' /\ AwayInv' /\ OursInv'
      BY <1>0, <1>5, <2>1
      DEF GoesOn, SetDefault, BasicType, StackInv, UserInv, AwayInv, OursInv, Ended, TstpLabels
    <2> QED BY <2>2, <2>3, <2>4
  <1>6. CASE RaiseTstp
    <2>1. GoesOn("raise", "unblock")
      BY <1>6, TstpGoto DEF RaiseTstp, Goto, TstpLabels
    <2>2. BasicType' /\ StackInv'
      BY <1>0, <1>6, <2>1 DEF GoesOn, RaiseTstp, BasicType, StackInv, SavedInv, Ended, dispVars, Modes
    <2>3. DispInv' /\ SavedInv' /\ StopInv'
      BY <1>0, <1>6, <2>1, ConstantsAssumption
      DEF GoesOn, RaiseTstp, BasicType, DispInv, SavedInv, StopInv, Ended, dispVars, Modes, TstpLabels
    <2>4. UserInv' /\ AwayInv' /\ OursInv'
      BY <1>0, <1>6, <2>1
      DEF GoesOn, RaiseTstp, BasicType, StackInv, UserInv, AwayInv, OursInv, Ended, TstpLabels
    <2> QED BY <2>2, <2>3, <2>4
  <1>7. CASE Reblock
    <2>1. GoesOn("reblock", "handle")
      BY <1>7, TstpGoto DEF Reblock, Goto, TstpLabels
    <2>2. BasicType' /\ StackInv'
      BY <1>0, <1>7, <2>1 DEF GoesOn, Reblock, BasicType, StackInv, SavedInv, Ended, dispVars, Modes
    <2>3. DispInv' /\ SavedInv' /\ StopInv'
      BY <1>0, <1>7, <2>1, ConstantsAssumption
      DEF GoesOn, Reblock, BasicType, DispInv, SavedInv, StopInv, Ended, dispVars, Modes, TstpLabels
    <2>4. UserInv' /\ AwayInv' /\ OursInv'
      BY <1>0, <1>7, <2>1
      DEF GoesOn, Reblock, BasicType, StackInv, UserInv, AwayInv, OursInv, Ended, TstpLabels
    <2> QED BY <2>2, <2>3, <2>4
  <1>8. CASE Reestablish
    <2>1. GoesOn("handle", "getUser")
      BY <1>8, TstpGoto DEF Reestablish, Goto, TstpLabels
    <2>2. BasicType' /\ StackInv'
      BY <1>0, <1>8, <2>1 DEF GoesOn, Reestablish, BasicType, StackInv, SavedInv, Ended, dispVars, Modes
    <2>3. DispInv' /\ SavedInv' /\ StopInv'
      BY <1>0, <1>8, <2>1, ConstantsAssumption
      DEF GoesOn, Reestablish, BasicType, DispInv, SavedInv, StopInv, Ended, dispVars, Modes, TstpLabels
    <2>4. UserInv' /\ AwayInv' /\ OursInv'
      BY <1>0, <1>8, <2>1
      DEF GoesOn, Reestablish, BasicType, StackInv, UserInv, AwayInv, OursInv, Ended, TstpLabels
    <2> QED BY <2>2, <2>3, <2>4
  <1>9. CASE GetUser
    <2>1. GoesOn("getUser", "setOurs")
      BY <1>9, TstpGoto DEF GetUser, Goto, TstpLabels
    <2>2. BasicType' /\ StackInv'
      BY <1>0, <1>9, <2>1 DEF GoesOn, GetUser, BasicType, StackInv, SavedInv, Ended, dispVars, Modes
    <2>3. DispInv' /\ SavedInv' /\ StopInv'
      BY <1>0, <1>9, <2>1, ConstantsAssumption
      DEF GoesOn, GetUser, BasicType, DispInv, SavedInv, StopInv, Ended, dispVars, Modes, TstpLabels
    <2>4. UserInv' /\ AwayInv' /\ OursInv'
      BY <1>0, <1>9, <2>1
      DEF GoesOn, GetUser, BasicType, StackInv, UserInv, AwayInv, OursInv, Ended, TstpLabels
    <2> QED BY <2>2, <2>3, <2>4
  <1> QED BY <1>2, <1>3, <1>4, <1>5, <1>6, <1>7, <1>8, <1>9

(* handler() ends the program; tstpHandler() lets itself be stopped, or    *)
(* returns.                                                                *)
LEMMA StepLeave ==
    ASSUME IInv, HandlerExit \/ Unblock \/ SetOurs
    PROVE  IInv'
  <1> USE DEF IInv
  <1>1. CASE HandlerExit
    BY <1>1 DEF HandlerExit, BasicType, StackInv, DispInv, SavedInv, StopInv, UserInv, AwayInv,
       OursInv, InHandler, Ended, dispVars
  <1>2. CASE Unblock
    <2>1. InHandler("unblock") /\ "unblock" \in TstpLabels /\ "reblock" \in TstpLabels
      BY <1>2 DEF Unblock, TstpLabels
    <2>2. tstpDisp = "SIG_DFL"
      BY <2>1, TstpPlace DEF DispInv
    <2>a. UNCHANGED <<mode, tty, user, userTermios, ourTermios, pc, dispVars, conts, uncaught>>
      BY <1>2 DEF Unblock
    <2>3. /\ stack' = <<"reblock">> \o Tail(stack) /\ pending' \in BOOLEAN
          /\ (stops' = stops /\ stopped' = stopped) \/ (stops' = stops + 1 /\ stopped' = TRUE)
      <3>1. CASE pending
        BY <1>2, <2>2, <3>1 DEF Unblock, Goto
      <3>2. CASE ~pending
        BY <1>2, <3>2, Zenon DEF Unblock
      <3> QED BY <3>1, <3>2
    <2>4. /\ ~Ended /\ ~stopped /\ GoesOn("unblock", "reblock")
          /\ stops' \in Nat /\ (stops' = 0 => stops = 0 /\ ~stopped')
      <3>1. ~Ended /\ ~stopped
        BY <2>1 DEF InHandler
      <3>2. GoesOn("unblock", "reblock")
        BY <2>1, <2>3, TstpGoto
      <3>3. stops \in Nat /\ stops + 1 # 0 /\ stops + 1 \in Nat
        BY DEF BasicType
      <3> QED BY <2>3, <3>1, <3>2, <3>3
    <2>b. stopped' \in BOOLEAN
      BY <2>3 DEF BasicType
    <2>5. BasicType' /\ StackInv'
      BY <2>a, <2>b, <2>3, <2>4 DEF GoesOn, BasicType, StackInv, Ended, dispVars
    <2>6. DispInv' /\ SavedInv' /\ StopInv'
      BY <2>a, <2>2, <2>4
      DEF GoesOn, BasicType, DispInv, SavedInv, StopInv, Ended, dispVars, TstpLabels
    <2>7. UserInv' /\ AwayInv' /\ OursInv'
      <3>1. ~uncaught => userTermios = user
        BY <2>4 DEF GoesOn, UserInv, StackInv, Ended, TstpLabels
      <3> QED BY <2>a, <2>4, <3>1 DEF GoesOn, UserInv, AwayInv, OursInv, StackInv, Ended, TstpLabels
    <2> QED BY <2>5, <2>6, <2>7
  <1>3. CASE SetOurs
    <2>1. InHandler("setOurs") /\ "setOurs" \in TstpLabels /\ "get" \in TstpLabels
      BY <1>3 DEF SetOurs, TstpLabels
    <2>2. /\ ~Ended /\ ~stopped /\ ourTermios # "none"
          /\ tty' = ourTermios /\ pending' \in BOOLEAN
          /\ UNCHANGED <<mode, user, userTermios, ourTermios, pc, dispVars, stopped, stops, conts,
                         uncaught>>
      <3>1. pending' = FALSE
        BY <1>3 DEF SetOurs
      <3>2. pending' \in BOOLEAN
        BY <3>1
      <3> QED BY <1>3, <2>1, <3>2, TstpPlace DEF SetOurs, InHandler, SavedInv
    <2>a. ~uncaught => userTermios = user
      BY <2>1, <2>2, TstpPlace DEF UserInv, StackInv, Ended, TstpLabels
    <2>b. /\ stack # <<>> /\ pc # "setMode"
          /\ ~uncaught /\ Len(stack) = 1
             /\ pc \in {"handleInt", "handleTstp", "handleTerm", "read", "restore"} =>
                ourTermios = mode
      BY <2>1, TstpPlace DEF OursInv, StackInv
    <2>3. CASE stack' = <<"get">> \o Tail(stack)
      <3>0. GoesOn("setOurs", "get")
        BY <2>1, <2>3, TstpGoto
      <3>1. BasicType' /\ StackInv'
        BY <2>2, <3>0 DEF GoesOn, BasicType, StackInv, Ended, dispVars
      <3>2. DispInv' /\ SavedInv' /\ StopInv'
        BY <2>2, <3>0 DEF GoesOn, DispInv, SavedInv, StopInv, Ended, dispVars, TstpLabels
      <3>3. UserInv' /\ AwayInv' /\ OursInv'
        BY <2>2, <2>a, <2>b, <3>0 DEF GoesOn, UserInv, AwayInv, OursInv, Ended, TstpLabels
      <3> QED BY <3>1, <3>2, <3>3
    <2>4. CASE stack' = Tail(stack)
      <3>1. /\ stack # <<>> /\ stack[1] = "setOurs"
            /\ \A k \in 2 .. Len(stack) : stack[k] \notin TstpLabels
        BY <2>1, TstpPlace
      <3>2. /\ stack' \in Seq(Labels) /\ Len(stack') = Len(stack) - 1 /\ Len(stack) \in Nat \ {0}
            /\ \A k \in 1 .. Len(stack') : stack'[k] = stack[k + 1]
        BY <2>4, <3>1, PopFacts DEF BasicType
      <3>3. \A k \in 1 .. Len(stack') : stack'[k] \notin TstpLabels
        BY <3>1, <3>2
      <3>4. BasicType'
        BY <2>2, <3>2 DEF BasicType, dispVars
      <3>5. StackInv'
        <4>1. ASSUME NEW k \in 1 .. Len(stack'), NEW m \in 1 .. Len(stack'),
                     Family(stack'[k]) = Family(stack'[m])
              PROVE  k = m
          <5>1. k + 1 \in 1 .. Len(stack) /\ m + 1 \in 1 .. Len(stack)
            BY <3>2
          <5>2. Family(stack[k + 1]) = Family(stack[m + 1])
            BY <3>2, <4>1
          <5>3. k + 1 = m + 1
            BY <5>1, <5>2 DEF StackInv
          <5> QED BY <5>3
        <4> QED BY <2>2, <3>1, <4>1 DEF StackInv, dispVars
      <3>6. DispInv' /\ SavedInv' /\ StopInv'
        BY <2>2, <3>3 DEF DispInv, SavedInv, StopInv, Ended, dispVars, TstpLabels
      <3>7. UserInv' /\ AwayInv' /\ OursInv'
        <4>1. stack' = <<>> => Len(stack) = 1
          BY <3>2
        <4> QED BY <2>2, <2>a, <2>b, <3>2, <3>3, <4>1 DEF UserInv, AwayInv, OursInv, Ended, TstpLabels
      <3> QED BY <3>4, <3>5, <3>6, <3>7
    <2> QED BY <1>3, <2>3, <2>4 DEF SetOurs
  <1> QED BY <1>1, <1>2, <1>3

(* SIGTSTP arrives: no second tstpHandler() is entered. *)
LEMMA StepTstp ==
    ASSUME IInv, Tstp
    PROVE  IInv'
  <1> USE DEF IInv
  <1>0. /\ ~Ended /\ ~stopped
        /\ UNCHANGED <<mode, tty, user, userTermios, ourTermios, pc, dispVars, conts>>
    BY DEF Tstp
  <1>1. CASE /\ pending' = TRUE /\ UNCHANGED <<stack, stopped, stops, uncaught>>
    BY <1>0, <1>1 DEF BasicType, StackInv, DispInv, SavedInv, StopInv, UserInv, AwayInv, OursInv,
       Ended, dispVars
  <1>2. CASE /\ ~TstpBlocked /\ tstpDisp = "handler"
             /\ stack' = <<"get">> \o stack /\ UNCHANGED <<pending, stopped, stops, uncaught>>
    <2>1. \A k \in 1 .. Len(stack) : stack[k] \notin TstpLabels
      BY <1>2 DEF TstpBlocked, DispInv
    <2>2. "get" \in Labels /\ stack \in Seq(Labels) /\ Family("get") = "tstp"
      BY DEF Labels, TstpLabels, BasicType, Family
    <2>3. /\ stack' \in Seq(Labels) /\ stack' # <<>> /\ Len(stack') = Len(stack) + 1
          /\ Len(stack) \in Nat /\ stack'[1] = "get"
          /\ \A k \in 1 .. Len(stack) : stack'[k + 1] = stack[k]
          /\ \A k \in 2 .. Len(stack') : stack'[k] = stack[k - 1]
      BY <1>2, <2>2, PushFacts
    <2>4. BasicType'
      BY <1>0, <1>2, <2>3 DEF BasicType, dispVars
    <2>5. \A k \in 1 .. Len(stack) : Family(stack[k]) # "tstp"
      BY <2>1 DEF Family
    <2>6. StackInv'
      BY <1>0, <1>2, <2>2, <2>3, <2>5 DEF StackInv, dispVars
    <2>7. DispInv' /\ SavedInv' /\ StopInv'
      BY <1>0, <1>2, <2>1, <2>3 DEF DispInv, SavedInv, StopInv, dispVars, TstpLabels
    <2>8. UserInv' /\ AwayInv' /\ OursInv'
      BY <1>0, <1>2, <2>1, <2>3 DEF StackInv, UserInv, AwayInv, OursInv, Ended, TstpLabels
    <2> QED BY <2>4, <2>6, <2>7, <2>8
  <1>3. CASE /\ ~TstpBlocked /\ tstpDisp = "SIG_DFL"
             /\ stopped' = TRUE /\ stops' = stops + 1 /\ UNCHANGED <<pending, stack>>
             /\ uncaught' = (uncaught \/ ~InTstpHandler)
    <2>1. uncaught' \in BOOLEAN /\ stopped' \in BOOLEAN
      BY <1>3
    <2>2. ~uncaught' => ~uncaught /\ \E k \in 1 .. Len(stack) : stack[k] = "reblock"
      BY <1>3 DEF InTstpHandler, TstpBlocked
    <2>3. BasicType'
      BY <1>0, <1>3, <2>1 DEF BasicType, dispVars
    <2>4. StackInv' /\ DispInv' /\ SavedInv' /\ StopInv'
      BY <1>0, <1>3, <2>2 DEF BasicType, StackInv, DispInv, SavedInv, StopInv, dispVars
    <2>5. UserInv' /\ AwayInv' /\ OursInv'
      BY <1>0, <1>3, <2>2 DEF BasicType, UserInv, AwayInv, OursInv, Ended
    <2> QED BY <2>3, <2>4, <2>5
  <1> QED BY <1>1, <1>2, <1>3 DEF Tstp

(* Every step of the program, the user and the shell. *)
LEMMA StepIInv == IInv /\ [Next]_vars => IInv'
  BY StepMain, StepSignal, StepGoto, StepLeave, StepTstp DEF Next, Program, tstpHandler, Terminated

(* The inductive invariant holds in every reachable state; the other       *)
(* programs leave this one in its initial state.                           *)
LEMMA Invariance == MCSpec => []IInv
  <1>1. MCInit => IInv
    BY InitIInv DEF MCInit
  <1>2. IInv /\ [MCNext]_<<machine, vars>> => IInv'
    BY StepIInv DEF MCNext
  <1> QED BY <1>1, <1>2, PTL DEF MCSpec

-----------------------------------------------------------------------------
(* test_tty_functions.c: the signal mask lets every handler be entered     *)
(* once, so at most three are interrupted; no tcsetattr() uses settings    *)
(* that were never read.                                                   *)
THEOREM TypeCorrect == MCSpec => []TypeOK
  <1>1. IInv => TypeOK
    <2> SUFFICES ASSUME IInv PROVE TypeOK
      OBVIOUS
    <2>1. BasicType /\ StackInv
      BY DEF IInv
    <2>2. \A k \in 1 .. Len(stack) : Family(stack[k]) \in {"tstp", "int", "term"}
      BY DEF Family
    <2>3. Len(stack) \in Nat
      BY <2>1 DEF BasicType
    <2>4. Len(stack) <= 3
      <3> SUFFICES ASSUME Len(stack) >= 4 PROVE FALSE
        BY <2>3
      <3>1. 1 \in 1 .. Len(stack) /\ 2 \in 1 .. Len(stack) /\ 3 \in 1 .. Len(stack)
            /\ 4 \in 1 .. Len(stack)
        BY <2>3
      <3> QED BY <2>1, <2>2, <3>1 DEF StackInv
    <2>5. \A k, l \in 1 .. Len(stack) : stack[k] = stack[l] => k = l
      BY <2>1 DEF StackInv
    <2> QED BY <2>1, <2>4, <2>5 DEF BasicType, TypeOK, Modes, Labels
  <1> QED BY Invariance, <1>1, PTL

(* test_tty_functions.c:57, :91: stopped by tstpHandler(), the program has *)
(* left the user a terminal with the user's last settings, and when it     *)
(* reads again the terminal is in the program's mode.                      *)
THEOREM HandsOver == MCSpec => []SuspendHandsOver
  <1>1. IInv => SuspendHandsOver
    <2> SUFFICES ASSUME IInv PROVE SuspendHandsOver
      OBVIOUS
    <2>1. ASSUME stopped, ~uncaught, Head(stack) \in TstpLabels PROVE tty = user
      <3>1. PICK k \in 1 .. Len(stack) : stack[k] = "reblock"
        BY <2>1 DEF IInv, StopInv
      <3>2. stack # <<>> /\ Head(stack) = stack[1] /\ 1 \in 1 .. Len(stack)
        BY <3>1 DEF IInv, BasicType
      <3>3. Family(stack[1]) = Family(stack[k])
        BY <2>1, <3>1, <3>2 DEF Family, TstpLabels
      <3>4. stack[1] = "reblock"
        BY <3>1, <3>2, <3>3 DEF IInv, StackInv
      <3> QED BY <2>1, <3>2, <3>4 DEF IInv, AwayInv
    <2>2. ASSUME pc = "read", stack = <<>>, ~stopped, ~uncaught PROVE tty = mode
      BY <2>2 DEF IInv, OursInv
    <2> QED BY <2>1, <2>2 DEF SuspendHandsOver
  <1> QED BY Invariance, <1>1, PTL

(* Only handler() goes on the way HandlerRestores says. *)
LEMMA OnlyHandler ==
    ASSUME IInv, Next, HandlerRestores
    PROVE  HandlerRestore
  <1>1. /\ stack \in Seq(Labels) /\ stack # <<>> /\ Head(stack) = stack[1]
        /\ stack[1] \in {"int", "term"}
    BY DEF IInv, BasicType, HandlerRestores
  <1>2. ExitOf(stack[1]) \in Labels /\ ExitOf(stack[1]) # stack[1]
    BY <1>1 DEF ExitOf, Labels
  <1>3. Len(stack') = Len(stack) /\ Len(stack) \in Nat \ {0} /\ stack'[1] # stack[1]
    <2>1. stack' = <<ExitOf(stack[1])>> \o Tail(stack)
      BY <1>1 DEF HandlerRestores
    <2> HIDE DEF HandlerRestores
    <2>2. Len(stack') = Len(stack) /\ Len(stack) \in Nat \ {0} /\ stack'[1] = ExitOf(stack[1])
      BY <1>1, <1>2, <2>1, GotoFacts
    <2> QED BY <1>2, <2>2
  <1>4. ~ UNCHANGED stack
    BY <1>3
  <1>5. \A l \in Labels : stack' # <<l>> \o stack
    <2> SUFFICES ASSUME NEW l \in Labels, stack' = <<l>> \o stack PROVE FALSE
      OBVIOUS
    <2>1. Len(stack') = Len(stack) + 1
      BY <1>1, PushFacts
    <2> QED BY <1>3, <2>1
  <1>6. "int" \in Labels /\ "term" \in Labels /\ "get" \in Labels
    BY DEF Labels, TstpLabels
  <1> QED
    BY <1>1, <1>4, <1>5, <1>6
    DEF Next, Program, tstpHandler, Terminated, vars, Main, InHandler,
        ttySetCbreak, ttySetRaw, SetMode, HandleInt, HandleTstp, HandleTerm, Quit, Restore, MainExit,
        HandlerExit, GetOurs, SetUser, SetDefault, RaiseTstp, Unblock, Reblock, Reestablish,
        GetUser, SetOurs, Signal, Tstp, ChangeTty, Cont

(* test_tty_functions.c:171, :37: the tcsetattr() at the end of main(),    *)
(* and the one of handler() if the program has never been stopped, give    *)
(* the terminal the user's last settings.                                  *)
THEOREM GivesBack == MCSpec => EndGivesBack
  <1>1. ASSUME IInv, Next, ~uncaught, pc = "restore", pc' = "restored" PROVE tty' = user
    <2>1. Restore
      BY <1>1 DEF Next, Program, tstpHandler, Terminated, vars, Main, InHandler,
         ttySetCbreak, ttySetRaw, SetMode, HandleInt, HandleTstp, HandleTerm, Quit, MainExit,
         HandlerRestore, HandlerExit, GetOurs, SetUser, SetDefault, RaiseTstp, Unblock, Reblock,
         Reestablish, GetUser, SetOurs, Signal, Tstp, ChangeTty, Cont
    <2>2. stack = <<>> /\ tty' = userTermios /\ Len(stack) = 0
      BY <2>1 DEF Restore, Main
    <2> QED BY <1>1, <2>2 DEF IInv, UserInv, Ended
  <1>2. ASSUME IInv, Next, ~uncaught, stops = 0, HandlerRestores PROVE tty' = user
    <2>1. HandlerRestore
      BY <1>2, OnlyHandler
    <2>2. ~Ended /\ stack # <<>> /\ tty' = userTermios
      BY <2>1 DEF HandlerRestore, InHandler
    <2> QED BY <1>2, <2>2 DEF IInv, UserInv, StackInv
  <1>3. IInv /\ [MCNext]_<<machine, vars>> =>
            [~uncaught /\ ((pc = "restore" /\ pc' = "restored") \/ (stops = 0 /\ HandlerRestores))
               => tty' = user]_vars
    BY <1>1, <1>2 DEF MCNext
  <1> QED BY Invariance, <1>3, PTL DEF MCSpec, EndGivesBack

-----------------------------------------------------------------------------
(* The programs of the machine; a step is one of the program that runs. *)
Programs == {"none", "script", "orphaned_pgrp", "daemon"} \cup SS!HupProgs \cup JC!Progs

ProgInv == "prog" \in DOMAIN mem /\ mem.prog \in Programs

LEMMA InitProg == MCInit => ProgInv
  BY DEF MCInit, NotRunning, ProgInv, Programs, SR!Init, SR!Prog, SS!Init, SS!OrphanInit, SS!HupInit,
         SS!HupProgs, SS!DaemonInit, JC!Init, JC!JobInit, JC!TstpInit, JC!TtouInit, JC!Progs

LEMMA ScriptProg ==
    ASSUME ProgInv, SR!Next PROVE Runs("script") /\ mem'.prog = mem.prog /\ DOMAIN mem' = DOMAIN mem
  <1>1. Runs("script")
    BY DEF SR!Next, SR!Main, SR!Child, SR!Runs, SR!Prog, Runs
  <1>2. \/ UNCHANGED mem
        \/ \E h \in BOOLEAN : mem' = [mem EXCEPT !.handler = h]
        \/ \E x : mem' = [mem EXCEPT !.end = x]
        \/ \E x : mem' = [mem EXCEPT !.ready = x]
        \/ \E x : mem' = [mem EXCEPT !.buf = x]
        \/ \E x : mem' = [mem EXCEPT !.screen = x]
        \/ \E x : mem' = [mem EXCEPT !.file = x]
    BY DEF SR!Next, SR!Main, SR!Child, SR!script, SR!child, SR!ptyMasterOpen, SR!Granted, SR!ptyFork,
           SR!OpenTypescript, SR!SetRaw, SR!Atexit, SR!Select, SR!SelectFails, SR!ReadStdin, SR!WriteMaster,
           SR!ReadMaster, SR!WriteStdout, SR!WriteFile, SR!ErrExit, SR!Exit, SR!Setsid, SR!OpenSlave,
           SR!Exec, SR!ShellExit, SR!Hangup, SR!ShellRead, SR!ShellWrite, SR!Type, SR!Kill
  <1> QED BY <1>1, <1>2 DEF ProgInv

LEMMA SessionsProg ==
    ASSUME ProgInv, SS!Next
    PROVE  /\ mem.prog \in {"orphaned_pgrp", "daemon"} \cup SS!HupProgs
           /\ mem'.prog = mem.prog /\ DOMAIN mem' = DOMAIN mem
  <1>1. ASSUME SS!OrphanNext
        PROVE  Runs("orphaned_pgrp") /\ mem'.prog = mem.prog /\ DOMAIN mem' = DOMAIN mem
    BY <1>1 DEF ProgInv, Runs, SS!Runs, SS!OrphanNext, SS!Parent, SS!parent, SS!Child, SS!child,
       SS!OrphanClock,
       SS!OrphanIdle, SS!machine, SS!OrphanFork, SS!OrphanForkedAll, SS!Exit, SS!RaiseStop, SS!OrphanAlarm,
       SS!Pause, SS!Resumed, SS!Handler, SS!OrphanAlarmExpires
  <1>2. ASSUME SS!HupNext
        PROVE  mem.prog \in SS!HupProgs /\ mem'.prog = mem.prog /\ DOMAIN mem' = DOMAIN mem
    <2>1. mem.prog \in SS!HupProgs
      BY <1>2 DEF SS!HupNext, SS!Process, SS!HupClock, SS!HupIdle, SS!HupProgs, SS!Runs
    <2>2. \/ UNCHANGED mem
          \/ \E x : mem' = [mem EXCEPT !.handles = x]
          \/ \E x, y : mem' = [mem EXCEPT !.next = x, !.handles = y]
          \/ \E x : mem' = [mem EXCEPT !.moved = x]
          \/ \E x : mem' = [mem EXCEPT !.said = x]
      BY <1>2 DEF SS!HupNext, SS!Process, SS!HupClock, SS!HupIdle, SS!machine, SS!catch_SIGHUP,
         SS!disc_SIGHUP, SS!sighup_process, SS!Deliver, SS!HupAlarmExpires, SS!Disconnect, SS!Sigaction,
         SS!HupFork, SS!Setpgid, SS!HupAlarm, SS!Ends, SS!ForkFails, SS!HupForkedAll
    <2> QED BY <2>1, <2>2 DEF ProgInv
  <1>3. ASSUME SS!DaemonNext
        PROVE  Runs("daemon") /\ mem'.prog = mem.prog /\ DOMAIN mem' = DOMAIN mem
    BY <1>3 DEF ProgInv, Runs, SS!Runs, SS!DaemonNext, SS!Returned, SS!machine, SS!becomeDaemon,
       SS!DaemonFork,
       SS!Setsid, SS!ForkAgain, SS!Umask, SS!Chdir, SS!CloseFiles, SS!ReopenStdin, SS!DupStdFds, SS!NoReopen,
       SS!Fails, SS!Return
  <1> QED BY <1>1, <1>2, <1>3 DEF SS!Next, Runs

LEMMA JobProg ==
    ASSUME ProgInv, JC!Next
    PROVE  mem.prog \in JC!Progs /\ mem'.prog = mem.prog /\ DOMAIN mem' = DOMAIN mem
  <1>1. mem.prog \in JC!Progs
    BY SMTT(40) DEF JC!Next, JC!Job, JC!Program, JC!User, JC!Waiting, JC!Progs, JC!Runs
  <1>2. \/ UNCHANGED mem
        \/ \E p, x : mem' = [mem EXCEPT !.num[p] = x]
        \/ \E x : mem' = [mem EXCEPT !.tstp = x]
        \/ \E x : mem' = [mem EXCEPT !.late = x]
        \/ \E x : mem' = [mem EXCEPT !.fg = x]
    BY DEF JC!Next, JC!Job, JC!job_mon, JC!Setup, JC!ReadNum, JC!WriteNum, JC!Handler, JC!RaiseStop,
       JC!Program, JC!handling_SIGTSTP, JC!Sigaction, JC!tstpHandler, JC!SetDefault, JC!Raise, JC!Unblock,
       JC!Reblock, JC!Handle, JC!Return, JC!Step, JC!Deliver, JC!sigttou, JC!TtouFork, JC!Setpgid, JC!Stty,
       JC!TtouWait, JC!User, JC!JobSignal, JC!TstpSignal, JC!TtouSignal, JC!Waiting, JC!machine
  <1> QED BY <1>1, <1>2 DEF ProgInv

LEMMA StepProg ==
    ASSUME ProgInv, [MCNext]_<<machine, vars>>
    PROVE  ProgInv' /\ mem'.prog = mem.prog
  BY ScriptProg, SessionsProg, JobProg DEF MCNext, ProgInv, machine
-----------------------------------------------------------------------------
(* script *)
ShellLabels == {"unborn", "born", "slave", "exec", "run", "exit"}

ScriptType ==
    /\ DOMAIN mem = {"prog", "dump", "handler", "ready", "buf", "screen", "file", "end"}
    /\ mem.screen \in Seq(Nat) /\ mem.file \in Seq(Nat)
    /\ DOMAIN at = {"script", "shell"} /\ at.shell \in ShellLabels
    /\ DOMAIN os = {"tty", "keys", "typed", "input", "output", "wrote", "slave", "master"}
    /\ os.output \in Seq(Nat) /\ os.wrote \in Nat

(* The slave is open while the shell runs, and closed for ever after. *)
SlaveInv ==
    /\ at.script \in {"start", "granting", "fork"} => at.shell = "unborn"
    /\ at.shell \in {"unborn", "born", "slave"} => os.slave = "new"
    /\ at.shell \in {"exec", "run"} => os.slave = "open"

(* select() has found something to read on the master, and only script     *)
(* takes it away.                                                          *)
ReadyInv ==
    /\ at.script \in {"stdin", "write", "master"} =>
          ("master" \in mem.ready => os.output # <<>> \/ os.slave = "closed")
    /\ at.script \in {"select", "stdin", "write", "master", "stdout", "file"} => mem.handler

(* What the shell wrote is on the screen, in the buffer or in the queue,   *)
(* in this order.                                                          *)
Held == IF at.script = "stdout" THEN 1 ELSE 0

Numbered(s, n) == \A k \in 1 .. Len(s) : s[k] = n + k

OutputInv ==
    /\ Numbered(mem.screen, 0) /\ Len(mem.screen) <= os.wrote
    /\ at.script # "exit" =>
          /\ os.wrote = Len(mem.screen) + Held + Len(os.output)
          /\ Numbered(os.output, Len(mem.screen) + Held)
          /\ mem.end = "running"

(* The typescript follows the screen. *)
FileInv ==
    /\ at.script = "stdout" => mem.buf = <<Len(mem.screen) + 1>>
    /\ at.script = "file" => /\ Len(mem.screen) > 0 /\ mem.file = SR!Front(mem.screen)
                             /\ mem.buf = <<Len(mem.screen)>>
    /\ at.script \notin {"file", "exit"} => mem.file = mem.screen
    /\ at.script = "exit" => mem.file = mem.screen \/ mem.file = SR!Front(mem.screen)

EndInv ==
    /\ mem.end = "eof" => /\ mem.file = mem.screen /\ Len(mem.screen) = os.wrote
                          /\ os.slave = "closed" /\ at.shell = "exit" /\ os.tty = "user"
    /\ mem.end = "error" /\ mem.handler => os.tty = "user"

ScriptParts == ScriptType /\ SlaveInv /\ ReadyInv /\ OutputInv /\ FileInv /\ EndInv

ScriptInv == Runs("script") => ScriptParts
LEMMA PushOne ==
    ASSUME NEW s \in Seq(Nat), NEW e \in Nat
    PROVE  /\ s \o <<e>> \in Seq(Nat) /\ Len(s \o <<e>>) = Len(s) + 1
           /\ \A k \in 1 .. Len(s) : (s \o <<e>>)[k] = s[k]
           /\ (s \o <<e>>)[Len(s) + 1] = e
           /\ SR!Front(s \o <<e>>) = s
  <1>1. /\ s \o <<e>> \in Seq(Nat) /\ Len(s \o <<e>>) = Len(s) + 1
        /\ \A k \in 1 .. Len(s) : (s \o <<e>>)[k] = s[k]
        /\ (s \o <<e>>)[Len(s) + 1] = e
    OBVIOUS
  <1>2. SR!Front(s \o <<e>>) = SubSeq(s \o <<e>>, 1, Len(s))
    BY <1>1 DEF SR!Front
  <1>3. SubSeq(s \o <<e>>, 1, Len(s)) = s
    OBVIOUS
  <1> QED BY <1>1, <1>2, <1>3

LEMMA NumberedFacts ==
    ASSUME NEW s \in Seq(Nat), NEW n \in Nat, Numbered(s, n)
    PROVE  /\ Numbered(s \o <<n + Len(s) + 1>>, n)
           /\ s # <<>> => /\ Head(s) = n + 1 /\ Tail(s) \in Seq(Nat) /\ Len(Tail(s)) = Len(s) - 1
                          /\ Len(s) \in Nat \ {0} /\ Numbered(Tail(s), n + 1)
  <1>1. Numbered(s \o <<n + Len(s) + 1>>, n)
    <2>1. n + Len(s) + 1 \in Nat
      OBVIOUS
    <2>2. \A k \in 1 .. Len(s) + 1 : (s \o <<n + Len(s) + 1>>)[k] = n + k
      <3>1. \A k \in 1 .. Len(s) : (s \o <<n + Len(s) + 1>>)[k] = n + k
        BY <2>1, PushOne DEF Numbered
      <3>2. (s \o <<n + Len(s) + 1>>)[Len(s) + 1] = n + (Len(s) + 1)
        BY <2>1, PushOne
      <3>3. \A k \in 1 .. Len(s) + 1 : k \in 1 .. Len(s) \/ k = Len(s) + 1
        OBVIOUS
      <3> QED BY <3>1, <3>2, <3>3
    <2> QED BY <2>1, <2>2, PushOne DEF Numbered
  <1>2. ASSUME s # <<>>
        PROVE  /\ Head(s) = n + 1 /\ Tail(s) \in Seq(Nat) /\ Len(Tail(s)) = Len(s) - 1
               /\ Len(s) \in Nat \ {0} /\ Numbered(Tail(s), n + 1)
    <2>1. /\ Head(s) = s[1] /\ Tail(s) \in Seq(Nat) /\ Len(Tail(s)) = Len(s) - 1 /\ Len(s) \in Nat \ {0}
          /\ \A k \in 1 .. Len(s) - 1 : Tail(s)[k] = s[k + 1]
      BY <1>2
    <2>2. \A k \in 1 .. Len(s) - 1 : Tail(s)[k] = n + 1 + k
      <3> SUFFICES ASSUME NEW k \in 1 .. Len(s) - 1 PROVE Tail(s)[k] = n + 1 + k
        OBVIOUS
      <3>1. k + 1 \in 1 .. Len(s) /\ k \in Nat
        BY <2>1
      <3>2. s[k + 1] = n + (k + 1)
        BY <3>1, SMTT(40) DEF Numbered
      <3> QED BY <2>1, <3>1, <3>2
    <2> QED BY <2>1, <2>2 DEF Numbered
  <1> QED BY <1>1, <1>2

LEMMA FrontLast ==
    ASSUME NEW s \in Seq(Nat), Len(s) > 0
    PROVE  SR!Front(s) \o <<s[Len(s)]>> = s
  <1>1. SR!Front(s) = SubSeq(s, 1, Len(s) - 1)
    BY DEF SR!Front
  <1>2. SubSeq(s, 1, Len(s) - 1) \o <<s[Len(s)]>> = s
    OBVIOUS
  <1> QED BY <1>1, <1>2

LEMMA InitScript == MCInit => ScriptInv
  <1> SUFFICES ASSUME MCInit, Runs("script") PROVE ScriptParts
    BY DEF ScriptInv
  <1>1. PICK dump \in BOOLEAN :
           /\ mem = [prog |-> "script", dump |-> dump, handler |-> FALSE, ready |-> {},
                     buf |-> <<>>, screen |-> <<>>, file |-> <<>>, end |-> "running"]
           /\ at = [script |-> "start", shell |-> "unborn"]
           /\ os = [tty |-> "user", keys |-> <<>>, typed |-> 0, input |-> <<>>, output |-> <<>>,
                    wrote |-> 0, slave |-> "new", master |-> {}]
    BY DEF MCInit, NotRunning, SR!Init, SR!Prog, SS!Init, SS!OrphanInit, SS!HupInit, SS!HupProgs,
           SS!DaemonInit, JC!Init, JC!JobInit, JC!TstpInit, JC!TtouInit, Runs
  <1>2. ScriptType
    BY <1>1 DEF ScriptType, ShellLabels
  <1>3. SlaveInv /\ ReadyInv /\ EndInv /\ FileInv
    BY <1>1 DEF SlaveInv, ReadyInv, EndInv, FileInv
  <1>4. OutputInv
    BY <1>1 DEF OutputInv, Held, Numbered
  <1> QED BY <1>2, <1>3, <1>4 DEF ScriptParts

(* Every way in which script ends. *)
LEMMA ScriptEnds ==
    ASSUME ScriptParts, at.script # "exit", at' = [at EXCEPT !.script = "exit"],
           NEW how \in {"error", "abort", "stdin", "killed"}, mem' = [mem EXCEPT !.end = how],
           DOMAIN os' = DOMAIN os, os'.wrote = os.wrote, os'.slave = os.slave, os'.output = os.output,
           how = "error" => (mem.handler => os'.tty = "user")
    PROVE  ScriptParts'
  <1> USE DEF ScriptParts
  <1>1. /\ ScriptType' /\ at'.shell = at.shell /\ at'.script = "exit"
        /\ mem'.screen = mem.screen /\ mem'.file = mem.file /\ mem'.handler = mem.handler /\ mem'.end = how
    <2>1. DOMAIN at' = DOMAIN at /\ at'.shell = at.shell /\ at'.script = "exit"
      BY DEF ScriptType
    <2>2. /\ DOMAIN mem' = DOMAIN mem /\ mem'.screen = mem.screen /\ mem'.file = mem.file
          /\ mem'.handler = mem.handler /\ mem'.end = how
      BY DEF ScriptType
    <2> QED BY <2>1, <2>2 DEF ScriptType
  <1>2. SlaveInv' /\ ReadyInv'
    BY <1>1 DEF SlaveInv, ReadyInv
  <1>3. OutputInv'
    BY <1>1 DEF OutputInv
  <1>4. FileInv' /\ EndInv'
    BY <1>1 DEF FileInv, EndInv
  <1> QED BY <1>1, <1>2, <1>3, <1>4

LEMMA ScriptExits ==
    ASSUME ScriptParts, NEW l, l # "exit", NEW how \in {"error", "stdin"}, SR!Exit(l, how)
    PROVE  ScriptParts'
  <1>1. at.script # "exit" /\ at' = [at EXCEPT !.script = "exit"] /\ mem' = [mem EXCEPT !.end = how]
    BY DEF SR!Exit, SR!Move
  <1>2. /\ DOMAIN os' = DOMAIN os /\ os'.wrote = os.wrote /\ os'.slave = os.slave
        /\ os'.output = os.output /\ (mem.handler => os'.tty = "user")
    BY DEF SR!Exit, ScriptParts, ScriptType
  <1> QED BY <1>1, <1>2, ScriptEnds

LEMMA ScriptErrors ==
    ASSUME ScriptParts, NEW l, l # "exit", SR!ErrExit(l)
    PROVE  ScriptParts'
  <1>1. CASE SR!Exit(l, "error")
    BY <1>1, ScriptExits
  <1>2. CASE /\ SR!Move("script", l, "exit") /\ mem' = [mem EXCEPT !.end = "abort"]
             /\ os' = [os EXCEPT !.master = @ \ {"script"}]
    <2>1. at.script # "exit" /\ at' = [at EXCEPT !.script = "exit"]
      BY <1>2 DEF SR!Move
    <2>2. /\ DOMAIN os' = DOMAIN os /\ os'.wrote = os.wrote /\ os'.slave = os.slave
          /\ os'.output = os.output
      BY <1>2 DEF ScriptParts, ScriptType
    <2> QED BY <1>2, <2>1, <2>2, ScriptEnds
  <1> QED BY <1>1, <1>2 DEF SR!ErrExit
(* A step that moves no output.  Move leaves the other process alone. *)
LEMMA ScriptQuiet ==
    ASSUME ScriptParts,
           DOMAIN mem' = DOMAIN mem, DOMAIN at' = DOMAIN at, DOMAIN os' = DOMAIN os,
           mem'.screen = mem.screen, mem'.file = mem.file, mem'.end = mem.end,
           os'.output = os.output, os'.wrote = os.wrote,
           \/ at'.script = at.script /\ mem'.buf = mem.buf /\ mem'.handler = mem.handler /\ os'.tty = os.tty
           \/ {at.script, at'.script} \cap {"stdout", "file", "exit"} = {},
           at'.shell \in ShellLabels, mem.end = "eof" => at'.shell = at.shell /\ os'.slave = os.slave
    PROVE  ScriptType' /\ OutputInv' /\ FileInv' /\ EndInv'
  <1> USE DEF ScriptParts
  <1>1. ScriptType'
    BY DEF ScriptType
  <1>2. Held' = Held /\ (at'.script = "exit" <=> at.script = "exit")
    BY DEF Held
  <1>3. OutputInv'
    BY <1>2 DEF OutputInv
  <1>4. FileInv'
    BY DEF FileInv
  <1>5. EndInv'
    BY <1>2 DEF EndInv, OutputInv
  <1> QED BY <1>1, <1>3, <1>4, <1>5

LEMMA StepSetup ==
    ASSUME ScriptParts,
           SR!ptyMasterOpen \/ SR!Granted \/ SR!ptyFork \/ SR!OpenTypescript \/ SR!SetRaw \/ SR!Atexit
    PROVE  ScriptParts'
  <1>1. CASE \E l \in {"start", "granting", "fork", "open", "atexit"} : SR!ErrExit(l)
    BY <1>1, ScriptErrors
  <1>2. CASE ~ \E l \in {"start", "granting", "fork", "open", "atexit"} : SR!ErrExit(l)
    <2>1. /\ DOMAIN mem' = DOMAIN mem /\ DOMAIN at' = DOMAIN at /\ DOMAIN os' = DOMAIN os
          /\ mem'.screen = mem.screen /\ mem'.file = mem.file /\ mem'.end = mem.end
          /\ os'.output = os.output /\ os'.wrote = os.wrote /\ os'.slave = os.slave
          /\ {at.script, at'.script} \cap {"stdout", "file", "exit"} = {} /\ at'.shell \in ShellLabels
      BY <1>2 DEF ShellLabels, ScriptParts, ScriptType, SR!ptyMasterOpen, SR!Granted, SR!ptyFork,
         SR!OpenTypescript,
         SR!SetRaw, SR!Atexit, SR!Move
    <2>2. mem.end # "eof"
      BY <2>1 DEF ScriptParts, OutputInv
    <2>3. ScriptType' /\ OutputInv' /\ FileInv' /\ EndInv'
      BY <2>1, <2>2, ScriptQuiet
    <2>4. SlaveInv' /\ ReadyInv'
      BY <1>2 DEF ScriptParts, ScriptType, SlaveInv, ReadyInv, SR!ptyMasterOpen, SR!Granted, SR!ptyFork,
         SR!OpenTypescript, SR!SetRaw, SR!Atexit, SR!Move
    <2> QED BY <2>3, <2>4 DEF ScriptParts
  <1> QED BY <1>1, <1>2

LEMMA StepStdin ==
    ASSUME ScriptParts, SR!Select \/ SR!ReadStdin \/ SR!WriteMaster
    PROVE  ScriptParts'
  <1>1. CASE SR!ErrExit("write") \/ SR!Exit("stdin", "stdin")
    BY <1>1, ScriptErrors, ScriptExits
  <1>2. CASE ~SR!ErrExit("write") /\ ~SR!Exit("stdin", "stdin")
    <2>1. /\ DOMAIN mem' = DOMAIN mem /\ DOMAIN at' = DOMAIN at /\ DOMAIN os' = DOMAIN os
          /\ mem'.screen = mem.screen /\ mem'.file = mem.file /\ mem'.end = mem.end
          /\ os'.output = os.output /\ os'.wrote = os.wrote /\ os'.slave = os.slave
          /\ {at.script, at'.script} \cap {"stdout", "file", "exit"} = {}
          /\ at'.shell = at.shell /\ at.shell \in ShellLabels
      BY <1>2 DEF ScriptParts, ScriptType, SR!Select, SR!ReadStdin, SR!WriteMaster, SR!Move
    <2>2. ScriptType' /\ OutputInv' /\ FileInv' /\ EndInv'
      BY <2>1, ScriptQuiet
    <2>3. SlaveInv' /\ mem'.handler = mem.handler /\ mem.handler
      BY <1>2, <2>1 DEF ScriptParts, ScriptType, SlaveInv, ReadyInv, SR!Select, SR!ReadStdin,
         SR!WriteMaster, SR!Move
    <2>4. ASSUME "master" \in mem'.ready PROVE os.output # <<>> \/ os.slave = "closed"
      <3>1. CASE SR!Select
        BY <2>4, <3>1 DEF ScriptParts, ScriptType, SR!Select, SR!HungUp
      <3>2. CASE ~SR!Select
        BY <1>2, <2>4, <3>2 DEF ScriptParts, ScriptType, ReadyInv, SR!ReadStdin, SR!WriteMaster, SR!Move
      <3> QED BY <3>1, <3>2
    <2> QED BY <2>1, <2>2, <2>3, <2>4 DEF ScriptParts, ReadyInv
  <1> QED BY <1>1, <1>2

LEMMA StepReadMaster ==
    ASSUME ScriptParts, SR!ReadMaster
    PROVE  ScriptParts'
  <1> USE DEF ScriptParts
  <1>1. CASE "master" \notin mem.ready /\ SR!Move("script", "master", "select") /\ UNCHANGED <<mem, os>>
    <2>1. /\ DOMAIN at' = DOMAIN at /\ at.script = "master" /\ at'.script = "select" /\ at'.shell = at.shell
      BY <1>1 DEF ScriptType, SR!Move
    <2>2. ScriptType' /\ OutputInv' /\ FileInv' /\ EndInv'
      BY <1>1, <2>1, ScriptQuiet DEF ScriptType
    <2> QED BY <1>1, <2>1, <2>2 DEF SlaveInv, ReadyInv
  <1>2. CASE /\ "master" \in mem.ready /\ os.output # <<>>
             /\ SR!Move("script", "master", "stdout")
             /\ mem' = [mem EXCEPT !.buf = <<Head(os.output)>>]
             /\ os' = [os EXCEPT !.output = Tail(@)]
    <2>1. /\ DOMAIN at' = DOMAIN at /\ at.script = "master" /\ at'.script = "stdout" /\ at'.shell = at.shell
          /\ DOMAIN mem' = DOMAIN mem /\ mem'.screen = mem.screen /\ mem'.file = mem.file
          /\ mem'.handler = mem.handler /\ mem'.end = mem.end /\ mem'.buf = <<Head(os.output)>>
          /\ DOMAIN os' = DOMAIN os /\ os'.output = Tail(os.output) /\ os'.wrote = os.wrote
          /\ os'.slave = os.slave /\ os'.tty = os.tty
      BY <1>2 DEF ScriptType, SR!Move
    <2>2. Len(mem.screen) \in Nat /\ Len(os.output) \in Nat
      BY DEF ScriptType
    <2>3. Held = 0 /\ Held' = 1
      BY <2>1 DEF Held
    <2>4. Numbered(os.output, Len(mem.screen)) /\ os.wrote = Len(mem.screen) + Len(os.output)
      <3>1. Numbered(os.output, Len(mem.screen) + 0)
            /\ os.wrote = Len(mem.screen) + 0 + Len(os.output)
        BY <2>1, <2>3 DEF OutputInv
      <3>2. Len(mem.screen) + 0 = Len(mem.screen)
        BY ONLY <2>2
      <3> QED BY <3>1, <3>2
    <2>5. /\ Head(os.output) = Len(mem.screen) + 1 /\ os'.output \in Seq(Nat)
          /\ Len(os'.output) = Len(os.output) - 1 /\ Len(os.output) \in Nat \ {0}
          /\ Numbered(os'.output, Len(mem.screen) + 1)
      <3>1. os.output \in Seq(Nat) /\ os.output # <<>>
        BY <1>2 DEF ScriptType
      <3>2. /\ Head(os.output) = Len(mem.screen) + 1 /\ Tail(os.output) \in Seq(Nat)
            /\ Len(Tail(os.output)) = Len(os.output) - 1 /\ Len(os.output) \in Nat \ {0}
            /\ Numbered(Tail(os.output), Len(mem.screen) + 1)
        BY <2>2, <2>4, <3>1, NumberedFacts
      <3> QED BY <2>1, <3>2
    <2>6. os.wrote = Len(mem.screen) + 1 + Len(os'.output)
      <3>1. \A a, b, n \in Nat : b = a - 1 => n + a = n + 1 + b
        OBVIOUS
      <3>2. Len(os'.output) \in Nat
        BY <2>5
      <3> QED BY <2>2, <2>4, <2>5, <3>1, <3>2
    <2>7. ScriptType' /\ SlaveInv' /\ ReadyInv' /\ EndInv'
      BY <2>1, <2>5 DEF ScriptType, SlaveInv, ReadyInv, EndInv, OutputInv
    <2>8. OutputInv'
      BY <2>1, <2>3, <2>5, <2>6 DEF OutputInv
    <2>9. FileInv'
      BY <2>1, <2>5 DEF FileInv
    <2> QED BY <2>7, <2>8, <2>9
  <1>3. CASE "master" \in mem.ready /\ os.output = <<>> /\ SR!Exit("master", "eof")
    <2>1. /\ DOMAIN at' = DOMAIN at /\ at.script = "master" /\ at'.script = "exit" /\ at'.shell = at.shell
          /\ DOMAIN mem' = DOMAIN mem /\ mem'.screen = mem.screen /\ mem'.file = mem.file
          /\ mem'.handler = mem.handler /\ mem'.end = "eof"
          /\ DOMAIN os' = DOMAIN os /\ os'.output = os.output /\ os'.wrote = os.wrote
          /\ os'.slave = os.slave /\ (mem.handler => os'.tty = "user")
      BY <1>3 DEF ScriptType, SR!Exit, SR!Move
    <2>2. os.slave = "closed" /\ mem.handler /\ mem.file = mem.screen
      BY <1>3, <2>1 DEF ReadyInv, FileInv
    <2>3. at.shell = "exit"
      BY <2>2 DEF SlaveInv, ScriptType, ShellLabels
    <2>4. Len(mem.screen) = os.wrote
      BY <1>3, <2>1 DEF OutputInv, Held, ScriptType
    <2>5. ScriptType' /\ SlaveInv' /\ ReadyInv' /\ EndInv' /\ FileInv'
      BY <2>1, <2>2, <2>3, <2>4 DEF ScriptType, SlaveInv, ReadyInv, EndInv, FileInv
    <2>6. OutputInv'
      BY <2>1 DEF OutputInv
    <2> QED BY <2>5, <2>6
  <1> QED BY <1>1, <1>2, <1>3 DEF SR!ReadMaster
LEMMA StepWriteStdout ==
    ASSUME ScriptParts, SR!WriteStdout
    PROVE  ScriptParts'
  <1> USE DEF ScriptParts
  <1>1. CASE SR!ErrExit("stdout")
    BY <1>1, ScriptErrors
  <1>2. CASE /\ SR!Move("script", "stdout", "file")
             /\ mem' = [mem EXCEPT !.screen = @ \o mem.buf] /\ UNCHANGED os
    <2>1. /\ DOMAIN at' = DOMAIN at /\ at.script = "stdout" /\ at'.script = "file" /\ at'.shell = at.shell
          /\ DOMAIN mem' = DOMAIN mem /\ mem'.screen = mem.screen \o mem.buf /\ mem'.file = mem.file
          /\ mem'.handler = mem.handler /\ mem'.end = mem.end /\ mem'.buf = mem.buf
      BY <1>2 DEF ScriptType, SR!Move
    <2>2. Len(mem.screen) \in Nat /\ Len(os.output) \in Nat /\ mem.screen \in Seq(Nat)
      BY DEF ScriptType
    <2>3. Held = 1 /\ Held' = 0
      BY <2>1 DEF Held
    <2>4. mem.buf = <<Len(mem.screen) + 1>> /\ mem.file = mem.screen /\ mem.end = "running"
      BY <2>1 DEF FileInv, OutputInv
    <2>5. /\ mem'.screen \in Seq(Nat) /\ Len(mem'.screen) = Len(mem.screen) + 1
          /\ SR!Front(mem'.screen) = mem.screen
      BY <2>1, <2>2, <2>4, PushOne
    <2>6. Numbered(mem'.screen, 0)
      <3>1. Numbered(mem.screen, 0)
        BY DEF OutputInv
      <3>2. Numbered(mem.screen \o <<0 + Len(mem.screen) + 1>>, 0)
        BY <2>2, <3>1, NumberedFacts
      <3> QED BY <2>1, <2>2, <2>4, <3>2
    <2>7. /\ os.wrote = Len(mem'.screen) + 0 + Len(os.output)
          /\ Numbered(os.output, Len(mem'.screen) + 0) /\ Len(mem'.screen) <= os.wrote
      <3>1. os.wrote = Len(mem.screen) + 1 + Len(os.output) /\ Numbered(os.output, Len(mem.screen) + 1)
        BY <2>1, <2>3 DEF OutputInv
      <3>2. Len(mem'.screen) + 0 = Len(mem.screen) + 1
        BY ONLY <2>2, <2>5
      <3>3. os.wrote = Len(mem'.screen) + 0 + Len(os.output) /\ Numbered(os.output, Len(mem'.screen) + 0)
        BY ONLY <3>1, <3>2, Zenon
      <3>4. Len(mem'.screen) \in Nat
        BY <2>5
      <3>5. \A a, b \in Nat : a <= a + 0 + b
        OBVIOUS
      <3> QED BY ONLY <2>2, <3>3, <3>4, <3>5
    <2>8. OutputInv'
      BY <1>2, <2>1, <2>3, <2>4, <2>6, <2>7 DEF OutputInv
    <2>9. FileInv'
      BY <2>1, <2>2, <2>4, <2>5 DEF FileInv
    <2>10. ScriptType' /\ SlaveInv' /\ ReadyInv' /\ EndInv'
      BY <1>2, <2>1, <2>4, <2>5 DEF ScriptType, SlaveInv, ReadyInv, EndInv
    <2> QED BY <2>8, <2>9, <2>10
  <1> QED BY <1>1, <1>2 DEF SR!WriteStdout

LEMMA StepWriteFile ==
    ASSUME ScriptParts, SR!WriteFile
    PROVE  ScriptParts'
  <1> USE DEF ScriptParts
  <1>1. CASE SR!ErrExit("file")
    BY <1>1, ScriptErrors
  <1>2. CASE /\ SR!Move("script", "file", "select")
             /\ mem' = [mem EXCEPT !.file = @ \o mem.buf] /\ UNCHANGED os
    <2>1. /\ DOMAIN at' = DOMAIN at /\ at.script = "file" /\ at'.script = "select" /\ at'.shell = at.shell
          /\ DOMAIN mem' = DOMAIN mem /\ mem'.file = mem.file \o mem.buf /\ mem'.screen = mem.screen
          /\ mem'.handler = mem.handler /\ mem'.end = mem.end
      BY <1>2 DEF ScriptType, SR!Move
    <2>2. Len(mem.screen) \in Nat /\ mem.screen \in Seq(Nat)
      BY DEF ScriptType
    <2>3. /\ Len(mem.screen) > 0 /\ mem.file = SR!Front(mem.screen) /\ mem.buf = <<Len(mem.screen)>>
          /\ mem.end = "running"
      BY <2>1 DEF FileInv, OutputInv
    <2>4. mem.screen[Len(mem.screen)] = 0 + Len(mem.screen)
      BY <2>2, <2>3 DEF OutputInv, Numbered
    <2>5. mem'.file = mem.screen
      BY <2>1, <2>2, <2>3, <2>4, FrontLast
    <2>6. Held = 0 /\ Held' = 0
      BY <2>1 DEF Held
    <2>7. OutputInv'
      BY <1>2, <2>1, <2>6 DEF OutputInv
    <2>8. ScriptType' /\ SlaveInv' /\ ReadyInv' /\ EndInv' /\ FileInv'
      BY <1>2, <2>1, <2>2, <2>3, <2>5 DEF ScriptType, SlaveInv, ReadyInv, EndInv, FileInv
    <2> QED BY <2>7, <2>8
  <1> QED BY <1>1, <1>2 DEF SR!WriteFile

(* The shell, before and after it writes. *)
LEMMA StepShell ==
    ASSUME ScriptParts, SR!Setsid \/ SR!OpenSlave \/ SR!Exec \/ SR!ShellExit("run") \/ SR!ShellRead
    PROVE  ScriptParts'
  <1>1. /\ DOMAIN at' = DOMAIN at /\ DOMAIN os' = DOMAIN os /\ UNCHANGED mem /\ at'.script = at.script
        /\ os'.output = os.output /\ os'.wrote = os.wrote /\ os'.tty = os.tty
        /\ at'.shell \in ShellLabels /\ at.shell # "exit"
    BY DEF ScriptParts, ScriptType, ShellLabels, SR!Setsid, SR!OpenSlave, SR!Exec, SR!ShellExit,
       SR!ShellRead, SR!Move
  <1>2. mem.end # "eof"
    BY <1>1 DEF ScriptParts, EndInv
  <1>3. ScriptType' /\ OutputInv' /\ FileInv' /\ EndInv'
    BY <1>1, <1>2, ScriptQuiet
  <1>4. os.slave = "closed" => os'.slave = "closed"
    BY DEF ScriptParts, ScriptType, SlaveInv, SR!Setsid, SR!OpenSlave, SR!Exec, SR!ShellExit,
       SR!ShellRead, SR!Move
  <1>5. SlaveInv'
    BY DEF ScriptParts, ScriptType, SlaveInv, SR!Setsid, SR!OpenSlave, SR!Exec, SR!ShellExit,
       SR!ShellRead, SR!Move
  <1>6. ReadyInv'
    BY <1>1, <1>4 DEF ScriptParts, ReadyInv
  <1> QED BY <1>3, <1>5, <1>6 DEF ScriptParts

LEMMA StepShellWrite ==
    ASSUME ScriptParts, SR!ShellWrite
    PROVE  ScriptParts'
  <1> USE DEF ScriptParts
  <1>1. /\ DOMAIN os' = DOMAIN os /\ os'.output = Append(os.output, os.wrote + 1)
        /\ os'.wrote = os.wrote + 1 /\ os'.slave = os.slave /\ os'.tty = os.tty /\ UNCHANGED <<at, mem>>
        /\ at.shell = "run"
    BY DEF ScriptType, SR!ShellWrite
  <1>2. /\ os.output \in Seq(Nat) /\ os.wrote \in Nat /\ Len(mem.screen) \in Nat /\ Len(os.output) \in Nat
        /\ Held \in Nat
    BY DEF ScriptType, Held
  <1>3. Append(os.output, os.wrote + 1) = os.output \o <<os.wrote + 1>>
    BY <1>2
  <1>4. /\ os'.output \in Seq(Nat) /\ Len(os'.output) = Len(os.output) + 1 /\ os'.output # <<>>
        /\ os'.wrote \in Nat
    BY <1>1, <1>2
  <1>5. mem.end # "eof"
    BY <1>1 DEF EndInv
  <1>6. ScriptType' /\ SlaveInv' /\ ReadyInv' /\ FileInv' /\ EndInv'
    BY <1>1, <1>4, <1>5 DEF ScriptType, SlaveInv, ReadyInv, FileInv, EndInv
  <1>7. ASSUME at.script # "exit"
        PROVE  /\ os'.wrote = Len(mem.screen) + Held + Len(os'.output)
               /\ Numbered(os'.output, Len(mem.screen) + Held)
    <2>1. os.wrote = Len(mem.screen) + Held + Len(os.output) /\ Numbered(os.output, Len(mem.screen) + Held)
      BY <1>7 DEF OutputInv
    <2>2. Len(mem.screen) + Held \in Nat
      BY <1>2
    <2>3. Numbered(os.output \o <<Len(mem.screen) + Held + Len(os.output) + 1>>, Len(mem.screen) + Held)
      BY <1>2, <2>1, <2>2, NumberedFacts
    <2>4. Numbered(os'.output, Len(mem.screen) + Held)
      BY <1>1, <1>3, <2>1, <2>3, Zenon
    <2>5. \A a, b, d \in Nat : d = b + 1 => a + b + 1 = a + d
      OBVIOUS
    <2>6. os'.wrote = Len(mem.screen) + Held + Len(os'.output)
      <3>1. Len(os'.output) \in Nat /\ Len(os'.output) = Len(os.output) + 1 /\ Len(os.output) \in Nat
        BY <1>2, <1>4
      <3>2. os'.wrote = Len(mem.screen) + Held + Len(os.output) + 1
        BY <1>1, <2>1, Zenon
      <3>3. Len(mem.screen) + Held + Len(os.output) + 1 = Len(mem.screen) + Held + Len(os'.output)
        BY <2>2, <2>5, <3>1
      <3> QED BY ONLY <3>2, <3>3, Zenon
    <2> QED BY <2>4, <2>6
  <1>8. Len(mem.screen) <= os'.wrote
    BY <1>1, <1>2 DEF OutputInv
  <1>9. Held' = Held
    BY <1>1 DEF Held
  <1>10. OutputInv'
    BY <1>1, <1>7, <1>8, <1>9 DEF OutputInv
  <1> QED BY <1>6, <1>10

LEMMA StepOutside ==
    ASSUME ScriptParts, SR!Type \/ SR!Kill \/ SR!SelectFails
    PROVE  ScriptParts'
  <1>1. CASE SR!Type
    <2>1. /\ DOMAIN os' = DOMAIN os /\ UNCHANGED <<at, mem>> /\ os'.slave = os.slave
          /\ os'.output = os.output /\ os'.wrote = os.wrote /\ os'.tty = os.tty
      BY <1>1 DEF ScriptParts, ScriptType, SR!Type
    <2>2. ScriptType' /\ OutputInv' /\ FileInv' /\ EndInv'
      BY <2>1, ScriptQuiet DEF ScriptParts, ScriptType
    <2> QED BY <2>1, <2>2 DEF ScriptParts, SlaveInv, ReadyInv
  <1>2. CASE SR!Kill
    <2>1. /\ DOMAIN os' = DOMAIN os /\ os'.slave = os.slave
          /\ os'.output = os.output /\ os'.wrote = os.wrote
          /\ at.script # "exit" /\ at' = [at EXCEPT !.script = "exit"] /\ mem' = [mem EXCEPT !.end = "killed"]
      BY <1>2 DEF ScriptParts, ScriptType, SR!Kill, SR!Ended
    <2> QED BY <2>1, ScriptEnds
  <1>3. CASE SR!SelectFails
    BY <1>3, ScriptErrors DEF SR!SelectFails
  <1> QED BY <1>1, <1>2, <1>3

LEMMA StepScript == ProgInv /\ ScriptInv /\ [MCNext]_<<machine, vars>> => ScriptInv'
  <1> SUFFICES ASSUME ProgInv, ScriptInv, [MCNext]_<<machine, vars>>, Runs("script")' PROVE ScriptParts'
    BY DEF ScriptInv
  <1>1. Runs("script") /\ ScriptParts
    BY StepProg DEF Runs, ScriptInv
  <1>2. SR!Next \/ UNCHANGED machine
    BY <1>1, SessionsProg, JobProg DEF MCNext, Runs, machine, SS!HupProgs, JC!Progs
  <1>3. CASE SR!Next
    BY <1>1, <1>3, StepSetup, StepStdin, StepReadMaster, StepWriteStdout, StepWriteFile, StepShell,
       StepShellWrite, StepOutside
    DEF SR!Next, SR!Main, SR!script, SR!Child, SR!child, SR!Hangup
  <1>4. CASE UNCHANGED machine
    BY <1>1, <1>4 DEF machine, ScriptParts, ScriptType, SlaveInv, ReadyInv, OutputInv, Held, FileInv,
       EndInv
  <1> QED BY <1>2, <1>3, <1>4

(* script.c:75-94, ttyReset() at :16: the typescript and the screen hold   *)
(* what the shell wrote, in its order and from its start; all of it when   *)
(* the end of the shell ends script, and the user has his terminal back    *)
(* then, and after every error once the exit handler is there.             *)
THEOREM ScriptAlways == MCSpec => []ScriptTrue
  <1>1. MCInit => ProgInv /\ ScriptInv
    BY InitProg, InitScript
  <1>2. ProgInv /\ ScriptInv /\ [MCNext]_<<machine, vars>> => ProgInv' /\ ScriptInv'
    BY StepProg, StepScript
  <1>3. ScriptInv => ScriptTrue
    <2> SUFFICES ASSUME ScriptParts PROVE SR!TypescriptTrue /\ SR!TerminalBack
      BY DEF ScriptInv, ScriptTrue, SR!TypescriptTrue, SR!TerminalBack, Runs, SR!Runs, SR!Prog
    <2>1. mem.screen = [k \in 1 .. Len(mem.screen) |-> k]
      <3>1. \A k \in 1 .. Len(mem.screen) : mem.screen[k] = k
        BY DEF ScriptParts, OutputInv, Numbered, ScriptType
      <3>2. mem.screen = [k \in 1 .. Len(mem.screen) |-> mem.screen[k]]
        BY DEF ScriptParts, ScriptType
      <3> QED BY <3>1, <3>2
    <2> QED BY <2>1 DEF ScriptParts, OutputInv, FileInv, EndInv, SR!TypescriptTrue, SR!TerminalBack
  <1> QED BY <1>1, <1>2, <1>3, PTL DEF MCSpec
-----------------------------------------------------------------------------
(* orphaned_pgrp_SIGHUP *)
Both == {"SIGHUP", "SIGCONT"}

(* Nothing is sent before the parent ends, and a stopped child resumes     *)
(* with both signals pending or handled.                                   *)
OrphanParts ==
    /\ DOMAIN mem = {"prog", "kind", "j", "caught"} /\ mem.j \in Nat \ {0}
    /\ DOMAIN os = {"pending", "hungUp", "late", "alarm"}
    /\ DOMAIN at = 0 .. NumChildren
    /\ DOMAIN os.pending = SS!OrphanProcs /\ DOMAIN mem.caught = SS!OrphanProcs
    /\ at[0] # "exit" => \A p \in SS!OrphanProcs : os.pending[p] = {} /\ mem.caught[p] = {}
    /\ \A p \in SS!OrphanProcs : mem.kind[p] = "s" =>
          /\ at[p] \in {"unborn", "start", "stopped", "resumed", "exit"} /\ p \notin os.alarm
          /\ at[p] = "resumed" => os.hungUp /\ mem.caught[p] \cup os.pending[p] = Both
          /\ at[p] = "exit" => os.hungUp /\ mem.caught[p] = Both

OrphanInv == Runs("orphaned_pgrp") => OrphanParts

-----------------------------------------------------------------------------
(* catch_SIGHUP, disc_SIGHUP, sighup_process *)
HupType ==
    /\ DOMAIN mem = {"prog", "other", "moved", "handles", "next", "said"} /\ mem.next \in Nat \ {0}
    /\ DOMAIN os = {"pending", "alarm", "hup", "group", "settled"}
    /\ DOMAIN at = SS!HupProcs
    /\ mem.other \subseteq 1 .. HupChildren

(* Where each process can be. *)
HupPlace ==
    \A p \in SS!HupProcs :
        \/ at[p] \in SS!Gone
        \/ Runs("catch_SIGHUP") /\ p = 0 /\ at[p] \in {"sigaction", "fork", "alarm", "pause"}
        \/ Runs("catch_SIGHUP") /\ p # 0 /\ at[p] \in {"setpgid", "alarm", "pause"}
        \/ Runs("disc_SIGHUP") /\ p = 0 /\ at[p] \in {"fork", "alarm", "pause"}
        \/ Runs("disc_SIGHUP") /\ p # 0 /\ at[p] \in {"setpgid", "sigaction", "alarm", "pause"}
        \/ Runs("sighup_process") /\ p = 0 /\ at[p] \in {"sigaction", "print", "pause"}

(* Who has a handler, and who has moved. *)
HupHandles ==
    /\ Runs("disc_SIGHUP") => 0 \notin mem.handles
    /\ \A p \in SS!HupProcs :
          /\ Runs("catch_SIGHUP") /\ at[p] \notin SS!Gone \cup {"sigaction"} => p \in mem.handles
          /\ at[p] \in {"print", "alarm", "pause"} => p \in mem.handles \/ (Runs("disc_SIGHUP") /\ p = 0)
          /\ at[p] \in {"sigaction", "alarm", "pause"} /\ p \in mem.other => p \in mem.moved

(* SIGHUP is sent to the group once. *)
HupSent ==
    /\ ~os.hup => os.group = {} /\ mem.said = {} /\ ~os.settled
    /\ Runs("disc_SIGHUP") => (os.hup => at[0] \in SS!Gone)
    /\ os.pending \subseteq os.group \cup (IF Runs("disc_SIGHUP") THEN {0} ELSE {})
    /\ os.group \subseteq SS!HupProcs /\ mem.said \subseteq os.group

HupSettled ==
    os.settled =>
        /\ \A p \in SS!HupProcs : at[p] \in {"pause"} \cup SS!Gone
        /\ os.group \subseteq mem.handles /\ os.group \cap mem.other = {}
        /\ \A p \in os.group : /\ p \in os.pending \cup mem.said \/ at[p] = "alarmed"
                               /\ at[p] # "killed"

HupChild == Runs("catch_SIGHUP") => \A p \in SS!HupProcs \ {0} : at[p] # "killed"

HupParts == HupType /\ HupPlace /\ HupHandles /\ HupSent /\ HupSettled /\ HupChild
HupInv == mem.prog \in SS!HupProgs => HupParts

-----------------------------------------------------------------------------
(* becomeDaemon() *)
ClosedInv ==
    "BD_NO_CLOSE_FILES" \notin mem.flags =>
        \A f \in SS!Fds : os.fds[f] \in {"closed", "null"} \/ f >= SS!maxfd

DaemonParts ==
    /\ DOMAIN mem = {"prog", "flags", "ret"} /\ DOMAIN at = {"main"}
    /\ DOMAIN os = {"leader", "session", "umask", "cwd", "fds", "limit"}
    /\ DOMAIN os.fds = SS!Fds /\ os.limit \in {-1, MaxFd, MaxFd + 1}
    /\ at.main # "return" => mem.ret = 1
    /\ at.main \in {"fork again", "umask", "chdir", "close", "reopen", "dup"} => os.session = "new"
    /\ at.main \in {"umask", "chdir", "close", "reopen", "dup"} => ~os.leader
    /\ at.main \in {"reopen", "dup"} => ClosedInv
    /\ at.main = "dup" => "BD_NO_REOPEN_STD_FDS" \notin mem.flags /\ os.fds[0] = "null"
    /\ mem.ret = 0 =>
          /\ os.session = "new" /\ ~os.leader /\ ClosedInv
          /\ "BD_NO_REOPEN_STD_FDS" \notin mem.flags => \A f \in 0 .. 2 : os.fds[f] = "null"

DaemonInv == Runs("daemon") => DaemonParts

-----------------------------------------------------------------------------
(* job_mon.  A position goes down the pipe once, from a process that stays *)
(* in pause() then.                                                        *)
JobType ==
    /\ DOMAIN mem = {"prog", "num", "tstp", "late"} /\ DOMAIN mem.num = JC!Jobs
    /\ DOMAIN os = {"pending", "stopped", "pipe", "sent", "last"}
    /\ DOMAIN os.pending = JC!Jobs /\ DOMAIN os.pipe = JC!Jobs
    /\ DOMAIN at = JC!Jobs
    /\ \A p \in JC!Jobs : at[p] \in {"sigint", "sigtstp", "sigcont", "read", "write", "pause",
                                     "killed", "sigpipe", "failed"}

PipeInv ==
    \A p \in JC!Jobs :
        /\ os.pipe[p] \in {0, p} /\ (os.pipe[p] = p => at[p] = "pause")
        /\ at[p] \in {"write", "pause"} => mem.num[p] = p
        /\ p > 1 /\ at[p] \in {"write", "pause", "sigpipe"} => at[p - 1] = "pause"
        /\ at[p] = "failed" => /\ p > 1 /\ at[p - 1] \in JC!Gone
                               /\ \E q \in 1 .. p - 1 : at[q] \in {"killed", "sigpipe"}
        /\ at[p] = "sigpipe" => p < JobSize /\ at[p + 1] = "killed"

StoppedInv ==
    os.last = "SIGCONT" =>
        /\ \A p \in JC!Jobs : "SIGTSTP" \notin os.pending[p]
        /\ mem.tstp \subseteq mem.late /\ os.stopped \subseteq mem.late

JobParts == JobType /\ PipeInv /\ StoppedInv
JobInv == Runs("job_mon") => JobParts

(* handling_SIGTSTP *)
TstpParts ==
    /\ DOMAIN at = {"main", "hnd"} /\ DOMAIN mem = {"prog"}
    /\ DOMAIN os = {"disp", "blocked", "pending", "stopped", "sent", "last"}
    /\ os.pending \in BOOLEAN /\ os.stopped \in BOOLEAN /\ os.blocked \in BOOLEAN
    /\ at.main = "sigaction" => at.hnd = "none" /\ os.disp \in {"SIG_DFL", "SIG_IGN"}
    /\ os.disp # "SIG_IGN" =>
          /\ os.last = "SIGTSTP" => os.pending \/ os.stopped \/ at.hnd \in {"default", "raise"}
          /\ at.hnd = "none" => ~os.blocked
          /\ at.hnd = "none" /\ at.main = "pause" => os.disp = "handler"
          /\ at.hnd \in {"default", "raise", "unblock", "handle", "return"} => os.blocked
          /\ at.hnd \in {"default", "return"} => os.disp = "handler"
          /\ at.hnd \in {"raise", "unblock", "reblock", "handle"} => os.disp = "SIG_DFL"
          /\ at.hnd \in {"none", "default", "raise", "unblock", "reblock", "handle", "return"}
    /\ os.disp = "SIG_IGN" => at.hnd = "none"
    /\ at.main \in {"sigaction", "pause"}

TstpInv == Runs("handling_SIGTSTP") => TstpParts

(* sigttou *)
TtouParts ==
    /\ DOMAIN at = {"parent", "child"} /\ DOMAIN mem = {"prog", "fg"} /\ DOMAIN os = {"sent"}
    /\ at.parent = "fork" => at.child = "unborn"
    /\ at.parent \in JC!Gone => at.child # "stopped"

TtouInv == Runs("sigttou") => TtouParts
-----------------------------------------------------------------------------
LEMMA InitSessions == MCInit => OrphanInv /\ HupInv /\ DaemonInv
  <1> SUFFICES ASSUME MCInit PROVE OrphanInv /\ HupInv /\ DaemonInv
    OBVIOUS
  <1>1. ASSUME Runs("orphaned_pgrp") PROVE OrphanParts
    <2>1. SS!OrphanInit
      BY <1>1 DEF MCInit, NotRunning, SR!Init, SR!Prog, SS!Init, SS!HupInit, SS!HupProgs, SS!DaemonInit,
             JC!Init, JC!JobInit, JC!TstpInit, JC!TtouInit, Runs
    <2> QED BY <2>1, SessionsAssumption DEF SS!OrphanInit, SS!OrphanProcs, OrphanParts
  <1>2. ASSUME mem.prog \in SS!HupProgs PROVE HupParts
    <2>1. SS!HupInit
      BY <1>2 DEF MCInit, NotRunning, SR!Init, SR!Prog, SS!Init, SS!OrphanInit, SS!HupProgs,
         SS!DaemonInit,
             JC!Init, JC!JobInit, JC!TstpInit, JC!TtouInit
    <2>2. HupType
      BY <2>1 DEF SS!HupInit, HupType
    <2>3. HupPlace
      BY <2>1 DEF SS!HupInit, HupPlace, SS!HupProgs, SS!Gone, Runs
    <2>4. HupHandles /\ HupChild
      BY <2>1 DEF SS!HupInit, HupHandles, HupChild, SS!Gone, SS!HupProcs, Runs
    <2>5. HupSent /\ HupSettled
      BY <2>1 DEF SS!HupInit, HupSent, HupSettled, Runs
    <2> QED BY <2>2, <2>3, <2>4, <2>5 DEF HupParts
  <1>3. ASSUME Runs("daemon") PROVE DaemonParts
    <2>1. SS!DaemonInit
      BY <1>3 DEF MCInit, NotRunning, SR!Init, SR!Prog, SS!Init, SS!OrphanInit, SS!HupInit, SS!HupProgs,
             JC!Init, JC!JobInit, JC!TstpInit, JC!TtouInit, Runs
    <2> QED BY <2>1 DEF SS!DaemonInit, DaemonParts
  <1> QED BY <1>1, <1>2, <1>3 DEF OrphanInv, HupInv, DaemonInv

LEMMA StepOrphan ==
    ASSUME OrphanParts, SS!OrphanNext
    PROVE  OrphanParts'
  <1> USE SessionsAssumption DEF OrphanParts, SS!OrphanProcs
  <1>1. CASE SS!OrphanFork
    BY <1>1 DEF SS!OrphanFork
  <1>2. CASE SS!OrphanForkedAll
    BY <1>2 DEF SS!OrphanForkedAll, SS!Move
  <1>3. CASE SS!Exit
    <2>1. /\ at[0] # "exit" /\ UNCHANGED mem /\ DOMAIN at' = DOMAIN at /\ at'[0] = "exit"
          /\ \A p \in SS!OrphanProcs : at'[p] = IF at[p] = "stopped" THEN "resumed" ELSE at[p]
      BY <1>3 DEF SS!Exit
    <2>2. /\ DOMAIN os' = DOMAIN os /\ os'.alarm = os.alarm /\ DOMAIN os'.pending = SS!OrphanProcs
          /\ os'.hungUp = \E p \in SS!OrphanProcs : at[p] = "stopped"
      BY <1>3 DEF SS!Exit
    <2>3. ASSUME NEW p \in SS!OrphanProcs, at[p] = "stopped" PROVE os'.hungUp /\ os'.pending[p] = Both
      BY <1>3, <2>3 DEF SS!Exit, SS!Alive, Both
    <2>4. ASSUME NEW p \in SS!OrphanProcs, mem.kind[p] = "s"
          PROVE  /\ at'[p] \in {"unborn", "start", "stopped", "resumed", "exit"} /\ p \notin os'.alarm
                 /\ at'[p] = "resumed" => os'.hungUp /\ mem.caught[p] \cup os'.pending[p] = Both
                 /\ at'[p] = "exit" => os'.hungUp /\ mem.caught[p] = Both
      <3>1. at[p] # "resumed" /\ at[p] # "exit"
        BY <2>1, <2>4 DEF Both
      <3>2. mem.caught[p] = {}
        BY <2>1
      <3>3. at[p] = "stopped" => mem.caught[p] \cup os'.pending[p] = Both
        BY <2>3, <3>2
      <3> QED BY <2>1, <2>2, <2>3, <2>4, <3>1, <3>3
    <2> QED BY <2>1, <2>2, <2>4
  <1>4. ASSUME NEW p \in SS!OrphanProcs, SS!RaiseStop(p) PROVE OrphanParts'
    BY <1>4 DEF SS!RaiseStop, SS!Move
  <1>5. ASSUME NEW p \in SS!OrphanProcs, SS!OrphanAlarm(p) PROVE OrphanParts'
    BY <1>5 DEF SS!OrphanAlarm, SS!Move
  <1>6. ASSUME NEW p \in SS!OrphanProcs, SS!Pause(p) PROVE OrphanParts'
    BY <1>6 DEF SS!Pause, SS!Move
  <1>7. ASSUME NEW p \in SS!OrphanProcs, SS!Resumed(p) PROVE OrphanParts'
    <2>1. at[p] = "resumed" /\ at' = [at EXCEPT ![p] = "exit"] /\ UNCHANGED <<mem, os>> /\ os.pending[p] = {}
      BY <1>7 DEF SS!Resumed, SS!Move
    <2>2. mem.kind[p] = "s" => mem.caught[p] = Both /\ os.hungUp
      BY <2>1
    <2> QED BY <2>1, <2>2
  <1>8. ASSUME NEW p \in SS!OrphanProcs, SS!Handler(p) PROVE OrphanParts'
    BY <1>8 DEF SS!Handler
  <1>9. ASSUME NEW p \in SS!OrphanProcs, SS!OrphanAlarmExpires(p) PROVE OrphanParts'
    BY <1>9 DEF SS!OrphanAlarmExpires
  <1>10. CASE UNCHANGED machine
    BY <1>10 DEF machine
  <1> QED
    BY <1>1, <1>2, <1>3, <1>4, <1>5, <1>6, <1>7, <1>8, <1>9, <1>10
    DEF SS!OrphanNext, SS!Parent, SS!parent, SS!Child, SS!child, SS!OrphanClock, SS!OrphanIdle,
       SS!machine, machine

LEMMA StepDaemon ==
    ASSUME DaemonParts, SS!DaemonNext
    PROVE  DaemonParts'
  <1> USE SessionsAssumption DEF DaemonParts, SS!Fds, SS!maxfd
  <1>1. CASE SS!DaemonFork
    BY <1>1 DEF SS!DaemonFork, SS!Move, ClosedInv
  <1>2. CASE SS!Setsid
    <2>1. /\ at.main = "setsid" /\ at'.main = "fork again" /\ DOMAIN at' = DOMAIN at /\ UNCHANGED mem
          /\ DOMAIN os' = DOMAIN os /\ os'.session = "new" /\ os'.fds = os.fds /\ os'.limit = os.limit
      BY <1>2 DEF SS!Setsid, SS!Move
    <2>2. mem'.ret = 1
      BY <2>1, Zenon
    <2>3. mem'.ret # 0
      BY ONLY <2>2
    <2> QED BY <2>1, <2>2, <2>3
  <1>3. CASE SS!ForkAgain
    BY <1>3 DEF SS!ForkAgain, SS!Move, ClosedInv
  <1>4. CASE SS!Umask
    BY <1>4 DEF SS!Umask, SS!Move, ClosedInv
  <1>5. CASE SS!Chdir
    BY <1>5 DEF SS!Chdir, SS!Move, ClosedInv
  <1>6. CASE SS!CloseFiles
    BY <1>6 DEF SS!CloseFiles, SS!Move, ClosedInv
  <1>7. CASE SS!ReopenStdin
    BY <1>7 DEF SS!ReopenStdin, SS!Move, ClosedInv
  <1>8. CASE SS!DupStdFds
    BY <1>8 DEF SS!DupStdFds, SS!Return, ClosedInv
  <1>9. CASE SS!NoReopen
    BY <1>9 DEF SS!NoReopen, SS!Return, ClosedInv
  <1>10. ASSUME NEW l, l # "return", SS!Fails(l) PROVE DaemonParts'
    <2>1. /\ at'.main = "return" /\ DOMAIN at' = DOMAIN at /\ UNCHANGED os
          /\ DOMAIN mem' = DOMAIN mem /\ mem'.ret = -1 /\ mem'.flags = mem.flags
      BY <1>10 DEF SS!Fails, SS!Return
    <2>2. mem'.ret # 0
      BY ONLY <2>1
    <2> QED BY <2>1, <2>2
  <1>11. CASE UNCHANGED machine
    BY <1>11 DEF machine, ClosedInv
  <1> QED
    BY <1>1, <1>2, <1>3, <1>4, <1>5, <1>6, <1>7, <1>8, <1>9, <1>10, <1>11
    DEF SS!DaemonNext, SS!becomeDaemon, SS!Returned, SS!machine, machine
(* A process goes on, and nothing is sent. *)
LEMMA StepHupMove ==
    ASSUME HupParts, mem.prog \in SS!HupProgs, NEW p \in SS!HupProcs,
           \/ Runs("catch_SIGHUP") /\ \/ SS!Sigaction(p, "fork")
                                      \/ SS!Setpgid(p, "alarm") \/ SS!HupAlarm(p, "pause")
           \/ Runs("disc_SIGHUP") /\ \/ p = 0 /\ SS!HupForkedAll
                                     \/ SS!Setpgid(p, "sigaction") \/ SS!Sigaction(p, "alarm")
                                     \/ SS!HupAlarm(p, "pause")
           \/ Runs("sighup_process") /\ SS!sighup_process(p)
    PROVE  HupParts'
  <1> USE DEF HupParts, HupType, Runs, SS!Runs, SS!Move, SS!Sigaction, SS!Setpgid, SS!HupAlarm,
     SS!HupForkedAll, SS!sighup_process
  <1>1. /\ DOMAIN mem' = DOMAIN mem /\ DOMAIN os' = DOMAIN os /\ DOMAIN at' = DOMAIN at
        /\ mem'.prog = mem.prog /\ mem'.other = mem.other /\ mem'.next = mem.next /\ mem'.said = mem.said
        /\ mem.handles \subseteq mem'.handles /\ mem.moved \subseteq mem'.moved
        /\ os'.pending = os.pending /\ os'.hup = os.hup /\ os'.group = os.group /\ os'.settled = os.settled
        /\ at[p] \notin {"pause"} \cup SS!Gone /\ at'[p] \notin {"setpgid"} \cup SS!Gone
        /\ \A q \in SS!HupProcs \ {p} : at'[q] = at[q]
    BY DEF SS!Gone
  <1>2. HupType'
    BY <1>1
  <1>3. HupPlace'
    BY DEF HupPlace, SS!Gone
  <1>4. HupHandles'
    <2>1. Runs("disc_SIGHUP") => 0 \notin mem'.handles
      BY DEF HupPlace, HupHandles, SS!Gone
    <2>2. Runs("catch_SIGHUP") /\ at'[p] # "sigaction" => p \in mem'.handles
      BY DEF HupPlace, HupHandles, SS!Gone
    <2>3. at'[p] \in {"print", "alarm", "pause"} => p \in mem'.handles \/ (Runs("disc_SIGHUP") /\ p = 0)
      BY DEF HupPlace, HupHandles, SS!Gone
    <2>4. at'[p] \in {"sigaction", "alarm", "pause"} /\ p \in mem.other => p \in mem'.moved
      <3>1. p \in mem.other => p # 0
        OBVIOUS
      <3> QED BY <3>1 DEF HupPlace, HupHandles, SS!Gone
    <2>5. ASSUME NEW q \in SS!HupProcs \ {p}
          PROVE  /\ Runs("catch_SIGHUP") /\ at'[q] \notin SS!Gone \cup {"sigaction"} => q \in mem'.handles
                 /\ at'[q] \in {"print", "alarm", "pause"} => q \in mem'.handles \/ (Runs("disc_SIGHUP") /\ q = 0)
                 /\ at'[q] \in {"sigaction", "alarm", "pause"} /\ q \in mem.other => q \in mem'.moved
      BY <1>1, <2>5 DEF HupHandles
    <2> HIDE DEF HupParts, HupType, SS!Move, SS!Sigaction, SS!Setpgid, SS!HupAlarm, SS!HupForkedAll,
                 SS!sighup_process
    <2> QED BY <1>1, <2>1, <2>2, <2>3, <2>4, <2>5 DEF HupHandles
  <1>5. HupSettled'
    BY <1>1 DEF HupSettled
  <1>6. HupSent'
    <2>1. Runs("disc_SIGHUP") /\ os.hup => at'[0] \in SS!Gone
      <3>1. 0 \in SS!HupProcs
        BY SessionsAssumption DEF SS!HupProcs
      <3>2. Runs("disc_SIGHUP") /\ os.hup => p # 0 /\ at[0] \in SS!Gone
        BY <1>1 DEF HupSent
      <3> QED BY <1>1, <3>1, <3>2
    <2> HIDE DEF SS!Move, SS!Sigaction, SS!Setpgid, SS!HupAlarm, SS!HupForkedAll, SS!sighup_process
    <2> QED BY <1>1, <2>1 DEF HupSent
  <1>7. HupChild'
    <2> HIDE DEF SS!Move, SS!Sigaction, SS!Setpgid, SS!HupAlarm, SS!HupForkedAll, SS!sighup_process
    <2> QED BY <1>1 DEF HupChild, SS!Gone
  <1> QED BY <1>2, <1>3, <1>4, <1>5, <1>6, <1>7

LEMMA StepHupFork ==
    ASSUME HupParts, mem.prog \in SS!HupProgs, NEW k, NEW n,
           SS!HupFork(k, n), (Runs("catch_SIGHUP") /\ k = "alarm") \/ (Runs("disc_SIGHUP") /\ k = "fork")
    PROVE  HupParts'
  <1> USE DEF HupParts, HupType, Runs, SS!Runs
  <1> DEFINE c == mem.next
  <1>1. /\ DOMAIN mem' = DOMAIN mem /\ UNCHANGED os /\ DOMAIN at' = DOMAIN at
        /\ mem'.prog = mem.prog /\ mem'.other = mem.other /\ mem'.said = mem.said /\ mem'.moved = mem.moved
        /\ mem'.next = c + 1
        /\ mem'.handles = mem.handles \cup (IF 0 \in mem.handles THEN {c} ELSE {})
        /\ at[0] = "fork" /\ 0 \in SS!HupProcs /\ c # 0 /\ at'[0] = k
        /\ c \in SS!HupProcs => at'[c] = "setpgid"
        /\ \A q \in SS!HupProcs \ {0, c} : at'[q] = at[q]
    BY SessionsAssumption DEF SS!HupFork, SS!HupProcs
  <1> HIDE DEF c
  <1>2. HupType'
    <2>1. c \in Nat \ {0}
      BY DEF c
    <2>2. c + 1 \in Nat \ {0}
      BY ONLY <2>1
    <2> QED BY <1>1, <2>2
  <1>3. HupPlace'
    BY <1>1 DEF HupPlace, SS!Gone
  <1>4. HupHandles'
    <2>1. Runs("catch_SIGHUP") => 0 \in mem.handles
      BY <1>1 DEF HupHandles, SS!Gone
    <2>2. Runs("disc_SIGHUP") => 0 \notin mem.handles /\ k = "fork"
      BY DEF HupHandles
    <2>3. 0 \notin mem.other
      OBVIOUS
    <2> QED BY <1>1, <2>1, <2>2, <2>3 DEF HupHandles
  <1>5. HupSettled'
    BY <1>1 DEF HupSettled, SS!Gone
  <1>6. HupSent'
    BY <1>1 DEF HupSent, SS!Gone
  <1>7. HupChild'
    BY <1>1 DEF HupChild
  <1> QED BY <1>2, <1>3, <1>4, <1>5, <1>6, <1>7

(* The whole group gets SIGHUP, now or when the controlling process ends. *)
LEMMA StepHupSend ==
    ASSUME HupParts, mem.prog \in SS!HupProgs, ~os.hup, UNCHANGED mem,
           \/ ~Runs("disc_SIGHUP") /\ UNCHANGED at /\ os' = SS!HupGroup(SS!Members)
           \/ /\ Runs("disc_SIGHUP") /\ os' = SS!HupGroup(SS!Members \ {0})
              /\ \E how \in {"exit", "killed", "alarmed"} : at' = [at EXCEPT ![0] = how]
    PROVE  HupParts'
  <1> USE DEF HupParts, HupType, Runs, SS!Runs
  <1>0. /\ DOMAIN os' = DOMAIN os /\ os'.pending = os.pending \cup os'.group /\ os'.hup
        /\ os'.settled = \A q \in SS!HupProcs : at[q] \in {"pause"} \cup SS!Gone
        /\ os'.group = IF Runs("disc_SIGHUP") THEN SS!Members \ {0} ELSE SS!Members
        /\ os'.group \subseteq SS!HupProcs
    <2>1. \A ps : os' = SS!HupGroup(ps) =>
              /\ DOMAIN os' = DOMAIN os /\ os'.pending = os.pending \cup ps /\ os'.group = ps /\ os'.hup
              /\ os'.settled = \A q \in SS!HupProcs : at[q] \in {"pause"} \cup SS!Gone
      BY DEF SS!HupGroup
    <2>2. SS!Members \subseteq SS!HupProcs
      BY DEF SS!Members
    <2>3. CASE ~Runs("disc_SIGHUP")
      BY <2>1, <2>2, <2>3
    <2>4. CASE Runs("disc_SIGHUP")
      <3>1. os' = SS!HupGroup(SS!Members \ {0})
        BY <2>4
      <3>2. /\ DOMAIN os' = DOMAIN os /\ os'.pending = os.pending \cup (SS!Members \ {0}) /\ os'.hup
            /\ os'.group = SS!Members \ {0}
            /\ os'.settled = \A q \in SS!HupProcs : at[q] \in {"pause"} \cup SS!Gone
        BY <2>1, <3>1
      <3> QED BY <2>2, <2>4, <3>2
    <2> QED BY <2>3, <2>4
  <1>1. HupType'
    BY <1>0
  <1>2. HupPlace'
    BY DEF HupPlace, SS!Gone
  <1>3. HupHandles'
    BY DEF HupPlace, HupHandles, SS!Gone
  <1>4. HupSent'
    <2>1. os.pending \subseteq IF Runs("disc_SIGHUP") THEN {0} ELSE {}
      BY DEF HupSent
    <2>2. os'.hup /\ os'.group \subseteq SS!HupProcs /\ os'.pending = os.pending \cup os'.group
      BY <1>0
    <2>4. mem'.said = {}
      BY DEF HupSent
    <2>3. Runs("disc_SIGHUP") => at'[0] \in SS!Gone
      BY SessionsAssumption DEF SS!Gone, SS!HupProcs
    <2> QED BY <2>1, <2>2, <2>3, <2>4 DEF HupSent
  <1>5. HupSettled'
    <2> SUFFICES ASSUME os'.settled PROVE HupSettled'
      BY DEF HupSettled
    <2>1. \A q \in SS!HupProcs : at[q] \in {"pause"} \cup SS!Gone
      BY <1>0
    <2>2. \A q \in os'.group : /\ q \in SS!HupProcs /\ at[q] = "pause" /\ q \notin mem.moved /\ at'[q] = at[q]
                               /\ ~(Runs("disc_SIGHUP") /\ q = 0) /\ q \in os'.pending
      BY <1>0, <2>1 DEF SS!Members
    <2>3. \A q \in SS!HupProcs : at'[q] \in {"pause"} \cup SS!Gone
      BY <2>1 DEF SS!Gone
    <2>4. \A q \in os'.group : q \in mem.handles /\ q \notin mem.other
      BY <2>2 DEF HupHandles
    <2> HIDE DEF HupParts, HupType
    <2> QED BY <2>2, <2>3, <2>4 DEF HupSettled
  <1>6. HupChild'
    BY DEF HupChild
  <1> QED BY <1>1, <1>2, <1>3, <1>4, <1>5, <1>6

LEMMA StepHupEnds ==
    ASSUME HupParts, mem.prog \in SS!HupProgs, NEW p \in SS!HupProcs, at[p] \notin SS!Gone,
           NEW how \in {"exit", "killed", "alarmed"}, SS!Ends(p, how),
           how = "exit" => p = 0, how = "killed" => p \notin mem.handles /\ p \in os.pending
    PROVE  HupParts'
  <1>1. CASE Runs("disc_SIGHUP") /\ p = 0
    <2>1. ~os.hup
      BY <1>1 DEF HupParts, HupSent
    <2> QED BY <1>1, <2>1, StepHupSend DEF SS!Ends, SS!Runs, Runs
  <1>2. CASE ~(Runs("disc_SIGHUP") /\ p = 0)
    <2>1. UNCHANGED <<mem, os>> /\ at' = [at EXCEPT ![p] = how]
      BY <1>2 DEF SS!Ends, SS!Runs, Runs
    <2> USE DEF HupParts, HupType, Runs
    <2>2. HupType'
      BY <2>1
    <2>3. HupPlace'
      BY <2>1 DEF HupPlace, SS!Gone
    <2>4. HupHandles'
      BY <2>1 DEF HupHandles, SS!Gone
    <2>5. HupSent'
      BY <1>2, <2>1 DEF HupSent, SS!Gone
    <2>6. HupSettled'
      BY <1>2, <2>1 DEF HupSettled, HupSent, SS!Gone
    <2>7. HupChild'
      BY <1>2, <2>1 DEF HupChild, HupHandles, HupPlace, SS!Gone
    <2> QED BY <2>2, <2>3, <2>4, <2>5, <2>6, <2>7
  <1> QED BY <1>1, <1>2
(* SIGHUP meets a handler. *)
LEMMA StepHupHandler ==
    ASSUME HupParts, mem.prog \in SS!HupProgs, NEW p \in SS!HupProcs, SS!Deliver(p), p \in mem.handles
    PROVE  HupParts'
  <1> USE DEF HupParts, HupType, Runs
  <1>1. /\ p \in os.pending /\ at[p] \notin SS!Gone
        /\ mem' = [mem EXCEPT !.said = IF Runs("disc_SIGHUP") \/ at[p] = "pause" THEN @ \cup {p} ELSE @]
        /\ at' = IF Runs("sighup_process") /\ at[p] = "pause" THEN [at EXCEPT ![p] = "exit"] ELSE at
        /\ os' = [os EXCEPT !.pending = @ \ {p}]
    BY DEF SS!Deliver, SS!Runs
  <1>2. /\ DOMAIN mem' = DOMAIN mem /\ DOMAIN os' = DOMAIN os /\ DOMAIN at' = DOMAIN at
        /\ mem'.prog = mem.prog /\ mem'.other = mem.other /\ mem'.next = mem.next
        /\ mem'.handles = mem.handles /\ mem'.moved = mem.moved
        /\ mem'.said = IF Runs("disc_SIGHUP") \/ at[p] = "pause" THEN mem.said \cup {p} ELSE mem.said
        /\ os'.pending = os.pending \ {p} /\ os'.hup = os.hup /\ os'.group = os.group
        /\ os'.settled = os.settled
        /\ \A q \in SS!HupProcs : at'[q] = at[q] \/ (at'[q] = "exit" /\ at[q] = "pause" /\ Runs("sighup_process"))
    BY <1>1
  <1>3. p \in os.group
    BY <1>1 DEF HupSent, HupHandles
  <1> HIDE DEF SS!Deliver
  <1>4. HupType'
    BY <1>2
  <1>5. HupPlace'
    BY <1>2 DEF HupPlace, SS!Gone
  <1>6. HupHandles'
    BY <1>2 DEF HupHandles, SS!Gone
  <1>7. HupSent'
    <2>1. os.hup
      BY <1>3 DEF HupSent
    <2>2. Runs("disc_SIGHUP") => at'[0] \in SS!Gone
      BY <1>1, <2>1 DEF HupSent
    <2> QED BY <1>2, <1>3, <2>1, <2>2 DEF HupSent
  <1>8. HupSettled'
    <2> SUFFICES ASSUME os'.settled PROVE HupSettled'
      BY DEF HupSettled
    <2>1. os.settled /\ at[p] = "pause"
      BY <1>1, <1>2 DEF HupSettled
    <2>2. \A q \in SS!HupProcs : at'[q] \in {"pause"} \cup SS!Gone
      BY <1>2, <2>1 DEF HupSettled, SS!Gone
    <2>3. mem'.said = mem.said \cup {p}
      BY <1>2, <2>1
    <2>4. \A q \in os'.group : /\ q \in os'.pending \cup mem'.said \/ at'[q] = "alarmed"
                               /\ at'[q] # "killed"
      <3> SUFFICES ASSUME NEW q \in os'.group
                   PROVE  /\ q \in os'.pending \cup mem'.said \/ at'[q] = "alarmed"
                          /\ at'[q] # "killed"
        OBVIOUS
      <3>1. /\ q \in os.pending \cup mem.said \/ at[q] = "alarmed"
            /\ at[q] # "killed" /\ q \in SS!HupProcs
        BY <1>2, <2>1 DEF HupSettled, HupSent
      <3> QED BY <1>2, <2>3, <3>1
    <2> QED BY <1>2, <2>1, <2>2, <2>4 DEF HupSettled
  <1>9. HupChild'
    BY <1>2 DEF HupChild
  <1> QED BY <1>4, <1>5, <1>6, <1>7, <1>8, <1>9

LEMMA StepHup ==
    ASSUME HupParts, mem.prog \in SS!HupProgs, SS!HupNext
    PROVE  HupParts'
  <1>1. ASSUME NEW p \in SS!HupProcs, SS!Process(p) PROVE HupParts'
    <2>1. CASE SS!Deliver(p)
      <3>1. CASE p \in mem.handles
        BY <2>1, <3>1, StepHupHandler
      <3>2. CASE p \notin mem.handles
        <4>1. SS!Ends(p, "killed") /\ p \in os.pending /\ at[p] \notin SS!Gone
          BY <2>1, <3>2 DEF SS!Deliver
        <4> QED BY <3>2, <4>1, StepHupEnds
      <3> QED BY <3>1, <3>2
    <2>2. ASSUME NEW n, p = 0, SS!ForkFails(n) PROVE HupParts'
      BY <2>2, StepHupEnds DEF SS!ForkFails, SS!Gone
    <2>3. ASSUME Runs("catch_SIGHUP"), SS!HupFork("alarm", 1) PROVE HupParts'
      BY <2>3, StepHupFork
    <2>4. ASSUME Runs("disc_SIGHUP"), SS!HupFork("fork", HupChildren) PROVE HupParts'
      BY <2>4, StepHupFork
    <2>5. ASSUME ~SS!Deliver(p), ~(p = 0 /\ \E n : SS!ForkFails(n)),
                 ~(Runs("catch_SIGHUP") /\ SS!HupFork("alarm", 1)),
                 ~(Runs("disc_SIGHUP") /\ SS!HupFork("fork", HupChildren))
          PROVE HupParts'
      BY <1>1, <2>5, StepHupMove DEF SS!Process, SS!catch_SIGHUP, SS!disc_SIGHUP, SS!Runs, Runs
    <2> QED BY <2>1, <2>2, <2>3, <2>4, <2>5
  <1>2. ASSUME NEW p \in SS!HupProcs, SS!HupClock(p) PROVE HupParts'
    BY <1>2, StepHupEnds DEF SS!HupClock, SS!HupAlarmExpires
  <1>3. CASE SS!Disconnect
    <2>1. CASE Runs("disc_SIGHUP")
      <3>1. /\ ~os.hup /\ UNCHANGED <<at, mem>> /\ DOMAIN os' = DOMAIN os /\ os'.pending = os.pending \cup {0}
            /\ os'.hup = os.hup /\ os'.group = os.group /\ os'.settled = os.settled
        BY <1>3, <2>1 DEF SS!Disconnect, HupParts, HupType, SS!Runs, Runs
      <3>2. HupSent' /\ HupSettled'
        BY <2>1, <3>1 DEF HupParts, HupSent, HupSettled, Runs
      <3> QED BY <3>1, <3>2 DEF HupParts, HupType, HupPlace, HupHandles, HupChild, Runs
    <2>2. CASE ~Runs("disc_SIGHUP")
      BY <1>3, <2>2, StepHupSend DEF SS!Disconnect, SS!Runs, Runs
    <2> QED BY <2>1, <2>2
  <1>4. CASE UNCHANGED machine
    BY <1>4 DEF machine, HupParts, HupType, HupPlace, HupHandles, HupSent, HupSettled, HupChild, Runs
  <1> QED BY <1>1, <1>2, <1>3, <1>4 DEF SS!HupNext, SS!HupIdle, SS!machine, machine

-----------------------------------------------------------------------------
LEMMA InitJobs == MCInit => JobInv /\ TstpInv /\ TtouInv
  <1> SUFFICES ASSUME MCInit PROVE JobInv /\ TstpInv /\ TtouInv
    OBVIOUS
  <1> USE DEF MCInit, NotRunning, SR!Init, SR!Prog, SS!Init, SS!OrphanInit, SS!HupInit, SS!HupProgs,
             SS!DaemonInit, JC!Init, Runs
  <1>1. ASSUME Runs("job_mon") PROVE JC!JobInit
    BY <1>1 DEF JC!TstpInit, JC!TtouInit
  <1>2. ASSUME Runs("handling_SIGTSTP") PROVE JC!TstpInit
    BY <1>2 DEF JC!JobInit, JC!TtouInit
  <1>3. ASSUME Runs("sigttou") PROVE JC!TtouInit
    BY <1>3 DEF JC!JobInit, JC!TstpInit
  <1> HIDE DEF MCInit
  <1>4. JC!JobInit => JobType /\ PipeInv /\ StoppedInv
    <2> SUFFICES ASSUME JC!JobInit PROVE JobType /\ PipeInv /\ StoppedInv
      OBVIOUS
    <2>1. /\ at = [p \in JC!Jobs |-> "sigint"] /\ os.pipe = [p \in JC!Jobs |-> 0] /\ os.last = "none"
      BY DEF JC!JobInit
    <2>2. JobType
      BY DEF JC!JobInit, JobType
    <2>3. PipeInv
      <3> SUFFICES ASSUME NEW p \in JC!Jobs PROVE p # 0 /\ os.pipe[p] = 0 /\ at[p] = "sigint"
        BY DEF PipeInv
      <3> QED BY <2>1, SessionsAssumption DEF JC!Jobs
    <2> QED BY <2>1, <2>2, <2>3 DEF StoppedInv
  <1>5. JC!TstpInit => TstpParts
    BY DEF JC!TstpInit, TstpParts
  <1>6. JC!TtouInit => TtouParts
    BY DEF JC!TtouInit, TtouParts, JC!Gone
  <1> QED BY <1>1, <1>2, <1>3, <1>4, <1>5, <1>6 DEF JobInv, JobParts, TstpInv, TtouInv

LEMMA StepTtou ==
    ASSUME TtouParts,
           JC!sigttou \/ (\E s \in {"SIGINT", "SIGTSTP", "SIGCONT"} : JC!TtouSignal(s)) \/ UNCHANGED machine
    PROVE  TtouParts'
  <1> USE DEF TtouParts, JC!Gone, JC!Move
  <1>1. CASE JC!TtouFork
    BY <1>1 DEF JC!TtouFork
  <1>2. CASE JC!Setpgid
    BY <1>2 DEF JC!Setpgid
  <1>3. CASE JC!Stty
    BY <1>3 DEF JC!Stty
  <1>4. CASE JC!TtouWait
    BY <1>4 DEF JC!TtouWait
  <1>5. ASSUME NEW s, JC!TtouSignal(s) PROVE TtouParts'
    BY <1>5 DEF JC!TtouSignal
  <1>6. CASE UNCHANGED machine
    BY <1>6 DEF machine
  <1> QED BY <1>1, <1>2, <1>3, <1>4, <1>5, <1>6 DEF JC!sigttou

LEMMA StepTstpProg ==
    ASSUME TstpParts,
           JC!handling_SIGTSTP \/ (\E s \in {"SIGINT", "SIGTSTP", "SIGCONT"} : JC!TstpSignal(s)) \/ UNCHANGED machine
    PROVE  TstpParts'
  <1> USE DEF TstpParts, JC!Move
  <1>1. CASE JC!Sigaction
    BY <1>1 DEF JC!Sigaction
  <1>2. CASE JC!SetDefault
    BY <1>2 DEF JC!SetDefault, JC!Step
  <1>3. CASE JC!Raise
    BY <1>3 DEF JC!Raise, JC!Step
  <1>4. CASE JC!Unblock
    BY <1>4 DEF JC!Unblock, JC!Step
  <1>5. CASE JC!Reblock
    BY <1>5 DEF JC!Reblock, JC!Step
  <1>6. CASE JC!Handle
    BY <1>6 DEF JC!Handle, JC!Step
  <1>7. CASE JC!Return
    BY <1>7 DEF JC!Return, JC!Step
  <1>8. CASE JC!Deliver
    BY <1>8, ZenonT(60) DEF JC!Deliver
  <1>9. ASSUME NEW s, JC!TstpSignal(s) PROVE TstpParts'
    BY <1>9 DEF JC!TstpSignal
  <1>10. CASE UNCHANGED machine
    BY <1>10 DEF machine
  <1> QED BY <1>1, <1>2, <1>3, <1>4, <1>5, <1>6, <1>7, <1>8, <1>9, <1>10
      DEF JC!handling_SIGTSTP, JC!tstpHandler
(* One process of the pipeline moves to another place; what must hold of   *)
(* its neighbours.                                                         *)
LEMMA StepJobMove ==
    ASSUME JobType, PipeInv, JobType', NEW p \in JC!Jobs, NEW k, at' = [at EXCEPT ![p] = k],
           at[p] \notin {"pause", "killed", "sigpipe", "failed"},
           \A q \in JC!Jobs \ {p} : mem'.num[q] = mem.num[q],
           \A q \in JC!Jobs : os'.pipe[q] \in {0, q} /\ (os'.pipe[q] = q => at'[q] = "pause"),
           k \in {"write", "pause"} => mem'.num[p] = p,
           k \in {"write", "pause", "sigpipe"} => (p > 1 => at[p - 1] = "pause"),
           k = "failed" => p > 1 /\ at[p - 1] \in JC!Gone,
           k = "sigpipe" => p < JobSize /\ at[p + 1] = "killed"
    PROVE  PipeInv'
  <1> USE SessionsAssumption DEF JC!Jobs
  <1>1. \A q \in JC!Jobs : at'[q] = IF q = p THEN k ELSE at[q]
    BY DEF JobType
  <1>2. at[p] \notin JC!Gone \cup {"pause"}
    BY DEF JC!Gone, JobType
  <1> SUFFICES ASSUME NEW q \in JC!Jobs
               PROVE  /\ at'[q] \in {"write", "pause"} => mem'.num[q] = q
                      /\ q > 1 /\ at'[q] \in {"write", "pause", "sigpipe"} => at'[q - 1] = "pause"
                      /\ at'[q] = "failed" => /\ q > 1 /\ at'[q - 1] \in JC!Gone
                                              /\ \E r \in 1 .. q - 1 : at'[r] \in {"killed", "sigpipe"}
                      /\ at'[q] = "sigpipe" => q < JobSize /\ at'[q + 1] = "killed"
    BY DEF PipeInv
  <1>3. at'[q] \in {"write", "pause"} => mem'.num[q] = q
    BY <1>1 DEF PipeInv
  <1>4. ASSUME q > 1 PROVE q - 1 \in JC!Jobs /\ q - 1 # q
    BY <1>4
  <1>5. ASSUME q < JobSize PROVE q + 1 \in JC!Jobs /\ q + 1 # q
    BY <1>5
  <1>6. q > 1 /\ at'[q] \in {"write", "pause", "sigpipe"} => at'[q - 1] = "pause"
    <2> SUFFICES ASSUME q > 1, at'[q] \in {"write", "pause", "sigpipe"} PROVE at'[q - 1] = "pause"
      OBVIOUS
    <2>1. at[q - 1] = "pause"
      BY <1>1 DEF PipeInv
    <2> QED BY <1>1, <1>2, <1>4, <2>1
  <1>7. at'[q] = "sigpipe" => q < JobSize /\ at'[q + 1] = "killed"
    <2> SUFFICES ASSUME at'[q] = "sigpipe" PROVE q < JobSize /\ at'[q + 1] = "killed"
      OBVIOUS
    <2>1. q < JobSize /\ at[q + 1] = "killed"
      BY <1>1 DEF PipeInv
    <2> QED BY <1>1, <1>2, <1>5, <2>1 DEF JC!Gone
  <1>8. ASSUME at'[q] = "failed"
        PROVE  /\ q > 1 /\ at'[q - 1] \in JC!Gone
               /\ \E r \in 1 .. q - 1 : at'[r] \in {"killed", "sigpipe"}
    <2>1. q > 1 /\ at[q - 1] \in JC!Gone
      BY <1>1, <1>8 DEF PipeInv
    <2>2. at'[q - 1] \in JC!Gone
      BY <1>1, <1>2, <1>4, <2>1
    <2>3. \E r \in 1 .. q - 1 : at[r] \in {"killed", "sigpipe"}
      <3>1. CASE q # p
        BY <1>1, <1>8, <3>1 DEF PipeInv
      <3>2. CASE q = p
        <4>1. at[q - 1] \in {"killed", "sigpipe", "failed"}
          BY <1>4, <2>1 DEF JobType, JC!Gone
        <4>2. CASE at[q - 1] = "failed"
          <5>1. \E r \in 1 .. q - 1 - 1 : at[r] \in {"killed", "sigpipe"}
            BY <1>4, <2>1, <4>2 DEF PipeInv
          <5> QED BY <5>1
        <4>3. CASE at[q - 1] \in {"killed", "sigpipe"}
          <5>1. q - 1 \in 1 .. q - 1
            BY <2>1
          <5> QED BY <4>3, <5>1
        <4> QED BY <4>1, <4>2, <4>3
      <3> QED BY <3>1, <3>2
    <2>4. PICK r \in 1 .. q - 1 : at[r] \in {"killed", "sigpipe"}
      BY <2>3
    <2>5. r \in JC!Jobs
      OBVIOUS
    <2>6. at'[r] \in {"killed", "sigpipe"}
      BY <1>1, <1>2, <2>4, <2>5 DEF JC!Gone
    <2> QED BY <2>1, <2>2, <2>6
  <1> QED BY <1>3, <1>6, <1>7, <1>8

LEMMA StepJobRun ==
    ASSUME JobParts, NEW p \in JC!Jobs, JC!Setup(p) \/ JC!ReadNum(p) \/ JC!WriteNum(p)
    PROVE  JobParts'
  <1> USE DEF JobParts
  <1>1. PICK k \in {"sigtstp", "sigcont", "read", "write", "pause", "sigpipe", "failed"} :
           at' = [at EXCEPT ![p] = k]
    BY DEF JC!Setup, JC!ReadNum, JC!WriteNum, JC!Main, JC!Move
  <1>2. /\ DOMAIN mem' = DOMAIN mem /\ DOMAIN os' = DOMAIN os
        /\ DOMAIN mem'.num = JC!Jobs /\ DOMAIN os'.pipe = JC!Jobs
        /\ os'.pending = os.pending /\ os'.stopped = os.stopped /\ os'.last = os.last
        /\ mem'.tstp = mem.tstp /\ mem'.late = mem.late
        /\ \A q \in JC!Jobs \ {p} : mem'.num[q] = mem.num[q]
    BY DEF JobType, JC!Setup, JC!ReadNum, JC!WriteNum
  <1>3. JobType'
    BY <1>1, <1>2 DEF JobType
  <1>4. StoppedInv'
    BY <1>2 DEF StoppedInv
  <1>5. CASE JC!Setup(p)
    <2>1. /\ at[p] \in {"sigint", "sigtstp", "sigcont"} /\ UNCHANGED <<mem, os>>
          /\ k \notin {"write", "pause", "sigpipe", "failed"}
      BY <1>1, <1>5 DEF JC!Setup, JC!Main, JC!Move, JobType
    <2>2. \A q \in JC!Jobs : os'.pipe[q] \in {0, q} /\ (os'.pipe[q] = q => at'[q] = "pause")
      BY <1>1, <2>1 DEF PipeInv, JobType
    <2> QED BY <1>1, <1>2, <1>3, <1>4, <2>1, <2>2, StepJobMove
  <1>6. CASE JC!ReadNum(p)
    <2>1. CASE k = "write"
      <3>1. /\ at[p] = "read" /\ (p > 1 => os.pipe[p - 1] > 0)
            /\ mem' = [mem EXCEPT !.num[p] = 1 + IF p = 1 THEN 0 ELSE os.pipe[p - 1]]
            /\ os' = IF p = 1 THEN os ELSE [os EXCEPT !.pipe[p - 1] = 0]
        BY <1>1, <1>6, <2>1 DEF JC!ReadNum, JC!Main, JC!Move, JobType
      <3>2. ASSUME p > 1 PROVE os.pipe[p - 1] = p - 1 /\ at[p - 1] = "pause"
        <4>1. p - 1 \in JC!Jobs
          BY <3>2, SessionsAssumption DEF JC!Jobs
        <4> QED BY <3>1, <3>2, <4>1 DEF PipeInv
      <3>3. mem'.num[p] = p
        <4>1. mem'.num[p] = 1 + IF p = 1 THEN 0 ELSE os.pipe[p - 1]
          BY <3>1 DEF JobType
        <4> QED BY <3>2, <4>1, SessionsAssumption DEF JC!Jobs
      <3>4. \A q \in JC!Jobs : os'.pipe[q] \in {0, os.pipe[q]}
        BY <3>1 DEF JobType
      <3>5. \A q \in JC!Jobs : os'.pipe[q] \in {0, q} /\ (os'.pipe[q] = q => at'[q] = "pause")
        <4>1. \A q \in JC!Jobs : q # 0
          BY SessionsAssumption DEF JC!Jobs
        <4> QED BY <1>1, <3>1, <3>4, <4>1 DEF PipeInv, JobType
      <3> QED BY <1>1, <1>2, <1>3, <1>4, <2>1, <3>1, <3>2, <3>3, <3>5, StepJobMove
    <2>2. CASE k # "write"
      <3>1. /\ at[p] = "read" /\ p > 1 /\ at[p - 1] \in JC!Gone /\ UNCHANGED <<mem, os>> /\ k = "failed"
        BY <1>1, <1>6, <2>2 DEF JC!ReadNum, JC!Main, JC!Move, JobType
      <3>2. \A q \in JC!Jobs : os'.pipe[q] \in {0, q} /\ (os'.pipe[q] = q => at'[q] = "pause")
        BY <1>1, <3>1 DEF PipeInv, JobType
      <3> QED BY <1>1, <1>2, <1>3, <1>4, <3>1, <3>2, StepJobMove
    <2> QED BY <2>1, <2>2
  <1>7. CASE JC!WriteNum(p)
    <2>0. at[p] = "write" /\ mem.num[p] = p /\ (p > 1 => at[p - 1] = "pause") /\ UNCHANGED mem
      BY <1>7 DEF PipeInv, JC!WriteNum, JC!Main, JC!Move
    <2>1. CASE k = "pause"
      <3>1. os' = IF p = JobSize THEN os ELSE [os EXCEPT !.pipe[p] = mem.num[p]]
        BY <1>1, <1>7, <2>1 DEF JC!WriteNum, JC!Main, JC!Move, JobType
      <3>2. \A q \in JC!Jobs : os'.pipe[q] = os.pipe[q] \/ (q = p /\ os'.pipe[q] = p)
        BY <2>0, <3>1 DEF JobType
      <3>3. \A q \in JC!Jobs : os'.pipe[q] \in {0, q} /\ (os'.pipe[q] = q => at'[q] = "pause")
        BY <1>1, <2>1, <3>2 DEF PipeInv, JobType
      <3> QED BY <1>1, <1>2, <1>3, <1>4, <2>0, <2>1, <3>3, StepJobMove
    <2>2. CASE k # "pause"
      <3>1. p < JobSize /\ at[p + 1] \in JC!Gone /\ UNCHANGED <<mem, os>> /\ k = "sigpipe"
        BY <1>1, <1>7, <2>2 DEF JC!WriteNum, JC!Main, JC!Move, JobType
      <3>2. at[p + 1] = "killed"
        <4>1. p + 1 \in JC!Jobs /\ p + 1 > 1 /\ (p + 1) - 1 = p
          BY <3>1, SessionsAssumption DEF JC!Jobs
        <4>2. at[p + 1] \notin {"sigpipe", "failed"}
          BY <2>0, <4>1 DEF PipeInv, JC!Gone
        <4> QED BY <3>1, <4>1, <4>2 DEF JobType, JC!Gone
      <3>3. \A q \in JC!Jobs : os'.pipe[q] \in {0, q} /\ (os'.pipe[q] = q => at'[q] = "pause")
        BY <1>1, <2>0, <3>1 DEF PipeInv, JobType
      <3> QED BY <1>1, <1>2, <1>3, <1>4, <2>0, <3>1, <3>2, <3>3, StepJobMove
    <2> QED BY <2>1, <2>2
  <1> QED BY <1>5, <1>6, <1>7
LEMMA StepJobHandler ==
    ASSUME JobParts, NEW p \in JC!Jobs, JC!Handler(p)
    PROVE  JobParts'
  <1> USE DEF JobParts
  <1>1. PICK s \in os.pending[p] :
          /\ at[p] \notin JC!Gone
          /\ os' = [os EXCEPT !.pending[p] = @ \ {s},
                              !.stopped = IF s = "SIGTSTP" /\ ~JC!Handles(p, s) THEN @ \cup {p} ELSE @]
          /\ mem' = [mem EXCEPT !.tstp = IF s = "SIGTSTP" /\ JC!Handles(p, s) THEN @ \cup {p} ELSE @]
          /\ at' = IF s = "SIGINT" /\ ~JC!Handles(p, s) THEN [at EXCEPT ![p] = "killed"] ELSE at
    BY DEF JC!Handler
  <1>2. /\ DOMAIN mem' = DOMAIN mem /\ DOMAIN os' = DOMAIN os /\ mem'.num = mem.num /\ mem'.late = mem.late
        /\ os'.pipe = os.pipe /\ os'.last = os.last /\ DOMAIN os'.pending = JC!Jobs
        /\ \A q \in JC!Jobs : os'.pending[q] \subseteq os.pending[q]
        /\ s # "SIGTSTP" => mem'.tstp = mem.tstp /\ os'.stopped = os.stopped
    BY <1>1 DEF JobType
  <1>3. StoppedInv'
    BY <1>2 DEF StoppedInv
  <1>4. CASE UNCHANGED at
    <2>1. JobType'
      BY <1>2, <1>4 DEF JobType
    <2>2. PipeInv'
      BY <1>2, <1>4 DEF PipeInv
    <2> QED BY <1>3, <2>1, <2>2
  <1>5. CASE s = "SIGINT" /\ ~JC!Handles(p, s) /\ at' = [at EXCEPT ![p] = "killed"]
    <2>1. at[p] = "sigint"
      BY <1>5 DEF JC!Handles
    <2>2. JobType'
      BY <1>2, <1>5 DEF JobType
    <2>3. \A q \in JC!Jobs : os'.pipe[q] \in {0, q} /\ (os'.pipe[q] = q => at'[q] = "pause")
      BY <1>2, <1>5, <2>1 DEF PipeInv, JobType
    <2> QED BY <1>2, <1>3, <1>5, <2>1, <2>2, <2>3, StepJobMove
  <1> QED BY <1>1, <1>4, <1>5

LEMMA StepJobStop ==
    ASSUME JobParts, NEW p \in JC!Jobs, JC!RaiseStop(p)
    PROVE  JobParts'
  <1> USE DEF JobParts
  <1>1. /\ DOMAIN mem' = DOMAIN mem /\ DOMAIN os' = DOMAIN os /\ mem'.num = mem.num /\ mem'.late = mem.late
        /\ os'.pipe = os.pipe /\ os'.last = os.last /\ DOMAIN os'.pending = JC!Jobs
        /\ \A q \in JC!Jobs : os'.pending[q] \subseteq os.pending[q]
        /\ p \in mem.tstp /\ mem'.tstp = mem.tstp \ {p} /\ os'.stopped = os.stopped \cup {p}
        /\ UNCHANGED at
    BY DEF JC!RaiseStop, JobType
  <1>2. StoppedInv'
    BY <1>1 DEF StoppedInv
  <1>3. JobType'
    BY <1>1 DEF JobType
  <1>4. PipeInv'
    BY <1>1 DEF PipeInv
  <1> QED BY <1>2, <1>3, <1>4

LEMMA StepJobSignal ==
    ASSUME JobParts, NEW s \in {"SIGINT", "SIGTSTP", "SIGCONT"}, JC!JobSignal(s)
    PROVE  JobParts'
  <1> USE DEF JobParts
  <1>1. /\ DOMAIN mem' = DOMAIN mem /\ DOMAIN os' = DOMAIN os /\ mem'.num = mem.num /\ mem'.tstp = mem.tstp
        /\ mem'.late = IF s = "SIGCONT" THEN mem.tstp ELSE mem.late
        /\ os'.pipe = os.pipe /\ os'.last = (IF s = "SIGINT" THEN os.last ELSE s)
        /\ DOMAIN os'.pending = JC!Jobs
        /\ os'.stopped = IF s = "SIGCONT" THEN {} ELSE os.stopped
        /\ \A q \in JC!Jobs : os'.pending[q] = IF at[q] \in JC!Gone THEN {} ELSE JC!Pend(os.pending[q], s)
        /\ UNCHANGED at
    BY DEF JC!JobSignal, JobType
  <1>2. JobType'
    BY <1>1 DEF JobType
  <1>3. PipeInv'
    BY <1>1 DEF PipeInv
  <1>4. StoppedInv'
    <2> SUFFICES ASSUME os'.last = "SIGCONT" PROVE StoppedInv'
      BY DEF StoppedInv
    <2>1. CASE s = "SIGINT"
      <3>1. \A q \in JC!Jobs : os'.pending[q] \subseteq os.pending[q] \cup {"SIGINT"}
        BY <1>1, <2>1 DEF JC!Pend
      <3> QED BY <1>1, <2>1, <3>1 DEF StoppedInv
    <2>2. CASE s = "SIGCONT"
      <3>1. \A q \in JC!Jobs : "SIGTSTP" \notin os'.pending[q]
        <4>1. \A x : JC!Pend(x, "SIGCONT") = (x \ {"SIGTSTP"}) \cup {"SIGCONT"}
          BY DEF JC!Pend
        <4>2. \A q \in JC!Jobs : os'.pending[q] \subseteq (os.pending[q] \ {"SIGTSTP"}) \cup {"SIGCONT"}
          BY <1>1, <2>2, <4>1
        <4> QED BY <4>2
      <3> QED BY <1>1, <2>2, <3>1 DEF StoppedInv
    <2> QED BY <1>1, <2>1, <2>2
  <1> QED BY <1>2, <1>3, <1>4

LEMMA StepSessions ==
    ProgInv /\ OrphanInv /\ HupInv /\ DaemonInv /\ [MCNext]_<<machine, vars>>
        => OrphanInv' /\ HupInv' /\ DaemonInv'
  <1> SUFFICES ASSUME ProgInv, OrphanInv, HupInv, DaemonInv, [MCNext]_<<machine, vars>>
               PROVE  OrphanInv' /\ HupInv' /\ DaemonInv'
    OBVIOUS
  <1>1. mem'.prog = mem.prog
    BY StepProg
  <1>2. mem.prog \in {"orphaned_pgrp", "daemon"} \cup SS!HupProgs => SS!Next \/ UNCHANGED machine
    BY ScriptProg, JobProg DEF MCNext, machine, Runs, SS!HupProgs, JC!Progs
  <1>3. ASSUME Runs("orphaned_pgrp") PROVE OrphanParts'
    <2>1. SS!OrphanNext \/ UNCHANGED machine
      BY <1>2, <1>3 DEF Runs, SS!Runs, SS!Next, SS!HupNext, SS!Process, SS!HupClock, SS!HupIdle,
         SS!HupProgs,
         SS!DaemonNext, SS!Returned
    <2>2. UNCHANGED machine => OrphanParts'
      BY <1>3 DEF machine, OrphanInv, OrphanParts, Runs
    <2> QED BY <1>3, <2>1, <2>2, StepOrphan DEF OrphanInv
  <1>4. ASSUME mem.prog \in SS!HupProgs PROVE HupParts'
    <2>1. SS!HupNext \/ UNCHANGED machine
      BY <1>2, <1>4 DEF SS!Runs, SS!Next, SS!OrphanNext, SS!Parent, SS!Child, SS!OrphanClock,
         SS!OrphanIdle,
         SS!HupProgs, SS!DaemonNext, SS!Returned
    <2>2. UNCHANGED machine => HupParts'
      BY <1>4 DEF machine, HupInv, HupParts, HupType, HupPlace, HupHandles, HupSent, HupSettled,
         HupChild, Runs
    <2> QED BY <1>4, <2>1, <2>2, StepHup DEF HupInv
  <1>5. ASSUME Runs("daemon") PROVE DaemonParts'
    <2>1. SS!DaemonNext \/ UNCHANGED machine
      BY <1>2, <1>5 DEF Runs, SS!Runs, SS!Next, SS!HupNext, SS!Process, SS!HupClock, SS!HupIdle,
         SS!HupProgs,
         SS!OrphanNext, SS!Parent, SS!Child, SS!OrphanClock, SS!OrphanIdle
    <2>2. UNCHANGED machine => DaemonParts'
      BY <1>5 DEF machine, DaemonInv, DaemonParts, ClosedInv, SS!maxfd
    <2> QED BY <1>5, <2>1, <2>2, StepDaemon DEF DaemonInv
  <1> QED BY <1>1, <1>3, <1>4, <1>5 DEF OrphanInv, HupInv, DaemonInv, Runs

LEMMA StepJobs ==
    ProgInv /\ JobInv /\ TstpInv /\ TtouInv /\ [MCNext]_<<machine, vars>> => JobInv' /\ TstpInv' /\ TtouInv'
  <1> SUFFICES ASSUME ProgInv, JobInv, TstpInv, TtouInv, [MCNext]_<<machine, vars>>
               PROVE  JobInv' /\ TstpInv' /\ TtouInv'
    OBVIOUS
  <1>1. mem'.prog = mem.prog
    BY StepProg
  <1>2. mem.prog \in JC!Progs => JC!Next \/ UNCHANGED machine
    BY ScriptProg, SessionsProg DEF MCNext, machine, Runs, SS!HupProgs, JC!Progs
  <1>3. ASSUME Runs("job_mon") PROVE JobParts'
    <2>1. \/ \E p \in JC!Jobs : JC!job_mon(p)
          \/ \E s \in {"SIGINT", "SIGTSTP", "SIGCONT"} : JC!JobSignal(s)
          \/ UNCHANGED machine
      BY <1>2, <1>3 DEF Runs, JC!Runs, JC!Progs, JC!Next, JC!Job, JC!Program, JC!User, JC!Waiting,
         JC!machine, machine
    <2>2. JobParts
      BY <1>3 DEF JobInv, JobParts
    <2>3. UNCHANGED machine => JobParts'
      BY <2>2 DEF machine, JobParts, JobType, PipeInv, StoppedInv
    <2> QED BY <2>1, <2>2, <2>3, StepJobRun, StepJobHandler, StepJobStop, StepJobSignal DEF JC!job_mon
  <1>4. ASSUME Runs("handling_SIGTSTP") PROVE TstpParts'
    <2>1. \/ JC!handling_SIGTSTP
          \/ \E s \in {"SIGINT", "SIGTSTP", "SIGCONT"} : JC!TstpSignal(s)
          \/ UNCHANGED machine
      BY <1>2, <1>4 DEF Runs, JC!Runs, JC!Progs, JC!Next, JC!Job, JC!Program, JC!User, JC!Waiting,
         JC!machine, machine
    <2> QED BY <1>4, <2>1, StepTstpProg DEF TstpInv
  <1>5. ASSUME Runs("sigttou") PROVE TtouParts'
    <2>1. \/ JC!sigttou
          \/ \E s \in {"SIGINT", "SIGTSTP", "SIGCONT"} : JC!TtouSignal(s)
          \/ UNCHANGED machine
      BY <1>2, <1>5 DEF Runs, JC!Runs, JC!Progs, JC!Next, JC!Job, JC!Program, JC!User, JC!Waiting,
         JC!machine, machine
    <2> QED BY <1>5, <2>1, StepTtou DEF TtouInv
  <1> QED BY <1>1, <1>3, <1>4, <1>5 DEF JobInv, TstpInv, TtouInv, JobParts, Runs

(* orphaned_pgrp_SIGHUP.c, catch_SIGHUP.c, disc_SIGHUP.c,                   *)
(* sighup-process.c, become_daemon.c, job_mon.c, handling_SIGTSTP.c and    *)
(* sigttou.c: a stopped member of an orphaned group resumes only with      *)
(* SIGHUP and SIGCONT; SIGHUP reaches the foreground group and nobody      *)
(* else; a daemon is detached; a pipeline counts its positions, and a      *)
(* process stays stopped only where SIGCONT met it in its handler.         *)
THEOREM SessionsAlways == MCSpec => []SessionsTrue
  <1> DEFINE Inv == /\ ProgInv /\ OrphanInv /\ HupInv /\ DaemonInv
                    /\ JobInv /\ TstpInv /\ TtouInv
  <1>1. MCInit => Inv
    BY InitProg, InitSessions, InitJobs
  <1>2. Inv /\ [MCNext]_<<machine, vars>> => Inv'
    BY StepProg, StepSessions, StepJobs
  <1>3. Inv => SessionsTrue
    <2> SUFFICES ASSUME Inv PROVE SessionsTrue
      OBVIOUS
    <2>1. SS!HangupReachesAll
      BY DEF SS!HangupReachesAll, OrphanInv, OrphanParts, Both, Runs, SS!Runs
    <2>2. SS!HangupTrue
      <3> SUFFICES ASSUME mem.prog \in SS!HupProgs, HupParts PROVE SS!HangupTrue
        BY DEF HupInv, SS!HangupTrue
      <3> QED BY DEF SS!HangupTrue, HupParts, HupSent, HupSettled, HupChild, Runs, SS!Runs
    <2>3. SS!DaemonDetached
      BY DEF SS!DaemonDetached, DaemonInv, DaemonParts, ClosedInv, SS!maxfd, Runs, SS!Runs
    <2>4. JC!JobsTrue
      <3>1. Runs("job_mon") => \A p \in JC!Jobs :
              /\ at[p] \in {"write", "pause"} => mem.num[p] = p
              /\ at[p] = "failed" => \E q \in 1 .. p - 1 : at[q] \in {"killed", "sigpipe"}
              /\ at[p] = "sigpipe" => at[p + 1] = "killed"
              /\ p \in os.stopped /\ os.last = "SIGCONT" => p \in mem.late
        BY DEF JobInv, JobParts, PipeInv, StoppedInv
      <3>2. Runs("handling_SIGTSTP") /\ os.disp # "SIG_IGN" =>
              /\ os.last = "SIGTSTP" => os.pending \/ os.stopped \/ at.hnd \in {"default", "raise"}
              /\ at.hnd = "none" /\ at.main = "pause" => os.disp = "handler" /\ ~os.blocked
        BY DEF TstpInv, TstpParts
      <3>3. Runs("sigttou") /\ at.parent \in JC!Gone => at.child # "stopped"
        BY DEF TtouInv, TtouParts
      <3> QED BY <3>1, <3>2, <3>3 DEF JC!JobsTrue, Runs, JC!Runs
    <2> QED BY <2>1, <2>2, <2>3, <2>4 DEF SessionsTrue
  <1> QED BY <1>1, <1>2, <1>3, PTL DEF MCSpec
=============================================================================
