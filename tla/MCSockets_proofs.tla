-------------------------- MODULE MCSockets_proofs --------------------------
(***************************************************************************)
(* is_echo_sv.c with any number of clients of either kind and any amount   *)
(* of input: no zombie is forgotten, and is_echo_cl.c prints all it sent.  *)
(* scm_rights_recv.c and scm_cred_recv.c with any number of senders: the   *)
(* file stays open under its receiver and is read from where the sender    *)
(* left it, and credentials are those of their sender.  The datagram       *)
(* services, us_xfr and socketpair-sample with any number of clients and   *)
(* servers: every answer belongs to its question, and every byte arrives.  *)
(***************************************************************************)
EXTENDS MCSockets, Sequences, FiniteSetTheorems, TLAPS

BasicType ==
    /\ kind \in [Clients -> {"fork", "nofork"}]
    /\ cli \in [Clients -> {"connect", "send", "receive", "shut", "closed", "failed"}]
    /\ rd \in [Clients -> {"none", "read", "eof"}]
    /\ backlog \subseteq Clients
    /\ sv \in {"accept", "stop", "fork", "close", "exited"}
    /\ cfd \in Clients \cup {"none"}
    /\ ch \in [Clients -> {"none", "read", "write", "zombie", "reaped", "refused"}]
    /\ sent \in [Clients -> 0 .. Pieces] /\ rcvd \in [Clients -> 0 .. Pieces]
    /\ svRead \in [Clients -> 0 .. Pieces] /\ echoed \in [Clients -> 0 .. Pieces]
    /\ hpc \in {"none", "reap"}

(* The bytes of one connection: nothing is received that was not echoed,   *)
(* echoed that was not read, or read that was not sent; handleRequest()    *)
(* has written all it read whenever it is not about to write.              *)
BytesInv(c) ==
    /\ rcvd[c] <= echoed[c] /\ echoed[c] <= svRead[c] /\ svRead[c] <= sent[c]
    /\ ch[c] \in {"none", "read", "refused"} => echoed[c] = svRead[c]

(* The two processes of is_echo_cl.c, the one of is_echo_cl_nofork.c. *)
ClientInv(c) ==
    /\ kind[c] = "fork" => cli[c] \notin {"receive", "closed"}
    /\ kind[c] = "nofork" => rd[c] = "none" /\ cli[c] # "shut"
    /\ cli[c] = "connect" => rd[c] = "none"
    /\ cli[c] = "shut" => sent[c] = Pieces

(* A connection is in the backlog, or in cfd, or has (had) its child. *)
PlaceInv(c) ==
    /\ cli[c] = "connect" => c \notin backlog /\ cfd # c /\ ch[c] = "none"
    /\ c \in backlog => ch[c] = "none" /\ cfd # c
    /\ cfd = c => (sv = "close" <=> ch[c] # "none")
    /\ cli[c] \notin {"connect", "failed"} => c \in backlog \/ cfd = c \/ ch[c] # "none"

(* Why the server's end of an is_echo_cl.c connection gets closed: the     *)
(* client failed, the server refused it, or everything was echoed.         *)
EndInv(c) ==
    kind[c] = "fork" /\ cli[c] # "failed" =>
        /\ ch[c] \in {"zombie", "reaped"} => cli[c] = "shut" /\ echoed[c] = Pieces
        /\ rd[c] = "eof" => /\ ch[c] \in {"zombie", "reaped", "refused"}
                            /\ rcvd[c] = echoed[c]

ServerInv ==
    sv \in {"stop", "fork", "close"} <=> cfd # "none"

ConnectionInv(c) == BytesInv(c) /\ ClientInv(c) /\ PlaceInv(c) /\ EndInv(c)

ControlInv == BasicType /\ ServerInv /\ \A c \in Clients : ConnectionInv(c)

ZombieInv == pending \in BOOLEAN /\ NoForgottenZombie

IInv == ControlInv /\ ZombieInv

-----------------------------------------------------------------------------
(* The invariant holds initially. *)
LEMMA InitIInv == Init => IInv
  <1> SUFFICES ASSUME Init PROVE IInv
    OBVIOUS
  <1> USE DEF Init
  <1>1. BasicType /\ ServerInv
    BY ConstantsAssumption DEF BasicType, ServerInv
  <1>2. ASSUME NEW c \in Clients PROVE ConnectionInv(c)
    BY ConstantsAssumption DEF ConnectionInv, BytesInv, ClientInv, PlaceInv, EndInv
  <1>3. ZombieInv
    BY Zenon DEF ZombieInv, NoForgottenZombie
  <1> QED BY <1>1, <1>2, <1>3 DEF IInv, ControlInv

(* Every zombie outside grimReaper() keeps its SIGCHLD pending: a child    *)
(* raises it again when it ends, and the loop of grimReaper() stops only   *)
(* when no zombie is left.                                                 *)
LEMMA StepZombie == IInv /\ [Next]_vars => ZombieInv'
  <1> SUFFICES ASSUME IInv, [Next]_vars PROVE ZombieInv'
    OBVIOUS
  <1>a. ZombieInv /\ ch \in [Clients -> {"none", "read", "write", "zombie", "reaped", "refused"}]
    BY DEF IInv, ControlInv, BasicType
  <1>b. cfd \in Clients \cup {"none"}
    BY DEF IInv, ControlInv, BasicType
  <1> USE DEF ZombieInv, NoForgottenZombie
  <1>1. ASSUME NEW c \in Clients, Sending(c) \/ ConnectFails(c) PROVE ZombieInv'
    BY <1>a, <1>1, Zenon
    DEF Sending, Connect, ClientSend, ClientShutdown, ClientReceive, ConnectFails, childVars
  <1>2. CASE Accept \/ Stop \/ Close
    BY <1>a, <1>2, Zenon DEF Accept, Stop, Close, At, childVars
  <1>c. CASE AcceptFails
    BY <1>a, <1>c, Zenon DEF AcceptFails
  <1>3. CASE Fork \/ ForkFails
    <2>1. (\E c \in Clients : ch'[c] = "zombie") => (\E c \in Clients : ch[c] = "zombie")
      BY <1>a, <1>3 DEF Fork, ForkFails
    <2>2. UNCHANGED <<hpc, pending>> /\ sv = "fork"
      BY <1>3, Zenon DEF Fork, ForkFails, At
    <2> QED BY <1>a, <2>1, <2>2, Zenon
  <1>4. CASE grimReaper
    BY <1>a, <1>4, Zenon DEF grimReaper, Deliver, Reap, Reaped, childVars
  <1>5. ASSUME NEW c \in Clients, ChildRead(c) PROVE ZombieInv'
    <2>1. (\E d \in Clients : ch'[d] = "zombie") => (\E d \in Clients : ch[d] = "zombie")
      BY <1>a, <1>5 DEF ChildRead
    <2> QED BY <1>a, <1>5, <2>1, Zenon DEF ChildRead
  <1>6. ASSUME NEW c \in Clients, ChildReadEnds(c) PROVE ZombieInv'
    BY <1>a, <1>6, Zenon DEF ChildReadEnds, ChildEnd
  <1>7. ASSUME NEW c \in Clients, ChildWrite(c) PROVE ZombieInv'
    <2>1. CASE ClientGone(c)
      BY <1>a, <1>7, <2>1, Zenon DEF ChildWrite, ChildEnd
    <2>2. CASE ~ClientGone(c)
      <3>1. (\E d \in Clients : ch'[d] = "zombie") => (\E d \in Clients : ch[d] = "zombie")
        BY <1>a, <1>7, <2>2 DEF ChildWrite
      <3> QED BY <1>a, <1>7, <2>2, <3>1, Zenon DEF ChildWrite
    <2> QED BY <2>1, <2>2
  <1>8. CASE UNCHANGED vars
    BY <1>a, <1>8, Zenon DEF vars, childVars
  <1> QED
    BY <1>1, <1>2, <1>c, <1>3, <1>4, <1>5, <1>6, <1>7, <1>8, Zenon
    DEF Next, Server, Client, is_echo_cl, is_echo_cl_nofork, handleRequest

(* The control part: one step per action. *)
LEMMA StepControl == IInv /\ [Next]_vars => ControlInv'
  <1> SUFFICES ASSUME IInv, [Next]_vars PROVE ControlInv'
    OBVIOUS
  <1>a. ControlInv
    BY DEF IInv
  <1> USE <1>a, ConstantsAssumption DEF ControlInv, BasicType, ServerInv, ConnectionInv
  <1> DEFINE Goal == BasicType' /\ ServerInv' /\ \A d \in Clients : ConnectionInv(d)'
  <1> SUFFICES Goal
    OBVIOUS
  <1> USE DEF BytesInv, ClientInv, PlaceInv, EndInv
  <1>1. ASSUME NEW c \in Clients, Connect(c) PROVE Goal
    BY <1>1 DEF Connect, childVars
  <1>2. ASSUME NEW c \in Clients, ConnectFails(c) PROVE Goal
    BY <1>2 DEF ConnectFails, childVars
  <1>3. ASSUME NEW c \in Clients, ClientSend(c) PROVE Goal
    BY <1>3 DEF ClientSend, childVars
  <1>4. ASSUME NEW c \in Clients, ClientShutdown(c) PROVE Goal
    BY <1>4 DEF ClientShutdown, childVars
  <1>5. ASSUME NEW c \in Clients, ClientReceive(c) PROVE Goal
    BY <1>5 DEF ClientReceive, ServerClosed, Handling, childVars
  <1>6. CASE Accept
    BY <1>6 DEF Accept, At, clientVars, childVars
  <1>7. CASE Stop
    BY <1>7 DEF Stop, At, clientVars, childVars
  <1>17. CASE AcceptFails
    BY <1>17 DEF AcceptFails, At, clientVars
  <1>8. CASE Fork
    BY <1>8 DEF Fork, At, clientVars
  <1>9. CASE ForkFails
    BY <1>9 DEF ForkFails, At, clientVars
  <1>10. CASE Close
    BY <1>10 DEF Close, At, clientVars, childVars
  <1>11. CASE Deliver \/ Reaped
    BY <1>11 DEF Deliver, Reaped, clientVars, childVars
  <1>12. CASE Reap
    BY <1>12 DEF Reap, clientVars
  <1>13. ASSUME NEW c \in Clients, ChildRead(c) PROVE Goal
    BY <1>13 DEF ChildRead, clientVars
  <1>14. ASSUME NEW c \in Clients, ChildReadEnds(c) PROVE Goal
    BY <1>14 DEF ChildReadEnds, ChildEnd, ClientEof, ClientGone, clientVars
  <1>15. ASSUME NEW c \in Clients, ChildWrite(c) PROVE Goal
    BY <1>15 DEF ChildWrite, ChildEnd, ClientGone, clientVars
  <1>16. CASE UNCHANGED vars
    BY <1>16 DEF vars, clientVars, childVars
  <1> QED
    BY <1>1, <1>2, <1>3, <1>4, <1>5, <1>6, <1>7, <1>8, <1>9, <1>10, <1>11, <1>12, <1>13,
       <1>14, <1>15, <1>16, <1>17, Zenon
    DEF Next, Server, Client, Sending, is_echo_cl, is_echo_cl_nofork, grimReaper, handleRequest

-----------------------------------------------------------------------------
(* The invariant holds in every reachable state. *)
LEMMA Invariant == MCSpec => []IInv
  <1>1. MCInit => IInv
    BY InitIInv DEF MCInit
  <1>2. [MCNext]_<<machine, vars>> => [Next]_vars
    BY DEF MCNext
  <1>3. IInv /\ [Next]_vars => IInv'
    BY StepControl, StepZombie DEF IInv
  <1> QED BY <1>1, <1>2, <1>3, PTL DEF MCSpec

(* Every variable of the server, its children and the clients keeps its    *)
(* type; no counter passes the amount of input.                            *)
THEOREM TypeCorrect == MCSpec => []TypeOK
  <1>1. IInv => TypeOK
    BY Zenon DEF IInv, ControlInv, ZombieInv, BasicType, TypeOK
  <1> QED BY <1>1, Invariant, PTL

(* However many children end while SIGCHLD is pending or handled, none is  *)
(* left a zombie without a SIGCHLD to come.                                *)
THEOREM ZombiesRemembered == MCSpec => []NoForgottenZombie
  <1>1. IInv => NoForgottenZombie
    BY Zenon DEF IInv, ZombieInv
  <1> QED BY <1>1, Invariant, PTL

(* is_echo_cl.c's receiving child sees EOF only after every piece has come *)
(* back, unless the server could not fork or ended before it accepted the  *)
(* connection, or the sending process failed.                              *)
THEOREM EchoIsComplete == MCSpec => []EchoComplete
  <1>1. IInv => EchoComplete
    BY DEF IInv, ControlInv, BasicType, ConnectionInv, EndInv, EchoComplete
  <1> QED BY <1>1, Invariant, PTL

(* Nothing is received, echoed or read on a connection that was not        *)
(* echoed, read or sent before, whichever processes have ended.            *)
THEOREM NothingInvented ==
    MCSpec => [](\A c \in Clients : /\ rcvd[c] <= echoed[c] /\ echoed[c] <= svRead[c]
                                    /\ svRead[c] <= sent[c] /\ sent[c] <= Pieces)
  <1>1. IInv => \A c \in Clients : /\ rcvd[c] <= echoed[c] /\ echoed[c] <= svRead[c]
                                   /\ svRead[c] <= sent[c] /\ sent[c] <= Pieces
    BY ConstantsAssumption DEF IInv, ControlInv, BasicType, ConnectionInv, BytesInv
  <1> QED BY <1>1, Invariant, PTL

-----------------------------------------------------------------------------
(* Which program runs never changes. *)
TransferProgs == TR!Progs \cup {"us_xfr", "socketpair"}

ProgInv == "prog" \in DOMAIN mem /\ mem.prog \in {"none"} \cup TransferProgs \cup SC!Progs

ScmProcs == Senders \cup {"recv"}

ScmMem ==
    mem \in [prog : SC!Progs, dgram : [ScmProcs -> BOOLEAN],
             creds : [Senders -> {"none", "own", "other"}], priv : BOOLEAN, len : Nat,
             got : SUBSET (Senders \X {"none", "fd", "own", "other", "nobody"}), out : Seq(Nat)]

ScmAt ==
    at \in [ScmProcs -> {"start", "connect", "sendmsg", "stop", "exit", "failed", "bind", "listen",
                         "accept", "setsockopt", "recvmsg", "read", "done"}]

ScmOs ==
    os \in [path : {"none", "stale", "bound"}, queue : Seq(Senders), conn : SUBSET Senders,
            msg : [Senders -> {"none", "fd", "own", "other", "nobody"}], ended : SUBSET Senders,
            passcred : BOOLEAN,
            file : [Senders -> [offset : Nat, holders : SUBSET (ScmProcs \cup {"flight"})]]]

(* A message is the sender's own, and a sender that has ended sends none.  *)
MsgInv ==
    \A s \in Senders :
        /\ os.msg[s] # "none" => at[s] \in {"stop", "exit"}
        /\ s \in os.ended => at[s] \in {"exit", "failed"}
        /\ ~SC!Rights => \/ os.msg[s] \in {"none", "own"}
                         \/ os.msg[s] = "other" /\ mem.creds[s] = "other" /\ mem.priv
                         \/ os.msg[s] = "nobody" /\ mem.creds[s] = "none"

(* scm_rights: one message is taken; the receiver holds its file open, and *)
(* nobody but the receiver moves the offset its sender set.                *)
FileInv ==
    SC!Rights =>
        /\ at["recv"] \notin {"read", "done"} => mem.got = {} /\ mem.out = <<>>
        /\ \A g, h \in mem.got : g = h
        /\ \A g \in mem.got : /\ os.msg[g[1]] # "none"
                              /\ "recv" \in os.file[g[1]].holders
                              /\ os.file[g[1]].offset = Skip + Len(mem.out)
        /\ \A s \in Senders : (at[s] # "start" /\ \A g \in mem.got : g[1] # s)
                                  => os.file[s].offset = Skip
        /\ \A k \in 1 .. Len(mem.out) : mem.out[k] = Skip + k
        /\ Len(mem.out) > 0 => Skip + Len(mem.out) <= mem.len
        /\ at["recv"] = "done" /\ mem.len > Skip /\ mem.got # {} => Len(mem.out) = mem.len - Skip

(* scm_cred: what was taken is a message, or the end of a connection whose *)
(* sender sent none.                                                       *)
CredInv ==
    ~SC!Rights =>
        /\ at["recv"] \in {"recvmsg", "read", "done"} => os.passcred
        /\ \A g \in mem.got : \/ g[2] = "own"
                              \/ g[2] = "other" /\ mem.creds[g[1]] = "other" /\ mem.priv
                              \/ g[2] = "nobody" /\ (mem.creds[g[1]] = "none" \/ SC!Silent(g[1]))
        /\ at["recv"] = "failed" => \E s \in os.conn : SC!Silent(s)

ScmInv ==
    mem.prog \in SC!Progs => ScmMem /\ ScmAt /\ ScmOs /\ MsgInv /\ FileInv /\ CredInv

(* The programs start as themselves, and senders as nobody's partner. *)
LEMMA InitScm == MCInit => ProgInv /\ ScmInv
  <1> SUFFICES ASSUME MCInit PROVE ProgInv /\ ScmInv
    OBVIOUS
  <1> USE DEF ProgInv, TransferProgs, TR!Progs, SC!Progs
  <1>1. CASE NotRunning
    BY <1>1 DEF NotRunning, ScmInv
  <1>2. CASE TR!Init
    BY <1>2 DEF TR!Init, TR!DgInit, TR!UnixInit, TR!XfrInit, TR!PairInit, ScmInv
  <1>3. CASE SC!Init
    <2>1. PICK prog \in SC!Progs, dgram \in [Senders \cup {"recv"} -> BOOLEAN],
               creds \in [Senders -> {"none", "own", "other"}], priv \in BOOLEAN,
               len \in 0 .. MaxBlocks, path \in {"none", "stale"} :
               /\ IF prog = "scm_cred" THEN len = 0 ELSE creds = [s \in Senders |-> "none"] /\ ~priv
               /\ mem = [prog |-> prog, dgram |-> dgram, creds |-> creds, priv |-> priv,
                         len |-> len, got |-> {}, out |-> <<>>]
               /\ at = [p \in Senders \cup {"recv"} |-> "start"]
               /\ os = [path |-> path, queue |-> <<>>, conn |-> {}, msg |-> [s \in Senders |-> "none"],
                        ended |-> {}, passcred |-> FALSE,
                        file |-> [s \in Senders |-> [offset |-> 0, holders |-> {}]]]
      BY ONLY <1>3, Zenon DEF SC!Init
    <2>2. ScmMem
      BY <2>1, ScmAssumption DEF ScmMem, ScmProcs
    <2>3. ScmAt /\ ScmOs
      BY <2>1 DEF ScmAt, ScmOs, ScmProcs
    <2>4. MsgInv /\ FileInv /\ CredInv
      BY <2>1 DEF MsgInv, FileInv, CredInv, ScmProcs
    <2> QED BY <2>1, <2>2, <2>3, <2>4 DEF ScmInv
  <1> QED BY <1>1, <1>2, <1>3 DEF MCInit

(* A step of the transfers is none of scm_*, and leaves mem.prog alone. *)
LEMMA TransfersKeep ==
    ASSUME ProgInv, TR!Next
    PROVE  mem.prog \in TransferProgs /\ mem'.prog = mem.prog /\ "prog" \in DOMAIN mem'
  <1> USE DEF ProgInv, TransferProgs
  <1>1. mem.prog \in TransferProgs
    BY DEF TR!Next, TR!DgNext, TR!DgServer, TR!DgClient, TR!UnixNext, TR!XfrServer, TR!XfrClient,
       TR!Pair, TR!Runs
  <1>2. CASE TR!server
    BY <1>1, <1>2 DEF TR!server, TR!DgBind, TR!Recvfrom, TR!Sendto
  <1>3. ASSUME NEW c \in DgClients, TR!client(c) \/ TR!Kill(c)
        PROVE  mem'.prog = mem.prog /\ "prog" \in DOMAIN mem'
    BY <1>3 DEF TR!client, TR!Open, TR!DgSend, TR!SendToNobody, TR!Refused, TR!Receive, TR!Kill
  <1>4. ASSUME NEW s \in XfrServers, TR!us_xfr_sv(s)
        PROVE  mem'.prog = mem.prog /\ "prog" \in DOMAIN mem'
    BY <1>4 DEF TR!us_xfr_sv, TR!RemoveName, TR!XfrBind, TR!BindFails, TR!Listen, TR!Accept, TR!Read,
       TR!WriteOut, TR!EndOfFile, TR!Fault
  <1>5. ASSUME NEW c \in XfrClients, TR!us_xfr_cl(c)
        PROVE  mem'.prog = mem.prog /\ "prog" \in DOMAIN mem'
    BY <1>5 DEF TR!us_xfr_cl, TR!Connect, TR!ConnectFails, TR!ReadStdin, TR!XfrSend, TR!Exit
  <1>6. ASSUME NEW p, TR!XfrKilled(p) \/ TR!PairKilled(p)
        PROVE  mem'.prog = mem.prog /\ "prog" \in DOMAIN mem'
    BY <1>6 DEF TR!XfrKilled, TR!Fault, TR!PairKilled, TR!PairEnd
  <1>7. CASE TR!socketpair
    <2>1. ASSUME NEW p, NEW q, NEW l, NEW k, TR!PairRead(p, q, l, k)
          PROVE  mem'.prog = mem.prog /\ "prog" \in DOMAIN mem'
      BY <2>1 DEF TR!PairRead
    <2>2. CASE TR!PairFork
      <3>1. mem' = mem \/ mem' = [mem EXCEPT !.forked = TRUE]
        BY <2>2, Zenon DEF TR!PairFork
      <3> QED BY <1>1, <3>1
    <2>3. CASE TR!PairChild
      <3>1. mem' = mem \/ TR!PairRead("child", "parent", "read", "write")
        BY <2>3, Zenon DEF TR!PairChild, TR!PairClose, TR!PairWrite, TR!PairEnd
      <3> QED BY <1>1, <2>1, <3>1
    <2>4. CASE TR!PairParent
      <3>1. mem' = mem \/ TR!PairFork \/ TR!PairRead("parent", "child", "read", "wait")
        BY <2>4, Zenon DEF TR!PairParent, TR!PairClose, TR!PairWrite, TR!PairEnd
      <3> QED BY <1>1, <2>1, <2>2, <3>1
    <2> QED BY <1>7, <2>3, <2>4 DEF TR!socketpair
  <1> QED
    BY <1>1, <1>2, <1>3, <1>4, <1>5, <1>6, <1>7
    DEF TR!Next, TR!DgNext, TR!DgServer, TR!DgClient, TR!UnixNext, TR!XfrServer, TR!XfrClient, TR!Pair

-----------------------------------------------------------------------------
ScmType == ScmMem /\ ScmAt /\ ScmOs
ScmParts == MsgInv /\ FileInv /\ CredInv

(* A sender that finds no receiver, or connects, has sent nothing yet. *)
LEMMA SenderQuiet ==
    ASSUME ScmType, ScmParts, NEW s \in Senders, NEW k \in {"sendmsg", "failed"},
           at[s] = "connect", at' = [at EXCEPT ![s] = k], mem' = mem,
           os'.msg = os.msg, os'.ended = os.ended, os'.file = os.file, os'.conn = os.conn,
           os'.passcred = os.passcred
    PROVE  ScmAt' /\ ScmMem' /\ ScmParts'
  <1> USE ScmAssumption DEF ScmType, ScmProcs
  <1>1. ScmAt' /\ ScmMem'
    BY DEF ScmAt, ScmMem
  <1>2. at'["recv"] = at["recv"] /\ at'[s] = k /\ \A t \in Senders \ {s} : at'[t] = at[t]
    BY DEF ScmAt
  <1>3. MsgInv'
    BY <1>2 DEF ScmParts, MsgInv, SC!Rights
  <1>4. FileInv'
    BY <1>2 DEF ScmParts, FileInv, SC!Rights
  <1>5. CredInv'
    BY <1>2 DEF ScmParts, CredInv, SC!Rights, SC!Silent
  <1> QED BY <1>1, <1>3, <1>4, <1>5 DEF ScmParts

(* The receiver on its way to recvmsg(). *)
LEMMA ReceiverQuiet ==
    ASSUME ScmType, ScmParts,
           NEW k \in {"bind", "listen", "accept", "setsockopt", "recvmsg", "failed"},
           at["recv"] \in {"start", "bind", "listen", "accept", "setsockopt"},
           at' = [at EXCEPT !["recv"] = k], mem' = mem,
           os'.msg = os.msg, os'.ended = os.ended, os'.file = os.file,
           k = "recvmsg" => SC!Rights \/ os'.passcred, k = "failed" => SC!Rights
    PROVE  ScmAt' /\ ScmMem' /\ ScmParts'
  <1> USE ScmAssumption DEF ScmType, ScmProcs
  <1>1. ScmAt' /\ ScmMem'
    BY DEF ScmAt, ScmMem
  <1>2. at'["recv"] = k /\ \A t \in Senders : at'[t] = at[t]
    BY DEF ScmAt
  <1>3. MsgInv'
    BY <1>2 DEF ScmParts, MsgInv, SC!Rights
  <1>4. FileInv'
    BY <1>2 DEF ScmParts, FileInv, SC!Rights
  <1>5. CredInv'
    BY <1>2 DEF ScmParts, CredInv, SC!Rights, SC!Silent
  <1> QED BY <1>1, <1>3, <1>4, <1>5 DEF ScmParts

(* The file is opened, and moved to Skip, before its sender connects. *)
LEMMA StepOpen ==
    ASSUME ScmType, ScmParts, NEW s \in Senders, SC!OpenFile(s) PROVE ScmType' /\ mem' = mem /\ ScmParts'
  <1> USE ScmAssumption DEF ScmType, ScmProcs
  <1>1. at[s] = "start" /\ at' = [at EXCEPT ![s] = "connect"] /\ mem' = mem
    BY DEF SC!OpenFile, SC!Move
  <1>2. ScmAt' /\ ScmMem'
    BY <1>1 DEF ScmAt, ScmMem
  <1>3. at'["recv"] = at["recv"] /\ at'[s] = "connect" /\ \A t \in Senders \ {s} : at'[t] = at[t]
    BY <1>1 DEF ScmAt
  <1>4. CASE SC!Rights
    <2>1. os' = [os EXCEPT !.file[s] = [offset |-> Skip, holders |-> {s}]]
      BY <1>4 DEF SC!OpenFile
    <2>2. /\ os'.msg = os.msg /\ os'.ended = os.ended /\ os'.conn = os.conn
          /\ os'.file = [os.file EXCEPT ![s] = [offset |-> Skip, holders |-> {s}]]
      BY <2>1 DEF ScmOs
    <2>3. ScmOs'
      <3>1. os'.file \in [Senders -> [offset : Nat, holders : SUBSET (ScmProcs \cup {"flight"})]]
        BY <2>2 DEF ScmOs
      <3>2. os' = [os EXCEPT !.file = os'.file]
        BY <2>1, <2>2 DEF ScmOs
      <3> QED BY <3>1, <3>2 DEF ScmOs
    <2>4. MsgInv'
      BY <1>1, <1>3, <2>2 DEF ScmParts, MsgInv, SC!Rights
    <2>5. FileInv'
      <3>1. \A g \in mem.got : g[1] \in Senders /\ g[1] # s
        BY <1>1, <1>4 DEF ScmParts, FileInv, MsgInv, ScmMem
      <3>2. os'.file[s].offset = Skip /\ \A t \in Senders \ {s} : os'.file[t] = os.file[t]
        BY <2>2 DEF ScmOs
      <3> QED BY <1>1, <1>3, <1>4, <2>2, <3>1, <3>2 DEF ScmParts, FileInv, SC!Rights
    <2>6. CredInv'
      BY <1>1, <1>4 DEF CredInv, SC!Rights
    <2> QED BY <1>1, <1>2, <2>3, <2>4, <2>5, <2>6 DEF ScmParts
  <1>5. CASE ~SC!Rights
    <2>1. os' = os
      BY <1>5 DEF SC!OpenFile
    <2>2. MsgInv' /\ CredInv'
      BY <1>1, <1>3, <2>1 DEF ScmParts, MsgInv, CredInv, SC!Rights, SC!Silent
    <2>3. FileInv'
      BY <1>1, <1>5 DEF FileInv, SC!Rights
    <2> QED BY <1>1, <1>2, <2>1, <2>2, <2>3 DEF ScmParts, ScmOs
  <1> QED BY <1>4, <1>5

(* What a scm_cred_send puts into its message, or the kernel for it. *)
LEMMA CredentialsRight ==
    ASSUME ScmType, NEW s \in Senders, mem.creds[s] = "other" => mem.priv
    PROVE  \/ SC!Credentials(s) = "own"
           \/ SC!Credentials(s) = "other" /\ mem.creds[s] = "other" /\ mem.priv
           \/ SC!Credentials(s) = "nobody" /\ mem.creds[s] = "none"
  <1>1. mem.creds[s] \in {"none", "own", "other"}
    BY DEF ScmType, ScmMem
  <1>2. CASE mem.creds[s] # "none"
    BY <1>1, <1>2 DEF SC!Credentials
  <1>3. CASE mem.creds[s] = "none" /\ (os.passcred \/ (~mem.dgram[s] /\ s \notin os.conn))
    BY <1>3 DEF SC!Credentials
  <1>4. CASE mem.creds[s] = "none" /\ ~(os.passcred \/ (~mem.dgram[s] /\ s \notin os.conn))
    BY <1>4 DEF SC!Credentials
  <1> QED BY <1>2, <1>3, <1>4

(* The message goes out once, by a sender that has not ended. *)
LEMMA StepSend ==
    ASSUME ScmType, ScmParts, NEW s \in Senders, SC!SendMsg(s)
    PROVE  ScmType' /\ mem' = mem /\ ScmParts'
  <1> DEFINE m == IF SC!Rights THEN "fd" ELSE SC!Credentials(s)
             h == IF SC!Rights THEN os.file[s].holders \cup {"flight"} ELSE os.file[s].holders
             q == IF mem.dgram[s] THEN Append(os.queue, s) ELSE os.queue
             e == IF SC!Rights THEN os.ended ELSE os.ended \cup {s}
  <1> USE ScmAssumption DEF ScmType, ScmProcs
  <1>0. mem.creds[s] = "other" => mem.priv
    BY DEF SC!SendMsg
  <1>1. /\ at[s] = "sendmsg" /\ mem' = mem
        /\ at' = [at EXCEPT ![s] = IF SC!Rights THEN "stop" ELSE "exit"]
    BY DEF SC!SendMsg, SC!Move
  <1>2. ScmAt' /\ ScmMem'
    BY <1>1 DEF ScmAt, ScmMem
  <1>3. /\ at'["recv"] = at["recv"] /\ at'[s] = (IF SC!Rights THEN "stop" ELSE "exit")
        /\ \A t \in Senders \ {s} : at'[t] = at[t]
    BY <1>1 DEF ScmAt
  <1>4. os' = [os EXCEPT !.msg[s] = m, !.queue = q, !.ended = e, !.file[s].holders = h]
    BY DEF SC!SendMsg
  <1>5. m \in {"fd", "own", "other", "nobody"}
    BY <1>0, CredentialsRight
  <1>6. /\ h \in SUBSET (ScmProcs \cup {"flight"}) /\ q \in Seq(Senders)
        /\ e \in SUBSET Senders
    <2>1. h \in SUBSET (ScmProcs \cup {"flight"})
      BY DEF ScmOs
    <2>2. q \in Seq(Senders) /\ e \in SUBSET Senders
      BY DEF ScmOs
    <2> QED BY <2>1, <2>2
  <1> HIDE DEF m, h, q, e
  <1>7. /\ os'.conn = os.conn /\ os'.passcred = os.passcred
        /\ os'.msg = [os.msg EXCEPT ![s] = m] /\ os'.ended = e
        /\ os'.file = [os.file EXCEPT ![s] = [offset |-> os.file[s].offset, holders |-> h]]
    <2>1. /\ os'.conn = os.conn /\ os'.passcred = os.passcred
          /\ os'.msg = [os.msg EXCEPT ![s] = m]
          /\ os'.ended = e
      BY <1>4 DEF ScmOs
    <2>2. os'.file = [os.file EXCEPT ![s] = [os.file[s] EXCEPT !.holders = h]]
      BY <1>4 DEF ScmOs
    <2>3. os.file[s] \in [offset : Nat, holders : SUBSET (ScmProcs \cup {"flight"})]
      BY DEF ScmOs
    <2>4. [os.file[s] EXCEPT !.holders = h] = [offset |-> os.file[s].offset, holders |-> h]
      BY <2>3
    <2> QED BY <2>1, <2>2, <2>4
  <1>8. ScmOs'
    <2>1. os'.file \in [Senders -> [offset : Nat, holders : SUBSET (ScmProcs \cup {"flight"})]]
      BY <1>6, <1>7 DEF ScmOs
    <2>2. os'.msg \in [Senders -> {"none", "fd", "own", "other", "nobody"}]
      BY <1>5, <1>7 DEF ScmOs
    <2>3. os' = [os EXCEPT !.msg = os'.msg, !.queue = q, !.ended = e, !.file = os'.file]
      BY <1>4, <1>7 DEF ScmOs
    <2> QED BY <1>6, <2>1, <2>2, <2>3 DEF ScmOs
  <1>9. MsgInv'
    <2> SUFFICES ASSUME NEW t \in Senders
                 PROVE  /\ os'.msg[t] # "none" => at'[t] \in {"stop", "exit"}
                        /\ t \in os'.ended => at'[t] \in {"exit", "failed"}
                        /\ ~SC!Rights => \/ os'.msg[t] \in {"none", "own"}
                                         \/ os'.msg[t] = "other" /\ mem.creds[t] = "other" /\ mem.priv
                                         \/ os'.msg[t] = "nobody" /\ mem.creds[t] = "none"
      BY <1>1 DEF MsgInv, SC!Rights
    <2>1. CASE t = s
      <3>1. os'.msg[s] = m
        BY <1>7 DEF ScmOs
      <3>2. s \in os'.ended => ~SC!Rights
        BY <1>1, <1>7 DEF e, ScmParts, MsgInv
      <3> QED BY <1>0, <1>3, <2>1, <3>1, <3>2, CredentialsRight DEF m
    <2>2. CASE t # s
      <3>1. os'.msg[t] = os.msg[t] /\ (t \in os'.ended <=> t \in os.ended) /\ at'[t] = at[t]
        BY <1>3, <1>7, <2>2 DEF ScmOs, e
      <3> QED BY <3>1 DEF ScmParts, MsgInv
    <2> QED BY <2>1, <2>2
  <1>10. FileInv'
    <2> SUFFICES ASSUME SC!Rights PROVE FileInv'
      BY <1>1 DEF FileInv, SC!Rights
    <2>1. \A g \in mem.got : g[1] \in Senders /\ g[1] # s
      BY <1>1 DEF ScmParts, FileInv, MsgInv, ScmMem
    <2>2. /\ \A t \in Senders : os'.file[t].offset = os.file[t].offset
          /\ \A t \in Senders \ {s} : os'.file[t] = os.file[t] /\ os'.msg[t] = os.msg[t]
      BY <1>7 DEF ScmOs
    <2> QED BY <1>1, <1>3, <2>1, <2>2 DEF ScmParts, FileInv, SC!Rights
  <1>11. CredInv'
    <2> SUFFICES ASSUME ~SC!Rights PROVE CredInv'
      BY <1>1 DEF CredInv, SC!Rights
    <2>1. ASSUME NEW t \in Senders, SC!Silent(t) PROVE SC!Silent(t)'
      <3>1. t # s
        BY <1>1, <2>1 DEF SC!Silent, ScmParts, MsgInv
      <3>2. os'.msg[t] = os.msg[t] /\ t \in os'.ended
        BY <1>7, <2>1, <3>1 DEF ScmOs, SC!Silent, e
      <3> QED BY <2>1, <3>2 DEF SC!Silent
    <2>2. /\ \A g \in mem.got : g[1] \in Senders
          /\ \A t \in os.conn : t \in Senders
      BY DEF ScmMem, ScmOs
    <2> QED BY <1>1, <1>3, <1>7, <2>1, <2>2 DEF ScmParts, CredInv, SC!Rights
  <1> QED BY <1>1, <1>2, <1>8, <1>9, <1>10, <1>11 DEF ScmParts

(* A sender that fails or ends gives up its own hold on the file only. *)
LEMMA StepClose ==
    ASSUME ScmType, ScmParts, NEW s \in Senders, SC!SendMsgFails(s) \/ SC!CloseFile(s)
    PROVE  ScmType' /\ mem' = mem /\ ScmParts'
  <1> USE ScmAssumption DEF ScmType, ScmProcs
  <1>1. PICK k \in {"failed", "exit"} :
            /\ \/ at[s] = "sendmsg" /\ k = "failed"
               \/ at[s] = "stop" /\ k = "exit"
            /\ mem' = mem /\ at' = [at EXCEPT ![s] = k]
    BY DEF SC!SendMsgFails, SC!CloseFile, SC!Move
  <1>2. ScmAt' /\ ScmMem'
    BY <1>1 DEF ScmAt, ScmMem
  <1>3. /\ at'["recv"] = at["recv"] /\ at'[s] = k
        /\ \A t \in Senders \ {s} : at'[t] = at[t]
    BY <1>1 DEF ScmAt
  <1>4. os' = [os EXCEPT !.ended = @ \cup {s}, !.file[s].holders = @ \ {s}]
    BY DEF SC!SendMsgFails, SC!CloseFile
  <1>5. /\ os'.conn = os.conn /\ os'.passcred = os.passcred
        /\ os'.msg = os.msg /\ os'.ended = os.ended \cup {s}
        /\ os'.file = [os.file EXCEPT ![s] = [offset |-> os.file[s].offset,
                                              holders |-> os.file[s].holders \ {s}]]
    <2>1. /\ os'.conn = os.conn /\ os'.passcred = os.passcred
          /\ os'.msg = os.msg
          /\ os'.ended = os.ended \cup {s}
      BY <1>4 DEF ScmOs
    <2>2. os'.file = [os.file EXCEPT ![s] = [os.file[s] EXCEPT !.holders = os.file[s].holders \ {s}]]
      BY <1>4 DEF ScmOs
    <2>3. os.file[s] \in [offset : Nat, holders : SUBSET (ScmProcs \cup {"flight"})]
      BY DEF ScmOs
    <2>4. [os.file[s] EXCEPT !.holders = os.file[s].holders \ {s}] = [offset |-> os.file[s].offset, holders |-> os.file[s].holders \ {s}]
      BY <2>3
    <2> QED BY <2>1, <2>2, <2>4
  <1>6. ScmOs'
    <2>1. os'.file \in [Senders -> [offset : Nat, holders : SUBSET (ScmProcs \cup {"flight"})]]
      BY <1>5 DEF ScmOs
    <2>2. os' = [os EXCEPT !.ended = os.ended \cup {s}, !.file = os'.file]
      BY <1>4, <1>5 DEF ScmOs
    <2>3. os.ended \cup {s} \in SUBSET Senders
      BY DEF ScmOs
    <2> QED BY <2>1, <2>2, <2>3 DEF ScmOs
  <1>7. MsgInv'
    BY <1>1, <1>3, <1>5 DEF ScmParts, MsgInv, SC!Rights
  <1>8. FileInv'
    <2> SUFFICES ASSUME SC!Rights PROVE FileInv'
      BY <1>1 DEF FileInv, SC!Rights
    <2>1. /\ \A t \in Senders : os'.file[t].offset = os.file[t].offset
          /\ \A t \in Senders : "recv" \in os.file[t].holders => "recv" \in os'.file[t].holders
      BY <1>5 DEF ScmOs
    <2>2. \A g \in mem.got : g[1] \in Senders
      BY DEF ScmMem
    <2> QED BY <1>1, <1>3, <1>5, <2>1, <2>2 DEF ScmParts, FileInv, SC!Rights
  <1>9. CredInv'
    BY <1>1, <1>3, <1>5 DEF ScmParts, CredInv, SC!Rights, SC!Silent
  <1> QED BY <1>1, <1>2, <1>6, <1>7, <1>8, <1>9 DEF ScmParts

(* recvmsg(): the receiver holds the file its message carries, at the      *)
(* offset its sender left; credentials are those of the message.           *)
LEMMA StepRecv ==
    ASSUME ScmType, ScmParts, NEW s \in Senders, SC!RecvMsg(s)
    PROVE  ScmType' /\ mem'.prog = mem.prog /\ ScmParts'
  <1> DEFINE h == IF SC!Rights THEN (os.file[s].holders \ {"flight"}) \cup {"recv"} ELSE os.file[s].holders
             q == IF mem.dgram["recv"] THEN Tail(os.queue) ELSE os.queue
  <1> USE ScmAssumption DEF ScmType, ScmProcs
  <1>1. os.msg[s] # "none" /\ at["recv"] = "recvmsg"
    BY DEF SC!RecvMsg, SC!Move
  <1>2. SC!Rights \/ os.passcred
    BY <1>1 DEF ScmParts, CredInv
  <1>3. /\ at' = [at EXCEPT !["recv"] = IF SC!Rights THEN "read" ELSE "done"]
        /\ mem' = [mem EXCEPT !.got = {<<s, os.msg[s]>>}]
    BY <1>2 DEF SC!RecvMsg, SC!Move
  <1>4. ScmAt'
    BY <1>3 DEF ScmAt
  <1>5. at'["recv"] = (IF SC!Rights THEN "read" ELSE "done") /\ \A t \in Senders : at'[t] = at[t]
    BY <1>3 DEF ScmAt
  <1>6. /\ mem'.prog = mem.prog /\ mem'.got = {<<s, os.msg[s]>>} /\ mem'.out = mem.out
        /\ mem'.creds = mem.creds /\ mem'.priv = mem.priv /\ mem'.len = mem.len
    BY <1>3 DEF ScmMem
  <1>7. ScmMem'
    <2>1. {<<s, os.msg[s]>>} \in SUBSET (Senders \X {"none", "fd", "own", "other", "nobody"})
      BY DEF ScmOs
    <2> QED BY <1>3, <2>1 DEF ScmMem
  <1>8. os' = [os EXCEPT !.queue = q, !.file[s].holders = h]
    BY DEF SC!RecvMsg
  <1>9. h \in SUBSET (ScmProcs \cup {"flight"}) /\ q \in Seq(Senders)
    <2>1. h \in SUBSET (ScmProcs \cup {"flight"})
      BY DEF ScmOs
    <2>2. q \in Seq(Senders)
      <3>1. mem.dgram["recv"] => os.queue # <<>>
        BY DEF SC!RecvMsg
      <3> QED BY <3>1 DEF ScmOs
    <2> QED BY <2>1, <2>2
  <1>10. SC!Rights => "recv" \in h
    OBVIOUS
  <1> HIDE DEF h, q
  <1>11. /\ os'.conn = os.conn /\ os'.passcred = os.passcred
         /\ os'.msg = os.msg /\ os'.ended = os.ended
         /\ os'.file = [os.file EXCEPT ![s] = [offset |-> os.file[s].offset, holders |-> h]]
    <2>1. /\ os'.conn = os.conn /\ os'.passcred = os.passcred
          /\ os'.msg = os.msg /\ os'.ended = os.ended
      BY <1>8 DEF ScmOs
    <2>2. os'.file = [os.file EXCEPT ![s] = [os.file[s] EXCEPT !.holders = h]]
      BY <1>8 DEF ScmOs
    <2>3. os.file[s] \in [offset : Nat, holders : SUBSET (ScmProcs \cup {"flight"})]
      BY DEF ScmOs
    <2>4. [os.file[s] EXCEPT !.holders = h] = [offset |-> os.file[s].offset, holders |-> h]
      BY <2>3
    <2> QED BY <2>1, <2>2, <2>4
  <1>12. ScmOs'
    <2>1. os'.file \in [Senders -> [offset : Nat, holders : SUBSET (ScmProcs \cup {"flight"})]]
      BY <1>9, <1>11 DEF ScmOs
    <2>2. os' = [os EXCEPT !.queue = q, !.file = os'.file]
      BY <1>8, <1>11 DEF ScmOs
    <2> QED BY <1>9, <2>1, <2>2 DEF ScmOs
  <1>13. MsgInv'
    BY <1>5, <1>6, <1>11 DEF ScmParts, MsgInv, SC!Rights
  <1>14. FileInv'
    <2> SUFFICES ASSUME SC!Rights PROVE FileInv'
      BY <1>6 DEF FileInv, SC!Rights
    <2>1. mem.got = {} /\ mem.out = <<>>
      BY <1>1 DEF ScmParts, FileInv
    <2>2. os.file[s].offset = Skip
      BY <1>1, <2>1 DEF ScmParts, FileInv, MsgInv
    <2>3. /\ os'.file[s].offset = Skip /\ "recv" \in os'.file[s].holders
          /\ \A t \in Senders \ {s} : os'.file[t] = os.file[t]
      BY <1>10, <1>11, <2>2 DEF ScmOs
    <2>4. Len(mem'.out) = 0
      BY <1>6, <2>1
    <2>5. \A g \in mem'.got : g = <<s, os.msg[s]>> /\ g[1] = s
      BY <1>6
    <2> QED BY <1>1, <1>5, <1>6, <1>11, <2>1, <2>2, <2>3, <2>4, <2>5 DEF ScmParts, FileInv, SC!Rights
  <1>15. CredInv'
    <2> SUFFICES ASSUME ~SC!Rights PROVE CredInv'
      BY <1>6 DEF CredInv, SC!Rights
    <2>1. \A g \in mem'.got : g[1] = s /\ g[2] = os.msg[s]
      BY <1>6
    <2>2. /\ at'["recv"] = "done" /\ os'.passcred
      BY <1>2, <1>5, <1>11
    <2>3. \/ os.msg[s] = "own"
          \/ os.msg[s] = "other" /\ mem.creds[s] = "other" /\ mem.priv
          \/ os.msg[s] = "nobody" /\ mem.creds[s] = "none"
      BY <1>1 DEF ScmParts, MsgInv
    <2> QED BY <1>6, <2>1, <2>2, <2>3 DEF CredInv, SC!Rights
  <1> QED BY <1>4, <1>6, <1>7, <1>12, <1>13, <1>14, <1>15 DEF ScmParts

(* The end of a connection on which nothing came: scm_rights_recv fails,   *)
(* scm_cred_recv fails or reports a nobody.                                *)
LEMMA StepEof ==
    ASSUME ScmType, ScmParts, SC!RecvEof PROVE ScmType' /\ mem'.prog = mem.prog /\ ScmParts'
  <1> USE ScmAssumption DEF ScmType, ScmProcs
  <1>1. PICK s \in os.conn \cap os.ended :
            /\ os.msg[s] = "none"
            /\ \/ SC!Fail("recv", "recvmsg")
               \/ /\ ~SC!Rights /\ SC!Move("recv", "recvmsg", "done")
                  /\ mem' = [mem EXCEPT !.got = {<<s, "nobody">>}]
                  /\ UNCHANGED os
    BY DEF SC!RecvEof
  <1>2. os' = os /\ ScmOs' /\ s \in Senders /\ SC!Silent(s) /\ SC!Silent(s)'
    BY <1>1 DEF SC!Fail, ScmOs, SC!Silent
  <1>3. CASE SC!Fail("recv", "recvmsg")
    <2>1. at["recv"] = "recvmsg" /\ at' = [at EXCEPT !["recv"] = "failed"] /\ mem' = mem
      BY <1>3 DEF SC!Fail, SC!Move
    <2>2. ScmAt' /\ ScmMem'
      BY <2>1 DEF ScmAt, ScmMem
    <2>3. at'["recv"] = "failed" /\ \A t \in Senders : at'[t] = at[t]
      BY <2>1 DEF ScmAt
    <2>4. MsgInv' /\ FileInv'
      BY <1>2, <2>1, <2>3 DEF ScmParts, MsgInv, FileInv, SC!Rights
    <2>5. CredInv'
      BY <1>1, <1>2, <2>1, <2>3 DEF ScmParts, CredInv, SC!Rights, SC!Silent
    <2> QED BY <1>2, <2>1, <2>2, <2>4, <2>5 DEF ScmParts
  <1>4. CASE /\ ~SC!Rights /\ SC!Move("recv", "recvmsg", "done")
             /\ mem' = [mem EXCEPT !.got = {<<s, "nobody">>}]
    <2>1. at["recv"] = "recvmsg" /\ at' = [at EXCEPT !["recv"] = "done"]
      BY <1>4 DEF SC!Move
    <2>2. ScmAt' /\ at'["recv"] = "done" /\ \A t \in Senders : at'[t] = at[t]
      BY <2>1 DEF ScmAt
    <2>3. /\ mem'.prog = mem.prog /\ mem'.got = {<<s, "nobody">>}
          /\ mem'.creds = mem.creds /\ mem'.priv = mem.priv
      BY <1>4 DEF ScmMem
    <2>4. ScmMem'
      <3>1. {<<s, "nobody">>} \in SUBSET (Senders \X {"none", "fd", "own", "other", "nobody"})
        BY <1>2
      <3> QED BY <1>4, <3>1 DEF ScmMem
    <2>5. MsgInv'
      BY <1>2, <2>2, <2>3 DEF ScmParts, MsgInv, SC!Rights
    <2>6. FileInv'
      BY <1>4, <2>3 DEF FileInv, SC!Rights
    <2>7. CredInv'
      <3>1. os.passcred
        BY <1>4, <2>1 DEF ScmParts, CredInv
      <3>2. \A g \in mem'.got : g[1] = s /\ g[2] = "nobody"
        BY <2>3
      <3> QED BY <1>2, <2>2, <2>3, <3>1, <3>2 DEF CredInv
    <2> QED BY <1>2, <2>2, <2>3, <2>4, <2>5, <2>6, <2>7 DEF ScmParts
  <1> QED BY <1>1, <1>3, <1>4

(* One more block, from the offset the reads so far have reached. *)
LEMMA StepRead ==
    ASSUME ScmType, ScmParts, SC!ReadFile PROVE ScmType' /\ mem'.prog = mem.prog /\ ScmParts'
  <1> USE ScmAssumption DEF ScmType, ScmProcs
  <1>1. PICK g \in mem.got :
            /\ os.file[g[1]].offset < mem.len /\ at["recv"] = "read" /\ at' = at
            /\ mem' = [mem EXCEPT !.out = Append(@, os.file[g[1]].offset + 1)]
            /\ os' = [os EXCEPT !.file[g[1]].offset = @ + 1]
    BY DEF SC!ReadFile
  <1> DEFINE s == g[1]
             n == os.file[s].offset
  <1>2. s \in Senders /\ n \in Nat
    BY DEF ScmMem, ScmOs
  <1>3. /\ mem.out \in Seq(Nat) /\ mem'.out = Append(mem.out, n + 1) /\ mem'.got = mem.got
        /\ mem'.prog = mem.prog /\ mem'.len = mem.len /\ mem'.creds = mem.creds
        /\ mem'.priv = mem.priv
    BY <1>1 DEF ScmMem
  <1>4. Append(mem.out, n + 1) \in Seq(Nat)
    BY <1>2, <1>3
  <1>5. ScmMem' /\ ScmAt'
    BY <1>1, <1>4 DEF ScmMem, ScmAt
  <1>6. /\ os'.conn = os.conn /\ os'.passcred = os.passcred
        /\ os'.msg = os.msg /\ os'.ended = os.ended
        /\ os'.file = [os.file EXCEPT ![s] = [offset |-> n + 1, holders |-> os.file[s].holders]]
    <2>1. /\ os'.conn = os.conn /\ os'.passcred = os.passcred
          /\ os'.msg = os.msg /\ os'.ended = os.ended
      BY <1>1 DEF ScmOs
    <2>2. os'.file = [os.file EXCEPT ![s] = [os.file[s] EXCEPT !.offset = n + 1]]
      BY <1>1 DEF ScmOs
    <2>3. os.file[s] \in [offset : Nat, holders : SUBSET (ScmProcs \cup {"flight"})]
      BY <1>2 DEF ScmOs
    <2>4. [os.file[s] EXCEPT !.offset = n + 1] = [offset |-> n + 1, holders |-> os.file[s].holders]
      BY <2>3
    <2> QED BY <2>1, <2>2, <2>4
  <1>7. ScmOs'
    <2>1. os'.file \in [Senders -> [offset : Nat, holders : SUBSET (ScmProcs \cup {"flight"})]]
      BY <1>2, <1>6 DEF ScmOs
    <2>2. os' = [os EXCEPT !.file = os'.file]
      BY <1>1, <1>6 DEF ScmOs
    <2> QED BY <2>1, <2>2 DEF ScmOs
  <1>8. MsgInv'
    BY <1>1, <1>3, <1>6 DEF ScmParts, MsgInv, SC!Rights
  <1>9. FileInv'
    <2> SUFFICES ASSUME SC!Rights PROVE FileInv'
      BY <1>3 DEF FileInv, SC!Rights
    <2>1. /\ \A h \in mem.got : h = g
          /\ os.msg[s] # "none" /\ "recv" \in os.file[s].holders
          /\ n = Skip + Len(mem.out) /\ n < mem.len
          /\ \A k \in 1 .. Len(mem.out) : mem.out[k] = Skip + k
      BY <1>1 DEF ScmParts, FileInv
    <2>2. /\ os'.file[s].offset = n + 1 /\ os'.file[s].holders = os.file[s].holders
          /\ \A t \in Senders \ {s} : os'.file[t] = os.file[t]
      BY <1>2, <1>6 DEF ScmOs
    <2>3. Len(mem'.out) = Len(mem.out) + 1 /\ Len(mem.out) \in Nat
      BY <1>2, <1>3
    <2>4. ASSUME NEW k \in 1 .. Len(mem'.out) PROVE mem'.out[k] = Skip + k
      <3>1. CASE k \in 1 .. Len(mem.out)
        <4>1. mem'.out[k] = mem.out[k]
          BY ONLY <1>2, <1>3, <3>1
        <4> QED BY <2>1, <3>1, <4>1
      <3>2. CASE k = Len(mem.out) + 1
        <4>1. mem'.out[k] = n + 1
          BY ONLY <1>2, <1>3, <3>2
        <4> QED BY <2>1, <2>3, <3>2, <4>1
      <3> QED BY <2>3, <3>1, <3>2
    <2>5. mem.len \in Nat
      BY DEF ScmMem
    <2>6. \A t \in Senders : (at'[t] # "start" /\ \A h \in mem'.got : h[1] # t)
                                 => os'.file[t].offset = Skip
      BY <1>1, <1>3, <2>1, <2>2 DEF ScmParts, FileInv
    <2>7. \A h \in mem'.got : /\ h = g
                              /\ os'.msg[h[1]] # "none"
                              /\ "recv" \in os'.file[h[1]].holders
                              /\ os'.file[h[1]].offset = Skip + Len(mem'.out)
      BY <1>3, <1>6, <2>1, <2>2, <2>3
    <2>8. Skip + Len(mem'.out) <= mem'.len
      BY <1>2, <1>3, <2>1, <2>3, <2>5
    <2>9. at'["recv"] = "read"
      BY <1>1
    <2> QED BY <2>4, <2>6, <2>7, <2>8, <2>9 DEF FileInv
  <1>10. CredInv'
    BY <1>1, <1>3, <1>6 DEF ScmParts, CredInv, SC!Rights, SC!Silent
  <1> QED BY <1>3, <1>5, <1>7, <1>8, <1>9, <1>10 DEF ScmParts

(* The end of the file is met at its end. *)
LEMMA StepReadEof ==
    ASSUME ScmType, ScmParts, SC!ReadEof PROVE ScmType' /\ mem'.prog = mem.prog /\ ScmParts'
  <1> USE ScmAssumption DEF ScmType, ScmProcs
  <1>1. PICK g \in mem.got : os.file[g[1]].offset >= mem.len
    BY DEF SC!ReadEof
  <1>2. at["recv"] = "read" /\ at' = [at EXCEPT !["recv"] = "done"] /\ mem' = mem /\ os' = os
    BY DEF SC!ReadEof, SC!Move
  <1>3. ScmAt' /\ ScmMem' /\ ScmOs' /\ mem'.prog = mem.prog
    BY <1>2 DEF ScmAt, ScmMem, ScmOs
  <1>4. at'["recv"] = "done" /\ \A t \in Senders : at'[t] = at[t]
    BY <1>2 DEF ScmAt
  <1>5. MsgInv'
    BY <1>2, <1>4 DEF ScmParts, MsgInv, SC!Rights
  <1>6. FileInv'
    <2> SUFFICES ASSUME SC!Rights PROVE FileInv'
      BY <1>2 DEF FileInv, SC!Rights
    <2>1. Len(mem.out) \in Nat /\ mem.len \in Nat
      BY DEF ScmMem
    <2>2. Skip + Len(mem.out) >= mem.len /\ (Len(mem.out) > 0 => Skip + Len(mem.out) <= mem.len)
      BY <1>1 DEF ScmParts, FileInv
    <2>3. mem.len > Skip => Len(mem.out) = mem.len - Skip
      BY <2>1, <2>2
    <2> QED BY <1>2, <1>4, <2>3 DEF ScmParts, FileInv
  <1>7. CredInv'
    BY <1>2, <1>4 DEF ScmParts, CredInv, SC!Rights, SC!Silent
  <1> QED BY <1>3, <1>5, <1>6, <1>7 DEF ScmParts

(* The steps that bring the processes together change no message and no    *)
(* file.                                                                   *)
LEMMA StepQuiet ==
    ASSUME ScmType, ScmParts,
           \/ SC!Remove \/ SC!Bind \/ SC!BindMisread \/ SC!Listen \/ SC!Accept \/ SC!Setsockopt
           \/ \E s \in Senders : SC!Connect(s) \/ SC!ConnectFails(s)
    PROVE  ScmType' /\ mem'.prog = mem.prog /\ ScmParts'
  <1> USE DEF ScmType
  <1> DEFINE Kept == os'.msg = os.msg /\ os'.ended = os.ended /\ os'.file = os.file
  <1>1. CASE SC!Remove
    <2>1. os' = [os EXCEPT !.path = "none"] /\ mem' = mem
      BY <1>1 DEF SC!Remove
    <2>2. ScmOs' /\ Kept
      BY <2>1 DEF ScmOs
    <2>3. at["recv"] = "start" /\ at' = [at EXCEPT !["recv"] = "bind"]
      BY <1>1 DEF SC!Remove, SC!Move
    <2> QED BY <2>1, <2>2, <2>3, ReceiverQuiet
  <1>2. CASE SC!Bind
    <2>1. os' = [os EXCEPT !.path = "bound"] /\ mem' = mem
      BY <1>2 DEF SC!Bind
    <2>2. ScmOs' /\ Kept
      BY <2>1 DEF ScmOs
    <2>3. PICK k \in {"listen", "recvmsg", "setsockopt"} :
              /\ at["recv"] = "bind" /\ at' = [at EXCEPT !["recv"] = k]
              /\ k = "recvmsg" => SC!Rights
      BY <1>2 DEF SC!Bind
    <2> QED BY <2>1, <2>2, <2>3, ReceiverQuiet
  <1>3. CASE SC!BindMisread
    <2>1. os' = [os EXCEPT !.path = "stale"] /\ mem' = mem /\ SC!Rights
      BY <1>3 DEF SC!BindMisread
    <2>2. ScmOs' /\ Kept
      BY <2>1 DEF ScmOs
    <2>3. at["recv"] = "bind" /\ at' = [at EXCEPT !["recv"] = "failed"]
      BY <1>3 DEF SC!BindMisread, SC!Move
    <2> QED BY <2>1, <2>2, <2>3, ReceiverQuiet
  <1>4. CASE SC!Listen
    <2>1. os' = os /\ mem' = mem /\ at["recv"] = "listen" /\ at' = [at EXCEPT !["recv"] = "accept"]
      BY <1>4 DEF SC!Listen, SC!Move
    <2>2. ScmOs' /\ Kept
      BY <2>1 DEF ScmOs
    <2> QED BY <2>1, <2>2, ReceiverQuiet
  <1>5. CASE SC!Accept
    <2>1. /\ os.queue # <<>> /\ mem' = mem
          /\ os' = [os EXCEPT !.conn = {Head(os.queue)}, !.queue = Tail(@)]
      BY <1>5 DEF SC!Accept
    <2>2. os.queue \in Seq(Senders)
      BY DEF ScmOs
    <2>3. {Head(os.queue)} \in SUBSET Senders /\ Tail(os.queue) \in Seq(Senders)
      BY <2>1, <2>2
    <2>4. ScmOs' /\ Kept
      BY <2>1, <2>3 DEF ScmOs
    <2>5. PICK k \in {"recvmsg", "setsockopt"} :
              /\ at["recv"] = "accept" /\ at' = [at EXCEPT !["recv"] = k]
              /\ k = "recvmsg" => SC!Rights
      BY <1>5 DEF SC!Accept, SC!Move
    <2> QED BY <2>1, <2>4, <2>5, ReceiverQuiet
  <1>6. CASE SC!Setsockopt
    <2>1. os' = [os EXCEPT !.passcred = TRUE] /\ mem' = mem
      BY <1>6 DEF SC!Setsockopt
    <2>2. ScmOs' /\ Kept /\ os'.passcred
      BY <2>1 DEF ScmOs
    <2>3. at["recv"] = "setsockopt" /\ at' = [at EXCEPT !["recv"] = "recvmsg"]
      BY <1>6 DEF SC!Setsockopt, SC!Move
    <2> QED BY <2>1, <2>2, <2>3, ReceiverQuiet
  <1>7. ASSUME NEW s \in Senders, SC!Connect(s) PROVE ScmType' /\ mem'.prog = mem.prog /\ ScmParts'
    <2>1. /\ os' = (IF mem.dgram[s] THEN os ELSE [os EXCEPT !.queue = Append(@, s)])
          /\ mem' = mem
      BY <1>7 DEF SC!Connect
    <2>2. Append(os.queue, s) \in Seq(Senders)
      BY DEF ScmOs
    <2>3. ScmOs' /\ Kept /\ os'.conn = os.conn /\ os'.passcred = os.passcred
      BY <2>1, <2>2 DEF ScmOs
    <2>4. at[s] = "connect" /\ at' = [at EXCEPT ![s] = "sendmsg"]
      BY <1>7 DEF SC!Connect, SC!Move
    <2> QED BY <2>1, <2>3, <2>4, SenderQuiet
  <1>8. ASSUME NEW s \in Senders, SC!ConnectFails(s)
        PROVE  ScmType' /\ mem'.prog = mem.prog /\ ScmParts'
    <2>1. os' = os /\ mem' = mem /\ at[s] = "connect" /\ at' = [at EXCEPT ![s] = "failed"]
      BY <1>8 DEF SC!ConnectFails, SC!Fail, SC!Move
    <2>2. ScmOs' /\ Kept /\ os'.conn = os.conn /\ os'.passcred = os.passcred
      BY <2>1 DEF ScmOs
    <2> QED BY <2>1, <2>2, SenderQuiet
  <1> QED BY <1>1, <1>2, <1>3, <1>4, <1>5, <1>6, <1>7, <1>8

LEMMA StepScm == ProgInv /\ ScmInv /\ [MCNext]_<<machine, vars>> => ProgInv' /\ ScmInv'
  <1> SUFFICES ASSUME ProgInv, ScmInv, [MCNext]_<<machine, vars>> PROVE ProgInv' /\ ScmInv'
    OBVIOUS
  <1>1. CASE SC!Next
    <2>1. mem.prog \in SC!Progs /\ (SC!receiver \/ \E s \in Senders : SC!sender(s))
      BY <1>1 DEF SC!Next
    <2>2. ScmType /\ ScmParts
      BY <2>1 DEF ScmInv, ScmType, ScmParts
    <2>3. ASSUME SC!receiver PROVE ScmType' /\ mem'.prog = mem.prog /\ ScmParts'
      BY <2>2, <2>3, StepQuiet, StepRecv, StepEof, StepRead, StepReadEof DEF SC!receiver
    <2>4. ASSUME NEW s \in Senders, SC!sender(s)
          PROVE  ScmType' /\ mem'.prog = mem.prog /\ ScmParts'
      BY <2>2, <2>4, StepQuiet, StepOpen, StepSend, StepClose DEF SC!sender
    <2>5. ScmType' /\ mem'.prog = mem.prog /\ ScmParts'
      BY <2>1, <2>3, <2>4
    <2>6. "prog" \in DOMAIN mem'
      BY <2>5 DEF ScmType, ScmMem
    <2> QED BY <2>1, <2>5, <2>6 DEF ProgInv, ScmInv, ScmType, ScmParts
  <1>2. CASE TR!Next
    <2>1. mem.prog \in TransferProgs /\ mem'.prog = mem.prog /\ "prog" \in DOMAIN mem'
      BY <1>2, TransfersKeep
    <2> QED BY <2>1 DEF ProgInv, ScmInv, TransferProgs, TR!Progs, SC!Progs
  <1>3. CASE UNCHANGED <<at, mem, os>>
    <2>1. at' = at /\ mem' = mem /\ os' = os
      BY <1>3
    <2> QED
      BY <2>1 DEF ProgInv, ScmInv, ScmMem, ScmAt, ScmOs, MsgInv, FileInv, CredInv, SC!Rights,
         SC!Silent
  <1> QED BY <1>1, <1>2, <1>3 DEF MCNext, machine

(* scm_rights_recv.c reads the file it was passed from where the sender    *)
(* left its offset to the end, and it stays open under it whether the      *)
(* sender closes its descriptor before or after recvmsg(); the credentials *)
(* scm_cred_recv.c prints are its sender's or ones that one may claim, and *)
(* only a sender that gave none, or ended without a message, is nobody.    *)
THEOREM AncillaryAlways == MCSpec => []AncillaryTrue
  <1>1. ASSUME ScmInv PROVE AncillaryTrue
    <2> SUFFICES ASSUME mem.prog \in SC!Progs PROVE AncillaryTrue
      BY DEF AncillaryTrue, SC!AncillaryTrue
    <2>1. ScmMem /\ FileInv /\ CredInv
      BY <1>1 DEF ScmInv
    <2>2. ASSUME SC!Rights PROVE mem.out = [k \in 1 .. Len(mem.out) |-> Skip + k]
      <3>1. \A k \in 1 .. Len(mem.out) : mem.out[k] = Skip + k
        BY <2>1, <2>2 DEF FileInv
      <3>2. mem.out = [k \in 1 .. Len(mem.out) |-> mem.out[k]]
        BY <2>1 DEF ScmMem
      <3> QED BY <3>1, <3>2
    <2>3. /\ SC!Rights => \A g \in mem.got :
                /\ "recv" \in os.file[g[1]].holders
                /\ at["recv"] = "done" /\ mem.len > Skip => Len(mem.out) = mem.len - Skip
          /\ ~SC!Rights => \A g \in mem.got :
                \/ g[2] = "own"
                \/ g[2] = "other" /\ mem.creds[g[1]] = "other" /\ mem.priv
                \/ g[2] = "nobody" /\ (mem.creds[g[1]] = "none" \/ SC!Silent(g[1]))
          /\ ~SC!Rights /\ at["recv"] = "failed" => \E s \in os.conn : SC!Silent(s)
      BY <2>1 DEF FileInv, CredInv
    <2> QED BY <2>2, <2>3 DEF AncillaryTrue, SC!AncillaryTrue
  <1>2. MCInit => ProgInv /\ ScmInv
    BY InitScm
  <1>3. ProgInv /\ ScmInv /\ [MCNext]_<<machine, vars>> => ProgInv' /\ ScmInv'
    BY StepScm
  <1>4. MCSpec => [](ProgInv /\ ScmInv)
    BY <1>2, <1>3, PTL DEF MCSpec
  <1> QED BY <1>1, <1>4, PTL

-----------------------------------------------------------------------------
(* The datagram services. *)
DgProcs == DgClients \cup {"sv"}
Dgrams == [from : DgClients, j : Nat, size : Nat, upper : BOOLEAN]

DgMem ==
    mem \in [prog : TR!Progs, size : [DgClients -> Nat], j : [DgClients -> Nat],
             got : [DgClients -> Seq(Dgrams)], buf : SUBSET Dgrams]

DgAt == at \in [DgProcs -> {"start", "send", "recv", "done", "failed", "killed", "exit"}]

DgOs == os \in [sv : Seq(Dgrams), cl : [DgClients -> Seq(Dgrams)], dups : Nat]

DgType == DgMem /\ DgAt /\ DgOs

(* Client c's question number i, and the answer to it. *)
Question(c, i) == [from |-> c, j |-> i, size |-> mem.size[c], upper |-> FALSE]
Answer(c, i) ==
    TR!Cut([from |-> c, j |-> i, size |-> mem.size[c], upper |-> ~Runs("id_echo")])

(* Whatever the network does, a datagram on its way is a question its      *)
(* sender has asked, or the answer to one.                                 *)
WayInv ==
    /\ \A i \in 1 .. Len(os.sv) : LET d == os.sv[i] IN d = Question(d.from, d.j) /\ d.j <= mem.j[d.from]
    /\ \A d \in mem.buf : d = Answer(d.from, d.j) /\ d.j <= mem.j[d.from]
    /\ \A c \in DgClients : \A i \in 1 .. Len(os.cl[c]) :
          LET d == os.cl[c][i] IN d = Answer(c, d.j) /\ d.j <= mem.j[c]

GotInv ==
    \A c \in DgClients :
        /\ mem.j[c] = Len(mem.got[c]) + 1
        /\ \A k \in 1 .. Len(mem.got[c]) : LET d == mem.got[c][k] IN
              d = Answer(c, d.j) /\ d.j <= k /\ (os.dups = 0 => d.j = k)

(* As long as nothing was duplicated, at most one datagram of a client is  *)
(* on its way: its current question or the answer, and while the client    *)
(* has not asked, none.                                                    *)
SingleInv ==
    /\ \A i, k \in 1 .. Len(os.sv) : os.sv[i].from = os.sv[k].from => i = k
    /\ \A d, e \in mem.buf : d = e
    /\ \A i \in 1 .. Len(os.sv) : /\ os.cl[os.sv[i].from] = <<>>
                                  /\ \A d \in mem.buf : d.from # os.sv[i].from
    /\ \A d \in mem.buf : os.cl[d.from] = <<>>
    /\ \A c \in DgClients : Len(os.cl[c]) <= 1

AskedInv ==
    /\ \A i \in 1 .. Len(os.sv) : LET c == os.sv[i].from IN
          at[c] \notin {"start", "send"} /\ (at[c] = "recv" => os.sv[i].j = mem.j[c])
    /\ \A d \in mem.buf :
          at[d.from] \notin {"start", "send"} /\ (at[d.from] = "recv" => d.j = mem.j[d.from])
    /\ \A c \in DgClients : \A i \in 1 .. Len(os.cl[c]) :
          at[c] \notin {"start", "send"} /\ (at[c] = "recv" => os.cl[c][i].j = mem.j[c])

-----------------------------------------------------------------------------
(* us_xfr_sv and us_xfr_cl. *)
XfrProcs == XfrServers \cup XfrClients

XfrMem ==
    mem \in [prog : {"us_xfr"}, input : [XfrClients -> Nat], hold : [XfrProcs -> Nat],
             out : [XfrServers -> Seq(XfrClients)], done : SUBSET XfrClients, faults : Nat]

XfrAt ==
    /\ at \in [XfrProcs -> {"remove", "bind", "listen", "accept", "read", "write", "connect",
                            "exit", "failed", "killed"}]
    /\ \A s \in XfrServers : at[s] \notin {"connect", "exit"}
    /\ \A c \in XfrClients : at[c] \notin {"remove", "bind", "listen", "accept"}

XfrOs ==
    os \in [path : XfrServers \cup {"none"}, queue : [XfrServers -> Seq(XfrClients)],
            conn : [XfrClients -> XfrServers \cup {"none"}], buf : [XfrClients -> Nat],
            cfd : [XfrServers -> XfrClients \cup {"none"}]]

XfrType == XfrMem /\ XfrAt /\ XfrOs

(* Who holds bytes, and who is connected. *)
ServerHold(s) ==
    /\ at[s] \in {"read", "write"} => os.cfd[s] # "none"
    /\ at[s] \in {"remove", "bind", "listen", "accept"} => os.cfd[s] = "none"
    /\ at[s] = "read" \/ os.cfd[s] = "none" => mem.hold[s] = 0

ClientHold(c) ==
    /\ at[c] \in {"connect", "read", "exit"} => mem.hold[c] = 0
    /\ at[c] = "write" => mem.hold[c] > 0
    /\ at[c] = "connect" => os.conn[c] = "none"
    /\ at[c] \in {"read", "write", "exit"} => os.conn[c] # "none"
    /\ os.conn[c] = "none" => mem.input[c] = 0 /\ os.buf[c] = 0 /\ mem.hold[c] = 0

HoldInv == (\A s \in XfrServers : ServerHold(s)) /\ \A c \in XfrClients : ClientHold(c)

(* A connection is in the queue of its server, or is its cfd, or is done:  *)
(* the server prints nothing of it before and nothing after.               *)
QueueInv(s) ==
    \A i \in 1 .. Len(os.queue[s]) :
        /\ os.conn[os.queue[s][i]] = s
        /\ os.queue[s][i] \notin mem.done
        /\ os.queue[s][i] # os.cfd[s]
        /\ \A k \in 1 .. Len(mem.out[s]) : mem.out[s][k] # os.queue[s][i]
        /\ \A k \in 1 .. Len(os.queue[s]) : os.queue[s][k] = os.queue[s][i] => k = i

CfdInv(s) == os.cfd[s] # "none" => os.conn[os.cfd[s]] = s /\ os.cfd[s] \notin mem.done

OutInv(s) == \A k \in 1 .. Len(mem.out[s]) : os.conn[mem.out[s][k]] = s

DoneInv(c) == os.conn[c] # "none" /\ at[c] \in TR!UnixGone /\ os.buf[c] = 0

ConnInv ==
    /\ \A s \in XfrServers : QueueInv(s) /\ CfdInv(s) /\ OutInv(s)
    /\ \A c \in mem.done : DoneInv(c)

(* Every byte read from a client's standard input is held by the client,   *)
(* in the socket, held by the server or printed.                           *)
AtServer(c) == IF os.cfd[os.conn[c]] = c THEN mem.hold[os.conn[c]] ELSE 0

Count(o, c) == Cardinality({i \in 1 .. Len(o) : o[i] = c})

BytesOf(c) ==
    os.conn[c] # "none" =>
        mem.input[c] = mem.hold[c] + os.buf[c] + AtServer(c) + Count(mem.out[os.conn[c]], c)

ByteInv == \A c \in XfrClients : BytesOf(c)

(* The bytes of the connection at hand are the last ones printed. *)
LastInv(s) ==
    /\ \A i, k \in 1 .. Len(mem.out[s]) :
          i < k /\ mem.out[s][i] = os.cfd[s] => mem.out[s][k] = os.cfd[s]
    /\ \A i, j, k \in 1 .. Len(mem.out[s]) :
          i < j /\ j < k /\ mem.out[s][i] = mem.out[s][k] => mem.out[s][i] = mem.out[s][j]

OrderInv == \A s \in XfrServers : LastInv(s)

XfrAll == XfrType /\ HoldInv /\ ConnInv /\ ByteInv /\ OrderInv

-----------------------------------------------------------------------------
(* socketpair-sample. *)
PairNames == {"parent", "child"}

PairType ==
    /\ mem \in [prog : {"socketpair"}, forked : BOOLEAN,
                buf : [parent : {"garbage", "b", "B"}, child : {"garbage", "b", "B"}]]
    /\ at \in [parent : {"fork", "close", "write", "read", "wait", "exit", "killed"},
               child : {"unborn", "close", "read", "write", "stop", "exit", "killed"}]
    /\ os \in [sv : [parent : SUBSET PairNames, child : SUBSET PairNames],
               letter : [parent : {"none", "garbage", "b", "B"},
                         child : {"none", "garbage", "b", "B"}]]

(* Who has which end open. *)
EndsInv ==
    /\ "parent" \in os.sv.parent <=> at.parent \notin TR!UnixGone
    /\ "child" \in os.sv.child <=> at.child \notin TR!UnixGone \cup {"unborn"}
    /\ "parent" \in os.sv.child <=> at.parent \in {"fork", "close"}
    /\ "child" \in os.sv.parent <=> at.child = "close"
    /\ mem.forked <=> at.child # "unborn"
    /\ at.parent = "fork" => ~mem.forked
    /\ at.parent \in {"read", "wait", "exit"} => mem.forked

LetterInv ==
    /\ os.letter.child \in {"none", "b"} /\ mem.buf.child \in {"garbage", "b"}
    /\ os.letter.parent # "none" => /\ os.letter.parent = TR!toupper(mem.buf.child)
                                    /\ at.child \in {"stop", "exit", "killed"}
    /\ at.parent \in {"fork", "close", "write", "read"} /\ at.child \in {"stop", "exit"} =>
          os.letter.parent # "none"
    /\ at.child \in {"write", "stop"} /\ mem.buf.child # "b" => at.parent \in TR!UnixGone
    /\ at.parent \in {"wait", "exit"} =>
          /\ at.child \in {"stop", "exit", "killed"}
          /\ mem.buf.parent # "B" => at.child = "killed" \/ mem.buf.child # "b"

(* socketpair-sample, one lemma per kind of call. *)
PairAll == PairType /\ EndsInv /\ LetterInv

LEMMA PairForks == ASSUME PairAll, TR!PairFork PROVE PairAll'
  <1> USE DEF PairAll
  <1>1. at.parent = "fork" /\ at.child = "unborn" /\ ~mem.forked
    BY DEF TR!PairFork, TR!Move, EndsInv, PairType
  <1>2. CASE /\ at' = [parent |-> "close", child |-> "close"] /\ mem' = [mem EXCEPT !.forked = TRUE]
             /\ os' = [os EXCEPT !.sv = [parent |-> {"parent", "child"}, child |-> {"parent", "child"}]]
    <2>1. PairType'
      BY <1>2 DEF PairType, PairNames
    <2>2. /\ mem'.forked /\ mem'.buf = mem.buf /\ os'.letter = os.letter
          /\ os'.sv = [parent |-> {"parent", "child"}, child |-> {"parent", "child"}]
      BY <1>2 DEF PairType
    <2>3. EndsInv'
      BY <1>1, <1>2, <2>2 DEF EndsInv, TR!UnixGone
    <2>4. LetterInv'
      BY <1>1, <1>2, <2>2 DEF LetterInv, TR!UnixGone
    <2> QED BY <2>1, <2>3, <2>4
  <1>3. CASE at' = [at EXCEPT !["parent"] = "close"] /\ mem' = mem /\ os' = os
    <2>1. PairType' /\ at'.parent = "close" /\ at'.child = "unborn"
      BY <1>1, <1>3 DEF PairType
    <2>2. EndsInv'
      BY <1>1, <1>3, <2>1 DEF EndsInv, TR!UnixGone
    <2>3. LetterInv'
      BY <1>1, <1>3, <2>1 DEF LetterInv, TR!UnixGone
    <2> QED BY <2>1, <2>2, <2>3
  <1> QED BY <1>2, <1>3 DEF TR!PairFork, TR!Move

(* Each process closes the other's end. *)
LEMMA PairCloses ==
    ASSUME PairAll, TR!PairClose("child", "parent", "read") \/ TR!PairClose("parent", "child", "write")
    PROVE  PairAll'
  <1> USE DEF PairAll
  <1>1. CASE TR!PairClose("child", "parent", "read")
    <2>1. /\ at.child = "close" /\ at' = [at EXCEPT !["child"] = "read"] /\ mem' = mem
          /\ os' = [os EXCEPT !.sv["parent"] = @ \ {"child"}]
      BY <1>1 DEF TR!PairClose, TR!Move
    <2>2. /\ at'.child = "read" /\ at'.parent = at.parent /\ os'.letter = os.letter
          /\ os'.sv.parent = os.sv.parent \ {"child"} /\ os'.sv.child = os.sv.child
      BY <2>1 DEF PairType
    <2>3. PairType'
      BY <2>1 DEF PairType, PairNames
    <2>4. EndsInv'
      BY <2>1, <2>2 DEF EndsInv, TR!UnixGone
    <2>5. LetterInv'
      BY <2>1, <2>2 DEF LetterInv, TR!UnixGone
    <2> QED BY <2>3, <2>4, <2>5
  <1>2. CASE TR!PairClose("parent", "child", "write")
    <2>1. /\ at.parent = "close" /\ at' = [at EXCEPT !["parent"] = "write"] /\ mem' = mem
          /\ os' = [os EXCEPT !.sv["child"] = @ \ {"parent"}]
      BY <1>2 DEF TR!PairClose, TR!Move
    <2>2. /\ at'.parent = "write" /\ at'.child = at.child /\ os'.letter = os.letter
          /\ os'.sv.child = os.sv.child \ {"parent"} /\ os'.sv.parent = os.sv.parent
      BY <2>1 DEF PairType
    <2>3. PairType'
      BY <2>1 DEF PairType, PairNames
    <2>4. EndsInv'
      BY <2>1, <2>2 DEF EndsInv, TR!UnixGone
    <2>5. LetterInv'
      BY <2>1, <2>2 DEF LetterInv, TR!UnixGone
    <2> QED BY <2>3, <2>4, <2>5
  <1> QED BY <1>1, <1>2

(* The end of a process, by exit or by a signal, closes all it holds. *)
LEMMA PairGoes ==
    ASSUME PairAll, NEW p \in PairNames, NEW k \in {"exit", "killed"},
           p = "parent" => k = "killed" \/ (at.parent = "wait" /\ at.child \in TR!UnixGone),
           p = "child" => at.child # "unborn" /\ (k = "killed" \/ at.child = "stop"),
           at[p] \notin TR!UnixGone,
           at' = [at EXCEPT ![p] = k], mem' = mem,
           os'.letter = os.letter, os' = [os EXCEPT !.sv = os'.sv],
           os'.sv \in [parent : SUBSET PairNames, child : SUBSET PairNames],
           p \notin os'.sv.parent, p \notin os'.sv.child,
           \A q \in PairNames \ {p} : /\ q \in os'.sv.parent <=> q \in os.sv.parent
                                      /\ q \in os'.sv.child <=> q \in os.sv.child
    PROVE  PairAll'
  <1> USE DEF PairAll, PairNames
  <1>1. PairType'
    BY DEF PairType
  <1>2. CASE p = "parent"
    <2>1. at'.parent = k /\ at'.child = at.child /\ at.parent \notin TR!UnixGone
      BY <1>2 DEF PairType
    <2>2. EndsInv'
      BY <1>2, <2>1 DEF EndsInv, TR!UnixGone
    <2>3. LetterInv'
      BY <1>2, <2>1 DEF LetterInv, TR!UnixGone
    <2> QED BY <1>1, <2>2, <2>3
  <1>3. CASE p = "child"
    <2>1. at'.child = k /\ at'.parent = at.parent /\ at.child \notin TR!UnixGone
      BY <1>3 DEF PairType
    <2>2. EndsInv'
      BY <1>3, <2>1 DEF EndsInv, TR!UnixGone
    <2>3. LetterInv'
      BY <1>3, <2>1 DEF LetterInv, TR!UnixGone
    <2> QED BY <1>1, <2>2, <2>3
  <1> QED BY <1>2, <1>3

(* A letter is written to whoever still has its end open; for the parent   *)
(* that is a child that exists.                                            *)
LEMMA PairWrites ==
    ASSUME PairAll,
           \/ TR!PairWrite("child", "parent", "write", "stop", TR!toupper(mem.buf.child))
           \/ TR!PairWrite("parent", "child", "write", "read", "b")
    PROVE  PairAll'
  <1> USE DEF PairAll
  <1>1. ASSUME TR!PairWrite("child", "parent", "write", "stop", TR!toupper(mem.buf.child)) PROVE PairAll'
    <2>1. mem' = mem /\ at.child = "write"
      BY <1>1 DEF TR!PairWrite, TR!Move
    <2>2. CASE os.sv.parent = {}
      <3>1. /\ at' = [at EXCEPT !["child"] = "killed"]
            /\ os' = [os EXCEPT !.sv["child"] = @ \ {"child"}]
        BY <1>1, <2>2 DEF TR!PairWrite, TR!Move
      <3>2. /\ os'.sv = [parent |-> os.sv.parent, child |-> os.sv.child \ {"child"}]
            /\ os'.letter = os.letter /\ os' = [os EXCEPT !.sv = os'.sv]
        BY <3>1 DEF PairType
      <3>3. os'.sv \in [parent : SUBSET PairNames, child : SUBSET PairNames]
        BY <3>2 DEF PairType
      <3>4. at["child"] \notin TR!UnixGone /\ at.child # "unborn"
        BY <2>1 DEF TR!UnixGone
      <3> QED BY <2>1, <2>2, <3>1, <3>2, <3>3, <3>4, PairGoes DEF PairNames
    <2>3. CASE os.sv.parent # {}
      <3>1. /\ at' = [at EXCEPT !["child"] = "stop"]
            /\ os' = [os EXCEPT !.letter["parent"] = TR!toupper(mem.buf.child)]
        BY <1>1, <2>3 DEF TR!PairWrite, TR!Move
      <3>2. mem.buf.child \in {"garbage", "b"}
        BY DEF LetterInv
      <3>3. TR!toupper(mem.buf.child) \in {"garbage", "B"}
        BY <3>2 DEF TR!toupper
      <3>4. /\ at'.child = "stop" /\ at'.parent = at.parent /\ os'.sv = os.sv
            /\ os'.letter.parent = TR!toupper(mem.buf.child) /\ os'.letter.child = os.letter.child
        BY <3>1 DEF PairType
      <3>5. PairType'
        BY <2>1, <3>1, <3>3 DEF PairType
      <3>6. EndsInv'
        BY <2>1, <3>4 DEF EndsInv, TR!UnixGone
      <3>7. LetterInv'
        BY <2>1, <3>3, <3>4 DEF LetterInv, TR!UnixGone, TR!toupper
      <3> QED BY <3>5, <3>6, <3>7
    <2> QED BY <2>2, <2>3
  <1>2. ASSUME TR!PairWrite("parent", "child", "write", "read", "b") PROVE PairAll'
    <2>1. mem' = mem /\ at.parent = "write"
      BY <1>2 DEF TR!PairWrite, TR!Move
    <2>2. CASE os.sv.child = {}
      <3>1. /\ at' = [at EXCEPT !["parent"] = "killed"]
            /\ os' = [os EXCEPT !.sv["parent"] = @ \ {"parent"}]
        BY <1>2, <2>2 DEF TR!PairWrite, TR!Move
      <3>2. /\ os'.sv = [parent |-> os.sv.parent \ {"parent"}, child |-> os.sv.child]
            /\ os'.letter = os.letter /\ os' = [os EXCEPT !.sv = os'.sv]
        BY <3>1 DEF PairType
      <3>3. os'.sv \in [parent : SUBSET PairNames, child : SUBSET PairNames]
        BY <3>2 DEF PairType
      <3>4. at["parent"] \notin TR!UnixGone
        BY <2>1 DEF TR!UnixGone
      <3> QED BY <2>1, <2>2, <3>1, <3>2, <3>3, <3>4, PairGoes DEF PairNames
    <2>3. CASE os.sv.child # {}
      <3>1. at' = [at EXCEPT !["parent"] = "read"] /\ os' = [os EXCEPT !.letter["child"] = "b"]
        BY <1>2, <2>3 DEF TR!PairWrite, TR!Move
      <3>2. mem.forked
        BY <2>1, <2>3 DEF PairType, PairNames, EndsInv
      <3>3. /\ at'.parent = "read" /\ at'.child = at.child /\ os'.sv = os.sv
            /\ os'.letter.child = "b" /\ os'.letter.parent = os.letter.parent
        BY <3>1 DEF PairType
      <3>4. PairType'
        BY <2>1, <3>1 DEF PairType
      <3>5. EndsInv'
        BY <2>1, <3>2, <3>3 DEF EndsInv, TR!UnixGone
      <3>6. LetterInv'
        BY <2>1, <3>3 DEF LetterInv, TR!UnixGone
      <3> QED BY <3>4, <3>5, <3>6
    <2> QED BY <2>2, <2>3
  <1> QED BY <1>1, <1>2

(* read(): the letter, or the end when the other has gone. *)
LEMMA PairReads ==
    ASSUME PairAll,
           \/ TR!PairRead("child", "parent", "read", "write")
           \/ TR!PairRead("parent", "child", "read", "wait")
    PROVE  PairAll'
  <1> USE DEF PairAll
  <1>1. ASSUME TR!PairRead("child", "parent", "read", "write") PROVE PairAll'
    <2>1. /\ os.letter.child # "none" \/ os.sv.parent = {}
          /\ at.child = "read" /\ at' = [at EXCEPT !["child"] = "write"]
          /\ mem' = (IF os.letter.child # "none" THEN [mem EXCEPT !.buf["child"] = os.letter.child] ELSE mem)
          /\ os' = [os EXCEPT !.letter["child"] = "none"]
      BY <1>1 DEF TR!PairRead, TR!Move
    <2>2. os.letter.child \in {"none", "b"}
      BY DEF LetterInv
    <2>3. /\ at'.child = "write" /\ at'.parent = at.parent /\ os'.sv = os.sv
          /\ os'.letter.child = "none" /\ os'.letter.parent = os.letter.parent
          /\ mem'.forked = mem.forked /\ mem'.buf.parent = mem.buf.parent
          /\ mem'.buf.child = (IF os.letter.child # "none" THEN "b" ELSE mem.buf.child)
      BY <2>1, <2>2 DEF PairType
    <2>4. PairType'
      BY <2>1, <2>2 DEF PairType
    <2>5. EndsInv'
      BY <2>1, <2>3 DEF EndsInv, TR!UnixGone
    <2>6. mem'.buf.child # "b" => at.parent \in TR!UnixGone
      BY <2>1, <2>2, <2>3 DEF EndsInv
    <2>7. LetterInv'
      BY <2>1, <2>3, <2>6 DEF LetterInv, TR!UnixGone
    <2> QED BY <2>4, <2>5, <2>7
  <1>2. ASSUME TR!PairRead("parent", "child", "read", "wait") PROVE PairAll'
    <2>1. /\ os.letter.parent # "none" \/ os.sv.child = {}
          /\ at.parent = "read" /\ at' = [at EXCEPT !["parent"] = "wait"]
          /\ mem' = (IF os.letter.parent # "none" THEN [mem EXCEPT !.buf["parent"] = os.letter.parent] ELSE mem)
          /\ os' = [os EXCEPT !.letter["parent"] = "none"]
      BY <1>2 DEF TR!PairRead, TR!Move
    <2>2. os.letter.parent # "none" => os.letter.parent \in {"garbage", "B"}
      BY DEF LetterInv, TR!toupper
    <2>3. /\ at'.parent = "wait" /\ at'.child = at.child /\ os'.sv = os.sv
          /\ os'.letter.parent = "none" /\ os'.letter.child = os.letter.child
          /\ mem'.forked = mem.forked /\ mem'.buf.child = mem.buf.child
          /\ mem'.buf.parent = (IF os.letter.parent # "none" THEN os.letter.parent ELSE mem.buf.parent)
      BY <2>1 DEF PairType
    <2>4. PairType'
      BY <2>1, <2>2 DEF PairType
    <2>5. EndsInv'
      BY <2>1, <2>3 DEF EndsInv, TR!UnixGone
    <2>6. os.letter.parent = "none" => at.child = "killed"
      BY <2>1 DEF EndsInv, LetterInv, PairType, TR!UnixGone
    <2>7. LetterInv'
      BY <2>1, <2>3, <2>6 DEF LetterInv, TR!UnixGone, TR!toupper
    <2> QED BY <2>4, <2>5, <2>7
  <1> QED BY <1>1, <1>2

LEMMA PairEnds ==
    ASSUME PairAll,
           \/ TR!PairEnd("child", "stop", "exit")
           \/ at.child \in TR!UnixGone /\ TR!PairEnd("parent", "wait", "exit")
           \/ \E p \in PairNames : TR!PairKilled(p)
    PROVE  PairAll'
  <1> USE DEF PairAll
  <1>1. PICK p \in PairNames, k \in {"exit", "killed"} :
            /\ TR!PairEnd(p, at[p], k) /\ at[p] \notin TR!UnixGone \cup {"unborn"}
            /\ p = "parent" => k = "killed" \/ (at.parent = "wait" /\ at.child \in TR!UnixGone)
            /\ p = "child" => k = "killed" \/ at.child = "stop"
    BY DEF TR!PairKilled, TR!PairEnd, TR!Move, TR!UnixGone, PairNames
  <1>2. at' = [at EXCEPT ![p] = k] /\ mem' = mem /\ os' = [os EXCEPT !.sv = [q \in DOMAIN @ |-> @[q] \ {p}]]
    BY <1>1 DEF TR!PairEnd, TR!Move
  <1>3. /\ os'.sv = [q \in DOMAIN os.sv |-> os.sv[q] \ {p}] /\ os'.letter = os.letter
        /\ os' = [os EXCEPT !.sv = os'.sv]
    BY <1>2 DEF PairType
  <1>4. /\ os.sv \in [parent : SUBSET PairNames, child : SUBSET PairNames]
        /\ DOMAIN os.sv = {"parent", "child"}
    BY DEF PairType
  <1>5. /\ os'.sv.parent = os.sv.parent \ {p} /\ os'.sv.child = os.sv.child \ {p}
        /\ os'.sv \in [parent : SUBSET PairNames, child : SUBSET PairNames]
    <2>1. os'.sv = [q \in {"parent", "child"} |-> os.sv[q] \ {p}]
      BY <1>3, <1>4
    <2>2. os'.sv = [parent |-> os.sv["parent"] \ {p}, child |-> os.sv["child"] \ {p}]
      BY ONLY <2>1
    <2>3. os.sv["parent"] \ {p} \in SUBSET PairNames /\ os.sv["child"] \ {p} \in SUBSET PairNames
      BY <1>4
    <2>4. os'.sv \in [parent : SUBSET PairNames, child : SUBSET PairNames]
      BY ONLY <2>2, <2>3
    <2>5. os'.sv.parent = os.sv.parent \ {p} /\ os'.sv.child = os.sv.child \ {p}
      BY ONLY <2>1
    <2> QED BY <2>4, <2>5
  <1>6. /\ p = "child" => at.child # "unborn" /\ (k = "killed" \/ at.child = "stop")
        /\ at[p] \notin TR!UnixGone
    BY <1>1
  <1>7. /\ p \notin os'.sv.parent /\ p \notin os'.sv.child
        /\ \A q \in PairNames \ {p} : /\ q \in os'.sv.parent <=> q \in os.sv.parent
                                      /\ q \in os'.sv.child <=> q \in os.sv.child
    BY <1>5
  <1> QED BY <1>1, <1>2, <1>3, <1>5, <1>6, <1>7, PairGoes

LEMMA StepPair ==
    ASSUME PairAll, TR!socketpair \/ \E p \in {"parent", "child"} : TR!PairKilled(p)
    PROVE  PairAll'
  BY PairForks, PairCloses, PairWrites, PairReads, PairEnds
  DEF TR!socketpair, TR!PairChild, TR!PairParent, PairNames

-----------------------------------------------------------------------------
(* The datagram services: what a queue looks like after a datagram has     *)
(* been put into it, and after the network has put it there twice.         *)
Put(q, r, d, k) ==
    /\ Len(r) = Len(q) + 1
    /\ \A i \in 1 .. Len(q) + 1 : r[i] = IF i < k THEN q[i] ELSE IF i = k THEN d ELSE q[i - 1]

LEMMA InsertLemma ==
    ASSUME NEW S, NEW q \in Seq(S), NEW d \in S, NEW k \in 1 .. Len(q) + 1
    PROVE  TR!InsertAt(q, k, d) \in Seq(S) /\ Put(q, TR!InsertAt(q, k, d), d, k)
  <1> DEFINE a == SubSeq(q, 1, k - 1)
             b == SubSeq(q, k, Len(q))
             ad == a \o <<d>>
  <1>1. a \in Seq(S) /\ Len(a) = k - 1 /\ \A i \in 1 .. k - 1 : a[i] = q[i]
    OBVIOUS
  <1>2. b \in Seq(S) /\ Len(b) = Len(q) + 1 - k /\ \A i \in 1 .. Len(q) + 1 - k : b[i] = q[(k + i) - 1]
    <2>1. CASE k \in 1 .. Len(q)
      BY <2>1
    <2>2. CASE k = Len(q) + 1
      BY <2>2
    <2> QED BY <2>1, <2>2
  <1> HIDE DEF a, b
  <1>3. ad \in Seq(S) /\ Len(ad) = k /\ ad[k] = d /\ \A i \in 1 .. k - 1 : ad[i] = q[i]
    <2>1. a \in Seq(S) /\ k \in Nat /\ Len(a) + 1 = k
      BY <1>1
    <2>2. /\ ad \in Seq(S) /\ Len(ad) = Len(a) + 1 /\ ad[Len(a) + 1] = d
          /\ \A i \in 1 .. Len(a) : ad[i] = a[i]
      BY ONLY <2>1, d \in S
    <2> QED BY <1>1, <2>1, <2>2
  <1> HIDE DEF ad
  <1>4. TR!InsertAt(q, k, d) = ad \o b
    BY DEF TR!InsertAt, a, b, ad
  <1>5. ad \o b \in Seq(S) /\ Len(ad \o b) = Len(q) + 1
    <2>1. ad \in Seq(S) /\ b \in Seq(S)
      BY <1>2, <1>3
    <2>2. ad \o b \in Seq(S) /\ Len(ad \o b) = Len(ad) + Len(b)
      BY ONLY <2>1
    <2>3. Len(q) \in Nat
      OBVIOUS
    <2> QED BY <1>2, <1>3, <2>2, <2>3
  <1>6. ASSUME NEW i \in 1 .. Len(q) + 1
        PROVE  (ad \o b)[i] = IF i < k THEN q[i] ELSE IF i = k THEN d ELSE q[i - 1]
    <2>0. i \in Nat /\ k \in Nat
      OBVIOUS
    <2>1. CASE i <= k
      <3>1. (ad \o b)[i] = ad[i]
        BY <1>2, <1>3, <2>1
      <3> QED BY <1>3, <2>1, <3>1
    <2>2. CASE i > k
      <3>1. (ad \o b)[i] = b[i - k]
        BY <1>2, <1>3, <2>2
      <3>2. i - k \in 1 .. Len(q) + 1 - k /\ (k + (i - k)) - 1 = i - 1
        BY <2>2
      <3>3. b[i - k] = q[i - 1]
        BY <1>2, <3>2
      <3> QED BY ONLY <2>0, <2>2, <3>1, <3>3
    <2>3. i <= k \/ i > k
      BY ONLY <2>0
    <2> QED BY ONLY <2>1, <2>2, <2>3, Zenon
  <1> QED BY <1>4, <1>5, <1>6 DEF Put

LEMMA SentLemma ==
    ASSUME NEW q \in Seq(Dgrams), NEW d \in Dgrams, NEW r \in TR!Sent(q, d)
    PROVE  r \in Seq(Dgrams) /\ (r = q \/ \E k \in 1 .. Len(q) + 1 : Put(q, r, d, k))
  <1>1. CASE r = Append(q, d)
    <2>1. r \in Seq(Dgrams) /\ Len(r) = Len(q) + 1 /\ r[Len(q) + 1] = d
          /\ \A i \in 1 .. Len(q) : r[i] = q[i]
      BY <1>1
    <2>2. Len(q) \in Nat
      OBVIOUS
    <2>3. Len(q) + 1 \in 1 .. Len(q) + 1 /\ Put(q, r, d, Len(q) + 1)
      BY <2>1, <2>2 DEF Put
    <2> QED BY <2>1, <2>3
  <1>2. ASSUME NEW k \in 1 .. Len(q) + 1, r = TR!InsertAt(q, k, d)
        PROVE  r \in Seq(Dgrams) /\ Put(q, r, d, k)
    BY <1>2, InsertLemma
  <1>3. r \in {Append(q, d), q} \/ \E k \in 1 .. Len(q) + 1 : r = TR!InsertAt(q, k, d)
    BY DEF TR!Sent
  <1> QED BY <1>1, <1>2, <1>3

LEMMA DuplicatedLemma ==
    ASSUME NEW q \in Seq(Dgrams), NEW d \in Dgrams, NEW r \in TR!Duplicated(q, d)
    PROVE  r \in Seq(Dgrams) /\ \A i \in 1 .. Len(r) : r[i] = d \/ \E k \in 1 .. Len(q) : r[i] = q[k]
  <1>1. PICK k \in 1 .. Len(q) + 1, l \in 1 .. Len(q) + 1 :
            r = TR!InsertAt(TR!InsertAt(q, k, d), l, d)
    BY DEF TR!Duplicated
  <1> DEFINE p == TR!InsertAt(q, k, d)
  <1>2. p \in Seq(Dgrams) /\ Put(q, p, d, k)
    BY InsertLemma
  <1> HIDE DEF p
  <1>3. l \in 1 .. Len(p) + 1 /\ Len(q) \in Nat
    BY <1>2 DEF Put
  <1>4. r \in Seq(Dgrams) /\ Put(p, r, d, l)
    <2>1. r = TR!InsertAt(p, l, d)
      BY <1>1 DEF p
    <2>2. TR!InsertAt(p, l, d) \in Seq(Dgrams) /\ Put(p, TR!InsertAt(p, l, d), d, l)
      BY <1>2, <1>3, InsertLemma
    <2> QED BY <2>1, <2>2
  <1>5. ASSUME NEW i \in 1 .. Len(p) PROVE p[i] = d \/ \E m \in 1 .. Len(q) : p[i] = q[m]
    BY <1>2, <1>3 DEF Put
  <1>6. ASSUME NEW i \in 1 .. Len(r) PROVE r[i] = d \/ \E m \in 1 .. Len(p) : r[i] = p[m]
    <2>1. Len(p) \in Nat /\ Len(r) = Len(p) + 1
      BY <1>2, <1>4 DEF Put
    <2>2. r[i] = IF i < l THEN p[i] ELSE IF i = l THEN d ELSE p[i - 1]
      BY <1>4, <1>6, <2>1 DEF Put
    <2>3. CASE i < l
      BY <1>3, <2>1, <2>2, <2>3
    <2>4. CASE i > l
      <3>1. i - 1 \in 1 .. Len(p) /\ r[i] = p[i - 1]
        BY <1>3, <2>1, <2>2, <2>4
      <3> QED BY <3>1
    <2> QED BY <1>3, <2>1, <2>2, <2>3, <2>4
  <1> QED BY <1>4, <1>5, <1>6

(* A cut datagram is cut already, and Recvfrom makes a question an answer. *)
LEMMA CutLemma ==
    ASSUME DgType, NEW c \in DgClients, NEW i \in Nat
    PROVE  /\ TR!Cut(Answer(c, i)) = Answer(c, i) /\ Answer(c, i) \in Dgrams /\ Answer(c, i).from = c
           /\ Answer(c, i).j = i /\ Question(c, i) \in Dgrams
           /\ Question(c, i).from = c /\ Question(c, i).j = i
           /\ [TR!Cut(Question(c, i)) EXCEPT !.upper = ~Runs("id_echo")] = Answer(c, i)
  <1> DEFINE n == IF mem.size[c] > BufSize THEN BufSize ELSE mem.size[c]
             u == ~Runs("id_echo")
  <1>1. mem.size[c] \in Nat /\ BufSize \in Nat /\ u \in BOOLEAN
    BY TransferAssumption DEF DgType, DgMem, Runs
  <1>2. n \in Nat /\ (IF n > BufSize THEN BufSize ELSE n) = n
    BY <1>1
  <1>0. \A v : TR!Cut([from |-> c, j |-> i, size |-> mem.size[c], upper |-> v])
                  = [from |-> c, j |-> i, size |-> n, upper |-> v]
    BY DEF TR!Cut
  <1>3. Answer(c, i) = [from |-> c, j |-> i, size |-> n, upper |-> u]
    BY DEF Answer, TR!Cut
  <1>4. TR!Cut(Question(c, i)) = [from |-> c, j |-> i, size |-> n, upper |-> FALSE]
    BY <1>0, Zenon DEF Question
  <1> HIDE DEF n, u
  <1>5. TR!Cut(Answer(c, i)) = Answer(c, i)
    BY <1>2, <1>3 DEF TR!Cut
  <1>6. [TR!Cut(Question(c, i)) EXCEPT !.upper = ~Runs("id_echo")] = Answer(c, i)
    BY <1>3, <1>4 DEF u
  <1> QED BY <1>1, <1>2, <1>3, <1>5, <1>6 DEF Question, Dgrams

(* Datagrams come from clients, and answers change with their client only. *)
LEMMA FromClients ==
    ASSUME DgType
    PROVE  /\ os.sv \in Seq(Dgrams) /\ \A i \in 1 .. Len(os.sv) : os.sv[i] \in Dgrams /\ os.sv[i].from \in DgClients
           /\ \A d \in mem.buf : d \in Dgrams /\ d.from \in DgClients
           /\ \A c \in DgClients : /\ os.cl[c] \in Seq(Dgrams)
                                   /\ \A i \in 1 .. Len(os.cl[c]) : os.cl[c][i] \in Dgrams
  <1>1. os.sv \in Seq(Dgrams) /\ mem.buf \in SUBSET Dgrams
    BY DEF DgType, DgOs, DgMem
  <1>2. \A c \in DgClients : os.cl[c] \in Seq(Dgrams)
    BY DEF DgType, DgOs
  <1>3. \A d \in Dgrams : d.from \in DgClients
    BY DEF Dgrams
  <1> QED BY <1>1, <1>2, <1>3

LEMMA SameAnswers ==
    ASSUME mem'.prog = mem.prog, mem'.size = mem.size
    PROVE  \A c, i : Answer(c, i)' = Answer(c, i) /\ Question(c, i)' = Question(c, i)
  BY DEF Answer, Question, TR!Cut, Runs

DgParts == /\ WayInv /\ GotInv /\ (os.dups = 0 => SingleInv /\ AskedInv)
           /\ (at["sv"] # "send" => mem.buf = {})

(* A process that moves on without a datagram. *)
LEMMA DgQuiet ==
    ASSUME DgType, DgParts, mem' = mem, os' = os,
           NEW p \in DgProcs, NEW k \in {"send", "recv", "failed", "killed"},
           p = "sv" => k = "recv",
           p # "sv" => \/ at[p] = "start" /\ k = "send"
                       \/ at[p] = "send" /\ k \in {"recv", "failed"}
                       \/ at[p] = "recv" /\ k \in {"failed", "killed"},
           p = "sv" => at[p] # "send",
           at' = [at EXCEPT ![p] = k]
    PROVE  DgType' /\ DgParts'
  <1> USE TransferAssumption DEF DgType, DgProcs
  <1>1. DgType'
    BY DEF DgMem, DgAt, DgOs
  <1>2. WayInv' /\ GotInv'
    BY SameAnswers DEF DgParts, WayInv, GotInv
  <1>3. SingleInv => SingleInv'
    BY DEF SingleInv
  <1>4. ASSUME AskedInv PROVE AskedInv'
    <2>1. \A c \in DgClients : at'[c] = at[c] \/ (c = p /\ at'[c] = k)
      BY DEF DgAt
    <2> QED BY <1>4, <2>1, FromClients DEF AskedInv
  <1>5. at'["sv"] # "send" => at["sv"] # "send"
    BY DEF DgAt
  <1> QED BY <1>1, <1>2, <1>3, <1>4, <1>5 DEF DgParts

(* A question is sent: put into the queue anywhere, lost or duplicated. *)
LEMMA StepDgSend ==
    ASSUME DgType, DgParts, NEW c \in DgClients, TR!DgSend(c)
    PROVE  DgType' /\ mem' = mem /\ DgParts'
  <1> DEFINE d == Question(c, mem.j[c])
  <1> USE TransferAssumption DEF DgType, DgProcs
  <1>1. at[c] = "send" /\ at' = [at EXCEPT ![c] = "recv"] /\ mem' = mem
    BY DEF TR!DgSend, TR!Move
  <1>2. TR!Datagram(c) = d /\ mem.j[c] \in Nat
    BY DEF TR!Datagram, Question, DgMem
  <1>3. d \in Dgrams /\ d.from = c /\ d.j = mem.j[c]
    BY <1>2, CutLemma
  <1> HIDE DEF d
  <1>4. PICK r :
          \/ r \in TR!Sent(os.sv, d) /\ os' = [os EXCEPT !.sv = r]
          \/ r \in TR!Duplicated(os.sv, d) /\ os' = [os EXCEPT !.sv = r, !.dups = @ + 1]
    BY <1>2 DEF TR!DgSend
  <1>5. os.sv \in Seq(Dgrams) /\ os.dups \in Nat
    BY DEF DgOs
  <1>6. /\ r \in Seq(Dgrams) /\ os'.sv = r /\ os'.cl = os.cl
        /\ \/ os'.dups = os.dups /\ (r = os.sv \/ \E k \in 1 .. Len(os.sv) + 1 : Put(os.sv, r, d, k))
           \/ os'.dups # 0 /\ \A i \in 1 .. Len(r) : r[i] = d \/ \E k \in 1 .. Len(os.sv) : r[i] = os.sv[k]
    <2>1. CASE r \in TR!Sent(os.sv, d) /\ os' = [os EXCEPT !.sv = r]
      <3>1. r \in Seq(Dgrams) /\ (r = os.sv \/ \E k \in 1 .. Len(os.sv) + 1 : Put(os.sv, r, d, k))
        BY <1>3, <1>5, <2>1, SentLemma
      <3>2. os'.sv = r /\ os'.cl = os.cl /\ os'.dups = os.dups
        BY <2>1 DEF DgOs
      <3> QED BY <3>1, <3>2
    <2>2. CASE r \in TR!Duplicated(os.sv, d) /\ os' = [os EXCEPT !.sv = r, !.dups = @ + 1]
      <3>1. r \in Seq(Dgrams) /\ \A i \in 1 .. Len(r) : r[i] = d \/ \E k \in 1 .. Len(os.sv) : r[i] = os.sv[k]
        BY <1>3, <1>5, <2>2, DuplicatedLemma
      <3>2. os'.sv = r /\ os'.cl = os.cl /\ os'.dups = os.dups + 1
        BY <2>2 DEF DgOs
      <3> QED BY <1>5, <3>1, <3>2
    <2> QED BY <1>4, <2>1, <2>2
  <1>7. DgType'
    <2>1. DgMem' /\ DgAt'
      BY <1>1 DEF DgMem, DgAt
    <2>2. os.dups + 1 \in Nat /\ r \in Seq(Dgrams)
      BY <1>5, <1>6
    <2>3. os' = [os EXCEPT !.sv = r] \/ os' = [os EXCEPT !.sv = r, !.dups = os.dups + 1]
      BY <1>4
    <2>4. DgOs'
      BY <2>2, <2>3 DEF DgOs
    <2> QED BY <2>1, <2>4
  <1>8. \A i \in 1 .. Len(r) : r[i] = d \/ \E k \in 1 .. Len(os.sv) : r[i] = os.sv[k]
    <2>1. ASSUME NEW k \in 1 .. Len(os.sv) + 1, Put(os.sv, r, d, k), NEW i \in 1 .. Len(r)
          PROVE  r[i] = d \/ \E l \in 1 .. Len(os.sv) : r[i] = os.sv[l]
      <3>1. Len(os.sv) \in Nat /\ Len(r) = Len(os.sv) + 1
        BY <1>5, <2>1 DEF Put
      <3>2. r[i] = IF i < k THEN os.sv[i] ELSE IF i = k THEN d ELSE os.sv[i - 1]
        BY <2>1, <3>1 DEF Put
      <3>3. \/ i < k /\ i \in 1 .. Len(os.sv)
            \/ i = k
            \/ i > k /\ i - 1 \in 1 .. Len(os.sv)
        BY <3>1
      <3> QED BY <3>1, <3>2, <3>3
    <2> QED BY <1>5, <1>6, <2>1
  <1>9. WayInv' /\ GotInv'
    <2>1. GotInv'
      BY <1>1, <1>6, SameAnswers DEF DgParts, GotInv
    <2>2. ASSUME NEW i \in 1 .. Len(r) PROVE r[i] = Question(r[i].from, r[i].j) /\ r[i].j <= mem.j[r[i].from]
      BY <1>2, <1>3, <1>8 DEF DgParts, WayInv, d
    <2>3. WayInv'
      BY <1>1, <1>6, <2>2, SameAnswers DEF DgParts, WayInv
    <2> QED BY <2>1, <2>3
  <1>10. ASSUME os'.dups = 0 PROVE SingleInv' /\ AskedInv'
    <2>1. os.dups = 0 /\ (r = os.sv \/ \E k \in 1 .. Len(os.sv) + 1 : Put(os.sv, r, d, k))
      BY <1>6, <1>10
    <2>2. SingleInv /\ AskedInv
      BY <2>1 DEF DgParts
    <2>3. /\ \A i \in 1 .. Len(os.sv) : os.sv[i].from # c
          /\ \A e \in mem.buf : e.from # c
          /\ os.cl[c] = <<>>
      <3>1. os.cl[c] \in Seq(Dgrams) /\ ~(\E i \in 1 .. Len(os.cl[c]) : TRUE)
        BY <1>1, <2>2, FromClients DEF AskedInv
      <3>2. os.cl[c] = <<>>
        BY <3>1
      <3> QED BY <1>1, <2>2, <3>2 DEF AskedInv
    <2>4. /\ \A i, k \in 1 .. Len(r) : r[i].from = r[k].from => i = k
          /\ \A i \in 1 .. Len(r) : r[i] = d \/ \E k \in 1 .. Len(os.sv) : r[i] = os.sv[k]
      <3>1. CASE r = os.sv
        BY <1>8, <2>2, <3>1 DEF SingleInv
      <3>2. ASSUME NEW k \in 1 .. Len(os.sv) + 1, Put(os.sv, r, d, k),
                   NEW i \in 1 .. Len(r), NEW l \in 1 .. Len(r), r[i].from = r[l].from
            PROVE  i = l
        <4>1. Len(os.sv) \in Nat /\ Len(r) = Len(os.sv) + 1
          BY <1>5, <3>2 DEF Put
        <4>2. /\ r[i] = IF i < k THEN os.sv[i] ELSE IF i = k THEN d ELSE os.sv[i - 1]
              /\ r[l] = IF l < k THEN os.sv[l] ELSE IF l = k THEN d ELSE os.sv[l - 1]
          BY <3>2, <4>1 DEF Put
        <4>3. CASE i = k
          BY <1>3, <2>3, <3>2, <4>1, <4>2, <4>3
        <4>4. CASE l = k
          BY <1>3, <2>3, <3>2, <4>1, <4>2, <4>4
        <4>5. CASE i # k /\ l # k
          <5> DEFINE x == IF i < k THEN i ELSE i - 1
                     y == IF l < k THEN l ELSE l - 1
          <5>1. x \in 1 .. Len(os.sv) /\ y \in 1 .. Len(os.sv) /\ (x = y => i = l)
            BY <4>1, <4>5
          <5>2. r[i] = os.sv[x] /\ r[l] = os.sv[y]
            BY <4>1, <4>2, <4>5
          <5> QED BY <2>2, <3>2, <5>1, <5>2 DEF SingleInv
        <4> QED BY <4>3, <4>4, <4>5
      <3> QED BY <1>8, <2>1, <3>1, <3>2
    <2>5. SingleInv'
      <3>1. ASSUME NEW i \in 1 .. Len(r)
            PROVE  os.cl[r[i].from] = <<>> /\ \A e \in mem.buf : e.from # r[i].from
        BY <1>3, <2>2, <2>3, <2>4, SMTT(40) DEF SingleInv
      <3> QED BY <1>1, <1>6, <2>2, <2>4, <3>1 DEF SingleInv
    <2>6. AskedInv'
      <3>1. at'[c] = "recv" /\ \A b \in DgClients \ {c} : at'[b] = at[b]
        BY <1>1 DEF DgAt
      <3>2. ASSUME NEW i \in 1 .. Len(r)
            PROVE  /\ at'[r[i].from] \notin {"start", "send"}
                   /\ at'[r[i].from] = "recv" => r[i].j = mem.j[r[i].from]
        <4>1. CASE r[i] = d
          BY <1>3, <3>1, <4>1
        <4>2. ASSUME NEW k \in 1 .. Len(os.sv), r[i] = os.sv[k]
              PROVE  /\ at'[r[i].from] \notin {"start", "send"}
                     /\ at'[r[i].from] = "recv" => r[i].j = mem.j[r[i].from]
          BY <2>2, <2>3, <3>1, <4>2, FromClients DEF AskedInv
        <4> QED BY <2>4, <4>1, <4>2
      <3>3. \A e \in mem.buf : at'[e.from] = at[e.from]
        BY <2>3, <3>1, FromClients
      <3>4. \A b \in DgClients : \A i \in 1 .. Len(os.cl[b]) : b # c
        BY <2>3
      <3> QED BY <1>1, <1>6, <2>2, <3>1, <3>2, <3>3, <3>4 DEF AskedInv
    <2> QED BY <2>5, <2>6
  <1>11. at'["sv"] = at["sv"]
    BY <1>1 DEF DgAt
  <1> QED BY <1>1, <1>7, <1>9, <1>10, <1>11 DEF DgParts

(* The server takes the first question and makes the answer of it. *)
LEMMA StepRecvfrom ==
    ASSUME DgType, DgParts, TR!Recvfrom PROVE DgType' /\ mem'.prog = mem.prog /\ DgParts'
  <1> DEFINE h == Head(os.sv)
             a == Answer(h.from, h.j)
  <1> USE TransferAssumption DEF DgType, DgProcs
  <1>1. /\ os.sv # <<>> /\ at["sv"] = "recv" /\ at' = [at EXCEPT !["sv"] = "send"]
        /\ mem' = [mem EXCEPT !.buf = {[TR!Cut(h) EXCEPT !.upper = ~Runs("id_echo")]}]
        /\ os' = [os EXCEPT !.sv = Tail(os.sv)]
    BY DEF TR!Recvfrom, TR!Move, TR!Runs, Runs
  <1>2. /\ os.sv \in Seq(Dgrams) /\ Len(os.sv) \in Nat /\ 1 \in 1 .. Len(os.sv) /\ h = os.sv[1]
        /\ Tail(os.sv) \in Seq(Dgrams) /\ Len(Tail(os.sv)) = Len(os.sv) - 1
        /\ \A i \in 1 .. Len(os.sv) - 1 : Tail(os.sv)[i] = os.sv[i + 1] /\ i + 1 \in 1 .. Len(os.sv)
    <2>1. os.sv \in Seq(Dgrams)
      BY DEF DgOs
    <2> QED BY ONLY <1>1, <2>1
  <1>3. h.from \in DgClients /\ h.j \in Nat /\ h = Question(h.from, h.j) /\ h.j <= mem.j[h.from]
    <2>1. h \in Dgrams
      BY <1>2
    <2> QED BY <1>2, <2>1 DEF DgParts, WayInv, Dgrams
  <1>4. /\ [TR!Cut(h) EXCEPT !.upper = ~Runs("id_echo")] = a
        /\ a \in Dgrams /\ a.from = h.from /\ a.j = h.j
    <2>1. [TR!Cut(Question(h.from, h.j)) EXCEPT !.upper = ~Runs("id_echo")] = Answer(h.from, h.j)
      BY <1>3, CutLemma
    <2>2. Question(h.from, h.j) = h
      BY <1>3
    <2>3. [TR!Cut(h) EXCEPT !.upper = ~Runs("id_echo")] = a
      BY <2>1, <2>2
    <2> QED BY <1>3, <2>3, CutLemma
  <1> HIDE DEF h, a
  <1>5. /\ mem' = [mem EXCEPT !.buf = {a}] /\ mem'.buf = {a} /\ mem'.prog = mem.prog
        /\ mem'.size = mem.size /\ mem'.j = mem.j /\ mem'.got = mem.got
    BY <1>1, <1>4 DEF DgMem
  <1>6. os'.sv = Tail(os.sv) /\ os'.cl = os.cl /\ os'.dups = os.dups
    BY <1>1 DEF DgOs
  <1>7. DgType'
    <2>1. {a} \in SUBSET Dgrams
      BY <1>4
    <2>2. DgMem' /\ DgAt'
      BY <1>1, <1>5, <2>1 DEF DgMem, DgAt
    <2>3. DgOs'
      BY <1>1, <1>2 DEF DgOs
    <2> QED BY <2>2, <2>3
  <1>8. at'["sv"] = "send" /\ mem.buf = {} /\ \A c \in DgClients : at'[c] = at[c]
    BY <1>1 DEF DgParts, DgAt
  <1>9. a = Answer(a.from, a.j) /\ a.j <= mem.j[a.from]
    BY <1>3, <1>4 DEF a
  <1>10. WayInv' /\ GotInv'
    <2>1. GotInv'
      BY <1>5, <1>6, SameAnswers DEF DgParts, GotInv
    <2>2. \A i \in 1 .. Len(os'.sv) : LET d == os'.sv[i] IN d = Question(d.from, d.j) /\ d.j <= mem.j[d.from]
      BY <1>2, <1>6 DEF DgParts, WayInv
    <2>3. WayInv'
      BY <1>5, <1>6, <1>9, <2>2, SameAnswers DEF DgParts, WayInv
    <2> QED BY <2>1, <2>3
  <1>11. ASSUME os'.dups = 0 PROVE SingleInv' /\ AskedInv'
    <2>1. SingleInv /\ AskedInv
      BY <1>6, <1>11 DEF DgParts
    <2>2. \A i \in 1 .. Len(os'.sv) : os'.sv[i] = os.sv[i + 1] /\ i + 1 \in 1 .. Len(os.sv) /\ i + 1 # 1
      BY <1>2, <1>6
    <2>3. ASSUME NEW i \in 1 .. Len(os'.sv) PROVE os'.sv[i].from # a.from
      <3>1. os.sv[1].from = a.from /\ 1 \in 1 .. Len(os.sv)
        BY <1>2, <1>4
      <3>2. os'.sv[i] = os.sv[i + 1] /\ i + 1 \in 1 .. Len(os.sv) /\ i + 1 # 1
        BY <2>2
      <3>3. \A m, l \in 1 .. Len(os.sv) : os.sv[m].from = os.sv[l].from => m = l
        BY <2>1 DEF SingleInv
      <3> QED BY ONLY <3>1, <3>2, <3>3
    <2>4. os.cl[a.from] = <<>>
      BY <1>2, <1>4, <2>1 DEF SingleInv
    <2>5. ASSUME NEW i \in 1 .. Len(os'.sv), NEW k \in 1 .. Len(os'.sv), os'.sv[i].from = os'.sv[k].from
          PROVE  i = k
      <3>1. /\ i + 1 \in 1 .. Len(os.sv) /\ k + 1 \in 1 .. Len(os.sv)
            /\ os.sv[i + 1].from = os.sv[k + 1].from
        BY <2>2, <2>5
      <3>2. \A x, y \in 1 .. Len(os.sv) : os.sv[x].from = os.sv[y].from => x = y
        BY <2>1 DEF SingleInv
      <3>3. i + 1 = k + 1
        BY ONLY <3>1, <3>2
      <3>4. i \in Nat /\ k \in Nat
        BY <1>2, <1>6
      <3> QED BY ONLY <3>3, <3>4
    <2>6. SingleInv'
      <3>1. \A i \in 1 .. Len(os'.sv) : os.cl[os'.sv[i].from] = <<>>
        BY <2>1, <2>2 DEF SingleInv
      <3>2. \A b \in DgClients : Len(os.cl[b]) <= 1
        BY <2>1 DEF SingleInv
      <3> QED BY <1>5, <1>6, <2>3, <2>4, <2>5, <3>1, <3>2 DEF SingleInv
    <2>7. at[a.from] \notin {"start", "send"} /\ (at[a.from] = "recv" => a.j = mem.j[a.from])
      BY <1>2, <1>4, <2>1 DEF AskedInv
    <2>8. \A i \in 1 .. Len(os'.sv) : os'.sv[i].from \in DgClients
      BY <2>2, FromClients
    <2>9. AskedInv'
      <3>1. ASSUME NEW i \in 1 .. Len(os'.sv)
            PROVE  /\ at'[os'.sv[i].from] \notin {"start", "send"}
                   /\ at'[os'.sv[i].from] = "recv" => os'.sv[i].j = mem.j[os'.sv[i].from]
        BY <1>8, <2>1, <2>2, <2>8, SMTT(40) DEF AskedInv
      <3>2. at'[a.from] = at[a.from]
        BY <1>3, <1>4, <1>8
      <3>3. \A c \in DgClients : \A i \in 1 .. Len(os'.cl[c]) :
               at'[c] \notin {"start", "send"} /\ (at'[c] = "recv" => os'.cl[c][i].j = mem.j[c])
        BY <1>6, <1>8, <2>1 DEF AskedInv
      <3> QED BY <1>5, <2>7, <3>1, <3>2, <3>3 DEF AskedInv
    <2> QED BY <2>6, <2>9
  <1> QED BY <1>5, <1>7, <1>8, <1>10, <1>11 DEF DgParts

(* The answer is sent: put into its client's queue anywhere, lost or       *)
(* duplicated, or there is no client any more.                             *)
LEMMA StepSendto ==
    ASSUME DgType, DgParts, TR!Sendto PROVE DgType' /\ mem'.prog = mem.prog /\ DgParts'
  <1> USE TransferAssumption DEF DgType, DgProcs
  <1>1. PICK d \in mem.buf, k \in {"recv", "exit"} :
          /\ at' = [at EXCEPT !["sv"] = k]
          /\ \/ os' = os
             \/ \E r \in TR!Sent(os.cl[d.from], d) : os' = [os EXCEPT !.cl[d.from] = r]
             \/ \E r \in TR!Duplicated(os.cl[d.from], d) :
                   os' = [os EXCEPT !.cl[d.from] = r, !.dups = @ + 1]
    BY DEF TR!Sendto, TR!Move
  <1> DEFINE c == d.from
             q == os.cl[c]
  <1>2. mem' = [mem EXCEPT !.buf = {}]
    BY DEF TR!Sendto
  <1>3. /\ c \in DgClients /\ d \in Dgrams /\ d = Answer(c, d.j) /\ d.j <= mem.j[c]
        /\ q \in Seq(Dgrams) /\ Len(q) \in Nat /\ os.dups \in Nat
    <2>1. c \in DgClients /\ d \in Dgrams /\ q \in Seq(Dgrams)
      BY FromClients
    <2> QED BY <2>1 DEF DgParts, WayInv, DgOs
  <1>4. PICK r \in Seq(Dgrams) :
          /\ os'.sv = os.sv /\ os'.cl = [os.cl EXCEPT ![c] = r] /\ os'.dups \in {os.dups, os.dups + 1}
          /\ os' = [sv |-> os'.sv, cl |-> os'.cl, dups |-> os'.dups]
          /\ \A i \in 1 .. Len(r) : r[i] = d \/ \E l \in 1 .. Len(q) : r[i] = q[l]
          /\ os'.dups = 0 => r = q \/ Len(r) = Len(q) + 1
    <2>1. CASE os' = os
      <3>1. os'.sv = os.sv /\ os'.cl = [os.cl EXCEPT ![c] = q] /\ os'.dups = os.dups
            /\ os' = [sv |-> os'.sv, cl |-> os'.cl, dups |-> os'.dups]
        BY <2>1 DEF DgOs
      <3> QED BY <1>3, <3>1
    <2>2. ASSUME NEW r \in TR!Sent(q, d), os' = [os EXCEPT !.cl[c] = r]
          PROVE  /\ os'.sv = os.sv /\ os'.cl = [os.cl EXCEPT ![c] = r] /\ os'.dups \in {os.dups, os.dups + 1}
                 /\ os' = [sv |-> os'.sv, cl |-> os'.cl, dups |-> os'.dups] /\ r \in Seq(Dgrams)
                 /\ \A i \in 1 .. Len(r) : r[i] = d \/ \E l \in 1 .. Len(q) : r[i] = q[l]
                 /\ os'.dups = 0 => r = q \/ Len(r) = Len(q) + 1
      <3>1. /\ os'.sv = os.sv /\ os'.cl = [os.cl EXCEPT ![c] = r] /\ os'.dups = os.dups
            /\ os' = [sv |-> os'.sv, cl |-> os'.cl, dups |-> os'.dups]
        BY <2>2 DEF DgOs
      <3>2. r \in Seq(Dgrams) /\ (r = q \/ \E l \in 1 .. Len(q) + 1 : Put(q, r, d, l))
        BY <1>3, SentLemma
      <3>3. ASSUME NEW l \in 1 .. Len(q) + 1, Put(q, r, d, l), NEW i \in 1 .. Len(r)
            PROVE  r[i] = d \/ \E m \in 1 .. Len(q) : r[i] = q[m]
        <4>1. Len(r) = Len(q) + 1
          BY <3>3 DEF Put
        <4>2. r[i] = IF i < l THEN q[i] ELSE IF i = l THEN d ELSE q[i - 1]
          BY <3>3, <4>1 DEF Put
        <4>3. (i < l /\ i \in 1 .. Len(q)) \/ i = l \/ (i > l /\ i - 1 \in 1 .. Len(q))
          BY <1>3, <4>1
        <4> QED BY <1>3, <4>1, <4>2, <4>3
      <3>4. r = q \/ Len(r) = Len(q) + 1
        BY <3>2 DEF Put
      <3> QED BY <3>1, <3>2, <3>3, <3>4
    <2>3. ASSUME NEW r \in TR!Duplicated(q, d), os' = [os EXCEPT !.cl[c] = r, !.dups = @ + 1]
          PROVE  /\ os'.sv = os.sv /\ os'.cl = [os.cl EXCEPT ![c] = r] /\ os'.dups \in {os.dups, os.dups + 1}
                 /\ os' = [sv |-> os'.sv, cl |-> os'.cl, dups |-> os'.dups] /\ r \in Seq(Dgrams)
                 /\ \A i \in 1 .. Len(r) : r[i] = d \/ \E l \in 1 .. Len(q) : r[i] = q[l]
                 /\ os'.dups = 0 => r = q \/ Len(r) = Len(q) + 1
      <3>1. /\ os'.sv = os.sv /\ os'.cl = [os.cl EXCEPT ![c] = r] /\ os'.dups = os.dups + 1
            /\ os' = [sv |-> os'.sv, cl |-> os'.cl, dups |-> os'.dups]
        BY <2>3 DEF DgOs
      <3>2. r \in Seq(Dgrams) /\ \A i \in 1 .. Len(r) : r[i] = d \/ \E l \in 1 .. Len(q) : r[i] = q[l]
        BY <1>3, DuplicatedLemma, ZenonT(60)
      <3> QED BY <1>3, <3>1, <3>2
    <2> QED BY <1>1, <2>1, <2>2, <2>3
  <1> HIDE DEF c, q
  <1>5. /\ os'.cl[c] = r /\ \A b \in DgClients \ {c} : os'.cl[b] = os.cl[b]
    BY <1>3, <1>4 DEF DgOs
  <1>6. /\ mem'.buf = {} /\ mem'.prog = mem.prog /\ mem'.size = mem.size /\ mem'.j = mem.j
        /\ mem'.got = mem.got
    BY <1>2 DEF DgMem
  <1>7. DgType'
    <2>1. DgMem' /\ DgAt'
      BY <1>1, <1>2 DEF DgMem, DgAt
    <2>2. os'.cl \in [DgClients -> Seq(Dgrams)] /\ os'.sv \in Seq(Dgrams) /\ os'.dups \in Nat
      BY <1>3, <1>4 DEF DgOs
    <2>3. DgOs'
      BY <1>4, <2>2 DEF DgOs
    <2> QED BY <2>1, <2>3
  <1>8. \A b \in DgClients : at'[b] = at[b]
    BY <1>1 DEF DgAt
  <1>9. \A l \in 1 .. Len(q) : q[l] = Answer(c, q[l].j) /\ q[l].j <= mem.j[c]
    BY <1>3 DEF DgParts, WayInv, q
  <1>10. \A i \in 1 .. Len(r) : r[i] = Answer(c, r[i].j) /\ r[i].j <= mem.j[c]
    BY <1>3, <1>4, <1>9, SMTT(40)
  <1>11. GotInv'
    <2>1. os'.dups = 0 => os.dups = 0
      BY <1>3, <1>4
    <2> QED BY <1>6, <2>1, SameAnswers DEF DgParts, GotInv
  <1>12. WayInv'
    <2>1. \A b \in DgClients : \A i \in 1 .. Len(os'.cl[b]) :
             os'.cl[b][i] = Answer(b, os'.cl[b][i].j) /\ os'.cl[b][i].j <= mem.j[b]
      BY <1>5, <1>10 DEF DgParts, WayInv
    <2> QED BY <1>4, <1>6, <2>1, SameAnswers DEF DgParts, WayInv
  <1>13. ASSUME os'.dups = 0 PROVE SingleInv' /\ AskedInv'
    <2>1. os.dups = 0 /\ SingleInv /\ AskedInv
      BY <1>3, <1>4, <1>13 DEF DgParts
    <2>2. q = <<>> /\ Len(q) = 0 /\ \A i \in 1 .. Len(os.sv) : os.sv[i].from # c
      <3>1. os.cl[d.from] = <<>> /\ \A i \in 1 .. Len(os.sv) : os.sv[i].from # d.from
        BY <1>1, <2>1 DEF SingleInv
      <3>2. q = <<>> /\ \A i \in 1 .. Len(os.sv) : os.sv[i].from # c
        BY <3>1 DEF q, c
      <3> QED BY <3>2
    <2>3. Len(r) = 0 \/ Len(r) = 1
      BY <1>4, <1>13, <2>2
    <2>4. SingleInv'
      <3>1. \A b \in DgClients : Len(os'.cl[b]) <= 1
        <4>1. Len(r) <= 1
          <5>1. \A n \in Nat : n = 0 \/ n = 1 => n <= 1
            OBVIOUS
          <5>2. Len(r) \in Nat
            OBVIOUS
          <5> QED BY <2>3, <5>1, <5>2
        <4>2. \A b \in DgClients \ {c} : Len(os.cl[b]) <= 1
          BY <2>1 DEF SingleInv
        <4> QED BY <1>5, <4>1, <4>2
      <3>2. \A i \in 1 .. Len(os.sv) : os'.cl[os.sv[i].from] = <<>>
        BY <1>5, <2>1, <2>2, FromClients, SMTT(40) DEF SingleInv
      <3> QED BY <1>4, <1>6, <2>1, <3>1, <3>2 DEF SingleInv
    <2>5. \A i \in 1 .. Len(r) : r[i] = d
      BY <1>4, <2>2
    <2>6. at[c] \notin {"start", "send"} /\ (at[c] = "recv" => d.j = mem.j[c])
      BY <1>1, <2>1 DEF AskedInv, c
    <2>7. AskedInv'
      <3>1. \A b \in DgClients : \A i \in 1 .. Len(os'.cl[b]) :
               at'[b] \notin {"start", "send"} /\ (at'[b] = "recv" => os'.cl[b][i].j = mem.j[b])
        BY <1>5, <1>8, <2>1, <2>5, <2>6 DEF AskedInv
      <3>2. \A i \in 1 .. Len(os.sv) : at'[os.sv[i].from] = at[os.sv[i].from]
        BY <1>8, FromClients
      <3> QED BY <1>4, <1>6, <2>1, <3>1, <3>2, SMTT(40) DEF AskedInv
    <2> QED BY <2>4, <2>7
  <1> QED BY <1>6, <1>7, <1>11, <1>12, <1>13, SMTT(40) DEF DgParts

(* The client prints the first answer in its queue. *)
LEMMA StepReceive ==
    ASSUME DgType, DgParts, NEW c \in DgClients, TR!Receive(c)
    PROVE  DgType' /\ mem'.prog = mem.prog /\ DgParts'
  <1> DEFINE q == os.cl[c]
             g == mem.got[c]
             h == Head(q)
             k == IF mem.j[c] = NumMsgs THEN "done" ELSE "send"
  <1> USE TransferAssumption DEF DgType, DgProcs
  <1>1. /\ q # <<>> /\ at[c] = "recv" /\ at' = [at EXCEPT ![c] = k]
        /\ mem' = [mem EXCEPT !.got[c] = Append(g, TR!Cut(h)), !.j[c] = mem.j[c] + 1]
        /\ os' = [os EXCEPT !.cl[c] = Tail(q)]
    BY DEF TR!Receive, TR!Move
  <1>2. /\ q \in Seq(Dgrams) /\ Len(q) \in Nat /\ 1 \in 1 .. Len(q) /\ h = q[1]
        /\ Tail(q) \in Seq(Dgrams) /\ Len(Tail(q)) = Len(q) - 1
        /\ \A i \in 1 .. Len(q) - 1 : Tail(q)[i] = q[i + 1] /\ i + 1 \in 1 .. Len(q)
    <2>1. q \in Seq(Dgrams)
      BY FromClients
    <2> QED BY ONLY <1>1, <2>1
  <1>3. h \in Dgrams /\ h.j \in Nat /\ h = Answer(c, h.j) /\ h.j <= mem.j[c]
    <2>1. h \in Dgrams
      BY <1>2
    <2> QED BY <1>2, <2>1 DEF DgParts, WayInv, Dgrams
  <1>4. TR!Cut(h) = h
    <2>1. TR!Cut(Answer(c, h.j)) = Answer(c, h.j) /\ Answer(c, h.j) = h
      BY <1>3, CutLemma
    <2> QED BY <2>1
  <1>5. /\ g \in Seq(Dgrams) /\ Len(g) \in Nat /\ mem.j[c] \in Nat /\ mem.j[c] = Len(g) + 1
        /\ Append(g, h) \in Seq(Dgrams) /\ Len(Append(g, h)) = Len(g) + 1
        /\ Append(g, h)[Len(g) + 1] = h /\ \A i \in 1 .. Len(g) : Append(g, h)[i] = g[i]
    <2>1. g \in Seq(Dgrams) /\ mem.j[c] \in Nat
      BY DEF DgMem
    <2>2. mem.j[c] = Len(g) + 1
      BY DEF DgParts, GotInv
    <2> QED BY ONLY <1>3, <2>1, <2>2
  <1>6. k \in {"done", "send"}
    OBVIOUS
  <1> HIDE DEF q, h, g, k
  <1>7. /\ mem'.prog = mem.prog /\ mem'.size = mem.size /\ mem'.buf = mem.buf
        /\ mem'.got = [mem.got EXCEPT ![c] = Append(g, h)]
        /\ mem'.j = [mem.j EXCEPT ![c] = mem.j[c] + 1]
        /\ mem' = [mem EXCEPT !.got = mem'.got, !.j = mem'.j]
    BY <1>1, <1>4 DEF DgMem
  <1>8. /\ mem'.got[c] = Append(g, h) /\ mem'.j[c] = mem.j[c] + 1
        /\ \A b \in DgClients \ {c} : mem'.got[b] = mem.got[b] /\ mem'.j[b] = mem.j[b]
    BY <1>7 DEF DgMem
  <1>9. /\ os'.sv = os.sv /\ os'.dups = os.dups /\ os'.cl = [os.cl EXCEPT ![c] = Tail(q)]
        /\ os' = [os EXCEPT !.cl = os'.cl]
    BY <1>1 DEF DgOs
  <1>10. /\ os'.cl[c] = Tail(q) /\ \A b \in DgClients \ {c} : os'.cl[b] = os.cl[b]
    BY <1>9 DEF DgOs
  <1>11. /\ at'[c] = k /\ at'["sv"] = at["sv"] /\ \A b \in DgClients \ {c} : at'[b] = at[b]
    BY <1>1 DEF DgAt
  <1>12. DgType'
    <2>1. mem'.got \in [DgClients -> Seq(Dgrams)] /\ mem'.j \in [DgClients -> Nat]
      BY <1>5, <1>7 DEF DgMem
    <2>2. DgMem' /\ DgAt'
      BY <1>1, <1>6, <1>7, <2>1 DEF DgMem, DgAt
    <2>3. os'.cl \in [DgClients -> Seq(Dgrams)]
      BY <1>2, <1>9 DEF DgOs
    <2>4. DgOs'
      BY <1>9, <2>3 DEF DgOs
    <2> QED BY <2>2, <2>4
  <1>13. \A b \in DgClients : mem.j[b] \in Nat /\ mem.j[b] <= mem'.j[b]
    <2>1. \A b \in DgClients : mem.j[b] \in Nat
      BY DEF DgMem
    <2>2. mem.j[c] <= mem'.j[c]
      BY <1>5, <1>8
    <2>3. \A b \in DgClients \ {c} : mem.j[b] <= mem'.j[b]
      BY <1>8, <2>1
    <2> QED BY <2>1, <2>2, <2>3
  <1>14. WayInv'
    <2>1. ASSUME NEW d \in Dgrams, d.from \in DgClients, d.j <= mem.j[d.from] PROVE d.j <= mem'.j[d.from]
      <3>1. d.j \in Nat /\ mem'.j[d.from] \in Nat
        BY <1>12, <2>1 DEF Dgrams, DgMem
      <3> QED BY <1>13, <2>1, <3>1
    <2>2. \A i \in 1 .. Len(os'.sv) : LET d == os'.sv[i] IN d = Question(d.from, d.j) /\ d.j <= mem'.j[d.from]
      BY <1>9, <2>1, FromClients DEF DgParts, WayInv
    <2>3. \A d \in mem'.buf : d = Answer(d.from, d.j) /\ d.j <= mem'.j[d.from]
      BY <1>7, <2>1, FromClients DEF DgParts, WayInv
    <2>4. ASSUME NEW b \in DgClients, NEW i \in 1 .. Len(os'.cl[b])
          PROVE  os'.cl[b][i] = Answer(b, os'.cl[b][i].j) /\ os'.cl[b][i].j <= mem'.j[b]
      <3>1. PICK l \in 1 .. Len(os.cl[b]) : os'.cl[b][i] = os.cl[b][l]
        <4>1. CASE b = c
          BY <1>2, <1>10, <4>1 DEF q
        <4>2. CASE b # c
          BY <1>10, <4>2
        <4> QED BY <4>1, <4>2
      <3>2. os.cl[b][l] = Answer(b, os.cl[b][l].j) /\ os.cl[b][l].j <= mem.j[b] /\ os.cl[b][l] \in Dgrams
        BY FromClients DEF DgParts, WayInv
      <3>3. os.cl[b][l].j \in Nat /\ mem'.j[b] \in Nat
        BY <1>12, <3>2 DEF Dgrams, DgMem
      <3> QED BY <1>13, <3>1, <3>2, <3>3
    <2> QED BY <1>7, <2>2, <2>3, <2>4, SameAnswers DEF WayInv
  <1>15. os.dups = 0 => h.j = mem.j[c]
    BY <1>1, <1>2 DEF DgParts, AskedInv, q
  <1>16. GotInv'
    <2>1. ASSUME NEW i \in 1 .. Len(g) + 1
          PROVE  LET d == Append(g, h)[i] IN d = Answer(c, d.j) /\ d.j <= i /\ (os.dups = 0 => d.j = i)
      <3>1. CASE i = Len(g) + 1
        BY <1>3, <1>5, <1>15, <3>1
      <3>2. CASE i \in 1 .. Len(g)
        BY <1>5, <3>2 DEF DgParts, GotInv, g
      <3> QED BY <1>5, <3>1, <3>2
    <2>2. mem'.j[c] = Len(mem'.got[c]) + 1
      BY <1>5, <1>8
    <2>3. ASSUME NEW b \in DgClients \ {c}
          PROVE  /\ mem'.j[b] = Len(mem'.got[b]) + 1
                 /\ \A i \in 1 .. Len(mem'.got[b]) : LET d == mem'.got[b][i] IN
                       d = Answer(b, d.j) /\ d.j <= i /\ (os.dups = 0 => d.j = i)
      <3>1. mem'.got[b] = mem.got[b] /\ mem'.j[b] = mem.j[b]
        BY <1>8
      <3>2. /\ mem.j[b] = Len(mem.got[b]) + 1
            /\ \A i \in 1 .. Len(mem.got[b]) : LET d == mem.got[b][i] IN
                  d = Answer(b, d.j) /\ d.j <= i /\ (os.dups = 0 => d.j = i)
        BY DEF DgParts, GotInv
      <3> QED BY <3>1, <3>2
    <2>4. \A i \in 1 .. Len(mem'.got[c]) : LET d == mem'.got[c][i] IN
             d = Answer(c, d.j) /\ d.j <= i /\ (os.dups = 0 => d.j = i)
      BY <1>5, <1>8, <2>1
    <2> QED BY <1>7, <1>9, <2>2, <2>3, <2>4, SameAnswers DEF GotInv
  <1>17. ASSUME os'.dups = 0 PROVE SingleInv' /\ AskedInv'
    <2>1. SingleInv /\ AskedInv
      BY <1>9, <1>17 DEF DgParts
    <2>2. Len(q) = 1 /\ q # <<>>
      <3>1. Len(q) <= 1
        BY <2>1 DEF SingleInv, q
      <3> QED BY <1>1, <1>2, <3>1
    <2>3. os'.cl[c] = <<>> /\ Len(os'.cl[c]) = 0
      <3>1. Tail(q) \in Seq(Dgrams) /\ Len(Tail(q)) = 0
        BY <1>2, <2>2
      <3>2. \A t \in Seq(Dgrams) : Len(t) = 0 => t = <<>>
        OBVIOUS
      <3> QED BY <1>10, <3>1, <3>2
    <2>4. /\ \A i \in 1 .. Len(os.sv) : os.sv[i].from \in DgClients \ {c}
          /\ \A d \in mem.buf : d.from \in DgClients \ {c}
      BY <2>1, <2>2, FromClients DEF SingleInv, q
    <2>5. SingleInv'
      <3>1. \A b \in DgClients : Len(os'.cl[b]) <= 1
        BY <1>10, <2>1, <2>3 DEF SingleInv
      <3> QED BY <1>7, <1>9, <1>10, <2>1, <2>4, <3>1 DEF SingleInv
    <2>6. AskedInv'
      <3>1. \A b \in DgClients \ {c} : at'[b] = at[b] /\ mem'.j[b] = mem.j[b] /\ os'.cl[b] = os.cl[b]
        BY <1>8, <1>10, <1>11
      <3>2. \A i \in 1 .. Len(os.sv) : LET b == os.sv[i].from IN
               at'[b] \notin {"start", "send"} /\ (at'[b] = "recv" => os.sv[i].j = mem'.j[b])
        BY <2>1, <2>4, <3>1 DEF AskedInv
      <3>3. \A d \in mem.buf :
               at'[d.from] \notin {"start", "send"} /\ (at'[d.from] = "recv" => d.j = mem'.j[d.from])
        BY <2>1, <2>4, <3>1 DEF AskedInv
      <3>4. \A b \in DgClients : \A i \in 1 .. Len(os'.cl[b]) :
               at'[b] \notin {"start", "send"} /\ (at'[b] = "recv" => os'.cl[b][i].j = mem'.j[b])
        BY <2>1, <2>3, <3>1 DEF AskedInv
      <3> QED BY <1>7, <1>9, <3>2, <3>3, <3>4 DEF AskedInv
    <2> QED BY <2>5, <2>6
  <1>18. at'["sv"] # "send" => mem'.buf = {}
    BY <1>7, <1>11 DEF DgParts
  <1> QED BY <1>7, <1>12, <1>14, <1>16, <1>17, <1>18 DEF DgParts

LEMMA StepDatagram ==
    ASSUME DgType, DgParts, TR!server \/ \E c \in DgClients : TR!client(c) \/ TR!Kill(c)
    PROVE  DgType' /\ mem'.prog = mem.prog /\ DgParts'
  <1> USE TransferAssumption DEF DgProcs
  <1>1. CASE TR!DgBind
    <2>1. at["sv"] = "start" /\ at' = [at EXCEPT !["sv"] = "recv"] /\ mem' = mem /\ os' = os
      BY <1>1 DEF TR!DgBind, TR!Move
    <2> QED BY <2>1, DgQuiet
  <1>2. ASSUME NEW c \in DgClients, TR!Open(c) \/ TR!SendToNobody(c) \/ TR!Refused(c) \/ TR!Kill(c)
        PROVE  DgType' /\ mem'.prog = mem.prog /\ DgParts'
    <2>1. /\ mem' = mem /\ os' = os
          /\ \E k \in {"send", "recv", "failed", "killed"} :
                /\ at' = [at EXCEPT ![c] = k]
                /\ \/ at[c] = "start" /\ k = "send"
                   \/ at[c] = "send" /\ k \in {"recv", "failed"}
                   \/ at[c] = "recv" /\ k \in {"failed", "killed"}
      BY <1>2 DEF TR!Open, TR!SendToNobody, TR!Refused, TR!Kill, TR!Move
    <2>2. c \in DgProcs /\ c # "sv"
      OBVIOUS
    <2> QED BY <2>1, <2>2, DgQuiet
  <1> QED
    BY <1>1, <1>2, StepDgSend, StepRecvfrom, StepSendto, StepReceive DEF TR!server, TR!client

LEMMA InitDatagram == ASSUME TR!DgInit PROVE DgType /\ DgParts
  <1> USE TransferAssumption DEF DgProcs
  <1>1. PICK prog \in TR!Progs, size \in [DgClients -> 0 .. MaxSize] :
        /\ mem = [prog |-> prog, size |-> size, j |-> [c \in DgClients |-> 1],
                  got |-> [c \in DgClients |-> <<>>], buf |-> {}]
        /\ at = [p \in DgClients \cup {"sv"} |-> "start"]
        /\ os = [sv |-> <<>>, cl |-> [c \in DgClients |-> <<>>], dups |-> 0]
    BY DEF TR!DgInit
  <1>2. [c \in DgClients |-> <<>>] \in [DgClients -> Seq(Dgrams)] /\ size \in [DgClients -> Nat]
    OBVIOUS
  <1>3. DgMem
    BY <1>1, <1>2 DEF DgMem
  <1>4. DgAt /\ DgOs
    BY <1>1, <1>2 DEF DgAt, DgOs
  <1>5. os.sv = <<>> /\ mem.buf = {} /\ \A c \in DgClients : os.cl[c] = <<>> /\ mem.got[c] = <<>> /\ mem.j[c] = 1
    BY <1>1
  <1>6. WayInv /\ GotInv
    BY <1>5 DEF WayInv, GotInv
  <1>7. SingleInv /\ AskedInv
    BY <1>5 DEF SingleInv, AskedInv
  <1> QED BY <1>3, <1>4, <1>5, <1>6, <1>7 DEF DgType, DgParts

-----------------------------------------------------------------------------
(* us_xfr: how often a client occurs in what was printed. *)
LEMMA CardLemma == \A S : TR!Cardinality(S) = Cardinality(S)
  BY Zenon DEF TR!Cardinality, Cardinality

LEMMA CountNat == ASSUME NEW S, NEW o \in Seq(S), NEW c PROVE Count(o, c) \in Nat
  <1>1. Len(o) \in Nat
    OBVIOUS
  <1>2. IsFiniteSet(1 .. Len(o))
    BY <1>1, FS_Interval
  <1>3. IsFiniteSet({i \in 1 .. Len(o) : o[i] = c})
    BY <1>2, FS_Subset
  <1> QED BY <1>3, FS_CardinalityType DEF Count

LEMMA CountNone ==
    ASSUME NEW o, NEW c, \A k \in 1 .. Len(o) : o[k] # c PROVE Count(o, c) = 0
  <1>1. {i \in 1 .. Len(o) : o[i] = c} = {}
    OBVIOUS
  <1> QED BY <1>1, FS_EmptySet DEF Count

(* What is printed after n more bytes of client d. *)
Copies(p, o, d, n) ==
    /\ Len(p) = Len(o) + n
    /\ \A i \in 1 .. Len(p) : p[i] = IF i <= Len(o) THEN o[i] ELSE d

LEMMA CopiesLemma ==
    ASSUME NEW S, NEW o \in Seq(S), NEW d \in S, NEW n \in Nat,
           NEW z \in Seq(S), Len(z) = n, \A i \in 1 .. n : z[i] = d
    PROVE  o \o z \in Seq(S) /\ Copies(o \o z, o, d, n)
  <1>1. o \o z \in Seq(S) /\ Len(o \o z) = Len(o) + n
    OBVIOUS
  <1>2. \A i \in 1 .. Len(o) + n : (o \o z)[i] = IF i <= Len(o) THEN o[i] ELSE z[i - Len(o)]
    OBVIOUS
  <1>3. \A i \in 1 .. Len(o) + n : i <= Len(o) \/ i - Len(o) \in 1 .. n
    OBVIOUS
  <1> QED BY <1>1, <1>2, <1>3 DEF Copies

LEMMA CountCopies ==
    ASSUME NEW S, NEW o \in Seq(S), NEW d, NEW n \in Nat, NEW c,
           NEW p, Copies(p, o, d, n)
    PROVE  Count(p, c) = Count(o, c) + (IF c = d THEN n ELSE 0)
  <1> DEFINE P == {i \in 1 .. Len(p) : p[i] = c}
             O == {i \in 1 .. Len(o) : o[i] = c}
             N == Len(o) + 1 .. Len(o) + n
  <1>1. Len(p) = Len(o) + n /\ \A i \in 1 .. Len(p) : p[i] = IF i <= Len(o) THEN o[i] ELSE d
    BY DEF Copies
  <1>2. Len(o) \in Nat
    OBVIOUS
  <1>3. IsFiniteSet(1 .. Len(o)) /\ IsFiniteSet(N) /\ Cardinality(N) = n
    <2>1. IsFiniteSet(1 .. Len(o)) /\ IsFiniteSet(N)
      BY <1>2, FS_Interval
    <2>2. CASE n = 0
      <3>1. N = {}
        BY <1>2, <2>2
      <3> QED BY <2>1, <2>2, <3>1, FS_EmptySet
    <2>3. CASE n > 0
      <3> DEFINE a == Len(o) + 1
                 b == Len(o) + n
      <3>1. a \in Nat /\ b \in Nat /\ ~(a > b) /\ b - a + 1 = n
        BY <1>2, <2>3
      <3> HIDE DEF a, b
      <3>2. Cardinality(a .. b) = IF a > b THEN 0 ELSE b - a + 1
        BY <3>1, FS_Interval
      <3>3. Cardinality(a .. b) = n
        BY <3>1, <3>2
      <3> QED BY <2>1, <3>3 DEF a, b
    <2> QED BY <2>2, <2>3
  <1>4. IsFiniteSet(O)
    BY <1>3, FS_Subset
  <1>5. CASE c # d
    <2>1. P = O
      BY <1>1, <1>2, <1>5
    <2>2. Count(p, c) = Count(o, c) /\ Count(o, c) \in Nat
      BY <2>1, CountNat DEF Count
    <2> QED BY <1>5, <2>2
  <1>6. CASE c = d
    <2>1. P = O \cup N
      BY <1>1, <1>2, <1>6
    <2>2. O \cap N = {}
      BY <1>2
    <2>3. Cardinality(O \cup N) = Cardinality(O) + Cardinality(N) - Cardinality(O \cap N)
      BY <1>3, <1>4, FS_Union
    <2>4. Cardinality(O) \in Nat /\ Cardinality(O \cap N) = 0
      BY <1>4, <2>2, FS_CardinalityType, FS_EmptySet
    <2>5. Cardinality(P) = Cardinality(O) + n
      <3>1. Cardinality(P) = Cardinality(O) + n - 0
        BY <1>3, <2>1, <2>3, <2>4
      <3>2. \A x \in Nat : x + n - 0 = x + n
        OBVIOUS
      <3> QED BY <2>4, <3>1, <3>2
    <2>6. Count(p, c) = Count(o, c) + n
      BY <2>5 DEF Count
    <2> QED BY <1>6, <2>6
  <1> QED BY <1>5, <1>6

(* us_xfr: at the start nobody is connected. *)
LEMMA InitXfr == ASSUME TR!XfrInit PROVE XfrAll
  <1> USE TransferAssumption DEF XfrProcs
  <1>1. /\ at = [p \in XfrProcs |-> IF p \in XfrServers THEN "remove" ELSE "connect"]
        /\ mem = [prog |-> "us_xfr", input |-> [c \in XfrClients |-> 0],
                  hold |-> [p \in XfrProcs |-> 0],
                  out |-> [s \in XfrServers |-> <<>>], done |-> {}, faults |-> 0]
        /\ os = [path |-> "none", queue |-> [s \in XfrServers |-> <<>>],
                 conn |-> [c \in XfrClients |-> "none"], buf |-> [c \in XfrClients |-> 0],
                 cfd |-> [s \in XfrServers |-> "none"]]
    BY DEF TR!XfrInit
  <1>2. [s \in XfrServers |-> <<>>] \in [XfrServers -> Seq(XfrClients)]
    OBVIOUS
  <1>3. XfrMem
    BY <1>1, <1>2 DEF XfrMem
  <1>4. XfrAt /\ XfrOs
    BY <1>1, <1>2 DEF XfrAt, XfrOs
  <1>5. /\ \A s \in XfrServers : /\ at[s] = "remove" /\ mem.out[s] = <<>> /\ os.queue[s] = <<>>
                                 /\ os.cfd[s] = "none" /\ mem.hold[s] = 0
        /\ \A c \in XfrClients : /\ at[c] = "connect" /\ os.conn[c] = "none" /\ mem.input[c] = 0
                                 /\ os.buf[c] = 0 /\ mem.hold[c] = 0
        /\ mem.done = {}
    BY <1>1
  <1>6. HoldInv
    BY <1>5 DEF HoldInv, ServerHold, ClientHold
  <1>7. ConnInv
    BY <1>5 DEF ConnInv, QueueInv, CfdInv, OutInv
  <1>8. ByteInv /\ OrderInv
    BY <1>5 DEF ByteInv, BytesOf, OrderInv, LastInv
  <1> QED BY <1>3, <1>4, <1>6, <1>7, <1>8 DEF XfrAll, XfrType

(* What the parts of XfrAll say of one server and of one client. *)
LEMMA XfrFacts ==
    ASSUME XfrAll
    PROVE  /\ \A s \in XfrServers :
                 /\ s \in XfrProcs /\ s \notin XfrClients /\ s # "none"
                 /\ mem.hold[s] \in Nat /\ mem.out[s] \in Seq(XfrClients)
                 /\ os.queue[s] \in Seq(XfrClients)
                 /\ os.cfd[s] \in XfrClients \cup {"none"}
           /\ \A c \in XfrClients :
                 /\ c \in XfrProcs /\ c \notin XfrServers /\ c # "none"
                 /\ mem.hold[c] \in Nat /\ mem.input[c] \in Nat /\ os.buf[c] \in Nat
                 /\ os.conn[c] \in XfrServers \cup {"none"}
           /\ mem.done \subseteq XfrClients
  <1> USE TransferAssumption DEF XfrProcs
  <1>1. \A s \in XfrServers : s \in XfrProcs /\ s \notin XfrClients /\ s # "none"
    OBVIOUS
  <1>2. \A c \in XfrClients : c \in XfrProcs /\ c \notin XfrServers /\ c # "none"
    OBVIOUS
  <1>3. /\ \A s \in XfrServers : mem.hold[s] \in Nat /\ mem.out[s] \in Seq(XfrClients)
        /\ \A c \in XfrClients : mem.hold[c] \in Nat /\ mem.input[c] \in Nat
        /\ mem.done \subseteq XfrClients
    BY DEF XfrAll, XfrType, XfrMem
  <1>4. /\ \A s \in XfrServers : os.queue[s] \in Seq(XfrClients) /\ os.cfd[s] \in XfrClients \cup {"none"}
        /\ \A c \in XfrClients : os.buf[c] \in Nat /\ os.conn[c] \in XfrServers \cup {"none"}
    BY DEF XfrAll, XfrType, XfrOs
  <1> QED BY <1>1, <1>2, <1>3, <1>4

(* A process goes on or ends, and nothing is read or written. *)
LEMMA XfrQuiet ==
    ASSUME XfrAll, NEW p \in XfrProcs, NEW k,
           at' = [at EXCEPT ![p] = k], at[p] \notin TR!UnixGone,
           \/ p \in XfrServers /\ at[p] = "remove" /\ k = "bind"
           \/ p \in XfrServers /\ at[p] = "bind" /\ k = "listen"
           \/ p \in XfrServers /\ at[p] = "listen" /\ k = "accept"
           \/ p \in XfrClients /\ at[p] = "read" /\ k = "exit"
           \/ k \in {"failed", "killed"},
           XfrMem', mem'.prog = mem.prog, mem'.input = mem.input, mem'.hold = mem.hold,
           mem'.out = mem.out, mem'.done = mem.done,
           XfrOs', os'.queue = os.queue, os'.conn = os.conn, os'.buf = os.buf, os'.cfd = os.cfd
    PROVE  XfrAll'
  <1> USE TransferAssumption DEF XfrProcs
  <1>1. XfrAt'
    BY DEF XfrAll, XfrType, XfrAt
  <1>2. at'[p] = k /\ \A q \in XfrProcs : q # p => at'[q] = at[q]
    BY DEF XfrAll, XfrType, XfrAt
  <1>3. HoldInv'
    <2>1. ASSUME NEW s \in XfrServers PROVE ServerHold(s)'
      <3>1. ServerHold(s)
        BY DEF XfrAll, HoldInv
      <3> QED BY <1>2, <3>1 DEF ServerHold
    <2>2. ASSUME NEW c \in XfrClients PROVE ClientHold(c)'
      <3>1. ClientHold(c)
        BY DEF XfrAll, HoldInv
      <3> QED BY <1>2, <3>1 DEF ClientHold
    <2> QED BY <2>1, <2>2 DEF HoldInv
  <1>4. ConnInv'
    <2>1. ASSUME NEW c \in mem.done PROVE DoneInv(c)'
      <3>1. DoneInv(c) /\ c \in XfrProcs
        BY XfrFacts DEF XfrAll, ConnInv
      <3> QED BY <1>2, <3>1 DEF DoneInv
    <2> QED BY <2>1 DEF XfrAll, ConnInv, QueueInv, CfdInv, OutInv
  <1>5. ByteInv' /\ OrderInv'
    BY DEF XfrAll, ByteInv, BytesOf, AtServer, OrderInv, LastInv
  <1> QED BY <1>1, <1>3, <1>4, <1>5 DEF XfrAll, XfrType

(* The steps of that kind. *)
LEMMA StepXfrQuiet ==
    ASSUME XfrAll, NEW p \in XfrProcs,
           \/ p \in XfrServers /\ (TR!RemoveName(p) \/ TR!XfrBind(p) \/ TR!BindFails(p) \/ TR!Listen(p))
           \/ p \in XfrServers /\ TR!Fault(p, "write", "failed")
           \/ p \in XfrClients /\ (TR!ConnectFails(p) \/ TR!Exit(p))
           \/ p \in XfrClients /\ TR!Move(p, "write", "killed") /\ UNCHANGED <<mem, os>>
           \/ TR!XfrKilled(p)
    PROVE  XfrAll'
  <1> USE TransferAssumption DEF XfrProcs, TR!Move, TR!UnixGone
  <1>1. PICK k : /\ at' = [at EXCEPT ![p] = k] /\ at[p] \notin TR!UnixGone
                 /\ \/ p \in XfrServers /\ at[p] = "remove" /\ k = "bind"
                    \/ p \in XfrServers /\ at[p] = "bind" /\ k = "listen"
                    \/ p \in XfrServers /\ at[p] = "listen" /\ k = "accept"
                    \/ p \in XfrClients /\ at[p] = "read" /\ k = "exit"
                    \/ k \in {"failed", "killed"}
    BY DEF TR!RemoveName, TR!XfrBind, TR!BindFails, TR!Listen, TR!Fault, TR!ConnectFails, TR!Exit,
       TR!XfrKilled
  <1>2. mem' = mem \/ mem' = [mem EXCEPT !.faults = @ + 1]
    BY DEF TR!RemoveName, TR!XfrBind, TR!BindFails, TR!Listen, TR!Fault, TR!ConnectFails, TR!Exit,
       TR!XfrKilled
  <1>3. os' = os \/ os' = [os EXCEPT !.path = "none"] \/ (p \in XfrServers /\ os' = [os EXCEPT !.path = p])
    BY DEF TR!RemoveName, TR!XfrBind, TR!BindFails, TR!Listen, TR!Fault, TR!ConnectFails, TR!Exit,
       TR!XfrKilled
  <1>4. /\ XfrMem' /\ mem'.prog = mem.prog /\ mem'.input = mem.input /\ mem'.hold = mem.hold
        /\ mem'.out = mem.out /\ mem'.done = mem.done
    <2>1. XfrMem
      BY DEF XfrAll, XfrType
    <2>2. CASE mem' = mem
      BY <2>1, <2>2 DEF XfrMem
    <2>3. CASE mem' = [mem EXCEPT !.faults = @ + 1]
      <3> DEFINE n == mem.faults + 1
      <3>1. n \in Nat /\ mem' = [mem EXCEPT !.faults = n]
        BY <2>1, <2>3 DEF XfrMem
      <3> HIDE DEF n
      <3> QED BY <2>1, <3>1 DEF XfrMem
    <2> QED BY <1>2, <2>2, <2>3
  <1>5. XfrOs' /\ os'.queue = os.queue /\ os'.conn = os.conn /\ os'.buf = os.buf /\ os'.cfd = os.cfd
    <2>1. XfrOs
      BY DEF XfrAll, XfrType
    <2>2. CASE os' = os
      BY <2>1, <2>2 DEF XfrOs
    <2>3. ASSUME NEW v \in XfrServers \cup {"none"}, os' = [os EXCEPT !.path = v]
          PROVE  XfrOs' /\ os'.queue = os.queue /\ os'.conn = os.conn /\ os'.buf = os.buf /\ os'.cfd = os.cfd
      BY <2>1, <2>3 DEF XfrOs
    <2> QED BY <1>3, <2>2, <2>3
  <1> QED BY <1>1, <1>4, <1>5, XfrQuiet

(* The server takes the first connection of its queue. *)
LEMMA StepAccept == ASSUME XfrAll, NEW s \in XfrServers, TR!Accept(s) PROVE XfrAll'
  <1> DEFINE q == os.queue[s]
             c == Head(q)
  <1> USE DEF XfrProcs
  <1>1. /\ q # <<>> /\ at[s] = "accept" /\ at' = [at EXCEPT ![s] = "read"] /\ mem' = mem
        /\ os' = [os EXCEPT !.queue[s] = Tail(q), !.cfd[s] = c]
    BY DEF TR!Accept, TR!Move
  <1>2. q \in Seq(XfrClients) /\ c \in XfrClients /\ c = q[1] /\ Len(q) \in Nat /\ 1 <= Len(q)
    BY <1>1, XfrFacts
  <1>3. /\ Tail(q) \in Seq(XfrClients) /\ Len(Tail(q)) = Len(q) - 1
        /\ \A i \in 1 .. Len(q) - 1 : Tail(q)[i] = q[i + 1]
    BY <1>1, <1>2
  <1> HIDE DEF c, q
  <1>4. /\ os'.path = os.path /\ os'.conn = os.conn /\ os'.buf = os.buf
        /\ os'.queue = [os.queue EXCEPT ![s] = Tail(q)] /\ os'.cfd = [os.cfd EXCEPT ![s] = c]
        /\ os' = [path |-> os'.path, queue |-> os'.queue, conn |-> os'.conn, buf |-> os'.buf,
                  cfd |-> os'.cfd]
    BY <1>1 DEF XfrAll, XfrType, XfrOs
  <1>5. /\ os'.queue[s] = Tail(q) /\ os'.cfd[s] = c
        /\ \A t \in XfrServers : t # s => os'.queue[t] = os.queue[t] /\ os'.cfd[t] = os.cfd[t]
    BY <1>4 DEF XfrAll, XfrType, XfrOs
  <1>6. at'[s] = "read" /\ \A p \in XfrProcs : p # s => at'[p] = at[p]
    BY <1>1, TransferAssumption DEF XfrAll, XfrType, XfrAt
  <1>7. XfrType'
    <2>1. XfrMem'
      BY <1>1 DEF XfrAll, XfrType, XfrMem
    <2>2. XfrAt'
      BY <1>1, TransferAssumption DEF XfrAll, XfrType, XfrAt
    <2>3. /\ os'.queue \in [XfrServers -> Seq(XfrClients)]
          /\ os'.cfd \in [XfrServers -> XfrClients \cup {"none"}]
      BY <1>2, <1>3, <1>4 DEF XfrAll, XfrType, XfrOs
    <2>4. XfrOs'
      BY <1>4, <2>3 DEF XfrAll, XfrType, XfrOs
    <2> QED BY <2>1, <2>2, <2>4 DEF XfrType
  <1>8. /\ os.cfd[s] = "none" /\ mem.hold[s] = 0
    BY <1>1 DEF XfrAll, HoldInv, ServerHold
  <1>9. /\ os.conn[c] = s /\ c \notin mem.done
        /\ \A k \in 1 .. Len(mem.out[s]) : mem.out[s][k] # c
    BY <1>2 DEF XfrAll, ConnInv, QueueInv, q
  <1>10. HoldInv'
    <2>1. ASSUME NEW t \in XfrServers PROVE ServerHold(t)'
      <3>1. ServerHold(t) /\ t \in XfrProcs /\ c # "none"
        BY <1>2, XfrFacts DEF XfrAll, HoldInv
      <3> QED BY <1>1, <1>5, <1>6, <1>8, <3>1 DEF ServerHold
    <2>2. ASSUME NEW b \in XfrClients PROVE ClientHold(b)'
      <3>1. ClientHold(b) /\ b \in XfrProcs /\ b # s
        BY XfrFacts DEF XfrAll, HoldInv
      <3> QED BY <1>1, <1>4, <1>6, <3>1 DEF ClientHold
    <2> QED BY <2>1, <2>2 DEF HoldInv
  <1>11. ConnInv'
    <2>1. ASSUME NEW t \in XfrServers PROVE (QueueInv(t) /\ CfdInv(t) /\ OutInv(t))'
      <3>1. QueueInv(t) /\ CfdInv(t) /\ OutInv(t)
        BY DEF XfrAll, ConnInv
      <3>2. OutInv(t)' /\ CfdInv(t)'
        BY <1>1, <1>4, <1>5, <1>9, <3>1 DEF OutInv, CfdInv
      <3>3. CASE t # s
        BY <1>1, <1>4, <1>5, <3>1, <3>2, <3>3 DEF QueueInv
      <3>4. CASE t = s
        <4>1. ASSUME NEW i \in 1 .. Len(q) - 1
              PROVE  /\ os.conn[Tail(q)[i]] = s /\ Tail(q)[i] \notin mem.done /\ Tail(q)[i] # c
                     /\ \A k \in 1 .. Len(mem.out[s]) : mem.out[s][k] # Tail(q)[i]
                     /\ \A k \in 1 .. Len(q) - 1 : Tail(q)[k] = Tail(q)[i] => k = i
          <5>1. i + 1 \in 1 .. Len(q) /\ 1 \in 1 .. Len(q) /\ i + 1 # 1
            BY <1>2
          <5>2. Tail(q)[i] = q[i + 1]
            BY <1>3
          <5>3. /\ os.conn[q[i + 1]] = s /\ q[i + 1] \notin mem.done /\ q[i + 1] # q[1]
                /\ \A k \in 1 .. Len(mem.out[s]) : mem.out[s][k] # q[i + 1]
                /\ \A k \in 1 .. Len(q) : q[k] = q[i + 1] => k = i + 1
            BY <3>1, <3>4, <5>1 DEF QueueInv, q
          <5>4. ASSUME NEW k \in 1 .. Len(q) - 1, Tail(q)[k] = Tail(q)[i] PROVE k = i
            <6>1. k + 1 \in 1 .. Len(q) /\ Tail(q)[k] = q[k + 1]
              BY <1>2, <1>3
            <6>2. k + 1 = i + 1
              BY <5>2, <5>3, <5>4, <6>1
            <6> QED BY <6>2
          <5> QED BY <1>2, <5>2, <5>3, <5>4
        <4> QED BY <1>1, <1>3, <1>4, <1>5, <3>2, <3>4, <4>1 DEF QueueInv
      <3> QED BY <3>3, <3>4
    <2>2. ASSUME NEW b \in mem.done PROVE DoneInv(b)'
      <3>1. DoneInv(b) /\ b \in XfrProcs /\ b # s
        BY XfrFacts DEF XfrAll, ConnInv
      <3> QED BY <1>4, <1>6, <3>1 DEF DoneInv
    <2> QED BY <1>1, <2>1, <2>2 DEF ConnInv
  <1>12. ByteInv'
    <2> SUFFICES ASSUME NEW b \in XfrClients PROVE BytesOf(b)'
      BY DEF ByteInv
    <2>1. BytesOf(b) /\ os.conn[b] \in XfrServers \cup {"none"} /\ b # "none"
      BY XfrFacts DEF XfrAll, ByteInv
    <2>2. os.conn[b] # "none" => AtServer(b)' = AtServer(b)
      BY <1>1, <1>4, <1>5, <1>8, <2>1 DEF AtServer
    <2> QED BY <1>1, <1>4, <2>1, <2>2 DEF BytesOf
  <1>13. OrderInv'
    <2> SUFFICES ASSUME NEW t \in XfrServers PROVE LastInv(t)'
      BY DEF OrderInv
    <2>1. LastInv(t)
      BY DEF XfrAll, OrderInv
    <2> QED BY <1>1, <1>5, <1>9, <2>1 DEF LastInv
  <1> QED BY <1>7, <1>10, <1>11, <1>12, <1>13 DEF XfrAll

(* The client that calls connect() was nowhere known. *)
LEMMA StepConnect == ASSUME XfrAll, NEW c \in XfrClients, TR!Connect(c) PROVE XfrAll'
  <1> DEFINE s == os.path
             q == os.queue[s]
             r == Append(q, c)
  <1> USE DEF XfrProcs
  <1>1. /\ s \in XfrServers /\ at[c] = "connect" /\ at' = [at EXCEPT ![c] = "read"] /\ mem' = mem
        /\ os' = [os EXCEPT !.conn[c] = s, !.queue[s] = r]
    BY DEF TR!Connect, TR!Move
  <1>2. q \in Seq(XfrClients) /\ Len(q) \in Nat
    BY <1>1, XfrFacts
  <1>3. /\ r \in Seq(XfrClients) /\ Len(r) = Len(q) + 1 /\ r[Len(q) + 1] = c
        /\ \A i \in 1 .. Len(q) : r[i] = q[i]
    BY <1>2
  <1> HIDE DEF q, r, s
  <1>4. /\ os'.path = os.path /\ os'.buf = os.buf /\ os'.cfd = os.cfd
        /\ os'.queue = [os.queue EXCEPT ![s] = r] /\ os'.conn = [os.conn EXCEPT ![c] = s]
        /\ os' = [path |-> os'.path, queue |-> os'.queue, conn |-> os'.conn, buf |-> os'.buf,
                  cfd |-> os'.cfd]
    BY <1>1 DEF XfrAll, XfrType, XfrOs
  <1>5. /\ os'.queue[s] = r /\ os'.conn[c] = s
        /\ \A t \in XfrServers : t # s => os'.queue[t] = os.queue[t]
        /\ \A b \in XfrClients : b # c => os'.conn[b] = os.conn[b]
    BY <1>1, <1>4 DEF XfrAll, XfrType, XfrOs
  <1>6. at'[c] = "read" /\ \A p \in XfrProcs : p # c => at'[p] = at[p]
    BY <1>1, TransferAssumption DEF XfrAll, XfrType, XfrAt
  <1>7. XfrType'
    <2>1. XfrMem'
      BY <1>1 DEF XfrAll, XfrType, XfrMem
    <2>2. XfrAt'
      BY <1>1, TransferAssumption DEF XfrAll, XfrType, XfrAt
    <2>3. /\ os'.queue \in [XfrServers -> Seq(XfrClients)]
          /\ os'.conn \in [XfrClients -> XfrServers \cup {"none"}]
      BY <1>1, <1>3, <1>4 DEF XfrAll, XfrType, XfrOs
    <2>4. XfrOs'
      BY <1>4, <2>3 DEF XfrAll, XfrType, XfrOs
    <2> QED BY <2>1, <2>2, <2>4 DEF XfrType
  <1>8. /\ os.conn[c] = "none" /\ mem.input[c] = 0 /\ os.buf[c] = 0 /\ mem.hold[c] = 0
        /\ s # "none" /\ c # "none"
    BY <1>1, XfrFacts DEF XfrAll, HoldInv, ClientHold
  <1>9. /\ c \notin mem.done
        /\ \A t \in XfrServers :
              /\ os.cfd[t] # c
              /\ \A k \in 1 .. Len(mem.out[t]) : mem.out[t][k] # c
              /\ \A k \in 1 .. Len(os.queue[t]) : os.queue[t][k] # c
    <2>1. c \notin mem.done
      BY <1>8 DEF XfrAll, ConnInv, DoneInv
    <2>2. ASSUME NEW t \in XfrServers
          PROVE  /\ os.cfd[t] # c
                 /\ \A k \in 1 .. Len(mem.out[t]) : mem.out[t][k] # c
                 /\ \A k \in 1 .. Len(os.queue[t]) : os.queue[t][k] # c
      <3>1. QueueInv(t) /\ CfdInv(t) /\ OutInv(t) /\ t # "none"
        BY XfrFacts DEF XfrAll, ConnInv
      <3> QED BY <1>8, <3>1 DEF QueueInv, CfdInv, OutInv
    <2> QED BY <2>1, <2>2
  <1>10. HoldInv'
    <2>1. ASSUME NEW t \in XfrServers PROVE ServerHold(t)'
      <3>1. ServerHold(t) /\ t \in XfrProcs /\ t # c
        BY XfrFacts DEF XfrAll, HoldInv
      <3> QED BY <1>1, <1>4, <1>6, <3>1 DEF ServerHold
    <2>2. ASSUME NEW b \in XfrClients PROVE ClientHold(b)'
      <3>1. ClientHold(b) /\ b \in XfrProcs
        BY XfrFacts DEF XfrAll, HoldInv
      <3> QED BY <1>1, <1>4, <1>5, <1>6, <1>8, <3>1 DEF ClientHold
    <2> QED BY <2>1, <2>2 DEF HoldInv
  <1>11. ConnInv'
    <2>1. ASSUME NEW t \in XfrServers PROVE (QueueInv(t) /\ CfdInv(t) /\ OutInv(t))'
      <3>1. QueueInv(t) /\ CfdInv(t) /\ OutInv(t)
        BY DEF XfrAll, ConnInv
      <3>2. /\ \A k \in 1 .. Len(mem.out[t]) : mem.out[t][k] \in XfrClients
            /\ \A k \in 1 .. Len(os.queue[t]) : os.queue[t][k] \in XfrClients
            /\ os.cfd[t] \in XfrClients \cup {"none"}
        <4>1. /\ mem.out[t] \in Seq(XfrClients) /\ os.queue[t] \in Seq(XfrClients)
              /\ os.cfd[t] \in XfrClients \cup {"none"}
          BY XfrFacts
        <4> QED BY <4>1
      <3>3. OutInv(t)'
        BY <1>1, <1>5, <1>9, <3>1, <3>2 DEF OutInv
      <3>4. CfdInv(t)'
        BY <1>1, <1>4, <1>5, <1>9, <3>1, <3>2 DEF CfdInv
      <3>5. CASE t # s
        BY <1>1, <1>4, <1>5, <1>9, <3>1, <3>2, <3>3, <3>4, <3>5 DEF QueueInv
      <3>6. CASE t = s
        <4>1. ASSUME NEW i \in 1 .. Len(q) + 1
              PROVE  /\ os'.conn[r[i]] = s /\ r[i] \notin mem.done /\ r[i] # os.cfd[s]
                     /\ \A k \in 1 .. Len(mem.out[s]) : mem.out[s][k] # r[i]
                     /\ \A k \in 1 .. Len(q) + 1 : r[k] = r[i] => k = i
          <5>1. \A k \in 1 .. Len(q) + 1 : k \in 1 .. Len(q) \/ k = Len(q) + 1
            BY <1>2
          <5>2. \A k \in 1 .. Len(q) : r[k] = q[k] /\ q[k] # c /\ q[k] \in XfrClients
            BY <1>3, <1>9, <3>2, <3>6 DEF q
          <5>3. CASE i = Len(q) + 1
            BY <1>1, <1>3, <1>5, <1>9, <5>1, <5>2, <5>3
          <5>4. CASE i \in 1 .. Len(q)
            <6>1. /\ os.conn[q[i]] = s /\ q[i] \notin mem.done /\ q[i] # os.cfd[s]
                  /\ \A k \in 1 .. Len(mem.out[s]) : mem.out[s][k] # q[i]
                  /\ \A k \in 1 .. Len(q) : q[k] = q[i] => k = i
              BY <3>1, <3>6, <5>4 DEF QueueInv, q
            <6> QED BY <1>3, <1>5, <5>1, <5>2, <5>4, <6>1
          <5> QED BY <5>1, <5>3, <5>4
        <4> QED BY <1>1, <1>3, <1>4, <1>5, <3>3, <3>4, <3>6, <4>1 DEF QueueInv
      <3> QED BY <3>5, <3>6
    <2>2. ASSUME NEW b \in mem.done PROVE DoneInv(b)'
      <3>1. DoneInv(b) /\ b \in XfrProcs /\ b \in XfrClients /\ b # c
        BY <1>9, XfrFacts DEF XfrAll, ConnInv
      <3> QED BY <1>4, <1>5, <1>6, <3>1 DEF DoneInv
    <2> QED BY <1>1, <2>1, <2>2 DEF ConnInv
  <1>12. ByteInv'
    <2> SUFFICES ASSUME NEW b \in XfrClients PROVE BytesOf(b)'
      BY DEF ByteInv
    <2>1. BytesOf(b)
      BY DEF XfrAll, ByteInv
    <2>2. CASE b # c
      BY <1>1, <1>4, <1>5, <2>1, <2>2 DEF BytesOf, AtServer
    <2>3. CASE b = c
      <3>1. Count(mem.out[s], c) = 0
        BY <1>1, <1>9, CountNone
      <3>2. AtServer(c)' = 0
        BY <1>1, <1>4, <1>5, <1>9 DEF AtServer
      <3> QED BY <1>1, <1>4, <1>5, <1>8, <2>3, <3>1, <3>2 DEF BytesOf
    <2> QED BY <2>2, <2>3
  <1>13. OrderInv'
    BY <1>1, <1>4 DEF XfrAll, OrderInv, LastInv
  <1> QED BY <1>7, <1>10, <1>11, <1>12, <1>13 DEF XfrAll

(* The server closes cfd at its end of file. *)
LEMMA StepEndOfFile == ASSUME XfrAll, NEW s \in XfrServers, TR!EndOfFile(s) PROVE XfrAll'
  <1> DEFINE c == os.cfd[s]
  <1> USE DEF XfrProcs
  <1>1. /\ at[s] = "read" /\ at' = [at EXCEPT ![s] = "accept"]
        /\ os.buf[c] = 0 /\ at[c] \in TR!UnixGone
        /\ mem' = [mem EXCEPT !.done = mem.done \cup {c}]
        /\ os' = [os EXCEPT !.cfd[s] = "none"]
    BY DEF TR!EndOfFile, TR!Move
  <1>2. c \in XfrClients /\ mem.hold[s] = 0 /\ os.conn[c] = s /\ s # "none" /\ c # "none"
    <2>1. ServerHold(s) /\ CfdInv(s) /\ c \in XfrClients \cup {"none"} /\ s # "none"
      BY XfrFacts DEF XfrAll, HoldInv, ConnInv
    <2> QED BY <1>1, <2>1 DEF ServerHold, CfdInv
  <1> HIDE DEF c
  <1>3. /\ os'.path = os.path /\ os'.conn = os.conn /\ os'.buf = os.buf /\ os'.queue = os.queue
        /\ os'.cfd = [os.cfd EXCEPT ![s] = "none"]
        /\ os' = [path |-> os'.path, queue |-> os'.queue, conn |-> os'.conn, buf |-> os'.buf,
                  cfd |-> os'.cfd]
    BY <1>1 DEF XfrAll, XfrType, XfrOs
  <1>4. os'.cfd[s] = "none" /\ \A t \in XfrServers : t # s => os'.cfd[t] = os.cfd[t]
    BY <1>3 DEF XfrAll, XfrType, XfrOs
  <1>5. at'[s] = "accept" /\ \A p \in XfrProcs : p # s => at'[p] = at[p]
    BY <1>1, TransferAssumption DEF XfrAll, XfrType, XfrAt
  <1>6. /\ mem'.prog = mem.prog /\ mem'.input = mem.input /\ mem'.hold = mem.hold
        /\ mem'.out = mem.out /\ mem'.done = mem.done \cup {c}
    BY <1>1 DEF XfrAll, XfrType, XfrMem
  <1>7. XfrType'
    <2>1. XfrMem'
      BY <1>1, <1>2 DEF XfrAll, XfrType, XfrMem
    <2>2. XfrAt'
      BY <1>1, TransferAssumption DEF XfrAll, XfrType, XfrAt
    <2>3. XfrOs'
      BY <1>3 DEF XfrAll, XfrType, XfrOs
    <2> QED BY <2>1, <2>2, <2>3 DEF XfrType
  <1>8. HoldInv'
    <2>1. ASSUME NEW t \in XfrServers PROVE ServerHold(t)'
      <3>1. ServerHold(t) /\ t \in XfrProcs
        BY XfrFacts DEF XfrAll, HoldInv
      <3> QED BY <1>2, <1>4, <1>5, <1>6, <3>1 DEF ServerHold
    <2>2. ASSUME NEW b \in XfrClients PROVE ClientHold(b)'
      <3>1. ClientHold(b) /\ b \in XfrProcs /\ b # s
        BY XfrFacts DEF XfrAll, HoldInv
      <3> QED BY <1>3, <1>5, <1>6, <3>1 DEF ClientHold
    <2> QED BY <2>1, <2>2 DEF HoldInv
  <1>9. ConnInv'
    <2>1. ASSUME NEW t \in XfrServers PROVE (QueueInv(t) /\ CfdInv(t) /\ OutInv(t))'
      <3>1. QueueInv(t) /\ CfdInv(t) /\ OutInv(t) /\ os.queue[t] \in Seq(XfrClients)
        BY XfrFacts DEF XfrAll, ConnInv
      <3>2. OutInv(t)'
        BY <1>3, <1>6, <3>1 DEF OutInv
      <3>3. CfdInv(t)'
        BY <1>2, <1>3, <1>4, <1>6, <3>1 DEF CfdInv
      <3>4. ASSUME NEW i \in 1 .. Len(os.queue[t])
            PROVE  os.queue[t][i] # c /\ os.queue[t][i] # "none"
        BY <1>2, <3>1, XfrFacts DEF QueueInv, c
      <3>5. QueueInv(t)'
        BY <1>3, <1>4, <1>6, <3>1, <3>4 DEF QueueInv
      <3> QED BY <3>2, <3>3, <3>5
    <2>2. ASSUME NEW b \in mem.done \cup {c} PROVE DoneInv(b)'
      <3>1. b \in XfrProcs /\ b # s
        BY <1>2, XfrFacts
      <3>2. DoneInv(b)
        BY <1>1, <1>2 DEF XfrAll, ConnInv, DoneInv
      <3> QED BY <1>3, <1>5, <3>1, <3>2 DEF DoneInv
    <2> QED BY <1>6, <2>1, <2>2 DEF ConnInv
  <1>10. ByteInv'
    <2> SUFFICES ASSUME NEW b \in XfrClients PROVE BytesOf(b)'
      BY DEF ByteInv
    <2>1. BytesOf(b) /\ os.conn[b] \in XfrServers \cup {"none"} /\ b # "none"
      BY XfrFacts DEF XfrAll, ByteInv
    <2>2. os.conn[b] # "none" => AtServer(b)' = AtServer(b)
      BY <1>2, <1>3, <1>4, <1>6, <2>1 DEF AtServer
    <2> QED BY <1>3, <1>6, <2>1, <2>2 DEF BytesOf
  <1>11. OrderInv'
    <2> SUFFICES ASSUME NEW t \in XfrServers PROVE LastInv(t)'
      BY DEF OrderInv
    <2>1. LastInv(t) /\ mem.out[t] \in Seq(XfrClients)
      BY XfrFacts DEF XfrAll, OrderInv
    <2>2. \A k \in 1 .. Len(mem.out[t]) : mem.out[t][k] # "none"
      <3>1. \A k \in 1 .. Len(mem.out[t]) : mem.out[t][k] \in XfrClients
        BY <2>1
      <3> QED BY <3>1, XfrFacts
    <2> QED BY <1>4, <1>6, <2>1, <2>2 DEF LastInv
  <1> QED BY <1>7, <1>8, <1>9, <1>10, <1>11 DEF XfrAll

LEMMA MinLemma ==
    \A a, b \in Nat : LET n == TR!Min({a, b}) IN n \in Nat /\ n <= a /\ n <= b
  BY DEF TR!Min

(* The server takes bytes from the socket. *)
LEMMA StepXfrRead == ASSUME XfrAll, NEW s \in XfrServers, TR!Read(s) PROVE XfrAll'
  <1> DEFINE c == os.cfd[s]
             n == TR!Min({XfrBuf, os.buf[c]})
             m == os.buf[c] - n
  <1> USE DEF XfrProcs
  <1>1. /\ at[s] = "read" /\ at' = [at EXCEPT ![s] = "write"] /\ os.buf[c] > 0
        /\ mem' = [mem EXCEPT !.hold[s] = n]
        /\ os' = [os EXCEPT !.buf[c] = m]
    BY DEF TR!Read, TR!Move
  <1>2. c \in XfrClients /\ mem.hold[s] = 0 /\ os.conn[c] = s /\ c # "none" /\ c \notin mem.done
    <2>1. ServerHold(s) /\ CfdInv(s) /\ c \in XfrClients \cup {"none"} /\ s # "none"
      BY XfrFacts DEF XfrAll, HoldInv, ConnInv
    <2> QED BY <1>1, <2>1 DEF ServerHold, CfdInv
  <1>3. n \in Nat /\ m \in Nat /\ os.buf[c] = m + n
    <2>1. os.buf[c] \in Nat
      BY <1>2, XfrFacts
    <2>2. n \in Nat /\ n <= os.buf[c]
      BY <2>1, MinLemma, TransferAssumption
    <2> HIDE DEF n
    <2> QED BY <2>1, <2>2
  <1> HIDE DEF c, n, m
  <1>4. /\ os'.path = os.path /\ os'.conn = os.conn /\ os'.cfd = os.cfd /\ os'.queue = os.queue
        /\ os'.buf = [os.buf EXCEPT ![c] = m]
        /\ os' = [path |-> os'.path, queue |-> os'.queue, conn |-> os'.conn, buf |-> os'.buf,
                  cfd |-> os'.cfd]
    BY <1>1 DEF XfrAll, XfrType, XfrOs
  <1>5. os'.buf[c] = m /\ \A b \in XfrClients : b # c => os'.buf[b] = os.buf[b]
    BY <1>2, <1>4 DEF XfrAll, XfrType, XfrOs
  <1>6. at'[s] = "write" /\ \A p \in XfrProcs : p # s => at'[p] = at[p]
    BY <1>1, TransferAssumption DEF XfrAll, XfrType, XfrAt
  <1>7. /\ mem'.prog = mem.prog /\ mem'.input = mem.input /\ mem'.out = mem.out
        /\ mem'.done = mem.done /\ mem'.hold = [mem.hold EXCEPT ![s] = n]
    BY <1>1 DEF XfrAll, XfrType, XfrMem
  <1>8. mem'.hold[s] = n /\ \A p \in XfrProcs : p # s => mem'.hold[p] = mem.hold[p]
    BY <1>7 DEF XfrAll, XfrType, XfrMem
  <1>9. XfrType'
    <2>1. XfrMem'
      BY <1>1, <1>3 DEF XfrAll, XfrType, XfrMem
    <2>2. XfrAt'
      BY <1>1, TransferAssumption DEF XfrAll, XfrType, XfrAt
    <2>3. os'.buf \in [XfrClients -> Nat]
      BY <1>2, <1>3, <1>4 DEF XfrAll, XfrType, XfrOs
    <2>4. XfrOs'
      BY <1>4, <2>3 DEF XfrAll, XfrType, XfrOs
    <2> QED BY <2>1, <2>2, <2>4 DEF XfrType
  <1>10. HoldInv'
    <2>1. ASSUME NEW t \in XfrServers PROVE ServerHold(t)'
      <3>1. ServerHold(t) /\ t \in XfrProcs
        BY XfrFacts DEF XfrAll, HoldInv
      <3> QED BY <1>2, <1>4, <1>6, <1>8, <3>1 DEF ServerHold, c
    <2>2. ASSUME NEW b \in XfrClients PROVE ClientHold(b)'
      <3>1. ClientHold(b) /\ b \in XfrProcs /\ b # s /\ s # "none"
        BY XfrFacts DEF XfrAll, HoldInv
      <3> QED BY <1>2, <1>4, <1>5, <1>6, <1>7, <1>8, <3>1 DEF ClientHold
    <2> QED BY <2>1, <2>2 DEF HoldInv
  <1>11. ConnInv'
    <2>1. \A t \in XfrServers : (QueueInv(t) /\ CfdInv(t) /\ OutInv(t))'
      BY <1>4, <1>7 DEF XfrAll, ConnInv, QueueInv, CfdInv, OutInv
    <2>2. ASSUME NEW b \in mem.done PROVE DoneInv(b)'
      <3>1. DoneInv(b) /\ b \in XfrProcs /\ b \in XfrClients /\ b # s /\ b # c
        BY <1>2, XfrFacts DEF XfrAll, ConnInv
      <3> QED BY <1>4, <1>5, <1>6, <3>1 DEF DoneInv
    <2> QED BY <1>7, <2>1, <2>2 DEF ConnInv
  <1>12. ByteInv'
    <2> SUFFICES ASSUME NEW b \in XfrClients, os.conn[b] # "none" PROVE BytesOf(b)'
      BY <1>4 DEF ByteInv, BytesOf
    <2>1. /\ mem.input[b] = mem.hold[b] + os.buf[b] + AtServer(b) + Count(mem.out[os.conn[b]], b)
          /\ os.conn[b] \in XfrServers /\ b \in XfrProcs /\ b # s
          /\ mem.hold[b] \in Nat /\ Count(mem.out[os.conn[b]], b) \in Nat
      BY XfrFacts, CountNat DEF XfrAll, ByteInv, BytesOf
    <2>2. CASE b = c
      <3>1. AtServer(b) = 0 /\ AtServer(b)' = n
        BY <1>2, <1>4, <1>8, <2>2 DEF AtServer, c
      <3>2. \A x, y \in Nat : x + (m + n) + 0 + y = x + m + n + y
        BY <1>3
      <3>3. mem.input[b] = mem.hold[b] + m + n + Count(mem.out[os.conn[b]], b)
        BY <1>3, <2>1, <2>2, <3>1, <3>2
      <3> QED BY <1>4, <1>5, <1>7, <1>8, <2>1, <2>2, <3>1, <3>3 DEF BytesOf
    <2>3. CASE b # c
      <3>1. AtServer(b)' = AtServer(b)
        <4>1. os.conn[b] \in XfrProcs
          BY <2>1
        <4> QED BY <1>2, <1>4, <1>8, <2>1, <2>3, <4>1 DEF AtServer, c
      <3> QED BY <1>4, <1>5, <1>7, <1>8, <2>1, <2>3, <3>1 DEF BytesOf
    <2> QED BY <2>2, <2>3
  <1>13. OrderInv'
    BY <1>4, <1>7 DEF XfrAll, OrderInv, LastInv
  <1> QED BY <1>9, <1>10, <1>11, <1>12, <1>13 DEF XfrAll

(* The server prints what it holds. *)
LEMMA Prints ==
    ASSUME XfrAll, NEW s \in XfrServers, NEW r \in Seq(XfrClients),
           at[s] = "write", at' = [at EXCEPT ![s] = "read"], os' = os,
           mem' = [mem EXCEPT !.hold[s] = 0, !.out[s] = r],
           Copies(r, mem.out[s], os.cfd[s], mem.hold[s]),
           \A b : Count(r, b) = Count(mem.out[s], b) + (IF b = os.cfd[s] THEN mem.hold[s] ELSE 0)
    PROVE  XfrAll'
  <1> DEFINE c == os.cfd[s]
             n == mem.hold[s]
             o == mem.out[s]
  <1> USE DEF XfrProcs
  <1>1. /\ at' = [at EXCEPT ![s] = "read"]
        /\ mem' = [mem EXCEPT !.hold[s] = 0, !.out[s] = r]
    OBVIOUS
  <1>2. /\ c \in XfrClients /\ os.conn[c] = s /\ c # "none" /\ c \notin mem.done
        /\ n \in Nat /\ o \in Seq(XfrClients) /\ Len(o) \in Nat
    <2>1. ServerHold(s) /\ CfdInv(s) /\ c \in XfrClients \cup {"none"} /\ s # "none"
      BY XfrFacts DEF XfrAll, HoldInv, ConnInv
    <2> QED BY <2>1, XfrFacts DEF ServerHold, CfdInv
  <1>3. /\ Len(r) = Len(o) + n
        /\ \A i \in 1 .. Len(r) : r[i] = IF i <= Len(o) THEN o[i] ELSE c
    BY DEF Copies
  <1>4. \A b : Count(r, b) = Count(o, b) + (IF b = c THEN n ELSE 0)
    OBVIOUS
  <1> HIDE DEF c, n, o
  <1>5. at'[s] = "read" /\ \A p \in XfrProcs : p # s => at'[p] = at[p]
    BY <1>1, TransferAssumption DEF XfrAll, XfrType, XfrAt
  <1>6. /\ mem'.prog = mem.prog /\ mem'.input = mem.input /\ mem'.done = mem.done
        /\ mem'.hold = [mem.hold EXCEPT ![s] = 0] /\ mem'.out = [mem.out EXCEPT ![s] = r]
        /\ mem'.faults = mem.faults
        /\ mem' = [prog |-> mem'.prog, input |-> mem'.input, hold |-> mem'.hold, out |-> mem'.out,
                   done |-> mem'.done, faults |-> mem'.faults]
    BY <1>1 DEF XfrAll, XfrType, XfrMem
  <1>7. /\ mem'.hold[s] = 0 /\ \A p \in XfrProcs : p # s => mem'.hold[p] = mem.hold[p]
        /\ mem'.out[s] = r /\ \A t \in XfrServers : t # s => mem'.out[t] = mem.out[t]
    BY <1>6 DEF XfrAll, XfrType, XfrMem
  <1>8. XfrType'
    <2>1. mem'.hold \in [XfrProcs -> Nat] /\ mem'.out \in [XfrServers -> Seq(XfrClients)]
      BY <1>3, <1>6 DEF XfrAll, XfrType, XfrMem
    <2>2. XfrMem'
      BY <1>6, <2>1 DEF XfrAll, XfrType, XfrMem
    <2>3. XfrAt'
      BY <1>1, TransferAssumption DEF XfrAll, XfrType, XfrAt
    <2>4. XfrOs'
      BY DEF XfrAll, XfrType, XfrOs
    <2> QED BY <2>2, <2>3, <2>4 DEF XfrType
  <1>9. HoldInv'
    <2>1. ASSUME NEW t \in XfrServers PROVE ServerHold(t)'
      <3>1. ServerHold(t) /\ t \in XfrProcs
        BY XfrFacts DEF XfrAll, HoldInv
      <3> QED BY <1>2, <1>5, <1>7, <3>1 DEF ServerHold, c
    <2>2. ASSUME NEW b \in XfrClients PROVE ClientHold(b)'
      <3>1. ClientHold(b) /\ b \in XfrProcs /\ b # s
        BY XfrFacts DEF XfrAll, HoldInv
      <3> QED BY <1>5, <1>6, <1>7, <3>1 DEF ClientHold
    <2> QED BY <2>1, <2>2 DEF HoldInv
  <1>10. \A i \in 1 .. Len(r) : (i \in 1 .. Len(o) /\ r[i] = o[i]) \/ (i > Len(o) /\ r[i] = c)
    BY <1>2, <1>3
  <1>11. ConnInv'
    <2>1. ASSUME NEW t \in XfrServers PROVE (QueueInv(t) /\ CfdInv(t) /\ OutInv(t))'
      <3>1. QueueInv(t) /\ CfdInv(t) /\ OutInv(t)
        BY DEF XfrAll, ConnInv
      <3>2. CfdInv(t)'
        BY <1>6, <3>1 DEF CfdInv
      <3>3. CASE t # s
        BY <1>6, <1>7, <3>1, <3>2, <3>3 DEF QueueInv, OutInv
      <3>4. CASE t = s
        <4>1. OutInv(t)'
          BY <1>2, <1>7, <1>10, <3>1, <3>4 DEF OutInv, o
        <4>2. QueueInv(t)'
          <5>1. \A i \in 1 .. Len(os.queue[s]) : \A k \in 1 .. Len(r) : r[k] # os.queue[s][i]
            BY <1>10, <3>1, <3>4, SMTT(40) DEF QueueInv, o, c
          <5> QED BY <1>6, <1>7, <3>1, <3>4, <5>1 DEF QueueInv
        <4> QED BY <3>2, <4>1, <4>2
      <3> QED BY <3>3, <3>4
    <2>2. ASSUME NEW b \in mem.done PROVE DoneInv(b)'
      <3>1. DoneInv(b) /\ b \in XfrProcs /\ b # s
        BY XfrFacts DEF XfrAll, ConnInv
      <3> QED BY <1>5, <3>1 DEF DoneInv
    <2> QED BY <1>6, <2>1, <2>2 DEF ConnInv
  <1>12. ByteInv'
    <2> SUFFICES ASSUME NEW b \in XfrClients, os.conn[b] # "none" PROVE BytesOf(b)'
      BY DEF ByteInv, BytesOf
    <2>1. /\ mem.input[b] = mem.hold[b] + os.buf[b] + AtServer(b) + Count(mem.out[os.conn[b]], b)
          /\ os.conn[b] \in XfrServers /\ b \in XfrProcs /\ b # s
          /\ mem.hold[b] \in Nat /\ os.buf[b] \in Nat /\ Count(mem.out[os.conn[b]], b) \in Nat
      BY XfrFacts, CountNat DEF XfrAll, ByteInv, BytesOf
    <2>2. CASE b = c
      <3>1. AtServer(b) = n /\ AtServer(b)' = 0 /\ os.conn[b] = s
        BY <1>2, <1>7, <2>2 DEF AtServer, c, n
      <3>2. Count(r, b) = Count(o, b) + n
        BY <1>4, <2>2
      <3>3. \A x, y, z \in Nat : x + y + n + z = x + y + 0 + (z + n)
        BY <1>2
      <3>4. mem.input[b] = mem.hold[b] + os.buf[b] + 0 + Count(r, b)
        BY <2>1, <2>2, <3>1, <3>2, <3>3 DEF o
      <3> QED BY <1>6, <1>7, <2>1, <3>1, <3>4 DEF BytesOf
    <2>3. CASE b # c
      <3>1. AtServer(b)' = AtServer(b)
        <4>1. os.conn[b] \in XfrProcs
          BY <2>1
        <4> QED BY <1>2, <1>7, <2>1, <2>3, <4>1 DEF AtServer, c
      <3>2. Count(mem'.out[os.conn[b]], b) = Count(mem.out[os.conn[b]], b)
        <4>1. CASE os.conn[b] # s
          BY <1>7, <2>1, <4>1
        <4>2. CASE os.conn[b] = s
          <5>1. Count(r, b) = Count(o, b) + 0 /\ Count(o, b) \in Nat
            BY <1>4, <2>1, <2>3, <4>2 DEF o
          <5>2. Count(r, b) = Count(o, b)
            BY <5>1
          <5> QED BY <1>7, <4>2, <5>2 DEF o
        <4> QED BY <4>1, <4>2
      <3> QED BY <1>6, <1>7, <2>1, <3>1, <3>2 DEF BytesOf
    <2> QED BY <2>2, <2>3
  <1>13. OrderInv'
    <2> SUFFICES ASSUME NEW t \in XfrServers PROVE LastInv(t)'
      BY DEF OrderInv
    <2>1. LastInv(t)
      BY DEF XfrAll, OrderInv
    <2>2. CASE t # s
      <3>1. mem'.out[t] = mem.out[t] /\ os'.cfd[t] = os.cfd[t]
        BY <1>7, <2>2
      <3> QED BY ONLY <2>1, <3>1 DEF LastInv
    <2>3. CASE t = s
      <3>1. /\ \A i, k \in 1 .. Len(o) : i < k /\ o[i] = c => o[k] = c
            /\ \A i, j, k \in 1 .. Len(o) : i < j /\ j < k /\ o[i] = o[k] => o[i] = o[j]
        BY <2>1, <2>3 DEF LastInv, o, c
      <3>2. \A i, k \in 1 .. Len(r) : i < k /\ k \in 1 .. Len(o) => i \in 1 .. Len(o)
        BY <1>2
      <3>3. ASSUME NEW i \in 1 .. Len(r), NEW k \in 1 .. Len(r), i < k, r[i] = c PROVE r[k] = c
        BY <1>10, <3>1, <3>2, <3>3
      <3>4. ASSUME NEW i \in 1 .. Len(r), NEW j \in 1 .. Len(r), NEW k \in 1 .. Len(r),
                   i < j, j < k, r[i] = r[k]
            PROVE  r[i] = r[j]
        <4>1. CASE r[i] = c
          BY <3>3, <3>4, <4>1
        <4>2. CASE r[i] # c
          <5>1. k \in 1 .. Len(o) /\ r[k] = o[k]
            BY <1>10, <3>4, <4>2
          <5>2. j \in 1 .. Len(o) /\ i \in 1 .. Len(o) /\ r[i] = o[i] /\ r[j] = o[j]
            BY <1>10, <3>2, <3>4, <4>2, <5>1
          <5> QED BY <3>1, <3>4, <5>1, <5>2
        <4> QED BY <4>1, <4>2
      <3> QED BY <1>7, <2>3, <3>3, <3>4 DEF LastInv, c
    <2> QED BY <2>2, <2>3
  <1> QED BY <1>8, <1>9, <1>11, <1>12, <1>13 DEF XfrAll

LEMMA StepWriteOut == ASSUME XfrAll, NEW s \in XfrServers, TR!WriteOut(s) PROVE XfrAll'
  <1>1. CASE TR!Fault(s, "write", "failed")
    BY <1>1, StepXfrQuiet DEF XfrProcs
  <1>2. ASSUME TR!Move(s, "write", "read"), UNCHANGED os,
               mem' = [mem EXCEPT !.hold[s] = 0,
                                  !.out[s] = @ \o [i \in 1 .. mem.hold[s] |-> os.cfd[s]]]
        PROVE  XfrAll'
    <2> DEFINE n == mem.hold[s]
               c == os.cfd[s]
               o == mem.out[s]
               z == [i \in 1 .. n |-> c]
               r == o \o z
    <2>1. /\ at[s] = "write" /\ at' = [at EXCEPT ![s] = "read"] /\ os' = os
          /\ mem' = [mem EXCEPT !.hold[s] = 0, !.out[s] = r]
      BY <1>2 DEF TR!Move
    <2>2. c \in XfrClients /\ n \in Nat /\ o \in Seq(XfrClients)
      <3>1. ServerHold(s)
        BY DEF XfrAll, HoldInv
      <3> QED BY <2>1, <3>1, XfrFacts DEF ServerHold
    <2>3. z \in Seq(XfrClients) /\ Len(z) = n /\ \A i \in 1 .. n : z[i] = c
      <3> HIDE DEF o, n, c
      <3> QED BY <2>2
    <2> HIDE DEF z
    <2>4. r \in Seq(XfrClients) /\ Copies(r, o, c, n)
      <3> HIDE DEF o, n, c
      <3> QED BY <2>2, <2>3, CopiesLemma
    <2> HIDE DEF r
    <2>5. \A b : Count(r, b) = Count(o, b) + (IF b = c THEN n ELSE 0)
      <3> HIDE DEF o, n, c
      <3> QED BY <2>2, <2>4, CountCopies
    <2> QED BY <2>1, <2>4, <2>5, Prints
  <1> QED BY <1>1, <1>2 DEF TR!WriteOut

(* The client reads from its standard input. *)
LEMMA StepReadStdin == ASSUME XfrAll, NEW c \in XfrClients, TR!ReadStdin(c) PROVE XfrAll'
  <1> USE DEF XfrProcs
  <1>1. PICK n \in 1 .. XfrBuf :
          mem' = [mem EXCEPT !.input[c] = @ + n, !.hold[c] = n]
    BY DEF TR!ReadStdin
  <1>2. at[c] = "read" /\ at' = [at EXCEPT ![c] = "write"] /\ os' = os
    BY DEF TR!ReadStdin, TR!Move
  <1>3. /\ n \in Nat /\ n > 0 /\ mem.input[c] \in Nat /\ mem.input[c] + n \in Nat
        /\ mem.hold[c] = 0 /\ os.conn[c] # "none"
    <2>1. ClientHold(c)
      BY DEF XfrAll, HoldInv
    <2> QED BY <1>2, <2>1, XfrFacts, TransferAssumption DEF ClientHold
  <1>4. at'[c] = "write" /\ \A p \in XfrProcs : p # c => at'[p] = at[p]
    BY <1>2, TransferAssumption DEF XfrAll, XfrType, XfrAt
  <1>5. /\ mem'.prog = mem.prog /\ mem'.out = mem.out /\ mem'.done = mem.done
        /\ mem'.faults = mem.faults /\ mem'.hold = [mem.hold EXCEPT ![c] = n]
        /\ mem'.input = [mem.input EXCEPT ![c] = mem.input[c] + n]
        /\ mem' = [prog |-> mem'.prog, input |-> mem'.input, hold |-> mem'.hold, out |-> mem'.out,
                   done |-> mem'.done, faults |-> mem'.faults]
    BY <1>1 DEF XfrAll, XfrType, XfrMem
  <1>6. /\ mem'.hold[c] = n /\ \A p \in XfrProcs : p # c => mem'.hold[p] = mem.hold[p]
        /\ mem'.input[c] = mem.input[c] + n
        /\ \A b \in XfrClients : b # c => mem'.input[b] = mem.input[b]
    BY <1>5 DEF XfrAll, XfrType, XfrMem
  <1>7. XfrType'
    <2>1. mem'.hold \in [XfrProcs -> Nat] /\ mem'.input \in [XfrClients -> Nat]
      BY <1>3, <1>5 DEF XfrAll, XfrType, XfrMem
    <2>2. XfrMem'
      BY <1>5, <2>1 DEF XfrAll, XfrType, XfrMem
    <2>3. XfrAt'
      BY <1>2, TransferAssumption DEF XfrAll, XfrType, XfrAt
    <2>4. XfrOs'
      BY <1>2 DEF XfrAll, XfrType, XfrOs
    <2> QED BY <2>2, <2>3, <2>4 DEF XfrType
  <1>8. HoldInv'
    <2>1. ASSUME NEW t \in XfrServers PROVE ServerHold(t)'
      <3>1. ServerHold(t) /\ t \in XfrProcs /\ t # c
        BY XfrFacts DEF XfrAll, HoldInv
      <3> QED BY <1>2, <1>4, <1>6, <3>1 DEF ServerHold
    <2>2. ASSUME NEW b \in XfrClients PROVE ClientHold(b)'
      <3>1. ClientHold(b) /\ b \in XfrProcs
        BY XfrFacts DEF XfrAll, HoldInv
      <3> QED BY <1>2, <1>3, <1>4, <1>6, <3>1 DEF ClientHold
    <2> QED BY <2>1, <2>2 DEF HoldInv
  <1>9. ConnInv'
    <2>1. \A t \in XfrServers : (QueueInv(t) /\ CfdInv(t) /\ OutInv(t))'
      BY <1>2, <1>5 DEF XfrAll, ConnInv, QueueInv, CfdInv, OutInv
    <2>2. ASSUME NEW b \in mem.done PROVE DoneInv(b)'
      <3>1. DoneInv(b) /\ b \in XfrProcs
        BY XfrFacts DEF XfrAll, ConnInv
      <3> QED BY <1>2, <1>4, <3>1 DEF DoneInv, TR!UnixGone
    <2> QED BY <1>5, <2>1, <2>2 DEF ConnInv
  <1>10. ByteInv'
    <2> SUFFICES ASSUME NEW b \in XfrClients, os.conn[b] # "none" PROVE BytesOf(b)'
      BY <1>2 DEF ByteInv, BytesOf
    <2>1. /\ mem.input[b] = mem.hold[b] + os.buf[b] + AtServer(b) + Count(mem.out[os.conn[b]], b)
          /\ os.conn[b] \in XfrServers /\ os.conn[b] \in XfrProcs /\ b \in XfrProcs
          /\ os.conn[b] # c /\ os.buf[b] \in Nat /\ Count(mem.out[os.conn[b]], b) \in Nat
          /\ mem.hold[os.conn[b]] \in Nat
      BY XfrFacts, CountNat DEF XfrAll, ByteInv, BytesOf
    <2>2. AtServer(b)' = AtServer(b) /\ AtServer(b) \in Nat
      BY <1>2, <1>6, <2>1 DEF AtServer
    <2>3. CASE b = c
      <3>1. \A x, y, z \in Nat : (0 + x + y + z) + n = n + x + y + z
        BY <1>3
      <3>2. mem'.input[b] = n + os.buf[b] + AtServer(b) + Count(mem.out[os.conn[b]], b)
        <4> DEFINE x == os.buf[b]
                   y == AtServer(b)
                   z == Count(mem.out[os.conn[b]], b)
        <4>1. x \in Nat /\ y \in Nat /\ z \in Nat /\ mem.hold[b] = 0 /\ mem'.input[b] = mem.input[b] + n
          BY <1>3, <1>6, <2>1, <2>2, <2>3
        <4>2. mem.input[b] = mem.hold[b] + x + y + z
          BY <2>1
        <4> HIDE DEF x, y, z
        <4>3. mem'.input[b] = n + x + y + z
          BY <3>1, <4>1, <4>2
        <4> QED BY <4>3 DEF x, y, z
      <3> QED BY <1>2, <1>5, <1>6, <2>2, <2>3, <3>2 DEF BytesOf
    <2>4. CASE b # c
      BY <1>2, <1>5, <1>6, <2>1, <2>2, <2>4 DEF BytesOf
    <2> QED BY <2>3, <2>4
  <1>11. OrderInv'
    BY <1>2, <1>5 DEF XfrAll, OrderInv, LastInv
  <1> QED BY <1>7, <1>8, <1>9, <1>10, <1>11 DEF XfrAll

(* The client writes a byte to the socket. *)
LEMMA StepXfrSend == ASSUME XfrAll, NEW c \in XfrClients, TR!XfrSend(c) PROVE XfrAll'
  <1> DEFINE h == mem.hold[c] - 1
             m == os.buf[c] + 1
             k == IF mem.hold[c] = 1 THEN "read" ELSE "write"
  <1> USE DEF XfrProcs
  <1>1. CASE TR!Move(c, "write", "killed") /\ UNCHANGED <<mem, os>>
    BY <1>1, StepXfrQuiet
  <1>2. CASE /\ os' = [os EXCEPT !.buf[c] = m]
             /\ mem' = [mem EXCEPT !.hold[c] = h]
             /\ at' = [at EXCEPT ![c] = k]
    <2>1. /\ at[c] = "write" /\ mem.hold[c] > 0 /\ os.conn[c] # "none"
          /\ mem.hold[c] \in Nat /\ os.buf[c] \in Nat
      <3>1. ClientHold(c) /\ at[c] = "write"
        BY DEF XfrAll, HoldInv, TR!XfrSend
      <3> QED BY <3>1, XfrFacts DEF ClientHold
    <2>2. /\ h \in Nat /\ m \in Nat /\ mem.hold[c] + os.buf[c] = h + m /\ k \in {"read", "write"}
          /\ (k = "read" <=> h = 0)
      BY <2>1
    <2> HIDE DEF h, m, k
    <2>3. /\ os'.path = os.path /\ os'.conn = os.conn /\ os'.cfd = os.cfd /\ os'.queue = os.queue
          /\ os'.buf = [os.buf EXCEPT ![c] = m]
          /\ os' = [path |-> os'.path, queue |-> os'.queue, conn |-> os'.conn, buf |-> os'.buf,
                    cfd |-> os'.cfd]
      BY <1>2 DEF XfrAll, XfrType, XfrOs
    <2>4. os'.buf[c] = m /\ \A b \in XfrClients : b # c => os'.buf[b] = os.buf[b]
      BY <2>3 DEF XfrAll, XfrType, XfrOs
    <2>5. at'[c] = k /\ \A p \in XfrProcs : p # c => at'[p] = at[p]
      BY <1>2, TransferAssumption DEF XfrAll, XfrType, XfrAt
    <2>6. /\ mem'.prog = mem.prog /\ mem'.input = mem.input /\ mem'.out = mem.out
          /\ mem'.done = mem.done /\ mem'.hold = [mem.hold EXCEPT ![c] = h]
      BY <1>2 DEF XfrAll, XfrType, XfrMem
    <2>7. mem'.hold[c] = h /\ \A p \in XfrProcs : p # c => mem'.hold[p] = mem.hold[p]
      BY <2>6 DEF XfrAll, XfrType, XfrMem
    <2>8. XfrType'
      <3>1. XfrMem'
        BY <1>2, <2>2 DEF XfrAll, XfrType, XfrMem
      <3>2. XfrAt'
        BY <1>2, <2>2, TransferAssumption DEF XfrAll, XfrType, XfrAt
      <3>3. os'.buf \in [XfrClients -> Nat]
        BY <2>2, <2>3 DEF XfrAll, XfrType, XfrOs
      <3>4. XfrOs'
        BY <2>3, <3>3 DEF XfrAll, XfrType, XfrOs
      <3> QED BY <3>1, <3>2, <3>4 DEF XfrType
    <2>9. HoldInv'
      <3>1. ASSUME NEW t \in XfrServers PROVE ServerHold(t)'
        <4>1. ServerHold(t) /\ t \in XfrProcs /\ t # c
          BY XfrFacts DEF XfrAll, HoldInv
        <4> QED BY <2>3, <2>5, <2>7, <4>1 DEF ServerHold
      <3>2. ASSUME NEW b \in XfrClients PROVE ClientHold(b)'
        <4>1. ClientHold(b) /\ b \in XfrProcs
          BY XfrFacts DEF XfrAll, HoldInv
        <4>2. h # 0 => h > 0
          BY <2>2
        <4> QED BY <2>1, <2>2, <2>3, <2>4, <2>5, <2>6, <2>7, <4>1, <4>2 DEF ClientHold
      <3> QED BY <3>1, <3>2 DEF HoldInv
    <2>10. ConnInv'
      <3>1. \A t \in XfrServers : (QueueInv(t) /\ CfdInv(t) /\ OutInv(t))'
        BY <2>3, <2>6 DEF XfrAll, ConnInv, QueueInv, CfdInv, OutInv
      <3>2. ASSUME NEW b \in mem.done PROVE DoneInv(b)'
        <4>1. DoneInv(b) /\ b \in XfrProcs /\ b \in XfrClients
          BY XfrFacts DEF XfrAll, ConnInv
        <4>2. b # c
          BY <2>1, <4>1 DEF DoneInv, TR!UnixGone
        <4> QED BY <2>3, <2>4, <2>5, <4>1, <4>2 DEF DoneInv
      <3> QED BY <2>6, <3>1, <3>2 DEF ConnInv
    <2>11. ByteInv'
      <3> SUFFICES ASSUME NEW b \in XfrClients, os.conn[b] # "none" PROVE BytesOf(b)'
        BY <2>3 DEF ByteInv, BytesOf
      <3>1. /\ mem.input[b] = mem.hold[b] + os.buf[b] + AtServer(b) + Count(mem.out[os.conn[b]], b)
            /\ os.conn[b] \in XfrServers /\ os.conn[b] \in XfrProcs /\ b \in XfrProcs
            /\ os.conn[b] # c
        BY XfrFacts DEF XfrAll, ByteInv, BytesOf
      <3>2. AtServer(b)' = AtServer(b)
        BY <2>3, <2>7, <3>1 DEF AtServer
      <3>3. mem'.hold[b] + os'.buf[b] = mem.hold[b] + os.buf[b]
        BY <2>2, <2>4, <2>7, <3>1
      <3> QED BY <2>3, <2>6, <3>1, <3>2, <3>3 DEF BytesOf
    <2>12. OrderInv'
      BY <2>3, <2>6 DEF XfrAll, OrderInv, LastInv
    <2> QED BY <2>8, <2>9, <2>10, <2>11, <2>12 DEF XfrAll
  <1> QED BY <1>1, <1>2 DEF TR!XfrSend

LEMMA StepXfr ==
    ASSUME XfrAll,
           \/ \E s \in XfrServers : TR!us_xfr_sv(s)
           \/ \E c \in XfrClients : TR!us_xfr_cl(c)
           \/ \E p \in XfrProcs : TR!XfrKilled(p)
    PROVE  XfrAll'
  <1>1. ASSUME NEW s \in XfrServers, TR!us_xfr_sv(s) PROVE XfrAll'
    BY <1>1, StepXfrQuiet, StepAccept, StepXfrRead, StepWriteOut, StepEndOfFile
    DEF TR!us_xfr_sv, XfrProcs
  <1>2. ASSUME NEW c \in XfrClients, TR!us_xfr_cl(c) PROVE XfrAll'
    BY <1>2, StepXfrQuiet, StepConnect, StepReadStdin, StepXfrSend DEF TR!us_xfr_cl, XfrProcs
  <1>3. ASSUME NEW p \in XfrProcs, TR!XfrKilled(p) PROVE XfrAll'
    BY <1>3, StepXfrQuiet
  <1> QED BY <1>1, <1>2, <1>3

-----------------------------------------------------------------------------
(* Whichever program runs. *)
TransferInv ==
    /\ mem.prog \in TR!Progs => DgType /\ DgParts
    /\ mem.prog = "us_xfr" => XfrAll
    /\ mem.prog = "socketpair" => PairAll

LEMMA InitTransfers == MCInit => TransferInv
  <1> SUFFICES ASSUME MCInit PROVE TransferInv
    OBVIOUS
  <1>1. CASE NotRunning
    BY <1>1 DEF NotRunning, TransferInv, TR!Progs
  <1>2. CASE SC!Init
    <2>1. mem.prog \in SC!Progs
      BY <1>2 DEF SC!Init
    <2> QED BY <2>1 DEF TransferInv, TR!Progs, SC!Progs
  <1>3. CASE TR!DgInit
    <2>1. mem.prog \in TR!Progs
      BY <1>3 DEF TR!DgInit
    <2> QED BY <1>3, <2>1, InitDatagram DEF TransferInv, TR!Progs
  <1>4. CASE TR!XfrInit
    <2>1. mem.prog = "us_xfr"
      BY <1>4 DEF TR!XfrInit
    <2> QED BY <1>4, <2>1, InitXfr DEF TransferInv, TR!Progs
  <1>5. CASE TR!PairInit
    <2>1. mem.prog = "socketpair"
      BY <1>5 DEF TR!PairInit
    <2>2. PairAll
      BY <1>5 DEF TR!PairInit, PairAll, PairType, EndsInv, LetterInv, PairNames, TR!UnixGone, TR!toupper
    <2> QED BY <2>1, <2>2 DEF TransferInv, TR!Progs
  <1> QED BY <1>1, <1>2, <1>3, <1>4, <1>5 DEF MCInit, TR!Init, TR!UnixInit

LEMMA StepTransfers ==
    ProgInv /\ ScmInv /\ TransferInv /\ [MCNext]_<<machine, vars>> => TransferInv'
  <1> SUFFICES ASSUME ProgInv, ScmInv, TransferInv, [MCNext]_<<machine, vars>> PROVE TransferInv'
    OBVIOUS
  <1>1. CASE SC!Next
    <2>1. mem.prog \in SC!Progs
      BY <1>1 DEF SC!Next
    <2>2. mem'.prog = mem.prog
      <3>1. ScmType /\ ScmParts
        BY <2>1 DEF ScmInv, ScmType, ScmParts
      <3>2. ASSUME SC!receiver PROVE mem'.prog = mem.prog
        BY <3>1, <3>2, StepQuiet, StepRecv, StepEof, StepRead, StepReadEof DEF SC!receiver
      <3>3. ASSUME NEW s \in Senders, SC!sender(s) PROVE mem'.prog = mem.prog
        BY <3>1, <3>3, StepQuiet, StepOpen, StepSend, StepClose DEF SC!sender
      <3> QED BY <1>1, <3>2, <3>3 DEF SC!Next
    <2> QED BY <2>1, <2>2 DEF TransferInv, TR!Progs, SC!Progs
  <1>2. CASE TR!Next
    <2>1. mem'.prog = mem.prog
      BY <1>2, TransfersKeep
    <2>2. CASE TR!DgNext
      <3>1. /\ mem.prog \in TR!Progs
            /\ TR!server \/ \E c \in DgClients : TR!client(c) \/ TR!Kill(c)
        BY <2>2 DEF TR!DgNext, TR!DgServer, TR!DgClient
      <3>2. DgType' /\ DgParts'
        BY <3>1, StepDatagram DEF TransferInv
      <3> QED BY <2>1, <3>1, <3>2 DEF TransferInv, TR!Progs
    <2>3. CASE \/ \E s \in XfrServers : TR!XfrServer(s)
               \/ \E c \in XfrClients : TR!XfrClient(c)
               \/ TR!Runs("us_xfr") /\ \E p \in XfrServers \cup XfrClients : TR!XfrKilled(p)
      <3>1. /\ mem.prog = "us_xfr"
            /\ \/ \E s \in XfrServers : TR!us_xfr_sv(s)
               \/ \E c \in XfrClients : TR!us_xfr_cl(c)
               \/ \E p \in XfrProcs : TR!XfrKilled(p)
        BY <2>3 DEF TR!XfrServer, TR!XfrClient, TR!Runs, XfrProcs
      <3>2. XfrAll'
        BY <3>1, StepXfr DEF TransferInv
      <3> QED BY <2>1, <3>1, <3>2 DEF TransferInv, TR!Progs
    <2>4. CASE TR!Pair \/ (TR!Runs("socketpair") /\ \E p \in {"parent", "child"} : TR!PairKilled(p))
      <3>1. /\ mem.prog = "socketpair"
            /\ TR!socketpair \/ \E p \in {"parent", "child"} : TR!PairKilled(p)
        BY <2>4 DEF TR!Pair, TR!Runs
      <3>2. PairAll'
        BY <3>1, StepPair DEF TransferInv
      <3> QED BY <2>1, <3>1, <3>2 DEF TransferInv, TR!Progs
    <2> QED BY <1>2, <2>2, <2>3, <2>4 DEF TR!Next, TR!UnixNext
  <1>3. CASE UNCHANGED <<at, mem, os>>
    <2>1. at' = at /\ mem' = mem /\ os' = os
      BY <1>3
    <2>2. ASSUME mem.prog \in TR!Progs PROVE DgType' /\ DgParts'
      <3>1. DgType /\ DgParts
        BY <2>2 DEF TransferInv
      <3>2. DgType'
        BY <2>1, <3>1 DEF DgType, DgMem, DgAt, DgOs
      <3>3. WayInv' /\ GotInv'
        BY <2>1, <3>1, SameAnswers DEF DgParts, WayInv, GotInv
      <3>4. os.dups = 0 => SingleInv' /\ AskedInv'
        BY <2>1, <3>1 DEF DgParts, SingleInv, AskedInv
      <3> QED BY <2>1, <3>1, <3>2, <3>3, <3>4 DEF DgParts
    <2>3. mem.prog = "us_xfr" => XfrAll'
      BY <2>1 DEF TransferInv, XfrAll, XfrType, XfrMem, XfrAt, XfrOs, HoldInv, ServerHold, ClientHold,
         ConnInv, QueueInv, CfdInv, OutInv, DoneInv, ByteInv, BytesOf, AtServer, OrderInv, LastInv
    <2>4. mem.prog = "socketpair" => PairAll'
      BY <2>1 DEF TransferInv, PairAll, PairType, EndsInv, LetterInv
    <2> QED BY <2>1, <2>2, <2>3, <2>4 DEF TransferInv
  <1> QED BY <1>1, <1>2, <1>3 DEF MCNext, machine

(* The k-th answer that a client of ud_ucase_sv.c, i6d_ucase_sv.c or       *)
(* id_echo_sv.c prints is the answer to its own k-th message, unless the   *)
(* network duplicated a datagram, and then it is an older one of its own;  *)
(* us_xfr_sv.c prints what its clients sent, whole and one after the other, *)
(* however many servers take the name from each other; and                 *)
(* socketpair-sample.c prints a letter that never came only if the other   *)
(* process has gone.                                                       *)
THEOREM MessagesAlways == MCSpec => []MessagesTrue
  <1>1. ASSUME TransferInv PROVE MessagesTrue
    <2>1. TR!AnswersMatch
      <3> SUFFICES ASSUME mem.prog \in TR!Progs PROVE TR!AnswersMatch
        BY DEF TR!AnswersMatch
      <3>1. GotInv
        BY <1>1 DEF TransferInv, DgParts
      <3> QED BY <3>1 DEF TR!AnswersMatch, GotInv, Answer, Runs, TR!Runs
    <2>2. ASSUME mem.prog = "us_xfr"
          PROVE  /\ \A c \in mem.done : at[c] = "exit" => TR!Printed(os.conn[c], c) = mem.input[c]
                 /\ \A s \in XfrServers : \A i, j, k \in DOMAIN mem.out[s] :
                      i < j /\ j < k /\ mem.out[s][i] = mem.out[s][k] => mem.out[s][i] = mem.out[s][j]
      <3>1. XfrAll
        BY <1>1, <2>2 DEF TransferInv
      <3>2. \A s \in XfrServers : DOMAIN mem.out[s] = 1 .. Len(mem.out[s])
        <4>1. \A s \in XfrServers : mem.out[s] \in Seq(XfrClients)
          BY <3>1, XfrFacts
        <4> QED BY <4>1
      <3>3. ASSUME NEW c \in mem.done, at[c] = "exit"
            PROVE  TR!Printed(os.conn[c], c) = mem.input[c]
        <4> DEFINE s == os.conn[c]
        <4>1. /\ c \in XfrClients /\ s \in XfrServers /\ s # "none" /\ os.buf[c] = 0
              /\ mem.hold[c] = 0 /\ mem.out[s] \in Seq(XfrClients)
          <5>1. c \in XfrClients
            BY <3>1, XfrFacts
          <5>2. DoneInv(c) /\ ClientHold(c)
            BY <3>1, <5>1 DEF XfrAll, ConnInv, HoldInv
          <5> QED BY <3>1, <3>3, <5>1, <5>2, XfrFacts DEF DoneInv, ClientHold
        <4>2. AtServer(c) = 0
          <5>1. CfdInv(s) /\ c # "none"
            BY <3>1, <4>1, XfrFacts DEF XfrAll, ConnInv
          <5> QED BY <5>1 DEF CfdInv, AtServer
        <4>3. Count(mem.out[s], c) \in Nat
          BY <4>1, CountNat
        <4>4. mem.input[c] = 0 + 0 + 0 + Count(mem.out[s], c)
          BY <3>1, <4>1, <4>2 DEF XfrAll, ByteInv, BytesOf
        <4>5. mem.input[c] = Count(mem.out[s], c)
          BY <4>3, <4>4
        <4>6. TR!Printed(s, c) = Count(mem.out[s], c)
          BY <3>2, <4>1, CardLemma DEF TR!Printed, Count
        <4> QED BY <4>5, <4>6
      <3>4. ASSUME NEW s \in XfrServers, NEW i \in DOMAIN mem.out[s], NEW j \in DOMAIN mem.out[s],
                   NEW k \in DOMAIN mem.out[s], i < j, j < k, mem.out[s][i] = mem.out[s][k]
            PROVE  mem.out[s][i] = mem.out[s][j]
        <4>1. LastInv(s)
          BY <3>1 DEF XfrAll, OrderInv
        <4> QED BY <3>2, <3>4, <4>1 DEF LastInv
      <3> QED BY <3>3, <3>4
    <2>3. ASSUME mem.prog = "socketpair"
          PROVE  /\ at.parent \in {"wait", "exit"} => mem.forked
                 /\ at.parent \in {"wait", "exit"} /\ mem.buf.parent # "B" =>
                      at.child = "killed" \/ mem.buf.child # "b"
                 /\ at.child \in {"write", "stop"} /\ mem.buf.child # "b" => at.parent \in TR!UnixGone
      BY <1>1, <2>3 DEF TransferInv, PairAll, EndsInv, LetterInv
    <2>4. TR!TransferWhole
      BY <2>2, <2>3 DEF TR!TransferWhole, TR!Runs
    <2> QED BY <2>1, <2>4 DEF MessagesTrue
  <1>2. MCInit => ProgInv /\ ScmInv
    BY InitScm
  <1>3. ProgInv /\ ScmInv /\ [MCNext]_<<machine, vars>> => ProgInv' /\ ScmInv'
    BY StepScm
  <1>4. MCSpec => [](ProgInv /\ ScmInv /\ TransferInv)
    BY <1>2, <1>3, InitTransfers, StepTransfers, PTL DEF MCSpec
  <1> QED BY <1>1, <1>4, PTL
=============================================================================
