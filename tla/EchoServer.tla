----------------------------- MODULE EchoServer -----------------------------
(***************************************************************************)
(* The concurrent echo service: 60-socket-design/is_echo_sv.c with its     *)
(* clients 61-socket-advanced/is_echo_cl.c ("fork": one process sends, a   *)
(* child receives) and 60-socket-design/is_echo_cl_nofork.c ("nofork": one *)
(* process sends a piece and reads once).  TCP keeps the bytes in order;   *)
(* pieces are counted, not spelled out, and a read() may return any part   *)
(* of what has arrived.  The server forks a child per connection, reaps    *)
(* children in grimReaper(), and waits for the operator in stop() after    *)
(* each accept().                                                          *)
(***************************************************************************)
EXTENDS Naturals, FiniteSets

CONSTANTS Clients,
          Pieces        \* what each client reads from its stdin

ASSUME ConstantsAssumption == Pieces \in Nat /\ "none" \notin Clients

VARIABLES kind,             \* per client: "fork" or "nofork"
          cli, rd,          \* per client: position of its (sending) process
                            \* and of its receiving child
          sent, rcvd,       \* per client: pieces written to and read from sfd
          backlog,          \* connections not yet accepted
          sv, cfd,          \* the server's position, its connected socket
          ch,               \* per client: position of the server's child;
                            \* "refused": there is none, and will be none
          svRead, echoed,   \* per client: pieces the child has read, written
          pending, hpc      \* SIGCHLD pending; position in grimReaper()

clientVars == <<kind, cli, rd, sent, rcvd>>
childVars == <<ch, svRead, echoed>>
vars == <<clientVars, backlog, sv, cfd, childVars, pending, hpc>>

Init ==
    /\ kind \in [Clients -> {"fork", "nofork"}]
    /\ cli = [c \in Clients |-> "connect"]
    /\ rd = [c \in Clients |-> "none"]
    /\ sent = [c \in Clients |-> 0]
    /\ rcvd = [c \in Clients |-> 0]
    /\ backlog = {}
    /\ sv = "accept"
    /\ cfd = "none"
    /\ ch = [c \in Clients |-> "none"]
    /\ svRead = [c \in Clients |-> 0]
    /\ echoed = [c \in Clients |-> 0]
    /\ pending = FALSE
    /\ hpc = "none"

Handling == {"read", "write"}

(* The server's end is closed: the connection was taken, the parent has    *)
(* closed cfd, and no child holds it.                                      *)
ServerClosed(c) ==
    /\ cli[c] # "connect" /\ c \notin backlog
    /\ cfd # c /\ ch[c] \notin Handling

(* The client's end is closed for writing; for reading as well. *)
ClientEof(c) == cli[c] \in {"shut", "closed", "failed"}
ClientGone(c) == cli[c] \in {"closed", "failed"} /\ rd[c] \in {"none", "eof"}

-----------------------------------------------------------------------------
(* Clients *)

Connect(c) ==
    /\ cli[c] = "connect" /\ sv # "exited"
    /\ backlog' = backlog \cup {c}
    /\ cli' = [cli EXCEPT ![c] = "send"]
    /\ rd' = [rd EXCEPT ![c] = IF kind[c] = "fork" THEN "read" ELSE "none"]
    /\ UNCHANGED <<kind, sent, rcvd, sv, cfd, childVars, pending, hpc>>

(* inetConnect() or fork() fails: errExit(). *)
ConnectFails(c) ==
    /\ cli[c] = "connect"
    /\ cli' = [cli EXCEPT ![c] = "failed"]
    /\ UNCHANGED <<kind, rd, sent, rcvd, backlog, sv, cfd, childVars, pending, hpc>>

(* Copy a piece of stdin to the socket; a closed connection ends the       *)
(* client (SIGPIPE or fatal()).                                            *)
ClientSend(c) ==
    /\ cli[c] = "send"
    /\ sent[c] < Pieces
    /\ IF ServerClosed(c)
       THEN cli' = [cli EXCEPT ![c] = "failed"] /\ UNCHANGED sent
       ELSE /\ sent' = [sent EXCEPT ![c] = @ + 1]
            /\ cli' = [cli EXCEPT ![c] = IF kind[c] = "fork" THEN "send" ELSE "receive"]
    /\ UNCHANGED <<kind, rd, rcvd, backlog, sv, cfd, childVars, pending, hpc>>

(* Mutant: the sender closes sfd and ends the reading child as well. *)
ClientCloseBoth(c) ==
    /\ cli[c] = "send"
    /\ sent[c] = Pieces
    /\ cli' = [cli EXCEPT ![c] = "closed"]
    /\ rd' = [rd EXCEPT ![c] = IF kind[c] = "fork" THEN "eof" ELSE @]
    /\ UNCHANGED <<kind, sent, rcvd, backlog, sv, cfd, childVars, pending, hpc>>

(* End of stdin: is_echo_cl.c shuts down the sending direction only,       *)
(* is_echo_cl_nofork.c closes the socket.                                  *)
ClientShutdown(c) ==
    /\ cli[c] = "send"
    /\ sent[c] = Pieces
    /\ cli' = [cli EXCEPT ![c] = IF kind[c] = "fork" THEN "shut" ELSE "closed"]
    /\ UNCHANGED <<kind, rd, sent, rcvd, backlog, sv, cfd, childVars, pending, hpc>>

(* read(sfd): any part of what has arrived, or EOF. *)
ClientReceive(c) ==
    /\ \/ rd[c] = "read" \/ cli[c] = "receive"
    /\ \/ /\ \E n \in rcvd[c] + 1 .. echoed[c] : rcvd' = [rcvd EXCEPT ![c] = n]
          /\ cli' = [cli EXCEPT ![c] = IF @ = "receive" THEN "send" ELSE @]
          /\ UNCHANGED rd
       \/ /\ rcvd[c] = echoed[c] /\ ServerClosed(c)
          /\ rd' = [rd EXCEPT ![c] = IF @ = "read" THEN "eof" ELSE @]
          /\ cli' = [cli EXCEPT ![c] = IF @ = "receive" THEN "closed" ELSE @]
          /\ UNCHANGED rcvd
    /\ UNCHANGED <<kind, sent, backlog, sv, cfd, childVars, pending, hpc>>

Sending(c) == Connect(c) \/ ClientSend(c) \/ ClientShutdown(c) \/ ClientReceive(c)

is_echo_cl(c) == kind[c] = "fork" /\ Sending(c)
is_echo_cl_nofork(c) == kind[c] = "nofork" /\ Sending(c)

Client(c) == is_echo_cl(c) \/ is_echo_cl_nofork(c)

-----------------------------------------------------------------------------
(* The server's parent; it does not run while grimReaper() does *)

At(label) == sv = label /\ hpc = "none"

Accept ==
    /\ At("accept")
    /\ \E c \in backlog : cfd' = c /\ backlog' = backlog \ {c}
    /\ sv' = "stop"
    /\ UNCHANGED <<clientVars, childVars, pending, hpc>>

(* accept() fails (out of descriptors, say): exit(EXIT_FAILURE).  The      *)
(* listening socket goes, and the connections that wait in it are reset.   *)
AcceptFails ==
    /\ At("accept")
    /\ sv' = "exited"
    /\ backlog' = {}
    /\ ch' = [c \in Clients |-> IF c \in backlog THEN "refused" ELSE ch[c]]
    /\ UNCHANGED <<clientVars, cfd, svRead, echoed, pending, hpc>>

(* stop("accept success"): the operator presses Enter. *)
Stop ==
    /\ At("stop")
    /\ sv' = "fork"
    /\ UNCHANGED <<clientVars, backlog, cfd, childVars, pending, hpc>>

(* Mutant: the parent keeps its copy of the connected socket. *)
ForkKeepsCfd ==
    /\ At("fork")
    /\ ch' = [ch EXCEPT ![cfd] = "read"]
    /\ sv' = "accept"
    /\ UNCHANGED <<clientVars, backlog, cfd, svRead, echoed, pending, hpc>>

Fork ==
    /\ At("fork")
    /\ ch' = [ch EXCEPT ![cfd] = "read"]
    /\ sv' = "close"
    /\ UNCHANGED <<clientVars, backlog, cfd, svRead, echoed, pending, hpc>>

(* "Give up on this client". *)
ForkFails ==
    /\ At("fork")
    /\ sv' = "close"
    /\ ch' = [ch EXCEPT ![cfd] = "refused"]
    /\ UNCHANGED <<clientVars, backlog, cfd, svRead, echoed, pending, hpc>>

Close ==
    /\ At("close")
    /\ cfd' = "none"
    /\ sv' = "accept"
    /\ UNCHANGED <<clientVars, backlog, childVars, pending, hpc>>

(* grimReaper() runs at any point of the parent; SA_RESTART makes accept() *)
(* and the read() of stop() go on after it.                                *)
Deliver ==
    /\ sv # "exited" /\ pending /\ hpc = "none"
    /\ pending' = FALSE
    /\ hpc' = "reap"
    /\ UNCHANGED <<clientVars, backlog, sv, cfd, childVars>>

(* Mutant: if instead of while. *)
ReapOnce ==
    /\ hpc = "reap" /\ sv # "exited"
    /\ \E c \in Clients : ch[c] = "zombie" /\ ch' = [ch EXCEPT ![c] = "reaped"]
    /\ hpc' = "none"
    /\ UNCHANGED <<clientVars, backlog, sv, cfd, svRead, echoed, pending>>

Reap ==
    /\ hpc = "reap" /\ sv # "exited"
    /\ \E c \in Clients : ch[c] = "zombie" /\ ch' = [ch EXCEPT ![c] = "reaped"]
    /\ UNCHANGED <<clientVars, backlog, sv, cfd, svRead, echoed, pending, hpc>>

Reaped ==
    /\ hpc = "reap" /\ sv # "exited"
    /\ \A c \in Clients : ch[c] # "zombie"
    /\ hpc' = "none"
    /\ UNCHANGED <<clientVars, backlog, sv, cfd, childVars, pending>>

grimReaper == Deliver \/ Reap \/ Reaped

Server == Accept \/ Fork \/ ForkFails \/ Close \/ grimReaper

-----------------------------------------------------------------------------
(* handleRequest() in the child for client c *)

ChildEnd(c) ==
    /\ ch' = [ch EXCEPT ![c] = "zombie"]
    /\ pending' = TRUE

ChildRead(c) ==
    /\ ch[c] = "read"
    /\ \E n \in svRead[c] + 1 .. sent[c] : svRead' = [svRead EXCEPT ![c] = n]
    /\ ch' = [ch EXCEPT ![c] = "write"]
    /\ UNCHANGED <<clientVars, backlog, sv, cfd, echoed, pending, hpc>>

(* EOF, or an error once the client is gone. *)
ChildReadEnds(c) ==
    /\ ch[c] = "read"
    /\ ClientEof(c) /\ (svRead[c] = sent[c] \/ ClientGone(c))
    /\ ChildEnd(c)
    /\ UNCHANGED <<clientVars, backlog, sv, cfd, svRead, echoed, hpc>>

(* write() of all that was read; with the client gone SIGPIPE or           *)
(* exit(EXIT_FAILURE) ends the child.                                      *)
ChildWrite(c) ==
    /\ ch[c] = "write"
    /\ IF ClientGone(c)
       THEN ChildEnd(c) /\ UNCHANGED echoed
       ELSE /\ echoed' = [echoed EXCEPT ![c] = svRead[c]]
            /\ ch' = [ch EXCEPT ![c] = "read"] /\ UNCHANGED pending
    /\ UNCHANGED <<clientVars, backlog, sv, cfd, svRead, hpc>>

handleRequest(c) == ChildRead(c) \/ ChildReadEnds(c) \/ ChildWrite(c)

Next ==
    \/ Server \/ AcceptFails \/ Stop
    \/ \E c \in Clients : Client(c) \/ ConnectFails(c) \/ handleRequest(c)

(* Every process runs when it can.  Nothing promises that the operator     *)
(* presses Enter in stop().                                                *)
Fairness ==
    WF_vars(Server) /\ \A c \in Clients : WF_vars(Client(c)) /\ WF_vars(handleRequest(c))

Spec == Init /\ [][Next]_vars /\ Fairness

-----------------------------------------------------------------------------
TypeOK ==
    /\ kind \in [Clients -> {"fork", "nofork"}]
    /\ cli \in [Clients -> {"connect", "send", "receive", "shut", "closed", "failed"}]
    /\ rd \in [Clients -> {"none", "read", "eof"}]
    /\ backlog \subseteq Clients
    /\ sv \in {"accept", "stop", "fork", "close", "exited"}
    /\ cfd \in Clients \cup {"none"}
    /\ ch \in [Clients -> {"none", "read", "write", "zombie", "reaped", "refused"}]
    /\ sent \in [Clients -> 0 .. Pieces] /\ rcvd \in [Clients -> 0 .. Pieces]
    /\ svRead \in [Clients -> 0 .. Pieces] /\ echoed \in [Clients -> 0 .. Pieces]
    /\ pending \in BOOLEAN /\ hpc \in {"none", "reap"}

(* No zombie is left behind although SIGCHLDs coalesce: outside            *)
(* grimReaper() a dead child has a SIGCHLD pending.                        *)
NoForgottenZombie ==
    sv # "exited" /\ hpc = "none" /\ (\E c \in Clients : ch[c] = "zombie") => pending

(* is_echo_cl.c prints everything it sent: when its receiving child sees   *)
(* EOF, every piece has come back, unless the server gave up on it or      *)
(* ended before it accepted the connection.                                *)
EchoComplete ==
    \A c \in Clients :
        kind[c] = "fork" /\ rd[c] = "eof" /\ ch[c] # "refused" /\ cli[c] # "failed"
            => rcvd[c] = Pieces

(* Every client ends and every child is reaped, as long as the operator    *)
(* answers stop() and accept() does not fail.                              *)
ServiceEnds ==
    ([]<>(sv # "stop") /\ [](sv # "exited")) =>
       <>(\A c \in Clients : /\ ClientEof(c) /\ rd[c] # "read"
                             /\ ch[c] \in {"none", "reaped", "refused"})
=============================================================================
