----------------------------- MODULE Transfers ------------------------------
(***************************************************************************)
(* Messages and bytes between clients and servers: datagram services, and  *)
(* streams of the UNIX domain.                                             *)
(***************************************************************************)
EXTENDS Machine, Naturals, SequencesExt, Sequences, FiniteSets, FiniteSetsExt

CONSTANTS DgClients,
          NumMsgs,      \* messages of a client
          MaxSize,      \* bound on the size of a message
          BufSize,      \* BUF_SIZE
          MaxDups,      \* bound on the duplications by the network
          XfrServers, XfrClients,
          Backlog,      \* BACKLOG
          XfrBuf,       \* BUF_SIZE
          SockCap,      \* bytes a socket buffers
          MaxXfr,       \* bound on the clients' input together
          MaxFaults     \* bound on the processes killed and the writes failed

-----------------------------------------------------------------------------
(***************************************************************************)
(* Servers that answer datagrams, with their clients: ud_ucase (UNIX       *)
(* domain: reliable and in order), i6d_ucase and id_echo (UDP: lost,       *)
(* duplicated, out of order).  A client sends each message and waits for   *)
(* the answer, without a timeout.  The servers know a client only by the   *)
(* address of the datagram at hand.                                        *)
(***************************************************************************)
Progs == {"ud_ucase", "i6d_ucase", "id_echo"}
Udp == mem.prog # "ud_ucase"

(* j: the message a client is at; size: of a client's messages; got: the   *)
(* answers it printed; buf: the datagram the server is at.  sv, cl: what   *)
(* is to be received; dups: duplications so far.                           *)
DgInit ==
    \E prog \in Progs, size \in [DgClients -> 0 .. MaxSize] :
        /\ mem = [prog |-> prog, size |-> size, j |-> [c \in DgClients |-> 1],
                  got |-> [c \in DgClients |-> <<>>], buf |-> {}]
        /\ at = [p \in DgClients \cup {"sv"} |-> "start"]
        /\ os = [sv |-> <<>>, cl |-> [c \in DgClients |-> <<>>], dups |-> 0]

Cut(d) == [d EXCEPT !.size = IF @ > BufSize THEN BufSize ELSE @]

(* What may become of queue q when datagram d is sent to it. *)
Sent(q, d) ==
    IF ~Udp THEN {Append(q, d)}
    ELSE {q} \cup {InsertAt(q, k, d) : k \in 1 .. Len(q) + 1}

Duplicated(q, d) ==
    {InsertAt(InsertAt(q, k, d), l, d) : k, l \in 1 .. Len(q) + 1}

-----------------------------------------------------------------------------
(* The client *)

(* A client of ud_ucase binds its socket to a name, to be answered. *)
Open(c) == Move(c, "start", "send") /\ UNCHANGED <<mem, os>>

Datagram(c) == [from |-> c, j |-> mem.j[c], size |-> mem.size[c], upper |-> FALSE]

(* Mutant: every message is sent more than once. *)
SendTwice(c) ==
    /\ at.sv \in {"recv", "send"}
    /\ Move(c, "send", "recv")
    /\ os' = [os EXCEPT !.sv = @ \o <<Datagram(c), Datagram(c)>>]
    /\ UNCHANGED mem

DgSend(c) ==
    /\ at.sv \in {"recv", "send"}
    /\ Move(c, "send", "recv")
    /\ \/ \E q \in Sent(os.sv, Datagram(c)) : os' = [os EXCEPT !.sv = q]
       \/ /\ Udp /\ os.dups < MaxDups
          /\ \E q \in Duplicated(os.sv, Datagram(c)) :
                os' = [os EXCEPT !.sv = q, !.dups = @ + 1]
    /\ UNCHANGED mem

(* There is no server.  sendto() fails in the UNIX domain; over UDP a      *)
(* connected socket reports the refusal, perhaps only to read().           *)
SendToNobody(c) ==
    /\ at.sv \in {"start", "exit"}
    /\ \/ mem.prog # "i6d_ucase" /\ Move(c, "send", "failed")
       \/ Udp /\ Move(c, "send", "recv")
    /\ UNCHANGED <<mem, os>>

Refused(c) ==
    /\ Runs("id_echo") /\ at.sv = "start"
    /\ Move(c, "recv", "failed") /\ UNCHANGED <<mem, os>>

Receive(c) ==
    /\ os.cl[c] # <<>>
    /\ Move(c, "recv", IF mem.j[c] = NumMsgs THEN "done" ELSE "send")
    /\ mem' = [mem EXCEPT !.got[c] = Append(@, Cut(Head(os.cl[c]))), !.j[c] = @ + 1]
    /\ os' = [os EXCEPT !.cl[c] = Tail(@)]

client(c) == Open(c) \/ DgSend(c) \/ SendToNobody(c) \/ Refused(c) \/ Receive(c)

(* The user loses patience. *)
Kill(c) == Move(c, "recv", "killed") /\ UNCHANGED <<mem, os>>

DgGone(c) == at[c] \in {"done", "failed", "killed"}

-----------------------------------------------------------------------------
(* The server *)
DgBind == Move("sv", "start", "recv") /\ UNCHANGED <<mem, os>>

Recvfrom ==
    /\ os.sv # <<>>
    /\ Move("sv", "recv", "send")
    /\ mem' = [mem EXCEPT !.buf = {[Cut(Head(os.sv)) EXCEPT !.upper = ~Runs("id_echo")]}]
    /\ os' = [os EXCEPT !.sv = Tail(@)]

(* To a client that has gone, sendto() fails in the UNIX domain: fatal(). *)
Sendto ==
    /\ at.sv = "send"
    /\ \E d \in mem.buf :
        \/ /\ ~DgGone(d.from)
           /\ Move("sv", "send", "recv")
           /\ \/ \E q \in Sent(os.cl[d.from], d) : os' = [os EXCEPT !.cl[d.from] = q]
              \/ /\ Udp /\ os.dups < MaxDups
                 /\ \E q \in Duplicated(os.cl[d.from], d) :
                       os' = [os EXCEPT !.cl[d.from] = q, !.dups = @ + 1]
        \/ /\ DgGone(d.from)
           /\ Move("sv", "send", IF Udp THEN "recv" ELSE "exit")
           /\ UNCHANGED os
    /\ mem' = [mem EXCEPT !.buf = {}]

server == DgBind \/ Recvfrom \/ Sendto

DgServer == mem.prog \in Progs /\ server
DgClient(c) == mem.prog \in Progs /\ client(c)

DgNext ==
    \/ DgServer
    \/ \E c \in DgClients : DgClient(c) \/ (mem.prog \in Progs /\ Kill(c))

DgFairness == WF_machine(DgServer) /\ \A c \in DgClients : WF_machine(DgClient(c))

-----------------------------------------------------------------------------
(* The k-th answer a client prints is its own k-th message, changed as the *)
(* service does and cut to BUF_SIZE, unless the network duplicated a       *)
(* datagram: then it may be an older one, since nothing in an answer says  *)
(* to which message it belongs, but never a stranger's.                    *)
AnswersMatch ==
    mem.prog \in Progs =>
        \A c \in DgClients : \A k \in 1 .. Len(mem.got[c]) :
            LET d == mem.got[c][k] IN
            /\ d = Cut([from |-> c, j |-> d.j, size |-> mem.size[c], upper |-> ~Runs("id_echo")])
            /\ d.j <= k /\ (os.dups = 0 => d.j = k)

(* In the UNIX domain every client is answered or finds no server, and     *)
(* only a client that was killed while it waited can end the server.       *)
UnixAnswered ==
    \A c \in DgClients :
        (Runs("ud_ucase") /\ at[c] = "recv") ~>
            (Runs("ud_ucase") /\ (at[c] # "recv" \/ \E k \in DgClients : at[k] = "killed"))

-----------------------------------------------------------------------------
(***************************************************************************)
(* Two programs over UNIX domain stream sockets: 57-socket-unix/           *)
(* us_xfr_sv.c, which copies what its clients (us_xfr_cl.c) send to        *)
(* standard output, one client after the other, and 57-experimental/       *)
(* socketpair-sample.c, in which a child gives its parent a letter back in *)
(* upper case.  The server may be started twice: every start removes the   *)
(* name and binds it anew.                                                 *)
(***************************************************************************)
UnixGone == {"exit", "failed", "killed"}

(* input: how much a client has read, hold: what it or a server has read   *)
(* and not yet written; out: whose bytes a server has printed; done: the   *)
(* clients whose end of file a server has read.  path: the server that     *)
(* SV_SOCK_PATH names (at the start nothing, or what an earlier server     *)
(* left, which the clients and remove() take alike); queue: connections    *)
(* not yet accepted; conn: the server of a client, buf: bytes on their     *)
(* way; cfd: the client a server talks to.                                 *)
XfrInit ==
    /\ at = [p \in XfrServers \cup XfrClients |->
                IF p \in XfrServers THEN "remove" ELSE "connect"]
    /\ mem = [prog |-> "us_xfr", input |-> [c \in XfrClients |-> 0],
              hold |-> [p \in XfrServers \cup XfrClients |-> 0],
              out |-> [s \in XfrServers |-> <<>>], done |-> {}, faults |-> 0]
    /\ os = [path |-> "none", queue |-> [s \in XfrServers |-> <<>>],
             conn |-> [c \in XfrClients |-> "none"], buf |-> [c \in XfrClients |-> 0],
             cfd |-> [s \in XfrServers |-> "none"]]

-----------------------------------------------------------------------------
Fault(p, l, how) ==
    /\ mem.faults < MaxFaults /\ Move(p, l, how)
    /\ mem' = [mem EXCEPT !.faults = @ + 1]
    /\ UNCHANGED os

(* The server *)
RemoveName(s) ==
    /\ Move(s, "remove", "bind")
    /\ os' = [os EXCEPT !.path = "none"]
    /\ UNCHANGED mem

XfrBind(s) ==
    /\ os.path = "none" /\ Move(s, "bind", "listen")
    /\ os' = [os EXCEPT !.path = s]
    /\ UNCHANGED mem

(* Another server has bound the name since the remove(). *)
BindFails(s) == os.path # "none" /\ Move(s, "bind", "failed") /\ UNCHANGED <<mem, os>>

Listen(s) == Move(s, "listen", "accept") /\ UNCHANGED <<mem, os>>

Accept(s) ==
    /\ os.queue[s] # <<>> /\ Move(s, "accept", "read")
    /\ os' = [os EXCEPT !.queue[s] = Tail(@), !.cfd[s] = Head(os.queue[s])]
    /\ UNCHANGED mem

Read(s) ==
    /\ at[s] = "read" /\ os.buf[os.cfd[s]] > 0
    /\ LET n == Min({XfrBuf, os.buf[os.cfd[s]]})
       IN  /\ Move(s, "read", "write")
           /\ os' = [os EXCEPT !.buf[os.cfd[s]] = @ - n]
           /\ mem' = [mem EXCEPT !.hold[s] = n]

(* write() to standard output, or fatal("partial/failed write"). *)
WriteOut(s) ==
    \/ /\ Move(s, "write", "read") /\ UNCHANGED os
       /\ mem' = [mem EXCEPT !.hold[s] = 0,
                             !.out[s] = @ \o [i \in 1 .. mem.hold[s] |-> os.cfd[s]]]
    \/ Fault(s, "write", "failed")

(* read() returns 0: close(cfd). *)
EndOfFile(s) ==
    /\ at[s] = "read" /\ os.buf[os.cfd[s]] = 0 /\ at[os.cfd[s]] \in UnixGone
    /\ Move(s, "read", "accept")
    /\ mem' = [mem EXCEPT !.done = @ \cup {os.cfd[s]}]
    /\ os' = [os EXCEPT !.cfd[s] = "none"]

us_xfr_sv(s) ==
    \/ RemoveName(s) \/ XfrBind(s) \/ BindFails(s) \/ Listen(s)
    \/ Accept(s) \/ Read(s) \/ WriteOut(s) \/ EndOfFile(s)

-----------------------------------------------------------------------------
(* The client *)
Listening(s) == s \in XfrServers /\ at[s] \notin {"listen"} \cup UnixGone

Connect(c) ==
    /\ at[c] = "connect" /\ os.path \in XfrServers /\ Listening(os.path)
    /\ Len(os.queue[os.path]) <= Backlog
    /\ Move(c, "connect", "read")
    /\ os' = [os EXCEPT !.conn[c] = os.path, !.queue[os.path] = Append(@, c)]
    /\ UNCHANGED mem

ConnectFails(c) == ~Listening(os.path) /\ Move(c, "connect", "failed") /\ UNCHANGED <<mem, os>>

ReadStdin(c) ==
    /\ Move(c, "read", "write") /\ UNCHANGED os
    /\ \E n \in 1 .. XfrBuf :
          /\ MapThenSumSet(LAMBDA d : mem.input[d], XfrClients) + n <= MaxXfr
          /\ mem' = [mem EXCEPT !.input[c] = @ + n, !.hold[c] = n]

(* write() blocks while the socket is full; without a server it is SIGPIPE *)
(* that ends the client.                                                   *)
XfrSend(c) ==
    /\ at[c] = "write"
    /\ IF at[os.conn[c]] \in UnixGone THEN Move(c, "write", "killed") /\ UNCHANGED <<mem, os>>
       ELSE /\ os.buf[c] < SockCap
            /\ os' = [os EXCEPT !.buf[c] = @ + 1]
            /\ mem' = [mem EXCEPT !.hold[c] = @ - 1]
            /\ at' = [at EXCEPT ![c] = IF mem.hold[c] = 1 THEN "read" ELSE "write"]

Exit(c) == Move(c, "read", "exit") /\ UNCHANGED <<mem, os>>

us_xfr_cl(c) == Connect(c) \/ ConnectFails(c) \/ ReadStdin(c) \/ XfrSend(c) \/ Exit(c)

XfrKilled(p) == at[p] \notin UnixGone /\ Fault(p, at[p], "killed")

-----------------------------------------------------------------------------
(* socketpair-sample: sv0 and sv1 are held by the processes in the sets;   *)
(* letter: what is in the socket for each process; buf: a variable that    *)
(* has no value before the read().                                         *)
PairInit ==
    /\ at = [parent |-> "fork", child |-> "unborn"]
    /\ mem = [prog |-> "socketpair", forked |-> FALSE,
              buf |-> [parent |-> "garbage", child |-> "garbage"]]
    /\ os = [sv |-> [parent |-> {"parent"}, child |-> {"parent"}],
             letter |-> [parent |-> "none", child |-> "none"]]

(* The return value of fork() is only compared with 0: after a failure the *)
(* parent goes on.                                                         *)
PairFork ==
    \/ /\ at.parent = "fork" /\ at' = [parent |-> "close", child |-> "close"]
       /\ mem' = [mem EXCEPT !.forked = TRUE]
       /\ os' = [os EXCEPT !.sv = [parent |-> {"parent", "child"}, child |-> {"parent", "child"}]]
    \/ Move("parent", "fork", "close") /\ UNCHANGED <<mem, os>>

(* sv[0] is the parent's end of the pair, sv[1] the child's. *)
PairClose(p, q, k) ==
    /\ Move(p, "close", k)
    /\ os' = [os EXCEPT !.sv[q] = @ \ {p}]
    /\ UNCHANGED mem

PairWrite(p, q, l, k, what) ==
    /\ IF os.sv[q] = {} THEN Move(p, l, "killed") /\ os' = [os EXCEPT !.sv[p] = @ \ {p}]
       ELSE Move(p, l, k) /\ os' = [os EXCEPT !.letter[q] = what]
    /\ UNCHANGED mem

(* A read() that fails, or finds the end, leaves buf as it was. *)
PairRead(p, q, l, k) ==
    /\ os.letter[p] # "none" \/ os.sv[q] = {}
    /\ Move(p, l, k)
    /\ mem' = IF os.letter[p] # "none" THEN [mem EXCEPT !.buf[p] = os.letter[p]] ELSE mem
    /\ os' = [os EXCEPT !.letter[p] = "none"]

PairEnd(p, l, how) ==
    /\ Move(p, l, how)
    /\ os' = [os EXCEPT !.sv = [q \in DOMAIN @ |-> @[q] \ {p}]]
    /\ UNCHANGED mem

toupper(b) == IF b = "b" THEN "B" ELSE b

PairChild ==
    \/ PairClose("child", "parent", "read")
    \/ PairRead("child", "parent", "read", "write")
    \/ PairWrite("child", "parent", "write", "stop", toupper(mem.buf.child))
    \/ PairEnd("child", "stop", "exit")

PairParent ==
    \/ PairFork \/ PairClose("parent", "child", "write")
    \/ PairWrite("parent", "child", "write", "read", "b")
    \/ PairRead("parent", "child", "read", "wait")
    \/ at.child \in UnixGone /\ PairEnd("parent", "wait", "exit")

socketpair == PairChild \/ PairParent

PairKilled(p) == at[p] \notin UnixGone \cup {"unborn"} /\ PairEnd(p, at[p], "killed")

-----------------------------------------------------------------------------
UnixInit == XfrInit \/ PairInit

XfrServer(s) == Runs("us_xfr") /\ us_xfr_sv(s)
XfrClient(c) == Runs("us_xfr") /\ us_xfr_cl(c)
Pair == Runs("socketpair") /\ socketpair

UnixNext ==
    \/ \E s \in XfrServers : XfrServer(s)
    \/ \E c \in XfrClients : XfrClient(c)
    \/ Runs("us_xfr") /\ \E p \in XfrServers \cup XfrClients : XfrKilled(p)
    \/ Pair
    \/ Runs("socketpair") /\ \E p \in {"parent", "child"} : PairKilled(p)

(* Every process runs; the clients' input comes, and ends; the user        *)
(* answers stop().                                                         *)
UnixFairness ==
    /\ \A s \in XfrServers : WF_machine(XfrServer(s))
    /\ \A c \in XfrClients : WF_machine(XfrClient(c))
    /\ WF_machine(Pair)

-----------------------------------------------------------------------------
Printed(s, c) == Cardinality({i \in DOMAIN mem.out[s] : mem.out[s][i] = c})

(* What a server prints is its clients' input, whole and one after the     *)
(* other, whoever removes the name or is killed: a client that came to its *)
(* end of file has everything printed once its server has read the end,    *)
(* and no two clients' bytes are mixed.  In socketpair-sample a letter     *)
(* that never came is printed only when the other process has gone, and    *)
(* never by a parent whose fork() failed.                                  *)
TransferWhole ==
    /\ Runs("us_xfr") =>
          /\ \A c \in mem.done : at[c] = "exit" => Printed(os.conn[c], c) = mem.input[c]
          /\ \A s \in XfrServers : \A i, j, k \in DOMAIN mem.out[s] :
                i < j /\ j < k /\ mem.out[s][i] = mem.out[s][k] => mem.out[s][i] = mem.out[s][j]
    /\ Runs("socketpair") =>
          /\ at.parent \in {"wait", "exit"} => mem.forked
          /\ at.parent \in {"wait", "exit"} /\ mem.buf.parent # "B" =>
                at.child = "killed" \/ mem.buf.child # "b"
          /\ at.child \in {"write", "stop"} /\ mem.buf.child # "b" => at.parent \in UnixGone

(* Every client ends, and one that came to its end of file is read to the  *)
(* end unless its server ends; and socketpair-sample ends.                 *)
Served(c) ==
    /\ at[c] \in UnixGone
    /\ at[c] = "exit" => c \in mem.done \/ at[os.conn[c]] \in UnixGone

TransfersEnd ==
    /\ Runs("us_xfr") ~> (Runs("us_xfr") /\ \A c \in XfrClients : Served(c))
    /\ Runs("socketpair") ~> (Runs("socketpair") /\ at.parent \in UnixGone)

-----------------------------------------------------------------------------
(* One of the programs runs. *)
Init == DgInit \/ UnixInit

Next == DgNext \/ UnixNext

Fairness == DgFairness /\ UnixFairness
=============================================================================
