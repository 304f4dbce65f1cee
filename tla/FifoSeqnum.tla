----------------------------- MODULE FifoSeqnum -----------------------------
(***************************************************************************)
(* The sequence-number service over FIFOs: 44-ipc-pipe-fifo/               *)
(* fifo_seqnum_server.c and fifo_seqnum_client.c.  A client makes its own  *)
(* FIFO, sends (pid, seqLen) through the server's well-known FIFO and      *)
(* reads the start of its range of numbers from its own FIFO; the server   *)
(* serves one request at a time.  open() of a FIFO blocks until the other  *)
(* end is opened too.  A request is smaller than PIPE_BUF, so it is        *)
(* written and read in one piece.  A client may be killed by a signal at   *)
(* any time (its atexit() handler does not run then), and may leave with   *)
(* errExit() (its handler runs).                                           *)
(***************************************************************************)
EXTENDS Integers, Sequences

CONSTANTS Clients,
          MaxLen,       \* bound on seq-len
          Ints          \* number of values of an int: 2^32 in the build

ASSUME ConstantsAssumption ==
    MaxLen \in Nat \ {0} /\ Ints \in Nat \ {0} /\ "none" \notin Clients

VARIABLES sv,           \* the server's position
          serverFifo,   \* SERVER_FIFO: has it been opened for writing, and
                        \* the requests in it
          req,          \* the client being served
          seqNum,       \* an int, as its residue modulo Ints
          reserved,     \* history: how many numbers were answered for so far
          seqLen,       \* each client's argument
          cpc,          \* each client's position
          clientFifo,   \* does the client's FIFO exist
          clientFd,     \* the server's descriptor for it
          resp,         \* the response in it ({} or {n})
          got           \* the number the client printed ({} or {n})

svVars == <<sv, req, seqNum, reserved>>
vars == <<svVars, serverFifo, seqLen, cpc, clientFifo, clientFd, resp, got>>

Init ==
    /\ sv = "mkfifo"
    /\ serverFifo = [opened |-> FALSE, requests |-> <<>>]
    /\ req = "none"
    /\ seqNum = 0
    /\ reserved = 0
    /\ seqLen \in [Clients -> 1 .. MaxLen]
    /\ cpc = [c \in Clients |-> "mkfifo"]
    /\ clientFifo = [c \in Clients |-> FALSE]
    /\ clientFd = [c \in Clients |-> "none"]
    /\ resp = [c \in Clients |-> {}]
    /\ got = [c \in Clients |-> {}]

(* The server, blocked in its open() or past it, is SERVER_FIFO's reader.  *)
ServerReads == sv \notin {"mkfifo", "failed", "exited"}

-----------------------------------------------------------------------------
(* The client *)

Mkfifo(c) ==
    /\ cpc[c] = "mkfifo"
    /\ clientFifo' = [clientFifo EXCEPT ![c] = TRUE]
    /\ cpc' = [cpc EXCEPT ![c] = "openServer"]
    /\ UNCHANGED <<svVars, serverFifo, seqLen, clientFd, resp, got>>

(* open(SERVER_FIFO, O_WRONLY) waits for the server. *)
OpenServer(c) ==
    /\ cpc[c] = "openServer"
    /\ ServerReads
    /\ serverFifo' = [serverFifo EXCEPT !.opened = TRUE]
    /\ cpc' = [cpc EXCEPT ![c] = "send"]
    /\ UNCHANGED <<svVars, seqLen, clientFifo, clientFd, resp, got>>

(* The client's write(); without a reader SIGPIPE kills the client. *)
Send(c) ==
    /\ cpc[c] = "send"
    /\ IF ServerReads
       THEN /\ serverFifo' = [serverFifo EXCEPT !.requests = Append(@, c)]
            /\ cpc' = [cpc EXCEPT ![c] = "openOwn"]
       ELSE /\ cpc' = [cpc EXCEPT ![c] = "killed"]
            /\ UNCHANGED serverFifo
    /\ UNCHANGED <<svVars, seqLen, clientFifo, clientFd, resp, got>>

(* open(clientFifo, O_RDONLY) waits for the server to open it. *)
OpenOwn(c) ==
    /\ cpc[c] = "openOwn"
    /\ clientFd[c] # "none"
    /\ cpc' = [cpc EXCEPT ![c] = "read"]
    /\ UNCHANGED <<svVars, serverFifo, seqLen, clientFifo, clientFd, resp, got>>

(* read(), print, and exit(), which runs removeFifo(). *)
Receive(c) ==
    /\ cpc[c] = "read"
    /\ \/ resp[c] # {} /\ cpc' = [cpc EXCEPT ![c] = "done"]
       \/ resp[c] = {} /\ clientFd[c] = "closed"         \* EOF: fatal()
          /\ cpc' = [cpc EXCEPT ![c] = "failed"]
    /\ got' = [got EXCEPT ![c] = resp[c]]
    /\ clientFifo' = [clientFifo EXCEPT ![c] = FALSE]
    /\ UNCHANGED <<svVars, serverFifo, seqLen, clientFd, resp>>

(* mkfifo(), getInt() or an open() fails (SERVER_FIFO may not exist);      *)
(* errExit() runs removeFifo().                                            *)
Fail(c) ==
    /\ cpc[c] \in {"mkfifo", "openServer", "openOwn"}
    /\ cpc' = [cpc EXCEPT ![c] = "failed"]
    /\ clientFifo' = [clientFifo EXCEPT ![c] = FALSE]
    /\ UNCHANGED <<svVars, serverFifo, seqLen, clientFd, resp, got>>

(* A signal kills the client: its FIFO stays. *)
Killed(c) ==
    /\ cpc[c] \notin {"done", "failed", "killed"}
    /\ cpc' = [cpc EXCEPT ![c] = "killed"]
    /\ UNCHANGED <<svVars, serverFifo, seqLen, clientFifo, clientFd, resp, got>>

Client(c) ==
    Mkfifo(c) \/ OpenServer(c) \/ Send(c) \/ OpenOwn(c) \/ Receive(c)

-----------------------------------------------------------------------------
(* The server *)

(* mkfifo(), where EEXIST is no error. *)
MkServerFifo ==
    /\ sv = "mkfifo"
    /\ sv' = "open"
    /\ UNCHANGED <<req, seqNum, reserved, serverFifo, seqLen, cpc, clientFifo, clientFd, resp, got>>

(* open(SERVER_FIFO, O_RDONLY) waits for a first client; then dummyFd and  *)
(* SIGPIPE are set up.                                                     *)
OpenServerFifo ==
    /\ sv = "open"
    /\ serverFifo.opened
    /\ sv' = "read"
    /\ UNCHANGED <<req, seqNum, reserved, serverFifo, seqLen, cpc, clientFifo, clientFd, resp, got>>

(* mkfifo(), an open() of SERVER_FIFO or signal() fails: errExit() before  *)
(* any request is read.                                                    *)
StartFails ==
    /\ sv \in {"mkfifo", "open"}
    /\ sv' = "failed"
    /\ UNCHANGED <<req, seqNum, reserved, serverFifo, seqLen, cpc, clientFifo, clientFd, resp, got>>

(* Mutant: the size of a request is wrong, every request is discarded. *)
ReadDiscard ==
    /\ sv = "read"
    /\ serverFifo.requests # <<>>
    /\ serverFifo' = [serverFifo EXCEPT !.requests = Tail(@)]
    /\ UNCHANGED <<svVars, seqLen, cpc, clientFifo, clientFd, resp, got>>

(* dummyFd keeps the write end open: read() waits, it never sees EOF. *)
ReadRequest ==
    /\ sv = "read"
    /\ serverFifo.requests # <<>>
    /\ req' = Head(serverFifo.requests)
    /\ serverFifo' = [serverFifo EXCEPT !.requests = Tail(@)]
    /\ sv' = "openClient"
    /\ UNCHANGED <<seqNum, reserved, seqLen, cpc, clientFifo, clientFd, resp, got>>

(* open(clientFifo, O_WRONLY) waits until the client opens it for reading. *)
OpenClient ==
    /\ sv = "openClient"
    /\ clientFifo[req]
    /\ cpc[req] = "openOwn"
    /\ clientFd' = [clientFd EXCEPT ![req] = "open"]
    /\ sv' = "write"
    /\ UNCHANGED <<req, seqNum, reserved, serverFifo, seqLen, cpc, clientFifo, resp, got>>

(* open() fails: errExit() ends the server before 'continue'. *)
OpenClientFails ==
    /\ sv = "openClient"
    /\ ~clientFifo[req]
    /\ sv' = "exited"
    /\ UNCHANGED <<req, seqNum, reserved, serverFifo, seqLen, cpc, clientFifo, clientFd, resp, got>>

(* The response; to a client that is gone write() fails with EPIPE. *)
WriteResponse ==
    /\ sv = "write"
    /\ resp' = IF cpc[req] \in {"openOwn", "read"}
               THEN [resp EXCEPT ![req] = {seqNum}] ELSE resp
    /\ reserved' = reserved + seqLen[req]
    /\ sv' = "close"
    /\ UNCHANGED <<req, seqNum, serverFifo, seqLen, cpc, clientFifo, clientFd, got>>

(* Mutant: seqNum++ instead of seqNum += req.seqLen. *)
CloseByOne ==
    /\ sv = "close"
    /\ clientFd' = [clientFd EXCEPT ![req] = "closed"]
    /\ seqNum' = (seqNum + 1) % Ints
    /\ sv' = "read" /\ req' = "none"
    /\ UNCHANGED <<reserved, serverFifo, seqLen, cpc, clientFifo, resp, got>>

(* close(), then seqNum += req.seqLen, served or not. *)
CloseClient ==
    /\ sv = "close"
    /\ clientFd' = [clientFd EXCEPT ![req] = "closed"]
    /\ seqNum' = (seqNum + seqLen[req]) % Ints
    /\ sv' = "read" /\ req' = "none"
    /\ UNCHANGED <<reserved, serverFifo, seqLen, cpc, clientFifo, resp, got>>

Server ==
    \/ MkServerFifo \/ OpenServerFifo \/ ReadRequest \/ OpenClient
    \/ OpenClientFails \/ WriteResponse \/ CloseClient

Next == Server \/ StartFails \/ \E c \in Clients : Client(c) \/ Fail(c) \/ Killed(c)

(* The kernel runs the server and every client; failures just may happen.  *)
Spec ==
    /\ Init /\ [][Next]_vars
    /\ WF_vars(Server) /\ \A c \in Clients : WF_vars(Client(c))

-----------------------------------------------------------------------------
TypeOK ==
    /\ sv \in {"mkfifo", "open", "read", "openClient", "write", "close", "failed", "exited"}
    /\ serverFifo.opened \in BOOLEAN
    /\ serverFifo.requests \in Seq(Clients)
    /\ req \in Clients \cup {"none"}
    /\ seqNum \in 0 .. Ints - 1
    /\ reserved \in Nat
    /\ seqLen \in [Clients -> 1 .. MaxLen]
    /\ cpc \in [Clients -> {"mkfifo", "openServer", "send", "openOwn", "read",
                            "done", "failed", "killed"}]
    /\ clientFifo \in [Clients -> BOOLEAN]
    /\ clientFd \in [Clients -> {"none", "open", "closed"}]
    /\ \A c \in Clients : resp[c] \in {{}} \cup {{n} : n \in 0 .. Ints - 1}
    /\ \A c \in Clients : got[c] \in {{}} \cup {{n} : n \in 0 .. Ints - 1}

(* The numbers client c was given. *)
NumbersOf(c) == {(n + k) % Ints : n \in got[c], k \in 0 .. seqLen[c] - 1}

(* No number is handed out twice, even across the wrap of the int seqNum,  *)
(* as long as the server has answered for no more numbers than an int has. *)
DisjointRanges ==
    reserved <= Ints =>
        \A c, d \in Clients : c # d => NumbersOf(c) \cap NumbersOf(d) = {}

(* fifo_seqnum_server.c:45, "Open failed, give up on client": a server     *)
(* that has started goes on to the next request.                           *)
ServerSurvives == sv # "exited"

(* A client that has sent its request prints its number, if the server     *)
(* could start and no client fails or is killed.                           *)
AllServed ==
    []( sv # "failed" /\ \A c \in Clients : cpc[c] \notin {"failed", "killed"} ) =>
        \A c \in Clients : cpc[c] = "openOwn" ~> cpc[c] = "done"
=============================================================================
