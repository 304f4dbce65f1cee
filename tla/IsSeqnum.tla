------------------------------ MODULE IsSeqnum ------------------------------
(***************************************************************************)
(* The sequence-number service over TCP: 59-socket-internet/               *)
(* is_seqnum_sv.c and is_seqnum_cl.c.  A client connects, writes the       *)
(* length it wants and a newline in two write()s and reads one line; the   *)
(* server serves one connection at a time.  (Library models how the        *)
(* sockets are made and readLine().)                                       *)
(***************************************************************************)
EXTENDS Machine, Integers, Sequences

CONSTANTS Clients,
          MaxLen,       \* bound on sequence-len
          Ints          \* number of values of a uint32_t, even

(* reqLen: what atoi() makes of a client's argument, 0 for a bad one; cfd: *)
(* the client being served; got: the number a client printed ({} or {n});  *)
(* reserved: how many numbers were answered for so far (history).          *)
(* backlog: connections not accepted; line: what the client has written;   *)
(* gone: the client's end is closed; reply: what the server wrote;         *)
(* closed: the server's end is closed.                                     *)
Init ==
    \E reqLen \in [Clients -> 0 .. MaxLen], seqNum \in {0, Ints - 1} :
        /\ mem = [prog |-> "is_seqnum", seqNum |-> seqNum, cfd |-> {}, reqLen |-> reqLen,
                  reserved |-> 0, got |-> [c \in Clients |-> {}]]
        /\ at = [p \in Clients \cup {"sv"} |-> IF p = "sv" THEN "accept" ELSE "connect"]
        /\ os = [backlog |-> <<>>, line |-> [c \in Clients |-> "none"],
                 gone |-> {}, reply |-> [c \in Clients |-> {}], closed |-> {}]

-----------------------------------------------------------------------------
(* The client *)
Connect(c) ==
    /\ Move(c, "connect", "write")
    /\ os' = [os EXCEPT !.backlog = Append(@, c)]
    /\ UNCHANGED mem

WriteLen(c) ==
    /\ Move(c, "write", "newline")
    /\ os' = [os EXCEPT !.line[c] = "length"]
    /\ UNCHANGED mem

WriteNewline(c) ==
    /\ Move(c, "newline", "read")
    /\ os' = [os EXCEPT !.line[c] = "line"]
    /\ UNCHANGED mem

(* readLine() and printf(); EOF without a line is fatal(). *)
ReadReply(c) ==
    /\ \/ os.reply[c] # {} /\ Move(c, "read", "done")
       \/ os.reply[c] = {} /\ c \in os.closed /\ Move(c, "read", "failed")
    /\ mem' = [mem EXCEPT !.got[c] = os.reply[c]]
    /\ os' = [os EXCEPT !.gone = @ \cup {c}]

is_seqnum_cl(c) == Connect(c) \/ WriteLen(c) \/ WriteNewline(c) \/ ReadReply(c)

(* A signal, or fatal() after a failed write(): what was written arrives. *)
GoesAway(c) ==
    /\ at[c] \in {"write", "newline", "read"}
    /\ at' = [at EXCEPT ![c] = "killed"]
    /\ os' = [os EXCEPT !.gone = @ \cup {c}]
    /\ UNCHANGED mem

-----------------------------------------------------------------------------
(* The server *)
Accept ==
    /\ os.backlog # <<>>
    /\ Move("sv", "accept", "readLine")
    /\ mem' = [mem EXCEPT !.cfd = {Head(os.backlog)}]
    /\ os' = [os EXCEPT !.backlog = Tail(@)]

(* accept() fails for a connection that was aborted: errMsg(), continue. *)
AcceptFails ==
    /\ at.sv = "accept" /\ os.backlog # <<>> /\ Head(os.backlog) \in os.gone
    /\ os' = [os EXCEPT !.backlog = Tail(@)]
    /\ UNCHANGED <<at, mem>>

CloseAndContinue(c) ==
    /\ at' = [at EXCEPT !.sv = "accept"]
    /\ mem' = [mem EXCEPT !.cfd = {}]
    /\ os' = [os EXCEPT !.closed = @ \cup {c}]

(* readLine() waits for a newline or the end of the stream; a line cut off *)
(* by the end is taken as it is.  EOF without a byte, an error (the line   *)
(* ends with its stream here too), or a length that is not positive:       *)
(* close().                                                                *)
ReadLine ==
    /\ at.sv = "readLine"
    /\ \E c \in mem.cfd :
          /\ os.line[c] = "line" \/ c \in os.gone
          /\ IF os.line[c] = "none" \/ mem.reqLen[c] <= 0
               THEN CloseAndContinue(c)
               ELSE Move("sv", "readLine", "reply") /\ UNCHANGED <<mem, os>>

(* snprintf("%d") of a uint32_t; a write() that fails is only reported. *)
Decimal(n) == IF n < Ints \div 2 THEN n ELSE n - Ints

WriteReply ==
    /\ Move("sv", "reply", "update")
    /\ os' = [os EXCEPT !.reply = [c \in Clients |->
                  IF c \in mem.cfd \ os.gone THEN {Decimal(mem.seqNum)} ELSE @[c]]]
    /\ \E c \in mem.cfd : mem' = [mem EXCEPT !.reserved = @ + mem.reqLen[c]]

(* Mutant: seqNum++ instead of seqNum += reqLen. *)
UpdateByOne ==
    /\ at.sv = "update"
    /\ at' = [at EXCEPT !.sv = "accept"]
    /\ mem' = [mem EXCEPT !.cfd = {}, !.seqNum = (@ + 1) % Ints]
    /\ os' = [os EXCEPT !.closed = @ \cup mem.cfd]

(* seqNum += reqLen, served or not, and close(). *)
Update ==
    /\ at.sv = "update"
    /\ at' = [at EXCEPT !.sv = "accept"]
    /\ \E c \in mem.cfd :
          mem' = [mem EXCEPT !.cfd = {}, !.seqNum = (@ + mem.reqLen[c]) % Ints]
    /\ os' = [os EXCEPT !.closed = @ \cup mem.cfd]

is_seqnum_sv == Accept \/ AcceptFails \/ ReadLine \/ WriteReply \/ Update

Server == Runs("is_seqnum") /\ is_seqnum_sv
Client(c) == Runs("is_seqnum") /\ is_seqnum_cl(c)

Next ==
    \/ Server
    \/ \E c \in Clients : Client(c) \/ (Runs("is_seqnum") /\ GoesAway(c))

(* The kernel runs the server and every client. *)
Fairness == WF_machine(Server) /\ \A c \in Clients : WF_machine(Client(c))

-----------------------------------------------------------------------------
NumbersOf(c) == {(n + k) % Ints : n \in mem.got[c], k \in 0 .. mem.reqLen[c] - 1}

(* No number is handed out twice, across the wrap of seqNum and the sign   *)
(* that "%d" gives to its upper half, whichever clients go away, as long   *)
(* as the server has answered for no more numbers than a uint32_t has.     *)
DisjointRanges ==
    Runs("is_seqnum") /\ mem.reserved <= Ints =>
        \A c, d \in Clients : c # d => NumbersOf(c) \cap NumbersOf(d) = {}

(* Every client that stays is answered, also when others go away in the    *)
(* middle of their requests: the end of their streams frees the server.    *)
AllServed ==
    \A c \in Clients :
        (Runs("is_seqnum") /\ at[c] = "write") ~>
            (Runs("is_seqnum") /\ \/ at[c] = "killed"
                                  \/ at[c] = IF mem.reqLen[c] > 0 THEN "done" ELSE "failed")
=============================================================================
