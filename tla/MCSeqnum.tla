------------------------------ MODULE MCSeqnum ------------------------------
(***************************************************************************)
(* The two sequence-number services and the library the second one uses,   *)
(* one of which runs in a behaviour: the service over FIFOs (FifoSeqnum)   *)
(* or, by mem.prog, the one over TCP (IsSeqnum), or the functions that     *)
(* make its sockets, read and write its streams and convert its arguments  *)
(* (Library).                                                              *)
(***************************************************************************)
EXTENDS FifoSeqnum, Machine

CONSTANTS TcpClients, MaxAddrs, MaxStream, MaxN, MaxEintr,
          LongMax, IntLimit, MaxDigits, MaxField

ASSUME TcpAssumption == "sv" \notin TcpClients       \* the server's name

IS == INSTANCE IsSeqnum WITH Clients <- TcpClients
LB == INSTANCE Library

MCInit ==
    /\ Init
    /\ \/ NotRunning
       \/ (IS!Init \/ LB!Init) /\ seqLen = [c \in Clients |-> 1]

MCNext ==
    \/ Runs("none") /\ Next /\ UNCHANGED <<at, mem, os>>
    \/ (IS!Next \/ LB!Next) /\ UNCHANGED vars

MCSpec ==
    /\ MCInit /\ [][MCNext]_<<machine, vars>>
    /\ Runs("none") => WF_vars(Server) /\ \A c \in Clients : WF_vars(Client(c))
    /\ IS!Fairness

-----------------------------------------------------------------------------
(* Both servers first send the response and then advance seqNum; to the    *)
(* service they are one step, taken when the response is sent.             *)
FifoService ==
    INSTANCE SeqnumService WITH
        len <- seqLen,
        next <- IF sv = "close" THEN (seqNum + seqLen[req]) % Ints ELSE seqNum,
        attended <- {c \in Clients : clientFd[c] = "closed" \/ (sv = "close" /\ req = c)},
        told <- resp

(* The number is written as "%d" of a uint32_t, and read back modulo Ints. *)
TcpService ==
    INSTANCE SeqnumService WITH
        Clients <- TcpClients,
        len <- IF Runs("is_seqnum") THEN mem.reqLen ELSE [c \in TcpClients |-> 1],
        next <- IF ~Runs("is_seqnum") THEN 0
                ELSE IF at.sv = "update"
                     THEN (mem.seqNum + mem.reqLen[CHOOSE c \in mem.cfd : TRUE]) % Ints
                     ELSE mem.seqNum,
        attended <- IF ~Runs("is_seqnum") THEN {}
                    ELSE {c \in os.closed : mem.reqLen[c] > 0 /\ os.line[c] # "none"}
                           \cup (IF at.sv = "update" THEN mem.cfd ELSE {}),
        told <- IF ~Runs("is_seqnum") THEN [c \in TcpClients |-> {}]
                ELSE [c \in TcpClients |-> {n % Ints : n \in os.reply[c]}]

(* Each service is a sequence-number service: the window between sending   *)
(* the response and advancing seqNum, clients that leave in it, requests   *)
(* cut off in the middle and the wrap of the number cannot be seen by the  *)
(* clients.                                                                *)
ImplementsService == FifoService!Spec /\ TcpService!Spec

(* Neither service hands out a number twice. *)
NoNumberTwice == DisjointRanges /\ IS!DisjointRanges

(* Both services answer; the one over TCP also when clients go away. *)
EveryoneServed == (Runs("none") => AllServed) /\ IS!AllServed

(* A call that makes a socket leaves no other one open; readLine(),        *)
(* readn() and writen() transfer what they say; getNum() and               *)
(* itimerspecFromStr() return the numbers written.                         *)
LibraryFunctions == LB!OneSocket /\ LB!TransfersExact /\ LB!NumbersTrue
=============================================================================
