----------------------------- MODULE MCSockets -----------------------------
(***************************************************************************)
(* Clients and servers over sockets, one service of which runs in a        *)
(* behaviour: the forking echo service (EchoServer) or, by mem.prog, the   *)
(* datagram and stream services (Transfers) and the passing of descriptors *)
(* and credentials (ScmPass).                                              *)
(***************************************************************************)
EXTENDS EchoServer, Machine

CONSTANTS DgClients, NumMsgs, MaxSize, BufSize, MaxDups, Senders, MaxBlocks, Skip,
          XfrServers, XfrClients, Backlog, XfrBuf, SockCap, MaxXfr, MaxFaults

(* The receiver, and a message on its way, are no senders. *)
ASSUME ScmAssumption ==
    {"recv", "flight"} \cap Senders = {} /\ MaxBlocks \in Nat /\ Skip \in Nat

(* Servers, clients and nobody have different names. *)
ASSUME TransferAssumption ==
    /\ "sv" \notin DgClients /\ MaxSize \in Nat /\ BufSize \in Nat /\ XfrBuf \in Nat
    /\ "none" \notin XfrServers \cup XfrClients /\ XfrServers \cap XfrClients = {}

TR == INSTANCE Transfers
SC == INSTANCE ScmPass

MCInit ==
    /\ Init
    /\ \/ NotRunning
       \/ (TR!Init \/ SC!Init) /\ kind = [c \in Clients |-> "fork"]

MCNext ==
    \/ Runs("none") /\ Next /\ UNCHANGED <<at, mem, os>>
    \/ (TR!Next \/ SC!Next) /\ UNCHANGED vars

MCSpec ==
    /\ MCInit /\ [][MCNext]_<<machine, vars>>
    /\ Runs("none") => Fairness
    /\ TR!Fairness

-----------------------------------------------------------------------------
(* Answers to datagrams belong to the messages they are printed for, and   *)
(* what us_xfr_sv prints is its clients' input.                            *)
MessagesTrue == TR!AnswersMatch /\ TR!TransferWhole

(* Ancillary data arrives whole and from whom it says. *)
AncillaryTrue == SC!AncillaryTrue

(* The services answer and end. *)
SocketsEnd == (Runs("none") => ServiceEnds) /\ TR!UnixAnswered /\ TR!TransfersEnd
=============================================================================
