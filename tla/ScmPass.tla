------------------------------ MODULE ScmPass ------------------------------
(***************************************************************************)
(* Ancillary data over a UNIX domain socket, stream or datagram:           *)
(* scm_rights_send.c passes an open file to scm_rights_recv.c,             *)
(* scm_cred_send.c its credentials to scm_cred_recv.c.  Several senders    *)
(* may be about; the receiver takes one message.                           *)
(***************************************************************************)
EXTENDS Machine, Naturals, Sequences

CONSTANTS Senders,
          MaxBlocks,    \* bound on the length of a file
          Skip          \* where lseek() goes

Progs == {"scm_rights", "scm_cred"}

(* dgram: the option -d of each program; creds: what a scm_cred_send puts  *)
(* in its message, nothing (-n), its own credentials or others; priv: it   *)
(* may claim others; len: of the file a scm_rights_send passes; got: what  *)
(* the receiver found in the message; out: the blocks of the file printed. *)
(* path: what SOCK_PATH names; queue: datagrams, or connections not yet    *)
(* accepted; conn: the one accepted; msg: what a sender has sent; ended:   *)
(* senders whose socket is closed; passcred: SO_PASSCRED is set; file: for *)
(* each open file its offset and who holds it open.                        *)
Init ==
    \E prog \in Progs, dgram \in [Senders \cup {"recv"} -> BOOLEAN],
       creds \in [Senders -> {"none", "own", "other"}], priv \in BOOLEAN, len \in 0 .. MaxBlocks,
       path \in {"none", "stale"} :
        /\ IF prog = "scm_cred" THEN len = 0 ELSE creds = [s \in Senders |-> "none"] /\ ~priv
        /\ mem = [prog |-> prog, dgram |-> dgram, creds |-> creds, priv |-> priv, len |-> len,
                  got |-> {}, out |-> <<>>]
        /\ at = [p \in Senders \cup {"recv"} |-> "start"]
        /\ os = [path |-> path, queue |-> <<>>, conn |-> {}, msg |-> [s \in Senders |-> "none"],
                 ended |-> {}, passcred |-> FALSE,
                 file |-> [s \in Senders |-> [offset |-> 0, holders |-> {}]]]

Rights == mem.prog = "scm_rights"
Fail(p, l) == Move(p, l, "failed") /\ UNCHANGED <<mem, os>>

-----------------------------------------------------------------------------
(* The senders *)
OpenFile(s) ==
    /\ Move(s, "start", "connect")
    /\ os' = IF Rights THEN [os EXCEPT !.file[s] = [offset |-> Skip, holders |-> {s}]] ELSE os
    /\ UNCHANGED mem

(* unixConnect(): the name must be bound to a socket of the same type. *)
Connect(s) ==
    /\ os.path = "bound" /\ mem.dgram[s] = mem.dgram["recv"]
    /\ at.recv \notin {"listen", "done", "failed"}
    /\ Move(s, "connect", "sendmsg")
    /\ os' = IF mem.dgram[s] THEN os ELSE [os EXCEPT !.queue = Append(@, s)]
    /\ UNCHANGED mem

ConnectFails(s) ==
    /\ \/ os.path # "bound" \/ mem.dgram[s] # mem.dgram["recv"]
       \/ at.recv \in {"listen", "done", "failed"}
    /\ Fail(s, "connect")

(* The kernel adds the sender's credentials where it gave none, if the     *)
(* receiving socket asks for them or has not been accepted yet.            *)
Credentials(s) ==
    CASE mem.creds[s] # "none" -> mem.creds[s]
      [] os.passcred \/ (~mem.dgram[s] /\ s \notin os.conn) -> "own"
      [] OTHER -> "nobody"

SendMsg(s) ==
    /\ mem.creds[s] = "other" => mem.priv
    /\ at.recv \notin {"done", "failed"}
    /\ Move(s, "sendmsg", IF Rights THEN "stop" ELSE "exit")
    /\ os' = [os EXCEPT !.msg[s] = IF Rights THEN "fd" ELSE Credentials(s),
                        !.queue = IF mem.dgram[s] THEN Append(@, s) ELSE @,
                        !.ended = IF Rights THEN @ ELSE @ \cup {s},
                        !.file[s].holders = IF Rights THEN @ \cup {"flight"} ELSE @]
    /\ UNCHANGED mem

(* EPERM, or EPIPE or ECONNREFUSED once the receiver has gone. *)
SendMsgFails(s) ==
    /\ (mem.creds[s] = "other" /\ ~mem.priv) \/ at.recv \in {"done", "failed"}
    /\ Move(s, "sendmsg", "failed")
    /\ os' = [os EXCEPT !.ended = @ \cup {s}, !.file[s].holders = @ \ {s}]
    /\ UNCHANGED mem

(* After stop(): close(fd) and exit(). *)
CloseFile(s) ==
    /\ Move(s, "stop", "exit")
    /\ os' = [os EXCEPT !.ended = @ \cup {s}, !.file[s].holders = @ \ {s}]
    /\ UNCHANGED mem

sender(s) ==
    OpenFile(s) \/ Connect(s) \/ ConnectFails(s) \/ SendMsg(s) \/ SendMsgFails(s) \/ CloseFile(s)

-----------------------------------------------------------------------------
(* The receivers *)
Remove ==
    /\ Move("recv", "start", "bind")
    /\ os' = [os EXCEPT !.path = "none"]
    /\ UNCHANGED mem

(* unixBind() *)
Bind ==
    /\ at.recv = "bind"
    /\ at' = [at EXCEPT !.recv = IF ~mem.dgram["recv"] THEN "listen" ELSE
                                 IF Rights THEN "recvmsg" ELSE "setsockopt"]
    /\ os' = [os EXCEPT !.path = "bound"]
    /\ UNCHANGED mem

(* scm_rights_recv.c:77 tests sfd, which has no value yet, instead of lfd: *)
(* it may end although the socket was bound.                               *)
BindMisread ==
    /\ Rights /\ ~mem.dgram["recv"]
    /\ Move("recv", "bind", "failed")
    /\ os' = [os EXCEPT !.path = "stale"]
    /\ UNCHANGED mem

Listen == Move("recv", "listen", "accept") /\ UNCHANGED <<mem, os>>

Accept ==
    /\ os.queue # <<>>
    /\ Move("recv", "accept", IF Rights THEN "recvmsg" ELSE "setsockopt")
    /\ os' = [os EXCEPT !.conn = {Head(os.queue)}, !.queue = Tail(@)]
    /\ UNCHANGED mem

(* Mutant: SO_PASSCRED is never set. *)
SetsockoptForgotten == Move("recv", "setsockopt", "recvmsg") /\ UNCHANGED <<mem, os>>

Setsockopt ==
    /\ Move("recv", "setsockopt", "recvmsg")
    /\ os' = [os EXCEPT !.passcred = TRUE]
    /\ UNCHANGED mem

(* recvmsg() and the checks of the header.  Without SO_PASSCRED the kernel *)
(* passes no credentials on.                                               *)
RecvMsg(s) ==
    /\ os.msg[s] # "none"
    /\ IF mem.dgram["recv"] THEN os.queue # <<>> /\ Head(os.queue) = s ELSE s \in os.conn
    /\ IF Rights \/ os.passcred
         THEN /\ Move("recv", "recvmsg", IF Rights THEN "read" ELSE "done")
              /\ mem' = [mem EXCEPT !.got = {<<s, os.msg[s]>>}]
         ELSE Move("recv", "recvmsg", "failed") /\ UNCHANGED mem
    /\ os' = [os EXCEPT !.queue = IF mem.dgram["recv"] THEN Tail(@) ELSE @,
                        !.file[s].holders = IF Rights THEN (@ \ {"flight"}) \cup {"recv"} ELSE @]

(* The end of the stream brings no header, or one with no credentials in   *)
(* it; nr is not looked at.                                                *)
RecvEof ==
    \E s \in os.conn \cap os.ended :
        /\ os.msg[s] = "none"
        /\ \/ Fail("recv", "recvmsg")
           \/ /\ ~Rights /\ Move("recv", "recvmsg", "done")
              /\ mem' = [mem EXCEPT !.got = {<<s, "nobody">>}]
              /\ UNCHANGED os

ReadFile ==
    \E g \in mem.got : LET f == os.file[g[1]] IN
        /\ f.offset < mem.len
        /\ at.recv = "read"
        /\ mem' = [mem EXCEPT !.out = Append(@, f.offset + 1)]
        /\ os' = [os EXCEPT !.file[g[1]].offset = @ + 1]
        /\ UNCHANGED at

ReadEof ==
    /\ \E g \in mem.got : os.file[g[1]].offset >= mem.len
    /\ Move("recv", "read", "done")
    /\ UNCHANGED <<mem, os>>

receiver ==
    \/ Remove \/ Bind \/ BindMisread \/ Listen \/ Accept \/ Setsockopt \/ ReadFile
    \/ ReadEof \/ RecvEof
    \/ \E s \in Senders : RecvMsg(s)

Next == mem.prog \in Progs /\ (receiver \/ \E s \in Senders : sender(s))

-----------------------------------------------------------------------------
Silent(s) == s \in os.ended /\ os.msg[s] = "none"

(* The file a receiver reads stays open under it, whether its sender has   *)
(* closed it before or after the message arrived, and is read from where   *)
(* the sender left the offset to its end.  Credentials are those of their  *)
(* sender, or others if it may claim them; only a sender that gives none,  *)
(* or ends without a message, may arrive as nobody: one that gives its own *)
(* never does, even before SO_PASSCRED is set.  scm_cred_recv fails only   *)
(* where no message comes.                                                 *)
AncillaryTrue ==
    mem.prog \in Progs =>
        /\ \A g \in mem.got :
            /\ Rights => /\ "recv" \in os.file[g[1]].holders
                         /\ mem.out = [k \in 1 .. Len(mem.out) |-> Skip + k]
                         /\ at.recv = "done" /\ mem.len > Skip => Len(mem.out) = mem.len - Skip
            /\ ~Rights => \/ g[2] = "own"
                          \/ g[2] = "other" /\ mem.creds[g[1]] = "other" /\ mem.priv
                          \/ g[2] = "nobody" /\ (mem.creds[g[1]] = "none" \/ Silent(g[1]))
        /\ ~Rights /\ at.recv = "failed" => \E s \in os.conn : Silent(s)
=============================================================================
