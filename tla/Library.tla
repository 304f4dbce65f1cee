------------------------------ MODULE Library -------------------------------
(***************************************************************************)
(* Functions of lib/ that other programs call: making sockets, reading and *)
(* writing streams, converting arguments to numbers.  One call is made in  *)
(* a behaviour.                                                            *)
(***************************************************************************)
EXTENDS Machine, Integers, Sequences, SequencesExt, FiniteSets

CONSTANTS MaxAddrs,     \* bound on the addresses getaddrinfo() returns
          MaxStream,    \* bound on the bytes of the stream
          MaxN,         \* bound on the argument n
          MaxEintr,     \* bound on the interruptions of one call
          LongMax,      \* LONG_MAX, scaled down
          IntLimit,     \* INT_MAX, scaled down, less than LongMax
          MaxDigits,    \* bound on the digits of an argument
          MaxField      \* bound on the fields of a timer argument

-----------------------------------------------------------------------------
(***************************************************************************)
(* lib/inet_sockets.c and the same loops in is_seqnum_sv.c and             *)
(* is_seqnum_cl.c: walk through the addresses of getaddrinfo() to the      *)
(* first that a socket can be connected or bound to.                       *)
(***************************************************************************)
InetProgs == {"inetConnect", "inetListen", "inetBind", "is_seqnum_sv", "is_seqnum_cl"}
Connects == {"inetConnect", "is_seqnum_cl"}
Listens == {"inetListen", "is_seqnum_sv"}

(* rp: the address being tried, result the number of them; ret: the        *)
(* descriptor returned (named for its address).  fds: open descriptors;    *)
(* failed: addresses that were tried in vain; listening: was listen()      *)
(* what failed.                                                            *)
InetInit ==
    \E prog \in InetProgs :
        /\ at = [main |-> "getaddrinfo"]
        /\ mem = [prog |-> prog, result |-> 0, rp |-> 1, ret |-> 0]
        /\ os = [fds |-> {}, failed |-> {}, listening |-> FALSE]

InetReturn(r) ==
    /\ at' = [at EXCEPT !.main = "return"]
    /\ mem' = [mem EXCEPT !.ret = r]

GetAddrInfo ==
    /\ at.main = "getaddrinfo"
    /\ \/ InetReturn(-1)
       \/ /\ Move("main", "getaddrinfo", "socket")
          /\ \E n \in 1 .. MaxAddrs : mem' = [mem EXCEPT !.result = n]
    /\ UNCHANGED os

(* The next address, with the socket of this one closed. *)
TryNext ==
    /\ at' = [at EXCEPT !.main = "socket"]
    /\ mem' = [mem EXCEPT !.rp = @ + 1]
    /\ os' = [os EXCEPT !.fds = @ \ {mem.rp}, !.failed = @ \cup {mem.rp}]

SocketFails == at.main = "socket" /\ mem.rp <= mem.result /\ TryNext

Socket ==
    /\ at.main = "socket" /\ mem.rp <= mem.result
    /\ at' = [at EXCEPT !.main = IF mem.prog \in Listens THEN "setsockopt" ELSE "use"]
    /\ os' = [os EXCEPT !.fds = @ \cup {mem.rp}]
    /\ UNCHANGED mem

(* The library closes the socket; is_seqnum_sv's errExit() closes all. *)
SetsockoptFails ==
    /\ at.main = "setsockopt"
    /\ os' = [os EXCEPT !.fds = @ \ {mem.rp}]
    /\ InetReturn(-1)

Setsockopt == Move("main", "setsockopt", "use") /\ UNCHANGED <<mem, os>>

(* connect() or bind(). *)
UseFails == at.main = "use" /\ TryNext

Use ==
    /\ Move("main", "use", IF mem.prog \in Listens THEN "listen" ELSE "done")
    /\ UNCHANGED <<mem, os>>

(* The library returns without a close(); is_seqnum_sv exits. *)
ListenFails ==
    /\ at.main = "listen"
    /\ os' = [os EXCEPT !.listening = TRUE, !.fds = IF Runs("is_seqnum_sv") THEN {} ELSE @]
    /\ InetReturn(-1)

Listen == Move("main", "listen", "done") /\ UNCHANGED <<mem, os>>

NoAddress == at.main = "socket" /\ mem.rp > mem.result /\ InetReturn(-1) /\ UNCHANGED os

Done == at.main = "done" /\ InetReturn(mem.rp) /\ UNCHANGED os

inetConnect ==
    \/ GetAddrInfo \/ SocketFails \/ Socket \/ UseFails \/ Use \/ NoAddress \/ Done

inetPassiveSocket ==
    inetConnect \/ SetsockoptFails \/ Setsockopt \/ ListenFails \/ Listen

InetReturned == mem.prog \in InetProgs /\ at.main = "return" /\ UNCHANGED machine

InetNext ==
    \/ mem.prog \in Connects /\ inetConnect
    \/ mem.prog \in InetProgs \ Connects /\ inetPassiveSocket
    \/ InetReturned

-----------------------------------------------------------------------------
(* On every path the call leaves exactly the descriptor it returns, that   *)
(* of the first address that worked, and none if it fails.  (Only a        *)
(* failing listen() in inetPassiveSocket() leaves its socket open.)        *)
OneSocket ==
    mem.prog \in InetProgs /\ at.main = "return" =>
        /\ mem.ret > 0 => os.fds = {mem.ret} /\ os.failed = 1 .. mem.ret - 1
        /\ mem.ret = -1 => os.fds = {} \/ (os.listening /\ Runs("inetListen"))

-----------------------------------------------------------------------------
(***************************************************************************)
(* Reading and writing byte streams in pieces: readLine() of               *)
(* lib/read_line.c, readn() and writen() of lib/rdwrn.c, against a kernel  *)
(* that transfers part of what is asked for, interrupts or fails.          *)
(***************************************************************************)
StreamProgs == {"readLine", "readn", "writen"}
Bytes == {"x", "nl"}

(* n: the argument; buf: what is in the caller's buffer (for writen(),     *)
(* what is still to be written); ret: the value returned.  in: what is to  *)
(* be read, then EOF; out: what was written; all: the whole stream.        *)
StreamInit ==
    \E prog \in StreamProgs, n \in 0 .. MaxN, all \in BoundedSeq(Bytes, MaxStream) :
        /\ prog = "writen" => n = Len(all)
        /\ at = [main |-> "call"]
        /\ mem = [prog |-> prog, n |-> n, ret |-> 0,
                  buf |-> IF prog = "writen" THEN all ELSE <<>>]
        /\ os = [in |-> all, all |-> all, out |-> <<>>, eintrs |-> 0]

StreamReturn(r) ==
    /\ at' = [at EXCEPT !.main = "return"]
    /\ mem' = [mem EXCEPT !.ret = r]

(* read() or write() fails: with EINTR it is called again. *)
Eintr ==
    /\ at.main = "loop" /\ os.eintrs < MaxEintr
    /\ os' = [os EXCEPT !.eintrs = @ + 1]
    /\ UNCHANGED <<at, mem>>

Error == at.main = "loop" /\ StreamReturn(-1) /\ UNCHANGED os

-----------------------------------------------------------------------------
(* readLine() *)
CheckArgs ==
    /\ at.main = "call"
    /\ IF mem.n <= 0 THEN StreamReturn(-1) ELSE Move("main", "call", "loop") /\ UNCHANGED mem
    /\ UNCHANGED os

Kept == IF Len(mem.buf) < mem.n - 1 THEN Append(mem.buf, Head(os.in)) ELSE mem.buf

(* Mutant: the loop ends when the buffer is full. *)
ReadByteShort ==
    /\ at.main = "loop" /\ os.in # <<>>
    /\ os' = [os EXCEPT !.in = Tail(@)]
    /\ LET ends == Head(os.in) = "nl" \/ Len(Kept) = mem.n - 1 IN
       /\ mem' = [mem EXCEPT !.buf = Kept, !.ret = IF ends THEN Len(Kept) ELSE 0]
       /\ at' = [at EXCEPT !.main = IF ends THEN "return" ELSE "loop"]

(* One byte: bytes past the first n - 1 are discarded, a newline ends it. *)
ReadByte ==
    /\ at.main = "loop" /\ os.in # <<>>
    /\ os' = [os EXCEPT !.in = Tail(@)]
    /\ LET ends == Head(os.in) = "nl" IN
       /\ mem' = [mem EXCEPT !.buf = Kept, !.ret = IF ends THEN Len(Kept) ELSE 0]
       /\ at' = [at EXCEPT !.main = IF ends THEN "return" ELSE "loop"]

(* EOF: what was read so far, perhaps nothing. *)
Eof == at.main = "loop" /\ os.in = <<>> /\ StreamReturn(Len(mem.buf)) /\ UNCHANGED os

readLine == CheckArgs \/ ReadByte \/ Eof

-----------------------------------------------------------------------------
(* readn() and writen(): a call transfers some of the bytes. *)
Start == Move("main", "call", "loop") /\ UNCHANGED <<mem, os>>

ReadSome ==
    /\ at.main = "loop" /\ Len(mem.buf) < mem.n /\ os.in # <<>>
    /\ \E k \in 1 .. Len(os.in) :
          /\ k <= mem.n - Len(mem.buf)
          /\ mem' = [mem EXCEPT !.buf = @ \o SubSeq(os.in, 1, k)]
          /\ os' = [os EXCEPT !.in = SubSeq(@, k + 1, Len(@))]
    /\ UNCHANGED at

ReadAll == at.main = "loop" /\ Len(mem.buf) = mem.n /\ StreamReturn(mem.n) /\ UNCHANGED os

ReadEof == Len(mem.buf) < mem.n /\ Eof

readn == Start \/ ReadSome \/ ReadAll \/ ReadEof

WriteSome ==
    /\ at.main = "loop"
    /\ \E k \in 1 .. Len(mem.buf) :
          /\ os' = [os EXCEPT !.out = @ \o SubSeq(mem.buf, 1, k)]
          /\ mem' = [mem EXCEPT !.buf = SubSeq(@, k + 1, Len(@))]
    /\ UNCHANGED at

WriteAll == at.main = "loop" /\ mem.buf = <<>> /\ StreamReturn(mem.n) /\ UNCHANGED os

writen == Start \/ WriteSome \/ WriteAll

-----------------------------------------------------------------------------
(* A call whose bytes have all been transferred makes no more calls. *)
Calls == IF Runs("readLine") THEN TRUE ELSE IF Runs("readn") THEN Len(mem.buf) < mem.n
                                                             ELSE mem.buf # <<>>

StreamReturned == mem.prog \in StreamProgs /\ at.main = "return" /\ UNCHANGED machine

StreamNext ==
    \/ Runs("readLine") /\ readLine
    \/ Runs("readn") /\ readn
    \/ Runs("writen") /\ writen
    \/ mem.prog \in StreamProgs /\ Calls /\ (Eintr \/ Error)
    \/ StreamReturned

-----------------------------------------------------------------------------
(* The first line of the stream, with its newline if it has one. *)
Line ==
    LET nls == {k \in 1 .. Len(os.all) : os.all[k] = "nl"} IN
    IF nls = {} THEN os.all ELSE SubSeq(os.all, 1, CHOOSE k \in nls : \A l \in nls : k <= l)

Bounded(k, s) == IF Len(s) < k THEN Len(s) ELSE k

(* However the kernel cuts the transfers: readLine() leaves the first      *)
(* n - 1 bytes of the line in the buffer, takes exactly the line from the  *)
(* stream, and never fills the byte of the terminating null; readn()       *)
(* returns less than n only at EOF; writen() returns n exactly if all is   *)
(* written.  After an error what was transferred is a prefix.              *)
TransfersExact ==
    /\ Runs("readLine") =>
          /\ mem.n > 0 => Len(mem.buf) <= mem.n - 1
          /\ at.main = "return" /\ mem.ret >= 0 =>
                /\ mem.buf = SubSeq(Line, 1, Bounded(mem.n - 1, Line))
                /\ mem.ret = Len(mem.buf)
                /\ Line \o os.in = os.all
    /\ Runs("readn") =>
          /\ mem.buf \o os.in = os.all
          /\ at.main = "return" /\ mem.ret >= 0 =>
                mem.ret = Len(mem.buf) /\ Len(mem.buf) = Bounded(mem.n, os.all)
    /\ Runs("writen") =>
          /\ os.out \o mem.buf = os.all
          /\ at.main = "return" /\ mem.ret >= 0 => mem.ret = mem.n /\ os.out = os.all

-----------------------------------------------------------------------------
(***************************************************************************)
(* Command-line arguments turned into numbers: getNum(), getLong() and     *)
(* getInt() of lib/get_num.c, and itimerspecFromStr() of                   *)
(* lib/itimerspec_from_str.c.                                              *)
(***************************************************************************)
Flags == {"GN_NONNEG", "GN_GT_0", "GN_ANY_BASE", "GN_BASE_8", "GN_BASE_16"}

(* An argument: a sign, a prefix, digits (a digit is its value; 15 stands  *)
(* for f) and perhaps something that is no digit in any base.              *)
Args == [neg : BOOLEAN, prefix : {"", "0", "0x"},
         digits : BoundedSeq({1, 7, 8, 15}, MaxDigits), junk : BOOLEAN]

Empty(arg) == ~arg.neg /\ arg.prefix = "" /\ arg.digits = <<>> /\ ~arg.junk

-----------------------------------------------------------------------------
(* strtol(): the longest numeral at the start of the text.  rest: the text *)
(* has more than that; erange: the value is outside long.                  *)
Value(ds, b) == FoldLeft(LAMBDA v, d : v * b + d, 0, ds)

strtol(arg, base) ==
    LET b == IF base # 0 THEN base
             ELSE IF arg.prefix = "0x" THEN 16 ELSE IF arg.prefix = "0" THEN 8 ELSE 10
        taken == CHOOSE k \in 0 .. Len(arg.digits) :
                    /\ \A i \in 1 .. k : arg.digits[i] < b
                    /\ k < Len(arg.digits) => arg.digits[k + 1] >= b
        hex == arg.prefix = "0x" /\ b = 16 /\ taken > 0
        used == IF arg.prefix = "0x" /\ ~hex THEN <<>> ELSE SubSeq(arg.digits, 1, taken)
        v == IF arg.neg THEN -Value(used, b) ELSE Value(used, b)
    IN  [v |-> v,
         rest |-> \/ arg.junk \/ Len(used) < Len(arg.digits) \/ (arg.prefix = "0x" /\ ~hex)
                  \/ (arg.prefix = "" /\ used = <<>>),
         erange |-> v > LongMax \/ v < -LongMax - 1]

-----------------------------------------------------------------------------
Base(flags) ==
    IF "GN_ANY_BASE" \in flags THEN 0 ELSE IF "GN_BASE_8" \in flags THEN 8
    ELSE IF "GN_BASE_16" \in flags THEN 16 ELSE 10

gnFail == [ok |-> FALSE, v |-> 0]

getNum(arg, flags) ==
    LET res == strtol(arg, Base(flags))
        Fails == \/ Empty(arg) \/ res.erange \/ res.rest
                 \/ "GN_NONNEG" \in flags /\ res.v < 0
                 \/ "GN_GT_0" \in flags /\ res.v <= 0
    IN  IF Fails THEN gnFail ELSE [ok |-> TRUE, v |-> res.v]

getLong(arg, flags) == getNum(arg, flags)

(* Mutant: the long is converted without a look at its range. *)
getIntWide(arg, flags) == getNum(arg, flags)

getInt(arg, flags) ==
    LET res == getNum(arg, flags)
    IN  IF res.v > IntLimit \/ res.v < -IntLimit - 1 THEN gnFail ELSE res

-----------------------------------------------------------------------------
(* itimerspecFromStr(): str is a sequence of numbers and separators.       *)
Cut(str, sep) == LET at1 == {i \in 1 .. Len(str) : str[i] = sep}
                 IN  IF at1 = {} THEN Len(str) + 1
                     ELSE CHOOSE i \in at1 : \A j \in at1 : i <= j

(* atoi(): the number at the start, or 0. *)
atoi(str) == IF str # <<>> /\ str[1] >= 0 THEN str[1] ELSE 0

(* The characters ':' and '/' of an argument. *)
Colon == -1
Slash == -2

Before(str, sep) == SubSeq(str, 1, Cut(str, sep) - 1)
After(str, sep) == SubSeq(str, Cut(str, sep) + 1, Len(str))

timespec(str) == <<atoi(Before(str, Slash)), atoi(After(str, Slash))>>

itimerspecFromStr(str) ==
    [value |-> timespec(Before(str, Colon)), interval |-> timespec(After(str, Colon))]

-----------------------------------------------------------------------------
(* One call per behaviour. *)
NumProgs == {"getLong", "getInt", "itimerspecFromStr"}

(* The four fields of a timer argument, those after a separator optional. *)
Optional == {<<>>} \cup {<<n>> : n \in 0 .. MaxField}
Join(n, sep, field) == IF field = <<>> THEN n ELSE n \o <<sep>> \o field

NumInit ==
    /\ at = [main |-> "call"] /\ os = [x \in {} |-> {}]
    /\ \/ \E prog \in {"getLong", "getInt"}, arg \in Args, flags \in SUBSET Flags :
             mem = [prog |-> prog, arg |-> arg, flags |-> flags, res |-> gnFail]
       \/ \E sec \in 0 .. MaxField, nsec, nsec2 \in Optional, sec2 \in Optional :
             /\ sec2 = <<>> => nsec2 = <<>>
             /\ mem = [prog |-> "itimerspecFromStr", fields |-> <<<<sec>>, nsec, sec2, nsec2>>,
                       str |-> Join(Join(<<sec>>, Slash, nsec), Colon, Join(sec2, Slash, nsec2)),
                       res |-> [value |-> <<0, 0>>, interval |-> <<0, 0>>]]

NumCall ==
    /\ mem.prog \in NumProgs /\ Move("main", "call", "return")
    /\ mem' = [mem EXCEPT !.res =
                 IF mem.prog = "getLong" THEN getLong(mem.arg, mem.flags)
                 ELSE IF mem.prog = "getInt" THEN getInt(mem.arg, mem.flags)
                 ELSE itimerspecFromStr(mem.str)]
    /\ UNCHANGED os

NumNext == NumCall \/ (mem.prog \in NumProgs /\ at.main = "return" /\ UNCHANGED machine)

-----------------------------------------------------------------------------
(* The whole of arg is a numeral of value v in base b (0: as its prefix    *)
(* says).                                                                  *)
Numeral(arg, base, v) ==
    \E b \in {8, 10, 16} :
        /\ base = 0 => b = CASE arg.prefix = "0x" -> 16 [] arg.prefix = "0" -> 8 [] arg.prefix = "" -> 10
        /\ base # 0 => b = base
        /\ arg.prefix = "0x" => b = 16 /\ arg.digits # <<>>
        /\ arg.prefix = "" => arg.digits # <<>>
        /\ ~arg.junk /\ \A i \in DOMAIN arg.digits : arg.digits[i] < b
        /\ v = (IF arg.neg THEN -1 ELSE 1) *
               FoldLeft(+, 0, [i \in DOMAIN arg.digits |-> arg.digits[i] * b ^ (Len(arg.digits) - i)])

Fits(prog, v) == LET m == IF prog = "getInt" THEN IntLimit ELSE LongMax IN v \in (-m - 1) .. m

Allowed(flags, v) == ("GN_NONNEG" \in flags => v >= 0) /\ ("GN_GT_0" \in flags => v > 0)

(* A number is returned exactly for an argument that is a numeral of the   *)
(* base the flags choose, in the range of the type, and allowed by the     *)
(* flags; and it is that numeral's value.  A timer argument is taken apart *)
(* into its fields, 0 for those left out.                                  *)
NumbersTrue ==
    /\ mem.prog \in {"getLong", "getInt"} /\ at.main = "return" =>
          \A v \in (-LongMax - 1) .. LongMax :
              (mem.res.ok /\ mem.res.v = v) <=>
                  /\ Numeral(mem.arg, Base(mem.flags), v)
                  /\ Fits(mem.prog, v) /\ Allowed(mem.flags, v)
    /\ Runs("itimerspecFromStr") /\ at.main = "return" =>
          LET Field(i) == IF mem.fields[i] = <<>> THEN 0 ELSE mem.fields[i][1]
          IN  mem.res = [value |-> <<Field(1), Field(2)>>, interval |-> <<Field(3), Field(4)>>]

-----------------------------------------------------------------------------
(* One of the programs runs. *)
Init == InetInit \/ StreamInit \/ NumInit

Next == InetNext \/ StreamNext \/ NumNext
=============================================================================
