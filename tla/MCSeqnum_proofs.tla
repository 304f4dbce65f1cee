--------------------------- MODULE MCSeqnum_proofs ---------------------------
(***************************************************************************)
(* The two sequence-number services for every number of clients, every     *)
(* length of a request and every width of the number: each implements the  *)
(* abstract service of SeqnumService, and no number is handed out twice.   *)
(***************************************************************************)
EXTENDS MCSeqnum, SequenceTheorems, TLAPS

-----------------------------------------------------------------------------
(* The service over FIFOs *)

Labels == {"mkfifo", "openServer", "send", "openOwn", "read", "done", "failed", "killed"}
Requests == serverFifo.requests

FifoType ==
    /\ sv \in {"mkfifo", "open", "read", "openClient", "write", "close", "failed", "exited"}
    /\ "requests" \in DOMAIN serverFifo /\ Requests \in Seq(Clients)
    /\ req \in Clients \cup {"none"}
    /\ seqNum \in 0 .. Ints - 1 /\ reserved \in Nat
    /\ seqLen \in [Clients -> 1 .. MaxLen]
    /\ cpc \in [Clients -> Labels]
    /\ clientFd \in [Clients -> {"none", "open", "closed"}]
    /\ resp \in [Clients -> SUBSET (0 .. Ints - 1)]
    /\ got \in [Clients -> SUBSET (0 .. Ints - 1)]

(* The server is between a request and its close(). *)
Serving == {"openClient", "write", "close"}
Early == {"mkfifo", "openServer", "send"}

(* Every client is served at most once: its request is in the FIFO once,   *)
(* or is being served, or has been.                                        *)
OnceInv ==
    /\ sv \in Serving => req \in Clients
    /\ sv = "openClient" => clientFd[req] = "none"
    /\ sv \in {"write", "close"} => clientFd[req] = "open"
    /\ \A c \in Clients : cpc[c] \in Early => clientFd[c] = "none" /\ ~(sv \in Serving /\ req = c)

RequestInv ==
    \A i \in 1 .. Len(Requests) :
        /\ cpc[Requests[i]] \notin Early
        /\ clientFd[Requests[i]] = "none"
        /\ ~(sv \in Serving /\ req = Requests[i])
        /\ \A j \in 1 .. Len(Requests) : i # j => Requests[i] # Requests[j]

(* A response is written once, and read as it was written. *)
RespInv ==
    \A c \in Clients :
        /\ resp[c] # {} => clientFd[c] = "closed" \/ (sv = "close" /\ req = c)
        /\ got[c] \in {{}, resp[c]}

(* seqNum is the number of the numbers answered for, wrapped; after the    *)
(* response it still lacks the last request.                               *)
SeqNumInv ==
    IF sv = "close" THEN (seqNum + seqLen[req]) % Ints = reserved % Ints
                    ELSE seqNum = reserved % Ints

(* Every range handed out has its place among the numbers, unwrapped. *)
Ranges(first) ==
    /\ \A c \in Clients : resp[c] # {} =>
          resp[c] = {first[c] % Ints} /\ first[c] + seqLen[c] <= reserved
    /\ \A c, d \in Clients : c # d /\ resp[c] # {} /\ resp[d] # {} =>
          first[c] + seqLen[c] <= first[d] \/ first[d] + seqLen[d] <= first[c]

RangesInv == \E first \in [Clients -> 0 .. reserved] : Ranges(first)

FifoInv == FifoType /\ OnceInv /\ RequestInv /\ RespInv /\ SeqNumInv /\ RangesInv

-----------------------------------------------------------------------------
(* Arithmetic modulo the number of values of an int *)

(* The remainder is the only one between 0 and m. *)
LEMMA ModUnique ==
    ASSUME NEW m \in Nat \ {0}, NEW a \in Int, NEW q \in Int, NEW r \in 0 .. m - 1,
           a = q * m + r
    PROVE  a % m = r
  OBVIOUS

(* What \div and % leave of a number. *)
LEMMA ModParts ==
    ASSUME NEW m \in Nat \ {0}, NEW a \in Int
    PROVE  a \div m \in Int /\ a % m \in 0 .. m - 1 /\ a = (a \div m) * m + (a % m)
  OBVIOUS

(* Adding to a wrapped number is adding to the number itself: what         *)
(* seqNum += seqLen relies on across the wrap.                             *)
LEMMA ModAdd ==
    ASSUME NEW m \in Nat \ {0}, NEW a \in Int, NEW b \in Int
    PROVE  ((a % m) + b) % m = (a + b) % m
  <1> DEFINE q == a \div m
             r == a % m
             p == (r + b) \div m
             t == (r + b) % m
             sum == a + b
             quot == q + p
  <1>1. q \in Int /\ r \in 0 .. m - 1 /\ a = q * m + r
    BY ModParts
  <1>2. p \in Int /\ t \in 0 .. m - 1 /\ r + b = p * m + t
    BY <1>1, ModParts
  <1> HIDE DEF q, r, p, t
  <1>3. sum \in Int /\ quot \in Int /\ sum = quot * m + t
    BY <1>1, <1>2
  <1> HIDE DEF sum, quot
  <1>4. sum % m = t
    BY <1>2, <1>3, ModUnique
  <1> QED BY <1>4 DEF r, t, sum

(* Two numbers less than m apart wrap to different values. *)
LEMMA ModDistinct ==
    ASSUME NEW m \in Nat \ {0}, NEW a \in Int, NEW b \in Int, a < b, b < a + m
    PROVE  a % m # b % m
  <1> DEFINE q == a \div m
             p == b \div m
  <1> SUFFICES ASSUME a % m = b % m PROVE FALSE
    OBVIOUS
  <1>1. q \in Int /\ a % m \in 0 .. m - 1 /\ a = q * m + (a % m)
    BY ModParts
  <1>2. p \in Int /\ b = p * m + (a % m)
    BY ModParts
  <1> HIDE DEF q, p
  <1>3. b - a = (p - q) * m
    BY <1>1, <1>2
  <1>4. CASE p <= q
    <2>1. (p - q) * m <= 0
      BY <1>1, <1>2, <1>4
    <2> QED BY <1>3, <2>1
  <1>5. CASE p >= q + 1
    <2>1. (p - q) * m >= m
      BY <1>1, <1>2, <1>5
    <2> QED BY <1>3, <2>1
  <1> QED BY <1>1, <1>2, <1>4, <1>5

(* Ranges that are apart before the wrap, among at most m numbers, share   *)
(* no number after it.                                                     *)
LEMMA RangesApart ==
    ASSUME NEW m \in Nat \ {0}, NEW base \in Nat, NEW f \in Nat, NEW g \in Nat,
           NEW k \in Nat, NEW l \in Nat, NEW kl \in Nat, NEW ll \in Nat, NEW n \in Nat,
           n <= m, k < kl, l < ll, f + kl <= n, g + ll <= n,
           f + kl <= g \/ g + ll <= f
    PROVE  (((base + f) % m) + k) % m # (((base + g) % m) + l) % m
  <1> DEFINE a == base + f + k
             b == base + g + l
  <1>1. a \in Int /\ b \in Int /\ ((a < b /\ b < a + m) \/ (b < a /\ a < b + m))
    OBVIOUS
  <1> HIDE DEF a, b
  <1>2. a % m # b % m
    BY <1>1, ModDistinct
  <1>3. (((base + f) % m) + k) % m = (base + f + k) % m
    BY ModAdd, base + f \in Int, k \in Int, Zenon
  <1>4. (((base + g) % m) + l) % m = (base + g + l) % m
    BY ModAdd, base + g \in Int, l \in Int, Zenon
  <1> QED BY <1>2, <1>3, <1>4 DEF a, b

-----------------------------------------------------------------------------
(* The service over FIFOs: its invariant *)

(* The FIFO service starts in its invariant. *)
LEMMA FifoInit == Init => FifoInv
  <1> SUFFICES ASSUME Init PROVE FifoInv
    OBVIOUS
  <1> USE ConstantsAssumption DEF Init
  <1>1. Requests = <<>>
    BY DEF Requests
  <1>2. FifoType
    BY <1>1 DEF FifoType, Labels
  <1>a. OnceInv /\ RequestInv /\ RespInv
    BY <1>1 DEF OnceInv, RequestInv, RespInv, Serving
  <1>3. SeqNumInv
    BY DEF SeqNumInv
  <1>4. RangesInv
    <2>1. [c \in Clients |-> 0] \in [Clients -> 0 .. reserved]
      OBVIOUS
    <2>2. Ranges([c \in Clients |-> 0])
      BY DEF Ranges
    <2> QED BY <2>1, <2>2 DEF RangesInv
  <1> QED BY <1>2, <1>3, <1>4, <1>a DEF FifoInv

(* A step that leaves responses, requests' lengths and the count alone     *)
(* leaves the ranges where they are.                                       *)
LEMMA RangesKept ==
    RangesInv /\ UNCHANGED <<resp, seqLen, reserved>> => RangesInv'
  BY DEF RangesInv, Ranges

(* A client's step. *)
LEMMA FifoClientStep ==
    ASSUME FifoInv, NEW c \in Clients, Client(c) \/ Fail(c) \/ Killed(c)
    PROVE  FifoInv'
  <1> USE ConstantsAssumption DEF FifoInv, svVars
  <1>1. RangesInv' /\ SeqNumInv'
    <2>1. UNCHANGED <<resp, seqLen, reserved, sv, req, seqNum>>
      BY DEF Client, Mkfifo, OpenServer, Send, OpenOwn, Receive, Fail, Killed
    <2>2. SeqNumInv'
      BY <2>1 DEF SeqNumInv
    <2> QED BY <2>1, <2>2, RangesKept
  <1>0. \/ UNCHANGED got
        \/ got' = [got EXCEPT ![c] = resp[c]] /\ resp' = resp
    BY DEF Client, Mkfifo, OpenServer, Send, OpenOwn, Receive, Fail, Killed
  <1>2. FifoType'
    <2>1. "requests" \in DOMAIN serverFifo' /\ Requests' \in Seq(Clients)
      <3>1. CASE UNCHANGED serverFifo
        BY <3>1 DEF FifoType, Requests
      <3>2. CASE OpenServer(c)
        <4>1. DOMAIN serverFifo' = DOMAIN serverFifo
          BY <3>2, Zenon DEF OpenServer
        <4>2. serverFifo'.requests = serverFifo.requests
          BY <3>2, Zenon DEF FifoType, OpenServer
        <4> QED BY <4>1, <4>2 DEF FifoType, Requests
      <3>3. CASE Send(c)
        <4>1. Requests \in Seq(Clients) /\ Append(Requests, c) \in Seq(Clients)
          BY DEF FifoType
        <4>2. DOMAIN serverFifo' = DOMAIN serverFifo
          BY <3>3, Zenon DEF Send
        <4>3. Requests' = Requests \/ Requests' = Append(Requests, c)
          BY <3>3, Zenon DEF FifoType, Send, Requests
        <4> QED BY <4>1, <4>2, <4>3 DEF FifoType
      <3> QED BY <3>1, <3>2, <3>3 DEF Client, Mkfifo, OpenOwn, Receive, Fail, Killed
    <2>2. cpc' \in [Clients -> Labels]
      BY DEF FifoType, Labels, Client, Mkfifo, OpenServer, Send, OpenOwn, Receive, Fail, Killed
    <2>3. got' \in [Clients -> SUBSET (0 .. Ints - 1)]
      BY <1>0 DEF FifoType
    <2>4. UNCHANGED <<sv, req, seqNum, reserved, seqLen, clientFd, resp>>
      BY DEF Client, Mkfifo, OpenServer, Send, OpenOwn, Receive, Fail, Killed
    <2> QED BY <2>1, <2>2, <2>3, <2>4 DEF FifoType
  <1>3. cpc' = [cpc EXCEPT ![c] = cpc'[c]] /\ (cpc'[c] \in Early => cpc[c] \in Early)
    BY DEF FifoType, Labels, Early, Client, Mkfifo, OpenServer, Send, OpenOwn, Receive, Fail, Killed
  <1>4. UNCHANGED <<sv, req, clientFd, resp>>
    BY DEF Client, Mkfifo, OpenServer, Send, OpenOwn, Receive, Fail, Killed
  <1>5. OnceInv'
    BY <1>2, <1>3, <1>4 DEF FifoType, OnceInv, Serving
  <1>6. RespInv'
    BY <1>0, <1>4 DEF FifoType, RespInv
  <1>7. RequestInv'
    <2> USE DEF FifoType
    <2>1. CASE Requests' = Requests
      BY <1>3, <1>4, <2>1 DEF RequestInv, Serving, Early
    <2>2. CASE /\ Requests' = Append(Requests, c)
               /\ cpc[c] = "send" /\ cpc'[c] = "openOwn"
      <3>1. clientFd[c] = "none" /\ ~(sv \in Serving /\ req = c)
        BY <2>2 DEF OnceInv, Early
      <3>2. \A i \in 1 .. Len(Requests) : Requests[i] # c
        BY <2>2 DEF RequestInv, Early
      <3>3. cpc'[c] \notin Early
        BY <2>2 DEF Early
      <3> QED BY <1>3, <1>4, <2>2, <3>1, <3>2, <3>3 DEF RequestInv
    <2>3. CASE OpenServer(c)
      <3>1. Requests' = Requests
        BY <2>3, Zenon DEF OpenServer, Requests
      <3> QED BY <2>1, <3>1
    <2> QED BY <2>1, <2>2, <2>3 DEF Client, Mkfifo, Send, OpenOwn, Receive, Fail, Killed, Requests
  <1> QED BY <1>1, <1>2, <1>5, <1>6, <1>7

(* A step of the server. *)
LEMMA FifoServerStep ==
    ASSUME FifoInv, Server \/ StartFails
    PROVE  FifoInv'
  <1> USE ConstantsAssumption DEF FifoInv
  <1>1. CASE MkServerFifo \/ OpenServerFifo \/ OpenClientFails \/ StartFails
    <2>1. /\ UNCHANGED <<req, seqNum, reserved, serverFifo, seqLen, cpc, clientFd, resp, got>>
          /\ sv' \in {"open", "read", "failed", "exited"} /\ sv # "close" /\ sv' # "close"
      BY <1>1 DEF MkServerFifo, OpenServerFifo, OpenClientFails, StartFails
    <2>2. Requests' = Requests
      BY <2>1 DEF Requests
    <2>3. RangesInv'
      BY <2>1, RangesKept
    <2> QED BY <2>1, <2>2, <2>3 DEF FifoType, OnceInv, RequestInv, RespInv, SeqNumInv, Serving, Early
  <1>2. CASE ReadRequest
    <2>1. /\ sv = "read" /\ sv' = "openClient"
          /\ UNCHANGED <<seqNum, reserved, seqLen, cpc, clientFd, resp, got>>
          /\ req' = Head(Requests) /\ Requests # <<>>
      BY <1>2 DEF ReadRequest, Requests
    <2>2. "requests" \in DOMAIN serverFifo' /\ Requests' = Tail(Requests)
      BY <1>2 DEF ReadRequest, Requests, FifoType
    <2>3. /\ Requests \in Seq(Clients) /\ Tail(Requests) \in Seq(Clients)
          /\ Head(Requests) \in Clients /\ Head(Requests) = Requests[1]
          /\ Len(Requests) >= 1 /\ Len(Tail(Requests)) = Len(Requests) - 1
          /\ \A i \in 1 .. Len(Tail(Requests)) : Tail(Requests)[i] = Requests[i + 1]
      BY <2>1 DEF FifoType
    <2>4. FifoType'
      BY <2>1, <2>2, <2>3 DEF FifoType
    <2>5. RangesInv' /\ SeqNumInv'
      BY <2>1, RangesKept DEF SeqNumInv
    <2>6. OnceInv'
      BY <2>1, <2>3 DEF OnceInv, RequestInv, Serving
    <2>7. RequestInv'
      <3> SUFFICES ASSUME NEW i \in 1 .. Len(Requests) - 1
                   PROVE  /\ cpc[Requests[i + 1]] \notin Early
                          /\ clientFd[Requests[i + 1]] = "none"
                          /\ Requests[1] # Requests[i + 1]
                          /\ \A j \in 1 .. Len(Requests) - 1 : i # j => Requests[i + 1] # Requests[j + 1]
        BY <2>1, <2>2, <2>3 DEF RequestInv, Early
      <3> QED BY <2>3 DEF RequestInv
    <2>8. RespInv'
      BY <2>1 DEF RespInv
    <2> QED BY <2>4, <2>5, <2>6, <2>7, <2>8
  <1>3. CASE OpenClient
    <2>1. /\ sv = "openClient" /\ sv' = "write" /\ req \in Clients
          /\ clientFd' = [clientFd EXCEPT ![req] = "open"]
          /\ cpc[req] = "openOwn"
          /\ UNCHANGED <<req, seqNum, reserved, serverFifo, seqLen, cpc, resp, got>>
      BY <1>3 DEF OpenClient, OnceInv, Serving
    <2>2. Requests' = Requests
      BY <2>1 DEF Requests
    <2>3. RangesInv'
      BY <2>1, RangesKept
    <2>4. FifoType' /\ OnceInv' /\ SeqNumInv'
      BY <2>1, <2>2 DEF FifoType, OnceInv, SeqNumInv, Serving, Early
    <2>5. RequestInv'
      BY <2>1, <2>2 DEF RequestInv, FifoType, Serving, Early
    <2>6. RespInv'
      BY <2>1 DEF RespInv, OnceInv, FifoType
    <2> QED BY <2>3, <2>4, <2>5, <2>6
  <1>4. CASE WriteResponse
    <2>1. /\ sv = "write" /\ sv' = "close" /\ req \in Clients /\ clientFd[req] = "open"
          /\ reserved' = reserved + seqLen[req]
          /\ UNCHANGED <<req, seqNum, serverFifo, seqLen, cpc, clientFd, got>>
          /\ resp' = resp \/ resp' = [resp EXCEPT ![req] = {seqNum}]
      BY <1>4 DEF WriteResponse, OnceInv, Serving
    <2>2. Requests' = Requests
      BY <2>1 DEF Requests
    <2>3. FifoType' /\ OnceInv'
      <3>1. {seqNum} \in SUBSET (0 .. Ints - 1)
        BY DEF FifoType
      <3>2. resp' \in [Clients -> SUBSET (0 .. Ints - 1)]
        BY <2>1, <3>1, Zenon DEF FifoType
      <3>3. reserved' \in Nat
        BY <2>1 DEF FifoType
      <3> QED BY <2>1, <2>2, <3>2, <3>3 DEF FifoType, OnceInv, Serving
    <2>4. RequestInv'
      BY <2>1, <2>2 DEF RequestInv, FifoType, Serving, Early
    <2>5. resp[req] = {} /\ got[req] = {}
      BY <2>1 DEF RespInv
    <2>6. RespInv'
      BY <2>1, <2>5 DEF RespInv, FifoType
    <2>7. SeqNumInv'
      <3>1. seqLen[req] \in Int /\ reserved \in Int
        BY <2>1 DEF FifoType
      <3>2. ((reserved % Ints) + seqLen[req]) % Ints = (reserved + seqLen[req]) % Ints
        BY <3>1, ModAdd
      <3> QED BY <2>1, <3>2 DEF SeqNumInv
    <2>8. RangesInv'
      <3>1. PICK first \in [Clients -> 0 .. reserved] : Ranges(first)
        BY DEF RangesInv
      <3>2. seqNum = reserved % Ints
        BY <2>1 DEF SeqNumInv
      <3>3. seqLen[req] \in 1 .. MaxLen /\ reserved \in Nat
        BY <2>1 DEF FifoType
      <3>a. [first EXCEPT ![req] = reserved] \in [Clients -> 0 .. reserved']
        BY <2>1, <3>1, <3>3
      <3>4. PICK next \in [Clients -> 0 .. reserved'] : next = [first EXCEPT ![req] = reserved]
        BY <3>a, Zenon
      <3>5. /\ next[req] = reserved
            /\ \A c \in Clients : c # req => next[c] = first[c] /\ resp'[c] = resp[c]
            /\ resp'[req] \in {{}, {reserved % Ints}}
        BY <2>1, <2>5, <3>1, <3>2, <3>4 DEF FifoType
      <3>6. \A c \in Clients : c # req /\ resp[c] # {} => first[c] + seqLen[c] <= reserved
        BY <3>1 DEF Ranges
      <3>7. \A c \in Clients : first[c] \in Nat /\ seqLen[c] \in Nat
        BY <3>1 DEF FifoType
      <3>8. Ranges(next)'
        BY <2>1, <3>1, <3>3, <3>5, <3>6, <3>7 DEF Ranges
      <3> QED BY <3>4, <3>8 DEF RangesInv
    <2> QED BY <2>3, <2>4, <2>6, <2>7, <2>8
  <1>5. CASE CloseClient
    <2>1. /\ sv = "close" /\ sv' = "read" /\ req' = "none" /\ req \in Clients
          /\ clientFd' = [clientFd EXCEPT ![req] = "closed"]
          /\ seqNum' = (seqNum + seqLen[req]) % Ints
          /\ UNCHANGED <<reserved, serverFifo, seqLen, cpc, resp, got>>
      BY <1>5 DEF CloseClient, OnceInv, Serving
    <2>2. Requests' = Requests
      BY <2>1 DEF Requests
    <2>3. RangesInv'
      BY <2>1, RangesKept
    <2>4. SeqNumInv'
      BY <2>1 DEF SeqNumInv
    <2>5. FifoType'
      <3>1. seqNum + seqLen[req] \in Int
        BY <2>1 DEF FifoType
      <3>2. seqNum' \in 0 .. Ints - 1
        BY <2>1, <3>1, ModParts
      <3> QED BY <2>1, <2>2, <3>2 DEF FifoType
    <2>6. OnceInv'
      BY <2>1 DEF OnceInv, FifoType, Serving
    <2>7. RequestInv'
      BY <2>1, <2>2 DEF RequestInv, FifoType, Serving, Early
    <2>8. RespInv'
      BY <2>1 DEF RespInv, FifoType
    <2> QED BY <2>3, <2>4, <2>5, <2>6, <2>7, <2>8
  <1> QED BY <1>1, <1>2, <1>3, <1>4, <1>5 DEF Server

(* Ranges with a place among at most Ints numbers share none. *)
LEMMA FifoDisjoint == FifoInv => DisjointRanges
  <1> SUFFICES ASSUME FifoInv, reserved <= Ints, NEW c \in Clients, NEW d \in Clients, c # d,
                      NEW x \in NumbersOf(c), x \in NumbersOf(d)
               PROVE  FALSE
    BY DEF DisjointRanges
  <1> USE ConstantsAssumption
  <1>1. PICK first \in [Clients -> 0 .. reserved] : Ranges(first)
    BY DEF FifoInv, RangesInv
  <1>2. PICK n \in got[c], k \in 0 .. seqLen[c] - 1 : x = (n + k) % Ints
    BY DEF NumbersOf
  <1>3. PICK m \in got[d], l \in 0 .. seqLen[d] - 1 : x = (m + l) % Ints
    BY DEF NumbersOf
  <1>4. got[c] = resp[c] /\ resp[c] # {} /\ got[d] = resp[d] /\ resp[d] # {}
    BY <1>2, <1>3 DEF FifoInv, RespInv
  <1>5. n = (0 + first[c]) % Ints /\ m = (0 + first[d]) % Ints
    BY <1>1, <1>2, <1>3, <1>4 DEF Ranges
  <1>6. /\ first[c] \in Nat /\ first[d] \in Nat /\ reserved \in Nat
        /\ seqLen[c] \in Nat /\ seqLen[d] \in Nat
    BY <1>1, SMTT(40) DEF FifoInv, FifoType
  <1>7. /\ first[c] + seqLen[c] <= reserved /\ first[d] + seqLen[d] <= reserved
        /\ first[c] + seqLen[c] <= first[d] \/ first[d] + seqLen[d] <= first[c]
    BY <1>1, <1>4 DEF Ranges
  <1>8. k \in Nat /\ l \in Nat /\ k < seqLen[c] /\ l < seqLen[d]
    BY <1>2, <1>3, <1>6
  <1>9. (((0 + first[c]) % Ints) + k) % Ints # (((0 + first[d]) % Ints) + l) % Ints
    BY <1>6, <1>7, <1>8, RangesApart
  <1> QED BY <1>2, <1>3, <1>5, <1>9

-----------------------------------------------------------------------------
(* The service over FIFOs implements the abstract service *)

(* It starts as the abstract service does. *)
LEMMA FifoServiceInit == Init => FifoService!Init
  BY ConstantsAssumption DEF Init, FifoService!Init

(* WriteResponse is the step of the service; every other step, CloseClient *)
(* with its seqNum += seqLen included, leaves what the service shows.      *)
LEMMA FifoServiceStep == FifoInv /\ [Next]_vars => [FifoService!Next]_FifoService!service
  <1> SUFFICES ASSUME FifoInv, [Next]_vars PROVE [FifoService!Next]_FifoService!service
    OBVIOUS
  <1> DEFINE next == IF sv = "close" THEN (seqNum + seqLen[req]) % Ints ELSE seqNum
             attended == {c \in Clients : clientFd[c] = "closed" \/ (sv = "close" /\ req = c)}
  <1>1. CASE WriteResponse
    <2>1. /\ sv = "write" /\ sv' = "close" /\ req \in Clients /\ clientFd[req] = "open"
          /\ UNCHANGED <<req, seqNum, seqLen, clientFd>>
          /\ resp' \in {resp, [resp EXCEPT ![req] = {seqNum}]}
      BY <1>1 DEF WriteResponse, FifoInv, OnceInv, Serving
    <2>2. next = seqNum /\ next' = (seqNum + seqLen[req]) % Ints
      BY <2>1
    <2>3. req \in Clients \ attended /\ attended' = attended \cup {req}
      BY <2>1
    <2>4. seqLen[req] > 0
      BY <2>1 DEF FifoInv, FifoType
    <2>5. PICK c \in Clients : c = req
      BY <2>1
    <2>6. FifoService!Reserve(c)
      BY <2>1, <2>2, <2>3, <2>4, <2>5 DEF FifoService!Reserve
    <2> QED BY <2>6, Zenon DEF FifoService!Next
  <1>2. CASE CloseClient
    <2>1. /\ sv = "close" /\ sv' = "read" /\ req' = "none" /\ req \in Clients
          /\ clientFd' = [clientFd EXCEPT ![req] = "closed"]
          /\ seqNum' = (seqNum + seqLen[req]) % Ints
          /\ UNCHANGED <<seqLen, resp>>
      BY <1>2 DEF CloseClient, FifoInv, OnceInv, Serving
    <2>2. next' = next /\ attended' = attended
      BY <2>1 DEF FifoInv, FifoType
    <2> QED BY <2>1, <2>2 DEF FifoService!service
  <1>3. ASSUME UNCHANGED <<seqNum, seqLen, resp>>, sv # "close", sv' # "close",
               \A c \in Clients : clientFd'[c] = "closed" <=> clientFd[c] = "closed"
        PROVE  UNCHANGED FifoService!service
    BY <1>3 DEF FifoService!service
  <1>4. CASE OpenClient
    BY <1>3, <1>4 DEF OpenClient, FifoInv, FifoType, OnceInv, Serving
  <1>5. CASE MkServerFifo \/ OpenServerFifo \/ ReadRequest \/ OpenClientFails \/ StartFails
    BY <1>3, <1>5 DEF MkServerFifo, OpenServerFifo, ReadRequest, OpenClientFails, StartFails
  <1>6. ASSUME UNCHANGED <<svVars, seqLen, clientFd, resp>>
        PROVE  UNCHANGED FifoService!service
    BY <1>6 DEF FifoService!service, svVars
  <1>7. ASSUME NEW c \in Clients, Client(c) \/ Fail(c) \/ Killed(c)
        PROVE  UNCHANGED FifoService!service
    BY <1>6, <1>7 DEF Client, Mkfifo, OpenServer, Send, OpenOwn, Receive, Fail, Killed
  <1>8. CASE UNCHANGED vars
    BY <1>6, <1>8 DEF vars
  <1> QED BY <1>1, <1>2, <1>4, <1>5, <1>7, <1>8 DEF Next, Server

-----------------------------------------------------------------------------
(* The service over TCP *)

AtType ==
    at \in [TcpClients \cup {"sv"} ->
            {"accept", "readLine", "reply", "update", "connect", "write", "newline", "read",
             "done", "failed", "killed"}]

MemType ==
    mem \in [prog : {"is_seqnum"}, seqNum : 0 .. Ints - 1, cfd : SUBSET TcpClients,
             reqLen : [TcpClients -> 0 .. MaxLen], reserved : Nat,
             got : [TcpClients -> SUBSET Int]]

OsType ==
    os \in [backlog : Seq(TcpClients), line : [TcpClients -> {"none", "length", "line"}],
            gone : SUBSET TcpClients, reply : [TcpClients -> SUBSET Int],
            closed : SUBSET TcpClients]

TcpType == AtType /\ MemType /\ OsType

(* The server has one connection, or is in accept(). *)
ServerInv ==
    /\ at.sv \in {"accept", "readLine", "reply", "update"}
    /\ at.sv = "accept" => mem.cfd = {}
    /\ at.sv # "accept" => \E c \in TcpClients : mem.cfd = {c}
    /\ at.sv \in {"reply", "update"} =>
          \A c \in mem.cfd : mem.reqLen[c] > 0 /\ os.line[c] # "none"

(* Every connection is served at most once. *)
ConnectionInv ==
    /\ \A c \in TcpClients : at[c] = "connect" => c \notin mem.cfd \cup os.closed
    /\ mem.cfd \cap os.closed = {}
    /\ \A i \in 1 .. Len(os.backlog) :
          /\ at[os.backlog[i]] # "connect"
          /\ os.backlog[i] \notin mem.cfd \cup os.closed
          /\ \A j \in 1 .. Len(os.backlog) : i # j => os.backlog[i] # os.backlog[j]

(* A client that has gone writes no more; a connection closed without a    *)
(* line, though its client wanted numbers, is that of a client gone.       *)
GoneInv ==
    /\ \A c \in os.gone : at[c] \in {"done", "failed", "killed"}
    /\ \A c \in os.closed : mem.reqLen[c] > 0 /\ os.line[c] = "none" => c \in os.gone

ReplyInv ==
    \A c \in TcpClients :
        /\ os.reply[c] # {} => c \in os.closed \/ (at.sv = "update" /\ c \in mem.cfd)
        /\ mem.got[c] \in {{}, os.reply[c]}

TcpSeqNum(base) ==
    /\ at.sv # "update" => mem.seqNum = (base + mem.reserved) % Ints
    /\ at.sv = "update" => \A c \in mem.cfd :
          (mem.seqNum + mem.reqLen[c]) % Ints = (base + mem.reserved) % Ints

TcpRanges(base, first) ==
    /\ \A c \in TcpClients : os.reply[c] # {} =>
          /\ os.reply[c] = {IS!Decimal((base + first[c]) % Ints)}
          /\ first[c] + mem.reqLen[c] <= mem.reserved
    /\ \A c, d \in TcpClients : c # d /\ os.reply[c] # {} /\ os.reply[d] # {} =>
          first[c] + mem.reqLen[c] <= first[d] \/ first[d] + mem.reqLen[d] <= first[c]

(* seqNum counts, wrapped, from where it was when the server started; and  *)
(* every range handed out has its place.                                   *)
CountInv ==
    \E base \in 0 .. Ints - 1 :
        /\ TcpSeqNum(base)
        /\ \E first \in [TcpClients -> 0 .. mem.reserved] : TcpRanges(base, first)

TcpInv == TcpType /\ ServerInv /\ ConnectionInv /\ GoneInv /\ ReplyInv /\ CountInv

(* What the whole system keeps: the programs do not change into each       *)
(* other.                                                                  *)
TcpPart == "prog" \in DOMAIN mem /\ (Runs("is_seqnum") => TcpInv)

MCInv == FifoInv /\ TcpPart

-----------------------------------------------------------------------------
(* The TCP service starts in its invariant. *)
LEMMA TcpInit == IS!Init => TcpPart
  <1> SUFFICES ASSUME IS!Init PROVE "prog" \in DOMAIN mem /\ TcpInv
    BY DEF TcpPart
  <1>1. PICK reqLen \in [TcpClients -> 0 .. MaxLen], n \in {0, Ints - 1} :
          /\ mem = [prog |-> "is_seqnum", seqNum |-> n, cfd |-> {}, reqLen |-> reqLen,
                    reserved |-> 0, got |-> [c \in TcpClients |-> {}]]
          /\ at = [p \in TcpClients \cup {"sv"} |-> IF p = "sv" THEN "accept" ELSE "connect"]
          /\ os = [backlog |-> <<>>, line |-> [c \in TcpClients |-> "none"],
                   gone |-> {}, reply |-> [c \in TcpClients |-> {}], closed |-> {}]
    BY DEF IS!Init
  <1> USE ConstantsAssumption, TcpAssumption
  <1>2. n \in 0 .. Ints - 1
    OBVIOUS
  <1>3. TcpType
    BY <1>1, <1>2 DEF TcpType, AtType, MemType, OsType
  <1>4. ServerInv /\ ConnectionInv /\ GoneInv /\ ReplyInv
    BY <1>1 DEF ServerInv, ConnectionInv, GoneInv, ReplyInv
  <1>5. TcpSeqNum(n)
    <2>1. at.sv = "accept" /\ mem.seqNum = n /\ mem.reserved = 0
      BY <1>1
    <2>2. (n + 0) % Ints = n
      BY <1>2
    <2> QED BY <2>1, <2>2 DEF TcpSeqNum
  <1>6. [c \in TcpClients |-> 0] \in [TcpClients -> 0 .. mem.reserved]
        /\ TcpRanges(n, [c \in TcpClients |-> 0])
    BY <1>1 DEF TcpRanges
  <1>7. CountInv
    BY <1>2, <1>5, <1>6 DEF CountInv
  <1> QED BY <1>1, <1>3, <1>4, <1>7 DEF TcpInv

(* A step that does not count leaves the ranges where they are. *)
LEMMA CountKept ==
    ASSUME CountInv,
           mem'.seqNum = mem.seqNum, mem'.reserved = mem.reserved, mem'.reqLen = mem.reqLen,
           os'.reply = os.reply, at'.sv = "update" <=> at.sv = "update",
           at.sv = "update" => mem'.cfd = mem.cfd
    PROVE  CountInv'
  BY DEF CountInv, TcpSeqNum, TcpRanges

(* What a client's step may change. *)
MemFacts(c) ==
    /\ mem'.seqNum = mem.seqNum /\ mem'.reserved = mem.reserved
    /\ mem'.reqLen = mem.reqLen /\ mem'.cfd = mem.cfd
    /\ mem'.got = mem.got \/ mem'.got = [mem.got EXCEPT ![c] = os.reply[c]]

OsFacts(c) ==
    /\ os'.reply = os.reply /\ os'.closed = os.closed
    /\ \/ os'.line = os.line
       \/ /\ at[c] \in {"write", "newline"}
          /\ \E l \in {"length", "line"} : os'.line = [os.line EXCEPT ![c] = l]
    /\ \/ os'.gone = os.gone
       \/ os'.gone = os.gone \cup {c} /\ at'[c] \in {"done", "failed", "killed"}
    /\ \/ os'.backlog = os.backlog
       \/ os'.backlog = Append(os.backlog, c) /\ at[c] = "connect"

AtFacts(c) ==
    /\ at' = [at EXCEPT ![c] = at'[c]] /\ at'.sv = at.sv
    /\ at'[c] \in {"write", "newline", "read", "done", "failed", "killed"}
    /\ at[c] \notin {"done", "failed", "killed"}

(* The types after a client's step, and what it changes. *)
LEMMA TcpClientFacts ==
    ASSUME TcpInv, NEW c \in TcpClients, IS!is_seqnum_cl(c) \/ IS!GoesAway(c)
    PROVE  TcpType' /\ AtFacts(c) /\ MemFacts(c) /\ OsFacts(c)
  <1> USE TcpAssumption DEF TcpInv, IS!Move, Move
  <1> USE DEF IS!is_seqnum_cl, MemFacts, OsFacts, AtFacts
  <1> DEFINE Facts == TcpType' /\ MemFacts(c) /\ OsFacts(c)
  <1>0. AtType /\ MemType /\ OsType
    BY DEF TcpType
  <1>1. AtType' /\ AtFacts(c)
    BY <1>0 DEF AtType, IS!Connect, IS!WriteLen, IS!WriteNewline, IS!ReadReply, IS!GoesAway
  <1>2. ASSUME IS!Connect(c) PROVE Facts
    <2>1. Append(os.backlog, c) \in Seq(TcpClients)
      BY <1>0 DEF OsType
    <2>2. OsType' /\ OsFacts(c) /\ mem' = mem
      BY <1>0, <1>2, <2>1 DEF OsType, IS!Connect
    <2> QED BY <1>0, <1>1, <2>2 DEF TcpType, MemType
  <1>3. ASSUME IS!WriteLen(c) \/ IS!WriteNewline(c) PROVE Facts
    <2>1. PICK l \in {"length", "line"} : os' = [os EXCEPT !.line[c] = l]
      BY <1>3 DEF IS!WriteLen, IS!WriteNewline
    <2>2. at[c] \in {"write", "newline"} /\ mem' = mem
      BY <1>3 DEF IS!WriteLen, IS!WriteNewline
    <2>3. [os.line EXCEPT ![c] = l] \in [TcpClients -> {"none", "length", "line"}]
      BY <1>0 DEF OsType
    <2>4. os' = [os EXCEPT !.line = [os.line EXCEPT ![c] = l]]
      BY <2>1
    <2>5. OsType'
      BY <1>0, <2>3, <2>4 DEF OsType
    <2>6. OsFacts(c)
      BY <1>0, <2>2, <2>4 DEF OsType
    <2> QED BY <1>0, <1>1, <2>2, <2>5, <2>6 DEF TcpType, MemType
  <1>4. ASSUME IS!ReadReply(c) PROVE Facts
    <2>1. /\ mem' = [mem EXCEPT !.got[c] = os.reply[c]]
          /\ os' = [os EXCEPT !.gone = @ \cup {c}]
          /\ at'[c] \in {"done", "failed"}
      BY <1>0, <1>4 DEF IS!ReadReply, AtType
    <2>2. OsType' /\ OsFacts(c)
      BY <1>0, <2>1 DEF OsType
    <2>3. os.reply[c] \in SUBSET Int
      BY <1>0 DEF OsType
    <2>4. mem' = [mem EXCEPT !.got = [mem.got EXCEPT ![c] = os.reply[c]]]
      BY <2>1
    <2>5. MemType' /\ MemFacts(c)
      BY <1>0, <2>3, <2>4 DEF MemType
    <2> QED BY <1>1, <2>2, <2>5 DEF TcpType
  <1>5. ASSUME IS!GoesAway(c) PROVE Facts
    <2>1. /\ os' = [os EXCEPT !.gone = @ \cup {c}] /\ mem' = mem /\ at'[c] = "killed"
      BY <1>0, <1>5 DEF IS!GoesAway, AtType
    <2>2. OsType' /\ OsFacts(c)
      BY <1>0, <2>1 DEF OsType
    <2> QED BY <1>0, <1>1, <2>1, <2>2 DEF TcpType, MemType
  <1> QED BY <1>1, <1>2, <1>3, <1>4, <1>5

(* A client's step. *)
LEMMA TcpClientStep ==
    ASSUME TcpInv, NEW c \in TcpClients, IS!is_seqnum_cl(c) \/ IS!GoesAway(c)
    PROVE  TcpInv'
  <1> USE TcpAssumption DEF TcpInv
  <1>0. AtType /\ MemType /\ OsType
    BY DEF TcpType
  <1>1. AtType' /\ AtFacts(c)
    BY TcpClientFacts DEF TcpType
  <1>2. TcpType' /\ MemFacts(c) /\ OsFacts(c)
    BY TcpClientFacts
  <1> USE DEF MemFacts, OsFacts, AtFacts
  <1>3. ServerInv'
    BY <1>0, <1>1, <1>2 DEF ServerInv, AtType, OsType
  <1>4. GoneInv'
    <2>1. \A d \in os'.gone : at'[d] \in {"done", "failed", "killed"}
      <3>1. \A d \in os.gone : d \in TcpClients /\ d # c /\ at'[d] \in {"done", "failed", "killed"}
        BY <1>0, <1>1 DEF GoneInv, AtType, OsType
      <3> QED BY <1>2, <3>1
    <2>2. ASSUME NEW d \in os'.closed, mem'.reqLen[d] > 0, os'.line[d] = "none"
          PROVE  d \in os'.gone
      <3>1. d \in os.closed /\ d \in TcpClients /\ mem.reqLen[d] > 0 /\ os.line[d] = "none"
        BY <1>0, <1>2, <2>2 DEF OsType
      <3>2. d \in os.gone
        BY <3>1 DEF GoneInv
      <3> QED BY <1>2, <3>2
    <2> QED BY <2>1, <2>2 DEF GoneInv
  <1>5. ReplyInv'
    BY <1>0, <1>1, <1>2 DEF ReplyInv, MemType
  <1>6. CountInv'
    BY <1>1, <1>2, CountKept
  <1>7. ConnectionInv'
    <2>1. CASE os'.backlog = os.backlog
      BY <1>0, <1>1, <1>2, <2>1 DEF ConnectionInv, AtType, OsType
    <2>2. CASE os'.backlog = Append(os.backlog, c) /\ at[c] = "connect"
      <3>1. \A i \in 1 .. Len(os.backlog) : os.backlog[i] # c
        BY <2>2 DEF ConnectionInv
      <3>2. c \notin mem.cfd \cup os.closed
        BY <2>2 DEF ConnectionInv
      <3> QED BY <1>0, <1>1, <1>2, <2>2, <3>1, <3>2 DEF ConnectionInv, AtType, OsType
    <2> QED BY <1>2, <2>1, <2>2
  <1> QED BY <1>2, <1>3, <1>4, <1>5, <1>6, <1>7

(* Taking the first connection from the backlog. *)
LEMMA BacklogTail ==
    ASSUME OsType, ConnectionInv, os.backlog # <<>>
    PROVE  /\ Head(os.backlog) \in TcpClients /\ at[Head(os.backlog)] # "connect"
           /\ Head(os.backlog) \notin mem.cfd \cup os.closed
           /\ Tail(os.backlog) \in Seq(TcpClients)
           /\ \A i \in 1 .. Len(Tail(os.backlog)) :
                 /\ at[Tail(os.backlog)[i]] # "connect"
                 /\ Tail(os.backlog)[i] \in TcpClients
                 /\ Tail(os.backlog)[i] \notin mem.cfd \cup os.closed \cup {Head(os.backlog)}
                 /\ \A j \in 1 .. Len(Tail(os.backlog)) :
                       i # j => Tail(os.backlog)[i] # Tail(os.backlog)[j]
  <1> DEFINE b == os.backlog
  <1>1. b \in Seq(TcpClients) /\ b # <<>>
    BY DEF OsType
  <1>2. /\ \A i \in 1 .. Len(b) : /\ at[b[i]] # "connect"
                                  /\ b[i] \notin mem.cfd \cup os.closed
                                  /\ \A j \in 1 .. Len(b) : i # j => b[i] # b[j]
    BY DEF ConnectionInv
  <1> HIDE DEF b
  <1>3. /\ Tail(b) \in Seq(TcpClients) /\ Len(b) >= 1
        /\ Head(b) = b[1] /\ Head(b) \in TcpClients /\ Len(Tail(b)) = Len(b) - 1
        /\ \A i \in 1 .. Len(b) - 1 : Tail(b)[i] = b[i + 1] /\ b[i + 1] \in TcpClients
    BY <1>1
  <1>4. at[Head(b)] # "connect" /\ Head(b) \notin mem.cfd \cup os.closed
    BY <1>2, <1>3
  <1>5. ASSUME NEW i \in 1 .. Len(Tail(b))
        PROVE  /\ at[Tail(b)[i]] # "connect"
               /\ Tail(b)[i] \in TcpClients
               /\ Tail(b)[i] \notin mem.cfd \cup os.closed \cup {Head(b)}
               /\ \A j \in 1 .. Len(Tail(b)) : i # j => Tail(b)[i] # Tail(b)[j]
    BY <1>2, <1>3, i \in 1 .. Len(b) - 1, i + 1 \in 1 .. Len(b)
  <1> QED BY <1>3, <1>4, <1>5 DEF b

(* A step of the server. *)
LEMMA TcpServerStep ==
    ASSUME TcpInv, IS!is_seqnum_sv
    PROVE  TcpInv'
  <1> USE TcpAssumption, ConstantsAssumption DEF TcpInv, IS!Move
  <1>0. AtType /\ MemType /\ OsType
    BY DEF TcpType
  <1>1. CASE IS!Accept
    <2> DEFINE h == Head(os.backlog)
    <2>1. /\ at.sv = "accept" /\ at' = [at EXCEPT !.sv = "readLine"]
          /\ mem' = [mem EXCEPT !.cfd = {h}]
          /\ os' = [os EXCEPT !.backlog = Tail(@)] /\ os.backlog # <<>>
      BY <1>1 DEF IS!Accept
    <2>2. mem.cfd = {}
      BY <2>1 DEF ServerInv
    <2>3. /\ h \in TcpClients /\ at[h] # "connect" /\ h \notin os.closed
          /\ Tail(os.backlog) \in Seq(TcpClients)
          /\ \A i \in 1 .. Len(Tail(os.backlog)) :
                 /\ at[Tail(os.backlog)[i]] # "connect"
                 /\ Tail(os.backlog)[i] \in TcpClients
                 /\ Tail(os.backlog)[i] \notin os.closed \cup {h}
                 /\ \A j \in 1 .. Len(Tail(os.backlog)) :
                       i # j => Tail(os.backlog)[i] # Tail(os.backlog)[j]
      BY <1>0, <2>1, BacklogTail
    <2> HIDE DEF h
    <2>4. AtType' /\ at'.sv = "readLine" /\ \A c \in TcpClients : at'[c] = at[c]
      BY <1>0, <2>1 DEF AtType
    <2>5. /\ MemType' /\ mem'.seqNum = mem.seqNum /\ mem'.reserved = mem.reserved
          /\ mem'.reqLen = mem.reqLen /\ mem'.cfd = {h} /\ mem'.got = mem.got
      BY <1>0, <2>1, <2>3 DEF MemType
    <2>6. /\ OsType' /\ os'.reply = os.reply /\ os'.closed = os.closed
          /\ os'.line = os.line /\ os'.gone = os.gone /\ os'.backlog = Tail(os.backlog)
      BY <1>0, <2>1, <2>3 DEF OsType
    <2>7. ServerInv' /\ ReplyInv'
      BY <2>1, <2>3, <2>4, <2>5, <2>6 DEF ServerInv, ReplyInv
    <2>8. GoneInv'
      BY <1>0, <2>4, <2>5, <2>6 DEF GoneInv, OsType
    <2>9. ConnectionInv'
      BY <2>3, <2>4, <2>5, <2>6 DEF ConnectionInv
    <2>10. CountInv'
      BY <2>1, <2>4, <2>5, <2>6, CountKept
    <2> QED BY <2>4, <2>5, <2>6, <2>7, <2>8, <2>9, <2>10 DEF TcpType
  <1>2. CASE IS!AcceptFails
    <2>1. /\ at.sv = "accept" /\ at' = at /\ mem' = mem
          /\ os' = [os EXCEPT !.backlog = Tail(@)] /\ os.backlog # <<>>
      BY <1>2 DEF IS!AcceptFails
    <2>2. /\ Tail(os.backlog) \in Seq(TcpClients)
          /\ \A i \in 1 .. Len(Tail(os.backlog)) :
                 /\ at[Tail(os.backlog)[i]] # "connect"
                 /\ Tail(os.backlog)[i] \notin mem.cfd \cup os.closed
                 /\ \A j \in 1 .. Len(Tail(os.backlog)) :
                       i # j => Tail(os.backlog)[i] # Tail(os.backlog)[j]
      BY <1>0, <2>1, BacklogTail
    <2>3. /\ OsType' /\ os'.reply = os.reply /\ os'.closed = os.closed
          /\ os'.line = os.line /\ os'.gone = os.gone /\ os'.backlog = Tail(os.backlog)
      BY <1>0, <2>1, <2>2 DEF OsType
    <2>4. AtType' /\ MemType'
      BY <1>0, <2>1 DEF AtType, MemType
    <2>5. ServerInv' /\ ReplyInv' /\ GoneInv'
      BY <2>1, <2>3 DEF ServerInv, ReplyInv, GoneInv
    <2>6. ConnectionInv'
      BY <2>1, <2>2, <2>3 DEF ConnectionInv
    <2>7. CountInv'
      BY <2>1, <2>3, CountKept
    <2> QED BY <2>3, <2>4, <2>5, <2>6, <2>7 DEF TcpType
  <1>3. CASE IS!ReadLine
    <2>1. PICK c \in mem.cfd :
            /\ os.line[c] = "line" \/ c \in os.gone
            /\ IF os.line[c] = "none" \/ mem.reqLen[c] <= 0
                 THEN IS!CloseAndContinue(c)
                 ELSE IS!Move("sv", "readLine", "reply") /\ UNCHANGED <<mem, os>>
      BY <1>3 DEF IS!ReadLine
    <2>2. at.sv = "readLine" /\ mem.cfd = {c} /\ c \in TcpClients
      BY <1>3, <1>0 DEF IS!ReadLine, ServerInv, MemType
    <2>3. CASE os.line[c] = "none" \/ mem.reqLen[c] <= 0
      <3>1. /\ at' = [at EXCEPT !.sv = "accept"] /\ mem' = [mem EXCEPT !.cfd = {}]
            /\ os' = [os EXCEPT !.closed = @ \cup {c}]
        BY <2>1, <2>3 DEF IS!CloseAndContinue
      <3>2. AtType' /\ at'.sv = "accept" /\ \A d \in TcpClients : at'[d] = at[d]
        BY <1>0, <3>1 DEF AtType
      <3>3. /\ MemType' /\ mem'.seqNum = mem.seqNum /\ mem'.reserved = mem.reserved
            /\ mem'.reqLen = mem.reqLen /\ mem'.cfd = {} /\ mem'.got = mem.got
        BY <1>0, <3>1 DEF MemType
      <3>4. /\ OsType' /\ os'.reply = os.reply /\ os'.closed = os.closed \cup {c}
            /\ os'.line = os.line /\ os'.gone = os.gone /\ os'.backlog = os.backlog
        BY <1>0, <2>2, <3>1 DEF OsType
      <3>5. ServerInv' /\ ReplyInv'
        BY <2>2, <3>2, <3>3, <3>4 DEF ServerInv, ReplyInv
      <3>6. GoneInv'
        <4>1. mem.reqLen[c] \in 0 .. MaxLen
          BY <1>0, <2>2 DEF MemType
        <4>2. mem.reqLen[c] > 0 /\ os.line[c] = "none" => c \in os.gone
          BY <2>1
        <4> QED BY <1>0, <3>2, <3>3, <3>4, <4>2 DEF GoneInv, OsType
      <3>7. ConnectionInv'
        <4>1. at[c] # "connect"
          BY <2>2 DEF ConnectionInv
        <4>2. \A i \in 1 .. Len(os.backlog) : os.backlog[i] \in TcpClients
          BY <1>0 DEF OsType
        <4> QED BY <2>2, <3>2, <3>3, <3>4, <4>1, <4>2 DEF ConnectionInv
      <3>8. CountInv'
        BY <2>2, <3>2, <3>3, <3>4, CountKept
      <3> QED BY <3>2, <3>3, <3>4, <3>5, <3>6, <3>7, <3>8 DEF TcpType
    <2>4. CASE ~(os.line[c] = "none" \/ mem.reqLen[c] <= 0)
      <3>1. at' = [at EXCEPT !.sv = "reply"] /\ mem' = mem /\ os' = os
        BY <2>1, <2>4
      <3>2. AtType' /\ at'.sv = "reply" /\ \A d \in TcpClients : at'[d] = at[d]
        BY <1>0, <3>1 DEF AtType
      <3>3. mem.reqLen[c] \in 0 .. MaxLen
        BY <1>0, <2>2 DEF MemType
      <3>4. MemType' /\ OsType'
        BY <1>0, <3>1 DEF MemType, OsType
      <3>5. ServerInv' /\ ReplyInv'
        BY <2>2, <2>4, <3>1, <3>2, <3>3 DEF ServerInv, ReplyInv
      <3>6. GoneInv'
        BY <1>0, <3>1, <3>2 DEF GoneInv, OsType
      <3>7. ConnectionInv'
        <4>2. \A i \in 1 .. Len(os.backlog) : os.backlog[i] \in TcpClients
          BY <1>0 DEF OsType
        <4> QED BY <3>1, <3>2, <4>2 DEF ConnectionInv
      <3>8. CountInv'
        BY <2>2, <3>1, <3>2, CountKept
      <3> QED BY <3>2, <3>4, <3>5, <3>6, <3>7, <3>8 DEF TcpType
    <2> QED BY <2>3, <2>4
  <1>4. ASSUME IS!WriteReply PROVE TcpInv'
    <2>1. PICK c \in mem.cfd : mem' = [mem EXCEPT !.reserved = @ + mem.reqLen[c]]
      BY <1>4 DEF IS!WriteReply
    <2>2. /\ at.sv = "reply" /\ at' = [at EXCEPT !.sv = "update"]
          /\ os' = [os EXCEPT !.reply = [d \in TcpClients |->
                       IF d \in mem.cfd \ os.gone THEN {IS!Decimal(mem.seqNum)} ELSE os.reply[d]]]
      BY <1>4 DEF IS!WriteReply
    <2>3. mem.cfd = {c} /\ c \in TcpClients /\ mem.reqLen[c] \in 0 .. MaxLen /\ mem.reserved \in Nat
      BY <1>0, <2>1, <2>2 DEF ServerInv, MemType
    <2>4. AtType' /\ at'.sv = "update" /\ \A d \in TcpClients : at'[d] = at[d]
      BY <1>0, <2>2 DEF AtType
    <2>5. /\ MemType' /\ mem'.seqNum = mem.seqNum /\ mem'.reserved = mem.reserved + mem.reqLen[c]
          /\ mem'.reqLen = mem.reqLen /\ mem'.cfd = {c} /\ mem'.got = mem.got
      BY <1>0, <2>1, <2>3 DEF MemType
    <2>6. /\ os'.closed = os.closed /\ os'.line = os.line /\ os'.gone = os.gone
          /\ os'.backlog = os.backlog
          /\ \A d \in TcpClients : os'.reply[d] =
                IF d = c /\ d \notin os.gone THEN {IS!Decimal(mem.seqNum)} ELSE os.reply[d]
      BY <1>0, <2>2, <2>3 DEF OsType
    <2>7. mem.seqNum \in 0 .. Ints - 1 /\ IS!Decimal(mem.seqNum) \in Int
      BY <1>0 DEF MemType, IS!Decimal
    <2>8. OsType'
      BY <1>0, <2>2, <2>7 DEF OsType
    <2>9. c \notin os.closed /\ os.reply[c] = {} /\ mem.got[c] = {}
      BY <2>2, <2>3 DEF ConnectionInv, ReplyInv
    <2>10. ServerInv'
      BY <2>2, <2>3, <2>4, <2>5, <2>6 DEF ServerInv
    <2>11. ReplyInv'
      BY <2>2, <2>3, <2>4, <2>5, <2>6, <2>9 DEF ReplyInv
    <2>12. GoneInv'
      BY <1>0, <2>4, <2>5, <2>6 DEF GoneInv, OsType
    <2>13. ConnectionInv'
      <3>1. \A i \in 1 .. Len(os.backlog) : os.backlog[i] \in TcpClients
        BY <1>0 DEF OsType
      <3> QED BY <2>3, <2>4, <2>5, <2>6, <3>1 DEF ConnectionInv
    <2>14. CountInv'
      <3>1. PICK base \in 0 .. Ints - 1 :
              /\ TcpSeqNum(base)
              /\ \E first \in [TcpClients -> 0 .. mem.reserved] : TcpRanges(base, first)
        BY DEF CountInv
      <3>2. PICK first \in [TcpClients -> 0 .. mem.reserved] : TcpRanges(base, first)
        BY <3>1
      <3>3. mem.seqNum = (base + mem.reserved) % Ints
        BY <2>2, <3>1 DEF TcpSeqNum
      <3>4. TcpSeqNum(base)'
        <4>1. (((base + mem.reserved) % Ints) + mem.reqLen[c]) % Ints
                = (base + mem.reserved + mem.reqLen[c]) % Ints
          BY <2>3, base + mem.reserved \in Int, mem.reqLen[c] \in Int, ModAdd
        <4>2. base + (mem.reserved + mem.reqLen[c]) = base + mem.reserved + mem.reqLen[c]
          BY <2>3
        <4> QED BY <2>4, <2>5, <3>3, <4>1, <4>2 DEF TcpSeqNum
      <3>5. [first EXCEPT ![c] = mem.reserved] \in [TcpClients -> 0 .. mem'.reserved]
        BY <2>3, <2>5, <3>2
      <3>6. PICK next \in [TcpClients -> 0 .. mem'.reserved] : next = [first EXCEPT ![c] = mem.reserved]
        BY <3>5, Zenon
      <3>7. /\ next[c] = mem.reserved
            /\ \A d \in TcpClients : d # c => next[d] = first[d] /\ os'.reply[d] = os.reply[d]
            /\ os'.reply[c] \in {{}, {IS!Decimal((base + mem.reserved) % Ints)}}
        BY <2>3, <2>6, <2>9, <3>2, <3>3, <3>6
      <3>8. \A d \in TcpClients : first[d] \in Nat /\ mem.reqLen[d] \in Nat
        BY <1>0, <3>2 DEF MemType
      <3>9. \A d \in TcpClients : d # c /\ os.reply[d] # {} => first[d] + mem.reqLen[d] <= mem.reserved
        BY <3>2 DEF TcpRanges
      <3>10. TcpRanges(base, next)'
        BY <2>3, <2>5, <3>2, <3>7, <3>8, <3>9 DEF TcpRanges
      <3> QED BY <3>4, <3>10 DEF CountInv
    <2> QED BY <2>4, <2>5, <2>8, <2>10, <2>11, <2>12, <2>13, <2>14 DEF TcpType
  <1>5. CASE IS!Update
    <2>1. PICK c \in mem.cfd :
            mem' = [mem EXCEPT !.cfd = {}, !.seqNum = (@ + mem.reqLen[c]) % Ints]
      BY <1>5 DEF IS!Update
    <2>2. /\ at.sv = "update" /\ at' = [at EXCEPT !.sv = "accept"]
          /\ os' = [os EXCEPT !.closed = @ \cup mem.cfd]
      BY <1>5 DEF IS!Update
    <2>3. mem.cfd = {c} /\ c \in TcpClients /\ mem.seqNum + mem.reqLen[c] \in Int
      BY <1>0, <2>1, <2>2 DEF ServerInv, MemType
    <2>4. AtType' /\ at'.sv = "accept" /\ \A d \in TcpClients : at'[d] = at[d]
      BY <1>0, <2>2 DEF AtType
    <2>5. (mem.seqNum + mem.reqLen[c]) % Ints \in 0 .. Ints - 1
      BY <2>3, ModParts
    <2>6. /\ MemType' /\ mem'.seqNum = (mem.seqNum + mem.reqLen[c]) % Ints
          /\ mem'.reserved = mem.reserved
          /\ mem'.reqLen = mem.reqLen /\ mem'.cfd = {} /\ mem'.got = mem.got
      BY <1>0, <2>1, <2>5 DEF MemType
    <2>7. /\ OsType' /\ os'.reply = os.reply /\ os'.closed = os.closed \cup {c}
          /\ os'.line = os.line /\ os'.gone = os.gone /\ os'.backlog = os.backlog
      BY <1>0, <2>2, <2>3 DEF OsType
    <2>8. mem.reqLen[c] > 0 /\ os.line[c] # "none"
      BY <2>2, <2>3 DEF ServerInv
    <2>9. ServerInv' /\ ReplyInv'
      BY <2>3, <2>4, <2>6, <2>7 DEF ServerInv, ReplyInv
    <2>10. GoneInv'
      BY <1>0, <2>4, <2>6, <2>7, <2>8 DEF GoneInv, OsType
    <2>11. ConnectionInv'
      <3>1. at[c] # "connect"
        BY <2>3 DEF ConnectionInv
      <3>2. \A i \in 1 .. Len(os.backlog) : os.backlog[i] \in TcpClients
        BY <1>0 DEF OsType
      <3> QED BY <2>3, <2>4, <2>6, <2>7, <3>1, <3>2 DEF ConnectionInv
    <2>12. CountInv'
      BY <2>2, <2>3, <2>4, <2>6, <2>7 DEF CountInv, TcpSeqNum, TcpRanges
    <2> QED BY <2>4, <2>6, <2>7, <2>9, <2>10, <2>11, <2>12 DEF TcpType
  <1> QED BY <1>1, <1>2, <1>3, <1>4, <1>5 DEF IS!is_seqnum_sv

-----------------------------------------------------------------------------
(* Both services and the library: what a behaviour keeps *)

(* A function of the library starts as itself, and as nothing else. *)
LEMMA LibraryInit == LB!Init => "prog" \in DOMAIN mem /\ ~Runs("is_seqnum")
  <1> SUFFICES ASSUME LB!Init PROVE "prog" \in DOMAIN mem /\ mem.prog # "is_seqnum"
    BY DEF Runs
  <1>1. CASE LB!InetInit
    BY <1>1 DEF LB!InetInit, LB!InetProgs
  <1>2. CASE LB!StreamInit
    BY <1>2 DEF LB!StreamInit, LB!StreamProgs
  <1>3. CASE LB!NumInit
    <2>1. \/ \E prog \in {"getLong", "getInt"} : \E arg, flags :
                mem = [prog |-> prog, arg |-> arg, flags |-> flags, res |-> LB!gnFail]
          \/ \E fields, str, res :
                mem = [prog |-> "itimerspecFromStr", fields |-> fields, str |-> str, res |-> res]
      BY <1>3, Zenon DEF LB!NumInit
    <2> QED BY <2>1
  <1> QED BY <1>1, <1>2, <1>3 DEF LB!Init

(* The steps of the library are not the server's, and leave the program    *)
(* that runs.                                                              *)
LEMMA LibraryStep ==
    ASSUME "prog" \in DOMAIN mem, LB!Next
    PROVE  ~Runs("is_seqnum") /\ "prog" \in DOMAIN mem' /\ mem'.prog = mem.prog
  <1>1. CASE LB!InetNext
    <2>1. mem.prog \in LB!InetProgs
      BY <1>1 DEF LB!InetNext, LB!InetReturned, LB!InetProgs, LB!Connects
    <2>2. "prog" \in DOMAIN mem' /\ mem'.prog = mem.prog
      BY <1>1 DEF LB!InetNext, LB!InetReturned, LB!machine, LB!inetConnect, LB!inetPassiveSocket,
                  LB!GetAddrInfo, LB!SocketFails, LB!Socket, LB!UseFails, LB!Use, LB!NoAddress,
                  LB!Done, LB!SetsockoptFails, LB!Setsockopt, LB!ListenFails, LB!Listen,
                  LB!InetReturn, LB!TryNext
    <2> QED BY <2>1, <2>2 DEF LB!InetProgs, Runs
  <1>2. CASE LB!StreamNext
    <2>1. mem.prog \in LB!StreamProgs
      BY <1>2 DEF LB!StreamNext, LB!StreamReturned, LB!StreamProgs, LB!Runs
    <2>2. "prog" \in DOMAIN mem' /\ mem'.prog = mem.prog
      BY <1>2 DEF LB!StreamNext, LB!StreamReturned, LB!machine, LB!readLine, LB!readn, LB!writen,
                  LB!CheckArgs, LB!ReadByte, LB!Eof, LB!Start, LB!ReadSome, LB!ReadAll,
                  LB!ReadEof, LB!WriteSome, LB!WriteAll, LB!Eintr, LB!Error, LB!StreamReturn
    <2> QED BY <2>1, <2>2 DEF LB!StreamProgs, Runs
  <1>3. CASE LB!NumNext
    <2>1. mem.prog \in LB!NumProgs
      BY <1>3 DEF LB!NumNext, LB!NumCall
    <2>2. "prog" \in DOMAIN mem' /\ mem'.prog = mem.prog
      BY <1>3 DEF LB!NumNext, LB!NumCall, LB!machine
    <2> QED BY <2>1, <2>2 DEF LB!NumProgs, Runs
  <1> QED BY <1>1, <1>2, <1>3 DEF LB!Next

(* A step of the service over TCP keeps its invariant. *)
LEMMA TcpStep ==
    ASSUME TcpPart, IS!Next
    PROVE  TcpPart' /\ Runs("is_seqnum") /\ Runs("is_seqnum")'
  <1>1. Runs("is_seqnum") /\ TcpInv
    BY DEF IS!Next, IS!Server, IS!Client, IS!Runs, Runs, TcpPart
  <1>2. ASSUME IS!Server PROVE TcpInv'
    BY <1>1, <1>2, TcpServerStep DEF IS!Server
  <1>3. ASSUME NEW c \in TcpClients, IS!Client(c) \/ (Runs("is_seqnum") /\ IS!GoesAway(c))
        PROVE  TcpInv'
    BY <1>1, <1>3, TcpClientStep DEF IS!Client
  <1>4. TcpInv'
    BY <1>2, <1>3 DEF IS!Next, IS!Runs, Runs
  <1>5. "prog" \in DOMAIN mem' /\ mem'.prog = "is_seqnum"
    BY <1>4 DEF TcpInv, TcpType, MemType
  <1> QED BY <1>1, <1>4, <1>5 DEF TcpPart, Runs

(* The initial states, and every step. *)
LEMMA InitMCInv == MCInit => MCInv
  <1> SUFFICES ASSUME MCInit PROVE MCInv
    OBVIOUS
  <1>1. FifoInv
    BY FifoInit DEF MCInit
  <1>2. CASE NotRunning
    BY <1>1, <1>2 DEF NotRunning, MCInv, TcpPart, Runs
  <1> QED BY <1>1, <1>2, TcpInit, LibraryInit DEF MCInit, MCInv, TcpPart

(* A step of one program leaves the invariants of the others alone. *)
LEMMA StepMCInv == MCInv /\ [MCNext]_<<machine, vars>> => MCInv'
  <1> SUFFICES ASSUME MCInv, [MCNext]_<<machine, vars>> PROVE MCInv'
    OBVIOUS
  <1>a. FifoInv /\ TcpPart
    BY DEF MCInv
  <1>1. ASSUME UNCHANGED vars PROVE FifoInv'
    <2>1. UNCHANGED <<sv, req, seqNum, reserved, serverFifo, seqLen, cpc, clientFd, resp, got>>
      BY <1>1 DEF vars, svVars
    <2>2. Requests' = Requests
      BY <2>1 DEF Requests
    <2>3. FifoType' /\ OnceInv' /\ RespInv' /\ SeqNumInv' /\ RangesInv'
      BY <1>a, <2>1, <2>2, RangesKept DEF FifoInv, FifoType, OnceInv, RespInv, SeqNumInv
    <2>4. RequestInv'
      BY <1>a, <2>1, <2>2 DEF FifoInv, RequestInv
    <2> QED BY <2>3, <2>4 DEF FifoInv
  <1>2. ASSUME UNCHANGED machine PROVE TcpPart'
    <2>1. at' = at /\ mem' = mem /\ os' = os
      BY <1>2 DEF machine
    <2>2. TcpInv => TcpInv'
      <3>1. CountInv => CountInv'
        BY <2>1, CountKept
      <3> QED BY <2>1, <3>1 DEF TcpInv, TcpType, AtType, MemType, OsType, ServerInv, ConnectionInv,
                                GoneInv, ReplyInv
    <2> QED BY <1>a, <2>1, <2>2 DEF TcpPart, Runs
  <1>3. CASE Next /\ UNCHANGED machine
    <2>1. FifoInv'
      BY <1>a, <1>3, FifoServerStep, FifoClientStep DEF Next
    <2> QED BY <1>2, <1>3, <2>1 DEF MCInv
  <1>4. CASE IS!Next /\ UNCHANGED vars
    BY <1>a, <1>1, <1>4, TcpStep DEF MCInv
  <1>5. CASE LB!Next /\ UNCHANGED vars
    <2>1. TcpPart'
      BY <1>a, <1>5, LibraryStep DEF TcpPart, Runs
    <2> QED BY <1>1, <1>5, <2>1 DEF MCInv
  <1>6. CASE UNCHANGED <<machine, vars>>
    BY <1>1, <1>2, <1>6 DEF MCInv
  <1> QED BY <1>3, <1>4, <1>5, <1>6 DEF MCNext, machine

(* Both invariants hold in every reachable state. *)
LEMMA MCInvariant == MCSpec => []MCInv
  BY InitMCInv, StepMCInv, PTL DEF MCSpec

-----------------------------------------------------------------------------
(* No number twice *)

(* What "%d" makes of the upper half of a uint32_t differs from the number *)
(* by 2^32: added to and wrapped, it is the number again.                  *)
LEMMA DecimalWraps ==
    ASSUME NEW n \in 0 .. Ints - 1, NEW k \in Nat
    PROVE  /\ IS!Decimal(n) \in Int
           /\ (IS!Decimal(n) + k) % Ints = (n + k) % Ints
  <1> USE ConstantsAssumption
  <1>1. IS!Decimal(n) = n \/ IS!Decimal(n) = n - Ints
    BY DEF IS!Decimal
  <1>2. (n - Ints + k) % Ints = (n + k) % Ints
    <2> DEFINE q == (n + k) \div Ints
               r == (n + k) % Ints
               sum == n - Ints + k
               quot == q - 1
    <2>1. q \in Int /\ r \in 0 .. Ints - 1 /\ n + k = q * Ints + r
      BY n + k \in Int, ModParts
    <2> HIDE DEF q, r
    <2>2. sum \in Int /\ quot \in Int /\ sum = quot * Ints + r
      BY <2>1
    <2> HIDE DEF sum, quot
    <2>3. sum % Ints = r
      BY <2>1, <2>2, ModUnique
    <2> QED BY <2>3 DEF sum, r
  <1> QED BY <1>1, <1>2

(* The numbers a client reads back start at the number reserved for it. *)
LEMMA TcpDisjoint == TcpPart => IS!DisjointRanges
  <1> SUFFICES ASSUME TcpInv, mem.reserved <= Ints,
                      NEW c \in TcpClients, NEW d \in TcpClients, c # d,
                      NEW x \in IS!NumbersOf(c), x \in IS!NumbersOf(d)
               PROVE  FALSE
    BY DEF IS!DisjointRanges, TcpPart, IS!Runs, Runs
  <1> USE ConstantsAssumption
  <1>1. PICK base \in 0 .. Ints - 1 :
              \E first \in [TcpClients -> 0 .. mem.reserved] : TcpRanges(base, first)
    BY DEF TcpInv, CountInv
  <1>2. PICK first \in [TcpClients -> 0 .. mem.reserved] : TcpRanges(base, first)
    BY <1>1
  <1>3. PICK n \in mem.got[c], k \in 0 .. mem.reqLen[c] - 1 : x = (n + k) % Ints
    BY DEF IS!NumbersOf
  <1>4. PICK m \in mem.got[d], l \in 0 .. mem.reqLen[d] - 1 : x = (m + l) % Ints
    BY DEF IS!NumbersOf
  <1>5. /\ mem.got[c] = os.reply[c] /\ os.reply[c] # {}
        /\ mem.got[d] = os.reply[d] /\ os.reply[d] # {}
    BY <1>3, <1>4 DEF TcpInv, ReplyInv
  <1>6. n = IS!Decimal((base + first[c]) % Ints) /\ m = IS!Decimal((base + first[d]) % Ints)
    BY <1>2, <1>3, <1>4, <1>5 DEF TcpRanges
  <1>7. /\ first[c] \in Nat /\ first[d] \in Nat /\ mem.reserved \in Nat
        /\ mem.reqLen[c] \in Nat /\ mem.reqLen[d] \in Nat
    BY <1>2 DEF TcpInv, TcpType, MemType
  <1>8. /\ first[c] + mem.reqLen[c] <= mem.reserved /\ first[d] + mem.reqLen[d] <= mem.reserved
        /\ first[c] + mem.reqLen[c] <= first[d] \/ first[d] + mem.reqLen[d] <= first[c]
    BY <1>2, <1>5 DEF TcpRanges
  <1>9. k \in Nat /\ l \in Nat /\ k < mem.reqLen[c] /\ l < mem.reqLen[d]
    BY <1>3, <1>4, <1>7
  <1>10. (((base + first[c]) % Ints) + k) % Ints # (((base + first[d]) % Ints) + l) % Ints
    <2>1. base \in Nat /\ Ints \in Nat \ {0}
      BY <1>1
    <2>2. PICK f \in Nat, g \in Nat, kl \in Nat, ll \in Nat, n0 \in Nat :
            f = first[c] /\ g = first[d] /\ kl = mem.reqLen[c] /\ ll = mem.reqLen[d] /\ n0 = mem.reserved
      BY <1>7
    <2>3. /\ n0 <= Ints /\ k < kl /\ l < ll /\ f + kl <= n0 /\ g + ll <= n0
          /\ f + kl <= g \/ g + ll <= f
      BY <1>8, <1>9, <2>2
    <2>4. (((base + f) % Ints) + k) % Ints # (((base + g) % Ints) + l) % Ints
      BY <1>9, <2>1, <2>3, RangesApart, Zenon
    <2> QED BY <2>2, <2>4
  <1>11. (base + first[c]) % Ints \in 0 .. Ints - 1 /\ (base + first[d]) % Ints \in 0 .. Ints - 1
    <2>1. base + first[c] \in Int /\ base + first[d] \in Int
      BY <1>1, <1>7
    <2> QED BY <2>1, ModParts
  <1>12. x = (((base + first[c]) % Ints) + k) % Ints
    BY <1>3, <1>6, <1>9, <1>11, DecimalWraps
  <1>13. x = (((base + first[d]) % Ints) + l) % Ints
    BY <1>4, <1>6, <1>9, <1>11, DecimalWraps
  <1> QED BY <1>10, <1>12, <1>13

(* Neither service hands out a number twice while it has answered for no   *)
(* more numbers than the type has: not across the wrap, not with the sign  *)
(* "%d" gives them, not when clients leave before they are answered.       *)
THEOREM NoNumberTwiceEver == MCSpec => []NoNumberTwice
  <1>1. MCInv => NoNumberTwice
    BY FifoDisjoint, TcpDisjoint DEF MCInv, NoNumberTwice
  <1> QED BY <1>1, MCInvariant, PTL

-----------------------------------------------------------------------------
(* The service over TCP implements the abstract service *)

TcpNext ==
    IF ~Runs("is_seqnum") THEN 0
    ELSE IF at.sv = "update" THEN (mem.seqNum + mem.reqLen[CHOOSE c \in mem.cfd : TRUE]) % Ints
         ELSE mem.seqNum

TcpAttended ==
    IF ~Runs("is_seqnum") THEN {}
    ELSE {c \in os.closed : mem.reqLen[c] > 0 /\ os.line[c] # "none"}
           \cup (IF at.sv = "update" THEN mem.cfd ELSE {})

TcpTold ==
    IF ~Runs("is_seqnum") THEN [c \in TcpClients |-> {}]
    ELSE [c \in TcpClients |-> {n % Ints : n \in os.reply[c]}]

TcpLen == IF Runs("is_seqnum") THEN mem.reqLen ELSE [c \in TcpClients |-> 1]

(* What the service shows. *)
LEMMA TcpShown ==
    (UNCHANGED <<TcpLen, TcpNext, TcpAttended, TcpTold>>) => UNCHANGED TcpService!service
  BY DEF TcpService!service, TcpLen, TcpNext, TcpAttended, TcpTold

(* Through the mapping the TCP service, too, starts as the abstract one. *)
LEMMA TcpServiceInit == MCInit => TcpService!Init
  <1> SUFFICES ASSUME MCInit PROVE TcpService!Init
    OBVIOUS
  <1> USE ConstantsAssumption
  <1>1. TcpNext \in 0 .. Ints - 1 /\ TcpAttended = {} /\ TcpTold = [c \in TcpClients |-> {}]
    <2>1. CASE ~Runs("is_seqnum")
      BY <2>1 DEF TcpNext, TcpAttended, TcpTold
    <2>2. CASE Runs("is_seqnum")
      <3>1. IS!Init
        BY <2>2, LibraryInit DEF MCInit, NotRunning, Runs
      <3>2. /\ mem.seqNum \in 0 .. Ints - 1 /\ at.sv = "accept" /\ os.closed = {}
            /\ os.reply = [c \in TcpClients |-> {}]
        BY <3>1 DEF IS!Init
      <3> QED BY <2>2, <3>2 DEF TcpNext, TcpAttended, TcpTold
    <2> QED BY <2>1, <2>2
  <1> QED BY <1>1 DEF TcpService!Init, TcpNext, TcpAttended, TcpTold

(* A client's step shows nothing of the service: what it writes after its  *)
(* connection was closed comes too late to be attended to.                 *)
LEMMA TcpServiceClient ==
    ASSUME TcpPart, Runs("is_seqnum"), Runs("is_seqnum")',
           NEW c \in TcpClients, IS!is_seqnum_cl(c) \/ IS!GoesAway(c)
    PROVE  UNCHANGED TcpService!service
  <1>1. TcpInv
    BY DEF TcpPart
  <1>2. AtFacts(c) /\ MemFacts(c) /\ OsFacts(c)
    BY <1>1, TcpClientFacts
  <1>3. ASSUME NEW d \in os.closed, mem.reqLen[d] > 0
        PROVE  os'.line[d] # "none" <=> os.line[d] # "none"
    <2>1. CASE d = c /\ os.line[d] = "none"
      BY <1>1, <1>2, <1>3, <2>1 DEF TcpInv, GoneInv, AtFacts, OsFacts
    <2>2. CASE d # c \/ os.line[d] # "none"
      <3>1. d \in TcpClients /\ os.line \in [TcpClients -> {"none", "length", "line"}]
        BY <1>1 DEF TcpInv, TcpType, OsType
      <3> QED BY <1>2, <2>2, <3>1 DEF OsFacts
    <2> QED BY <2>1, <2>2
  <1>4. TcpAttended' = TcpAttended
    BY <1>2, <1>3 DEF TcpAttended, AtFacts, MemFacts, OsFacts
  <1>5. UNCHANGED <<TcpLen, TcpNext, TcpTold>>
    BY <1>2 DEF TcpLen, TcpNext, TcpTold, AtFacts, MemFacts, OsFacts
  <1> QED BY <1>4, <1>5, TcpShown

(* WriteReply is the step of the service; Update, its seqNum += reqLen,    *)
(* shows nothing new, and neither do the others.                           *)
LEMMA TcpServiceServer ==
    ASSUME TcpPart, Runs("is_seqnum"), Runs("is_seqnum")', IS!is_seqnum_sv
    PROVE  [TcpService!Next]_TcpService!service
  <1> USE ConstantsAssumption, TcpAssumption
  <1>0. TcpInv /\ AtType /\ MemType /\ OsType
    BY DEF TcpPart, TcpInv, TcpType
  <1>1. \A x : (CHOOSE y \in {x} : TRUE) = x
    OBVIOUS
  <1>2. ASSUME mem'.seqNum = mem.seqNum, mem'.reqLen = mem.reqLen, os'.reply = os.reply,
               os'.line = os.line, at.sv # "update", at'.sv # "update",
               \/ os'.closed = os.closed
               \/ \E c \in TcpClients : /\ os'.closed = os.closed \cup {c}
                                        /\ os.line[c] = "none" \/ mem.reqLen[c] <= 0
        PROVE  UNCHANGED TcpService!service
    <2>1. UNCHANGED <<TcpLen, TcpNext, TcpTold>>
      BY <1>2 DEF TcpLen, TcpNext, TcpTold
    <2>2. \A c \in TcpClients : mem.reqLen[c] <= 0 => ~(mem.reqLen[c] > 0)
      BY <1>0 DEF MemType
    <2>3. TcpAttended' = TcpAttended
      BY <1>2, <2>2 DEF TcpAttended
    <2> QED BY <2>1, <2>3, TcpShown
  <1>3. CASE IS!Accept
    <2>1. /\ mem' = [mem EXCEPT !.cfd = {Head(os.backlog)}] /\ os' = [os EXCEPT !.backlog = Tail(@)]
          /\ at.sv = "accept" /\ at' = [at EXCEPT !.sv = "readLine"]
      BY <1>3 DEF IS!Accept, IS!Move
    <2> QED BY <1>0, <1>2, <2>1 DEF AtType, MemType, OsType
  <1>4. CASE IS!AcceptFails
    <2>1. mem' = mem /\ os' = [os EXCEPT !.backlog = Tail(@)] /\ at.sv = "accept" /\ at' = at
      BY <1>4 DEF IS!AcceptFails
    <2> QED BY <1>0, <1>2, <2>1 DEF OsType
  <1>5. CASE IS!ReadLine
    <2>1. PICK c \in mem.cfd :
            IF os.line[c] = "none" \/ mem.reqLen[c] <= 0
              THEN IS!CloseAndContinue(c)
              ELSE IS!Move("sv", "readLine", "reply") /\ UNCHANGED <<mem, os>>
      BY <1>5 DEF IS!ReadLine
    <2>2. c \in TcpClients /\ at.sv = "readLine"
      BY <1>0, <1>5 DEF MemType, IS!ReadLine
    <2>3. CASE os.line[c] = "none" \/ mem.reqLen[c] <= 0
      <3>1. /\ at' = [at EXCEPT !.sv = "accept"] /\ mem' = [mem EXCEPT !.cfd = {}]
            /\ os' = [os EXCEPT !.closed = @ \cup {c}]
        BY <2>1, <2>3 DEF IS!CloseAndContinue
      <3>2. /\ mem'.seqNum = mem.seqNum /\ mem'.reqLen = mem.reqLen /\ os'.reply = os.reply
            /\ os'.line = os.line /\ at'.sv # "update" /\ os'.closed = os.closed \cup {c}
        BY <1>0, <3>1 DEF AtType, MemType, OsType
      <3> QED BY <1>2, <2>2, <2>3, <3>2
    <2>4. CASE ~(os.line[c] = "none" \/ mem.reqLen[c] <= 0)
      <3>1. at' = [at EXCEPT !.sv = "reply"] /\ mem' = mem /\ os' = os
        BY <2>1, <2>4 DEF IS!Move
      <3> QED BY <1>0, <1>2, <2>2, <3>1 DEF AtType
    <2> QED BY <2>3, <2>4
  <1>6. CASE IS!Update
    <2>1. PICK c \in mem.cfd :
            mem' = [mem EXCEPT !.cfd = {}, !.seqNum = (@ + mem.reqLen[c]) % Ints]
      BY <1>6 DEF IS!Update
    <2>2. /\ at.sv = "update" /\ at' = [at EXCEPT !.sv = "accept"]
          /\ os' = [os EXCEPT !.closed = @ \cup mem.cfd]
      BY <1>6 DEF IS!Update
    <2>3. mem.cfd = {c} /\ c \in TcpClients /\ mem.reqLen[c] > 0 /\ os.line[c] # "none"
      BY <1>0, <2>1, <2>2 DEF TcpInv, ServerInv, MemType
    <2>4. /\ mem'.seqNum = (mem.seqNum + mem.reqLen[c]) % Ints /\ mem'.reqLen = mem.reqLen
          /\ os'.reply = os.reply /\ os'.line = os.line /\ os'.closed = os.closed \cup {c}
          /\ at'.sv = "accept"
      BY <1>0, <2>1, <2>2, <2>3 DEF AtType, MemType, OsType
    <2>5. TcpNext' = TcpNext
      BY <1>1, <2>2, <2>3, <2>4 DEF TcpNext
    <2>6. TcpAttended' = TcpAttended
      BY <2>2, <2>3, <2>4 DEF TcpAttended
    <2>7. UNCHANGED <<TcpLen, TcpTold>>
      BY <2>4 DEF TcpLen, TcpTold
    <2> QED BY <2>5, <2>6, <2>7, TcpShown
  <1>7. CASE IS!WriteReply
    <2>1. PICK c \in mem.cfd : mem' = [mem EXCEPT !.reserved = @ + mem.reqLen[c]]
      BY <1>7 DEF IS!WriteReply
    <2>2. /\ at.sv = "reply" /\ at' = [at EXCEPT !.sv = "update"]
          /\ os' = [os EXCEPT !.reply = [d \in TcpClients |->
                       IF d \in mem.cfd \ os.gone THEN {IS!Decimal(mem.seqNum)} ELSE os.reply[d]]]
      BY <1>7 DEF IS!WriteReply, IS!Move
    <2>3. /\ mem.cfd = {c} /\ c \in TcpClients /\ mem.reqLen[c] > 0 /\ c \notin os.closed
      BY <1>0, <2>1, <2>2 DEF TcpInv, ServerInv, ConnectionInv, MemType
    <2>4. /\ mem'.seqNum = mem.seqNum /\ mem'.reqLen = mem.reqLen /\ mem'.cfd = {c}
          /\ os'.line = os.line /\ os'.closed = os.closed /\ at'.sv = "update"
          /\ \A d \in TcpClients : os'.reply[d] =
                IF d = c /\ d \notin os.gone THEN {IS!Decimal(mem.seqNum)} ELSE os.reply[d]
      BY <1>0, <2>1, <2>2, <2>3 DEF AtType, MemType, OsType
    <2>5. IS!Decimal(mem.seqNum) % Ints = mem.seqNum
      <3>1. mem.seqNum \in 0 .. Ints - 1 /\ 0 \in Nat
        BY <1>0 DEF MemType
      <3>2. /\ IS!Decimal(mem.seqNum) \in Int
            /\ (IS!Decimal(mem.seqNum) + 0) % Ints = (mem.seqNum + 0) % Ints
        BY <3>1, DecimalWraps
      <3> QED BY <3>1, <3>2
    <2>6. TcpTold' \in {TcpTold, [TcpTold EXCEPT ![c] = {TcpNext}]}
      <3>1. CASE c \in os.gone
        BY <2>3, <2>4, <3>1 DEF TcpTold
      <3>2. CASE c \notin os.gone
        <4>1. {n % Ints : n \in {IS!Decimal(mem.seqNum)}} = {mem.seqNum}
          BY <2>5
        <4>2. TcpNext = mem.seqNum
          BY <2>2 DEF TcpNext
        <4>3. TcpTold'[c] = {mem.seqNum}
          BY <2>3, <2>4, <3>2, <4>1 DEF TcpTold
        <4>4. TcpTold' = [TcpTold EXCEPT ![c] = {mem.seqNum}]
          BY <2>3, <2>4, <4>3 DEF TcpTold
        <4> QED BY <4>2, <4>4
      <3> QED BY <3>1, <3>2
    <2>7. /\ c \in TcpClients \ TcpAttended /\ TcpAttended' = TcpAttended \cup {c}
      BY <2>2, <2>3, <2>4 DEF TcpAttended
    <2>8. TcpNext' = (TcpNext + TcpLen[c]) % Ints
      BY <1>1, <2>2, <2>3, <2>4 DEF TcpNext, TcpLen
    <2>9. TcpLen' = TcpLen /\ TcpLen[c] > 0
      BY <2>3, <2>4 DEF TcpLen
    <2>10. PICK d \in TcpClients : d = c
      BY <2>3
    <2>11. TcpService!Reserve(d)
      BY <2>6, <2>7, <2>8, <2>9, <2>10
         DEF TcpService!Reserve, TcpLen, TcpNext, TcpAttended, TcpTold
    <2> QED BY <2>11, Zenon DEF TcpService!Next
  <1> QED BY <1>3, <1>4, <1>5, <1>6, <1>7 DEF IS!is_seqnum_sv

(* Every step of MCSeqnum is one of the abstract service, or stutters. *)
LEMMA TcpServiceStep ==
    TcpPart /\ [MCNext]_<<machine, vars>> => [TcpService!Next]_TcpService!service
  <1> SUFFICES ASSUME TcpPart, [MCNext]_<<machine, vars>>
               PROVE  [TcpService!Next]_TcpService!service
    OBVIOUS
  <1>1. CASE UNCHANGED machine
    BY <1>1, TcpShown DEF machine, TcpLen, TcpNext, TcpAttended, TcpTold, Runs
  <1>2. CASE LB!Next
    <2>1. ~Runs("is_seqnum") /\ ~Runs("is_seqnum")'
      BY <1>2, LibraryStep DEF TcpPart, Runs
    <2> QED BY <2>1, TcpShown DEF TcpLen, TcpNext, TcpAttended, TcpTold
  <1>3. CASE IS!Next
    <2>1. Runs("is_seqnum") /\ Runs("is_seqnum")'
      BY <1>3, TcpStep
    <2>2. CASE IS!Server
      BY <2>1, <2>2, TcpServiceServer DEF IS!Server
    <2>3. ASSUME NEW c \in TcpClients, IS!is_seqnum_cl(c) \/ IS!GoesAway(c)
          PROVE  UNCHANGED TcpService!service
      BY <2>1, <2>3, TcpServiceClient
    <2> QED BY <1>3, <2>2, <2>3 DEF IS!Next, IS!Client
  <1> QED BY <1>1, <1>2, <1>3 DEF MCNext, machine

(* A step of the whole system is a step of the service over FIFOs or shows *)
(* nothing of it.                                                          *)
LEMMA FifoServiceMCStep ==
    FifoInv /\ [MCNext]_<<machine, vars>> => [FifoService!Next]_FifoService!service
  BY FifoServiceStep DEF MCNext

(* Each service implements the abstract one: its initial states and every  *)
(* one of its steps, whichever clients leave and wherever the number       *)
(* wraps, are those of a service that reserves in one step.                *)
THEOREM ServiceImplemented == MCSpec => ImplementsService
  <1>1. MCInit => FifoService!Init /\ TcpService!Init
    BY FifoServiceInit, TcpServiceInit DEF MCInit
  <1>2. MCInv /\ [MCNext]_<<machine, vars>> =>
          [FifoService!Next]_FifoService!service /\ [TcpService!Next]_TcpService!service
    BY FifoServiceMCStep, TcpServiceStep DEF MCInv
  <1> QED BY <1>1, <1>2, MCInvariant, PTL
          DEF MCSpec, ImplementsService, FifoService!Spec, TcpService!Spec
=============================================================================
