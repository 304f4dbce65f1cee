---------------------------- MODULE PosixObjects ----------------------------
(***************************************************************************)
(* The tools on POSIX objects: 53-posix-semaphore/psem_*.c,                *)
(* 54-posix-sharedmem/pshm_*.c and 52-posix-msgqueue/pmsg_*.c.             *)
(*                                                                         *)
(* Several shells run the tools of one family on one name.  Every tool     *)
(* opens the object first and works on it afterwards; in between another   *)
(* tool may unlink the name and create a new object under it.  at says     *)
(* which tool a shell runs, and where it is; an error ends the tool.       *)
(***************************************************************************)
EXTENDS Machine, Integers, Sequences, FiniteSets

CONSTANTS Shells,
          MaxObjs,      \* bound on the objects created
          MaxTools,     \* bound on the tools that open the object
          SemMax,       \* SEM_VALUE_MAX
          MaxLen        \* bound on the strings pshm_write writes

Objs == 1 .. MaxObjs
Here(p) == os.obj[mem.obj[p]]           \* the object the tool has open

(* sem_open(), shm_open() or mq_open() with the flags of the -c and -x     *)
(* options: an object is made if there is none and -c was given; -x makes  *)
(* an existing one an error, but only with -c.                             *)
Opens(creat, excl) ==
    IF os.name = 0 THEN creat /\ os.made < MaxObjs ELSE ~(creat /\ excl)

Object(fresh) ==
    IF os.name # 0 THEN os
    ELSE [os EXCEPT !.made = @ + 1, !.name = os.made + 1, !.obj[os.made + 1] = fresh]

(* The tool has its object and goes on at label k. *)
Opened(p, k, opened) ==
    /\ mem.tools < MaxTools
    /\ Move(p, "shell", k)
    /\ os' = opened
    /\ mem' = [mem EXCEPT !.tools = @ + 1, !.obj[p] = os'.name]

Closed(m, p) == [m EXCEPT !.obj[p] = 0]         \* the tool has ended

Open(p, k) == Opens(FALSE, FALSE) /\ Opened(p, k, os)

(* The name goes; the object stays with the tools that have it open. *)
Unlink(p) ==
    /\ at[p] = "shell" /\ os.name # 0
    /\ os' = [os EXCEPT !.name = 0]
    /\ UNCHANGED <<at, mem>>

-----------------------------------------------------------------------------
(* Semaphores.  The value given to psem_create is an unsigned int: a       *)
(* negative one is too large.  An existing semaphore keeps its value.      *)

psem_create(p) ==
    \E creat, excl \in BOOLEAN, value \in {-1, 0, 1} :
        /\ Opens(creat, excl) /\ (os.name = 0 => value >= 0)
        /\ at[p] = "shell"
        /\ os' = Object([value |-> value, net |-> value])
        /\ UNCHANGED <<at, mem>>

(* sem_post() at the greatest value is EOVERFLOW.  net: the value the      *)
(* semaphore began with, the posts added and the waits that succeeded      *)
(* taken off.                                                              *)
psem_post(p) ==
    \/ Open(p, "sem_post")
    \/ /\ Move(p, "sem_post", "shell")
       /\ os' = IF Here(p).value = SemMax THEN os
                ELSE [os EXCEPT !.obj[mem.obj[p]].value = @ + 1, !.obj[mem.obj[p]].net = @ + 1]
       /\ mem' = Closed(mem, p)

psem_wait(p) ==
    \/ Open(p, "sem_wait")
    \/ /\ at[p] = "sem_wait" /\ Here(p).value > 0
       /\ Move(p, "sem_wait", "said")
       /\ os' = [os EXCEPT !.obj[mem.obj[p]].value = @ - 1]
       /\ UNCHANGED mem
    \/ /\ Move(p, "said", "shell")
       /\ os' = [os EXCEPT !.obj[mem.obj[p]].net = @ - 1]
       /\ mem' = Closed(mem, p)

(* psem_getvalue: the value is old when it is printed. *)
psem_getvalue(p) == at[p] = "shell" /\ os.name # 0 /\ UNCHANGED machine

psem_unlink(p) == Unlink(p)

psem(p) == psem_create(p) \/ psem_post(p) \/ psem_wait(p) \/ psem_getvalue(p)
           \/ psem_unlink(p)

-----------------------------------------------------------------------------
(* Shared memory: one page, of which size bytes belong to the object.  An  *)
(* access through a mapping to a page wholly beyond the end is SIGBUS.     *)

Strings == {[k \in 1 .. n |-> n] : n \in 0 .. MaxLen}
Zeros == [k \in 1 .. MaxLen |-> 0]
Resized(o, n) == [size |-> n, page |-> [k \in 1 .. MaxLen |-> IF k > n THEN 0 ELSE o.page[k]]]
Resize(p, n) == os' = [os EXCEPT !.obj[mem.obj[p]] = Resized(@, n)]

Writing == {"size", "truncate", "memcpy"}

(* Who opens the object while it is written is not alone with it, nor is   *)
(* who has it open when a writer comes; arg is the size, or the string,    *)
(* the tool was given.                                                     *)
ShmOpened(p, k, opened, arg) ==
    LET users == {q \in Shells \ {p} : at[q] # "shell" /\ mem.obj[q] = os'.name}
    IN  /\ mem.tools < MaxTools
        /\ Move(p, "shell", k)
        /\ os' = opened
        /\ mem' = [mem EXCEPT !.tools = @ + 1, !.obj[p] = os'.name, !.arg[p] = arg, !.copied[p] = 0,
                     !.alone = [q \in Shells |->
                         IF q = p THEN \A u \in users : at[u] \notin Writing
                         ELSE @[q] /\ ~(q \in users /\ k \in Writing)]]

(* What the object should hold: the last string, if its writer was alone   *)
(* with the object; cut or filled by pshm_create.                          *)
ShmClosed(m, p) == [Closed(m, p) EXCEPT !.arg[p] = <<>>, !.copied[p] = 0, !.alone[p] = TRUE]
Mixed == <<-1>>
Holds(p, k, s) ==
    /\ at' = [at EXCEPT ![p] = k]
    /\ mem' = ShmClosed([mem EXCEPT !.last[mem.obj[p]] = IF mem.alone[p] THEN s ELSE Mixed], p)

Fit(s, n) == [k \in 1 .. n |-> IF k <= Len(s) THEN s[k] ELSE 0]

(* pshm_create, and then stop() until it is killed. *)
pshm_create(p) ==
    \/ \E creat, excl \in BOOLEAN, size \in 0 .. MaxLen :
          Opens(creat, excl)
          /\ ShmOpened(p, "size", Object([size |-> 0, page |-> Zeros]), Fit(<<>>, size))
    \/ /\ at[p] = "size"
       /\ Resize(p, Len(mem.arg[p]))
       /\ Holds(p, "shell", IF mem.last[mem.obj[p]] = Mixed THEN Mixed
                            ELSE Fit(mem.last[mem.obj[p]], Len(mem.arg[p])))

(* Mutant: the object is only made larger. *)
TruncateGrows(p) ==
    /\ Resize(p, IF Here(p).size > Len(mem.arg[p]) THEN Here(p).size ELSE Len(mem.arg[p]))
    /\ UNCHANGED mem

(* ftruncate(fd, len) *)
Truncate(p) == Resize(p, Len(mem.arg[p])) /\ UNCHANGED mem

(* An empty string is an error of mmap(), after the object was emptied. *)
pshm_write(p) ==
    \/ \E s \in Strings : Opens(FALSE, FALSE) /\ ShmOpened(p, "truncate", os, s)
    \/ Move(p, "truncate", "memcpy") /\ Truncate(p)
    \/ /\ at[p] = "memcpy" /\ mem.copied[p] < Len(mem.arg[p]) /\ UNCHANGED at
       /\ Here(p).size > 0
       /\ os' = [os EXCEPT !.obj[mem.obj[p]].page[mem.copied[p] + 1] = mem.arg[p][mem.copied[p] + 1]]
       /\ mem' = [mem EXCEPT !.copied[p] = @ + 1]
    \/ /\ at[p] = "memcpy" /\ (mem.copied[p] = Len(mem.arg[p]) \/ Here(p).size = 0)
       /\ Holds(p, "shell", mem.arg[p]) /\ UNCHANGED os

(* sb.st_size is the length of the mapping and of the write(); arg keeps   *)
(* what was printed.  Nothing is when the object is empty by then.         *)
pshm_read(p) ==
    \/ Opens(FALSE, FALSE) /\ ShmOpened(p, "fstat", os, <<>>)
    \/ /\ Move(p, "fstat", "write") /\ UNCHANGED os
       /\ mem' = [mem EXCEPT !.copied[p] = Here(p).size]
    \/ /\ Move(p, "write", "read") /\ UNCHANGED os
       /\ mem' = [mem EXCEPT !.arg[p] = IF Here(p).size = 0 THEN <<>>
                                        ELSE SubSeq(Here(p).page, 1, mem.copied[p]),
                              !.copied[p] = 0]
    \/ Move(p, "read", "shell") /\ mem' = ShmClosed(mem, p) /\ UNCHANGED os

pshm_unlink(p) == Unlink(p)

pshm(p) == pshm_create(p) \/ pshm_write(p) \/ pshm_read(p) \/ pshm_unlink(p)

-----------------------------------------------------------------------------
(* Message queues: q holds the messages in the order in which they will be *)
(* received, the highest priority first, then the oldest.                  *)

Prios == {-1, 0, 1}
NoMsg == [id |-> 0, len |-> 0, prio |-> 0, n |-> FALSE]
MqClosed(m, p) == [Closed(m, p) EXCEPT !.msg[p] = NoMsg]

InOrder(q, m) ==
    LET k == CHOOSE k \in 0 .. Len(q) : /\ \A i \in 1 .. k : q[i].prio >= m.prio
                                        /\ \A i \in k + 1 .. Len(q) : q[i].prio < m.prio
    IN  SubSeq(q, 1, k) \o <<m>> \o SubSeq(q, k + 1, Len(q))

(* -m and -s: what atoi() makes of them has to be positive. *)
pmsg_create(p) ==
    \E creat, excl \in BOOLEAN, maxmsg \in 0 .. 1, msgsize \in 0 .. 2 :
        /\ Opens(creat, excl) /\ (os.name = 0 => maxmsg > 0 /\ msgsize > 0)
        /\ at[p] = "shell"
        /\ os' = Object([maxmsg |-> maxmsg, msgsize |-> msgsize, q |-> <<>>])
        /\ UNCHANGED <<at, mem>>

(* A message of one byte or two.  EMSGSIZE, or EINVAL for a priority that  *)
(* is negative and so, unsigned, too high, or with -n EAGAIN end the tool. *)
pmsg_send(p) ==
    \/ \E len \in 1 .. 2, prio \in Prios, n \in BOOLEAN :
          /\ Opens(FALSE, FALSE) /\ mem.tools < MaxTools
          /\ Move(p, "shell", "mq_send") /\ UNCHANGED os
          /\ mem' = [mem EXCEPT !.tools = @ + 1, !.obj[p] = os.name,
                       !.msg[p] = [id |-> mem.tools, len |-> len, prio |-> prio, n |-> n]]
    \/ /\ at[p] = "mq_send"
       /\ LET m    == mem.msg[p]
              bad  == m.len > Here(p).msgsize \/ m.prio < 0
              full == Len(Here(p).q) = Here(p).maxmsg
          IN  /\ bad \/ ~full \/ m.n
              /\ os' = IF bad \/ full THEN os
                       ELSE [os EXCEPT !.obj[mem.obj[p]].q = InOrder(@, m)]
              /\ mem' = MqClosed([mem EXCEPT !.sent = IF bad \/ full THEN @ ELSE @ \cup {m.id}], p)
       /\ Move(p, "mq_send", "shell")

(* attr.mq_msgsize of the queue that is open is the size of the buffer. *)
Getattr(p) == mem' = [mem EXCEPT !.msg[p].len = Here(p).msgsize]

pmsg_receive(p) ==
    \/ \E n \in BOOLEAN :
          /\ Opens(FALSE, FALSE) /\ mem.tools < MaxTools
          /\ Move(p, "shell", "getattr") /\ UNCHANGED os
          /\ mem' = [mem EXCEPT !.tools = @ + 1, !.obj[p] = os.name, !.msg[p].n = n]
    \/ Move(p, "getattr", "mq_receive") /\ Getattr(p) /\ UNCHANGED os
    \/ /\ at[p] = "mq_receive"
       /\ LET small == mem.msg[p].len < Here(p).msgsize    \* EMSGSIZE
              empty == Here(p).q = <<>>                    \* EAGAIN with -n
          IN  /\ small \/ ~empty \/ mem.msg[p].n
              /\ Move(p, "mq_receive", IF small THEN "too_small" ELSE "shell")
              /\ IF small \/ empty THEN mem' = MqClosed(mem, p) /\ UNCHANGED os
                 ELSE /\ mem' = MqClosed([mem EXCEPT !.got = Append(@, Head(Here(p).q).id)], p)
                      /\ os' = [os EXCEPT !.obj[mem.obj[p]].q = Tail(@)]

pmsg_getattr(p) == at[p] = "shell" /\ os.name # 0 /\ UNCHANGED machine

pmsg_unlink(p) == Unlink(p)

pmsg(p) == pmsg_create(p) \/ pmsg_send(p) \/ pmsg_receive(p) \/ pmsg_getattr(p)
           \/ pmsg_unlink(p)

-----------------------------------------------------------------------------
Family(empty, memory) ==
    /\ mem = memory
    /\ at = [p \in Shells |-> "shell"]
    /\ os = [name |-> 0, made |-> 0, obj |-> [i \in Objs |-> empty]]

Init ==
    LET none == [p \in Shells |-> 0]
    IN  \/ Family([value |-> 0, net |-> 0], [prog |-> "psem", tools |-> 0, obj |-> none])
        \/ Family([size |-> 0, page |-> Zeros],
                  [prog |-> "pshm", tools |-> 0, obj |-> none,
                   arg |-> [p \in Shells |-> <<>>], copied |-> [p \in Shells |-> 0],
                   alone |-> [p \in Shells |-> TRUE], last |-> [i \in Objs |-> <<>>]])
        \/ Family([maxmsg |-> 1, msgsize |-> 1, q |-> <<>>],
                  [prog |-> "pmsg", tools |-> 0, obj |-> none,
                   msg |-> [p \in Shells |-> NoMsg], sent |-> {}, got |-> <<>>])

Next ==
    \E p \in Shells :
        \/ Runs("psem") /\ psem(p)
        \/ Runs("pshm") /\ pshm(p)
        \/ Runs("pmsg") /\ pmsg(p)
        \/ mem.prog \in {"psem", "pshm", "pmsg"} /\ UNCHANGED machine     \* nobody types

-----------------------------------------------------------------------------
(* As many psem_wait have passed a semaphore as its first value and the    *)
(* posts to it allow, also when it was "created" again while it existed or *)
(* the name now stands for another: no post is lost, none counts twice,    *)
(* and the value stays in its range.                                       *)
SemConserved ==
    Runs("psem") =>
        \A i \in Objs :
            /\ os.obj[i].value \in 0 .. SemMax
            /\ os.obj[i].net =
                 os.obj[i].value + Cardinality({p \in Shells : at[p] = "said" /\ mem.obj[p] = i})

(* Who reads the object while nobody writes it prints the last string      *)
(* wholly, with nothing of a longer one that was there before, if its      *)
(* writer had the object to itself.                                        *)
ReadWhole ==
    Runs("pshm") =>
        \A p \in Shells :
            at[p] = "read" /\ mem.alone[p] /\ mem.last[mem.obj[p]] # Mixed =>
                mem.arg[p] = mem.last[mem.obj[p]]

(* A receiver's buffer is large enough for its queue, whatever the name    *)
(* stands for by then; every message sent is received once or still in its *)
(* queue, also in one that has lost its name.                              *)
ReceiveFits ==
    Runs("pmsg") =>
        /\ \A p \in Shells : at[p] # "too_small"
        /\ \A i, j \in 1 .. Len(mem.got) : i # j => mem.got[i] # mem.got[j]
        /\ mem.sent = {mem.got[i] : i \in 1 .. Len(mem.got)}
                         \cup UNION {{os.obj[i].q[k].id : k \in 1 .. Len(os.obj[i].q)} : i \in Objs}
=============================================================================
