------------------------------- MODULE Files -------------------------------
(***************************************************************************)
(* Programs that work on a file or a mapping while others may use it too:  *)
(* 4-fileio/copy.c and seek_io.c, 5-fileio-detail/bad_exclusive_open.c,    *)
(* 13-io-buffering/write_bytes.c, 18-directory-and-link/t_unlink.c,        *)
(* 49-mmap/mmcat.c and 50-mmap-control/memlock.c.                          *)
(***************************************************************************)
EXTENDS Machine, Naturals, Sequences, FiniteSets, FiniteSetsExt, SequencesExt

CONSTANTS BufSize,      \* the size of copy's and write_bytes' buffer
          MaxFile,      \* bound on the bytes of a file at the start, and on the arguments
          MaxOps,       \* bound on the arguments of seek_io
          MaxTouched    \* bound on what other processes do to the file

Progs == {"bad_exclusive_open", "copy", "seek_io", "write_bytes", "t_unlink", "mmcat", "memlock"}
Opens == {"p1", "p2"}       \* the two processes of bad_exclusive_open

(* The contents of a file of n bytes; other processes write 9s. *)
Bytes(n) == [i \in 1 .. n |-> 100 + i]

(* to: the file copy writes; n, step, len: arguments; pos, wrote: offsets; *)
(* buf: bytes read and not yet written; log: the writes of seek_io; last:  *)
(* its last read; said: what each process printed.                         *)
(* file: the files' contents; first: the length of the first at the start; *)
(* exists: bad_exclusive_open's file; creator: who made it; linked, blocks *)
(* and open: t_unlink's file; locked: the pages memlock has locked;        *)
(* touched: how often others have changed the file.                        *)
Init ==
    /\ \E prog \in Progs, k, n, step, len \in 0 .. MaxFile, to \in {"f1", "f2"}, ex \in BOOLEAN :
          /\ to = "f1" => prog = "copy"
          /\ ex => prog = "bad_exclusive_open"
          /\ n > 0 => prog \in {"write_bytes", "t_unlink", "memlock"}
          /\ step + len > 0 => prog = "memlock"
          /\ prog = "memlock" => n > 0 /\ step > 0 /\ len > 0      \* GN_GT_0
          /\ prog \in {"write_bytes", "t_unlink"} => n > 0
          /\ prog \in {"memlock", "t_unlink", "bad_exclusive_open"} => k = 0
          /\ mem = [prog |-> prog, to |-> to, n |-> n, step |-> step, len |-> len,
                    pos |-> 0, wrote |-> 0, buf |-> <<>>, log |-> <<>>, last |-> <<>>,
                    said |-> [p \in Opens |-> "nothing"], seen |-> <<>>]
          /\ os = [file |-> [f1 |-> Bytes(k), f2 |-> <<>>], first |-> k,
                   exists |-> ex, creator |-> IF ex THEN "other" ELSE "none",
                   linked |-> FALSE, blocks |-> 0, open |-> FALSE, locked |-> {},
                   touched |-> 0]
          /\ at = IF prog = "bad_exclusive_open" THEN [p \in Opens |-> "check"]
                  ELSE [main |-> "start"]

Go(l, k) == Move("main", l, k)
Fail(l) == Go(l, "failed") /\ UNCHANGED <<mem, os>>

(* s with the bytes b written at offset o; a hole reads as 0. *)
Written(s, o, b) ==
    IF b = <<>> THEN s
    ELSE [i \in 1 .. Max({Len(s), o + Len(b)}) |->
            IF i > o /\ i <= o + Len(b) THEN b[i - o] ELSE IF i <= Len(s) THEN s[i] ELSE 0]

-----------------------------------------------------------------------------
(* bad_exclusive_open: the second open() has O_CREAT but no O_EXCL. *)
Check(p) ==
    /\ at[p] = "check"
    /\ at' = [at EXCEPT ![p] = IF os.exists THEN "done" ELSE "create"]
    /\ mem' = [mem EXCEPT !.said[p] = IF os.exists THEN "already exists" ELSE "doesn't exist yet"]
    /\ UNCHANGED os

Create(p) ==
    /\ Move(p, "create", "done")
    /\ os' = [os EXCEPT !.exists = TRUE, !.creator = IF os.exists THEN @ ELSE p]
    /\ mem' = [mem EXCEPT !.said[p] = "created exclusively"]

OpenFails(p) == (Move(p, "check", "failed") \/ Move(p, "create", "failed")) /\ UNCHANGED <<mem, os>>

bad_exclusive_open == \E p \in Opens : Check(p) \/ Create(p) \/ OpenFails(p)

-----------------------------------------------------------------------------
(* copy: the new file is truncated before anything is read. *)
OpenBoth ==
    /\ Go("start", "read")
    /\ os' = [os EXCEPT !.file[mem.to] = <<>>]
    /\ UNCHANGED mem

Read ==
    /\ Go("read", "write")
    /\ LET s == os.file["f1"] IN
       /\ mem.pos < Len(s)
       /\ \E k \in 1 .. Min({BufSize, Len(s) - mem.pos}) :
             mem' = [mem EXCEPT !.buf = SubSeq(s, mem.pos + 1, mem.pos + k), !.pos = @ + k]
    /\ UNCHANGED os

(* Mutant: a partial write goes unnoticed. *)
WritePartial ==
    /\ Go("write", "read")
    /\ \E k \in 0 .. Len(mem.buf) :
          /\ os' = [os EXCEPT !.file[mem.to] = Written(@, mem.wrote, SubSeq(mem.buf, 1, k))]
          /\ mem' = [mem EXCEPT !.buf = <<>>, !.wrote = @ + k]

(* write() of all of the buffer, or of some of it: fatal(). *)
Write ==
    /\ at.main = "write"
    /\ \E k \in 0 .. Len(mem.buf) :
          /\ os' = [os EXCEPT !.file[mem.to] = Written(@, mem.wrote, SubSeq(mem.buf, 1, k))]
          /\ mem' = [mem EXCEPT !.buf = <<>>, !.wrote = @ + k]
          /\ at' = [at EXCEPT !.main = IF k = Len(mem.buf) THEN "read" ELSE "failed"]

Eof == mem.pos >= Len(os.file["f1"]) /\ Go("read", "done") /\ UNCHANGED <<mem, os>>

copy == OpenBoth \/ Read \/ Write \/ Eof \/ Fail("start") \/ Fail("read")

-----------------------------------------------------------------------------
(* seek_io: one argument after the other. *)
Ops == Len(mem.log)

ReadBytes(len) ==
    /\ at.main = "start" /\ Ops < MaxOps
    /\ LET s == os.file["f1"]
           b == SubSeq(s, mem.pos + 1, Min({Len(s), mem.pos + len}))
       IN  mem' = [mem EXCEPT !.last = <<mem.pos, len, b>>, !.pos = @ + Len(b),
                              !.log = Append(@, <<0, 0>>)]
    /\ UNCHANGED <<at, os>>

(* write() may write less than it was given; that is printed and no error. *)
WriteBytes(len) ==
    /\ at.main = "start" /\ Ops < MaxOps
    /\ \E k \in IF len = 0 THEN {0} ELSE 1 .. len :
          /\ os' = [os EXCEPT !.file["f1"] = Written(@, mem.pos, [i \in 1 .. k |-> Ops + 1])]
          /\ mem' = [mem EXCEPT !.log = Append(@, <<mem.pos, k>>), !.pos = @ + k]
    /\ UNCHANGED at

Seek(off) ==
    /\ at.main = "start" /\ Ops < MaxOps
    /\ mem' = [mem EXCEPT !.log = Append(@, <<0, 0>>), !.pos = off]
    /\ UNCHANGED <<at, os>>

(* getLong(), malloc(), lseek() to a negative offset, an unknown letter. *)
seek_io ==
    \/ \E k \in 0 .. MaxFile : ReadBytes(k) \/ WriteBytes(k) \/ Seek(k)
    \/ Fail("start")
    \/ Go("start", "done") /\ UNCHANGED <<mem, os>>

-----------------------------------------------------------------------------
(* write_bytes: an old file is not truncated. *)
WriteBuffer ==
    /\ at.main = "start" /\ mem.wrote < mem.n
    /\ LET thisWrite == Min({BufSize, mem.n - mem.wrote}) IN
       \E k \in 0 .. thisWrite :
          /\ os' = [os EXCEPT !.file["f1"] = Written(@, mem.wrote, [i \in 1 .. k |-> 1])]
          /\ mem' = [mem EXCEPT !.wrote = @ + k]
          /\ at' = [at EXCEPT !.main = IF k = thisWrite THEN "start" ELSE "failed"]

write_bytes ==
    \/ WriteBuffer
    \/ mem.wrote = mem.n /\ Go("start", "done") /\ UNCHANGED <<mem, os>>
    \/ Fail("start")                               \* malloc(), open(), fsync(), close()

(* mmcat: the length is that of fstat().  Of an empty file errExit() makes *)
(* a failure.  If the page is cut off meanwhile write() fails; of a page   *)
(* that is still there the bytes past the end of the file read as 0.       *)
Fstat ==
    /\ at.main = "start"
    /\ mem' = [mem EXCEPT !.n = Len(os.file["f1"])]
    /\ at' = [at EXCEPT !.main = IF os.file["f1"] = <<>> THEN "failed" ELSE "write"]
    /\ UNCHANGED os

WriteMapped ==
    /\ at.main = "write"
    /\ LET s == os.file["f1"] IN
       \E k \in IF s = <<>> THEN {0} ELSE 0 .. mem.n :
          /\ mem' = [mem EXCEPT !.buf = [i \in 1 .. k |-> IF i <= Len(s) THEN s[i] ELSE 0]]
          /\ at' = [at EXCEPT !.main = IF k = mem.n THEN "done" ELSE "failed"]
    /\ UNCHANGED os

mmcat == Fstat \/ WriteMapped \/ Fail("start") \/ Fail("write")

-----------------------------------------------------------------------------
(* t_unlink: df shows the blocks in use; those of a closed file without a  *)
(* name may be freed late.                                                 *)
OpenExclusive ==
    /\ Go("start", "unlink")
    /\ os' = [os EXCEPT !.linked = TRUE, !.open = TRUE]
    /\ mem' = [mem EXCEPT !.seen = <<os.blocks>>]

Unlink == Go("unlink", "write") /\ os' = [os EXCEPT !.linked = FALSE] /\ UNCHANGED mem

WriteBlock ==
    /\ at.main = "write" /\ mem.wrote < mem.n
    /\ mem' = [mem EXCEPT !.wrote = @ + 1]
    /\ os' = [os EXCEPT !.blocks = @ + 1]
    /\ UNCHANGED at

SeeWritten ==
    /\ mem.wrote = mem.n /\ Go("write", "close")
    /\ mem' = [mem EXCEPT !.seen = Append(@, os.blocks)] /\ UNCHANGED os

Close == Go("close", "see") /\ os' = [os EXCEPT !.open = FALSE] /\ UNCHANGED mem

SeeFreed == Go("see", "done") /\ mem' = [mem EXCEPT !.seen = Append(@, os.blocks)] /\ UNCHANGED os

(* The name was taken, unlink() fails, the disk is full.                   *)
(* The end of the process closes the descriptor.                           *)
UnlinkFails ==
    /\ Go("start", "failed") \/ Go("unlink", "failed") \/ Go("write", "failed")
    /\ os' = [os EXCEPT !.open = FALSE]
    /\ UNCHANGED mem

t_unlink == OpenExclusive \/ Unlink \/ WriteBlock \/ SeeWritten \/ Close \/ SeeFreed \/ UnlinkFails

FreeBlocks ==
    /\ ~os.linked /\ ~os.open /\ os.blocks > 0
    /\ os' = [os EXCEPT !.blocks = 0]
    /\ UNCHANGED <<at, mem>>

-----------------------------------------------------------------------------
(* memlock: len pages from every multiple of step on, as long as they fit; *)
(* mlock() fails at the limit; mlockall() at the end.                      *)
Mlock ==
    /\ at.main = "start" /\ mem.pos + mem.len <= mem.n
    /\ os' = [os EXCEPT !.locked = @ \cup mem.pos .. (mem.pos + mem.len - 1)]
    /\ mem' = [mem EXCEPT !.pos = @ + mem.step]
    /\ UNCHANGED at

Mlockall ==
    /\ mem.pos + mem.len > mem.n /\ Go("start", "done")
    /\ mem' = [mem EXCEPT !.seen = <<os.locked>>]
    /\ os' = [os EXCEPT !.locked = 0 .. (mem.n - 1)]

memlock == Mlock \/ Mlockall \/ Fail("start")

-----------------------------------------------------------------------------
(* Another process appends to copy's or mmcat's input, or truncates        *)
(* mmcat's.                                                                *)
Touch ==
    /\ mem.prog \in {"copy", "mmcat"} /\ os.touched < MaxTouched
    /\ \/ os' = [os EXCEPT !.file["f1"] = Append(@, 9), !.touched = @ + 1]
       \/ /\ Runs("mmcat")
          /\ os' = [os EXCEPT !.file["f1"] = <<>>, !.touched = @ + 1]
    /\ UNCHANGED <<at, mem>>

Program ==
    \/ Runs("bad_exclusive_open") /\ bad_exclusive_open
    \/ Runs("copy") /\ copy
    \/ Runs("seek_io") /\ seek_io
    \/ Runs("write_bytes") /\ write_bytes
    \/ Runs("mmcat") /\ mmcat
    \/ Runs("t_unlink") /\ t_unlink
    \/ Runs("memlock") /\ memlock

Ended == \A p \in DOMAIN at : at[p] \in {"done", "failed"}

Next ==
    \/ Program
    \/ mem.prog \in Progs /\ Touch
    \/ Runs("t_unlink") /\ FreeBlocks
    \/ mem.prog \in Progs /\ Ended /\ UNCHANGED machine

(* The kernel runs every process, and frees what nobody uses. *)
Fairness == WF_machine(Program) /\ WF_machine(Runs("t_unlink") /\ FreeBlocks)

-----------------------------------------------------------------------------
(* Byte i of seek_io's file: that of the last write that covers it, the    *)
(* old file's, or a hole.                                                  *)
ByteAt(i) ==
    LET covers == {n \in 1 .. Ops : mem.log[n][1] < i /\ i <= mem.log[n][1] + mem.log[n][2]}
    IN  IF covers # {} THEN Max(covers) ELSE IF i <= os.first THEN 100 + i ELSE 0

Done == DOMAIN at = {"main"} /\ at.main = "done"

(* What a program that reports success has done, whatever else happens to  *)
(* the file meanwhile:                                                     *)
(* - bad_exclusive_open: whoever made the file says so, and nobody if it   *)
(*   was there; but the other may say so too, if it had checked before;    *)
(* - copy: the copy is all there was, or with what was appended; of a file *)
(*   copied to itself nothing is left;                                     *)
(* - seek_io: the file is what its writes make of it; "end-of-file" is     *)
(*   said at the end of the file, or if 0 bytes were asked for;            *)
(* - write_bytes: n bytes are written and the old file's rest remains;     *)
(* - mmcat: as many bytes as fstat() said, all the file's if nobody        *)
(*   touched it;                                                           *)
(* - t_unlink: the blocks are in use without a name;                       *)
(* - memlock: the whole runs of len pages, and no page beyond the mapping. *)
FilesTrue ==
    /\ Runs("bad_exclusive_open") =>
          /\ os.creator = "other" => \A p \in Opens : mem.said[p] # "created exclusively"
          /\ \A p \in Opens : /\ os.creator = p => mem.said[p] = "created exclusively"
                              /\ mem.said[p] = "already exists" => os.creator # "none"
    /\ Runs("copy") /\ Done =>
          IF mem.to = "f2"
          THEN /\ IsPrefix(os.file["f2"], os.file["f1"])
               /\ IsPrefix(Bytes(os.first), os.file["f2"])
          ELSE \A i \in DOMAIN os.file["f1"] : os.file["f1"][i] = 9
    /\ Runs("seek_io") =>
          /\ os.file["f1"] = [i \in 1 .. Len(os.file["f1"]) |-> ByteAt(i)]
          /\ mem.last # <<>> /\ mem.last[3] = <<>> =>
                mem.last[2] = 0 \/ mem.last[1] >= os.first
    /\ Runs("write_bytes") /\ Done =>
          os.file["f1"] = [i \in 1 .. Max({mem.n, os.first}) |-> IF i <= mem.n THEN 1 ELSE 100 + i]
    /\ Runs("mmcat") /\ Done =>
          Len(mem.buf) = mem.n /\ (os.touched = 0 => mem.buf = Bytes(os.first))
    /\ Runs("t_unlink") /\ Done =>
          mem.seen[1] = 0 /\ mem.seen[2] = mem.n /\ mem.seen[3] \in {0, mem.n}
    /\ Runs("memlock") =>
          /\ os.locked \subseteq 0 .. (mem.n - 1)
          /\ Done => mem.seen[1] =
                UNION {(k * mem.step) .. (k * mem.step + mem.len - 1) :
                          k \in {k \in 0 .. mem.n : k * mem.step + mem.len <= mem.n}}

(* Every program ends, and the blocks of the unlinked file are freed. *)
FilesEnd ==
    /\ (mem.prog \in Progs) ~> (mem.prog \in Progs /\ Ended)
    /\ (Runs("t_unlink") /\ os.blocks > 0) ~>
          (Runs("t_unlink") /\ (os.blocks = 0 \/ os.linked))
=============================================================================
