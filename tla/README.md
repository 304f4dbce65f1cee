# Formal models of my-linux-programming-interface

The repository is one author's way through *The Linux Programming Interface*:
some 200 small C programs, most with one purpose each, and a library under
`lib/`. There is no central data structure. What the programs have in common is
the kernel between them: they fork, signal each other, share memory, files,
pipes, sockets and terminals, and nearly all of their difficulty lies in the
order in which these things happen. A test fixes one order; the models here
check them all, for small instances, and most of the safety properties are proved
for every instance.

Contents: 1 inventory, 2 how the models are built, 3 the modules, 4 the runs,
5 fairness, 6 proofs, 7 what the models say about the code, 8 what is not
modelled, 9 plan.

## 1. Inventory

| Component | Code | State | Operations | What is hard | Correct means |
|---|---|---|---|---|---|
| Shared counter | `30-thread-sync/thread_incr*.c`, `thread_incr_psem.c`, `thread_incr_spinlock.c` | `glob`, a lock, two loop counters | load, store, lock, unlock, create, join | load and store interleave; `int` wraps | with a lock the sum is exact; without, how much can be lost |
| Producers and consumer | `prod_condvar.c`, `prod_no_condvar.c` | `avail`, mutex, condition variable | produce, signal, wait, consume | signal after unlock, spurious wakeups, counts of zero and less | no unit lost, no wakeup missed, an end exactly when there is something to consume |
| Joining any thread | `thread_multijoin.c` | per-thread state, `numLive`, `numUnjoined` | mark, signal, wait, join | join with the mutex held | the join cannot block |
| Cancellation | `32-thread-cancel/` | mutex, buffer, cleanup stack | cancel, wait, cleanup | the request may come at any cancellation point | the handler finds the mutex its own and frees everything |
| Thread-safe `strerror()` | `31-thread-safe-specific/` | static, thread-specific or `__thread` buffer | three implementations | a pointer used after another thread's call | each thread prints its own message where the version promises it |
| Reaping children | `multi_SIGCHLD.c`, `multi_wait.c` | children, pending and blocked SIGCHLD | fork, exit, reap, suspend | signals coalesce; test and wait | no zombie forgotten, no wakeup missed |
| Parent and child | `fork_sig_sync.c`, `fork_whos_on_first.c`, `pipe_sync.c` | signal, pipe ends | fork, signal, close, wait | either may run first | the parent goes on only after the children's work |
| `system()` | `27-process-execute/` | mask, three dispositions, child | block, ignore, fork, exec, wait, restore | caller's handlers, failures half way | status, mask and dispositions right on every path |
| Process group, daemon | `orphaned_pgrp_SIGHUP.c`, `lib/become_daemon.c` | members, descriptors, session | stop, exit, SIGHUP; fork, setsid, close | the kernel's hangup against late stops; failing calls | everyone stopped is woken; a daemon has no terminal |
| PID file | `lib/create_pid_file.c` | file name, inodes, locks, content | open, lock, truncate, write, delete, crash, exec | name and inode part company | one instance, and the file names it |
| File locks | `55-filelock/i_fcntl_locking.c`, `t_flock.c`, `lib/region_locking.c` | byte ranges locked per process or per open file description, waiters | get, set, set and wait, unlock, convert, close | splitting, self-conversion, rings of waiters, OFD locks that the kernel does not search for rings | write locks exclude, a refusal names a holder, no ring among traditional locks |
| POSIX objects | `52-posix-msgqueue/pmsg_*.c`, `53-posix-semaphore/psem_*.c`, `54-posix-sharedmem/pshm_*.c` | a name, the objects that had it, values, contents, queues | create, open, post, wait, resize, map, send, receive, unlink | the name is unlinked and made again between a tool's open and its use; a buffer sized before the resize | a tool reports what the object it opened held |
| Pipes | `44-ipc-pipe-fifo/simple_pipe.c`, `pipe_ls_wc.c`, `popen_glob.c` | every process's descriptors, the pipe | fork, close, dup2, read, write, wait | who closes what; descriptors 0 and 1 closed by the caller; SIGPIPE | everything written is read, the reader sees the end |
| Fork, exit and status | `24-process-create/`, `25-process-exit/`, `26-process-watch/child_status.c`, `make_zombie.c`, `28-process-detail/t_clone.c`, `49-mmap/anon_mmap.c`, `lib/print_wait_status.c` | memory and stdio buffers of two processes, the shared open file, wait status | fork, vfork, clone, write, exit, wait | either runs first; buffers copied by fork(); which status bits mean what | shared means shared, copied means copied, output as often as it was written, every status has a name |
| Errors and numbers | `lib/error_functions.c`, `lib/get_num.c`, `lib/itimerspec_from_str.c`, `25-process-exit/exit_handlers.c` | errno, stdout's buffer, exit handlers; an argument | the seven error functions; getNum(), getLong(), getInt() | flush order, a child's exit handlers, errno saved; bases, overflow, flags | the message names the error and follows the output; a number exactly for a numeral in range |
| Files and mappings | `4-fileio/copy.c`, `seek_io.c`, `5-fileio-detail/bad_exclusive_open.c`, `13-io-buffering/write_bytes.c`, `18-directory-and-link/t_unlink.c`, `49-mmap/mmcat.c`, `50-mmap-control/memlock.c` | file contents, offsets, links, locked pages | read, write, seek, truncate, map, unlink | another process changes the file in between | what was there is copied, nobody but the creator believes it created (unless it had checked before) |
| Sequence numbers | `44-ipc-pipe-fifo/fifo_seqnum_*`, `59-socket-internet/is_seqnum_*`, `lib/inet_sockets.c`, `lib/read_line.c`, `lib/rdwrn.c` | `seqNum`, FIFOs, connections, streams | request, reply, address loops, partial transfers | clients that die; wrap; short reads | no number twice, everyone served, exact transfers, no descriptor left |
| Echo service | `60-socket-design/is_echo_*`, `61-socket-advanced/is_echo_cl.c` | connections, children, zombies | accept, fork, reap, half-close | coalescing SIGCHLDs, inherited descriptors | everything echoed, sessions end, no zombie |
| Datagrams | `ud_ucase_*`, `i6d_ucase_*`, `id_echo_*` | queues of datagrams | send, receive, answer | loss, duplication, no timeout | answers are the asker's |
| UNIX streams | `57-socket-unix/us_xfr_*.c`, `57-experimental/socketpair-sample.c` | a socket name, connections, buffers | bind, accept, connect, read, write | two servers fight for the name; partial reads; kills | a server prints its clients' bytes whole and in order |
| Ancillary data | `scm_rights_*`, `scm_cred_*`, `lib/unix_sockets.c` | open files, messages, SO_PASSCRED | send, receive | options set late, uninitialised descriptor | the right file at the right offset, the right credentials |
| Events | `self_pipe.c`, `demo_sigio.c`, `epoll_input.c`, `poll_pipes.c`, `t_select.c`, `mq_notify_*.c`, `23-timer/`, `20-`/`22-signal-*` counting programs | flags, pipes, queues, timers | handlers and main loops | the window between test and wait | nothing that arrived is left lying |
| Signal handlers | `21-signal-handler/sigmask_longjmp.c`, `nonreentrant.c`, `intquit.c`, `ouch.c`, `20-experimental/`, `demo_SIGFPE.c` | dispositions, mask, pending set, running handlers | catch, nest, jump, block | a handler runs anywhere in main() or in another handler | the mask after a jump, no lost count, no jump into nowhere |
| Terminal | `test_tty_functions.c`, `lib/tty_functions.c`, `64-pty/script.c`, `lib/pty_*.c` | settings, pseudoterminal queues | stop, resume, relay, exit handler | signals inside handlers; both ends full | the terminal is given back; the typescript is true |
| Job control | `34-process-credentials/job_mon.c`, `handling_SIGTSTP.c`, `catch_SIGHUP.c`, `disc_SIGHUP.c`, `34-experimental/sigttou.c`, `sighup-process.c` | groups, stopped processes, pending signals, a pipeline | stop, continue, hang up | a SIGCONT between two steps of the SIGTSTP handler; a disconnect while groups are being made | positions right, no SIGTSTP lost, SIGHUP reaches the group it was sent to |

`PROJECT.json` lists every component, also those that are not modelled, with
the reason, and the hazards at their lines.

The components hardly call each other. Where they do, the models say so:
`is_seqnum_sv` and `is_echo_sv` make their sockets through the loops of
`lib/inet_sockets.c`, and read lines through `lib/read_line.c` (both in
`Library`); `script` changes the terminal through `lib/tty_functions.c`;
`createPidFile()` locks through `lib/region_locking.c`, whose lock table is `Locks`; every error path ends in
`terminate()` of `lib/error_functions.c`, which aborts, exits or `_exit`s (`Errors`).

## 2. How the models are built

A program is a state machine whose steps are system calls and the accesses to
shared memory. All control is kept: each failing call, early return and handler.
Data is reduced to what the properties tell apart: a message is its sender and
number, a terminal setting a model value, a byte its position. The kernel's part
(coalescing signals, blocking opens, wait queues, locks that vanish with their
process) is modelled where the programs rely on it, and marked external in
`PROJECT.json`.

Programs with several processes of their own and a theorem have their own
variables. The smaller ones share the three variables of `Machine`: `at`
(positions), `mem` (the program's variables) and `os` (kernel objects). In a
behaviour `mem.prog` names the one program that runs, and the MC modules put
programs of a kind side by side: their next-state relation is the disjunction of
the programs', their properties conjunctions of the programs' own. Nothing is
gained by interleaving programs that do not know of each other, so the runs do
not do it.

Mutants: an operator under a comment that begins with "Mutant" is a plausible
bug in the definition that follows it, and the property it belongs to is known to
catch it. They are not part of any specification.

## 3. The modules

| Module | Models |
|---|---|
| `CInt` | `int` increments that wrap at a parameter `IntMax` |
| `ThreadIncr` | the four counter programs; `glob++` as load and store, three kinds of lock and none |
| `ProdCons` | both producer programs; `prog` chooses |
| `MultiJoin` | `thread_multijoin.c` |
| `ThreadData` | `32-thread-cancel` (cancellation points, cleanup handlers) and `31-thread-safe-specific` (three `strerror()`s) |
| `MultiSIGCHLD` | `multi_SIGCHLD.c`, `multi_wait.c`, children that also stop and continue |
| `Forking` | parents that wait for their children's work by a signal, a pipe or `wait()`; what `fork()`, `vfork()`, `clone()` and shared mappings copy and share; the status as the `int` it is, through `printWaitStatus()` |
| `Pipes` | `simple_pipe.c`, `pipe_ls_wc.c`, `popen_glob.c`: every process's descriptor table, SIGPIPE, failing forks, kills |
| `Errors` | the seven functions of `lib/error_functions.c` called by a process or its child, and `exit_handlers.c` |
| `Files` | `copy.c`, `seek_io.c`, `bad_exclusive_open.c`, `write_bytes.c`, `t_unlink.c`, `mmcat.c`, `memlock.c`, with another process that touches the file |
| `System` | `system()`, `my_system()` and `simple_system()` under a caller with its own dispositions and SIGCHLD handler |
| `PidFile` | `createPidFile()` by several processes; the callers delete the file or do not, with and without `CPF_CLOEXEC` |
| `Locks` | `i_fcntl_locking.c` and `lib/region_locking.c` over byte ranges, traditional and OFD locks; `t_flock.c` |
| `PosixObjects` | the tools of `52-`, `53-` and `54-posix-*`, one system call per step, over one name |
| `FifoSeqnum`, `IsSeqnum` | the two sequence-number services |
| `SeqnumService` | what both promise: each client attended to once, in one step that reserves a fresh range |
| `Library` | `inetConnect()`, `inetBind()` and so on; `readLine()`, `readn()`, `writen()`; `getNum()`, `getLong()`, `getInt()`, `itimerspecFromStr()` |
| `EchoServer` | the forking echo server and its two clients |
| `Transfers` | datagram services; `us_xfr_sv`/`us_xfr_cl`, and the socket pair |
| `ScmPass` | descriptors and credentials passed over a socket |
| `SignalIO`, `Signals`, `MqNotify`, `Polling` | the programs that wait for events: self-pipe and SIGIO; counted signals and timers; message notification; epoll, `poll()` and `select()` |
| `Handlers` | handlers that interrupt `main()` anywhere, nest and jump |
| `TtySuspend`, `Script` | terminal modes across a stop; `script` and its shell |
| `JobControl` | `job_mon` pipelines, `handling_SIGTSTP.c`, `sigttou.c` |
| `Sessions` | the orphaned group, a terminal that disconnects, `becomeDaemon()` |
| `Machine` | the variables of the smaller programs |
| `MCThreads`, `MCChildren`, `MCSeqnum`, `MCObjects`, `MCSockets`, `MCTty`, `MCEvents` | programs of a kind, side by side |
| `*_proofs` | theorems; `MCEvents_proofs` has those about `System` too |

A module that models several programs has a section for each, with its own
initial states, steps, fairness and properties; `Init`, `Next` and `Fairness` at
the end put them together.

Definitions have the names of the functions and calls they model where TLA+
allows; `PROJECT.json` gives the lines. Some correspondences that are not
obvious:

* A label such as `at.script = "write"` stands between two system calls: the
  process is about to make the call, or blocked in it.
* `Exit`, `ErrExit` and `Fail` are the ends of a program. Which of them runs
  exit handlers matters in `Script` and `FifoSeqnum`, and is modelled there.
* `EchoServer.Stop` is the operator's key in `stop()`, which `is_echo_sv` calls
  after a fork.
* In `TtySuspend`, `stack` holds interrupted handlers; only its head runs, so a
  signal may arrive at each point of each handler.
* In `Transfers` a queue of datagrams is what has arrived. Over UDP a datagram may be dropped,
  or put anywhere in the queue, and twice.
* In `Script` a chunk is what one `read()` takes. The echo of the line discipline
  counts as output of the shell.
* In `Locks` a lock is a set of bytes of one owner, and an owner is a pair: a
  process with 0 (traditional), or a process with the number of one of its open
  file descriptions (OFD). `Replaced` exchanges the owner's bytes in the range, which
  is splitting, merging and conversion at once.
* In `FifoSeqnum` and `IsSeqnum`, `reserved` is a history variable: the numbers handed
  out so far, counted without the wrap of `seqNum`. No guard reads it.
* In `PosixObjects` an object outlives its name; `mem.obj[p]` is the one the tool of
  shell `p` has opened, `os.name` what the name means now.
* In `Forking` a status is the number `wait()` returns, and the `WIF...` macros and
  their order in `printWaitStatus()` are arithmetic on it.
* In `Library` an argument is a sign, a prefix, digits and perhaps a junk character;
  `strtol()` is the external part, `getNum()` with its flags is the code's.
* In `Errors` a process has stdout's buffer and a stack of exit handlers, both
  copied by `fork()`; `terminate()` is one of abort, `exit()` and `_exit()`.

## 4. The runs

| Run | Question | Bounds |
|---|---|---|
| `threads` | do the thread programs keep their promises? `FinalCount` (exact with a lock, never below 2 without), `JoinCannotBlock`, `NoLostWakeup`, `ThreadsOwn`, `ThreadsEnd` | 3 threads to join, every loop count up to `IntMax` = 6, so that the sum of two wraps |
| `prod_cons` | `Conservation`, `NoLostWakeup`, `EndsIffUnits` | 2 producers, counts from -1 to 2: a producer that overtakes another, and totals below, at and above zero |
| `children` | `NoLostChild`, `HandlerOnlySuspended`, `SyncedWithChildren`, `SharedTrue`, `ChildrenEnd` | 3 children: one reaped, one ending during the handler, one after it; a pipe of 2 for 4 bytes; files of 3 bytes through buffers of 2, touched twice; 3 changes of a child's state |
| `system` | `MaskAndIntRestored`, `StatusNotLost`, `KeyboardSignals`, `CallReturns` | 2 calls (what the first leaves behind meets the second), 2 keys, 1 EINTR |
| `seqnum` | `NoNumberTwice`, `ImplementsService`, `LibraryFunctions`, `EveryoneServed` | 3 FIFO clients, 2 TCP clients, an `int` of 4 values, 3 addresses, streams of 3 bytes into buffers of up to 4, arguments of 2 digits against `LONG_MAX` = 127 and `INT_MAX` = 31 |
| `objects` | `OneInstanceIfKept`, `FileNamesInstance`, `RefusedOnlyByLive`, `LocksTrue`, `ObjectsTrue`, `FlocksEnd` | 3 processes, 3 inodes, 1 exec: holder, contender and newcomer, old, deleted and new file; 2 users and 1 library caller on 2 bytes with 3 locks: a range split, a ring of two; 2 shells, 4 tools, 2 objects under the name |
| `sockets` | `NoForgottenZombie`, `EchoComplete`, `MessagesTrue`, `AncillaryTrue`, `SocketsEnd` | 2 clients; 2 pieces or messages, sizes around `BUF_SIZE`, 1 duplication; 2 senders; 2 servers for one name, 3 bytes through a buffer of 1, 1 fault |
| `tty` | `SuspendHandsOver`, `EndGivesBack`, `ScriptTrue`, `SessionsTrue`, `TerminalsEnd` | 2 stops, 2 settings; 3 keys and 3 chunks against queues of 1, so that both sides block; 3 members of an orphaned group, a pipeline of 3 with 2 signals; 4 descriptors, a limit that closes all but the last or all of them, or none at all; 2 children at a hangup |
| `events` | `NothingStranded`, `ReportsTrue`, `EventsEnd` | more signals, keys and messages (4) than pipe and queue hold (2); 2 pipes of 3 for 4 writes; 2 descriptors, an event list of 1; `select()` arguments from -1 to past FD_SETSIZE |
| `system_restore`, `fifo_seqnum_survives`, `pid_file_deleted` | a comment in the code against what the code does; each is violated (section 7) | the smallest that shows it |

`ImplementsService` is a refinement: `FifoSeqnum` and `IsSeqnum`, each under its
mapping in `MCSeqnum`, implement `SeqnumService!Spec`. Both servers send the
response first and advance `seqNum` afterwards; the mapping puts the two into the
step that sends, so what is checked is that nobody can see the window, not a client
that dies in it either.

The bounds are small because the programs treat their processes alike: a lost
signal takes one that is handled and one that coincides, a stale lock takes three
processes. Queues are shorter than what is put into them, counters wrap within
the run, and each action of every module is taken. Deadlock is checked except in
`seqnum`, `sockets` and `tty`, where servers, or `script`, wait for ever, and in
`fifo_seqnum_survives`; elsewhere a program that has ended stutters explicitly, so
that any other stop is reported.

Each property is stated, with the exceptions the code really has, in the module
of its program, under a comment that names the behaviour. The MC modules only
conjoin them: `SharedTrue` is `PipeWhole`, `ForkShares`, `ErrorsTrue` and `FilesTrue`, and so
on for each property with a general name.

## 5. Fairness

A process or thread that can run is scheduled in the end: weak fairness of each
program's step (`WF` of `Server`, `Client(c)`, `Main` ...). Strong fairness is
assumed in three places: for a thread that must take a mutex others also take
(`ProdCons`, `MultiJoin`, and `main()` of the cancelled threads in `ThreadData`), since the kernel wakes
a waiter of an unlocked futex; and for the exit of a child that may be stopped
and continued (`MultiSIGCHLD`). Clocks tick (`Signals`, `Sessions`,
and the timeout of `select()` in `Polling`), writers of FIFOs close in the end
(`Polling`), the input of a `us_xfr` client ends, and blocks of an unlinked file are
freed once nobody has it open (`Files`).

Nothing is assumed of users, the network, failures or signals from outside: keys,
losses, kills, crashes and spurious wakeups happen or do not. So there is no
claim that a UDP client is ever answered, and `ScriptEnds` says nothing of a shell
that simply goes on. `TtySuspend`, `PidFile`, `PosixObjects`, the
byte-range locks and `ScmPass` have safety properties only: their users need not
come back. `JobControl` says nothing of a process the user has stopped.

## 6. Proofs

The theorems hold for every value of the constants; TLAPS checks them. What is
assumed of the constants stands in named `ASSUME`s, which TLC evaluates in the runs:
bounds are natural numbers; `INT_MAX`, the number of threads, of children and the size of
`write_bytes`' buffer (the programs refuse 0), `copy`'s buffer, the size of a pipe and the number of inodes are
at least 1; sets of processes do not hold the
names the model gives to others ("main", "none", "recv" ...), and servers are no clients;
and the producers of `ProdCons` and the shells of `PosixObjects` are finitely many.

Each proof has the shape `Init => IInv`, `IInv /\ [Next]_vars => IInv'` with one step or
lemma per action, `IInv => property`, and a last step by temporal logic. TLC was asked
first whether `IInv` holds. A proof about programs that share `Machine` has one more
invariant, `ProgInv`: which program runs never changes, so that the steps of the
others are none of its own.

**`MCThreads_proofs`** (`threads`). `NoLostUpdate` (`[]FinalCount`) speaks of the value
printed at the end, so the invariant has to count on the way. With a lock, `glob` is
the wrapped sum of the increments both threads have stored, and a thread between load
and store still has the current value (`SumInv`); that needs mutual exclusion
(`LockInv`), the loop bounds (`LoopInv`) and that `main()` prints after both joins
(`JoinInv`). Without one, `BoundInv` bounds `glob` and what each thread has loaded from
both sides: no value exceeds the number of increments stored, a thread that has stored
one has loaded at least 1 for its next, and so once both have stored two, `glob` is at
least 2. `JoinSafe`, `WakeupSafe` and `CountersCorrect` are
about `thread_multijoin.c`: `StateInv` ties a thread's state to its position, `CountInv` the
two counters to the cardinalities of sets of threads. `ThreadsOwnAlways` adds who owns
the mutex wherever a cancel may strike (`OwnerInv`, `HandlerInv`, `RequestInv`), and which
buffer each `strerror()` caller holds and whose message is in it (`BlocksInv`,
`MessageInv`).

**`ProdCons_proofs`** (`prod_cons`). `WakeupSafe`; `ExactUpdates`, an action property;
`UnitsConserved` (`[]Conservation`) with its step form `EveryStepConserves`; and
`NothingAskedNoEnd`, the safety half of `EndsIffUnits`. A sum over all producers would be
induction over data; instead the units are counted as a set of pairs (producer, number),
whose cardinality is `avail` plus what `main()` has consumed (`SumInv`). `LoopInv`, `PlaceInv`
and `DoneInv` say which units a producer at a given place has added, `WantInv` that
`main()` takes no more than it was asked for.

**`MCChildren_proofs`** (`children`). `HandlerSafe` and `NoChildLost`: `MaskInv` says when
SIGCHLD is blocked, `ZombieInv` that a zombie has a pending signal or a running handler,
`LiveInv` that `numLiveChildren` counts the unreaped ones. `ParentSynced`
(`[]SyncedWithChildren`): from before `fork()` until the parent waits the signal is blocked
and has its handler, and until then it is pending exactly if the child has worked and sent
it (`SignalInv`); a child at work holds the pipe open, from before the parent looks for its
end, and has closed it by finishing or by its death (`PipeInv`); and before round j of `fork_whos_on_first` all earlier children are
reaped and 2(j-1) lines are written, the lines in the order of the rounds (`RoundInv`).

`SharedAlways` (`[]SharedTrue`) joins four theorems, one per module. `ForkSharesAlways`: an
invariant per program gives the places parent and child can be in together and what each
has printed and still buffers there (`StateInv`); for `child_status`, that a report is
the name of the change that was pending. `PipesAlways`: the descriptors a process holds are a
function of its place (`Table` with `SimpleR`, `SimpleW` and so on), for whichever of the
standard descriptors were closed at the start; what is written, in the pipe and read adds up
(`SimpleData`, `LsData`, `GlobData`), and nobody reads an end before the last writer is gone.
`ErrorsAlways`: the output is, at each place between buffer, message and handlers, the prefix
its place says (`CallerParts`); for `exit_handlers`, the handlers already run are the last ones
of the list in reverse (`HandlersParts`). `FilesAlways` has an invariant per program over the
file's bytes: what `copy` has written is the beginning of the input, or of the file itself
that it truncated (`CopyIs`, `SelfIs`); every byte of `seek_io`'s file comes from the last
write that covers it (`SeekIs`); `write_bytes` leaves ones and then the old rest
(`OnesThenOld`); `mmcat`'s file is as `fstat()` found it while nobody touches it; the pages
locked are the runs passed so far (`RunsOf`). What `write()` at an offset makes of a file is
stated once, as a predicate on the two files (`IsWritten`), which the programs' steps share.

**`MCEvents_proofs`** (`system`, `events`). Part 1 is about `System`. `MaskAndIntRestoredAlways`, `StatusNeverLost`,
`KeyboardSignalsRight`, and the action property `SettingsStable`: while the command exists
nobody changes the settings the child reads. The invariant follows the position: what
is blocked and ignored before and after each call (`MaskInv`, `DispInv`), the same for the
child between its two `sigaction()` calls and its `sigprocmask()` (`ChildMaskInv`,
`ChildDispInv`), and who may have reaped it (`StatusInv`). SIGQUIT is
absent from the theorem since it is not restored (`system_restore`).

Part 2 is about the programs that wait for events. `NothingStrandedAlways`
(`[]NothingStranded`) and `ReportsAlways` (`[]ReportsTrue`) share `EventsInv`, a disjunction
with one part per program; `Which` and `WhichHandler` say that the program that runs
decides which part holds. The self-pipe holds a byte exactly if a signal was caught, as long
as `select()` is to be called or blocked (`SelfParts`). Input unread in `demo_sigio` has the
flag set or a signal pending (`SigioParts`). The registration for a queue is in exactly one
place: with the kernel, on its way as a signal, or with whoever is about to register again;
and a registered queue that is not empty is being read or was stale (`MqParts`). A FIFO that
`epoll_wait()` reported as hung up and empty is still so, or was opened again (`EpollParts`).
The writes of `poll_pipes` are numbered and each is in one pipe, so that the pipes reported
are mapped one to one into the writes: this bounds their number without a sum over the
pipes (`PollParts`). The descriptor sets of `t_select` hold the arguments read so far, and nothing
else as long as none was negative (`SelectParts`); between the `read()` of `timed_read` and its
report, `errno` or the saved copy of it says EINTR exactly if the alarm interrupted it
(`ReadParts`); the realtime values caught and queued together are those sent, in order
(`CountParts`); what `t_nanosleep` has slept and what is left add up to what was asked
(`NanoParts`). `HandlersParts` has a part for each of the eight handler programs: which
handlers are on the stack, which signals are then blocked, and where the count stands
between a handler's steps; in `nonreentrant` a mismatch that `main()` may still report has a
handler behind it that is counted and not yet reported (`Owed`).

**`MCSeqnum_proofs`** (`seqnum`). `ServiceImplemented` is the refinement: initial states are
initial states of `SeqnumService`, and every step of either service is, under its mapping,
a step or a stutter. `NoNumberTwiceEver` (`[]NoNumberTwice`) says that ranges are disjoint
even across the wrap, as long as no more than `Ints` numbers were handed out. Its invariant
exhibits, for each client with a range, where the range starts in the unwrapped
count (`RangesInv` for the FIFOs, `CountInv` for TCP); the others say that a
request is served once (`OnceInv`) and where `seqNum` stands between the answer and its
increment (`SeqNumInv`, `ServerInv`).

**`MCSockets_proofs`** (`sockets`). `ZombiesRemembered`, `EchoIsComplete` and
`NothingInvented` about the echo service: for each connection received <= echoed <= read
<= sent (`BytesInv`), where the connection is (`PlaceInv`), and why the server's end of
it was closed (`EndInv`), which a server that ends does to the connections still in its
backlog too. `AncillaryAlways` (`[]AncillaryTrue`): whoever has sent a message is past `sendmsg()` and who has ended sends none (`MsgInv`); the receiver holds the one
file it took and nobody else moves its offset, which is `Skip` plus what was read
(`FileInv`); credentials are those of the message, and only a silent sender makes
`scm_cred_recv` fail (`CredInv`). `MessagesAlways` (`[]MessagesTrue`) has one invariant per
program (`TransferInv`). Datagrams: whatever is on its way, in whichever order, is a
question its sender has asked or the answer to it (`WayInv`); as long as nothing was
duplicated there is at most one per client, and none before the client asks (`SingleInv`,
`AskedInv`), so the k-th answer is the k-th message's (`GotInv`). `us_xfr`: every byte of a
client's input is held by the client, in the socket, held by its server or printed
(`ByteInv`, which counts occurrences in the output), a connection is queued, served or done
(`ConnInv`), and the bytes of the one being served are the last printed (`OrderInv`).
`socketpair-sample`: who holds which end (`EndsInv`) and which letter is where (`LetterInv`).

**`MCTty_proofs`** (`tty`). `HandsOver` (`[]SuspendHandsOver`) and the action property
`GivesBack` (`EndGivesBack`), with handlers interrupted by handlers: the form of
the stack of interrupted handlers (`StackInv`), the disposition of SIGTSTP at each place
(`DispInv`), what `userTermios` and `ourTermios` hold (`SavedInv`, `UserInv`, `OursInv`), and
what the terminal is set to while the program is stopped or about to be (`StopInv`,
`AwayInv`).

`ScriptAlways` (`[]ScriptTrue`): what the shell has written is on the screen, in `script`'s
buffer or in the queue of the pseudoterminal, numbered through in this order (`OutputInv`);
the typescript is one buffer behind at one place only (`FileInv`); and `read()` reports the
end only if `select()` found the queue empty and the slave closed, after which nobody writes
(`SlaveInv`, `ReadyInv`), which is why an end by end-of-file has lost nothing (`EndInv`).
`SessionsAlways` (`[]SessionsTrue`) has one invariant per program. The orphaned group: no
signal is sent before the parent ends, and a stopped child resumes with both signals
pending or handled (`OrphanInv`). The disconnect: where each process can be, who has a
handler and who has moved (`HupPlace`, `HupHandles`), that SIGHUP goes out once and to whom
(`HupSent`, `HupSettled`). `becomeDaemon()`: session, leadership and descriptors call by call
(`DaemonInv`). The pipeline: a position goes down a pipe once, from a process that stays in
`pause()` then, so that whoever gives up has a killed process before it (`PipeInv`); after
SIGCONT no SIGTSTP is pending and whoever is stopped or will stop was late (`StoppedInv`).
`TstpInv` gives the mask and the disposition at each place of the handler.

**`MCObjects_proofs`** (`objects`). `OneInstance`, `FileCorrect`, `RefusalCorrect` about the PID
file: `LockInv` says that whoever is past the lock holds it on the inode it opened,
`HolderInv` that a lock has one holder, a live process that has the inode open (so whoever is
refused is refused by such a process), `KeptInv`
that without deletions there is one inode and the name refers to it. Without `KeptInv` the
theorem is false, which is the run `pid_file_deleted`.

`LocksAlways` (`[]LocksTrue`): the locks agree and are those told (`HeldInv`), a waiter keeps
what it asked for (`WaitInv`), and no set of waiters for traditional locks is closed under
"waits for" (`RingInv`). The kernel follows the chain from the one that would wait;
`DeadlockCheck` states what it finds by the sets that are closed under one step, which needs
no induction over the chain: if the new waiter closed a ring, then a closed set with the
blocker and without the new waiter would meet that ring in a smaller one that was there
before. A waiter that is woken makes the check again, and a grant, a release or a quit only
takes waiters away. (The kernel gives up after a chain of ten waiters, the model does not:
for more than ten processes this part of the theorem is about a kernel that looks further.)

`ObjectsAlways` (`[]ObjectsTrue`). All three kinds: objects are numbered as they are made and a
tool at work has one of them open, whatever the name means now (`NamesInv`). Semaphores: a
value and the tools that have passed and not yet said so add up to the posts, as a
cardinality (`SemInv`). Shared memory: who is alone with an object shares it with no writer
(`Alone`); such a writer has copied what it says and zeros follow (`Copying`), an object
nobody copies to holds the last string (`Content`), and an object still to be made is empty
(`UntouchedInv`); from these, what a reader that is alone has read (`Reading`). Queues: a
message still to be sent is new (`ToolInv`), and one sent is in exactly one queue or was
received once (`SentInv`). Assumed: finitely many shells and bounds that are
natural numbers.

Only model-checked:

* every liveness property (`ThreadsEnd`, `ChildrenEnd`, `CallReturns`, `EveryoneServed`, `FlocksEnd`,
  `SocketsEnd`, `TerminalsEnd`, `EventsEnd`, and the other half of `EndsIffUnits`): the prover has
  no rule for fairness;
* `LibraryFunctions`: the results of loops over a stream, a list of addresses or a number:
  induction over data.

## 7. What the models say about the code

Three runs end in a violation on purpose; each sets a comment in the code against
the code:

* `system_restore`: `system()` gives SIGQUIT back with SIGINT's old disposition
  (`27-process-execute/system.c:64`; `t_system.c:87` likewise).
* `fifo_seqnum_survives`: "give up on client" ends the server instead
  (`fifo_seqnum_server.c:46`).
* `pid_file_deleted`: a caller of `createPidFile()` that deletes the file, as it is
  asked to, lets two instances run (`lib/create_pid_file.c:64`).

The properties of the passing runs state these windows as exceptions, since the
code has them:

* `catch_rtsigs.c:117`: SIGINT between the test of `allDone` and `pause()`.
* `timed_read.c:49`: an alarm before `read()` has started.
* `fork_sig_sync.c:54`: a child killed before its signal leaves the parent in `sigsuspend()`
  for ever.
* `fifo_seqnum_server.c:44`: a client killed between its request and its `open()` leaves the
  server in `open()`.
* `poll_pipes.c:41`: more writes to one pipe than it holds block the program.
* `t_select.c:52`: a negative descriptor passes the check of line 47 and reaches FD_SET(),
  which is undefined for it; the model sets any bit, or ends the program.
* `demo_sigio.c`: the loop may take one key past the `#`.
* `epoll_input.c:73`: a FIFO opened again after its hangup was reported is closed
  with the new writer's input.
* `test_tty_functions.c:86`: a fatal signal between the resume and the new
  `tcgetattr()` restores settings the user has since changed.
* `orphaned_pgrp_SIGHUP.c:99`: a child that stops after the parent's `sleep()`
  stays stopped.
* `lib/inet_sockets.c:98`: a failing `listen()` leaves its socket open.
* `lib/become_daemon.c:50`: descriptors above the limit, guessed or lowered since they were
  opened, stay open.
* `scm_rights_recv.c:77`: tests `sfd`, which has no value yet, instead of `lfd`;
  the model lets the receiver fail there for no reason.
* `scm_cred_recv.c:94`: a message sent before SO_PASSCRED is set arrives as nobody's.
* `64-pty/script.c:83`: a key typed as the shell ends makes `script` end with
  output unread, and a full pseudoterminal in both directions blocks both sides;
  a child that fails before it opens the slave leaves `script` waiting.
* `i_fcntl_locking.c:176`: two users that wait with F_OFD_SETLKW for each other wait
  for ever; Linux looks for rings among traditional locks only.
* `lib/region_locking.c:61`: `regionIsLocked()` returns -1 for an error, and also for a
  lock of an open file description, whose owner the kernel reports as -1.
* `job_mon.c:25`: a SIGCONT between SIGTSTP and the handler's `raise(SIGSTOP)` comes too
  early, and the process stays stopped; in `handling_SIGTSTP.c:21` it cancels the stop.
* `disc_SIGHUP.c:38`: a child that has not yet moved to its own group is hung up with
  the old one; one without its handler yet is killed.
* `pshm_write.c:20`: two writers of one object, or a reader between `ftruncate()` and the
  copy, see a mixture, and an emptied object under a mapping ends the copy early.
* `sigmask_longjmp.c:55`: with `longjmp()` SIGINT stays blocked after the first jump.
* `nonreentrant.c:64`: a handler inside `crypt()` or `strcmp()` makes `main()` see the
  other string.
* `20-experimental/pause.c`: a SIGINT before `pause()` does not end it.
* `bad_exclusive_open.c:56`: two processes may both believe they created the file.
* `copy.c:28`: a file copied onto itself is emptied. `seek_io.c:75`: `r0` prints
  "end-of-file" anywhere.
* `mmcat.c:27`: `errExit(EXIT_SUCCESS)` passes 0 as the format and ends an empty file as a
  failure; a file that is emptied after `fstat()` ends in "partial/failed write".

Seen while reading and outside the models: `is_echo_cl.c` connects to the
service "echo" while `is_echo_sv.c` listens on "12345"; `is_seqnum_sv.c:59` passes
`&optarg` to `setsockopt()`; TCP_DEFER_ACCEPT in `is_echo_sv` only delays `accept()`.

## 8. What is not modelled

Programs that print what one library call returns (time, users, limits,
environment, attributes of files and directories), that replace themselves by
another (`27-process-execute/t_exec*`), that demonstrate the linker, the allocator or
memory mappings, that create and join a single thread, and the benchmarks: they
have no state that outlives a call and nobody to share it with. The
formatting of addresses, times and numbers, and usage messages are left out of
modelled programs; `system(NULL)` is the same call with a fixed command. `ttySetRaw()` and `ttySetCbreak()` replace the settings as a whole.
Byte order, padding and alignment of messages are not looked at. Background
processes of the shell that keep `script`'s pseudoterminal open are not modelled.

## 9. Plan

Done, in this order: the thread programs, `System`, `PidFile` and `MultiSIGCHLD`, the two
services, the event programs, the terminal programs, datagrams and ancillary data; then
file locks, POSIX objects, the abstract service and its refinement, pipes, job control
and hangups, what `fork()` shares, handlers, errors, numbers and files; then the proofs of
section 6.

Every safety invariant and every action property of the passing runs is now a theorem,
except `LibraryFunctions`. That one and the liveness properties are out of the prover's
reach (section 6). What is left is in section 8.
