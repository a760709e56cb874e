# TLA+ verification of tlpiexer

tlpiexer is a collection of solutions to the exercises of *The Linux
Programming Interface*, kept beside the programs of the book. A solution is one
program, or a server with its client, under `src/src/imp`; functions that
exercises ask for are in `src/src/lib`; the book's programs, some of them
changed by an exercise, are under `src/tlpi`. The programs do not call each
other. What makes them worth a model is inside each one: threads, processes,
signals, pipes, message queues, semaphores, shared memory, file locks, sockets
and directories that change, whose order of events no test controls.

This directory holds TLA+ models of about 240 source files, TLC configurations
that check them on small instances, and TLAPS proofs of the safety of 24 groups
of programs for all instances. `PROJECT.json` maps every definition to the lines
it models. File names below are relative to `src/src` or `src/tlpi`.

## 1. The system and what is modelled

| Part | Source | Module |
|---|---|---|
| Shared-memory transfer | `imp/54-01-{writer,reader}.c` | `ShmTransfer`, `PeerProofs` |
| `one_time_init()` | `imp/31-01.c` | `OnceInit`, `QueueProofs` |
| Thread-safe "tree" | `imp/30-02.c` | `ThreadTree`, abstract `KeyMap`, `StoreProofs` |
| Unlocked counter, pending signals of threads, lines between threads | `imp/30-01.c`, `imp/33-01.c`, `imp/53-01.c` | `SmallThreads`, `TransferProofs` |
| Linked list, name server and client | `lib/59-04-llist.c`, `imp/59-04-*.c` | `LList`, `NameServer`, abstract `NameStore`, `StoreProofs` |
| Sequence numbers on message queues and FIFOs, files on System V queues | `imp/52-02-*.c`, `pipes/fifo_seqnum_*.c`, `svmsg/svmsg_file_*.c` | `RequestServers`, `RequestServersProofs` |
| File server on message queues | `imp/52-03-*.c` | `FileServerMq`, `QueueProofs` |
| Chat on message queues | `imp/52-04.c` | `ChatMq`, `PeerProofs` |
| Notification by `mq_notify()` | `pmsg/mq_notify_*.c`, with 52-05 and 52-06 | `MqNotify`, `QueueProofs` |
| Sequence numbers on stream sockets | `imp/57-03-*.c`, `imp/59-01-*.c` | `SeqNumSock` |
| Shell server, urgent and normal connection | `imp/61-05-*.c`, `lib/61-05.c`, `imp/61-06-*.c`, `lib/61-06.c` | `RemoteShells`, `ProgramProofs` |
| Echo servers | `sockets/is_echo_*.c` | `EchoServer`, `StoreProofs` |
| The book's other servers: sequence numbers, transfer, capitals | `sockets/{is_seqnum,us_xfr,ud_ucase,i6d_ucase,id_echo}_*.c` | `ClientServers`, `UnixXfr`, `SocketProofs`, `TransferProofs` |
| Address loops, descriptors passed, loops around `read()` and `write()` | `sockets/{inet_sockets,scm_*,read_line*,rdwrn,sendfile}.c` | `SocketCalls`, `CallProofs` |
| Signals and `select()`, `epoll` | `altio/{self_pipe*,demo_sigio*,epoll_input,select_mq}.c`, `imp/63-07.c` | `SocketCalls`, `CallProofs` |
| Scans of /proc | `imp/12-0{1,2,3}.c`, `sysinfo/procfs_user_exe.c` | `ProcScan`, `ProgramProofs` |
| `nftw()`, `getcwd()`, listings and counts of a tree | `imp/18-0{4,5,6,7,8}.c`, `dirs_links/{list_files*,nftw_dir_tree,file_type_stats}.c` | `TreeWalks` |
| Monitors of a tree | `inotify/inotify_dtree.c`, `imp/19-01.c` | `DirWatches` |
| Bursts and exchanges of signals, sleeping on, `wait()` | `imp/22-0{2,3}.c`, `imp/23-02.c`, `imp/27-06.c`, `timers/t_*nanosleep.c` | `SignalWaits`, `ProgramProofs` |
| `setenv()`, `execlp()`, `popen()`, files made and removed | `imp/06-03.c`, `proc/setenv.c`, `imp/27-02.c`, `imp/44-02.c`, `imp/14-01.c` | `LibraryCalls` |
| Datagrams between processes, stream servers, `sendfile_x()`, UDP and TCP echo | `imp/57-01.c`, `imp/57-04.c`, `imp/59-05.c`, `imp/59-03-*.c`, `imp/61-03.c`, `imp/63-02-*.c` | `SocketPrograms` |
| Queues and a terminal, programs on a pseudoterminal | `imp/63-03.c`, `pty/{script,unbuffer,pty_fork}.c` | `Relays` |
| Locks on parts of a file | `filelock/i_fcntl_locking.c`, `region_locking.c` | `SignalWaits` |
| Pipes, `fork()` and `wait()`, namespaces | `pipes`, `procexec`, `namespaces`, `imp/24-*.c` to `28-01.c`, `43-01.c`, `44-01.c`, `35-04.c`, `36-03.c` | `ProcessPrograms` |
| Signals, timers, daemons, job control | `signals`, `timers`, `daemons`, `pgsjc`, `imp/20-*.c` to `23-*.c`, `34-*.c` | `SignalPrograms` |
| Threads, semaphores, shared memory, file locks | `threads`, `psem`, `svsem`, `svshm`, `mmap`, `filelock` | `ThreadPrograms` |

### Conventions

- A variable that stands for a program counter (`pc`, `cpc`, `wpc`, ...) names
  the system call or statement that comes next. One action is one system call,
  or a stretch of code that touches nothing shared.
- A system call that may fail has a failing alternative, and the error exit of
  the program (`exit_err()`, `errExit()`, a `goto`, a handler) is part of the
  action.
- Actions that model handlers carry the handlers' names (`sighandler`,
  `term_handle`, `free_res`).
- Data are abstracted to what the properties tell apart: a block, a line or a
  name is a model value or its number.
- What the kernel or another program does is an action of its own and marked
  external in the map (`Resize` in `SocketPrograms`, `Typist` in `Relays`, ...).
- Next to some actions stands a variant that the specification does not use,
  such as `CloseEarly` next to `Close`. It is the action with a plausible
  mistake, and the property concerned is violated when it takes the action's
  place. `PROJECT.json` lists the pairs under "mutants".
- A module of several small programs has one section for each, with its own
  `Init_x`, actions and `Next_x`, where x is the number or name of the program.
  The sections share no state; where two of them use one variable name, only
  one of the two programs runs.

### Two ways to write a program down

The larger programs are state machines of their own: VARIABLES, one action per
call, a next-state relation. Nearly a hundred small programs, mostly of the
book, consist of little but calls to the kernel. They are written as data: for
each process the sequence of calls that it makes, with branches on a result as
jumps (`Calls` names the calls). `Processes` is the kernel that executes them
for processes: fork, wait, exit and signals with masks, handlers and merging,
pipes with a limited size, process groups, sessions and a terminal, stopping
and continuing. `Sharing` executes the ones with threads or shared objects:
mutex and condition variable, barrier, cancellation with cleanup handlers,
semaphores, shared memory and file locks. Both take any enabled step of any
process, and `fork()` may fail where the program handles it. The two modules
model the kernel, from how the programs use it; the sequences model the code.

### How modules are put together

`Pool` declares the variables v1 to v12 and `prog`. `MCServers` and
`MCPrograms`, which includes the walks of `MCWalks`, instantiate programs that
share nothing with these variables in the place of their own; the initial state
chooses the one that runs. `MCThreads` does the same with variables under their
own names, as do `MCServers` with 54-01 and `MCPrograms` with the list. Fairness is stated for the
chosen program only. `UnixPrograms` chooses one of the programs written as data
and its kernel. Compositions: every server module runs the server with its
clients; `NameServer` runs on the abstract `NameStore`, and `LList` is shown to
implement `NameStore`; `ThreadTree` is shown to implement `KeyMap`.

## 2. Runs that pass

All are complete searches with deadlock checking off, since every program may
end or wait for input for good; the liveness properties say which waits must
come to an end.

| Run | Module, configuration | Distinct states | Properties |
|---|---|---|---|
| `servers` | `MCServers`, `Servers.cfg` | 0 | `TypesOK BufferExclusive CopyIsPrefix ExitComplete NumbersUnique NumbersRight FilesIntact OnlyPeerHeard NoneMissed DataIntact NothingForgotten NobodyStuck ChildrenReaped ConversationsEnd` |
| `threads` | `MCThreads`, `Threads.cfg` | 0 | `TypesOK InitOnce ReturnAfterInit TreeSound ResultBounds ShownRight ImplementsMap` |
| `programs` | `MCPrograms`, `Programs.cfg` | 363,650 | `TypesOK DataIntact SignalsKept OneForOne ListOK ScansRight WalkComplete MonitorsExact ImplementsStore OwnerOnly ProgramsComplete WalksEnd` |
| `unix` | `UnixPrograms`, `UnixPrograms.cfg` | 61,658 | `TypeOK OutputsRight AllEnd` |

**servers.** *54-01*: the writer fills a buffer and the reader empties it; two
semaphores pass it back and forth and nothing else protects it. With read and
write errors, short writes and kills at any point, the two never use the buffer
at the same time, the output is a prefix of the input, and a normal exit means
that all was copied. Without faults the reader gets there (`ConversationsEnd`).

*Message queues and FIFOs*: `rand()` is not seeded, so all clients of 52-02 and
52-03 draw one queue name, and the model has them compete for it. Still, numbers
are unique in 52-02, and on FIFOs with clients killed at any point. The server
of 44-3 keeps its number in a file, and numbers stay unique over its crashes,
but for those sent in an answer whose backup the crash prevented (run `numbers`).
A client of 52-03 prints leading blocks of one file in order, each without its
last byte, and all blocks when it is told the end; the client of a file that
cannot be read prints what the server's buffer held before. A client on System V
queues prints exactly its file. In 52-04 a process prints no line written before
it was started, and a user hears only its peer if every user starts the program
once, or if there are only two users; with three users and restarts neither end
need be the other's peer (run `chat_mixed`). `NoneMissed`: a program that
registers again before it empties the queue misses no message. `NobodyStuck`:
the servers come back to their queues and waiting clients are answered, unless
the server is in a call that one client alone can end (section 6).

*Sockets*: numbers are sums of exactly the requests executed, at the width of
the program's type. `DataIntact`: an echo, a copy of a stream, an answer in
capitals and the contents of a passed descriptor are exactly what was sent;
urgent data waits for one read of normal data at most; `readn()` and `writen()`
move all bytes with any partial transfer and interruption, `readLine()` and
`readLineBuf()` return the lines, and `sendfile()` moves all if no call is
interrupted and no write is short (after a short write it skips the rest of the
block). `NothingForgotten`: no signal is left unhandled by a process that sleeps
in `select()`, no ready descriptor is left out, no socket or address list leaks
but the one of an `inetListen()` whose `listen()` fails, and the echo server of
60-01 has no more children than its limit. `ChildrenReaped`: children that end
together are all collected, and waiting clients get their child.
`ConversationsEnd` names what a client may wait for.

**threads.** *31-01*: with any interleaving of callers `init()` is begun once,
and nobody returns before it has ended. *30-02*: the list of elements stays
well linked while two threads add, delete and look up at pointer level, and
the functions look atomic from outside (`ImplementsMap`, a refinement). Only a
`tree_add()` that fails returns with the mutex locked. *30-01*: the counter
loses updates but shows at least 2. *33-01* (`ShownRight`): a thread shows its
own blocked signal and none of the other thread; missing is only one that came
before `pthread_sigmask()`. *53-01* (`ShownRight`): every line is displayed,
once and in order, before the process ends at end of file.

**programs.** Programs of a few processes, and programs that walk through
directories or /proc. `DataIntact`: what is read from a socket, pipe or
pseudoterminal is what was written, whoever else writes; `script.c` gives the
terminal back as it was; a variable of the environment has the value given last
(06-03 may lose it, never bring back an older one); 14-01 removes its files.
`SignalsKept`: signals that merge, are discarded or interrupt a call do not
change the result or cut a sleep short. `OneForOne`: a stream of `popen()` is
closed with its own child's entry; a request to the echo server of 63-02 has one
answer although it may fork several children for it; `execlp()` executes the
first program found. `ListOK`, `ImplementsStore`: any sequence of list
operations keeps the list of 59-04 well linked and leaks nothing, also when an
address comes back from `malloc()`, and implements a partial function from names
to values with owners; `malloc()` succeeds here, and run `llist` has it fail.
`OwnerOnly`: on that store, only a pair's owner changes it.
`ProgramsComplete`: processes that have found each other all end, and requests
are served whatever happens to other clients.

`ScansRight`: a process that matches and stays as it is during a scan of /proc
is listed, or, in the tree of 12-02, drawn if its ancestors stay too, whatever
comes and goes around it. That an entry carries its own process's data holds for
12-01 and `procfs_user_exe` only: 12-02 enters a process twice (run
`tree_twice`), and 12-03 shows the name found before when a status file cannot
be read. `WalkComplete`: a walk of `nftw()` that succeeds has reported every
entry that is left once, a directory before or after its contents as asked, has
closed its streams and is back where it came from; `getcwd()` of 18-05 leads
back to the directory; listings show each entry that stayed once, and the counts
add up to what was visited. `MonitorsExact`: when all events are handled, the
cache of `inotify_dtree` agrees with the tree, provided that since the cache was
last built nothing changed during a walk, every rename began with all events
handled and its first event came before those of later operations, and the user
dropped nothing from the cache; 19-01 shows events in their order. `WalksEnd`:
the climb, the listings and the handling of events come to an end.

**unix.** About a hundred programs as sequences of calls. `OutputsRight` has,
for each program, what its source is for: data comes through a pipe whole and
in order, a barrier of pipes or signals holds until everybody is there, a status
is the one of the right child, a job is stopped, continued or hung up, a signal
that comes while a daemon reads its configuration leads to one more reading, a
cancelled thread has given its mutex back, a semaphore keeps two processes
apart. `AllEnd`: again and again all processes and threads have ended, or the
user, who may stop at any time, could still do something, for any order of steps
and any failing `fork()`; `Exempt` lists the waits that really do not end
(section 6).

### Bounds, and why they are enough

- Threads and clients: three or four where a third party matters (the third
  caller of `one_time_init()`, the client that finds a queue left by another
  and one that waits behind both, a conversation of two and a third user), two
  otherwise.
- 54-01: all inputs of up to three blocks (`MaxBlocks`) over two values, so that
  there are a first, a middle and a last block and repeated ones.
- 30-02: three keys and three elements; first, middle and last element are
  deleted. 59-04: three names and four addresses, one to spare.
- Queues, pipes and buffers hold one to three messages (`MaxMsg`, `mq_maxmsg`,
  `Room`, `BufMsgs`, `SockRoom`, `PipeCells`, `PipeSize`), so that the full one
  is met on short paths.
- Numbers wrap at `Modulus` 8 instead of the width of the type, with requests
  of 3, 5 and 7: a sum of two wraps.
- Failures, kills, crashes, lost datagrams and moves of directories happen once
  (`MaxKills`, `MaxCrashes`, `MaxForkFails`, `MaxLost`, `MaxMoves`), at any
  point: what one leaves behind meets an undisturbed party. Changes of a watched
  tree happen three times (`MaxOps`), which is a rename between two others.
- /proc has three or four process ids that are used again. The tree of
  `nftw()` has two levels, a link to its root and another file system; the one
  of `getcwd()` has two file systems whose inode numbers coincide.
- 61-03: a file of at most four bytes with a buffer of two. 57-01: four
  messages with room for two. 44-02: four descriptors, three children. 23-02:
  three signals in a sleep of four ticks. Locks: two processes, two bytes, both
  kinds of lock.
- 22-02 has one signal of each kind that the kernel treats in its own way:
  plain, not catchable, continuing, two stopping ones, and two realtime
  signals.
- Programs as data: loops run two or three times, two children or threads where
  the program takes a number.

Symmetry is used in `threads` (the threads and keys of 30-02) and `programs`
(heap addresses of the list). No other variable holds one of these values, and
the liveness in `programs` is about programs whose states contain no address.

### Fairness

Weak fairness of each process or thread says that the kernel schedules what
can run. Nothing is assumed of users, of programs outside, of failures or of
signals that somebody may send: those actions are never fair. A user who types
or starts programs is a process "U" of `Processes` without fairness; where the
next step is the user's and possible, `UserCanAct` holds and `AllEnd` asks for
nothing more. Likewise the end of input that a program reads is not assumed to
come. Signals that are
pending and not blocked are delivered. `OnceInit` and the tasks of `Sharing`
have strong fairness, since a mutex or semaphore that is free again and again
is given to each waiter in the end. Delays (`sleep()`) are any delay, so a
program that orders its processes by sleeping gets no order from it.

## 3. Runs that find a violation

Each shows a disagreement between the code and what the repository says of it;
`PROJECT.json` quotes the text.

| Run | Property | What happens |
|---|---|---|
| `shm_writer_stuck` | `WriterFinishes` | The reader posts `sem_read` (`54-01-reader.c:61`) before it tests `shm->size` (63). It may see the empty block that the writer has stored by then and leave; the writer waits at its last `sem_wait()` and unlinks nothing. |
| `once_returns` | `EveryCallReturns` | A caller that finds `called` set returns without unlocking (`31-01.c:184`); the third caller never returns. |
| `filesrv_wrong` | `RightFile` | A client has sent its request for one file and is terminated by a signal; its `term_handle()` removes its queue, and its request stays in the server's. The next client draws the same queue name (`52-03-client.c:57`), creates the queue again, asks for another file, and is sent the file of the first request and told its end. |
| `chat_mixed` | `Paired` | A START left by an earlier process is answered to the user's new process, which takes it for an answer to its own (`52-04.c:290`). |
| `numbers` | `NumbersNeverRepeated` | The server of 44-3 is killed between the answer and the write of the backup file; when it is started again it gives the same number to the next client. |
| `tree_twice` | `TreeEntryOfItsProcess` | A process ends between `open()` and `read()` of its status file; the unsigned `rsize < 0` (`12-02.c:203`) is never true, and the buffer's old contents enter the tree again. |
| `llist` | `AddReported` | `malloc()` fails in `ll_add()`; the name is not stored, and `lerrno`, by which the server decides on its answer, says that it is. |
| `interrupted` | `ReadInterrupted` | 20-04: `siginterrupt()` is asked to let system calls fail with EINTR; the function ignores its argument and sets SA_RESTART, and `read()` is restarted. |

The two liveness violations (the first two) are found under the fairness
described above.

## 4. Proofs

Eight modules hold 32 theorems and the 199 lemmas they rest on. Each theorem is
about every value of the constants that meets its hypotheses; the hypotheses
only say what kind of value a constant is (a number, a client with a user, a
sign for "nothing" that is not itself a client). All temporal steps combine
`Init => Inv`, `Inv /\ [Next]_vars => Inv'` and `Inv => property`; the step
has one lemma or case per action. The longest invariants (`FileInv`,
`SeqNumInv`, `UcaseInv`, `XfrInv`) were checked by TLC on small instances
before they were proved.

| Theorem | Program | States | Assumes |
|---|---|---|---|
| `TransferTypes`, `BufferIsExclusive`, `CopyCorrect`, `ExitIsComplete` | 54-01 | the safety of 54-01 in run `servers` | `Empty` and `Short` are not blocks |
| `OneInit`, `InitBeforeReturn` | 31-01 | `InitOnce`, `ReturnAfterInit` | `NoThread` is no thread |
| `TreeAlwaysSound` | 30-02 | `TreeSound` | `TreeConstants` |
| `TreeIsMap` | 30-02 | `ImplementsMap`, the refinement of `KeyMap` | `TreeConstants` |
| `LostUpdatesBounded` | 30-01 | `ResultBounds` | a number of iterations |
| `ThreadsShowRight` | 33-01, 53-01 | `ShownRight` | a number of lines |
| `NumbersAlwaysUnique` | 52-02, FIFO servers | `NumbersUnique`, `NumbersDisjoint` | sizes and lengths are numbers |
| `FilesAlwaysIntact` | `svmsg_file_*` | `FilesIntact` | sizes of files are numbers |
| `FileClientsIntact` | 52-03 | `FilesIntact` | `FileConstants`: there is a file that can be read |
| `ChatHeardRight` | 52-04 | `OnlyPeerHeard`, `NoStaleMessages` | see below |
| `NotifyMissesNone` | `mq_notify_*`, 52-05, 52-06 | `NoneMissed` | a number of early messages |
| `EchoAlwaysExact`, `ChildrenAlwaysLimited` | `is_echo_*` | `EchoExact`, `ChildLimit` | for the limit: finitely many clients |
| `NumbersAlwaysFollow` | `is_seqnum_*` | `NumbersFollow` | lengths are integers, the width is not 0 |
| `AnswersAlwaysOwn` | `ud_ucase`, `i6d_ucase`, `id_echo` | `OwnAnswers` | lengths are integers |
| `TransfersInTurn` | `us_xfr_*` | `OneAfterTheOther` | `None` is neither server nor client |
| `NoSignalStranded` | `self_pipe*`, `demo_sigio*` | `NoneStranded` | the pipe's size is a number |
| `NoSocketLeaks` | `inet_sockets.c`, `isock_*()` | `NoneLeaked` | nothing |
| `DescriptorsPassWhole` | `scm_rights_*`, `scm_cred_*` | `PassedWhole` | the file's size is a number, `None` is no credential |
| `LoopsMoveAll` | `readn()`, `writen()`, `sendfile()` | `ResultsExact` of these three | `IoConstants`: sizes are numbers, no request is for 0 bytes |
| `OnlyOwnersChange` | 59-04 server | `OwnerOnly`, an action property | clients have users |
| `ServerKeepsStore` | 59-04 server | steps on the abstract `NameStore` | clients have users |
| `NoSignalMerges` | 22-03 | `NoneMerges` | a number of signals |
| `SleepsRight` | 23-02, `t_nanosleep`, `t_clock_nanosleep` | `SleptRight` | `SleepConstants`: times are numbers |
| `ChildrenAllWaited` | 27-06 | `AllWaited` | finitely many children |
| `UrgentGoesFirst` | 61-06 | `UrgentFirst`, `CantSendAnymore` | nothing |
| `SteadyAlwaysListed` | 12-01, 12-03, `procfs_user_exe` | `SteadyShown` | `ScanConstants`: there is a process id, `Gone` is no process |
| `EntriesOfTheirProcesses` | 12-01, `procfs_user_exe` | `EntryOfItsProcess` | `ScanConstants` |

The runs that put several programs together check a conjunction with one part
for each program. `EchoExact`, `OwnAnswers`, `OneAfterTheOther`, `PassedWhole`,
`ResultsExact`, `UrgentFirst` and `CantSendAnymore` are parts of `DataIntact` in
run `servers`, `NumbersFollow` of `NumbersRight`, and `ChildLimit`,
`NoneStranded` and `NoneLeaked` of `NothingForgotten`. `NoneMerges`,
`SleptRight` and `AllWaited` are parts of `SignalsKept` in run `programs`,
`SteadyShown` and `EntryOfItsProcess` of `ScansRight`. The properties of the
message queues bear the names of the conjunctions in run `servers` that they are
parts of.

**`StoreProofs`.** *30-02*: for any threads, keys and number of elements.
`IInv_30_02` adds to `TreeSound` what the place of a thread says about its call
and its answer (`CallSound`). Addresses grow along the list, so that
`AddLastInv` has a new element above all others and `DelFoundInv` takes one out
without changing the order of the rest. `TreeIsMap` maps the list to the
function that gives, for a key, the one live element that has it (`StoreValue`).
A call is the map's `Ask`, the step that links, unlinks or finds an element is
its `Answer`, and locking, walking and unlocking are stutters. An answer "not
found" is the map's because no element that a walk has passed has its key
(`WalkSound`). *Echo*: `EchoInv` accounts for every byte of a connection and
says that a child is at its end only when it has sent everything back.
`ChildrenAlwaysLimited` counts: the finite set of children gains or loses as
many members as the semaphore loses or gains units, where the handler of SIGCHLD
may collect several at once. *Name server*: the server works for a client, whose
request is one, so what is stored has an owner; each action then is a step of
`NameStore` under that client's user, or changes no pair.

**`PeerProofs`.** *52-04*: `ChatInv` says that nobody sends to itself and that
what a process finds in its own queue was sent after it was started; this gives
`NoStaleMessages` for any number of starts, and `OnlyPeerHeard` for two users.
For more users `OnlyPeerHeard` needs that no user starts twice: then a message
ties its two users for good (`Tied`, `TiesStay`). With three users and restarts
it does not hold, which is the behaviour that `chat_mixed` shows. *54-01*: for
every set of blocks, every set of inputs and every combination of faults. None
of the properties is inductive. `IInv` adds that the two semaphores and the two
programs hold at most one token together (`TokenCount`), and, depending on where
the token is, what the buffer contains: a block that is still to be copied
(`ToCopy`) or one that may be overwritten (`Drained`). The point that needs care
is the reader's test of `shm->size` after it has given the buffer back:
`DataInv` says that whenever it can see the empty block there, the output is
complete.

**`RequestServersProofs`.** *52-02*: uniqueness is inductive once two facts are
added. A client's queue holds at most one message, so `mq_receive()` moves the
number to the output without changing the client's numbers
(`MoveKeepsNumbers`). The server sends only to a queue that it has found, so
`mq_send()` appends `seq_num`, which is above all numbers given out, to one
client's numbers. *FIFO servers*: `IInv_fifo` says that numbers given are below
`seqNum` while the server runs and below the number in the file while it is
down; only the answer that 44-3 is about to back up lies beyond the file, and
`NumbersDisjoint` excepts it. *svmsg*: for each client the invariant `FileInv`
relates four things, what was received, what is in its queue, where its child
is and which part comes next: received and queued messages together are the
first part - 1 messages of the file (`Flow`). A client never has two requests or
a request and a child, so no second child sends into the same queue.

**`QueueProofs`.** *52-03*: all clients share one queue name, so a client may be
sent a file that another one asked for (run `filesrv_wrong`), and `RightFile` is
false. What remains true has to speak of a queue without knowing whose request
filled it: output and queue of a client together are the beginning of one file,
which is the one being sent if the server is sending to this client, or all of
it, its end, and perhaps the beginning of what comes next (`Complete`,
`Partial`, `Blank`). *Notifications*: `WaitInv` says that outside the handling
of a notification the program is registered exactly once, and that the queue of
a program which waits as registered is empty; `LogInv` that received and queued
messages are numbered through. *31-01*: for any set of threads, `IInv_31_01`
says that a thread between the test of `called` and its assignment owns the
mutex, that `called` is 0 while `init()` runs and that it is set only after
`init()` has ended. The early return that keeps the mutex breaks progress, not
these two.

**`SocketProofs`.** *is_seqnum*: `SeqNumInv` follows a request from the client's
two writes over the wire into the server's line (`Written`), keeps the clients
in the queue, the one served and those answered apart (`QueueOK`, `ServingOK`,
`AnswerOK`), and chains the numbers handed out to the counter (`GrantsOK`).
*Datagrams*: `UcaseInv` says that a client with an open message has it in one
place at most, the server's queue, its buffer or the client's own queue, and
that it is the latest message, so that a lost answer is never replaced by a
later one; that cutting at `BUF_SIZE` twice is cutting once, and commutes with
capitals, is proved for datagrams (`CutTwice`, `CutCase`).

**`TransferProofs`.** *us_xfr*: the output of a server ends with what has been
copied of the client it serves, or with a client that is finished (`CopyingOK`,
`Finished`); a client that has ended writes no more, so what was complete stays
complete (`OutputKept`). *30-01*: a thread that has stored once finds at least 1
from then on, so its last store writes 2 or more, and the last store of all is
the last one of some thread. *33-01*: main() sends the blocked signal of a
thread before the one it waits for, so a thread behind `sigwait()` has the first
one pending unless it came before `pthread_sigmask()`. *53-01*: one token goes
round the two semaphores and threads (`Token`); the line read last is
undisplayed exactly from `getline()` to `printf()`.

**`CallProofs`.** *Signals and `select()`*: in a program with a pipe every
signal is pending, in the pipe or taken from it, or was dropped while the pipe
was full of others; in one with a flag, input that waits while the loop counts
has a signal or the flag to announce it. This is inductive but for the types and the places of the loop
(`WakeInv`). *Address loops*: the socket in hand is the only one open, and every
address before it has failed (`AddrInv`). *Descriptors*: `ScmInv` says who
refers to the open file at each pair of places of sender and receiver, and which
order of `sendmsg()` and SO_PASSCRED can have lost the credentials. *Loops*:
what is done so far is a prefix of the data, cut into whole blocks and one part
(`ReadnOK`, `WritenOK`, `SendfileOK`); that a prefix and the next bytes make a
longer prefix is proved once for sequences.

**`ProgramProofs`.** *22-03*: one of the two processes has the turn, and the
five forms of `Turn` say where the signal under way is and who is ahead by one;
so a signal is never sent to a process that has one pending. *Sleeps*: between
two calls a sleep until an absolute time is late by no more than the work done
in between, while a relative one may be late by that much for each signal
(`SleepInv`). *27-06*: SIGCHLD that was caught or is pending counts no more than
the children that have ended, and `wait()` collects each once (`WaitedInv`).
*61-06*: what was passed over is still there and the next look finds it
(`ConnInv`). *Lists of processes*: a process that was there at `opendir()` is
behind the scan and was shown, or is being looked at, or the scan still comes to
it (`Reached`), also when `readdir()` returns blocks whose entries have changed
meanwhile (`Ahead`).

### Only model-checked

- All liveness properties: fairness and ENABLED are not within the prover's
  reach.
- What needs induction over data: in `SeqNumSock` the answer is a sum over the
  requests executed, a recursive function. The same holds for `ListOK` and
  `ImplementsStore` (the path along the heap's pointers), for the trees of
  `TreeWalks`, for `SteadyShown` of 12-02 (the levels of the tree drawn),
  for the lines of `readLine()`, for the loops of `LibraryCalls`, and for
  `Processes` and `Sharing`, which interpret programs given as data.
- `NoneLeftOut` of `select_mq.c` selects a queue's messages by an operator
  that none of the provers can take as an argument.
- The safety of the shell server of 61-05, of 22-02, and of `SocketPrograms`,
  `Relays` and `DirWatches`, which has not been proved yet. File locks have a
  liveness property only (`LocksOver`): that granted locks are compatible is the
  kernel's rule, which the model states as a guard.

## 5. Hazards

`PROJECT.json` lists forty places where the order of events, a failing call or
a limit could make a program go wrong, with the properties that cover each. Five
have no property, because the code does go wrong there and the properties leave
the case out by name: `tree_add()` that fails keeps the mutex; `tree_look()`
hands out the address of a value that another thread may free; the server of
52-03 blocks on a client that does not receive; `nftw()` of 18-08 ends with an
error when an entry vanishes; and a `fork()` that fails in 63-02 leaves a client
waiting. Notes at other hazards say the same of the part that is left out.

## 6. Where the models leave the code, and what they found beside the runs

### Abstractions

- 54-01: the named objects exist from the start; opening and creating them is
  not modelled.
- 52-04: two processes of one user that both hold a conversation are left out.
- 59-04: `malloc()` of the list succeeds in run `programs`.
- 18-05: the file system has no link in the root directory to the root; with one
  the climb does not end.
- 57-03, 59-01: a request arrives whole. The line buffer of 59-01 reads beyond
  what was stored and needs a model of its own.
- 44-02: no data; the child's `dup2()` has its arguments swapped
  (`44-02.c:152`), so that the pipe carries none.
- 61-05: signing in is a choice of success or failure.
- 63-02: no datagram is lost on the way. 63-03: a message fits in one atomic
  `write()`, as `MAX_MSG_SIZE` below `PIPE_BUF` makes it, and the terminal does
  not reach end of file.
- `script.c`: `ptyMasterOpen()` fails or succeeds as a whole. An `atexit()`
  that fails, and a child that fails before it has opened the slave, which both
  leave the terminal raw, are left out; so is a terminal and a slave that are
  full in both directions at once.
- Namespaces: `clone()` is a `fork()`, and of what is isolated only the host
  name is kept.
- Timers fire at any time once armed; times are not compared. In the timer
  programs one realtime signal stands for the one chosen.
- Daemons: a log file that can be opened.
- Output by handlers (`printf()` in a handler) is left out everywhere but where
  it is all that a program displays.

### Waits that do not end

These are excepted from the liveness properties because the code does stay
there. `Exempt` of `UnixPrograms`, with the operators it names, has those of the
programs written as data. A wait for a user who could act is no exception of
this kind: nothing is claimed there (section 2, fairness).

- 26-02: the parent stays in `sigwaitinfo()` if the child cannot fork.
- `simple_init.c`: a child that ends before `pause()` is not noticed.
- 52-02: an answer to the full queue that a dead client left blocks the server.
  52-03: so does the next part for a client that does not receive any more; a
  file that cannot be read keeps the server sending, since it takes the -1 of
  `read()` for data.
- 57-03: the server is killed by SIGPIPE when it answers a client that is gone.
  63-02: a `fork()` that fails leaves the request unanswered.
- 30-02: `tree_add()` returns its errors with the mutex locked, so that the next
  caller waits.
- `orphaned_pgrp_SIGHUP.c`: a child that stops after the parent's exit stays
  stopped. 34-06: a `fork()` that fails in the child falls through, and a
  background read stops it.
- `timed_read.c` blocks when the alarm comes before `read()`; `catch_rtsigs.c`
  and 20-02 can miss a signal between test and wait; `ptmr_sigev_thread.c` can
  miss the last expiry.
- `svshm_xfr_writer.c` without a reader, `psem_wait.c` without a unit, and
  open-file-description locks, which have no EDEADLK.
- FIFO servers but 44-06 in `open()` of a client's FIFO; 44-06 skips a client
  that has not opened it yet. 44-01: a child whose parent alone is killed.
- The System V file server ends when `fork()` fails and leaves its clients
  waiting; a killed client leaves its queue and a blocked child.
- `mq_notify` programs that do not empty the queue first, if it is not empty at
  the start; the program of 52-06 when the signal comes before
  `sigwaitinfo()`.
- Echo server 60-01: a `fork()` that fails never gives its place back
  (`is_echo_sv_60-1.c:133`). Client 61-01 with more input than the buffers
  hold. Clients over UDP when a datagram is lost; `ud_ucase_sv.c` ends when a
  client is gone.

### Differences met while modelling that no run is about

- `inotify_dtree.c:23-25` says that the cache "remains consistent with the
  filesystem"; it does under the conditions of `MonitorsExact` (section 2) and
  may stay wrong without them. 19-01: the root may lose its watch.
- 52-03 prints each block without its last byte, and, for a file that cannot be
  read, what the buffer held before.
- 12-02: `main()` puts the element for init one place too far, so that the one
  before it is read unwritten, and `i > size` admits one element too many. 12-03
  shows the name of the process before when a status file cannot be read.
- `sendfile()` of the book skips the rest of a block after a short write.
- 14-01: files are said to be deleted in increasing order; `sorti()` sorts
  decreasing. A number drawn twice makes `unlink()` fail and leaves files.
- 06-03: `unsetenv()` puts NULL in the list, which loses the variables behind.
- 27-02: the last directory of PATH is never tried, and arguments that were not
  allocated are freed.
- 44-02: `pclose()` calls `waitpid()` with WNOHANG, where the text at
  `44-02.c:50` has it wait, and may return before the child has ended.
- 23-02 adds microseconds to nanoseconds without a carry. 23-04 passes a
  pointer to `timer_getoverrun()`.
- 60-02: `getopt()` has "i" where the code looks for 'c'
  (`is_echo_sv_60-2.c:78`). `readLine()` with n = 1 returns 0.
  `select_mq.c` ends on an empty message. `isock_*` return the error number of
  `getaddrinfo()` as if it were a descriptor; `inetPassiveSocket()` leaks the
  socket when `listen()` fails. Credentials that are sent before SO_PASSCRED is
  set are not received.
- 18-07 counts an entry of type FTW_NS by a buffer that was not filled. 18-05
  may return a path that mixes two places when the tree moves.
- 44-04 does not remove its FIFO. `svsem_bad_init.c` loses an increment, as it is
  meant to show. 35-04: the parent is killed by SIGPIPE if the child cannot get
  its processor. `disc_SIGHUP.c`: a child not yet in its own group gets the hangup.
- `strerror.c` of the book's threads shows the text of the other thread, since
  its buffer is static; `strerror_tls.c` and `strerror_tsd.c` do not.
- 13-5 writes one byte behind its buffer when a whole buffer is read.

## 7. Not modelled

- Sequential programs over one file, directory or file system, its attributes
  and ACLs; users, credentials and login records; memory, time and limits;
  priorities and resources; the dynamic linker; `getopt()` and conversions.
  Their results are the kernel's or the library's, and nothing else takes part.
- Programs that display one rule of the kernel in a fixed order (exit handlers,
  an alternate stack, timer descriptors, terminal settings, seccomp filters),
  and commands that create, display or remove one IPC object.
- 18-03, which resolves a path by string operations.
- `pipe_x()` (61-02) overruns a variable (`lib/61-02.c`, `memset()` of
  `laddr_len`), and the line buffer of 59-01 reads bytes that were never
  stored; what follows depends on the stack frame.
- Measurements of time, and exercises whose file holds only text.

`PROJECT.json` lists every file of these parts with its reason.

## 8. What could follow

Creation and removal of the named objects of 54-01 composed with `ShmTransfer`;
proofs for the programs of section 4 that are only model-checked although
nothing stands against a proof: the shell server of `RemoteShells`, the
messages of 57-01 and the echo server of 63-02 in `SocketPrograms`, `Relays`
and `DirWatches`.
