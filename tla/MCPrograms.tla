----------------------------- MODULE MCPrograms -----------------------------
(***************************************************************************)
(* Programs of a few processes, which share no state: MCInit chooses one   *)
(* of them to run.                                                         *)
(*   14-01  files made and removed      57-04  three UNIX domain sockets   *)
(*   22-02  a burst of signals          59-03  iterative stream server     *)
(*   22-03  signals back and forth      59-05  three internet sockets      *)
(*   23-02  sleeping on after signals   61-03  sending a file              *)
(*   27-06  waiting for children        63-02  echo server, UDP and TCP    *)
(*   44-02  popen() and pclose()        63-03  message queues and terminal *)
(*   fcntl  locks on parts of a file    59-04  name server and its list    *)
(*   57-01  a slow reader               27-02  execlp()                    *)
(*   06-03  the environment             and those of MCWalks               *)
(* Of 59-04 the list has three names, so that first, middle and last items *)
(* are deleted, one spare address, two users and two values; the server    *)
(* has two client processes of two users, one name and two values.         *)
(***************************************************************************)
EXTENDS MCWalks, LList, TLC

CONSTANTS Kids, Queues, Udp, Tcp, Peers, None, Clients, User, Backlog, c1, c2, u1, u2

Lib == INSTANCE LibraryCalls WITH Names <- {"m", "n"}, Values <- {"1", "2"},
  MaxVars <- 3, MaxCalls <- 2, MaxSize <- 3, MaxNum <- 2, MaxDirs <- 3, Fds <- 3..6,
  MaxChildren <- 3, POPEN_INDEXES <- v1, files <- v1, kind <- v1, environ <- v2,
  fndEACCES <- v2, numarr <- v2, stream <- v2, child <- v3, i <- v3, result <- v3, want <- v3,
  calls <- v4, k <- v4, made <- v4, open <- v4, j <- v5, path <- v5, pc <- v6, slash <- v6
Sig == INSTANCE SignalWaits WITH StdSigs <- {1, 9, 11, 18, 19, 20, 21}, RtSigs <- {34, 35},
  Sync <- {11},  Uncaught <- {9, 19}, Stops <- {20, 21}, SIGCONT <- 18, Times <- 3, nsig <- 3, Secs <- 3, Fraction <- 1,
  Work <- 2, MaxSignals <- 3, Children <- Kids, pc <- v1, now <- v2, pending <- v2,
  waited <- v2, caught <- v3, i <- v3, kind <- v3, kills <- v4, queued <- v4, sigblk <- v4,
  signals <- v4, nrt <- v5, sigchld <- v5, wakeAt <- v5, blocked <- v6, carry <- v6,
  child <- v6, sig_done <- v7, worked <- v7, request <- v8, Lockers <- {1, 2}, Bytes <- 1..2,
  MaxCommands <- 2, held <- v1, waits <- v2, cmds <- v3, on <- v4
Rel == INSTANCE Relays WITH MaxTyped <- 2, Room <- 1, Sizes <- {0, 1}, MaxMsgs <- 3,
  MaxLines <- 1, PipeCells <- 3, sent <- v1, ready <- v2, mpc <- v3, outq <- v3, mq <- v4,
  script <- v4, at <- v5, typed <- v5, screen <- v6, tpc <- v6, result <- v7, tty <- v7,
  inp <- v8, pipe <- v8, qmsg <- v9, scripting <- v9, child <- v10, shown <- v10, header <- v11,
  taken <- v11, got <- v12, stdin <- v12
Sock == INSTANCE SocketPrograms WITH MSG_NUM <- 4, BufMsgs <- 2,
  Clients_59_03 <- Peers, Blocks <- 2, Room <- 1, BUF_SIZE <- 2, MaxSize <- 4, SockRoom <- 3,
  MaxIdle <- 2, con <- v1, cpc <- v1, rpc <- v1, serving <- v1, conn <- v2, idle <- v2,
  inbox <- v2, sent <- v2, steady <- v2, count <- v3, dgrams <- v3, pc <- v3, toWriter <- v3,
  up <- v3, heard <- v4, pfd <- v4, rtotal <- v4, spc <- v4, wpc <- v4, client <- v5,
  nread <- v5, owner <- v5, ppc <- v5, toReader <- v5, held <- v6, output <- v6, sock <- v6,
  term <- v6, wbound <- v6, closed <- v7, got <- v7, offset <- v7, replies <- v7, backlog <- v8,
  queue <- v8, size <- v8, events <- v9, total <- v9, pos <- v10
N == INSTANCE NameServer WITH Names <- {"n"}, store <- v1, served <- v2, spc <- v3, pfd <- v4,
  queue <- v5, cpc <- v6, req <- v7, res <- v8

MCUser == [c \in Clients |-> IF c = c1 THEN u1 ELSE u2]
MCSymmetry == Permutations(Addrs)

MCInit ==
  \/ WalksInit /\ Init
  \/ prog = "list" /\ Init /\ Free0
  \/ prog = "06-03" /\ Lib!Init_06_03 /\ Free4 /\ Init
  \/ prog = "14-01" /\ Lib!Init_14_01 /\ Free6 /\ Init
  \/ prog = "22-02" /\ Sig!Init_22_02 /\ Free7 /\ Init
  \/ prog = "22-03" /\ Sig!Init_22_03 /\ Free4 /\ Init
  \/ prog = "23-02" /\ Sig!Init_23_02 /\ Free8 /\ Init
  \/ prog = "27-02" /\ Lib!Init_27_02 /\ Free6 /\ Init
  \/ prog = "27-06" /\ Sig!Init_27_06 /\ Free6 /\ Init
  \/ prog = "44-02" /\ Lib!Init_44_02 /\ Free4 /\ Init
  \/ prog = "fcntl" /\ Sig!Init_locks /\ Free4 /\ Init
  \/ prog = "script" /\ Rel!Init_script /\ Init
  \/ prog = "57-01" /\ Sock!Init_57_01 /\ Free7 /\ Init
  \/ prog = "57-04" /\ Sock!Init_57_04 /\ Free4 /\ Init
  \/ prog = "59-03" /\ Sock!Init_59_03 /\ Free8 /\ Init
  \/ prog = "server" /\ N!ServerInit /\ Free8 /\ Init
  \/ prog = "59-05" /\ Sock!Init_59_05 /\ Free6 /\ Init
  \/ prog = "61-03" /\ Sock!Init_61_03 /\ Free10 /\ Init
  \/ prog = "63-02" /\ Sock!Init_63_02 /\ Free9 /\ Init
  \/ prog = "63-03" /\ Rel!Init_63_03 /\ Init
MCNext ==
  \/ WalksNext /\ UNCHANGED vars
  \/ prog = "list" /\ Next /\ UNCHANGED Rest0
  \/ prog = "06-03" /\ Lib!Next_06_03 /\ UNCHANGED <<Rest4, vars>>
  \/ prog = "14-01" /\ Lib!Next_14_01 /\ UNCHANGED <<Rest6, vars>>
  \/ prog = "22-02" /\ Sig!Next_22_02 /\ UNCHANGED <<Rest7, vars>>
  \/ prog = "22-03" /\ Sig!Next_22_03 /\ UNCHANGED <<Rest4, vars>>
  \/ prog = "23-02" /\ Sig!Next_23_02 /\ UNCHANGED <<Rest8, vars>>
  \/ prog = "27-02" /\ Lib!Next_27_02 /\ UNCHANGED <<Rest6, vars>>
  \/ prog = "27-06" /\ Sig!Next_27_06 /\ UNCHANGED <<Rest6, vars>>
  \/ prog = "44-02" /\ Lib!Next_44_02 /\ UNCHANGED <<Rest4, vars>>
  \/ prog = "fcntl" /\ Sig!Next_locks /\ UNCHANGED <<Rest4, vars>>
  \/ prog = "script" /\ Rel!Next_script /\ UNCHANGED <<prog, vars>>
  \/ prog = "57-01" /\ Sock!Next_57_01 /\ UNCHANGED <<Rest7, vars>>
  \/ prog = "57-04" /\ Sock!Next_57_04 /\ UNCHANGED <<Rest4, vars>>
  \/ prog = "59-03" /\ Sock!Next_59_03 /\ UNCHANGED <<Rest8, vars>>
  \/ prog = "server" /\ N!ServerNext /\ UNCHANGED <<Rest8, vars>>
  \/ prog = "59-05" /\ Sock!Next_59_05 /\ UNCHANGED <<Rest6, vars>>
  \/ prog = "61-03" /\ Sock!Next_61_03 /\ UNCHANGED <<Rest10, vars>>
  \/ prog = "63-02" /\ Sock!Next_63_02 /\ UNCHANGED <<Rest9, vars>>
  \/ prog = "63-03" /\ Rel!Next_63_03 /\ UNCHANGED <<prog, vars>>

all == <<Rest0, vars>>
Fair1 ==
  \/ WalksFair1 /\ UNCHANGED vars
  \/ prog = "22-03" /\ Sig!Parent_22_03 /\ UNCHANGED <<Rest4, vars>>
  \/ prog = "23-02" /\ Sig!Sleeper /\ UNCHANGED <<Rest8, vars>>
  \/ prog = "27-06" /\ Sig!Parent_27_06 /\ UNCHANGED <<Rest6, vars>>
  \/ prog = "fcntl" /\ Sig!Holders /\ UNCHANGED <<Rest4, vars>>
  \/ prog = "script" /\ Rel!Parent /\ UNCHANGED <<prog, vars>>
  \/ prog = "57-01" /\ Sock!Writer /\ UNCHANGED <<Rest7, vars>>
  \/ prog = "57-04" /\ Sock!ProcA /\ UNCHANGED <<Rest4, vars>>
  \/ prog = "59-03" /\ Sock!Server_59_03 /\ UNCHANGED <<Rest8, vars>>
  \/ prog = "server" /\ N!Server /\ UNCHANGED <<Rest8, vars>>
  \/ prog = "59-05" /\ Sock!Everyone /\ UNCHANGED <<Rest6, vars>>
  \/ prog = "61-03" /\ Sock!Child /\ UNCHANGED <<Rest10, vars>>
  \/ prog = "63-02" /\ Sock!Server_63_02 /\ UNCHANGED <<Rest9, vars>>
  \/ prog = "63-03" /\ Rel!Main /\ UNCHANGED <<prog, vars>>
Fair2 ==
  \/ WalksFair2 /\ UNCHANGED vars
  \/ prog = "22-03" /\ Sig!Child_22_03 /\ UNCHANGED <<Rest4, vars>>
  \/ prog = "27-06" /\ Sig!Child_27_06 /\ UNCHANGED <<Rest6, vars>>
  \/ prog = "57-01" /\ Sock!Reader /\ UNCHANGED <<Rest7, vars>>
  \/ prog = "57-04" /\ Sock!ProcB /\ UNCHANGED <<Rest4, vars>>
  \/ prog = "59-03" /\ Sock!Clientele_59_03 /\ UNCHANGED <<Rest8, vars>>
  \/ prog = "server" /\ N!Client(c1) /\ UNCHANGED <<Rest8, vars>>
  \/ prog = "61-03" /\ Sock!Parent /\ UNCHANGED <<Rest10, vars>>
  \/ prog = "63-02" /\ Sock!Echo /\ UNCHANGED <<Rest9, vars>>
  \/ prog = "63-03" /\ Rel!Threads /\ UNCHANGED <<prog, vars>>
Fair3 ==
  \/ prog = "57-04" /\ Sock!ProcC /\ UNCHANGED <<Rest4, vars>>
  \/ prog = "server" /\ N!Client(c2) /\ UNCHANGED <<Rest8, vars>>
  \/ prog = "63-02" /\ Sock!Clientele_63_02 /\ UNCHANGED <<Rest9, vars>>
MCSpec == MCInit /\ [][MCNext]_all /\ WF_all(Fair1) /\ WF_all(Fair2) /\ WF_all(Fair3)

-----------------------------------------------------------------------------
\* The variables of all programs have their types; in particular no pipe,
\* buffer or queue of connections holds more than fits.
TypesOK ==
  /\ WalkTypesOK
  /\ prog = "list" => TypeOK
  /\ prog = "06-03" => Lib!TypeOK_06_03
  /\ prog = "14-01" => Lib!TypeOK_14_01
  /\ prog = "22-02" => Sig!TypeOK_22_02
  /\ prog = "22-03" => Sig!TypeOK_22_03
  /\ prog = "23-02" => Sig!TypeOK_23_02
  /\ prog = "27-02" => Lib!TypeOK_27_02
  /\ prog = "27-06" => Sig!TypeOK_27_06
  /\ prog = "44-02" => Lib!TypeOK_44_02
  /\ prog = "fcntl" => Sig!TypeOK_locks
  /\ prog = "script" => Rel!TypeOK_script
  /\ prog = "57-01" => Sock!TypeOK_57_01
  /\ prog = "57-04" => Sock!TypeOK_57_04
  /\ prog = "59-03" => Sock!TypeOK_59_03
  /\ prog = "server" => N!TypeOK
  /\ prog = "59-05" => Sock!TypeOK_59_05
  /\ prog = "61-03" => Sock!TypeOK_61_03
  /\ prog = "63-02" => Sock!TypeOK_63_02
  /\ prog = "63-03" => Rel!TypeOK_63_03

\* What is read from a socket or pipe is what was written, all of it, once
\* and in order, whoever else writes.  Of the files that 14-01.c makes
\* none is left, unless a number was drawn twice.  A variable of the
\* environment has the value that it was given last; with 06-03.c it may have
\* none, since that loses variables when it removes another, but never an
\* older value.  script.c records what it displays, and gives the terminal back
\* as it was.
DataIntact ==
  /\ prog = "06-03" => Lib!EnvRight
  /\ prog = "14-01" => Lib!FilesRemoved
  /\ prog = "script" => Rel!RelayExact
  /\ prog = "57-01" => Sock!Reliable
  /\ prog = "59-03" => Sock!StreamsWhole
  /\ prog = "61-03" => Sock!TransferExact
  /\ prog = "63-03" => Rel!ShownIntact

\* Signals that merge, are discarded or interrupt a call do not change what
\* the program reports in the end, and do not cut a sleep short.
SignalsKept ==
  /\ prog = "22-02" => Sig!OnlyJobControlMissing
  /\ prog = "22-03" => Sig!NoneMerges
  /\ prog = "23-02" => Sig!SleptRight
  /\ prog = "27-06" => Sig!AllWaited

\* 44-02, 63-02: a stream has its own child, a request is answered by one.
\* execlp() executes the first program of the path that can be executed, the
\* one of 27-02.c where that is neither in the last directory nor behind a
\* script or a file that only others may execute.
OneForOne ==
  /\ prog = "27-02" => Lib!RunsFirst
  /\ prog = "44-02" => Lib!RightChild
  /\ prog = "63-02" => Sock!AnsweredOnce

\* 59-04 server: only a request of the owner changes or removes a pair.
OwnerOnly == [][prog = "server" => N!OwnerStep]_all

\* Once the processes of a program have found each other, all of them end;
\* the servers and monitors come to have served every request and message.
\* The users of file locks can leave, unless locks of open file descriptions
\* are waited for.  A client of the name server is answered,
\* whatever happens to the clients before it.
Settled ==
  /\ prog = "22-03" => Sig!Exchanged
  /\ prog = "23-02" => Sig!SleepOver
  /\ prog = "27-06" => Sig!WaitOver
  /\ prog = "fcntl" => Sig!LocksOver
  /\ prog = "script" => Rel!RelayOver
  /\ prog = "57-01" => Sock!FlowOver
  /\ prog = "57-04" => Sock!EveryoneOut_57_04
  /\ prog = "59-03" => Sock!StreamsOver
  /\ prog = "59-05" => Sock!EveryoneOut_59_05
  /\ prog = "61-03" => Sock!ParentOut
  /\ prog = "63-02" => Sock!EchoOver
  /\ prog = "63-03" => Rel!QueuesShown
ProgramsComplete == []<>Settled /\ \A c \in Clients : []<>(prog = "server" => N!Served(c))
=============================================================================
