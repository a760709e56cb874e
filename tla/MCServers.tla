------------------------------ MODULE MCServers -----------------------------
(***************************************************************************)
(* The programs in which processes serve each other: through shared memory,*)
(* message queues, FIFOs, pipes and sockets.  They share no state: MCInit  *)
(* chooses one of them to run.                                             *)
(*   54-01   the writer and the reader (their variables are those of       *)
(*           ShmTransfer; the other programs leave them alone)             *)
(*   52-02   three clients and the server                                  *)
(*   52-03   three clients of two files, or two clients of these, of one   *)
(*           that cannot be opened and one that cannot be read             *)
(*   52-04   three users that start once, or two that start twice          *)
(*   notify  four messages for the programs with mq_notify()               *)
(*   fifo    the sequence-number servers of chapter 44, with three clients *)
(*           of which one does not open its FIFO                           *)
(*   svmsg   two clients of the file server on System V queues             *)
(*   and the programs on sockets and pipes, with two or three clients.     *)
(* Fair1 are the steps of servers and main programs, Fair2 those of the    *)
(* first clients, Fair3 and Fair4 those of other clients, children and     *)
(* signal handlers.                                                        *)
(***************************************************************************)
EXTENDS ShmTransfer, Pool

CONSTANTS Clients, NoClient, MaxMsg, Clients3, Left, NoUser, c1, c2, c3, u1, u2, u3,
          K2, K3, D2, None

Req == INSTANCE RequestServers WITH Clients_52_02 <- Clients,
  Clients_fifo <- {c1, c2, c3}, Rude <- {c3}, Lens <- {1, 2}, None <- NoClient, MaxKills <- 1,
  MaxCrashes <- 1, Clients_svmsg <- {c1, c2}, Parts <- {0, 2}, QueueSize <- 1,
  MaxForkFails <- 1, MaxFaults <- 1, spc <- v1, got <- v2, made <- v2, reqs <- v3, seqNum <- v3,
  mailbox <- v4, req <- v4, cst <- v5, seq_num <- v5, cpc <- v6, faults <- v6, child <- v7,
  given <- v7, linked <- v7, fifo <- v8, part <- v8, peer <- v8, bak <- v9, sigchld <- v9,
  answer <- v10, size <- v10, kind <- v11, queue <- v11, lost <- v12
F3 == INSTANCE FileServerMq WITH Clients <- Clients3, mq_maxmsg <- 1, Bytes <- [one |-> <<2>>,
  two |-> <<2, 1>>], Missing <- {}, Dirs <- {}, cpc <- v1, file <- v2, out <- v3, holder <- v4, mailbox <- v5,
  spc <- v6, reqs <- v7, dest <- v8, cur <- v9, pos <- v10
F2 == INSTANCE FileServerMq WITH Clients <- {c1, c2}, mq_maxmsg <- 1, Bytes <- [one |-> <<2>>,
  two |-> <<2, 1>>], Missing <- {"missing"}, Dirs <- {"dir"}, cpc <- v1, file <- v2, out <- v3, holder <- v4,
  mailbox <- v5, spc <- v6, reqs <- v7, dest <- v8, cur <- v9, pos <- v10
Chat3 == INSTANCE ChatMq WITH Users <- {u1, u2, u3}, MaxMsg <- 2, MaxStarts <- 1, MaxLines <- 1,
  ust <- v1, inst <- v2, linked <- v3, box <- v4, peer <- v5, pq <- v6, lines <- v7, heard <- v8
Chat2 == INSTANCE ChatMq WITH Users <- {u1, u2}, MaxMsg <- 2, MaxStarts <- 2, MaxLines <- 3,
  ust <- v1, inst <- v2, linked <- v3, box <- v4, peer <- v5, pq <- v6, lines <- v7, heard <- v8
Q == INSTANCE MqNotify WITH MaxMsgs <- 4, Early <- 1, kind <- v1, queue <- v2, sent <- v3,
  reg <- v4, sig <- v5, pc <- v6, gotSig <- v7, setups <- v8, drains <- v9, got <- v10,
  lost <- v11
S57 == INSTANCE SeqNumSock WITH Clients <- K2, Paddings <- {3, 7}, Modulus <- 8,
  IgnoreSigpipe <- FALSE, NoClient <- None, cpc <- v1, padding <- v2, reply <- v3, queue <- v4,
  spc <- v5, pfd <- v6, seq_num <- v7, log <- v8
S59 == INSTANCE SeqNumSock WITH Clients <- K3, Paddings <- {3, 7}, Modulus <- 8,
  IgnoreSigpipe <- TRUE, NoClient <- None, cpc <- v1, padding <- v2, reply <- v3, queue <- v4,
  spc <- v5, pfd <- v6, seq_num <- v7, log <- v8
Shells == INSTANCE RemoteShells WITH Clients <- K2, NoClient <- None, MaxNormal <- 2,
  client <- v1, spc <- v1, passed <- v2, pfd <- v2, cpc <- v3, sigchld <- v3, child <- v4,
  urgent <- v4, normal <- v5, queue <- v5, shell <- v6, strays <- v6, parent <- v7, sender <- v7
CS == INSTANCE ClientServers WITH Clients_seqnum <- K2, Lens_seqnum <- {0, 3, 5},
  Modulus <- 8, MaxKills <- 1, Clients_ucase <- K2, Lens_ucase <- {1, 3}, Msgs <- 2,
  BUF_SIZE <- 2, MaxLost <- 1, cst <- v1, kills <- v2, cfd <- v3, lost <- v3, end <- v4,
  kind <- v4, backlog <- v5, cq <- v5, answer <- v6, sent <- v6, len <- v7, sv <- v8, wire <- v8,
  line <- v9, sbuf <- v9, seqNum <- v10, sq <- v10, got <- v11, grants <- v11
Xfr == INSTANCE UnixXfr WITH Servers <- K2, Clients_xfr <- D2, Chunks <- 2, MaxKills <- 1,
  cst <- v1, kills <- v2, cfd <- v3, kind <- v4, backlog <- v5, sent <- v6, out <- v7,
  peer <- v8, name <- v9, sst <- v10, pipe <- v11
E1 == INSTANCE EchoServer WITH Clients <- K3, Single <- {}, Chunks <- 1, Room <- 1,
  Bounded <- TRUE, MAX_CHILDREN <- 2, MaxForkFails <- 1, cl <- v1, rd <- v2, sent <- v3,
  up <- v4, down <- v5, got <- v6, spc <- v7, cfd <- v8, child <- v9, csem <- v10, chld <- v11,
  fails <- v12
E0 == INSTANCE EchoServer WITH Clients <- K2, Single <- {}, Chunks <- 2, Room <- 1,
  Bounded <- FALSE, MAX_CHILDREN <- 0, MaxForkFails <- 1, cl <- v1, rd <- v2, sent <- v3,
  up <- v4, down <- v5, got <- v6, spc <- v7, cfd <- v8, child <- v9, csem <- v10, chld <- v11,
  fails <- v12
E2 == INSTANCE EchoServer WITH Clients <- K2, Single <- K2, Chunks <- 2, Room <- 1,
  Bounded <- FALSE, MAX_CHILDREN <- 0, MaxForkFails <- 0, cl <- v1, rd <- v2, sent <- v3,
  up <- v4, down <- v5, got <- v6, spc <- v7, cfd <- v8, child <- v9, csem <- v10, chld <- v11,
  fails <- v12
Call == INSTANCE SocketCalls WITH FileSize <- 2, MaxLen <- 4, Sizes <- {2, 3},
  BUF_SIZE <- 2, MaxIntr <- 1, MaxSigs <- 3, MaxInput <- 2, PipeSize <- 2, Fds <- K2,
  MaxBuf <- 1, MAX_EVENTS <- 2, MaxData <- 3, Lens <- {0, 1}, MaxAddrs <- 3, flag <- v1,
  open <- v1, res <- v1, spc <- v1, fn <- v2, kind <- v2, refs <- v2, held <- v3, i <- v3,
  rpc <- v3, typed <- v3, addrs <- v4, out <- v4, shown <- v4, told <- v4, explicit <- v5,
  intr <- v5, pipe <- v5, ret <- v5, at <- v6, evs <- v6, msg <- v6, pc <- v6, pos <- v6,
  data <- v7, heap <- v7, path <- v7, sent <- v7, writers <- v7, buf <- v8, failed <- v8,
  left <- v8, order <- v8, pend <- v8, copy <- v9, done <- v9, ready <- v9, type <- v9,
  input <- v10, n <- v10, passcred <- v10, state <- v10, dropped <- v11, early <- v11,
  offset <- v11, put <- v11, orig <- v12, what <- v12

\* 54-01 is not the program of this behaviour
NoShm ==
  /\ wpc = "exit" /\ rpc = "exit" /\ sem_read = 0 /\ sem_write = 0
  /\ shm = Empty /\ input = <<>> /\ wdone = 0 /\ out = <<>>

InitOther ==
  \/ prog = "52-02" /\ Req!Init_52_02 /\ Free8
  \/ prog = "52-03 three" /\ F3!Init_52_03 /\ Free10
  \/ prog = "52-03 two" /\ F2!Init_52_03 /\ Free10
  \/ prog = "52-04 once" /\ Chat3!Init_52_04 /\ Free8
  \/ prog = "52-04 twice" /\ Chat2!Init_52_04 /\ Free8
  \/ prog = "notify" /\ Q!Init_notify /\ Free11
  \/ prog = "fifo" /\ Req!Init_fifo
  \/ prog = "svmsg" /\ Req!Init_svmsg /\ Free11
  \/ prog = "57-03" /\ S57!Init /\ Free8
  \/ prog = "59-01" /\ S59!Init /\ Free8
  \/ prog = "61-05" /\ Shells!Init_61_05 /\ Free7
  \/ prog = "61-06" /\ Shells!Init_61_06 /\ Free7
  \/ prog = "is_seqnum" /\ CS!Init_seqnum /\ Free11
  \/ prog = "is_echo_60-1" /\ E1!Init
  \/ prog = "is_echo" /\ E0!Init
  \/ prog = "is_echo_cl_61-1" /\ E2!Init
  \/ prog = "us_xfr" /\ Xfr!Init_xfr /\ Free11
  \/ prog = "ucase" /\ CS!Init_ucase /\ Free11
  \/ prog = "scm" /\ Call!Init_scm
  \/ prog = "stream_io" /\ Call!Init_io
  \/ prog = "self_pipe" /\ Call!Init_wake /\ Free11
  \/ prog = "poll_input" /\ Call!Init_poll /\ Free11
  \/ prog = "addrinfo" /\ Call!Init_addr /\ Free8
MCInit ==
  \/ prog = "54-01" /\ Init /\ Free0
  \/ NoShm /\ InitOther

NextOther ==
  \/ prog = "52-02" /\ Req!Next_52_02 /\ UNCHANGED Rest8
  \/ prog = "52-03 three" /\ F3!Next_52_03 /\ UNCHANGED Rest10
  \/ prog = "52-03 two" /\ F2!Next_52_03 /\ UNCHANGED Rest10
  \/ prog = "52-04 once" /\ Chat3!Next_52_04 /\ UNCHANGED Rest8
  \/ prog = "52-04 twice" /\ Chat2!Next_52_04 /\ UNCHANGED Rest8
  \/ prog = "notify" /\ Q!Next_notify /\ UNCHANGED Rest11
  \/ prog = "fifo" /\ Req!Next_fifo /\ UNCHANGED Rest12
  \/ prog = "svmsg" /\ Req!Next_svmsg /\ UNCHANGED Rest11
  \/ prog = "57-03" /\ S57!Next /\ UNCHANGED Rest8
  \/ prog = "59-01" /\ S59!Next /\ UNCHANGED Rest8
  \/ prog = "61-05" /\ Shells!Next_61_05 /\ UNCHANGED Rest7
  \/ prog = "61-06" /\ Shells!Next_61_06 /\ UNCHANGED Rest7
  \/ prog = "is_seqnum" /\ CS!Next_seqnum /\ UNCHANGED Rest11
  \/ prog = "is_echo_60-1" /\ E1!Next /\ UNCHANGED prog
  \/ prog = "is_echo" /\ E0!Next /\ UNCHANGED prog
  \/ prog = "is_echo_cl_61-1" /\ E2!Next /\ UNCHANGED prog
  \/ prog = "us_xfr" /\ Xfr!Next_xfr /\ UNCHANGED Rest11
  \/ prog = "ucase" /\ CS!Next_ucase /\ UNCHANGED Rest11
  \/ prog = "scm" /\ Call!Next_scm /\ UNCHANGED prog
  \/ prog = "stream_io" /\ Call!Next_io /\ UNCHANGED prog
  \/ prog = "self_pipe" /\ Call!Next_wake /\ UNCHANGED Rest11
  \/ prog = "poll_input" /\ Call!Next_poll /\ UNCHANGED Rest11
  \/ prog = "addrinfo" /\ Call!Next_addr /\ UNCHANGED Rest8
MCNext ==
  \/ prog = "54-01" /\ Next /\ UNCHANGED Rest0
  \/ NextOther /\ UNCHANGED vars

all == <<vars, Rest0>>
Fair1 ==
  \/ prog = "54-01" /\ WriterStep /\ UNCHANGED Rest0
  \/ /\ UNCHANGED vars
     /\ \/ prog = "52-02" /\ Req!Server_52_02 /\ UNCHANGED Rest8
        \/ prog = "52-03 two" /\ F2!Server /\ UNCHANGED Rest10
        \/ prog = "52-04 twice" /\ Chat2!Process(u1) /\ UNCHANGED Rest8
        \/ prog = "notify" /\ Q!Main /\ UNCHANGED Rest11
        \/ prog = "fifo" /\ Req!Server_fifo /\ UNCHANGED Rest12
        \/ prog = "svmsg" /\ Req!Server_svmsg /\ UNCHANGED Rest11
        \/ prog = "57-03" /\ S57!Server /\ UNCHANGED Rest8
        \/ prog = "59-01" /\ S59!Server /\ UNCHANGED Rest8
        \/ prog = "61-05" /\ Shells!Parent /\ UNCHANGED Rest7
        \/ prog = "61-06" /\ Shells!Server /\ UNCHANGED Rest7
        \/ prog = "is_seqnum" /\ CS!Fair_seqnum /\ UNCHANGED Rest11
        \/ prog = "is_echo_60-1" /\ E1!FairServer /\ UNCHANGED prog
        \/ prog = "is_echo" /\ E0!FairServer /\ UNCHANGED prog
        \/ prog = "is_echo_cl_61-1" /\ E2!FairServer /\ UNCHANGED prog
        \/ prog = "us_xfr" /\ Xfr!Fair_xfr /\ UNCHANGED Rest11
        \/ prog = "ucase" /\ CS!Fair_ucase /\ UNCHANGED Rest11
        \/ prog = "scm" /\ Call!Next_scm /\ UNCHANGED prog
        \/ prog = "stream_io" /\ Call!Fair /\ UNCHANGED prog
        \/ prog = "self_pipe" /\ Call!Main_wake /\ UNCHANGED Rest11
        \/ prog = "poll_input" /\ Call!Main_poll /\ UNCHANGED Rest11
        \/ prog = "addrinfo" /\ Call!Next_addr /\ UNCHANGED Rest8
Fair2 ==
  \/ prog = "54-01" /\ ReaderStep /\ UNCHANGED Rest0
  \/ /\ UNCHANGED vars
     /\ \/ prog = "52-02" /\ Req!Client_52_02(c1) /\ UNCHANGED Rest8
        \/ prog = "52-03 two" /\ F2!Client(c1) /\ UNCHANGED Rest10
        \/ prog = "52-04 twice" /\ Chat2!Process(u2) /\ UNCHANGED Rest8
        \/ prog = "notify" /\ Q!Handlers /\ UNCHANGED Rest11
        \/ prog = "fifo" /\ Req!Clientele /\ UNCHANGED Rest12
        \/ prog = "svmsg" /\ Req!Others /\ UNCHANGED Rest11
        \/ prog = "57-03" /\ S57!Clientele /\ UNCHANGED Rest8
        \/ prog = "59-01" /\ S59!Clientele /\ UNCHANGED Rest8
        \/ prog = "61-05" /\ Shells!Clientele /\ UNCHANGED Rest7
        \/ prog = "61-06" /\ Shells!Client_61_06 /\ UNCHANGED Rest7
        \/ prog = "is_echo_60-1" /\ E1!FairClients /\ UNCHANGED prog
        \/ prog = "is_echo" /\ E0!FairClients /\ UNCHANGED prog
        \/ prog = "is_echo_cl_61-1" /\ E2!FairClients /\ UNCHANGED prog
Fair3 ==
  /\ UNCHANGED vars
  /\ \/ prog = "52-02" /\ Req!Client_52_02(c2) /\ UNCHANGED Rest8
     \/ prog = "52-03 two" /\ F2!Client(c2) /\ UNCHANGED Rest10
     \/ prog = "52-04 twice" /\ Chat2!Receive_52_04(u1) /\ UNCHANGED Rest8
     \/ prog = "61-05" /\ Shells!Children /\ UNCHANGED Rest7
     \/ prog = "61-06" /\ Shells!Sender /\ UNCHANGED Rest7
     \/ prog = "is_echo_60-1" /\ E1!FairChildren /\ UNCHANGED prog
     \/ prog = "is_echo" /\ E0!FairChildren /\ UNCHANGED prog
     \/ prog = "is_echo_cl_61-1" /\ E2!FairChildren /\ UNCHANGED prog
     \/ prog = "self_pipe" /\ Call!Deliver /\ UNCHANGED Rest11
     \/ prog = "poll_input" /\ Call!Children /\ UNCHANGED Rest11
Fair4 ==
  /\ UNCHANGED vars
  /\ \/ prog = "52-02" /\ Req!Client_52_02(c3) /\ UNCHANGED Rest8
     \/ prog = "52-04 twice" /\ Chat2!Receive_52_04(u2) /\ UNCHANGED Rest8
MCSpec == MCInit /\ [][MCNext]_all /\ WF_all(Fair1) /\ WF_all(Fair2) /\ WF_all(Fair3) /\ WF_all(Fair4)

-----------------------------------------------------------------------------
\* The variables of the programs have their types; in particular no queue
\* holds more than mq_maxmsg messages.
TypesOK ==
  /\ TypeOK
  /\ prog = "52-02" => Req!TypeOK_52_02
  /\ prog = "52-03 three" => F3!TypeOK_52_03
  /\ prog = "52-03 two" => F2!TypeOK_52_03
  /\ prog = "52-04 once" => Chat3!TypeOK_52_04
  /\ prog = "52-04 twice" => Chat2!TypeOK_52_04
  /\ prog = "notify" => Q!TypeOK_notify
  /\ prog = "fifo" => Req!TypeOK_fifo
  /\ prog = "svmsg" => Req!TypeOK_svmsg
  /\ prog = "57-03" => S57!TypeOK
  /\ prog = "59-01" => S59!TypeOK
  /\ prog = "61-05" => Shells!TypeOK_61_05
  /\ prog = "61-06" => Shells!TypeOK_61_06
  /\ prog = "is_seqnum" => CS!TypeOK_seqnum
  /\ prog = "is_echo_60-1" => E1!TypeOK
  /\ prog = "is_echo" => E0!TypeOK
  /\ prog = "is_echo_cl_61-1" => E2!TypeOK
  /\ prog = "us_xfr" => Xfr!TypeOK_xfr
  /\ prog = "ucase" => CS!TypeOK_ucase
  /\ prog = "scm" => Call!TypeOK_scm
  /\ prog = "stream_io" => Call!TypeOK_io
  /\ prog = "self_pipe" => Call!TypeOK_wake
  /\ prog = "poll_input" => Call!TypeOK_poll
  /\ prog = "addrinfo" => Call!TypeOK_addr

\* 52-02, 44-03: no sequence number is given to two clients, whichever clients
\* die.  The server of 52-02 runs on; the one of 44-03 is started again after
\* crashes, and a number may be given again only if it was sent in an answer
\* that a crash kept from being saved.
NumbersUnique ==
  /\ prog = "52-02" => Req!NumbersUnique
  /\ prog = "fifo" => Req!NumbersDisjoint

\* 44-03: "the allocation of unique sequential numbers": no number is given
\* again by a server that was started again.
NumbersNeverRepeated == prog = "fifo" => Req!NumbersNeverRepeated

\* 52-03, svmsg_file_server: what a client prints is the leading blocks of
\* one file in order (52-03 prints each without its last byte), and every
\* block of it when it is told the end; the client of a file that 52-03's
\* server cannot read prints what the server's buffer held before, and is
\* never told the end.
FilesIntact ==
  /\ prog = "52-03 three" => F3!FilesIntact
  /\ prog = "52-03 two" => F2!FilesIntact
  /\ prog = "svmsg" => Req!FilesIntact

\* 52-03: "Create message with file name and client-queue name": a client
\* that is told the end of the file has received the file it asked for.
RightFile == prog = "52-03 three" => F3!RightFile

\* 52-04: what a user reads was not written before the process that reads it
\* was started; and it was written by the peer of its conversation, if the
\* users start the program once or are only two.  (Three users that start it
\* again may be connected crosswise: Paired of ChatMq.)
OnlyPeerHeard ==
  /\ prog = "52-04 once" => Chat3!OnlyPeerHeard /\ Chat3!NoStaleMessages
  /\ prog = "52-04 twice" => Chat2!OnlyPeerHeard /\ Chat2!NoStaleMessages

\* mq_notify(): no program waits for a notification that cannot come.
NoneMissed ==
  /\ prog = "notify" => Q!NoneMissed

\* Sequence numbers: a client reads the sum of exactly the requests executed
\* before, and with, its own (57-03, 59-01), or the number reserved for it
\* (is_seqnum), modulo the width of the counter, whoever is killed meanwhile.
NumbersRight ==
  /\ prog = "57-03" => S57!AnswerIsSum
  /\ prog = "59-01" => S59!AnswerIsSum
  /\ prog = "is_seqnum" => CS!NumbersFollow

\* Data arrives complete, in order and at its reader only: echoed, copied,
\* answered, passed with an open file, or read and written in portions.
\* 61-06: urgent data waits for one read of normal data at most, and after
\* the server's close() one write at most goes astray.
DataIntact ==
  /\ prog = "is_echo_60-1" => E1!EchoExact
  /\ prog = "is_echo" => E0!EchoExact
  /\ prog = "is_echo_cl_61-1" => E2!EchoExact
  /\ prog = "us_xfr" => Xfr!OneAfterTheOther
  /\ prog = "ucase" => CS!OwnAnswers
  /\ prog = "scm" => Call!PassedWhole
  /\ prog = "stream_io" => Call!ResultsExact
  /\ prog = "61-06" => Shells!UrgentFirst /\ Shells!CantSendAnymore

\* Nothing a loop was told of is forgotten: a signal that was caught, input
\* behind a flag, a descriptor that is ready, a message queue's message, a
\* socket opened for an address that does not work, a child of
\* is_echo_sv_60-1, of which there are MAX_CHILDREN at most.
NothingForgotten ==
  /\ prog = "self_pipe" => Call!NoneStranded
  /\ prog = "poll_input" => Call!NoneLeftOut
  /\ prog = "addrinfo" => Call!NoneLeaked
  /\ prog = "is_echo_60-1" => E1!ChildLimit

\* Again and again no child is a zombie, and no echo client is unserved.
Reaped ==
  /\ prog = "61-05" => Shells!ChildrenReaped
  /\ prog = "is_echo_60-1" => E1!Served
  /\ prog = "is_echo" => E0!Served
  /\ prog = "is_echo_cl_61-1" => E2!Served
ChildrenReaped == []<>Reaped

\* The servers come back to their queues, so that a client that waits is
\* answered and a file is sent to its end, whichever clients die, unless the
\* server is in a call that only one client can end: the answer of 52-02 to
\* the full queue of a client that died and left it, the next part of a file
\* for a client of 52-03 that does not read any more, a client's FIFO that is
\* not opened (44-6 does not wait there).  Two users of 52-04 whose queues
\* are both full do not block each other; a queue with mq_notify() is emptied.
Served ==
  /\ prog = "52-03 two" => F2!Returned
  /\ prog = "notify" => Q!Emptied
  /\ prog = "fifo" => Req!Ready
  /\ prog = "svmsg" => Req!Served
NobodyStuck ==
  /\ []<>Served
  /\ \A c \in Clients : []<>(prog = "52-02" => Req!Answered(c))
  /\ \A u \in {u1, u2} : []<>(prog = "52-04 twice" => Chat2!LinesSent(u))

\* Again and again every program is where it has nothing left to do.
Settled ==
  /\ prog = "54-01" => ReaderFinished
  /\ prog = "57-03" => S57!ClientsAnswered
  /\ prog = "59-01" => S59!ClientsAnswered
  /\ prog = "61-05" => Shells!ClientsEnd
  /\ prog = "61-06" => Shells!PeerEnds
  /\ prog = "is_seqnum" => CS!ClientsEnd_seqnum
  /\ prog = "us_xfr" => Xfr!Served
  /\ prog = "ucase" => CS!ClientsEnd_ucase
  /\ prog = "scm" => Call!Received
  /\ prog = "stream_io" => Call!Returned
  /\ prog = "self_pipe" => Call!Idle
  /\ prog = "poll_input" => Call!CaughtUp
  /\ prog = "addrinfo" => Call!Ended
ConversationsEnd == []<>Settled
=============================================================================
