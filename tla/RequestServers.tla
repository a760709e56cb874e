--------------------------- MODULE RequestServers ---------------------------
(***************************************************************************)
(* Servers with a queue of requests and a queue for each client: sequence  *)
(* numbers on POSIX message queues and FIFOs, files on System V message    *)
(* queues.  They share no state.                                           *)
(***************************************************************************)
EXTENDS Naturals, Sequences, FiniteSets

-----------------------------------------------------------------------------
(***************************************************************************)
(* Exercise 52-02: a sequence-number server on POSIX message queues.  Each *)
(* client creates a queue for its response, under a name built from a      *)
(* "random" number, sends that name to the server's queue, waits for the   *)
(* number and unlinks its queue.                                           *)
(*                                                                         *)
(* rand() is never seeded, so every client draws the same number and all   *)
(* clients compete for one name: linked is the client whose queue has it.  *)
(* A queue outlives its client; the server may hold it open.               *)
(***************************************************************************)
CONSTANTS Clients_52_02, NoClient, MaxMsg   \* mq_maxmsg of the server's queue

VARIABLES cpc,       \* where each client is
          got,       \* the numbers it has received
          linked,    \* the client whose queue is linked under the common name
          mailbox,   \* the messages in each client's queue
          spc,       \* where the server is
          reqs,      \* the server's queue; a request is always the common name
          peer,      \* the client queue handle_req() has open
          seq_num

client == <<cpc, got>>
server_52_02 == <<spc, reqs, peer, seq_num>>
vars_52_02 == <<cpc, got, linked, mailbox, spc, reqs, peer, seq_num>>

Stopped == {"done", "failed", "killed"}

TypeOK_52_02 ==
  /\ cpc \in [Clients_52_02 -> {"start", "open", "wait", "unlink"} \cup Stopped]
  /\ got \in [Clients_52_02 -> Seq(Nat)]
  /\ linked \in Clients_52_02 \cup {NoClient}
  /\ mailbox \in [Clients_52_02 -> Seq(Nat)]
  /\ \A c \in Clients_52_02 : Len(mailbox[c]) <= 1
  /\ spc \in {"off", "receive", "open", "send", "down"}
  /\ reqs \in 0..MaxMsg
  /\ peer \in Clients_52_02 \cup {NoClient}
  /\ seq_num \in Nat

Init_52_02 ==
  /\ cpc = [c \in Clients_52_02 |-> "start"]
  /\ got = [c \in Clients_52_02 |-> <<>>]
  /\ linked = NoClient
  /\ mailbox = [c \in Clients_52_02 |-> <<>>]
  /\ spc = "off"
  /\ reqs = 0 /\ peer = NoClient /\ seq_num = 0

-----------------------------------------------------------------------------
(* A client                                                                *)

\* mq_open(O_CREAT | O_EXCL) of the client's queue
Create(c) ==
  /\ cpc[c] = "start"
  /\ \/ linked = NoClient /\ linked' = c /\ cpc' = [cpc EXCEPT ![c] = "open"]
     \/ linked # NoClient /\ cpc' = [cpc EXCEPT ![c] = "failed"] /\ UNCHANGED linked
  /\ UNCHANGED <<got, mailbox, server_52_02>>

\* mq_open() of the server's queue; when there is none the client exits and
\* leaves its own queue linked
OpenServerFails(c) ==
  /\ cpc[c] = "open"
  /\ spc \in {"off", "down"}
  /\ cpc' = [cpc EXCEPT ![c] = "failed"]
  /\ UNCHANGED <<got, linked, mailbox, server_52_02>>

\* mq_send() of the request, which waits while the server's queue is full
Request_52_02(c) ==
  /\ cpc[c] = "open"
  /\ spc \notin {"off", "down"}
  /\ reqs < MaxMsg
  /\ reqs' = reqs + 1
  /\ cpc' = [cpc EXCEPT ![c] = "wait"]
  /\ UNCHANGED <<got, linked, mailbox, spc, peer, seq_num>>

\* mq_receive() of the response, and mq_close()
Receive_52_02(c) ==
  /\ cpc[c] = "wait"
  /\ mailbox[c] # <<>>
  /\ got' = [got EXCEPT ![c] = Append(@, Head(mailbox[c]))]
  /\ mailbox' = [mailbox EXCEPT ![c] = Tail(@)]
  /\ cpc' = [cpc EXCEPT ![c] = "unlink"]
  /\ UNCHANGED <<linked, server_52_02>>

\* mq_unlink() of the name, whoever's queue has it, and the output
Unlink_52_02(c) ==
  /\ cpc[c] = "unlink"
  /\ linked' = NoClient
  /\ cpc' = [cpc EXCEPT ![c] = "done"]
  /\ UNCHANGED <<got, mailbox, server_52_02>>

\* the client dies; it has no handler, so its queue stays linked
Kill_52_02(c) ==
  /\ cpc[c] \notin Stopped
  /\ cpc' = [cpc EXCEPT ![c] = "killed"]
  /\ UNCHANGED <<got, linked, mailbox, server_52_02>>

\* the left-over queue of a dead client is removed by hand
Sweep ==
  /\ linked # NoClient
  /\ cpc[linked] \in {"killed", "failed"}
  /\ linked' = NoClient
  /\ UNCHANGED <<client, mailbox, server_52_02>>

-----------------------------------------------------------------------------
(* The server                                                              *)

\* mq_open(O_CREAT) of the server's queue
Start ==
  /\ spc = "off"
  /\ spc' = "receive"
  /\ UNCHANGED <<client, linked, mailbox, reqs, peer, seq_num>>

\* mq_receive() of a request
Take ==
  /\ spc = "receive"
  /\ reqs > 0
  /\ reqs' = reqs - 1
  /\ spc' = "open"
  /\ UNCHANGED <<client, linked, mailbox, peer, seq_num>>

\* handle_req(): mq_open() of the queue with the name in the request
OpenClient ==
  /\ spc = "open"
  /\ \/ linked = NoClient /\ spc' = "receive" /\ UNCHANGED peer
     \/ linked # NoClient /\ spc' = "send" /\ peer' = linked
  /\ UNCHANGED <<client, linked, mailbox, reqs, seq_num>>

\* mq_send() of the number to a queue for one message, seq_num++, mq_close()
RespondWith(reply, count) ==
  /\ spc = "send"
  /\ mailbox[peer] = <<>>
  /\ mailbox' = [mailbox EXCEPT ![peer] = reply]
  /\ seq_num' = seq_num + count
  /\ peer' = NoClient
  /\ spc' = "receive"
  /\ UNCHANGED <<client, linked, reqs>>

\* Mutants of Respond: the number is not counted up, is sent twice, or never.
RespondSame == RespondWith(<<seq_num>>, 0)
RespondTwice == RespondWith(<<seq_num, seq_num>>, 1)
RespondNot == RespondWith(<<>>, 1)

Respond == RespondWith(<<seq_num>>, 1)

\* sig_term_handle() unlinks the server's queue and ends the server
Term ==
  /\ spc \notin {"off", "down"}
  /\ spc' = "down"
  /\ UNCHANGED <<client, linked, mailbox, reqs, peer, seq_num>>

-----------------------------------------------------------------------------
Client_52_02(c) ==
  Create(c) \/ OpenServerFails(c) \/ Request_52_02(c) \/ Receive_52_02(c) \/ Unlink_52_02(c)
Server_52_02 == Take \/ OpenClient \/ Respond

Next_52_02 == (\E c \in Clients_52_02 : Client_52_02(c) \/ Kill_52_02(c)) \/ Sweep \/ Server_52_02 \/ Start \/ Term

Spec_52_02 == Init_52_02 /\ [][Next_52_02]_vars_52_02

-----------------------------------------------------------------------------
(* Properties                                                              *)

\* Every number handed out, received or still in a queue
Numbers(c) == got[c] \o mailbox[c]

\* No number is given out twice, and only numbers already counted are: a
\* request whose client died does not make another client's number reappear.
NumbersUnique ==
  \A c, d \in Clients_52_02 : \A i \in 1..Len(Numbers(c)), j \in 1..Len(Numbers(d)) :
    /\ Numbers(c)[i] < seq_num
    /\ Numbers(c)[i] = Numbers(d)[j] => c = d /\ i = j

\* handle_req() waits in mq_send() for room in the queue of a client that
\* will not read any more
Blocked == spc = "send" /\ mailbox[peer] # <<>> /\ cpc[peer] \in Stopped

\* Again and again: while the server lives a waiting client gets its number, whoever else
\* came too early, was refused or died; the one exception is a server that
\* blocks on the left-over queue of a dead client.
Answered(c) == cpc[c] # "wait" \/ spc = "down" \/ Blocked

-----------------------------------------------------------------------------
(***************************************************************************)
(* The sequence-number server on FIFOs of the book and its changes for     *)
(* exercises 44-03 (the number is kept in a file), 44-04 (SIGTERM) and     *)
(* 44-06 (a client FIFO that nobody reads does not stop the server), with  *)
(* the clients fifo_seqnum_client (well behaved) and                       *)
(* fifo_seqnum_client_44-6 (opens no FIFO of its own).                     *)
(*                                                                         *)
(* A client is killed at any point, by a signal that runs no exit handler. *)
(***************************************************************************)
CONSTANTS Clients_fifo, Rude, Lens, None, MaxKills, MaxCrashes

\* spc is declared above
VARIABLES kind, seqNum, bak, req, fifo, cst, made, answer, faults,
          given,  \* the numbers given to clients
          lost    \* those that a crash kept from being written to the file
vars_fifo == <<kind, spc, seqNum, bak, req, fifo, cst, made, answer, faults, given, lost>>
server_fifo == <<spc, seqNum, bak, req, given, lost>>
clients == <<cst, made, answer>>

Init_fifo ==
  /\ kind \in {"plain", "44-3", "44-4", "44-6"}
  /\ spc = "open" /\ seqNum = 0 /\ bak = 0 /\ req = None /\ fifo = <<>>
  /\ cst = [c \in Clients_fifo |-> "start"] /\ made = {} /\ answer = [c \in Clients_fifo |-> None]
  /\ given = {} /\ lost = {} /\ faults = 0

-----------------------------------------------------------------------------
(* The clients                                                             *)

\* mkfifo(); 44-6 makes none
Mkfifo(c) ==
  /\ cst[c] = "start" /\ cst' = [cst EXCEPT ![c] = "made"]
  /\ made' = IF c \in Rude THEN made ELSE made \cup {c}
  /\ UNCHANGED <<kind, server_fifo, fifo, answer, faults>>

\* open(SERVER_FIFO, O_WRONLY), which needs a reader, and write(); the client
\* of 44-6 is done
Request_fifo(c) ==
  /\ cst[c] = "made" /\ spc \notin {"open", "dead"}
  /\ \E n \in Lens : fifo' = Append(fifo, [from |-> c, len |-> n])
  /\ cst' = [cst EXCEPT ![c] = IF c \in Rude THEN "done" ELSE "sent"]
  /\ UNCHANGED <<kind, server_fifo, made, answer, faults>>
\* open(clientFifo, O_RDONLY): the client is a reader as soon as it is in
\* the call, which returns when the server has opened the FIFO
OpenFifo(c) ==
  /\ cst[c] = "sent" /\ cst' = [cst EXCEPT ![c] = "reading"]
  /\ UNCHANGED <<kind, server_fifo, fifo, made, answer, faults>>
\* read(), and removeFifo() at exit
Read(c) ==
  /\ cst[c] = "reading" /\ answer[c] # None
  /\ cst' = [cst EXCEPT ![c] = "done"] /\ made' = made \ {c}
  /\ UNCHANGED <<kind, server_fifo, fifo, answer, faults>>

Kill_fifo(c) ==
  /\ cst[c] \in {"made", "sent", "reading"} /\ faults < MaxKills /\ faults' = faults + 1
  /\ cst' = [cst EXCEPT ![c] = "killed"]
  /\ UNCHANGED <<kind, server_fifo, fifo, made, answer>>

-----------------------------------------------------------------------------
(* The server                                                              *)

\* open() of the server FIFO returns when a client opens it
OpenServer ==
  /\ spc = "open" /\ \E c \in Clients_fifo : cst[c] = "made"
  /\ spc' = "read" /\ seqNum' = IF kind = "44-3" THEN bak ELSE 0
  /\ UNCHANGED <<kind, bak, req, fifo, clients, given, lost, faults>>

ReadRequest_fifo ==
  /\ spc = "read" /\ fifo # <<>>
  /\ req' = Head(fifo) /\ fifo' = Tail(fifo) /\ spc' = "client"
  /\ UNCHANGED <<kind, seqNum, bak, clients, given, lost, faults>>

Reads(c) == cst[c] = "reading"
\* write() of the answer and close(); nobody reads it if the client has been killed
Answer ==
  /\ answer' = [answer EXCEPT ![req.from] = seqNum]
  /\ given' = given \cup {[first |-> seqNum, len |-> req.len, to |-> req.from]}
Passed == spc' = "read" /\ req' = None
\* open(clientFifo, O_WRONLY) waits for a reader, and fails if there is no FIFO
OpenBlocking ==
  \/ /\ req.from \in made /\ Reads(req.from) /\ Answer
     /\ seqNum' = seqNum + req.len /\ spc' = "backup" /\ UNCHANGED req
  \/ req.from \notin made /\ Passed /\ UNCHANGED <<seqNum, answer, given>>
\* with O_NONBLOCK it fails if nobody reads
OpenNonblock ==
  \/ /\ req.from \in made /\ Reads(req.from) /\ Answer
     /\ seqNum' = seqNum + req.len /\ spc' = "backup" /\ UNCHANGED req
  \/ ~(req.from \in made /\ Reads(req.from)) /\ Passed /\ UNCHANGED <<seqNum, answer, given>>

Serve(open) == spc = "client" /\ open /\ UNCHANGED <<kind, bak, fifo, cst, made, faults, lost>>
fifo_seqnum_server == kind \in {"plain", "44-3"} /\ Serve(OpenBlocking)
fifo_seqnum_server_44_4 == kind = "44-4" /\ Serve(OpenBlocking)
\* Mutant of fifo_seqnum_server_44_6: the open() blocks.
fifo_seqnum_server_44_6_blocks == kind = "44-6" /\ Serve(OpenBlocking)
fifo_seqnum_server_44_6 == kind = "44-6" /\ Serve(OpenNonblock)

\* 44-3: the number is written to the file after the answer
BackupAs(number) ==
  /\ spc = "backup" /\ Passed
  /\ bak' = IF kind = "44-3" THEN number ELSE bak
  /\ UNCHANGED <<kind, seqNum, fifo, clients, given, lost, faults>>
\* Mutant of Backup: the number kept is the one that was given out.
BackupGiven == BackupAs(seqNum - req.len)
Backup == BackupAs(seqNum)

\* 44-3 may be killed and started again.  lost only records the numbers that
\* the client has been sent and the file does not know of.
Crash ==
  /\ kind = "44-3" /\ spc \in {"read", "client", "backup"} /\ faults < MaxCrashes
  /\ faults' = faults + 1 /\ spc' = "open" /\ req' = None /\ fifo' = <<>>
  /\ lost' = lost \cup {g \in given : spc = "backup" /\ g.to = req.from}
  /\ UNCHANGED <<kind, seqNum, bak, clients, given>>
\* 44-4: sig_handler() closes the descriptors and kills the server
sig_handler ==
  /\ kind = "44-4" /\ spc \in {"read", "client", "backup"} /\ spc' = "dead" /\ fifo' = <<>>
  /\ UNCHANGED <<kind, seqNum, bak, req, clients, given, lost, faults>>

Server_fifo ==
  \/ OpenServer \/ ReadRequest_fifo \/ Backup
  \/ fifo_seqnum_server \/ fifo_seqnum_server_44_4 \/ fifo_seqnum_server_44_6
Client_fifo(c) == Mkfifo(c) \/ Request_fifo(c) \/ OpenFifo(c) \/ Read(c)
Clientele == \E c \in Clients_fifo : Client_fifo(c)
Next_fifo == Server_fifo \/ Clientele \/ Crash \/ sig_handler \/ \E c \in Clients_fifo : Kill_fifo(c)

Spec_fifo == Init_fifo /\ [][Next_fifo]_vars_fifo

-----------------------------------------------------------------------------
\* Types.
TypeOK_fifo ==
  /\ spc \in {"open", "read", "client", "backup", "dead"} /\ seqNum \in Nat /\ bak \in Nat
  /\ cst \in [Clients_fifo -> {"start", "made", "sent", "reading", "done", "killed"}]
  /\ made \subseteq Clients_fifo \ Rude

Apart(g, h) == g.first + g.len <= h.first \/ h.first + h.len <= g.first
Kept == given \ lost
\* No number is given to two clients, clients killed before or after their
\* answer notwithstanding, and over restarts of 44-3 as well, but for the
\* numbers of an answer that was sent and not yet written to the file when
\* the server was killed.
NumbersDisjoint == \A g, h \in Kept : g # h => Apart(g, h)

\* "the allocation of unique sequential numbers", which 44-3 keeps over
\* restarts of the server: no number is given to two clients.
NumbersNeverRepeated == \A g, h \in given : g # h => Apart(g, h)

\* The server of 44-6 comes back to its queue whatever the clients do; the
\* others do as long as no client is killed between request and answer.
Ready == spc \in {"read", "open", "dead"} \/ (kind # "44-6" /\ faults > 0)

-----------------------------------------------------------------------------
(***************************************************************************)
(* The file server on System V message queues of the book: a child for     *)
(* each request sends the file, part by part, to the queue of the client.  *)
(*                                                                         *)
(* A client ends early by an error or by a key of the user, which removes  *)
(* its queue, or is killed, which leaves it.                               *)
(***************************************************************************)
CONSTANTS Clients_svmsg, Parts,   \* lengths of files in messages
          QueueSize,              \* messages that a client's queue holds
          MaxForkFails, MaxFaults

\* spc, reqs, req, cst, got, faults are declared above
VARIABLES size, child, part, sigchld, queue
vars_svmsg == <<size, spc, reqs, req, child, part, sigchld, queue, cst, got, faults>>

Missing == 99   \* "size" of a file that cannot be opened
DATA(i) == <<"DATA", i>>
END == <<"END">>
FAILURE == <<"FAILURE">>

Init_svmsg ==
  /\ size \in [Clients_svmsg -> Parts \cup {Missing}]
  /\ spc = "msgrcv" /\ reqs = <<>> /\ req = <<>> /\ sigchld = FALSE
  /\ child = [c \in Clients_svmsg |-> "none"] /\ part = [c \in Clients_svmsg |-> 1] /\ queue = [c \in Clients_svmsg |-> <<>>]
  /\ cst = [c \in Clients_svmsg |-> "start"] /\ got = [c \in Clients_svmsg |-> <<>>]
  /\ faults = 0

Exists(c) == cst[c] \in {"sent", "killed"}

-----------------------------------------------------------------------------
(* The client                                                              *)

\* msgget() of both queues and msgsnd(); without a server the client ends
Send(c) ==
  /\ cst[c] = "start"
  /\ IF spc = "exit" THEN cst' = [cst EXCEPT ![c] = "failed"] /\ UNCHANGED reqs
     ELSE cst' = [cst EXCEPT ![c] = "sent"] /\ reqs' = Append(reqs, c)
  /\ UNCHANGED <<size, spc, req, child, part, sigchld, queue, got, faults>>
\* msgrcv() until a message that is not RESP_MT_DATA; removeQueue() at exit
Receive_svmsg(c) ==
  /\ cst[c] = "sent" /\ queue[c] # <<>>
  /\ got' = [got EXCEPT ![c] = Append(@, Head(queue[c]))]
  /\ IF Head(queue[c])[1] = "DATA"
     THEN queue' = [queue EXCEPT ![c] = Tail(@)] /\ UNCHANGED cst
     ELSE queue' = [queue EXCEPT ![c] = <<>>] /\ cst' = [cst EXCEPT ![c] = "done"]
  /\ UNCHANGED <<size, spc, reqs, req, child, part, sigchld, faults>>
Leave(c) ==
  /\ cst[c] = "sent" /\ faults < MaxFaults /\ faults' = faults + 1
  /\ \/ cst' = [cst EXCEPT ![c] = "failed"] /\ queue' = [queue EXCEPT ![c] = <<>>]
     \/ cst' = [cst EXCEPT ![c] = "killed"] /\ UNCHANGED queue
  /\ UNCHANGED <<size, spc, reqs, req, child, part, sigchld, got>>

-----------------------------------------------------------------------------
(* The server                                                              *)

\* msgrcv(); a signal interrupts it and it is called again
ReadRequest_svmsg ==
  /\ spc = "msgrcv" /\ reqs # <<>>
  /\ req' = Head(reqs) /\ reqs' = Tail(reqs) /\ spc' = "fork"
  /\ UNCHANGED <<size, child, part, sigchld, queue, cst, got, faults>>
\* fork(); when it fails the server removes its queue and ends
Fork ==
  /\ spc = "fork"
  /\ \/ child' = [child EXCEPT ![req] = "open"] /\ spc' = "msgrcv" /\ UNCHANGED <<reqs, faults>>
     \/ faults < MaxForkFails /\ faults' = faults + 1 /\ spc' = "exit" /\ reqs' = <<>> /\ UNCHANGED child
  /\ UNCHANGED <<size, req, part, sigchld, queue, cst, got>>

\* msgsnd() to the client: waits for room, fails when there is no queue
Deliver(c, m) == Len(queue[c]) < QueueSize /\ Exists(c) /\ queue' = [queue EXCEPT ![c] = Append(@, m)]
Undelivered(c) == ~Exists(c) /\ UNCHANGED queue
Ends(c) == child' = [child EXCEPT ![c] = "zombie"] /\ sigchld' = TRUE

\* serveRequest(): a file that cannot be opened; a part, where an error ends
\* the loop; the end
Refuse(c) ==
  /\ child[c] = "open" /\ size[c] = Missing
  /\ Deliver(c, FAILURE) \/ Undelivered(c)
  /\ Ends(c) /\ UNCHANGED part
OpenFile(c) ==
  /\ child[c] = "open" /\ size[c] # Missing
  /\ child' = [child EXCEPT ![c] = "send"] /\ UNCHANGED <<part, queue, sigchld>>
SendPart(c) ==
  /\ child[c] = "send" /\ part[c] <= size[c]
  /\ \/ Deliver(c, DATA(part[c])) /\ part' = [part EXCEPT ![c] = @ + 1]
     \/ Undelivered(c) /\ part' = [part EXCEPT ![c] = size[c] + 1]
  /\ UNCHANGED <<child, sigchld>>
SendEnd(c) ==
  /\ child[c] = "send" /\ part[c] > size[c]
  /\ Deliver(c, END) \/ Undelivered(c)
  /\ Ends(c) /\ UNCHANGED part
serveRequest(c) ==
  /\ Refuse(c) \/ OpenFile(c) \/ SendPart(c) \/ SendEnd(c)
  /\ UNCHANGED <<size, spc, reqs, req, cst, got, faults>>

\* SIGCHLD: the handler waits for every child that has ended
\* Mutant of grimReaper: one child is waited for.
grimReaperOnce ==
  /\ sigchld /\ spc # "exit" /\ sigchld' = FALSE
  /\ \E c \in Clients_svmsg : child[c] = "zombie" /\ child' = [child EXCEPT ![c] = "reaped"]
  /\ UNCHANGED <<size, spc, reqs, req, part, queue, cst, got, faults>>
grimReaper ==
  /\ sigchld /\ spc # "exit" /\ sigchld' = FALSE
  /\ child' = [c \in Clients_svmsg |-> IF child[c] = "zombie" THEN "reaped" ELSE child[c]]
  /\ UNCHANGED <<size, spc, reqs, req, part, queue, cst, got, faults>>

Server_svmsg == ReadRequest_svmsg \/ Fork \/ grimReaper
Others == \E c \in Clients_svmsg : Send(c) \/ Receive_svmsg(c) \/ serveRequest(c)
Next_svmsg == Server_svmsg \/ Others \/ \E c \in Clients_svmsg : Leave(c)

Spec_svmsg == Init_svmsg /\ [][Next_svmsg]_vars_svmsg

-----------------------------------------------------------------------------
\* Types.
TypeOK_svmsg ==
  /\ spc \in {"msgrcv", "fork", "exit"} /\ sigchld \in BOOLEAN
  /\ cst \in [Clients_svmsg -> {"start", "sent", "done", "failed", "killed"}]
  /\ \A c \in Clients_svmsg : Len(queue[c]) <= QueueSize

\* what a client is sent for its file
File(c) == IF size[c] = Missing THEN <<FAILURE>> ELSE [i \in 1..(size[c] + 1) |-> IF i > size[c] THEN END ELSE DATA(i)]
\* A client receives the parts of its own file in order, and all of them
\* when it is told the end.
FilesIntact ==
  \A c \in Clients_svmsg :
    /\ got[c] = SubSeq(File(c), 1, Len(got[c]))
    /\ cst[c] = "done" => got[c] = File(c)

\* Again and again every client that is still there has its file and no child
\* is a zombie, unless the server has ended or a client left its queue full.
Served ==
  \/ spc = "exit"
  \/ /\ \A c \in Clients_svmsg : cst[c] \in {"done", "failed", "killed"}
     /\ \A c \in Clients_svmsg : child[c] # "zombie"
=============================================================================
