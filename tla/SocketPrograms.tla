--------------------------- MODULE SocketPrograms ---------------------------
(***************************************************************************)
(* Exercises 57-01, 57-04, 59-03, 59-05, 61-03 and 63-02: datagram sockets *)
(* of the UNIX and the internet domain, connected and not, and servers on  *)
(* stream sockets.  The programs share no state; the names of each end in  *)
(* its number.                                                             *)
(***************************************************************************)
EXTENDS Naturals, Sequences, FiniteSets, Functions, SequencesExt

-----------------------------------------------------------------------------
(***************************************************************************)
(* Exercise 57-01: the parent writes MSG_NUM datagrams to a UNIX domain    *)
(* socket of the child, faster than the child reads them, and is blocked   *)
(* while its send buffer is full.  The child's first datagram starts the   *)
(* transfer and its second one ends it.                                    *)
(***************************************************************************)
CONSTANTS MSG_NUM, BufMsgs   \* datagrams that SO_SNDBUF leaves room for

VARIABLES wpc, rpc,             \* where writer and reader are
          wbound,               \* the writer's socket has its address
          toReader, toWriter,   \* datagrams under way
          sent, got             \* datagrams written, and those read
vars_57_01 == <<wpc, rpc, wbound, toReader, toWriter, sent, got>>

TypeOK_57_01 ==
  /\ wpc \in {"bind", "ready", "write", "done", "end"}
  /\ rpc \in {"bind", "hello", "read", "notify", "end"}
  /\ wbound \in BOOLEAN
  /\ toReader \in Seq(0..(MSG_NUM - 1)) /\ toWriter \in 0..2
  /\ sent \in 0..MSG_NUM /\ got \in Seq(0..(MSG_NUM - 1))

Init_57_01 ==
  /\ wpc = "bind" /\ rpc = "bind" /\ wbound = FALSE
  /\ toReader = <<>> /\ toWriter = 0 /\ sent = 0 /\ got = <<>>

-----------------------------------------------------------------------------
(* write_proc()                                                            *)

\* socket() to bind(): fails or gives the socket its address
BindWriter ==
  /\ wpc = "bind"
  /\ \/ wpc' = "ready" /\ wbound' = TRUE
     \/ wpc' = "end" /\ UNCHANGED wbound
  /\ UNCHANGED <<rpc, toReader, toWriter, sent, got>>

\* recvfrom() of the reader's first and of its last datagram
Receive_57_01(from, to) ==
  /\ wpc = from /\ toWriter > 0
  /\ toWriter' = toWriter - 1 /\ wpc' = to
  /\ wbound' = (to # "end")
  /\ UNCHANGED <<rpc, toReader, sent, got>>

\* sendto() waits for room in the buffer; the loop makes n turns
WriteTurns(n) ==
  /\ wpc = "write" /\ Len(toReader) < BufMsgs
  /\ toReader' = Append(toReader, sent)
  /\ sent' = sent + 1
  /\ wpc' = IF sent' = n THEN "done" ELSE "write"
  /\ UNCHANGED <<rpc, wbound, toWriter, got>>

WriteOneMore == WriteTurns(MSG_NUM + 1)
Write_57_01 == WriteTurns(MSG_NUM)

Writer == BindWriter \/ Receive_57_01("ready", "write") \/ Write_57_01 \/ Receive_57_01("done", "end")

-----------------------------------------------------------------------------
(* read_proc()                                                             *)

BindReader ==
  /\ rpc = "bind" /\ rpc' \in {"hello", "end"}
  /\ UNCHANGED <<wpc, wbound, toReader, toWriter, sent, got>>

\* sendto() after a second's sleep, an error if the writer is not there yet
Hello ==
  /\ rpc = "hello"
  /\ rpc' = IF wbound THEN "read" ELSE "end"
  /\ toWriter' = IF wbound THEN toWriter + 1 ELSE toWriter
  /\ UNCHANGED <<wpc, wbound, toReader, sent, got>>

ReadThen(after) ==
  /\ rpc = "read" /\ toReader # <<>>
  /\ got' = Append(got, Head(toReader)) /\ toReader' = Tail(toReader)
  /\ rpc' = IF Len(got') = MSG_NUM THEN after ELSE "read"
  /\ UNCHANGED <<wpc, wbound, toWriter, sent>>

ReadNoNotify == ReadThen("end")
Read_57_01 == ReadThen("notify")

\* the result of this sendto() is ignored
Notify ==
  /\ rpc = "notify" /\ rpc' = "end"
  /\ toWriter' = IF wbound THEN toWriter + 1 ELSE toWriter
  /\ UNCHANGED <<wpc, wbound, toReader, sent, got>>

Reader == BindReader \/ Hello \/ Read_57_01 \/ Notify

Next_57_01 == Writer \/ Reader

-----------------------------------------------------------------------------
\* sendto(), recvfrom(): the datagrams read are the first ones written, in
\* their order, and no more than the buffer holds are unread.
Reliable ==
  /\ got \o toReader = [k \in 1..sent |-> k - 1]
  /\ sent <= Len(got) + BufMsgs

\* Once the reader's first datagram is sent, both processes end, all read.
FlowOver == rpc \notin {"read", "notify"} /\ (got # <<>> => wpc = "end" /\ Len(got) = MSG_NUM)

-----------------------------------------------------------------------------
(***************************************************************************)
(* Exercise 57-04: the same experiment with UNIX domain sockets.  The      *)
(* parent "c" sends one datagram to "b", whose socket may be connected to  *)
(* that of "a", and kills both children.                                   *)
(***************************************************************************)
VARIABLES pc,      \* where each process is
          con,     \* b's socket is connected to a's
          inbox,   \* datagrams that wait for b
          heard    \* datagrams b has shown
vars_57_04 == <<pc, con, inbox, heard>>

TypeOK_57_04 ==
  /\ pc \in [{"a", "b", "c"} -> {"none", "fork_a", "fork_b", "bind", "sendto", "connect",
                                 "recvfrom", "kill_a", "kill_b", "wait", "end"}]
  /\ con \in BOOLEAN /\ inbox \in 0..1 /\ heard \in 0..1

Init_57_04 ==
  /\ pc = [a |-> "none", b |-> "none", c |-> "fork_a"]
  /\ con = FALSE /\ inbox = 0 /\ heard = 0

Goto_57_04(p, from, to) == pc[p] = from /\ pc' = [pc EXCEPT ![p] = to]

Fork_57_04(from, child, to) ==
  /\ pc["c"] = from
  /\ \/ pc' = [pc EXCEPT !["c"] = to, ![child] = "bind"]
     \/ pc' = [pc EXCEPT !["c"] = "end"]
  /\ UNCHANGED <<con, inbox, heard>>

Main == Fork_57_04("fork_a", "a", "fork_b") \/ Fork_57_04("fork_b", "b", "bind")

\* socket() and bind(): a child that fails exits, the parent kills first
Bind(p, ok, error) ==
  /\ Goto_57_04(p, "bind", ok) \/ Goto_57_04(p, "bind", error)
  /\ UNCHANGED <<con, inbox, heard>>

\* connect() with -c: an error unless a's socket is bound
Connect_57_04 ==
  /\ \/ Goto_57_04("b", "connect", "recvfrom") /\ con' \in {FALSE, pc["a"] = "recvfrom"}
     \/ Goto_57_04("b", "connect", "end") /\ pc["a"] # "recvfrom" /\ UNCHANGED con
  /\ UNCHANGED <<inbox, heard>>

RecvFrom_57_04 ==
  /\ pc["b"] = "recvfrom" /\ inbox > 0
  /\ inbox' = inbox - 1 /\ heard' = heard + 1
  /\ UNCHANGED <<pc, con>>

\* sendto() fails when b has no socket there or is connected to another one
SendTo_57_04 ==
  /\ Goto_57_04("c", "sendto", "kill_a")
  /\ inbox' = IF pc["b"] \in {"connect", "recvfrom"} /\ ~con THEN inbox + 1 ELSE inbox
  /\ UNCHANGED <<con, heard>>

\* SIGKILL is sent to both children on either way out
Kill(from, child, to) ==
  /\ pc["c"] = from
  /\ pc' = [pc EXCEPT !["c"] = to, ![child] = "end"]
  /\ UNCHANGED <<con, inbox, heard>>

\* wait() for one child; init takes care of the other one
Wait ==
  /\ \E child \in {"a", "b"} : pc[child] = "end"
  /\ Goto_57_04("c", "wait", "end")
  /\ UNCHANGED <<con, inbox, heard>>

ProcA == Bind("a", "recvfrom", "end")
ProcB == Bind("b", "connect", "end") \/ Connect_57_04 \/ RecvFrom_57_04
ProcC == Main \/ Bind("c", "sendto", "kill_a") \/ SendTo_57_04
         \/ Kill("kill_a", "a", "kill_b") \/ Kill("kill_b", "b", "wait") \/ Wait

Next_57_04 == ProcA \/ ProcB \/ ProcC

-----------------------------------------------------------------------------
\* proc_c(): once both children exist, all three processes end, on the way of
\* success and on that of an error.
EveryoneOut_57_04 == pc["b"] # "none" => \A p \in {"a", "b", "c"} : pc[p] = "end"

-----------------------------------------------------------------------------
(***************************************************************************)
(* Exercise 59-05: three processes with a datagram socket each.  "third"   *)
(* is the parent and sends one datagram to "first", which may have         *)
(* connected its socket to that of "second".  "second" only waits in       *)
(* getchar() to be killed; when getchar() returns, so does proc_second(),  *)
(* and the process goes on in main() as a second sender with a receiver    *)
(* "again" of its own.  Any system call may fail, which is also what a     *)
(* port in use by another program looks like.                              *)
(***************************************************************************)
\* pc, con, inbox, heard are declared above
VARIABLES term,   \* the processes with SIGTERM pending
          owner   \* the receiver whose socket has PORT_FIRST, or "free"
vars_59_05 == <<pc, term, owner, con, inbox, heard>>

Senders == {"third", "second"}
Receivers == {"first", "again"}
Procs == Senders \cup Receivers
pid_first(p) == IF p = "third" THEN "first" ELSE "again"

TypeOK_59_05 ==
  /\ pc \in [Procs -> {"none", "fork_second", "fork_first", "signal", "bind", "sendto",
                       "free_res", "open", "getchar", "connect", "recvfrom", "end"}]
  /\ term \subseteq Procs /\ owner \in Receivers \cup {"free"} /\ con \in BOOLEAN
  /\ inbox \in 0..2 /\ heard \in 0..2 /\ inbox + heard <= 2

Init_59_05 ==
  /\ pc = [p \in Procs |-> IF p = "third" THEN "fork_second" ELSE "none"]
  /\ term = {} /\ owner = "free" /\ con = FALSE /\ inbox = 0 /\ heard = 0

Goto_59_05(p, from, to) == pc[p] = from /\ pc' = [pc EXCEPT ![p] = to]

\* fork() of a child that starts by opening its socket, or exit_err()
Fork_59_05(p, from, child, to) ==
  /\ pc[p] = from
  /\ \/ pc' = [pc EXCEPT ![p] = to, ![child] = "open"]
     \/ pc' = [pc EXCEPT ![p] = "end"]
  /\ UNCHANGED <<term, owner, con, inbox, heard>>

ForkSecond == Fork_59_05("third", "fork_second", "second", "fork_first")
ForkFirst(p) == Fork_59_05(p, "fork_first", pid_first(p), "signal")

-----------------------------------------------------------------------------
(* proc_third(), by the parent and by a "second" that has left getchar()   *)

Signal(p) == Goto_59_05(p, "signal", "bind") /\ UNCHANGED <<term, owner, con, inbox, heard>>

BindThird(p) ==
  /\ Goto_59_05(p, "bind", "sendto") \/ Goto_59_05(p, "bind", "free_res")
  /\ UNCHANGED <<term, owner, con, inbox, heard>>

\* sendto() does not learn whether anyone gets the datagram
SendTo_59_05(p) ==
  /\ Goto_59_05(p, "sendto", "free_res")
  /\ \/ inbox' = IF owner # "free" /\ ~con THEN inbox + 1 ELSE inbox
     \/ UNCHANGED inbox
  /\ UNCHANGED <<term, owner, con, heard>>

Children(p) == {pid_first(p)} \cup IF p = "third" THEN {"second"} ELSE {}

\* the process ends, its socket is closed, and the processes in kills have
\* been sent SIGTERM
End(p, kills) ==
  /\ pc' = [pc EXCEPT ![p] = "end"]
  /\ term' = (term \ {p}) \cup {q \in kills : pc[q] # "end"}
  /\ owner' = IF owner = p THEN "free" ELSE owner
  /\ con' = (con /\ owner # p)
  /\ inbox' = IF owner = p THEN 0 ELSE inbox
  /\ UNCHANGED heard

FreeResOf(p, kids) == pc[p] = "free_res" /\ End(p, kids)
free_res_one(p) == FreeResOf(p, {pid_first(p)})
free_res(p) == FreeResOf(p, Children(p))

\* SIGTERM: the handlers of the receivers and of a waiting "second" close the
\* socket, thandle_third() calls free_res(); then the signal kills
Terminate(p) ==
  /\ p \in term
  /\ End(p, IF pc[p] \in {"bind", "sendto", "free_res"} THEN Children(p) ELSE {})

\* the user ends the program; before signal() the children would stay
Stop ==
  /\ pc["third"] \in {"bind", "sendto", "free_res"}
  /\ term' = term \cup {"third"}
  /\ UNCHANGED <<pc, owner, con, inbox, heard>>

-----------------------------------------------------------------------------
(* proc_second() and proc_first()                                          *)

OpenSecond ==
  /\ Goto_59_05("second", "open", "getchar") \/ Goto_59_05("second", "open", "end")
  /\ UNCHANGED <<term, owner, con, inbox, heard>>

Getchar == Goto_59_05("second", "getchar", "fork_first") /\ UNCHANGED <<term, owner, con, inbox, heard>>

\* isock_bind() binds no address with a port in use
isock_bind(q) == owner = "free" /\ owner' = q

OpenFirst(q) ==
  /\ \/ Goto_59_05(q, "open", "connect") /\ isock_bind(q)
     \/ Goto_59_05(q, "open", "end") /\ UNCHANGED owner
  /\ UNCHANGED <<term, con, inbox, heard>>

\* with -c the socket is connected; what waits on it already stays
ConnectFirst(q) ==
  /\ Goto_59_05(q, "connect", "recvfrom")
  /\ con' \in BOOLEAN
  /\ UNCHANGED <<term, owner, inbox, heard>>

RecvFrom_59_05(q) ==
  /\ pc[q] = "recvfrom" /\ inbox > 0
  /\ inbox' = inbox - 1 /\ heard' = heard + 1
  /\ UNCHANGED <<pc, term, owner, con>>

-----------------------------------------------------------------------------
Run(p) ==
  \/ p = "third" /\ ForkSecond
  \/ p = "second" /\ OpenSecond
  \/ p \in Senders /\ (ForkFirst(p) \/ Signal(p) \/ BindThird(p) \/ SendTo_59_05(p) \/ free_res(p))
  \/ p \in Receivers /\ (OpenFirst(p) \/ ConnectFirst(p) \/ RecvFrom_59_05(p))

Everyone == \E p \in Procs : Run(p) \/ Terminate(p)
Next_59_05 == Everyone \/ Stop \/ Getchar

-----------------------------------------------------------------------------
\* proc_third(), free_res(): once both children exist, all three processes
\* end, whichever call fails and whatever "second" turned into.
EveryoneOut_59_05 == pc["first"] # "none" => \A p \in {"third", "second", "first"} : pc[p] = "end"

-----------------------------------------------------------------------------
(***************************************************************************)
(* Exercise 59-03: an iterative server on a UNIX domain stream socket      *)
(* writes what its clients read from their input to its own output, one    *)
(* client after the other.  usock_connect() and usock_listen() are the     *)
(* library's.                                                              *)
(***************************************************************************)
CONSTANTS Clients_59_03, None, Blocks,   \* blocks of input of each client
          Room                           \* blocks that fit in a connection

VARIABLES cpc, nread,   \* where each client is, blocks it has read from its input
          conn,         \* the blocks in each connection
          queue,        \* connections not accepted yet
          up, pfd,      \* the server listens; the connection it serves
          closed,       \* why the server has closed a connection
          output        \* the blocks written, with the client they come from
vars_59_03 == <<cpc, nread, conn, queue, up, pfd, closed, output>>

TypeOK_59_03 ==
  /\ cpc \in [Clients_59_03 -> {"connect", "read", "write", "end", "failed"}]
  /\ nread \in [Clients_59_03 -> 0..Blocks]
  /\ conn \in [Clients_59_03 -> Seq(1..Blocks)] /\ \A c \in Clients_59_03 : Len(conn[c]) <= Room
  /\ queue \in Seq(Clients_59_03) /\ up \in BOOLEAN /\ pfd \in Clients_59_03 \cup {None}
  /\ closed \in [Clients_59_03 -> {"no", "eof", "error"}] /\ output \in Seq(Clients_59_03 \X (1..Blocks))

Init_59_03 ==
  /\ cpc = [c \in Clients_59_03 |-> "connect"] /\ nread = [c \in Clients_59_03 |-> 0]
  /\ conn = [c \in Clients_59_03 |-> <<>>] /\ queue = <<>>
  /\ up = FALSE /\ pfd = None /\ output = <<>>
  /\ closed = [c \in Clients_59_03 |-> "no"]

Goto_59_03(c, from, to) == cpc[c] = from /\ cpc' = [cpc EXCEPT ![c] = to]

-----------------------------------------------------------------------------
(* The clients                                                             *)

\* fewer clients than BACKLOG; it fails without a server or for a failed call
usock_connect(c) ==
  /\ \/ up /\ Goto_59_03(c, "connect", "read") /\ queue' = Append(queue, c)
     \/ Goto_59_03(c, "connect", "failed") /\ UNCHANGED queue
  /\ UNCHANGED <<nread, conn, up, pfd, closed, output>>

ReadInput(c) ==
  /\ IF nread[c] < Blocks
       THEN Goto_59_03(c, "read", "write") /\ nread' = [nread EXCEPT ![c] = @ + 1]
       ELSE Goto_59_03(c, "read", "end") /\ UNCHANGED nread
  /\ UNCHANGED <<conn, queue, up, pfd, closed, output>>

ReadFails(c) ==
  /\ Goto_59_03(c, "read", "failed") /\ UNCHANGED nread
  /\ UNCHANGED <<conn, queue, up, pfd, closed, output>>

\* write() waits for room; SIGPIPE ends a client whose connection is closed
Write_59_03(c) ==
  /\ IF closed[c] # "no"
       THEN Goto_59_03(c, "write", "failed") /\ UNCHANGED conn
       ELSE /\ Len(conn[c]) < Room /\ Goto_59_03(c, "write", "read")
            /\ conn' = [conn EXCEPT ![c] = Append(@, nread[c])]
  /\ UNCHANGED <<nread, queue, up, pfd, closed, output>>

Done(c) == cpc[c] \in {"end", "failed"}

-----------------------------------------------------------------------------
(* The server                                                              *)

CloseAll == [c \in Clients_59_03 |-> IF closed[c] = "no" THEN "error" ELSE closed[c]]

\* the server that cannot listen exits
usock_listen ==
  /\ ~up /\ \A c \in Clients_59_03 : closed[c] = "no"
  /\ \/ up' = TRUE /\ UNCHANGED closed
     \/ closed' = CloseAll /\ UNCHANGED up
  /\ UNCHANGED <<cpc, nread, conn, queue, pfd, output>>

Accept_59_03 ==
  /\ up /\ pfd = None /\ queue # <<>>
  /\ pfd' = Head(queue) /\ queue' = Tail(queue)
  /\ UNCHANGED <<cpc, nread, conn, up, closed, output>>

\* read() and write() of a block; either fails and leaves the loop
Copy ==
  /\ up /\ pfd # None /\ conn[pfd] # <<>>
  /\ conn' = [conn EXCEPT ![pfd] = Tail(@)]
  /\ \/ output' = Append(output, <<pfd, Head(conn[pfd])>>) /\ UNCHANGED <<pfd, closed>>
     \/ closed' = [closed EXCEPT ![pfd] = "error"] /\ pfd' = None /\ UNCHANGED output
  /\ UNCHANGED <<cpc, nread, queue, up>>

\* close() of a connection from which read() returns 0
CloseIf(eof) ==
  /\ up /\ pfd # None /\ conn[pfd] = <<>> /\ eof
  /\ closed' = [closed EXCEPT ![pfd] = "eof"] /\ pfd' = None
  /\ UNCHANGED <<cpc, nread, conn, queue, up, output>>

CloseEarly == CloseIf(TRUE)
Close == CloseIf(Done(pfd))

\* term_handle(): all connections are closed with the process
term_handle ==
  /\ up /\ up' = FALSE /\ closed' = CloseAll /\ pfd' = None /\ queue' = <<>>
  /\ UNCHANGED <<cpc, nread, conn, output>>

Client_59_03(c) == usock_connect(c) \/ ReadInput(c) \/ ReadFails(c) \/ Write_59_03(c)
Server_59_03 == usock_listen \/ Accept_59_03 \/ Copy \/ Close
Clientele_59_03 == \E c \in Clients_59_03 : Client_59_03(c)
Next_59_03 == Server_59_03 \/ term_handle \/ Clientele_59_03

-----------------------------------------------------------------------------
\* read(), write(): the output has the blocks of a client together and in order,
\* however many clients send at a time, and all that a client has read is in it
\* once the server has met the end of that client's stream.
StreamsWhole ==
  /\ \A c \in Clients_59_03 : closed[c] = "eof" => \A n \in 1..nread[c] : <<c, n>> \in Range(output)
  /\ \A k \in 1..Len(output) :
       LET c == output[k][1] n == output[k][2] IN
       /\ n > 1 => k > 1 /\ output[k - 1] = <<c, n - 1>>
       /\ Cardinality({j \in 1..Len(output) : output[j] = output[k]}) = 1

\* Every client ends, although it is served only after those before it.
StreamsOver == \A c \in Clients_59_03 : Done(c)

-----------------------------------------------------------------------------
(***************************************************************************)
(* Exercise 61-03: sendfile_x() of a child sends a file to the parent over *)
(* a connection on the local host, while another program may change the    *)
(* file's size.  lseek() is called with its last two arguments swapped.    *)
(***************************************************************************)
CONSTANTS BUF_SIZE, MaxSize, SockRoom

\* cpc is declared above
VARIABLES ppc,                         \* where child and parent are
          size, steady,                \* size of the file; it is that of fstat() since then
          count, pos, offset, total,   \* sendfile_x(): arguments, file offset, total_wsize
          sock, rtotal                 \* bytes in the connection, rsize_total of the parent
vars_61_03 == <<cpc, ppc, size, steady, count, pos, offset, total, sock, rtotal>>
file == <<size, steady>>

TypeOK_61_03 ==
  /\ cpc \in {"open", "connect", "error", "seek", "read", "update", "end", "failed"}
  /\ ppc \in {"listen", "accept", "error", "read", "end"}
  /\ size \in 0..MaxSize /\ steady \in BOOLEAN /\ count \in 0..MaxSize
  /\ pos \in Nat /\ offset \in Nat /\ total \in Nat
  /\ sock \in 0..SockRoom /\ rtotal \in Nat

Init_61_03 ==
  /\ cpc = "open" /\ ppc = "listen" /\ size = MaxSize - 1 /\ steady = TRUE
  /\ count = 0 /\ pos = 0 /\ offset = 0 /\ total = 0 /\ sock = 0 /\ rtotal = 0

Min2(a, b) == IF a < b THEN a ELSE b

\* lseek(fd, off, whence), with SEEK_SET = 0, SEEK_CUR = 1, SEEK_END = 2
lseek(off, whence) ==
  CASE whence = 0 -> off
    [] whence = 1 -> pos + off
    [] OTHER      -> size + off

\* another program writes to the file or truncates it
Resize ==
  /\ \E s \in 0..MaxSize : s # size /\ size' = s
  /\ steady' = FALSE
  /\ UNCHANGED <<cpc, ppc, count, pos, offset, total, sock, rtotal>>

-----------------------------------------------------------------------------
(* proc_child() and sendfile_x()                                           *)

Open ==
  /\ cpc = "open" /\ cpc' \in {"connect", "error"}
  /\ count' = size /\ steady' = TRUE
  /\ UNCHANGED <<ppc, size, pos, offset, total, sock, rtotal>>

\* isock_connect() tries the addresses of the local host in turn and fails as
\* long as the parent does not listen on one of them
isock_connect == ppc \notin {"listen", "error"}

Connect_61_03 ==
  /\ cpc = "connect"
  /\ cpc' = IF isock_connect THEN "seek" ELSE "error"
  /\ UNCHANGED <<ppc, file, count, pos, offset, total, sock, rtotal>>

Seek ==
  /\ cpc = "seek" /\ cpc' \in {"read", "failed"}
  /\ pos' = lseek(0, offset)
  /\ UNCHANGED <<ppc, file, count, offset, total, sock, rtotal>>

\* one turn of the loop: a read() of at most limit bytes and a write() of
\* them, which waits for room
TransferAtMost(limit) ==
  LET rsize == IF pos < size THEN Min2(limit, size - pos) ELSE 0 IN
  /\ cpc = "read"
  /\ IF total >= count \/ rsize = 0
       THEN cpc' = "update" /\ UNCHANGED <<pos, total, sock>>
       ELSE /\ sock + rsize <= SockRoom
            /\ sock' = sock + rsize /\ pos' = pos + rsize /\ total' = total + rsize
            /\ UNCHANGED cpc
  /\ UNCHANGED <<ppc, file, count, offset, rtotal>>

TransferBlocks == TransferAtMost(BUF_SIZE)
Transfer == TransferAtMost(Min2(BUF_SIZE, count - total))

\* *offset = lseek(in_fd, SEEK_CUR, 0), then both descriptors are closed
Update ==
  /\ cpc = "update" /\ cpc' = "end"
  /\ pos' = lseek(1, 0) /\ offset' = lseek(1, 0)
  /\ UNCHANGED <<ppc, file, count, total, sock, rtotal>>

-----------------------------------------------------------------------------
(* proc_parent()                                                           *)

\* isock_listen() fails if none of the addresses can be bound
isock_listen ==
  /\ ppc = "listen" /\ ppc' \in {"accept", "error"}
  /\ UNCHANGED <<cpc, file, count, pos, offset, total, sock, rtotal>>

Connected == cpc \in {"seek", "read", "update", "end", "failed"}

\* accept() waits for the child's connection
Accept_61_03 ==
  /\ ppc = "accept" /\ Connected /\ ppc' = "read"
  /\ UNCHANGED <<cpc, file, count, pos, offset, total, sock, rtotal>>

\* read() returns some of what is there, or 0 when the child has closed
Read_61_03 ==
  /\ ppc = "read"
  /\ \/ \E k \in 1..Min2(BUF_SIZE, sock) : sock' = sock - k /\ rtotal' = rtotal + k /\ UNCHANGED ppc
     \/ sock = 0 /\ cpc \in {"end", "failed"} /\ ppc' = "end" /\ UNCHANGED <<sock, rtotal>>
  /\ UNCHANGED <<cpc, file, count, pos, offset, total>>

Child == Open \/ Connect_61_03 \/ Seek \/ Transfer \/ Update
Parent == isock_listen \/ Accept_61_03 \/ Read_61_03
Next_61_03 == Resize \/ Child \/ Parent

-----------------------------------------------------------------------------
\* sendfile_x(): no more than count bytes are sent even if the file grows,
\* what both processes report agrees, and is the file if its size stayed.
TransferExact ==
  /\ total <= count /\ total = sock + rtotal
  /\ cpc = "end" /\ ppc = "end" => rtotal = total /\ (steady => total = count)

\* A parent that the child has reached reads to the end of the transfer.
ParentOut == Connected => ppc = "end"

-----------------------------------------------------------------------------
(***************************************************************************)
(* Exercise 63-02: an echo server for UDP and TCP clients.  The server     *)
(* forks a child for each event of epoll_wait().  For UDP it is the child  *)
(* that reads the datagram: until it does, the socket stays readable and   *)
(* the server forks more children, which then wait for later datagrams.    *)
(***************************************************************************)
CONSTANTS Udp, Tcp,   \* clients of each kind
          MaxIdle     \* children that fork() allows to wait at a time

VARIABLES client,        \* where each client is
          dgrams,        \* datagrams in the server's socket, by their senders
          backlog,       \* connections not accepted yet
          spc, events,   \* the server: position, events of epoll_wait() to handle
          idle,          \* children in recvfrom()
          serving,       \* the datagrams and connections that a child handles
          held,          \* connections whose descriptor the server has open
          replies        \* how often each client was answered
vars_63_02 == <<client, dgrams, backlog, spc, events, idle, serving, held, replies>>

Clients_63_02 == Udp \cup Tcp

TypeOK_63_02 ==
  /\ client \in [Clients_63_02 -> {"start", "error", "recv", "got", "end"}]
  /\ dgrams \in Seq(Udp) /\ backlog \in Seq(Tcp)
  /\ spc \in {"wait", "handle"} /\ events \in Seq({"udp", "tcp"})
  /\ idle \in 0..MaxIdle /\ serving \subseteq Clients_63_02 /\ held \subseteq Tcp
  /\ replies \in [Clients_63_02 -> Nat]

Init_63_02 ==
  /\ client = [c \in Clients_63_02 |-> "start"] /\ dgrams = <<>> /\ backlog = <<>>
  /\ spc = "wait" /\ events = <<>> /\ idle = 0 /\ serving = {} /\ held = {}
  /\ replies = [c \in Clients_63_02 |-> 0]

Goto_63_02(c, from, to) == client[c] = from /\ client' = [client EXCEPT ![c] = to]

-----------------------------------------------------------------------------
(* The clients                                                             *)

\* send_udp_msg(): the test of inet_pton() ends a client whose host is a valid
\* address, and lets any other name mean this host
SendUdp(c) ==
  /\ \/ Goto_63_02(c, "start", "recv") /\ dgrams' = Append(dgrams, c)
     \/ Goto_63_02(c, "start", "error") /\ UNCHANGED dgrams
  /\ UNCHANGED <<backlog, spc, events, idle, serving, held, replies>>

SendTcp(c) ==
  /\ Goto_63_02(c, "start", "recv") /\ backlog' = Append(backlog, c)
  /\ UNCHANGED <<dgrams, spc, events, idle, serving, held, replies>>

\* the reply is printed
Receive_63_02(c) ==
  /\ replies[c] > 0 /\ Goto_63_02(c, "recv", "got")
  /\ UNCHANGED <<dgrams, backlog, spc, events, idle, serving, held, replies>>

\* recv() for UDP gives up after a tenth of a second, with a reply or without
GiveUp(c) ==
  /\ Goto_63_02(c, "recv", "end") \/ Goto_63_02(c, "got", "end")
  /\ UNCHANGED <<dgrams, backlog, spc, events, idle, serving, held, replies>>

\* read() for TCP returns 0 when nobody has the connection open any more
EndOfFile(c) ==
  /\ c \notin held \cup serving /\ Goto_63_02(c, "got", "end")
  /\ UNCHANGED <<dgrams, backlog, spc, events, idle, serving, held, replies>>

-----------------------------------------------------------------------------
(* The server                                                              *)

EpollWait ==
  /\ spc = "wait" /\ (dgrams # <<>> \/ backlog # <<>>)
  /\ events' = (IF dgrams # <<>> THEN <<"udp">> ELSE <<>>)
               \o (IF backlog # <<>> THEN <<"tcp">> ELSE <<>>)
  /\ spc' = "handle"
  /\ UNCHANGED <<client, dgrams, backlog, idle, serving, held, replies>>

Handled == events' = Tail(events) /\ spc' = IF Len(events) = 1 THEN "wait" ELSE "handle"

\* the server's side of fork(), which fails at the limit
udp_handle ==
  /\ spc = "handle" /\ Head(events) = "udp" /\ Handled
  /\ idle' = IF idle < MaxIdle THEN idle + 1 ELSE idle
  /\ UNCHANGED <<client, dgrams, backlog, serving, held, replies>>

\* accept() and fork(); kept is what the server does not close
HandleTcp(kept) ==
  /\ spc = "handle" /\ Head(events) = "tcp" /\ Handled
  /\ backlog' = Tail(backlog)
  /\ serving' = serving \cup {Head(backlog)} /\ held' = held \cup kept
  /\ UNCHANGED <<client, dgrams, idle, replies>>

tcp_handle_open == HandleTcp({Head(backlog)})
tcp_handle == HandleTcp({})

\* fork() fails: the connection stays open in the server
TcpForkFails ==
  /\ spc = "handle" /\ Head(events) = "tcp" /\ Handled
  /\ backlog' = Tail(backlog) /\ held' = held \cup {Head(backlog)}
  /\ UNCHANGED <<client, dgrams, idle, serving, replies>>

-----------------------------------------------------------------------------
(* The children                                                            *)

\* recvfrom(), of one of the children that wait
RecvFromThen(rest) ==
  /\ idle > 0 /\ dgrams # <<>>
  /\ idle' = idle - 1 /\ dgrams' = rest
  /\ serving' = serving \cup {Head(dgrams)}
  /\ UNCHANGED <<client, backlog, spc, events, held, replies>>

RecvFromPeek == RecvFromThen(dgrams)
RecvFrom_63_02 == RecvFromThen(Tail(dgrams))

\* sendto() or write() of the echo, and the child's end
Reply(c) ==
  /\ c \in serving /\ serving' = serving \ {c}
  /\ replies' = [replies EXCEPT ![c] = @ + 1]
  /\ UNCHANGED <<client, dgrams, backlog, spc, events, idle, held>>

Server_63_02 == EpollWait \/ udp_handle \/ tcp_handle \/ TcpForkFails
Client_63_02(c) == IF c \in Udp THEN SendUdp(c) \/ Receive_63_02(c) \/ GiveUp(c)
                                ELSE SendTcp(c) \/ Receive_63_02(c) \/ EndOfFile(c)
Echo == RecvFrom_63_02 \/ \E c \in Clients_63_02 : Reply(c)
Clientele_63_02 == \E c \in Clients_63_02 : Client_63_02(c)
Next_63_02 == Server_63_02 \/ Echo \/ Clientele_63_02

-----------------------------------------------------------------------------
\* udp_handle(): of all the children forked for a datagram exactly one
\* answers it, and no child that is still waiting keeps a datagram from that.
AnsweredOnce ==
  \A c \in Clients_63_02 :
    replies[c] + Cardinality({k \in 1..Len(dgrams) : dgrams[k] = c})
               + Cardinality({c} \cap serving)
               + Cardinality({k \in 1..Len(backlog) : backlog[k] = c}) <= 1

\* Every datagram is answered, and a TCP client sees its echo and the end of the
\* connection unless the server could not fork().
EchoOver ==
  /\ \A c \in Udp : client[c] \in {"start", "error"} \/ replies[c] = 1
  /\ \A c \in Tcp : client[c] \in {"start", "end"} \/ (c \in held \ serving /\ replies[c] = 0)
=============================================================================
