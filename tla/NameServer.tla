----------------------------- MODULE NameServer -----------------------------
(***************************************************************************)
(* Exercise 59-04: the iterative name server and its clients, on top of    *)
(* the name store that LList implements.  The server takes one connection  *)
(* at a time from the listening socket, reads one request, executes it,    *)
(* writes the response and closes.  A client process connects, writes its  *)
(* request, reads the response and exits; client programs are run again    *)
(* and again.                                                              *)
(* The kernel's queue of connections is FIFO and holds at most Backlog.    *)
(***************************************************************************)
EXTENDS NameStore, Naturals, Sequences

CONSTANTS
  Clients,    \* client processes that may run at the same time
  User,       \* the user each of them runs as
  Backlog     \* BACKLOG of the listening socket

Cmds == {"ADD", "GET", "SET", "DEL"}
Requests == [cmd : Cmds, name : Names, value : Values]
Results == {"OK", "PERM", "EXIST", "NOEXT"}

VARIABLES
  spc,      \* where the server is: accept, read, write or down
  pfd,      \* the client of the connection it serves
  queue,    \* connections waiting for accept()
  cpc,      \* where each client is
  req,      \* the request of each client
  res       \* the result each client has in its socket

server == <<spc, pfd, queue, served>>
client == <<cpc, req, res>>
allVars == <<store, server, client>>

TypeOK ==
  /\ store \in [Names -> [value : Values, own : Users] \cup {None}]
  /\ spc \in {"accept", "read", "write", "down"}
  /\ pfd \in Clients \cup {None}
  /\ queue \in Seq(Clients) /\ Len(queue) <= Backlog
  /\ cpc \in [Clients -> {"idle", "write", "wait", "killed"}]
  /\ req \in [Clients -> Requests \cup {None}]
  /\ res \in [Clients -> Results \cup {"none"}]

ServerInit ==
  /\ Init
  /\ spc = "accept" /\ pfd = None /\ queue = <<>>
  /\ cpc = [c \in Clients |-> "idle"]
  /\ req = [c \in Clients |-> None]
  /\ res = [c \in Clients |-> "none"]

InQueue(c) == \E i \in 1..Len(queue) : queue[i] = c

-----------------------------------------------------------------------------
(* Clients                                                                 *)

\* a client starts, builds its request and isock_connect()s; add and set
\* take a value, get and del leave that field as it happens to be
Connect(c) ==
  /\ cpc[c] = "idle"
  /\ spc # "down" /\ Len(queue) < Backlog
  /\ \E cmd \in Cmds, n \in Names, v \in Values :
       /\ cmd \in {"GET", "DEL"} => v = CHOOSE w \in Values : TRUE
       /\ req' = [req EXCEPT ![c] = [cmd |-> cmd, name |-> n, value |-> v]]
  /\ cpc' = [cpc EXCEPT ![c] = "write"]
  /\ res' = [res EXCEPT ![c] = "none"]
  /\ queue' = Append(queue, c)
  /\ UNCHANGED <<store, spc, pfd, served>>

\* write(lfd, &req, ...)
WriteRequest(c) ==
  /\ cpc[c] = "write"
  /\ cpc' = [cpc EXCEPT ![c] = "wait"]
  /\ UNCHANGED <<store, server, req, res>>

\* read(lfd, &res, ...) and the exit; end of file is the error "read"
ReadResponse(c) ==
  /\ cpc[c] = "wait"
  /\ res[c] # "none" \/ spc = "down"
  /\ cpc' = [cpc EXCEPT ![c] = "idle"]
  /\ req' = [req EXCEPT ![c] = None]
  /\ res' = [res EXCEPT ![c] = "none"]
  /\ UNCHANGED <<store, server>>

\* the client is killed; its end of the connection closes
Kill(c) ==
  /\ cpc[c] \in {"write", "wait"}
  /\ cpc' = [cpc EXCEPT ![c] = "killed"]
  /\ req' = IF cpc[c] = "write" THEN [req EXCEPT ![c] = None] ELSE req
  /\ UNCHANGED <<store, server, res>>

\* its place is taken by a new process once the server is done with it
Reap(c) ==
  /\ cpc[c] = "killed"
  /\ (~InQueue(c) /\ pfd # c) \/ spc = "down"
  /\ cpc' = [cpc EXCEPT ![c] = "idle"]
  /\ req' = [req EXCEPT ![c] = None]
  /\ res' = [res EXCEPT ![c] = "none"]
  /\ UNCHANGED <<store, server>>

-----------------------------------------------------------------------------
(* The server                                                              *)

\* pfd = accept(lfd, ...), of the k-th connection in the queue
AcceptAt(k) ==
  /\ spc = "accept"
  /\ queue # <<>>
  /\ pfd' = queue[k]
  /\ queue' = [n \in 1..(Len(queue) - 1) |-> queue[IF n < k THEN n ELSE n + 1]]
  /\ spc' = "read"
  /\ UNCHANGED <<store, client, served>>

\* Mutant of Accept: the newest connection is served first.
AcceptNewest == AcceptAt(Len(queue))

Accept == AcceptAt(1)

\* read() returns less than a request, since the client is gone: close(pfd)
ReadEof ==
  /\ spc = "read"
  /\ cpc[pfd] = "killed" /\ req[pfd] = None
  /\ spc' = "accept"
  /\ pfd' = None
  /\ UNCHANGED <<store, client, queue, served>>

\* read() returns a request, and the list function it names is called for
\* the user u
ExecuteAs(u) ==
  /\ spc = "read"
  /\ cpc[pfd] \in {"wait", "killed"} /\ req[pfd] # None
  /\ LET r == req[pfd] IN
       \/ r.cmd = "ADD" /\ Add(u, r.name, r.value)
       \/ r.cmd = "GET" /\ Get(u, r.name, r.value)
       \/ r.cmd = "SET" /\ Set(u, r.name, r.value)
       \/ r.cmd = "DEL" /\ Del(u, r.name, r.value)
  /\ spc' = "write"
  /\ UNCHANGED <<client, pfd, queue>>

\* Mutant of Execute: everybody acts as one user.
ExecuteUnchecked == ExecuteAs(CHOOSE u \in Users : TRUE)

Execute == ExecuteAs(User[pfd])

\* write(pfd, &res, ...), which fails unnoticed when the client is gone
\* (SIGPIPE is ignored), and close(pfd)
WriteOut(field) ==
  /\ spc = "write"
  /\ res' = [res EXCEPT ![pfd] = IF cpc[pfd] = "killed" THEN "none" ELSE served[field]]
  /\ spc' = "accept"
  /\ pfd' = None
  /\ served' = None
  /\ UNCHANGED <<store, queue, cpc, req>>

\* Mutant of WriteResponse: the command is echoed for the result.
WriteResponseEcho == WriteOut("cmd")

WriteResponse == WriteOut("result")

\* SIGTERM or SIGINT: term_handle() closes the sockets and ends the process
\* together with the list it keeps
term_handle ==
  /\ spc # "down"
  /\ spc' = "down"
  /\ pfd' = None
  /\ queue' = <<>>
  /\ store' = [n \in Names |-> None]
  /\ served' = None
  /\ UNCHANGED client

-----------------------------------------------------------------------------
Server == Accept \/ ReadEof \/ Execute \/ WriteResponse
Client(c) == WriteRequest(c) \/ ReadResponse(c)
Clientele == \E c \in Clients : Client(c)

ServerNext ==
  \/ Server \/ term_handle
  \/ Clientele \/ \E c \in Clients : Connect(c) \/ Kill(c) \/ Reap(c)

ServerSpec == ServerInit /\ [][ServerNext]_allVars

-----------------------------------------------------------------------------
(* Properties                                                              *)

\* A step changes a pair only by a request of its owner, or ends the server.
OwnerStep ==
  \A n \in Names :
    spc' # "down" /\ store[n] # None /\ store'[n] # store[n]
      => pfd # None /\ User[pfd] = store[n].own
\* "allows only the client that created the name to delete it or to modify
\* the value": while a pair exists and the server lives, only a request of its
\* owner changes it.
OwnerOnly == [][OwnerStep]_allVars

\* A connected client is answered, whatever happens to the clients before it.
Served(c) == cpc[c] # "wait"
=============================================================================
