---------------------------- MODULE RemoteShells ----------------------------
(***************************************************************************)
(* Exercises 61-05 and 61-06: a server that runs shell commands for its    *)
(* clients, and a connection with a second one for urgent data.  The       *)
(* programs share no state; the names of each end in its number.           *)
(***************************************************************************)
EXTENDS Naturals, Sequences

-----------------------------------------------------------------------------
(***************************************************************************)
(* Exercise 61-05: a concurrent server that runs a shell command for each  *)
(* client.  The parent accepts and forks; the child reads the request,     *)
(* signs in as the user and forks a grandchild for the shell, whose output *)
(* is the socket; the client reads until end of file, which it sees when   *)
(* nobody has the socket open any more.                                    *)
(***************************************************************************)
CONSTANTS Clients, NoClient

VARIABLES client,   \* "start", "write", "read", "done", "failed", "gone" or "killed"
          queue,    \* connections waiting for accept()
          parent,   \* "accept", "fork", "close" or "dead"
          pfd,      \* the connection the parent has open
          child,    \* per client: "none", "request", "wait", "zombie", "gone"
          shell,    \* per client: "none", "running", "ended"
          sigchld   \* SIGCHLD is pending for the parent; it does not queue
vars_61_05 == <<client, queue, parent, pfd, child, shell, sigchld>>

TypeOK_61_05 ==
  /\ client \in [Clients -> {"start", "write", "read", "done", "failed", "gone", "killed"}]
  /\ queue \in Seq(Clients)
  /\ parent \in {"accept", "fork", "close", "dead"}
  /\ pfd \in Clients \cup {NoClient} /\ (parent \in {"fork", "close"} => pfd # NoClient)
  /\ child \in [Clients -> {"none", "request", "wait", "zombie", "gone"}]
  /\ shell \in [Clients -> {"none", "running", "ended"}]
  /\ sigchld \in BOOLEAN

Init_61_05 ==
  /\ client = [c \in Clients |-> "start"] /\ queue = <<>>
  /\ parent = "accept" /\ pfd = NoClient
  /\ child = [c \in Clients |-> "none"] /\ shell = [c \in Clients |-> "none"]
  /\ sigchld = FALSE

Waiting(c) == \E i \in 1..Len(queue) : queue[i] = c
Alive(c) == child[c] \in {"request", "wait"} \/ shell[c] = "running"
\* the listening socket is open: children and shells inherit it and keep it
Listening == parent # "dead" \/ \E c \in Clients : Alive(c)
\* somebody has the connection of c open, also the shell, whose output it is
Open(c) ==
  \/ Waiting(c) /\ Listening
  \/ pfd = c
  \/ Alive(c)

-----------------------------------------------------------------------------
(* A client                                                                *)

Connect_61_05(c) ==
  /\ client[c] = "start"
  /\ client' = [client EXCEPT ![c] = IF Listening THEN "write" ELSE "failed"]
  /\ queue' = IF Listening THEN Append(queue, c) ELSE queue
  /\ UNCHANGED <<parent, pfd, child, shell, sigchld>>

\* write() of the request
Write(c) ==
  /\ client[c] = "write"
  /\ client' = [client EXCEPT ![c] = "read"]
  /\ UNCHANGED <<queue, parent, pfd, child, shell, sigchld>>

\* read() returns 0; output read before is displayed as it comes
ReadEof(c) ==
  /\ client[c] = "read" /\ ~Open(c)
  /\ client' = [client EXCEPT ![c] = "done"]
  /\ UNCHANGED <<queue, parent, pfd, child, shell, sigchld>>

\* the client dies before ("gone") or after ("killed") writing its request
Kill(c) ==
  /\ client[c] \in {"write", "read"}
  /\ client' = [client EXCEPT ![c] = IF @ = "write" THEN "gone" ELSE "killed"]
  /\ UNCHANGED <<queue, parent, pfd, child, shell, sigchld>>

-----------------------------------------------------------------------------
(* The parent                                                              *)

\* pfd = accept()
Accept ==
  /\ parent = "accept" /\ queue # <<>>
  /\ pfd' = Head(queue) /\ queue' = Tail(queue)
  /\ parent' = "fork"
  /\ UNCHANGED <<client, child, shell, sigchld>>

\* fork(); when it fails the parent sends itself SIGTERM
Fork ==
  /\ parent = "fork"
  /\ \/ /\ child' = [child EXCEPT ![pfd] = "request"]
        /\ parent' = "close" /\ UNCHANGED pfd
     \/ /\ parent' = "dead" /\ pfd' = NoClient /\ UNCHANGED child
  /\ UNCHANGED <<client, queue, shell, sigchld>>

\* close(pfd), by a parent that keeps the connections in kept
CloseBut(kept) ==
  /\ parent = "close"
  /\ pfd' = (IF pfd \in kept THEN pfd ELSE NoClient)
  /\ parent' = "accept"
  /\ UNCHANGED <<client, queue, child, shell, sigchld>>

\* Mutant of Close: the parent does not close the connection.
CloseForgotten == CloseBut(Clients)

Close == CloseBut({})

\* parent_chandle(): waitpid(WNOHANG) until no child is left to wait for
ReapSome(zs) ==
  /\ parent # "dead" /\ sigchld
  /\ sigchld' = FALSE
  /\ child' = [c \in Clients |-> IF c \in zs THEN "gone" ELSE child[c]]
  /\ UNCHANGED <<client, queue, parent, pfd, shell>>

Zombies == {c \in Clients : child[c] = "zombie"}

\* Mutant of parent_chandle: waitpid() is called once.
ReapOne == \E c \in Zombies : ReapSome({c})

parent_chandle == ReapSome(Zombies)

\* parent_thanle(): the parent closes its listening socket, the children live
\* on with theirs, on which nobody accepts
parent_thanle ==
  /\ parent # "dead"
  /\ parent' = "dead" /\ pfd' = NoClient
  /\ UNCHANGED <<client, queue, child, shell, sigchld>>

-----------------------------------------------------------------------------
(* A child, req_handle(), and the shell                                    *)

\* the child ends; without a parent init waits for it
Exits(c) ==
  /\ child' = [child EXCEPT ![c] = IF parent = "dead" THEN "gone" ELSE "zombie"]
  /\ sigchld' = TRUE

\* read() of the request, signin(), dup2() and fork(); a short request, a
\* failed signin() or fork() ends the child
Request(c) ==
  /\ child[c] = "request"
  /\ \/ /\ client[c] \in {"read", "killed"}
        /\ child' = [child EXCEPT ![c] = "wait"]
        /\ shell' = [shell EXCEPT ![c] = "running"]
        /\ UNCHANGED sigchld
     \/ /\ client[c] # "write"
        /\ Exits(c) /\ UNCHANGED shell
  /\ UNCHANGED <<client, queue, parent, pfd>>

\* waitpid(WNOHANG), close() and exit(), whether the shell has ended or not
WaitAndExit(c) ==
  /\ child[c] = "wait"
  /\ Exits(c)
  /\ UNCHANGED <<client, queue, parent, pfd, shell>>

\* child_thanle(): SIGTERM ends the child and leaves the shell alone
child_thanle(c) ==
  /\ child[c] \in {"request", "wait"}
  /\ Exits(c)
  /\ UNCHANGED <<client, queue, parent, pfd, shell>>

\* the shell comes to its end
ShellEnds(c) ==
  /\ shell[c] = "running"
  /\ shell' = [shell EXCEPT ![c] = "ended"]
  /\ UNCHANGED <<client, queue, parent, pfd, child, sigchld>>

-----------------------------------------------------------------------------
Client_61_05(c) == Connect_61_05(c) \/ Write(c) \/ ReadEof(c)
Parent == Accept \/ Fork \/ Close
Child(c) == Request(c) \/ WaitAndExit(c)

Next_61_05 ==
  \/ Parent \/ parent_chandle \/ parent_thanle
  \/ \E c \in Clients : Client_61_05(c) \/ Kill(c) \/ Child(c) \/ child_thanle(c) \/ ShellEnds(c)

Spec_61_05 == Init_61_05 /\ [][Next_61_05]_vars_61_05

\* Processes are scheduled, signals are delivered, and commands end.
Clientele == \E c \in Clients : Client_61_05(c) \/ ShellEnds(c)
Children == parent_chandle \/ \E c \in Clients : Child(c)

-----------------------------------------------------------------------------
\* Every client comes to its end, since no copy of its connection stays open,
\* not even in the queue of a server that is gone, and not before its command
\* has ended, although the child that serves it does not wait for the shell.
ClientsEnd ==
  \A c \in Clients : \/ client[c] = "done" /\ shell[c] # "running"
                     \/ client[c] \in {"failed", "gone", "killed"}

\* Children that end together, while SIGCHLD is pending or handled, do not
\* stay zombies as long as the server runs.
ChildrenReaped == \A c \in Clients : child[c] = "zombie" => parent = "dead"

-----------------------------------------------------------------------------
(***************************************************************************)
(* Exercise 61-06: one client with two connections to the process that     *)
(* serves it, one for normal and one for urgent data.  The server makes    *)
(* the second one, back to a port that the client listens on.  After the   *)
(* handshake a child of the client floods the normal connection while the  *)
(* client itself sends urgent messages, the last of them CLOSE.            *)
(***************************************************************************)
CONSTANTS MaxNormal   \* normal data that fits in the buffers

VARIABLES cpc,              \* where the client is
          sender,           \* and its child
          spc,              \* where the server's process for the client is
          normal, urgent,   \* what is under way on the two connections
          passed,           \* history: reads of normal data since urgent data is waiting
          strays            \* history: writes of the child after the server has closed
vars_61_06 == <<cpc, sender, spc, normal, urgent, passed, strays>>

TypeOK_61_06 ==
  /\ cpc \in {"connect", "accept", "fork", "data", "close", "kill", "end", "dead"}
  /\ sender \in {"none", "poll", "write", "dead"}
  /\ spc \in {"accept", "hello", "confirm", "poll", "normal", "urgent", "done", "error"}
  /\ normal \in 0..MaxNormal /\ urgent \in Seq({"KEY", "OK", "DATA", "CLOSE"})
  /\ passed \in Nat /\ strays \in Nat

Init_61_06 ==
  /\ cpc = "connect" /\ sender = "none" /\ spc = "accept"
  /\ normal = 0 /\ urgent = <<>> /\ passed = 0 /\ strays = 0

Closed == spc \in {"done", "error"}
\* the client's ends are open: the child has both of them since the fork()
ClientOpen == cpc \notin {"end", "dead"} \/ sender \in {"poll", "write"}

-----------------------------------------------------------------------------
(* The client                                                              *)

\* connect() and write() of the key and the port; the server accepts, forks
Connect_61_06 ==
  /\ cpc = "connect" /\ spc = "accept"
  /\ cpc' = "accept" /\ spc' = "hello"
  /\ UNCHANGED <<sender, normal, urgent, passed, strays>>

\* accept() of the urgent connection, read() and comparison of the key, OK;
\* accept() has no end if the server fails to connect
Confirm ==
  /\ cpc = "accept" /\ urgent = <<"KEY">>
  /\ cpc' = "fork" /\ urgent' = <<"OK">>
  /\ UNCHANGED <<sender, spc, normal, passed, strays>>

ForkSender ==
  /\ cpc = "fork"
  /\ \/ cpc' = "data" /\ sender' = "poll"
     \/ cpc' = "dead" /\ UNCHANGED sender
  /\ UNCHANGED <<spc, normal, urgent, passed, strays>>

\* write() of an urgent message, an error once the server has closed
SendUrgent(from, code, to) ==
  /\ cpc = from
  /\ cpc' = IF Closed THEN "dead" ELSE to
  /\ urgent' = IF Closed THEN urgent ELSE Append(urgent, code)
  /\ UNCHANGED <<sender, spc, normal, passed, strays>>

SendData == SendUrgent("data", "DATA", "close")
SendClose == SendUrgent("close", "CLOSE", "kill")

\* kill(pid, SIGKILL), wait(NULL), close() of both connections
KillSender ==
  /\ cpc = "kill"
  /\ cpc' = "end" /\ sender' = "dead"
  /\ UNCHANGED <<spc, normal, urgent, passed, strays>>

\* the client, not its child, is ended from outside
Interrupt ==
  /\ cpc \notin {"connect", "end", "dead"}
  /\ cpc' = "dead"
  /\ UNCHANGED <<sender, spc, normal, urgent, passed, strays>>

\* poll(POLLRDHUP): does the child see that the server has closed?
PollSeeing(hup) ==
  /\ sender = "poll"
  /\ sender' = IF hup THEN "poll" ELSE "write"
  /\ UNCHANGED <<cpc, spc, normal, urgent, passed, strays>>

\* Mutant of PollSender: POLLRDHUP is not asked for.
PollBlind == PollSeeing(FALSE)

PollSender == PollSeeing(Closed)

\* write() of normal data; the other end may be closed since the poll(), and
\* then the data is lost or the child is ended by an error or by SIGPIPE
WriteNormal ==
  /\ sender = "write"
  /\ \/ /\ ~Closed /\ normal < MaxNormal
        /\ normal' = normal + 1 /\ sender' = "poll" /\ UNCHANGED strays
     \/ /\ Closed
        /\ strays' = strays + 1 /\ sender' \in {"poll", "dead"} /\ UNCHANGED normal
  /\ UNCHANGED <<cpc, spc, urgent, passed>>

-----------------------------------------------------------------------------
(* The server's process, peer_proc_entry()                                 *)

\* handshake_peer(): read() of key and port, connect() back, which may fail,
\* write() of the key
Hello ==
  /\ spc = "hello"
  /\ \/ cpc = "accept" /\ urgent' = <<"KEY">> /\ spc' = "confirm"
     \/ spc' = "error" /\ UNCHANGED urgent
  /\ UNCHANGED <<cpc, sender, normal, passed, strays>>

\* handshake_peer(): read() of OK
ReadOk ==
  /\ spc = "confirm"
  /\ \/ urgent # <<>> /\ Head(urgent) = "OK" /\ urgent' = Tail(urgent) /\ spc' = "poll"
     \/ urgent \in {<<>>, <<"KEY">>} /\ ~ClientOpen /\ spc' = "error" /\ UNCHANGED urgent
  /\ UNCHANGED <<cpc, sender, normal, passed, strays>>

UrgentReady == urgent # <<>> \/ ~ClientOpen
NormalReady == normal > 0 \/ ~ClientOpen

\* poll() of both connections
PollTo(pc) ==
  /\ spc = "poll" /\ (UrgentReady \/ NormalReady)
  /\ spc' = pc
  /\ UNCHANGED <<cpc, sender, normal, urgent, passed, strays>>

\* Mutant of is_oob: normal data is looked at first.
NormalFirst == PollTo(IF NormalReady THEN "normal" ELSE "urgent")

is_oob == PollTo(IF UrgentReady THEN "urgent" ELSE "normal")

\* one read() takes all the normal data that has come
ReadNormal ==
  /\ spc = "normal"
  /\ normal' = 0 /\ spc' = "poll"
  /\ passed' = IF urgent = <<>> THEN 0 ELSE passed + 1
  /\ UNCHANGED <<cpc, sender, urgent, strays>>

\* a message, or the end of file that is not one; CLOSE ends the process
ReadUrgent ==
  /\ spc = "urgent"
  /\ \/ /\ urgent # <<>>
        /\ urgent' = Tail(urgent) /\ passed' = 0
        /\ spc' = IF Head(urgent) = "CLOSE" THEN "done" ELSE "poll"
     \/ /\ urgent = <<>>
        /\ spc' = "error" /\ UNCHANGED <<urgent, passed>>
  /\ UNCHANGED <<cpc, sender, normal, strays>>

-----------------------------------------------------------------------------
Client_61_06 == Connect_61_06 \/ Confirm \/ ForkSender \/ SendData \/ SendClose \/ KillSender
Sender == PollSender \/ WriteNormal
Server == Hello \/ ReadOk \/ is_oob \/ ReadNormal \/ ReadUrgent
Next_61_06 == Client_61_06 \/ Interrupt \/ Sender \/ Server

Spec_61_06 == Init_61_06 /\ [][Next_61_06]_vars_61_06

\* All three processes are scheduled.

-----------------------------------------------------------------------------
\* "If data is available on urgent socket, server prefer to handle it's data
\* than normal socket": urgent data waits for one read of normal data at most,
\* that of a poll() which did not see it.
UrgentFirst == passed <= 1

\* "Server close both normal socket and urgent socket, client can't send any
\* data to server anymore": one write at most falls between the child's
\* poll() and the close.
CantSendAnymore == strays <= 1

\* The server's process ends with the conversation, however fast the child
\* writes, if the client has its way; so it does when the client dies without
\* a child, and when its own connection to the client fails (the client then
\* waits in accept()).
PeerEnds == Closed \/ (cpc = "dead" /\ sender # "none")
=============================================================================
