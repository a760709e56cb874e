----------------------------- MODULE EchoServer -----------------------------
(***************************************************************************)
(* The concurrent echo servers of the book (is_echo_sv.c, is_echo_v2_sv.c, *)
(* is_echo_inetd_sv.c) and of exercises 60-1 and 60-2, with the client     *)
(* is_echo_cl.c.  The server forks a child for each connection, and the    *)
(* handler of SIGCHLD waits for all children that have ended.  The server  *)
(* of 60-1 bounds its children with a semaphore of MAX_CHILDREN, which the *)
(* handler posts; the others are Bounded = FALSE.                          *)
(*                                                                         *)
(* A client is a process that writes (cl) and one that prints (rd).  The   *)
(* parts of its stream are counted: sent, up (on the way to the server),   *)
(* down (on the way back), got (printed); a socket holds Room of them each *)
(* way.  The clients in Single are is_echo_cl_61-1.c, one process that     *)
(* reads nothing before it has sent everything.                            *)
(***************************************************************************)
EXTENDS Naturals, FiniteSets

CONSTANTS Clients, Single, Chunks, Room, Bounded, MAX_CHILDREN, MaxForkFails, None

VARIABLES cl, rd, sent, up, down, got, spc, cfd, child, csem, chld, fails
vars == <<cl, rd, sent, up, down, got, spc, cfd, child, csem, chld, fails>>
client == <<cl, rd, sent, up, down, got>>
server == <<spc, cfd, child, csem, chld, fails>>

Init ==
  /\ cl = [c \in Clients |-> "new"] /\ rd = [c \in Clients |-> "none"]
  /\ sent = [c \in Clients |-> 0] /\ up = [c \in Clients |-> 0]
  /\ down = [c \in Clients |-> 0] /\ got = [c \in Clients |-> 0]
  /\ spc = "accept" /\ cfd = None /\ child = [c \in Clients |-> "none"]
  /\ csem = MAX_CHILDREN /\ chld = FALSE /\ fails = 0

-----------------------------------------------------------------------------
\* is_echo_cl.c: connect, fork; one process sends and shuts down its side,
\* the other prints until end of file; is_echo_cl_61-1.c does it in one
Connect(c) ==
  /\ cl[c] = "new" /\ spc # "dead"
  /\ cl' = [cl EXCEPT ![c] = "open"] /\ rd' = [rd EXCEPT ![c] = "read"]
  /\ UNCHANGED <<sent, up, down, got, server>>
Send(c) ==
  /\ cl[c] = "open" /\ sent[c] < Chunks /\ (up[c] < Room \/ child[c] \notin {"none", "run"})
  /\ IF child[c] \in {"none", "run"}
     THEN sent' = [sent EXCEPT ![c] = @ + 1] /\ up' = [up EXCEPT ![c] = @ + 1] /\ UNCHANGED cl
     ELSE cl' = [cl EXCEPT ![c] = "killed"] /\ UNCHANGED <<sent, up>>
  /\ UNCHANGED <<rd, down, got, server>>
Shut(c) ==
  /\ cl[c] = "open" /\ cl' = [cl EXCEPT ![c] = "shut"]
  /\ UNCHANGED <<rd, sent, up, down, got, server>>
ClientRead(c) ==
  /\ rd[c] = "read" /\ (c \in Single => cl[c] # "open")
  /\ \/ down[c] > 0 /\ down' = [down EXCEPT ![c] = @ - 1] /\ got' = [got EXCEPT ![c] = @ + 1] /\ UNCHANGED rd
     \/ /\ down[c] = 0 /\ child[c] \notin {"none", "run"}
        /\ rd' = [rd EXCEPT ![c] = "end"] /\ UNCHANGED <<down, got>>
  /\ UNCHANGED <<cl, sent, up, server>>

\* both processes of a client die
Die(c) ==
  /\ rd[c] = "read" /\ rd' = [rd EXCEPT ![c] = "gone"] /\ cl' = [cl EXCEPT ![c] = "killed"]
  /\ UNCHANGED <<sent, up, down, got, server>>

-----------------------------------------------------------------------------
\* main() of the server
Accept(c) ==
  /\ spc = "accept" /\ cl[c] # "new" /\ child[c] = "none"
  /\ cfd' = c /\ spc' = IF Bounded THEN "wait" ELSE "fork"
  /\ UNCHANGED <<client, child, csem, chld, fails>>
sem_wait ==
  /\ spc = "wait" /\ csem > 0
  /\ csem' = csem - 1 /\ spc' = "fork"
  /\ UNCHANGED <<client, cfd, child, chld, fails>>
\* fork() and close(cfd) of the parent; when it fails the connection is
\* closed, and nothing is given back to the semaphore
ForkTo(to) ==
  /\ spc = "fork"
  /\ child' = [child EXCEPT ![cfd] = to]
  /\ cfd' = None /\ spc' = "accept"
  /\ UNCHANGED <<client, csem, chld>>
Fork == ForkTo("run") /\ UNCHANGED fails
ForkFails == fails < MaxForkFails /\ fails' = fails + 1 /\ ForkTo("refused")

\* the child: handleRequest() and _exit(), at the end of file or because read()
\* or write() fails
handleRequest(c) ==
  /\ child[c] = "run"
  /\ \/ /\ up[c] > 0 /\ down[c] < Room
        /\ up' = [up EXCEPT ![c] = @ - 1] /\ down' = [down EXCEPT ![c] = @ + 1]
        /\ UNCHANGED <<child, chld>>
     \/ /\ rd[c] = "gone" \/ (up[c] = 0 /\ cl[c] # "open")
        /\ child' = [child EXCEPT ![c] = "zombie"] /\ chld' = TRUE
        /\ UNCHANGED <<up, down>>
  /\ UNCHANGED <<cl, rd, sent, got, spc, cfd, csem, fails>>

\* the handler of SIGCHLD
Zombies == {c \in Clients : child[c] = "zombie"}
Reaped(done, n) ==
  /\ chld /\ spc # "dead" /\ chld' = FALSE
  /\ child' = [c \in Clients |-> IF c \in done THEN "reaped" ELSE child[c]]
  /\ csem' = IF Bounded THEN csem + n ELSE csem
  /\ UNCHANGED <<client, spc, cfd, fails>>
\* mutants: one child per signal; the semaphore is posted once per signal
grimReaperOne == Reaped(IF Zombies = {} THEN {} ELSE {CHOOSE c \in Zombies : TRUE}, 1)
grimReaperOnce == Reaped(Zombies, IF Zombies = {} THEN 0 ELSE 1)
grimReaperTwice == Reaped(Zombies, 1 + Cardinality(Zombies))
grimReaper == Reaped(Zombies, Cardinality(Zombies))

\* SIGTERM or SIGINT: the semaphore is removed and the signal sent again
term_handle ==
  /\ Bounded /\ spc # "dead" /\ spc' = "dead" /\ cfd' = None
  /\ child' = [c \in Clients |-> IF child[c] = "none" /\ cl[c] # "new" THEN "refused" ELSE child[c]]
  /\ UNCHANGED <<client, csem, chld, fails>>

Concurrent == (\E c \in Clients : Accept(c)) \/ Fork \/ ForkFails
is_echo_sv == ~Bounded /\ Concurrent
is_echo_v2_sv == ~Bounded /\ Concurrent
is_echo_sv_60_2 == ~Bounded /\ Concurrent
is_echo_sv_60_1 == Bounded /\ (Concurrent \/ sem_wait)
Server == is_echo_sv \/ is_echo_v2_sv \/ is_echo_sv_60_1 \/ is_echo_sv_60_2
Conversation(c) == Connect(c) \/ Send(c) \/ Shut(c) \/ ClientRead(c) \/ Die(c)
is_echo_cl(c) == c \notin Single /\ Conversation(c)
is_echo_cl_61_1(c) == c \in Single /\ Conversation(c)
Next ==
  \/ \E c \in Clients : is_echo_cl(c) \/ is_echo_cl_61_1(c) \/ handleRequest(c)
  \/ Server \/ grimReaper \/ term_handle
Spec == Init /\ [][Next]_vars

\* processes are scheduled, and a signal that is pending is delivered
FairServer == Server
FairChildren == grimReaper \/ \E c \in Clients : handleRequest(c)
FairClients == \E c \in Clients : Shut(c) \/ ClientRead(c)

-----------------------------------------------------------------------------
\* Types.
TypeOK ==
  /\ cl \in [Clients -> {"new", "open", "shut", "killed"}] /\ rd \in [Clients -> {"none", "read", "end", "gone"}]
  /\ \A c \in Clients : sent[c] <= Chunks
  /\ spc \in {"accept", "wait", "fork", "dead"} /\ cfd \in Clients \cup {None}
  /\ child \in [Clients -> {"none", "run", "zombie", "reaped", "refused"}]
  /\ csem \in 0..MAX_CHILDREN /\ chld \in BOOLEAN

\* Nothing is echoed that was not sent, and the reader of a client that was
\* served to the end has printed all of it.
EchoExact ==
  \A c \in Clients :
    /\ got[c] + down[c] + up[c] = sent[c]
    /\ rd[c] = "end" /\ child[c] # "refused" => got[c] = sent[c]

\* 60-1: "limit number of children": never more than MAX_CHILDREN run, and
\* the semaphore counts them, apart from forks that failed.
ChildLimit ==
  Bounded /\ spc # "dead" =>
             csem + Cardinality({c \in Clients : child[c] \in {"run", "zombie"}})
               + fails + (IF spc = "fork" THEN 1 ELSE 0) = MAX_CHILDREN

\* A client that is connected comes to its end, whichever others die, and no
\* child stays a zombie, if fork() fails less than MAX_CHILDREN times and what
\* a single process sends before it reads fits in both sockets.
Unserved == \E c \in Clients : cl[c] # "new" /\ (rd[c] = "read" \/ child[c] = "zombie")
Served == spc # "dead" => ~Unserved
=============================================================================
