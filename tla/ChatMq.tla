------------------------------- MODULE ChatMq -------------------------------
(***************************************************************************)
(* Exercise 52-04: a chat on POSIX message queues.  A process creates the  *)
(* listen-queue of its user and either waits for a START message (-l) or   *)
(* sends one to a peer and waits for ACCEPTED (-c); then its main thread   *)
(* sends the lines it is given and a second thread prints what arrives.    *)
(*                                                                         *)
(* A user may start the program MaxStarts times.  The n-th start creates   *)
(* the queue <<u, n>>; linked[u] is the number of the queue that has the   *)
(* user's name, 0 if none does, Orphan for one left by the probe of        *)
(* exit_err().  The probe gives no mode, so others may or may not be able  *)
(* to open an orphan; nobody reads it and, within the bounds here, it is   *)
(* never full, so that what is sent to it is not kept.                     *)
(***************************************************************************)
EXTENDS Naturals, Sequences

CONSTANTS
  Users, NoUser,
  MaxMsg,     \* mq_maxmsg
  MaxStarts,  \* bound on the starts of a user's program
  MaxLines    \* bound on the lines a user types in a conversation

VARIABLES
  ust,        \* what a user's process does
  inst,       \* the number of the last start of each user
  linked,     \* the queue that has the user's name
  box,        \* box[u][n]: the messages in queue n of u
  peer, pq,   \* the peer a process talks to, and the queue it sends to
  lines,      \* lines typed in this conversation
  heard       \* the messages printed in this conversation

vars_52_04 == <<ust, inst, linked, box, peer, pq, lines, heard>>

Orphan == MaxStarts + 1
Running == {"listen", "open", "accept", "invoke", "start", "wait", "chat"}
Types == {"START", "ACCEPTED", "MSG"}
\* a message, its sender, and the start of its receiver current when it is sent
Messages == Types \X Users \X (0..MaxStarts)

TypeOK_52_04 ==
  /\ ust \in [Users -> {"off"} \cup Running]
  /\ inst \in [Users -> 0..MaxStarts]
  /\ linked \in [Users -> 0..Orphan]
  /\ \A u \in Users, n \in 1..MaxStarts :
       Len(box[u][n]) <= MaxMsg /\ \A i \in 1..Len(box[u][n]) : box[u][n][i] \in Messages
  /\ peer \in [Users -> Users \cup {NoUser}]
  /\ pq \in [Users -> 0..Orphan]
  /\ lines \in [Users -> 0..MaxLines]
  /\ heard \in [Users -> SUBSET Messages]

Init_52_04 ==
  /\ ust = [u \in Users |-> "off"]
  /\ inst = [u \in Users |-> 0]
  /\ linked = [u \in Users |-> 0]
  /\ box = [u \in Users |-> [n \in 1..MaxStarts |-> <<>>]]
  /\ peer = [u \in Users |-> NoUser]
  /\ pq = [u \in Users |-> 0]
  /\ lines = [u \in Users |-> 0]
  /\ heard = [u \in Users |-> {}]

-----------------------------------------------------------------------------
Box(u) == box[u][inst[u]]
Full(p, n) == n # Orphan /\ Len(box[p][n]) >= MaxMsg
Put(b, type, u, p, n) ==
  IF n = Orphan THEN b ELSE [b EXCEPT ![p][n] = Append(@, <<type, u, inst[p]>>)]
Pop(b, u) == [b EXCEPT ![u][inst[u]] = Tail(@)]
\* mq_open(O_WRONLY) of the queue that has the name of p, whichever process
\* of p has created it, or whether it is an orphan
OpenPeer(u, p) == linked[p] # 0 /\ pq' = [pq EXCEPT ![u] = linked[p]]
OpenFails(p) == linked[p] \in {0, Orphan}

\* exit_err() and term_handle(): unlink the name, or perhaps create a queue
Unlink_52_04(u) ==
  \E l \in IF linked[u] = 0 THEN {0, Orphan} ELSE {0} : linked' = [linked EXCEPT ![u] = l]

\* the process is gone
Leave(u) ==
  /\ ust' = [ust EXCEPT ![u] = "off"]
  /\ peer' = [peer EXCEPT ![u] = NoUser]
  /\ pq' = [pq EXCEPT ![u] = 0]
  /\ lines' = [lines EXCEPT ![u] = 0]
  /\ heard' = [heard EXCEPT ![u] = {}]

\* exit_err(): before start_message() it cancels and joins a thread that was
\* never created, which may crash the process before the name is unlinked
ExitErr(u) ==
  /\ Unlink_52_04(u) \/ (ust[u] # "chat" /\ UNCHANGED linked)
  /\ Leave(u)

\* main(): mq_open(O_CREAT | O_EXCL) of the listen-queue.  When the name is
\* taken, by a leftover or by this user's running process, exit_err()
\* crashes or unlinks it.
StartOn(u, free, left) ==
  /\ inst[u] < MaxStarts
  /\ \/ /\ linked[u] \in free /\ ust[u] = "off"
        /\ inst' = [inst EXCEPT ![u] = @ + 1]
        /\ box' = [box EXCEPT ![u][inst[u] + 1] = left]
        /\ linked' = [linked EXCEPT ![u] = inst[u] + 1]
        /\ \/ ust' = [ust EXCEPT ![u] = "listen"] /\ UNCHANGED peer
           \/ \E p \in Users \ {u} :
                ust' = [ust EXCEPT ![u] = "invoke"] /\ peer' = [peer EXCEPT ![u] = p]
     \/ /\ linked[u] \notin free
        /\ linked' = [linked EXCEPT ![u] = 0]
        /\ UNCHANGED <<ust, inst, peer, box>>
  /\ UNCHANGED <<pq, lines, heard>>

\* Mutant of Start: without O_EXCL a queue that was left behind is used again.
StartShared(u) ==
  StartOn(u, 0..MaxStarts, IF linked[u] \in 1..MaxStarts THEN box[u][linked[u]] ELSE <<>>)

Start(u) == StartOn(u, {0}, <<>>)

\* listen_user(): mq_receive(); START names the peer, others are passed over
Listen(u) ==
  /\ ust[u] = "listen" /\ Box(u) # <<>>
  /\ box' = Pop(box, u)
  /\ \/ /\ Head(Box(u))[1] = "START"
        /\ ust' = [ust EXCEPT ![u] = "open"]
        /\ peer' = [peer EXCEPT ![u] = Head(Box(u))[2]]
     \/ Head(Box(u))[1] # "START" /\ UNCHANGED <<ust, peer>>
  /\ UNCHANGED <<inst, linked, pq, lines, heard>>

\* listen_user(): mq_open() of the peer's queue
ListenOpen(u) ==
  /\ ust[u] = "open"
  /\ \/ OpenPeer(u, peer[u]) /\ ust' = [ust EXCEPT ![u] = "accept"]
     \/ OpenFails(peer[u]) /\ ust' = [ust EXCEPT ![u] = "listen"] /\ UNCHANGED pq
  /\ UNCHANGED <<inst, linked, box, peer, lines, heard>>

\* mq_send() to the queue that was opened, which waits while it is full
SendTo(u, type, from, to) ==
  /\ ust[u] = from
  /\ ~Full(peer[u], pq[u])
  /\ box' = Put(box, type, u, peer[u], pq[u])
  /\ ust' = [ust EXCEPT ![u] = to]
  /\ UNCHANGED <<inst, linked, peer, pq, heard>>

\* listen_user(): ACCEPTED is sent and the conversation starts
Accept(u) == SendTo(u, "ACCEPTED", "accept", "chat") /\ UNCHANGED lines

\* invoke_peer(): mq_open() of the peer's queue, or exit_err()
Invoke(u) ==
  /\ ust[u] = "invoke"
  /\ \/ /\ OpenPeer(u, peer[u])
        /\ ust' = [ust EXCEPT ![u] = "start"]
        /\ UNCHANGED <<linked, peer, lines, heard>>
     \/ OpenFails(peer[u]) /\ ExitErr(u)
  /\ UNCHANGED <<inst, box>>

\* invoke_peer(): START is sent
SendStart(u) == SendTo(u, "START", "start", "wait") /\ UNCHANGED lines

\* invoke_peer(): the first message received must be ACCEPTED
Answer(u) ==
  /\ ust[u] = "wait" /\ Box(u) # <<>>
  /\ box' = Pop(box, u)
  /\ \/ /\ Head(Box(u))[1] = "ACCEPTED"
        /\ ust' = [ust EXCEPT ![u] = "chat"]
        /\ UNCHANGED <<linked, peer, pq, lines, heard>>
     \/ Head(Box(u))[1] # "ACCEPTED" /\ ExitErr(u)
  /\ UNCHANGED inst

\* start_message(): a line is sent to the peer's queue
Send(u) ==
  /\ lines[u] < MaxLines
  /\ SendTo(u, "MSG", "chat", "chat")
  /\ lines' = [lines EXCEPT ![u] = @ + 1]

\* receive_msg_entry(): a MSG is printed, START and the rest are passed over
ReceiveIf(u, types, ready) ==
  /\ ust[u] = "chat" /\ Box(u) # <<>>
  /\ ready
  /\ box' = Pop(box, u)
  /\ heard' = IF Head(Box(u))[1] \in types THEN [heard EXCEPT ![u] = @ \cup {Head(Box(u))}] ELSE heard
  /\ UNCHANGED <<ust, inst, linked, peer, pq, lines>>

\* Mutants of Receive_52_04: every message is printed; one thread sends and
\* receives, and cannot receive while it waits for room in the peer's queue.
ReceiveAll(u) == ReceiveIf(u, Types, TRUE)
ReceiveSameThread(u) ==
  ReceiveIf(u, {"MSG"}, lines[u] < MaxLines => ~Full(peer[u], pq[u]))

Receive_52_04(u) == ReceiveIf(u, {"MSG"}, TRUE)

\* end of input: exit_err("getline"); or SIGINT, SIGTERM: term_handle()
Quit(u) ==
  /\ \/ ust[u] = "chat" /\ ExitErr(u)
     \/ ust[u] \in Running /\ Unlink_52_04(u) /\ Leave(u)
  /\ UNCHANGED <<inst, box>>

-----------------------------------------------------------------------------
Process(u) ==
  Listen(u) \/ ListenOpen(u) \/ Accept(u) \/ Invoke(u) \/ SendStart(u) \/ Answer(u) \/ Send(u)

Next_52_04 == \E u \in Users : Start(u) \/ Process(u) \/ Receive_52_04(u) \/ Quit(u)

Spec_52_04 == Init_52_04 /\ [][Next_52_04]_vars_52_04

-----------------------------------------------------------------------------
(* Properties                                                              *)

\* A conversation has two ends that agree: while both users are in one, each
\* is the peer of the other.
Paired ==
  \A u \in Users : ust[u] = "chat" /\ ust[peer[u]] = "chat" => peer[peer[u]] = u

\* What a user reads was written by the peer of its conversation.
OnlyPeerHeard == \A u \in Users : \A m \in heard[u] : m[2] = peer[u]

\* Leftover queues, restarts and late messages notwithstanding, a process
\* prints nothing that was written before it was started.
NoStaleMessages == \A u \in Users : \A m \in heard[u] : m[3] = inst[u]

\* Again and again: two users whose queues are both full do not block each other: a line that
\* waits for room in the peer's queue is sent, unless one of them has left.
LinesSent(u) == ust[u] # "chat" \/ lines[u] = MaxLines \/ ust[peer[u]] # "chat"
=============================================================================
