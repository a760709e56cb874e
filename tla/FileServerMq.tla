---------------------------- MODULE FileServerMq ----------------------------
(***************************************************************************)
(* Exercise 52-03: a file server on POSIX message queues.  A client        *)
(* creates a queue, sends its name and a file name to the server, and      *)
(* prints the parts it receives until the end of the file.                 *)
(*                                                                         *)
(* As in 52-02 the queue name comes from an unseeded rand(): all clients   *)
(* use one name, and linked says whose queue has it at the moment.  Here a *)
(* client that fails unlinks that name, whoever's queue it is; when there  *)
(* is none, its probe with O_CREAT | O_EXCL may leave one behind (Left,    *)
(* whose message size does not suit the server).  Unlinked queues live on  *)
(* while a process has them open.                                          *)
(***************************************************************************)
EXTENDS Naturals, Sequences

CONSTANTS
  Clients, NoClient, Left,
  Bytes,      \* the sizes of the blocks that read() returns of each readable file
  Missing,    \* names that open() refuses
  Dirs,       \* names that open() accepts and read() refuses
  mq_maxmsg   \* room in every queue

Blocks == [f \in DOMAIN Bytes |-> Len(Bytes[f])]
Files == DOMAIN Blocks \cup Missing \cup Dirs

VARIABLES
  cpc, file,  \* where each client is, and the file it asks for
  out,        \* what it has printed: file, block and how many bytes of the block
  holder,     \* whose queue has the common name
  mailbox,    \* the messages in each client's queue
  spc,        \* where the server is
  reqs,       \* files requested in the server's queue
  dest, cur, pos  \* handle_req(): client queue, file and next block

client == <<cpc, file, out>>
server == <<spc, reqs, dest, cur, pos>>
vars_52_03 == <<cpc, file, out, holder, mailbox, spc, reqs, dest, cur, pos>>

Stopped == {"done", "failed", "killed"}
Names == Clients \cup {NoClient, Left}
Part(f, i) == <<"PART", f, i>>
End == <<"END">>
\* snprintf(buf, res.size, ...): the last byte of a block makes room for the
\* final null and is not printed
Line(f, i) == <<f, i, Bytes[f][i] - 1>>
\* what is printed of the part sent after a failed read(), whose size is -1:
\* whatever the server's buffer holds, here once however often it comes
Junk == <<"JUNK">>
\* what a client has printed when a part is added to the output o
Printed(o, m) ==
  IF m[3] # 0 THEN Append(o, Line(m[2], m[3]))
  ELSE IF o # <<>> /\ o[Len(o)] = Junk THEN o ELSE Append(o, Junk)

TypeOK_52_03 ==
  /\ cpc \in [Clients -> {"start", "request", "receive"} \cup Stopped]
  /\ file \in [Clients -> Files]
  /\ out \in [Clients -> Seq((Files \X Nat \X Nat) \cup {Junk})]
  /\ holder \in Names
  /\ \A c \in Clients : Len(mailbox[c]) <= mq_maxmsg
  /\ spc \in {"receive", "open", "read", "down"}
  /\ reqs \in Seq(Files) /\ Len(reqs) <= mq_maxmsg
  /\ dest \in Clients \cup {NoClient}
  /\ cur \in Files
  /\ pos \in Nat

Init_52_03 ==
  /\ cpc = [c \in Clients |-> "start"]
  /\ cur = CHOOSE f \in Files : TRUE
  /\ file = [c \in Clients |-> cur]
  /\ out = [c \in Clients |-> <<>>]
  /\ holder = NoClient
  /\ mailbox = [c \in Clients |-> <<>>]
  /\ spc = "receive" /\ reqs = <<>>
  /\ dest = NoClient /\ pos = 0

-----------------------------------------------------------------------------
(* A client                                                                *)

\* what exit_err() and term_handle() do to the common name
Unlink_52_03 == holder' \in IF holder = NoClient THEN {NoClient, Left} ELSE {NoClient}

\* mq_open(O_CREAT | O_EXCL) of the client's queue, or exit_err(); the file
\* is the argument of the program
CreateQueue(c) ==
  /\ cpc[c] = "start"
  /\ \/ /\ holder = NoClient /\ holder' = c
        /\ cpc' = [cpc EXCEPT ![c] = "request"]
        /\ \E f \in Files : file' = [file EXCEPT ![c] = f]
     \/ /\ holder # NoClient /\ Unlink_52_03
        /\ cpc' = [cpc EXCEPT ![c] = "failed"]
        /\ UNCHANGED file
  /\ UNCHANGED <<out, mailbox, server>>

\* mq_open() of the server's queue, or exit_err(); mq_send() of the request
Request(c) ==
  /\ cpc[c] = "request"
  /\ \/ /\ spc # "down" /\ Len(reqs) < mq_maxmsg
        /\ reqs' = Append(reqs, file[c])
        /\ cpc' = [cpc EXCEPT ![c] = "receive"]
        /\ UNCHANGED holder
     \/ /\ spc = "down" /\ Unlink_52_03
        /\ cpc' = [cpc EXCEPT ![c] = "failed"]
        /\ UNCHANGED reqs
  /\ UNCHANGED <<file, out, mailbox, spc, dest, cur, pos>>

\* mq_receive(): print a part, or leave at the end of the file, where
\* mq_unlink() removes whatever queue has the name
Receive_52_03(c) ==
  /\ cpc[c] = "receive" /\ mailbox[c] # <<>>
  /\ mailbox' = [mailbox EXCEPT ![c] = Tail(@)]
  /\ \/ /\ Head(mailbox[c]) # End
        /\ out' = [out EXCEPT ![c] = Printed(@, Head(mailbox[c]))]
        /\ UNCHANGED <<cpc, holder>>
     \/ /\ Head(mailbox[c]) = End
        /\ cpc' = [cpc EXCEPT ![c] = "done"]
        /\ holder' = NoClient
        /\ UNCHANGED out
  /\ UNCHANGED <<file, server>>

\* SIGINT or SIGTERM: term_handle()
ClientTerm(c) ==
  /\ cpc[c] \notin Stopped
  /\ Unlink_52_03
  /\ cpc' = [cpc EXCEPT ![c] = "failed"]
  /\ UNCHANGED <<file, out, mailbox, server>>

\* SIGKILL
Kill(c) ==
  /\ cpc[c] \notin Stopped
  /\ cpc' = [cpc EXCEPT ![c] = "killed"]
  /\ UNCHANGED <<file, out, holder, mailbox, server>>

-----------------------------------------------------------------------------
(* The server                                                              *)

\* mq_receive() of a request
Take ==
  /\ spc = "receive" /\ reqs # <<>>
  /\ cur' = Head(reqs) /\ reqs' = Tail(reqs)
  /\ pos' = 1
  /\ spc' = "open"
  /\ UNCHANGED <<client, holder, mailbox, dest>>

\* handle_req() opens the client's queue and the file; when there is no such
\* queue, its message size is wrong or the file cannot be opened, the request
\* is dropped
OpenFile ==
  /\ spc = "open"
  /\ \/ holder \in Clients /\ cur \notin Missing /\ spc' = "read" /\ dest' = holder
     \/ holder \notin Clients /\ spc' = "receive" /\ UNCHANGED dest
     \/ holder \in Clients /\ cur \in Missing /\ spc' = "receive" /\ UNCHANGED dest
  /\ UNCHANGED <<client, holder, mailbox, reqs, cur, pos>>

\* read() of a block and mq_send() of it, which waits while the queue is full
SendUpTo(limit, step) ==
  /\ spc = "read" /\ Len(mailbox[dest]) < limit
  /\ cur \notin Dirs /\ pos <= Blocks[cur]
  /\ mailbox' = [mailbox EXCEPT ![dest] = Append(@, Part(cur, pos))]
  /\ pos' = pos + step
  /\ UNCHANGED <<client, holder, spc, reqs, dest, cur>>

\* Mutants of SendPart: the last place of the queue is not used; a block is
\* passed over.
SendPartTooLittle == SendUpTo(mq_maxmsg - 1, 1)
SendPartSkip == SendUpTo(mq_maxmsg, 2)

SendPart == SendUpTo(mq_maxmsg, 1)

\* read() fails with -1, which the test for rsize == 0 does not see: a part
\* with size -1 and the old contents of res.data is sent, and the loop goes on
SendFailed ==
  /\ spc = "read" /\ Len(mailbox[dest]) < mq_maxmsg
  /\ cur \in Dirs
  /\ mailbox' = [mailbox EXCEPT ![dest] = Append(@, Part(cur, 0))]
  /\ UNCHANGED <<client, holder, spc, reqs, dest, cur, pos>>

\* end of file
SendEnd ==
  /\ spc = "read" /\ Len(mailbox[dest]) < mq_maxmsg
  /\ cur \notin Dirs /\ pos > Blocks[cur]
  /\ mailbox' = [mailbox EXCEPT ![dest] = Append(@, End)]
  /\ spc' = "receive" /\ dest' = NoClient
  /\ UNCHANGED <<client, holder, reqs, cur, pos>>

\* term_handle(): the server's queue is unlinked
Term ==
  /\ spc # "down"
  /\ spc' = "down"
  /\ UNCHANGED <<client, holder, mailbox, reqs, dest, cur, pos>>

-----------------------------------------------------------------------------
Client(c) == Request(c) \/ Receive_52_03(c)
Server == Take \/ OpenFile \/ SendPart \/ SendFailed \/ SendEnd

Next_52_03 ==
  \/ \E c \in Clients : CreateQueue(c) \/ Client(c) \/ ClientTerm(c) \/ Kill(c)
  \/ Server \/ Term

Spec_52_03 == Init_52_03 /\ [][Next_52_03]_vars_52_03

-----------------------------------------------------------------------------
(* Properties                                                              *)

\* Whatever happens to the common name, a client prints the leading blocks
\* of one file in their order, each without its last byte, and nothing else:
\* parts of two transfers are never mixed, and the end of the file is not
\* reached early.  A client of a file that cannot be read prints what the
\* server's buffer holds, and is never told that the file has ended.
FilesIntact ==
  \A c \in Clients :
    \/ \E f \in DOMAIN Blocks :
         /\ Len(out[c]) <= Blocks[f]
         /\ \A i \in 1..Len(out[c]) : out[c][i] = Line(f, i)
         /\ cpc[c] = "done" => Len(out[c]) = Blocks[f]
    \/ out[c] = <<Junk>> /\ cpc[c] # "done"

\* "Enter infinite loop to receive message from client": however small the
\* queues, the server comes back to its own after each request while the
\* owner of the queue it sends to is receiving and the file can be read.  (An
\* owner that was given the answer to a left-over request may itself wait
\* for room in the server's queue: then both wait for each other.)
Returned == spc # "read" \/ cpc[dest] # "receive" \/ cur \in Dirs

\* "Create message with file name and client-queue name": a client that is
\* told the end of the file has received the file it asked for.
RightFile ==
  \A c \in Clients : cpc[c] = "done" => \A i \in 1..Len(out[c]) : out[c][i][1] = file[c]
=============================================================================
