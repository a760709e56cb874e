----------------------------- MODULE SeqNumSock -----------------------------
(***************************************************************************)
(* Exercises 57-03 and 59-01: iterative sequence-number servers on stream  *)
(* sockets.  A client connects, sends by how much the number is to grow,   *)
(* and reads the new number.  The two servers differ in one respect that   *)
(* matters here: 59-01 ignores SIGPIPE, 57-03 does not.                    *)
(***************************************************************************)
EXTENDS Naturals, Sequences

CONSTANTS
  Clients, NoClient,
  Paddings,       \* what clients ask for, never 0
  Modulus,        \* 2^w for the w bits of size_t
  IgnoreSigpipe   \* signal(SIGPIPE, SIG_IGN)

VARIABLES
  cpc,       \* where each client is
  padding,   \* its request, 0 before it connects
  reply,     \* the responses in its socket or read from it
  queue,     \* connections waiting for accept()
  spc, pfd,  \* where the server is, and the connection it serves
  seq_num,
  log        \* clients whose request was executed, in that order

vars == <<cpc, padding, reply, queue, spc, pfd, seq_num, log>>

TypeOK ==
  /\ cpc \in [Clients -> {"start", "write", "wait", "done", "failed", "gone", "killed"}]
  /\ padding \in [Clients -> Paddings \cup {0}]
  /\ reply \in [Clients -> Seq(0..(Modulus - 1))]
  /\ queue \in Seq(Clients)
  /\ spc \in {"accept", "read", "write", "dead"}
  /\ pfd \in Clients \cup {NoClient}
  /\ seq_num \in 0..(Modulus - 1)
  /\ log \in Seq(Clients)

Init ==
  /\ cpc = [c \in Clients |-> "start"]
  /\ padding = [c \in Clients |-> 0]
  /\ reply = [c \in Clients |-> <<>>]
  /\ queue = <<>> /\ log = <<>>
  /\ spc = "accept" /\ pfd = NoClient /\ seq_num = 0

-----------------------------------------------------------------------------
\* the client connects, or is refused when there is no server any more
Connect(c) ==
  /\ cpc[c] = "start"
  /\ \/ /\ spc # "dead"
        /\ \E n \in Paddings : padding' = [padding EXCEPT ![c] = n]
        /\ queue' = Append(queue, c)
        /\ cpc' = [cpc EXCEPT ![c] = "write"]
     \/ /\ spc = "dead"
        /\ cpc' = [cpc EXCEPT ![c] = "failed"]
        /\ UNCHANGED <<padding, queue>>
  /\ UNCHANGED <<reply, spc, pfd, seq_num, log>>

\* the client writes its request
WriteRequest(c) ==
  /\ cpc[c] = "write"
  /\ cpc' = [cpc EXCEPT ![c] = "wait"]
  /\ UNCHANGED <<padding, reply, queue, spc, pfd, seq_num, log>>

\* the client reads its number; end of file, when the server died, is an error
ReadResponse(c) ==
  /\ cpc[c] = "wait"
  /\ reply[c] # <<>> \/ spc = "dead"
  /\ cpc' = [cpc EXCEPT ![c] = IF reply[c] # <<>> THEN "done" ELSE "failed"]
  /\ UNCHANGED <<padding, reply, queue, spc, pfd, seq_num, log>>

\* the client dies before ("gone") or after ("killed") writing its request
Kill(c) ==
  /\ cpc[c] \in {"write", "wait"}
  /\ cpc' = [cpc EXCEPT ![c] = IF @ = "write" THEN "gone" ELSE "killed"]
  /\ UNCHANGED <<padding, reply, queue, spc, pfd, seq_num, log>>

\* accept()
Accept ==
  /\ spc = "accept" /\ queue # <<>>
  /\ pfd' = Head(queue) /\ queue' = Tail(queue)
  /\ spc' = "read"
  /\ UNCHANGED <<cpc, padding, reply, seq_num, log>>

\* the request is short: the server goes to pc with the connection p
ReadShortTo(pc, p) ==
  /\ spc = "read" /\ cpc[pfd] = "gone"
  /\ spc' = pc /\ pfd' = p
  /\ UNCHANGED <<cpc, padding, reply, queue, seq_num, log>>

\* Mutant of ReadShort: the short read is repeated.
ReadShortKeeps == ReadShortTo("read", pfd)

\* the connection is closed
ReadShort == ReadShortTo("accept", NoClient)

\* read() of the request, after which the number is n
Executed(n) ==
  /\ spc = "read" /\ cpc[pfd] \in {"wait", "killed"}
  /\ seq_num' = n
  /\ log' = Append(log, pfd)
  /\ spc' = "write"
  /\ UNCHANGED <<cpc, padding, reply, queue, pfd>>

\* Mutant of ReadRequest: the sum is not kept to the width of size_t.
ReadRequestWide == Executed(seq_num + padding[pfd])

\* Mutant of ReadRequest: the number grows by one whatever was asked.
ReadRequestByOne == Executed((seq_num + 1) % Modulus)

\* seq_num += padding
ReadRequest == Executed((seq_num + padding[pfd]) % Modulus)

\* write() of the response and close(); writing to a client that is gone
\* fails with EPIPE when SIGPIPE is ignored, and kills the server otherwise
WriteResponse ==
  /\ spc = "write"
  /\ \/ /\ cpc[pfd] # "killed"
        /\ reply' = [reply EXCEPT ![pfd] = Append(@, seq_num)]
        /\ spc' = "accept"
     \/ /\ cpc[pfd] = "killed"
        /\ spc' = IF IgnoreSigpipe THEN "accept" ELSE "dead"
        /\ UNCHANGED reply
  /\ pfd' = NoClient
  /\ UNCHANGED <<cpc, padding, queue, seq_num, log>>

-----------------------------------------------------------------------------
Client(c) == Connect(c) \/ WriteRequest(c) \/ ReadResponse(c)
Server == Accept \/ ReadShort \/ ReadRequest \/ WriteResponse
Next == Server \/ \E c \in Clients : Client(c) \/ Kill(c)

Spec == Init /\ [][Next]_vars

\* The server and every client process are scheduled.
Clientele == \E c \in Clients : Client(c)

-----------------------------------------------------------------------------
(* Properties                                                              *)

\* The sum of the first n executed requests
Sum[n \in Nat] == IF n = 0 THEN 0 ELSE (Sum[n-1] + padding[log[n]]) % Modulus

\* A client reads the sum of exactly the requests executed up to its own,
\* each counted once, also those of clients that died before their answer.
AnswerIsSum ==
  \A i \in 1..Len(log) : reply[log[i]] \in {<<>>, <<Sum[i]>>}

\* "enter loop to accept connection, process request and send back response":
\* a client that is not killed reads a number, unless the server does not
\* ignore SIGPIPE and was killed writing to a client that is gone.
ClientsAnswered ==
  \A c \in Clients : \/ cpc[c] \in {"done", "gone", "killed"}
                     \/ spc = "dead" /\ ~IgnoreSigpipe
=============================================================================
