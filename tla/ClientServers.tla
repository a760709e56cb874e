---------------------------- MODULE ClientServers ---------------------------
(***************************************************************************)
(* The book's servers on sockets with their clients: sequence numbers over *)
(* TCP, and answers to datagrams.  They share no state.                    *)
(***************************************************************************)
EXTENDS Integers, Sequences

-----------------------------------------------------------------------------
(***************************************************************************)
(* The sequence-number servers is_seqnum_sv.c, is_seqnum_v2_sv.c and       *)
(* is_seqnum_sv_59-2.c with their clients: an iterative server over TCP.   *)
(* A client writes a length and then, by a second write(), a newline; the  *)
(* server reads the line, answers its number and adds the length.          *)
(*                                                                         *)
(* wire[c] is what client c wrote and the server has not read ("len" the   *)
(* digits, "nl" the newline), end[c] says that it has closed its socket.   *)
(* Numbers are Modulus wide; the answer is printed with %d, as signed.     *)
(* grants are the requests executed, as <<client, number, length>>.        *)
(***************************************************************************)
CONSTANTS Clients_seqnum, Lens_seqnum, Modulus, MaxKills, None

VARIABLES cst, len, wire, end, answer, backlog, cfd, line, seqNum, grants,
          kills
vars_seqnum == <<cst, len, wire, end, answer, backlog, cfd, line, seqNum, grants, kills>>
client_seqnum == <<cst, len, wire, end, answer, kills>>
server == <<backlog, cfd, line, seqNum, grants>>

Init_seqnum ==
  /\ cst = [c \in Clients_seqnum |-> "new"] /\ len \in [Clients_seqnum -> Lens_seqnum]
  /\ wire = [c \in Clients_seqnum |-> <<>>] /\ end = [c \in Clients_seqnum |-> FALSE]
  /\ answer = [c \in Clients_seqnum |-> None] /\ kills = 0
  /\ backlog = <<>> /\ cfd = None /\ line = <<>> /\ seqNum = 0 /\ grants = <<>>

-----------------------------------------------------------------------------
\* The clients.
To(c, st) == cst' = [cst EXCEPT ![c] = st]
Connect(c) ==
  /\ cst[c] = "new" /\ To(c, "len") /\ backlog' = Append(backlog, c)
  /\ UNCHANGED <<len, wire, end, answer, kills, cfd, line, seqNum, grants>>
Write(c, from, what, to) ==
  /\ cst[c] = from /\ To(c, to) /\ wire' = [wire EXCEPT ![c] = Append(@, what)]
  /\ UNCHANGED <<len, end, answer, kills, server>>
\* the number <<n>>, or <<>> for the end of the connection ("Unexpected EOF from server")
Answered(c) == cst[c] = "read" /\ answer[c] # None /\ To(c, "done")
               /\ end' = [end EXCEPT ![c] = TRUE] /\ UNCHANGED <<len, wire, answer, kills, server>>
Killed(c) ==
  /\ cst[c] \in {"len", "nl", "read"} /\ kills < MaxKills /\ kills' = kills + 1
  /\ To(c, "killed") /\ end' = [end EXCEPT ![c] = TRUE]
  /\ UNCHANGED <<len, wire, answer, server>>
is_seqnum_cl(c) ==
  Connect(c) \/ Write(c, "len", "len", "nl") \/ Write(c, "nl", "nl", "read") \/ Answered(c)
is_seqnum_v2_cl(c) == is_seqnum_cl(c)
is_seqnum_cl_59_2(c) == is_seqnum_cl(c)

-----------------------------------------------------------------------------
\* The server.  A line ends with a newline or with the connection.
accept_seqnum ==
  /\ cfd = None /\ backlog # <<>>
  /\ cfd' = Head(backlog) /\ backlog' = Tail(backlog) /\ line' = <<>>
  /\ UNCHANGED <<client_seqnum, seqNum, grants>>
readLine ==
  /\ cfd # None /\ wire[cfd] # <<>>
  /\ line' = Append(line, Head(wire[cfd])) /\ wire' = [wire EXCEPT ![cfd] = Tail(@)]
  /\ UNCHANGED <<cst, len, end, answer, kills, backlog, cfd, seqNum, grants>>
LineRead == cfd # None /\ ((line # <<>> /\ line[Len(line)] = "nl") \/ (wire[cfd] = <<>> /\ end[cfd]))
reqLen == IF line # <<>> /\ line[1] = "len" THEN len[cfd] ELSE 0
Signed(n) == IF n >= Modulus \div 2 THEN n - Modulus ELSE n
Refuse ==
  /\ LineRead /\ reqLen <= 0
  /\ answer' = [answer EXCEPT ![cfd] = <<>>] /\ cfd' = None /\ line' = <<>>
  /\ UNCHANGED <<cst, len, wire, end, kills, backlog, seqNum, grants>>
\* a write() to a client that has gone fails, and is only reported
GrantAs(shown, next) ==
  /\ LineRead /\ reqLen > 0
  /\ answer' = [answer EXCEPT ![cfd] = IF end[cfd] THEN @ ELSE <<shown>>]
  /\ grants' = Append(grants, <<cfd, seqNum, reqLen>>) /\ seqNum' = next
  /\ cfd' = None /\ line' = <<>>
  /\ UNCHANGED <<cst, len, wire, end, kills, backlog>>
\* mutants: the length is not added for a client that has gone; the number
\* is answered after the addition
GrantIfThere == GrantAs(Signed(seqNum), IF end[cfd] THEN seqNum + 1 ELSE (seqNum + reqLen) % Modulus)
GrantAfter == GrantAs(Signed((seqNum + reqLen) % Modulus), (seqNum + reqLen) % Modulus)
Grant == GrantAs(Signed(seqNum), (seqNum + reqLen) % Modulus)
is_seqnum_sv == accept_seqnum \/ readLine \/ Refuse \/ Grant
is_seqnum_v2_sv == accept_seqnum \/ readLine \/ Refuse \/ Grant
is_seqnum_sv_59_2 == accept_seqnum \/ readLine \/ Refuse \/ Grant
Server_seqnum == is_seqnum_sv \/ is_seqnum_v2_sv \/ is_seqnum_sv_59_2
Client_seqnum(c) == is_seqnum_cl(c) \/ is_seqnum_v2_cl(c) \/ is_seqnum_cl_59_2(c)

Next_seqnum == (\E c \in Clients_seqnum : Client_seqnum(c) \/ Killed(c)) \/ Server_seqnum
Spec_seqnum == Init_seqnum /\ [][Next_seqnum]_vars_seqnum
Fair_seqnum == Server_seqnum \/ \E c \in Clients_seqnum : cst[c] # "new" /\ Client_seqnum(c)

-----------------------------------------------------------------------------
\* Types.
TypeOK_seqnum ==
  /\ cst \in [Clients_seqnum -> {"new", "len", "nl", "read", "done", "killed"}]
  /\ cfd \in Clients_seqnum \cup {None} /\ seqNum \in 0..(Modulus - 1) /\ Len(line) <= 2

\* The numbers handed out follow each other without overlap, and a client
\* prints the number reserved for it, even if it is killed half-way through
\* its request or its neighbours are.
NumbersFollow ==
  /\ \A i \in 1..(Len(grants) - 1) : grants[i + 1][2] = (grants[i][2] + grants[i][3]) % Modulus
  /\ \A i, j \in DOMAIN grants : grants[i][1] = grants[j][1] => i = j
  /\ \A c \in Clients_seqnum : cst[c] = "done" =>
       \/ answer[c] = <<>> /\ len[c] <= 0
       \/ \E i \in DOMAIN grants : grants[i] = <<c, grants[i][2], len[c]>> /\ answer[c] = <<Signed(grants[i][2])>>

\* Every client that connects comes to its end.
ClientsEnd_seqnum == \A c \in Clients_seqnum : cst[c] \in {"new", "done", "killed"}

-----------------------------------------------------------------------------
(***************************************************************************)
(* Datagram servers that answer each message: ud_ucase_sv.c (UNIX domain), *)
(* i6d_ucase_sv.c and id_echo_sv.c (UDP), with their clients, which send   *)
(* one message, wait for one answer and go on.  The message of length n is *)
(* cut at BUF_SIZE when it is received.  UNIX datagrams are reliable, but  *)
(* sending to a client that is gone ends ud_ucase_sv.c; UDP loses some of  *)
(* them and its clients wait for ever, as they have no timeout.            *)
(*                                                                         *)
(* A message is <<client, number, length, case>>; sq is the server's       *)
(* queue, cq[c] the client's, got[c] what it printed.                      *)
(***************************************************************************)
CONSTANTS Clients_ucase, Lens_ucase, Msgs, BUF_SIZE, MaxLost

\* len, cst, kills are declared above
VARIABLES kind, sent, sv, sbuf, sq, cq, got, lost
vars_ucase == <<kind, sv, sbuf, sq, len, cst, sent, cq, got, lost, kills>>

Init_ucase ==
  /\ kind \in {"ud_ucase", "i6d_ucase", "id_echo"} /\ sv = "run" /\ sbuf = None /\ sq = <<>>
  /\ len \in [Clients_ucase -> Lens_ucase] /\ cst = [c \in Clients_ucase |-> "send"] /\ sent = [c \in Clients_ucase |-> 0]
  /\ cq = [c \in Clients_ucase |-> <<>>] /\ got = [c \in Clients_ucase |-> <<>>] /\ lost = 0 /\ kills = 0

udp == kind # "ud_ucase"
Cut(m) == [m EXCEPT ![3] = IF @ > BUF_SIZE THEN BUF_SIZE ELSE @]
-----------------------------------------------------------------------------
\* The clients; a process killed leaves its socket path behind.
sendto(c) ==
  /\ cst[c] = "send" /\ sent[c] < Msgs /\ sv = "run"
  /\ sent' = [sent EXCEPT ![c] = @ + 1] /\ cst' = [cst EXCEPT ![c] = "recv"]
  /\ sq' = Append(sq, <<c, sent[c] + 1, len[c], "lower">>)
  /\ UNCHANGED <<kind, sv, sbuf, len, cq, got, lost, kills>>
\* "sendto" fails when ud_ucase_sv.c is gone; for UDP nobody notices
sendtoFails(c) ==
  /\ cst[c] = "send" /\ sent[c] < Msgs /\ sv # "run" /\ cst' = [cst EXCEPT ![c] = "failed"]
  /\ UNCHANGED <<kind, sv, sbuf, sq, len, sent, cq, got, lost, kills>>
recvfrom(c) ==
  /\ cst[c] = "recv" /\ cq[c] # <<>>
  /\ got' = [got EXCEPT ![c] = Append(@, Cut(Head(cq[c])))] /\ cq' = [cq EXCEPT ![c] = Tail(@)]
  /\ cst' = [cst EXCEPT ![c] = "send"]
  /\ UNCHANGED <<kind, sv, sbuf, sq, len, sent, lost, kills>>
exit_ucase(c) ==
  /\ cst[c] = "send" /\ sent[c] = Msgs /\ cst' = [cst EXCEPT ![c] = "done"]
  /\ UNCHANGED <<kind, sv, sbuf, sq, len, sent, cq, got, lost, kills>>
Kill_ucase(c) ==
  /\ cst[c] = "recv" /\ kills < MaxKills /\ kills' = kills + 1 /\ cst' = [cst EXCEPT ![c] = "killed"]
  /\ UNCHANGED <<kind, sv, sbuf, sq, len, sent, cq, got, lost>>
Loop(c) == sendto(c) \/ recvfrom(c) \/ exit_ucase(c)
ud_ucase_cl(c) == kind = "ud_ucase" /\ (Loop(c) \/ sendtoFails(c))
i6d_ucase_cl(c) == kind = "i6d_ucase" /\ Loop(c)
id_echo_cl(c) == kind = "id_echo" /\ Loop(c)
Client_ucase(c) == ud_ucase_cl(c) \/ i6d_ucase_cl(c) \/ id_echo_cl(c)

-----------------------------------------------------------------------------
\* The servers: one datagram, one answer.
Receive ==
  /\ sv = "run" /\ sbuf = None /\ sq # <<>> /\ sbuf' = Cut(Head(sq)) /\ sq' = Tail(sq)
  /\ UNCHANGED <<kind, sv, len, cst, sent, cq, got, lost, kills>>
AnswerTo(c, m) ==
  /\ sbuf' = None
  /\ IF cst[c] # "killed"
     THEN cq' = [cq EXCEPT ![c] = Append(@, m)] /\ UNCHANGED sv
     ELSE sv' = (IF udp THEN "run" ELSE "failed") /\ UNCHANGED cq
  /\ UNCHANGED <<kind, sq, len, cst, sent, got, lost, kills>>
\* mutant: the answer goes to the sender of the next datagram
AnswerNext(how) == sbuf # None /\ AnswerTo(IF sq # <<>> THEN Head(sq)[1] ELSE sbuf[1], [sbuf EXCEPT ![4] = how])
Answer(how) == sbuf # None /\ AnswerTo(sbuf[1], [sbuf EXCEPT ![4] = how])
ud_ucase_sv == kind = "ud_ucase" /\ (Receive \/ Answer("upper"))
i6d_ucase_sv == kind = "i6d_ucase" /\ (Receive \/ Answer("upper"))
id_echo_sv == kind = "id_echo" /\ (Receive \/ Answer("lower"))
Server_ucase == ud_ucase_sv \/ i6d_ucase_sv \/ id_echo_sv

\* The network drops a UDP datagram.
Lose ==
  /\ udp /\ lost < MaxLost /\ lost' = lost + 1
  /\ \/ sq # <<>> /\ sq' = Tail(sq) /\ UNCHANGED cq
     \/ \E c \in Clients_ucase : cq[c] # <<>> /\ cq' = [cq EXCEPT ![c] = Tail(@)] /\ UNCHANGED sq
  /\ UNCHANGED <<kind, sv, sbuf, len, cst, sent, got, kills>>

Next_ucase == (\E c \in Clients_ucase : Client_ucase(c) \/ Kill_ucase(c)) \/ Server_ucase \/ Lose
Spec_ucase == Init_ucase /\ [][Next_ucase]_vars_ucase
Fair_ucase == Server_ucase \/ \E c \in Clients_ucase : Client_ucase(c)

-----------------------------------------------------------------------------
\* Types.
TypeOK_ucase ==
  /\ cst \in [Clients_ucase -> {"send", "recv", "done", "failed", "killed"}]
  /\ sent \in [Clients_ucase -> 0..Msgs] /\ lost \in 0..MaxLost /\ sv \in {"run", "failed"}

\* The k-th answer a client prints is the answer to its k-th message, in the
\* server's case and at most BUF_SIZE long, and never another client's.
OwnAnswers ==
  \A c \in Clients_ucase : \A k \in DOMAIN got[c] :
    got[c][k] = Cut(<<c, k, len[c], IF kind = "id_echo" THEN "lower" ELSE "upper">>)

\* A client ends, unless a datagram was lost or, on UNIX sockets, the death
\* of another client has ended the server.
ClientsEnd_ucase == \A c \in Clients_ucase : cst[c] \in {"send", "recv"} => lost > 0 \/ sv = "failed"
=============================================================================
