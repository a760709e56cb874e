---------------------------- MODULE SocketProofs ----------------------------
(***************************************************************************)
(* Safety of the book's servers on sockets, for any clients and sizes: the *)
(* sequence-number servers is_seqnum, and the datagram servers ud_ucase,   *)
(* i6d_ucase and id_echo.                                                  *)
(***************************************************************************)
EXTENDS ClientServers, TLAPS

-----------------------------------------------------------------------------
(* The sequence-number servers on TCP                                      *)

\* Lengths are numbers, the counter has a width, and the sign for nothing is
\* no client.
SeqNumConstants ==
  Lens_seqnum \subseteq Int /\ Modulus \in Nat \ {0} /\ None \notin Clients_seqnum

\* What a client in state st has written is the line l that the server has
\* read and what is on the wire.
Written(st, l, w) ==
  \/ l = <<>> /\ w = <<>> /\ st \in {"new", "len", "killed"}
  \/ /\ (l = <<>> /\ w = <<"len">>) \/ (l = <<"len">> /\ w = <<>>)
     /\ st \in {"nl", "killed"}
  \/ /\ \/ l = <<>> /\ w = <<"len", "nl">>
        \/ l = <<"len">> /\ w = <<"nl">>
        \/ l = <<"len", "nl">> /\ w = <<>>
     /\ st \in {"read", "done", "killed"}

\* The clients in the queue are different, have connected, and are neither
\* served nor answered; what is on their wires is all they wrote.
QueueOK ==
  /\ backlog \in Seq(Clients_seqnum)
  /\ \A i, j \in 1..Len(backlog) : backlog[i] = backlog[j] => i = j
  /\ \A i \in 1..Len(backlog) :
       /\ backlog[i] # cfd /\ cst[backlog[i]] # "new" /\ answer[backlog[i]] = None
       /\ Written(cst[backlog[i]], <<>>, wire[backlog[i]])

\* So is the client that is served, and its line is the beginning of that.
ServingOK ==
  cfd # None => /\ cfd \in Clients_seqnum /\ cst[cfd] # "new" /\ answer[cfd] = None
                /\ Written(cst[cfd], line, wire[cfd])

\* The requests executed are of different clients that are served no more;
\* each number follows the one before, and the counter the last.
GrantsOK ==
  /\ grants \in Seq(Clients_seqnum \X Int \X Int)
  /\ \A i \in 1..(Len(grants) - 1) : grants[i + 1][2] = (grants[i][2] + grants[i][3]) % Modulus
  /\ grants # <<>> => seqNum = (grants[Len(grants)][2] + grants[Len(grants)][3]) % Modulus
  /\ \A i, j \in 1..Len(grants) : grants[i][1] = grants[j][1] => i = j
  /\ \A i \in 1..Len(grants) :
       /\ grants[i][1] # cfd /\ cst[grants[i][1]] # "new"
       /\ \A j \in 1..Len(backlog) : backlog[j] # grants[i][1]

\* A client that is answered has the number that was reserved for it, or asked
\* for none, or was killed.
AnswerOK(c) ==
  \/ cst[c] = "killed"
  \/ answer[c] = <<>> /\ len[c] <= 0
  \/ \E i \in 1..Len(grants) :
       grants[i] = <<c, grants[i][2], len[c]>> /\ answer[c] = <<Signed(grants[i][2])>>

\* The inductive invariant for NumbersFollow.
SeqNumInv ==
  /\ cst \in [Clients_seqnum -> {"new", "len", "nl", "read", "done", "killed"}]
  /\ len \in [Clients_seqnum -> Lens_seqnum] /\ seqNum \in Int
  /\ wire \in [Clients_seqnum -> Seq({"len", "nl"})]
  /\ end \in [Clients_seqnum -> BOOLEAN]
  /\ answer \in [Clients_seqnum -> Seq(Int) \cup {None}]
  /\ QueueOK /\ ServingOK /\ GrantsOK
  /\ \A c \in Clients_seqnum :
       /\ cst[c] = "new" => answer[c] = None /\ wire[c] = <<>>
       /\ end[c] => cst[c] \in {"done", "killed"}
       /\ cst[c] = "done" => answer[c] # None
       /\ answer[c] # None => AnswerOK(c)

\* Sequences with the same elements are the same.
LEMMA SameSequence ==
  ASSUME NEW S, NEW s \in Seq(S), NEW t \in Seq(S),
         Len(s) = Len(t), \A i \in 1..Len(s) : s[i] = t[i]
  PROVE  s = t
OBVIOUS

\* One word, or two.
LEMMA AppendWord ==
  ASSUME NEW x, NEW y
  PROVE  Append(<<>>, y) = <<y>> /\ Append(<<x>>, y) = <<x, y>>
<1>1. <<>> \in Seq({x, y}) /\ <<x>> \in Seq({x, y}) /\ <<y>> \in Seq({x, y}) /\ <<x, y>> \in Seq({x, y})
  OBVIOUS
<1>2. Append(<<>>, y) = <<y>>
  <2>1. Append(<<>>, y) \in Seq({x, y}) /\ Len(Append(<<>>, y)) = 1 /\ Append(<<>>, y)[1] = y
    BY <1>1
  <2>2. Len(<<y>>) = 1 /\ <<y>>[1] = y /\ \A i \in 1..1 : i = 1
    OBVIOUS
  <2> QED BY <1>1, <2>1, <2>2, SameSequence
<1>3. Append(<<x>>, y) = <<x, y>>
  <2>1. /\ Append(<<x>>, y) \in Seq({x, y}) /\ Len(Append(<<x>>, y)) = 2
        /\ Append(<<x>>, y)[1] = x /\ Append(<<x>>, y)[2] = y
    BY <1>1
  <2>2. Len(<<x, y>>) = 2 /\ <<x, y>>[1] = x /\ <<x, y>>[2] = y /\ \A i \in 1..2 : i = 1 \/ i = 2
    OBVIOUS
  <2> QED BY <1>1, <2>1, <2>2, SameSequence, Zenon
<1> QED BY <1>2, <1>3

\* A client writes the length, and then the newline.
LEMMA WireWrite ==
  ASSUME NEW l, NEW w
  PROVE  /\ Written("len", l, w) => Written("nl", l, Append(w, "len"))
         /\ Written("nl", l, w) => Written("read", l, Append(w, "nl"))
<1>1. Append(<<>>, "len") = <<"len">> /\ Append(<<>>, "nl") = <<"nl">>
      /\ Append(<<"len">>, "nl") = <<"len", "nl">>
  BY AppendWord
<1> QED BY <1>1, Zenon DEF Written

\* The server reads what comes first.
LEMMA WireRead ==
  ASSUME NEW st, NEW l, NEW w, Written(st, l, w), w # <<>>
  PROVE  Written(st, Append(l, Head(w)), Tail(w))
<1>1. Append(<<>>, "len") = <<"len">> /\ Append(<<"len">>, "nl") = <<"len", "nl">>
  BY AppendWord
<1>2. /\ Head(<<"len">>) = "len" /\ Tail(<<"len">>) = <<>>
      /\ Head(<<"nl">>) = "nl" /\ Tail(<<"nl">>) = <<>>
      /\ Head(<<"len", "nl">>) = "len" /\ Tail(<<"len", "nl">>) = <<"nl">>
  OBVIOUS
<1> QED BY <1>1, <1>2, Zenon DEF Written

\* A line that ends with the newline begins with the length.
LEMMA WireLine ==
  ASSUME NEW st, NEW l, NEW w, Written(st, l, w), l # <<>>, l[Len(l)] = "nl"
  PROVE  l[1] = "len"
BY DEF Written

\* A step of a client that is connected.
LEMMA SeqClientStep ==
  ASSUME SeqNumInv, NEW c \in Clients_seqnum,
         UNCHANGED <<len, answer, backlog, cfd, line, seqNum, grants>>,
         cst' \in [Clients_seqnum -> {"new", "len", "nl", "read", "done", "killed"}],
         wire' \in [Clients_seqnum -> Seq({"len", "nl"})], end' \in [Clients_seqnum -> BOOLEAN],
         \A x \in Clients_seqnum \ {c} : cst'[x] = cst[x] /\ wire'[x] = wire[x] /\ end'[x] = end[x],
         cst[c] \notin {"new", "killed"}, cst'[c] # "new",
         \A l : Written(cst[c], l, wire[c]) => Written(cst'[c], l, wire'[c]),
         end'[c] => cst'[c] \in {"done", "killed"}, cst'[c] = "done" => answer[c] # None
  PROVE  SeqNumInv'
<1>1. QueueOK /\ ServingOK /\ GrantsOK
  BY DEF SeqNumInv
<1>2. QueueOK'
  <2>1. \A i \in 1..Len(backlog) : backlog[i] \in Clients_seqnum
    BY <1>1 DEF QueueOK
  <2>2. \A x \in Clients_seqnum :
          /\ cst[x] # "new" => cst'[x] # "new"
          /\ Written(cst[x], <<>>, wire[x]) => Written(cst'[x], <<>>, wire'[x])
    OBVIOUS
  <2>3. \A i \in 1..Len(backlog) :
          cst'[backlog[i]] # "new" /\ Written(cst'[backlog[i]], <<>>, wire'[backlog[i]])
    BY <1>1, <2>1, <2>2, Zenon DEF QueueOK
  <2> QED BY <1>1, <2>3 DEF QueueOK
<1>3. ServingOK'
  BY <1>1 DEF ServingOK
<1>4. GrantsOK'
  <2>1. \A i \in 1..Len(grants) : grants[i][1] \in Clients_seqnum
    BY <1>1, SMTT(30) DEF GrantsOK
  <2>2. \A i \in 1..Len(grants) : cst'[grants[i][1]] # "new"
    BY <1>1, <2>1, ZenonT(60) DEF GrantsOK
  <2> QED BY <1>1, <2>2 DEF GrantsOK
<1>5. \A x \in Clients_seqnum : AnswerOK(x) => AnswerOK(x)'
  BY Zenon DEF AnswerOK, Signed
<1>6. \A x \in Clients_seqnum :
        /\ cst'[x] = "new" => answer'[x] = None /\ wire'[x] = <<>>
        /\ end'[x] => cst'[x] \in {"done", "killed"}
        /\ cst'[x] = "done" => answer'[x] # None
        /\ answer'[x] # None => AnswerOK(x)'
  BY <1>5 DEF SeqNumInv
<1> QED BY <1>2, <1>3, <1>4, <1>6 DEF SeqNumInv

\* The clients after connect().
LEMMA SeqClientInv ==
  ASSUME SeqNumInv, NEW c \in Clients_seqnum,
         \/ Write(c, "len", "len", "nl") \/ Write(c, "nl", "nl", "read")
         \/ Answered(c) \/ Killed(c)
  PROVE  SeqNumInv'
<1>1. UNCHANGED <<len, answer, backlog, cfd, line, seqNum, grants>>
  BY DEF Write, Answered, Killed, server
<1>2. /\ cst \in [Clients_seqnum -> {"new", "len", "nl", "read", "done", "killed"}]
      /\ wire \in [Clients_seqnum -> Seq({"len", "nl"})]
      /\ end \in [Clients_seqnum -> BOOLEAN]
  BY DEF SeqNumInv
<1>3. ASSUME NEW from \in {"len", "nl"}, NEW to \in {"nl", "read"}, Write(c, from, from, to),
             from = "len" => to = "nl", from = "nl" => to = "read"
      PROVE  SeqNumInv'
  <2>1. /\ cst[c] = from /\ cst' = [cst EXCEPT ![c] = to] /\ end' = end
        /\ wire' = [wire EXCEPT ![c] = Append(wire[c], from)]
    BY <1>3 DEF Write, To
  <2>2. Append(wire[c], from) \in Seq({"len", "nl"})
    BY <1>2
  <2>3. /\ cst' \in [Clients_seqnum -> {"new", "len", "nl", "read", "done", "killed"}]
        /\ wire' \in [Clients_seqnum -> Seq({"len", "nl"})]
        /\ cst'[c] = to /\ wire'[c] = Append(wire[c], from)
        /\ \A x \in Clients_seqnum \ {c} : cst'[x] = cst[x] /\ wire'[x] = wire[x]
    BY <1>2, <2>1, <2>2
  <2>4. \A l : Written(cst[c], l, wire[c]) => Written(cst'[c], l, wire'[c])
    BY <1>3, <2>1, <2>3, WireWrite
  <2>5. ~end[c]
    BY <2>1, Zenon DEF SeqNumInv
  <2> QED BY <1>1, <1>2, <2>1, <2>3, <2>4, <2>5, SeqClientStep, Zenon
<1>4. CASE Answered(c) \/ Killed(c)
  <2>1. PICK to \in {"done", "killed"} :
          /\ cst[c] \in {"len", "nl", "read"} /\ (to = "done" => cst[c] = "read" /\ answer[c] # None)
          /\ cst' = [cst EXCEPT ![c] = to] /\ end' = [end EXCEPT ![c] = TRUE] /\ wire' = wire
    BY <1>4 DEF Answered, Killed, To
  <2>2. /\ cst' \in [Clients_seqnum -> {"new", "len", "nl", "read", "done", "killed"}]
        /\ end' \in [Clients_seqnum -> BOOLEAN] /\ cst'[c] = to
        /\ \A x \in Clients_seqnum \ {c} : cst'[x] = cst[x] /\ end'[x] = end[x]
    BY <1>2, <2>1
  <2>3. \A l : Written(cst[c], l, wire[c]) => Written(cst'[c], l, wire'[c])
    BY <2>1, <2>2 DEF Written
  <2> QED BY <1>1, <1>2, <2>1, <2>2, <2>3, SeqClientStep, Zenon
<1> QED BY <1>3, <1>4

\* A client connects.
LEMMA SeqConnectInv ==
  ASSUME SeqNumConstants, SeqNumInv, NEW c \in Clients_seqnum, Connect(c)
  PROVE  SeqNumInv'
<1>1. /\ UNCHANGED <<len, wire, end, answer, cfd, line, seqNum, grants>> /\ cst[c] = "new"
      /\ cst' = [cst EXCEPT ![c] = "len"] /\ backlog' = Append(backlog, c)
  BY DEF Connect, To
<1>2. /\ cst' \in [Clients_seqnum -> {"new", "len", "nl", "read", "done", "killed"}]
      /\ cst'[c] = "len" /\ \A x \in Clients_seqnum \ {c} : cst'[x] = cst[x]
  BY <1>1 DEF SeqNumInv
<1>3. QueueOK /\ ServingOK /\ GrantsOK /\ answer[c] = None /\ wire[c] = <<>>
  BY <1>1 DEF SeqNumInv
<1>4. /\ backlog \in Seq(Clients_seqnum) /\ Len(backlog) \in Nat
      /\ \A i \in 1..Len(backlog) : backlog[i] \in Clients_seqnum \ {c}
  BY <1>1, <1>3 DEF QueueOK
<1>5. /\ backlog' \in Seq(Clients_seqnum) /\ Len(backlog') = Len(backlog) + 1
      /\ backlog'[Len(backlog) + 1] = c /\ \A i \in 1..Len(backlog) : backlog'[i] = backlog[i]
      /\ \A i \in 1..(Len(backlog) + 1) : i \in 1..Len(backlog) \/ i = Len(backlog) + 1
  BY <1>1, <1>4
<1>6. c # cfd
  BY <1>1, <1>3 DEF ServingOK, SeqNumConstants
<1>7. QueueOK'
  <2>1. \A i, j \in 1..Len(backlog') : backlog'[i] = backlog'[j] => i = j
    BY <1>3, <1>4, <1>5 DEF QueueOK
  <2>2. Written("len", <<>>, <<>>)
    BY DEF Written
  <2>3. \A i \in 1..Len(backlog') :
          /\ backlog'[i] # cfd /\ cst'[backlog'[i]] # "new" /\ answer[backlog'[i]] = None
          /\ Written(cst'[backlog'[i]], <<>>, wire[backlog'[i]])
    BY <1>2, <1>3, <1>4, <1>5, <1>6, <2>2, SMTT(60) DEF QueueOK
  <2> QED BY <1>1, <1>5, <2>1, <2>3 DEF QueueOK
<1>8. ServingOK'
  BY <1>1, <1>2, <1>3, <1>6 DEF ServingOK
<1>9. GrantsOK'
  <2>1. \A i \in 1..Len(grants) : grants[i][1] \in Clients_seqnum \ {c}
    BY <1>1, <1>3 DEF GrantsOK
  <2>2. \A i \in 1..Len(grants) : cst'[grants[i][1]] # "new"
    BY <1>2, <1>3, <2>1 DEF GrantsOK
  <2>3. ASSUME NEW i \in 1..Len(grants), NEW j \in 1..Len(backlog')
        PROVE  backlog'[j] # grants[i][1]
    <3>1. CASE j \in 1..Len(backlog)
      BY <1>3, <1>5, <3>1, SMTT(60) DEF GrantsOK
    <3>2. CASE j = Len(backlog) + 1
      BY <1>5, <2>1, <3>2
    <3> QED BY <1>5, <3>1, <3>2
  <2> QED BY <1>1, <1>3, <2>2, <2>3, Zenon DEF GrantsOK
<1>10. \A x \in Clients_seqnum : AnswerOK(x) => AnswerOK(x)'
  BY <1>1, <1>2 DEF AnswerOK, Signed
<1>11. \A x \in Clients_seqnum :
         /\ cst'[x] = "new" => answer'[x] = None /\ wire'[x] = <<>>
         /\ end'[x] => cst'[x] \in {"done", "killed"}
         /\ cst'[x] = "done" => answer'[x] # None
         /\ answer'[x] # None => AnswerOK(x)'
  BY <1>1, <1>2, <1>10 DEF SeqNumInv
<1> QED BY <1>1, <1>2, <1>7, <1>8, <1>9, <1>11 DEF SeqNumInv

\* The server accepts a connection.
LEMMA SeqAcceptInv ==
  ASSUME SeqNumConstants, SeqNumInv, accept_seqnum
  PROVE  SeqNumInv'
<1>1. /\ UNCHANGED <<cst, len, wire, end, answer, seqNum, grants>> /\ cfd = None
      /\ backlog # <<>> /\ cfd' = Head(backlog) /\ backlog' = Tail(backlog) /\ line' = <<>>
  BY DEF accept_seqnum, client_seqnum
<1>2. QueueOK /\ GrantsOK
  BY DEF SeqNumInv
<1>3. /\ backlog \in Seq(Clients_seqnum) /\ Len(backlog) \in Nat /\ Len(backlog) >= 1
      /\ cfd' = backlog[1] /\ cfd' \in Clients_seqnum
      /\ backlog' \in Seq(Clients_seqnum) /\ Len(backlog') = Len(backlog) - 1
      /\ \A i \in 1..(Len(backlog) - 1) : backlog'[i] = backlog[i + 1]
  BY <1>1, <1>2 DEF QueueOK
<1>4. /\ \A i \in 1..(Len(backlog) - 1) : i + 1 \in 1..Len(backlog) /\ i + 1 # 1
      /\ \A i, j \in 1..(Len(backlog) - 1) : i + 1 = j + 1 => i = j
      /\ 1 \in 1..Len(backlog)
  BY <1>3
<1>5. QueueOK'
  <2>1. ASSUME NEW i \in 1..Len(backlog'), NEW j \in 1..Len(backlog'),
               backlog'[i] = backlog'[j]
        PROVE  i = j
    <3>1. i \in 1..(Len(backlog) - 1) /\ j \in 1..(Len(backlog) - 1)
      BY <1>3, Zenon
    <3>2. /\ backlog[i + 1] = backlog[j + 1]
          /\ i + 1 \in 1..Len(backlog) /\ j + 1 \in 1..Len(backlog)
      BY <1>3, <1>4, <2>1, <3>1, Zenon
    <3>3. i + 1 = j + 1
      BY <1>2, <3>2, Zenon DEF QueueOK
    <3> QED BY <1>4, <3>1, <3>3, Zenon
  <2>2. \A i \in 1..Len(backlog') :
          /\ backlog'[i] # cfd' /\ cst[backlog'[i]] # "new" /\ answer[backlog'[i]] = None
          /\ Written(cst[backlog'[i]], <<>>, wire[backlog'[i]])
    BY <1>2, <1>3, <1>4 DEF QueueOK
  <2> QED BY <1>1, <1>3, <2>1, <2>2 DEF QueueOK
<1>6. ServingOK'
  BY <1>1, <1>2, <1>3, <1>4 DEF QueueOK, ServingOK
<1>7. GrantsOK'
  <2>1. \A i \in 1..Len(grants) :
          /\ grants[i][1] # cfd' /\ \A j \in 1..Len(backlog') : backlog'[j] # grants[i][1]
    BY <1>2, <1>3, <1>4, SMTT(30) DEF GrantsOK
  <2> QED BY <1>1, <1>2, <2>1 DEF GrantsOK
<1>8. \A x \in Clients_seqnum : AnswerOK(x) => AnswerOK(x)'
  BY <1>1 DEF AnswerOK, Signed
<1> QED BY <1>1, <1>5, <1>6, <1>7, <1>8 DEF SeqNumInv

\* The server reads a character.
LEMMA SeqReadInv ==
  ASSUME SeqNumInv, readLine
  PROVE  SeqNumInv'
<1>1. PICK c \in Clients_seqnum :
        /\ c = cfd /\ cfd # None /\ wire[c] # <<>> /\ cst[c] # "new" /\ answer[c] = None
        /\ Written(cst[c], line, wire[c])
        /\ line' = Append(line, Head(wire[c])) /\ wire' = [wire EXCEPT ![c] = Tail(wire[c])]
  BY Zenon DEF readLine, SeqNumInv, ServingOK
<1>2. UNCHANGED <<cst, len, end, answer, backlog, cfd, seqNum, grants>>
  BY DEF readLine
<1>3. Tail(wire[c]) \in Seq({"len", "nl"})
  BY <1>1 DEF SeqNumInv
<1>4. /\ wire' \in [Clients_seqnum -> Seq({"len", "nl"})] /\ wire'[c] = Tail(wire[c])
      /\ \A x \in Clients_seqnum \ {c} : wire'[x] = wire[x]
  BY <1>1, <1>3 DEF SeqNumInv
<1>5. Written(cst[c], Append(line, Head(wire[c])), Tail(wire[c]))
  BY <1>1, WireRead
<1>6. QueueOK'
  <2>1. QueueOK /\ \A i \in 1..Len(backlog) : backlog[i] \in Clients_seqnum \ {c}
    BY <1>1 DEF SeqNumInv, QueueOK
  <2> QED BY <1>2, <1>4, <2>1, Zenon DEF QueueOK
<1>7. ServingOK'
  BY <1>1, <1>2, <1>4, <1>5 DEF ServingOK
<1>8. GrantsOK'
  BY <1>2 DEF SeqNumInv, GrantsOK
<1>9. \A x \in Clients_seqnum : AnswerOK(x) => AnswerOK(x)'
  BY <1>2 DEF AnswerOK, Signed
<1> QED BY <1>1, <1>2, <1>4, <1>6, <1>7, <1>8, <1>9 DEF SeqNumInv

\* What the line says when it has been read.
LEMMA SeqLineRead ==
  ASSUME SeqNumConstants, SeqNumInv, LineRead
  PROVE  /\ cfd \in Clients_seqnum /\ cfd # None /\ answer[cfd] = None /\ cst[cfd] # "new"
         /\ len[cfd] \in Int /\ reqLen \in {0, len[cfd]}
         /\ (reqLen = len[cfd] \/ cst[cfd] = "killed") /\ (end[cfd] => cst[cfd] = "killed")
         /\ \A j \in 1..Len(backlog) : backlog[j] # cfd
<1>1. /\ cfd \in Clients_seqnum /\ cfd # None /\ answer[cfd] = None /\ cst[cfd] # "new"
      /\ len[cfd] \in Int /\ Written(cst[cfd], line, wire[cfd])
      /\ \A j \in 1..Len(backlog) : backlog[j] # cfd
  BY Zenon DEF SeqNumConstants, SeqNumInv, LineRead, ServingOK, QueueOK
<1>2. end[cfd] => cst[cfd] = "killed"
  BY <1>1 DEF SeqNumInv
<1>3. reqLen \in {0, len[cfd]}
  BY DEF reqLen
<1>4. CASE end[cfd]
  BY <1>1, <1>2, <1>3, <1>4
<1>5. CASE ~end[cfd]
  <2>1. line # <<>> /\ line[Len(line)] = "nl"
    BY <1>5 DEF LineRead
  <2>2. line = <<"len", "nl">>
    BY <1>1, <2>1 DEF Written
  <2>3. reqLen = len[cfd]
    BY <2>2 DEF reqLen
  <2> QED BY <1>1, <1>2, <1>3, <2>3
<1> QED BY <1>4, <1>5

\* The server refuses a request.
LEMMA SeqRefuseInv ==
  ASSUME SeqNumConstants, SeqNumInv, Refuse
  PROVE  SeqNumInv'
<1>1. /\ UNCHANGED <<cst, len, wire, end, backlog, seqNum, grants>> /\ reqLen <= 0
      /\ answer' = [answer EXCEPT ![cfd] = <<>>] /\ cfd' = None /\ line' = <<>> /\ LineRead
  BY DEF Refuse
<1>2. PICK c \in Clients_seqnum :
        /\ c = cfd /\ answer[c] = None /\ cst[c] # "new" /\ (len[c] <= 0 \/ cst[c] = "killed")
        /\ \A j \in 1..Len(backlog) : backlog[j] # c
  BY <1>1, SeqLineRead
<1>3. <<>> \in Seq(Int)
  OBVIOUS
<1>4. /\ answer' \in [Clients_seqnum -> Seq(Int) \cup {None}] /\ answer'[c] = <<>>
      /\ \A x \in Clients_seqnum \ {c} : answer'[x] = answer[x]
  BY <1>1, <1>2, <1>3 DEF SeqNumInv
<1>5. QueueOK'
  <2>1. QueueOK /\ \A i \in 1..Len(backlog) : backlog[i] \in Clients_seqnum \ {c}
    BY <1>2 DEF SeqNumInv, QueueOK
  <2> QED BY <1>1, <1>4, <2>1 DEF QueueOK, SeqNumConstants
<1>6. ServingOK'
  BY <1>1 DEF ServingOK
<1>7. GrantsOK'
  <2>1. GrantsOK
    BY DEF SeqNumInv
  <2>2. \A i \in 1..Len(grants) : grants[i][1] # cfd'
    BY <1>1, <2>1, SMTT(30) DEF GrantsOK, SeqNumConstants
  <2> QED BY <1>1, <2>1, <2>2 DEF GrantsOK
<1>8. \A x \in Clients_seqnum \ {c} : AnswerOK(x) => AnswerOK(x)'
  BY <1>1, <1>4, Zenon DEF AnswerOK, Signed
<1>9. AnswerOK(c)'
  BY <1>1, <1>2, <1>4 DEF AnswerOK
<1>10. \A x \in Clients_seqnum :
         /\ cst'[x] = "new" => answer'[x] = None /\ wire'[x] = <<>>
         /\ end'[x] => cst'[x] \in {"done", "killed"}
         /\ cst'[x] = "done" => answer'[x] # None
         /\ answer'[x] # None => AnswerOK(x)'
  <2>1. CASE \E x \in Clients_seqnum : x = c /\ cst[c] = "done"
    BY <1>2, <2>1 DEF SeqNumInv
  <2>2. CASE cst[c] # "done"
    BY <1>1, <1>2, <1>4, <1>8, <1>9, <2>2 DEF SeqNumInv
  <2> QED BY <2>1, <2>2
<1> QED BY <1>1, <1>4, <1>5, <1>6, <1>7, <1>10 DEF SeqNumInv

\* The server executes a request.
LEMMA SeqGrantInv ==
  ASSUME SeqNumConstants, SeqNumInv, Grant
  PROVE  SeqNumInv'
<1> DEFINE n == seqNum
           L == reqLen
<1>1. /\ UNCHANGED <<cst, len, wire, end, backlog>> /\ L > 0 /\ LineRead
      /\ answer' = [answer EXCEPT ![cfd] = IF end[cfd] THEN @ ELSE <<Signed(n)>>]
      /\ grants' = Append(grants, <<cfd, n, L>>) /\ seqNum' = (n + L) % Modulus
      /\ cfd' = None /\ line' = <<>>
  BY DEF Grant, GrantAs
<1>2. PICK c \in Clients_seqnum :
        /\ c = cfd /\ answer[c] = None /\ cst[c] # "new" /\ L = len[c] /\ len[c] \in Int
        /\ (end[c] => cst[c] = "killed") /\ \A j \in 1..Len(backlog) : backlog[j] # c
  BY <1>1, SeqLineRead
<1>3. /\ n \in Int /\ L \in Int /\ Modulus \in Nat \ {0} /\ seqNum' \in Int
      /\ Signed(n) \in Int /\ <<Signed(n)>> \in Seq(Int)
  <2>1. n \in Int /\ L \in Int /\ Modulus \in Nat \ {0}
    BY <1>2 DEF SeqNumInv, SeqNumConstants
  <2>2. Signed(n) \in Int
    BY <2>1 DEF Signed
  <2>3. seqNum' \in Int
    BY <1>1, <2>1
  <2> HIDE DEF n, L
  <2> QED BY <2>1, <2>2, <2>3
<1>4. /\ answer' \in [Clients_seqnum -> Seq(Int) \cup {None}]
      /\ answer'[c] = (IF end[c] THEN None ELSE <<Signed(n)>>)
      /\ \A x \in Clients_seqnum \ {c} : answer'[x] = answer[x]
  BY <1>1, <1>2, <1>3 DEF SeqNumInv
<1> HIDE DEF n, L
<1>5. QueueOK'
  <2>1. QueueOK /\ \A i \in 1..Len(backlog) : backlog[i] \in Clients_seqnum \ {c}
    BY <1>2 DEF SeqNumInv, QueueOK
  <2> QED BY <1>1, <1>4, <2>1 DEF QueueOK, SeqNumConstants
<1>6. ServingOK'
  BY <1>1 DEF ServingOK
<1>7. GrantsOK
  BY DEF SeqNumInv
<1>8. /\ grants' \in Seq(Clients_seqnum \X Int \X Int) /\ Len(grants) \in Nat
      /\ Len(grants') = Len(grants) + 1 /\ grants'[Len(grants) + 1] = <<c, n, L>>
      /\ \A i \in 1..Len(grants) : grants'[i] = grants[i]
  BY <1>1, <1>2, <1>3, <1>7, SMTT(60) DEF GrantsOK
<1>9. \A k \in Nat : /\ \A i \in 1..(k + 1) : i \in 1..k \/ i = k + 1
                     /\ \A i \in 1..k : (i \in 1..(k - 1) /\ i + 1 \in 1..k) \/ i = k
                     /\ k + 1 \in 1..(k + 1) /\ (k + 1) - 1 = k
  OBVIOUS
<1>10. GrantsOK'
  <2>1. \A i \in 1..(Len(grants') - 1) :
          grants'[i + 1][2] = (grants'[i][2] + grants'[i][3]) % Modulus
    <3>1. ASSUME NEW i \in 1..Len(grants)
          PROVE  grants'[i + 1][2] = (grants'[i][2] + grants'[i][3]) % Modulus
      <4>1. CASE i \in 1..(Len(grants) - 1) /\ i + 1 \in 1..Len(grants)
        BY <1>7, <1>8, <4>1, Zenon DEF GrantsOK
      <4>2. CASE i = Len(grants)
        <5>1. grants # <<>> /\ n = (grants[i][2] + grants[i][3]) % Modulus
          BY <1>7, <4>2 DEF GrantsOK, n
        <5>2. grants'[i + 1][2] = n /\ grants'[i] = grants[i]
          BY <1>8, <4>2
        <5> QED BY <5>1, <5>2
      <4> QED BY <1>8, <1>9, <4>1, <4>2
    <3> QED BY <1>8, <1>9, <3>1
  <2>2. seqNum' = (grants'[Len(grants')][2] + grants'[Len(grants')][3]) % Modulus
    BY <1>1, <1>8
  <2>3. \A i \in 1..Len(grants) : grants[i][1] # c
    BY <1>2, <1>7 DEF GrantsOK
  <2>4. \A i, j \in 1..Len(grants') : grants'[i][1] = grants'[j][1] => i = j
    <3>1. \A i \in 1..Len(grants') : \/ i \in 1..Len(grants) /\ grants'[i] = grants[i]
                                     \/ i = Len(grants) + 1 /\ grants'[i][1] = c
      BY <1>8, <1>9, SMTT(60)
    <3> QED BY <1>7, <2>3, <3>1, Zenon DEF GrantsOK
  <2>5. \A i \in 1..Len(grants') :
          /\ grants'[i][1] # cfd' /\ cst'[grants'[i][1]] # "new"
          /\ \A j \in 1..Len(backlog') : backlog'[j] # grants'[i][1]
    <3>1. \A i \in 1..Len(grants') :
            /\ grants'[i][1] \in Clients_seqnum /\ cst[grants'[i][1]] # "new"
            /\ \A j \in 1..Len(backlog) : backlog[j] # grants'[i][1]
      <4>1. ASSUME NEW i \in 1..Len(grants)
            PROVE  /\ grants[i][1] \in Clients_seqnum /\ cst[grants[i][1]] # "new"
                   /\ \A j \in 1..Len(backlog) : backlog[j] # grants[i][1]
        BY <1>7 DEF GrantsOK
      <4>2. \A i \in 1..Len(grants') : \/ i \in 1..Len(grants) /\ grants'[i] = grants[i]
                                       \/ grants'[i][1] = c
        BY <1>8, <1>9, SMTT(60)
      <4> QED BY <1>2, <4>1, <4>2
    <3> QED BY <1>1, <3>1 DEF SeqNumConstants
  <2> QED BY <1>8, <2>1, <2>2, <2>4, <2>5 DEF GrantsOK
<1>11. \A x \in Clients_seqnum \ {c} : AnswerOK(x) => AnswerOK(x)'
  <2> SUFFICES ASSUME NEW x \in Clients_seqnum \ {c}, AnswerOK(x) PROVE AnswerOK(x)'
    OBVIOUS
  <2>1. answer'[x] = answer[x] /\ cst'[x] = cst[x] /\ len'[x] = len[x]
    BY <1>1, <1>4
  <2>2. CASE \E i \in 1..Len(grants) :
               grants[i] = <<x, grants[i][2], len[x]>> /\ answer[x] = <<Signed(grants[i][2])>>
    <3>1. PICK i \in 1..Len(grants) :
            grants[i] = <<x, grants[i][2], len[x]>> /\ answer[x] = <<Signed(grants[i][2])>>
      BY <2>2
    <3>2. i \in 1..Len(grants') /\ grants'[i] = grants[i]
      BY <1>8, SMTT(60)
    <3> QED BY <2>1, <3>1, <3>2, SMTT(60) DEF AnswerOK, Signed
  <2>3. CASE cst[x] = "killed" \/ (answer[x] = <<>> /\ len[x] <= 0)
    BY <2>1, <2>3 DEF AnswerOK
  <2> QED BY <2>2, <2>3 DEF AnswerOK
<1>12. answer'[c] # None => AnswerOK(c)'
  <2>1. CASE end[c]
    BY <1>4, <2>1
  <2>2. CASE ~end[c]
    <3>1. Len(grants) + 1 \in 1..Len(grants')
      BY <1>8, <1>9
    <3>2. /\ grants'[Len(grants) + 1] = <<c, grants'[Len(grants) + 1][2], len'[c]>>
          /\ answer'[c] = <<Signed(grants'[Len(grants) + 1][2])>>
      BY <1>1, <1>2, <1>4, <1>8, <2>2
    <3> QED BY <3>1, <3>2 DEF AnswerOK, Signed
  <2> QED BY <2>1, <2>2
<1>13. \A x \in Clients_seqnum :
         /\ cst'[x] = "new" => answer'[x] = None /\ wire'[x] = <<>>
         /\ end'[x] => cst'[x] \in {"done", "killed"}
         /\ cst'[x] = "done" => answer'[x] # None
         /\ answer'[x] # None => AnswerOK(x)'
  <2>1. cst[c] # "done"
    BY <1>2 DEF SeqNumInv
  <2> QED BY <1>1, <1>2, <1>4, <1>11, <1>12, <2>1 DEF SeqNumInv
<1> QED BY <1>1, <1>3, <1>4, <1>5, <1>6, <1>10, <1>13 DEF SeqNumInv

\* is_seqnum_sv and its variants: the numbers handed out follow each other
\* without overlap, and a client that ends prints the number reserved for it,
\* for any number of clients and lengths, killed clients included.
THEOREM NumbersAlwaysFollow == SeqNumConstants => (Spec_seqnum => []NumbersFollow)
<1> SUFFICES ASSUME SeqNumConstants PROVE Spec_seqnum => []NumbersFollow
  OBVIOUS
<1>1. Init_seqnum => SeqNumInv
  BY DEF Init_seqnum, SeqNumInv, SeqNumConstants, QueueOK, ServingOK, GrantsOK
<1>2. SeqNumInv /\ [Next_seqnum]_vars_seqnum => SeqNumInv'
  <2> SUFFICES ASSUME SeqNumInv, [Next_seqnum]_vars_seqnum PROVE SeqNumInv'
    BY SMTT(60)
  <2>1. CASE UNCHANGED vars_seqnum
    BY <2>1, ZenonT(30) DEF vars_seqnum, SeqNumInv, QueueOK, ServingOK, GrantsOK, AnswerOK, Signed
  <2>2. CASE \E c \in Clients_seqnum : Client_seqnum(c) \/ Killed(c)
    BY <2>2, SeqClientInv, SeqConnectInv
       DEF Client_seqnum, is_seqnum_cl, is_seqnum_v2_cl, is_seqnum_cl_59_2
  <2>3. CASE Server_seqnum
    BY <2>3, SeqAcceptInv, SeqReadInv, SeqRefuseInv, SeqGrantInv
       DEF Server_seqnum, is_seqnum_sv, is_seqnum_v2_sv, is_seqnum_sv_59_2
  <2> QED BY <2>1, <2>2, <2>3 DEF Next_seqnum
<1>3. SeqNumInv => NumbersFollow
  <2> SUFFICES ASSUME SeqNumInv PROVE NumbersFollow
    OBVIOUS
  <2>1. GrantsOK /\ DOMAIN grants = 1..Len(grants)
    BY DEF SeqNumInv, GrantsOK
  <2>2. \A c \in Clients_seqnum : cst[c] = "done" => AnswerOK(c)
    BY DEF SeqNumInv
  <2> QED BY <2>1, <2>2, Zenon DEF GrantsOK, AnswerOK, NumbersFollow
<1> QED BY <1>1, <1>2, <1>3, PTL DEF Spec_seqnum

-----------------------------------------------------------------------------
(* The datagram servers                                                    *)

\* Lengths are numbers.
UcaseConstants == Lens_ucase \subseteq Int /\ BUF_SIZE \in Int

\* A client with a message that it has read no answer to.
Open(c) == cst[c] \in {"recv", "killed"}
Case == IF kind = "id_echo" THEN "lower" ELSE "upper"
Datagrams == Clients_ucase \X Nat \X Int \X {"lower", "upper"}

\* The latest message of a client is in one place at most: in the server's
\* queue, in its buffer, or as an answer in the client's own queue.
Latest(m) ==
  /\ m[1] \in Clients_ucase /\ m = <<m[1], sent[m[1]], len[m[1]], "lower">>
  /\ Open(m[1]) /\ cq[m[1]] = <<>>
RequestsQueued ==
  /\ sq \in Seq(Datagrams)
  /\ \A i, j \in 1..Len(sq) : sq[i][1] = sq[j][1] => i = j
  /\ \A i \in 1..Len(sq) : Latest(sq[i])
RequestHeld ==
  sbuf # None => \E c \in Clients_ucase :
    /\ sbuf = Cut(<<c, sent[c], len[c], "lower">>) /\ Open(c) /\ cq[c] = <<>>
    /\ \A i \in 1..Len(sq) : sq[i][1] # c
AnswerQueued(c) ==
  cq[c] # <<>> => Open(c) /\ cq[c] = <<Cut(<<c, sent[c], len[c], Case>>)>>
AnswersPrinted(c) ==
  /\ Len(got[c]) = IF Open(c) THEN sent[c] - 1 ELSE sent[c]
  /\ \A k \in 1..Len(got[c]) : got[c][k] = Cut(<<c, k, len[c], Case>>)

UcaseTypes ==
  /\ kind \in {"ud_ucase", "i6d_ucase", "id_echo"} /\ len \in [Clients_ucase -> Lens_ucase]
  /\ cst \in [Clients_ucase -> {"send", "recv", "done", "failed", "killed"}]
  /\ sent \in [Clients_ucase -> Nat]
  /\ cq \in [Clients_ucase -> Seq(Datagrams)] /\ got \in [Clients_ucase -> Seq(Datagrams)]

\* The inductive invariant for OwnAnswers.
UcaseInv ==
  /\ UcaseTypes /\ RequestsQueued /\ RequestHeld
  /\ \A c \in Clients_ucase : AnswerQueued(c) /\ AnswersPrinted(c)

\* Four values in their order.
LEMMA Quadruple ==
  ASSUME NEW S, NEW a \in S, NEW b \in S, NEW l \in S, NEW d \in S
  PROVE  /\ <<a, b, l, d>> \in [1..4 -> S]
         /\ \A r \in [1..4 -> S] :
              r[1] = a /\ r[2] = b /\ r[3] = l /\ r[4] = d => r = <<a, b, l, d>>
<1> DEFINE t == <<a, b, l, d>>
<1>1. t \in Seq(S) /\ Len(t) = 4 /\ t[1] = a /\ t[2] = b /\ t[3] = l /\ t[4] = d
  OBVIOUS
<1>2. \A i \in 1..4 : i = 1 \/ i = 2 \/ i = 3 \/ i = 4
  OBVIOUS
<1> HIDE DEF t
<1>3. t \in [1..4 -> S]
  BY <1>1
<1>4. ASSUME NEW r \in [1..4 -> S], r[1] = a, r[2] = b, r[3] = l, r[4] = d PROVE r = t
  BY <1>1, <1>2, <1>3, <1>4
<1> QED BY <1>3, <1>4 DEF t

\* One of them changed.
LEMMA Changed ==
  ASSUME NEW a, NEW b, NEW l, NEW d, NEW n, NEW h
  PROVE  /\ [<<a, b, l, d>> EXCEPT ![4] = h] = <<a, b, l, h>>
         /\ [<<a, b, l, d>> EXCEPT ![3] = n] = <<a, b, n, d>>
<1> DEFINE S == {a, b, l, d, h, n}
           t == <<a, b, l, d>>
<1>1. a \in S /\ b \in S /\ l \in S /\ d \in S /\ h \in S /\ n \in S
  OBVIOUS
<1>2. t[1] = a /\ t[2] = b /\ t[3] = l /\ t[4] = d
  OBVIOUS
<1> HIDE DEF S
<1>3. t \in [1..4 -> S]
  BY <1>1, Quadruple
<1> HIDE DEF t
<1>4. [t EXCEPT ![4] = h] \in [1..4 -> S] /\ [t EXCEPT ![3] = n] \in [1..4 -> S]
  BY <1>1, <1>3
<1>5. PICK r \in [1..4 -> S], q \in [1..4 -> S] :
        r = [t EXCEPT ![4] = h] /\ q = [t EXCEPT ![3] = n]
  BY <1>4, Zenon
<1>6. /\ r[1] = a /\ r[2] = b /\ r[3] = l /\ r[4] = h
      /\ q[1] = a /\ q[2] = b /\ q[3] = n /\ q[4] = d
  BY <1>2, <1>3, <1>5
<1>7. r = <<a, b, l, h>> /\ q = <<a, b, n, d>>
  BY <1>1, <1>6, Quadruple
<1> QED BY <1>5, <1>7 DEF t

\* What BUF_SIZE leaves of a length,
Short(l) == IF l > BUF_SIZE THEN BUF_SIZE ELSE l

\* and so of a datagram.
LEMMA CutIs ==
  ASSUME NEW c, NEW n, NEW l, NEW h
  PROVE  Cut(<<c, n, l, h>>) = <<c, n, Short(l), h>>
<1> DEFINE t == <<c, n, l, h>>
<1>1. t[3] = l
  OBVIOUS
<1>2. Cut(t) = [t EXCEPT ![3] = Short(l)]
  <2> HIDE DEF t
  <2> QED BY <1>1 DEF Cut, Short
<1> QED BY <1>2, Changed

\* It is a datagram of the same client, and cut again it is the same.
LEMMA CutTwice ==
  ASSUME UcaseConstants, NEW c \in Clients_ucase, NEW n \in Nat, NEW l \in Lens_ucase,
         NEW h \in {"lower", "upper"}, NEW m, m = Cut(<<c, n, l, h>>)
  PROVE  m \in Datagrams /\ m[1] = c /\ Cut(m) = m
<1>1. Short(Short(l)) = Short(l) /\ Short(l) \in Int
  BY DEF UcaseConstants, Short
<1>2. m = <<c, n, Short(l), h>>
  BY CutIs
<1>3. Cut(<<c, n, Short(l), h>>) = <<c, n, Short(Short(l)), h>>
  BY CutIs
<1> QED BY <1>1, <1>2, <1>3 DEF Datagrams

\* Its letters may be turned to capitals before or after.
LEMMA CutCase ==
  ASSUME NEW c, NEW n, NEW l, NEW h, NEW g, NEW m, m = Cut(<<c, n, l, h>>)
  PROVE  [m EXCEPT ![4] = g] = Cut(<<c, n, l, g>>)
<1>1. m = <<c, n, Short(l), h>> /\ Cut(<<c, n, l, g>>) = <<c, n, Short(l), g>>
  BY CutIs
<1>2. [<<c, n, Short(l), h>> EXCEPT ![4] = g] = <<c, n, Short(l), g>>
  BY Changed
<1> QED BY <1>1, <1>2, Zenon

\* A message that is cut is still its client's.
LEMMA CutClient ==
  ASSUME NEW c, NEW n, NEW l, NEW h, NEW m, m = Cut(<<c, n, l, h>>)
  PROVE  m[1] = c
<1>1. m = <<c, n, Short(l), h>>
  BY CutIs
<1> QED BY <1>1

\* A queue whose first element is taken.
LEMMA Dequeued ==
  ASSUME NEW S, NEW q \in Seq(S), q # <<>>
  PROVE  /\ Len(q) \in Nat /\ 1 \in 1..Len(q) /\ Head(q) = q[1] /\ Head(q) \in S
         /\ Tail(q) \in Seq(S) /\ Len(Tail(q)) = Len(q) - 1
         /\ \A i \in 1..Len(Tail(q)) : Tail(q)[i] = q[i + 1] /\ i + 1 \in 1..Len(q) /\ i + 1 # 1
         /\ \A i, j \in 1..Len(Tail(q)) : i + 1 = j + 1 => i = j
<1>1. Len(q) \in Nat /\ Len(q) >= 1 /\ Len(Tail(q)) = Len(q) - 1
  OBVIOUS
<1>2. /\ 1 \in 1..Len(q)
      /\ \A i \in 1..Len(Tail(q)) : i \in Nat /\ i + 1 \in 1..Len(q) /\ i + 1 # 1
  BY <1>1
<1>3. \A i, j \in Nat : i + 1 = j + 1 => i = j
  OBVIOUS
<1>4. Tail(q) \in Seq(S) /\ Head(q) = q[1] /\ Head(q) \in S
  BY <1>1, <1>2
<1>5. \A i \in 1..Len(Tail(q)) : Tail(q)[i] = q[i + 1]
  BY <1>1, <1>2
<1> QED BY <1>1, <1>2, <1>3, <1>4, <1>5

\* A step that opens or closes no client and moves no datagram.
LEMMA UcaseSame ==
  ASSUME UcaseInv, UNCHANGED <<kind, sbuf, sq, len, sent, cq, got>>,
         cst' \in [Clients_ucase -> {"send", "recv", "done", "failed", "killed"}],
         \A c \in Clients_ucase : Open(c)' <=> Open(c)
  PROVE  UcaseInv'
<1>1. UcaseTypes'
  BY DEF UcaseInv, UcaseTypes
<1>2. Case' = Case /\ \A m : Cut(m)' = Cut(m)
  BY DEF Case, Cut
<1> HIDE DEF Case
<1>3. RequestsQueued'
  <2>1. \A i \in 1..Len(sq) : Latest(sq[i])'
    BY DEF UcaseInv, RequestsQueued, Latest
  <2> QED BY <2>1 DEF UcaseInv, RequestsQueued
<1>4. RequestHeld'
  BY DEF UcaseInv, RequestHeld, Cut
<1>5. \A c \in Clients_ucase : AnswerQueued(c)' /\ AnswersPrinted(c)'
  BY <1>2, SMTT(60) DEF UcaseInv, AnswerQueued, AnswersPrinted, Cut
<1> QED BY <1>1, <1>3, <1>4, <1>5 DEF UcaseInv

\* A client sends its next message.
LEMMA UcaseSendInv ==
  ASSUME UcaseConstants, UcaseInv, NEW c \in Clients_ucase, sendto(c)
  PROVE  UcaseInv'
<1> DEFINE n == sent[c] + 1
<1>0. n \in Nat /\ n - 1 = sent[c] /\ len[c] \in Int
  <2>1. sent[c] \in Nat /\ len[c] \in Int
    BY Zenon DEF UcaseInv, UcaseTypes, UcaseConstants
  <2> QED BY <2>1
<1> HIDE DEF n
<1>1. PICK m \in Datagrams : m = <<c, n, len[c], "lower">> /\ m[1] = c
  <2>1. <<c, n, len[c], "lower">> \in Datagrams /\ <<c, n, len[c], "lower">>[1] = c
    BY <1>0 DEF Datagrams
  <2> QED BY <2>1
<1>2. /\ cst[c] = "send" /\ sent' = [sent EXCEPT ![c] = n] /\ cst' = [cst EXCEPT ![c] = "recv"]
      /\ sq' = Append(sq, m) /\ UNCHANGED <<kind, sbuf, len, cq, got>>
  BY <1>1 DEF sendto, n
<1>3. /\ UcaseTypes' /\ sent'[c] = n /\ cst'[c] = "recv"
      /\ \A x \in Clients_ucase \ {c} : sent'[x] = sent[x] /\ cst'[x] = cst[x]
  BY <1>0, <1>2 DEF UcaseInv, UcaseTypes
<1>4. /\ ~Open(c) /\ Open(c)' /\ cq[c] = <<>> /\ sent[c] \in Nat
      /\ \A x \in Clients_ucase \ {c} : Open(x)' <=> Open(x)
  BY <1>2, <1>3, ZenonT(30) DEF Open, UcaseInv, UcaseTypes, AnswerQueued
<1>5. /\ sq \in Seq(Datagrams) /\ Len(sq) \in Nat
      /\ \A i \in 1..Len(sq) : Latest(sq[i]) /\ sq[i][1] \in Clients_ucase \ {c}
  <2>1. sq \in Seq(Datagrams) /\ \A i \in 1..Len(sq) : Latest(sq[i])
    BY Zenon DEF UcaseInv, RequestsQueued
  <2>2. Len(sq) \in Nat
    BY <2>1
  <2>3. ASSUME NEW i \in 1..Len(sq) PROVE sq[i][1] \in Clients_ucase \ {c}
    <3>1. sq[i][1] \in Clients_ucase /\ Open(sq[i][1])
      BY <2>1, Zenon DEF Latest
    <3> QED BY <1>4, <3>1, Zenon
  <2> QED BY <2>1, <2>2, <2>3, Zenon
<1>6. /\ sq' \in Seq(Datagrams) /\ Len(sq') = Len(sq) + 1 /\ sq'[Len(sq) + 1] = m
      /\ \A i \in 1..Len(sq) : sq'[i] = sq[i]
      /\ \A i \in 1..(Len(sq) + 1) : i \in 1..Len(sq) \/ i = Len(sq) + 1
  <2>1. \A q \in Seq(Datagrams) :
          /\ Append(q, m) \in Seq(Datagrams) /\ Len(Append(q, m)) = Len(q) + 1
          /\ Append(q, m)[Len(q) + 1] = m /\ \A i \in 1..Len(q) : Append(q, m)[i] = q[i]
          /\ \A i \in 1..(Len(q) + 1) : i \in 1..Len(q) \/ i = Len(q) + 1
    OBVIOUS
  <2> QED BY <1>2, <1>5, <2>1, ZenonT(30)
<1>7. RequestsQueued'
  <2>1. ASSUME NEW i, i = Len(sq) + 1 PROVE Latest(sq[i])'
    BY <1>1, <1>2, <1>3, <1>4, <1>6, <2>1, ZenonT(60) DEF Latest
  <2>2. ASSUME NEW i \in 1..Len(sq) PROVE Latest(sq[i])'
    <3>1. Latest(sq[i]) /\ sq'[i] = sq[i]
      BY <1>5, <1>6, Zenon
    <3>2. PICK x \in Clients_ucase \ {c} : x = sq[i][1]
      BY <1>5, Zenon
    <3>3. sent'[x] = sent[x] /\ len' = len /\ cq' = cq /\ (Open(x)' <=> Open(x))
      BY <1>2, <1>3, <1>4, Zenon
    <3> QED BY <3>1, <3>2, <3>3, ZenonT(30) DEF Latest
  <2>3. \A i \in 1..Len(sq') : Latest(sq[i])'
    BY <1>6, <2>1, <2>2, ZenonT(30)
  <2>4. \A i, j \in 1..Len(sq') : sq'[i][1] = sq'[j][1] => i = j
    <3>1. ASSUME NEW i \in 1..Len(sq')
          PROVE  \/ i \in 1..Len(sq) /\ sq'[i] = sq[i] /\ sq[i][1] # c
                 \/ i = Len(sq) + 1 /\ sq'[i][1] = c
      <4>1. i \in 1..Len(sq) \/ i = Len(sq) + 1
        BY <1>6, Zenon
      <4> QED BY <1>1, <1>5, <1>6, <4>1, Zenon
    <3> QED BY <3>1, Zenon DEF UcaseInv, RequestsQueued
  <2> QED BY <1>6, <2>3, <2>4, SMTT(60) DEF RequestsQueued
<1>8. RequestHeld'
  <2> SUFFICES ASSUME sbuf # None PROVE RequestHeld'
    BY <1>2, ZenonT(30) DEF RequestHeld
  <2>1. PICK x \in Clients_ucase :
          /\ sbuf = Cut(<<x, sent[x], len[x], "lower">>) /\ Open(x) /\ cq[x] = <<>>
          /\ \A i \in 1..Len(sq) : sq[i][1] # x
    BY DEF UcaseInv, RequestHeld
  <2>2. x # c
    BY <1>4, <2>1
  <2>3. \A i \in 1..Len(sq') : sq'[i][1] # x
    BY <1>1, <1>6, <2>1, <2>2, ZenonT(30)
  <2> QED BY <1>2, <1>3, <1>4, <2>1, <2>2, <2>3, Zenon DEF RequestHeld, Cut
<1>9. \A x \in Clients_ucase : AnswerQueued(x)'
  <2>1. ASSUME NEW x \in Clients_ucase \ {c} PROVE AnswerQueued(x)'
    <3>1. AnswerQueued(x) /\ sent'[x] = sent[x] /\ (Open(x)' <=> Open(x))
      BY <1>3, <1>4, Zenon DEF UcaseInv
    <3>2. len' = len /\ cq' = cq /\ kind' = kind
      BY <1>2, Zenon
    <3> QED BY <3>1, <3>2, ZenonT(30) DEF AnswerQueued, Case, Cut
  <2>2. AnswerQueued(c)'
    BY <1>2, <1>4, Zenon DEF AnswerQueued
  <2> QED BY <2>1, <2>2, Zenon
<1>10. ASSUME NEW x \in Clients_ucase \ {c} PROVE AnswersPrinted(x)'
  <2>1. AnswersPrinted(x) /\ sent'[x] = sent[x] /\ (Open(x)' <=> Open(x))
    BY <1>3, <1>4, Zenon DEF UcaseInv
  <2>2. len' = len /\ got' = got /\ kind' = kind
    BY <1>2, Zenon
  <2> QED BY <2>1, <2>2 DEF AnswersPrinted, Case, Cut
<1>11. AnswersPrinted(c)'
  <2>1. Len(got[c]) = sent[c] /\ n - 1 = sent[c]
    BY <1>0, <1>4, Zenon DEF UcaseInv, AnswersPrinted
  <2> QED BY <1>2, <1>3, <1>4, <2>1, ZenonT(60) DEF UcaseInv, AnswersPrinted, Case, Cut
<1> QED BY <1>3, <1>7, <1>8, <1>9, <1>10, <1>11 DEF UcaseInv

\* A client reads its answer and cuts it.
LEMMA UcaseRecvInv ==
  ASSUME UcaseConstants, UcaseInv, NEW c \in Clients_ucase, recvfrom(c)
  PROVE  UcaseInv'
<1>1. /\ cst[c] = "recv" /\ cq[c] # <<>> /\ cst' = [cst EXCEPT ![c] = "send"]
      /\ got' = [got EXCEPT ![c] = Append(got[c], Cut(Head(cq[c])))]
      /\ cq' = [cq EXCEPT ![c] = Tail(cq[c])] /\ UNCHANGED <<kind, sbuf, sq, len, sent>>
  BY DEF recvfrom
<1>2. /\ sent[c] \in Nat /\ len[c] \in Lens_ucase /\ Case \in {"lower", "upper"} /\ Case' = Case
      /\ got[c] \in Seq(Datagrams)
  BY <1>1 DEF UcaseInv, UcaseTypes, Case
<1>3. PICK m \in Datagrams : /\ m = Cut(<<c, sent[c], len[c], Case>>) /\ Cut(m) = m
                             /\ cq[c] = <<m>>
  <2>1. cq[c] = <<Cut(<<c, sent[c], len[c], Case>>)>>
    BY <1>1 DEF UcaseInv, AnswerQueued
  <2>2. PICK n \in Nat, l \in Lens_ucase, h \in {"lower", "upper"} :
          n = sent[c] /\ l = len[c] /\ h = Case
    BY <1>2
  <2>3. PICK m : m = Cut(<<c, n, l, h>>)
    OBVIOUS
  <2>4. m \in Datagrams /\ Cut(m) = m
    BY <2>3, CutTwice, Zenon
  <2> QED BY <2>1, <2>2, <2>3, <2>4
<1>4. Head(cq[c]) = m /\ Tail(cq[c]) = <<>> /\ <<>> \in Seq(Datagrams)
  BY <1>3
<1>5. /\ Append(got[c], m) \in Seq(Datagrams) /\ got' = [got EXCEPT ![c] = Append(got[c], m)]
      /\ cq' = [cq EXCEPT ![c] = <<>>]
  <2>1. Cut(Head(cq[c])) = m
    BY <1>3, <1>4
  <2>2. Append(got[c], m) \in Seq(Datagrams)
    BY <1>2
  <2> QED BY <1>1, <1>4, <2>1, <2>2, Zenon
<1>6. /\ UcaseTypes' /\ cq'[c] = <<>> /\ got'[c] = Append(got[c], m) /\ cst'[c] = "send"
      /\ \A x \in Clients_ucase \ {c} : cst'[x] = cst[x] /\ cq'[x] = cq[x] /\ got'[x] = got[x]
  BY <1>1, <1>4, <1>5 DEF UcaseInv, UcaseTypes
<1>7. Open(c) /\ ~Open(c)' /\ \A x \in Clients_ucase \ {c} : Open(x)' <=> Open(x)
  BY <1>1, <1>6 DEF Open
<1>8. RequestsQueued'
  <2>1. \A i \in 1..Len(sq) : sq[i][1] \in Clients_ucase \ {c}
    BY <1>1, SMTT(60) DEF UcaseInv, RequestsQueued, Latest
  <2>2. ASSUME NEW i \in 1..Len(sq) PROVE Latest(sq[i])'
    <3>1. Latest(sq[i])
      BY DEF UcaseInv, RequestsQueued
    <3>2. PICK x \in Clients_ucase \ {c} : x = sq[i][1]
      BY <2>1, Zenon
    <3>3. sq' = sq /\ sent' = sent /\ len' = len
      BY <1>1
    <3> QED BY <1>6, <1>7, <3>1, <3>2, <3>3, ZenonT(30) DEF Latest
  <2> QED BY <1>1, <2>2, SMTT(60) DEF UcaseInv, RequestsQueued
<1>9. RequestHeld'
  <2> SUFFICES ASSUME sbuf # None PROVE RequestHeld'
    BY <1>1, ZenonT(60) DEF RequestHeld
  <2>1. PICK x \in Clients_ucase :
          /\ sbuf = Cut(<<x, sent[x], len[x], "lower">>) /\ Open(x) /\ cq[x] = <<>>
          /\ \A i \in 1..Len(sq) : sq[i][1] # x
    BY DEF UcaseInv, RequestHeld
  <2>2. x # c
    BY <1>1, <2>1, Zenon
  <2> QED BY <1>1, <1>6, <1>7, <2>1, <2>2, Zenon DEF RequestHeld, Cut
<1>10. ASSUME NEW x \in Clients_ucase \ {c} PROVE AnswerQueued(x)' /\ AnswersPrinted(x)'
  <2>1. AnswerQueued(x) /\ AnswersPrinted(x)
    BY SMTT(60) DEF UcaseInv
  <2>2. /\ cq'[x] = cq[x] /\ got'[x] = got[x] /\ sent'[x] = sent[x] /\ len'[x] = len[x]
        /\ (Open(x)' <=> Open(x))
    BY <1>1, <1>6, <1>7
  <2>3. AnswerQueued(x)'
    BY <1>2, <2>1, <2>2, SMTT(60) DEF AnswerQueued, Cut
  <2>4. AnswersPrinted(x)'
    BY <1>2, <2>1, <2>2, SMTT(60) DEF AnswersPrinted, Cut
  <2> QED BY <2>3, <2>4
<1>11. AnswerQueued(c)'
  BY <1>6, SMTT(60) DEF AnswerQueued
<1>12. AnswersPrinted(c)'
  <2>1. /\ Len(got[c]) = sent[c] - 1
        /\ \A k \in 1..Len(got[c]) : got[c][k] = Cut(<<c, k, len[c], Case>>)
    BY <1>7, SMTT(60) DEF UcaseInv, AnswersPrinted
  <2>2. /\ Len(got'[c]) = sent[c] /\ got'[c][sent[c]] = m
        /\ \A k \in 1..Len(got[c]) : got'[c][k] = got[c][k]
        /\ \A k \in 1..sent[c] : k \in 1..Len(got[c]) \/ k = sent[c]
    <3>1. PICK g \in Seq(Datagrams), n \in Nat : g = got[c] /\ n = sent[c]
      BY <1>2, Zenon
    <3>2. Len(g) = n - 1 /\ got'[c] = Append(g, m)
      BY <1>6, <2>1, <3>1, Zenon
    <3>3. Len(Append(g, m)) = n /\ Append(g, m)[n] = m
      BY <3>2
    <3>4. /\ \A k \in 1..Len(g) : Append(g, m)[k] = g[k]
          /\ \A k \in 1..n : k \in 1..Len(g) \/ k = n
      BY <3>2
    <3> QED BY <3>1, <3>2, <3>3, <3>4, Zenon
  <2>3. \A k \in 1..sent[c] : got'[c][k] = Cut(<<c, k, len[c], Case>>)
    BY <1>3, <2>1, <2>2, ZenonT(30)
  <2> QED BY <1>1, <1>2, <1>7, <2>2, <2>3, ZenonT(30) DEF AnswersPrinted, Cut
<1> QED BY <1>6, <1>8, <1>9, <1>10, <1>11, <1>12 DEF UcaseInv

\* The datagram at the head of the server's queue is taken away.
LEMMA UcaseDequeue ==
  ASSUME UcaseInv, sq # <<>>, sq' = Tail(sq), UNCHANGED <<kind, len, cst, sent, cq, got>>
  PROVE  /\ UcaseTypes' /\ RequestsQueued' /\ Latest(sq[1])
         /\ \A c \in Clients_ucase : AnswerQueued(c)' /\ AnswersPrinted(c)'
         /\ \A i \in 1..Len(sq') : \E j \in 1..Len(sq) : j # 1 /\ sq'[i] = sq[j]
         /\ \A i \in 1..Len(sq') : sq'[i][1] # sq[1][1]
<1>1. /\ sq \in Seq(Datagrams) /\ (\A i \in 1..Len(sq) : Latest(sq[i]))
      /\ \A i, j \in 1..Len(sq) : sq[i][1] = sq[j][1] => i = j
  BY DEF UcaseInv, RequestsQueued
<1>2. /\ sq' \in Seq(Datagrams) /\ 1 \in 1..Len(sq)
      /\ \A i \in 1..Len(sq') : sq'[i] = sq[i + 1] /\ i + 1 \in 1..Len(sq) /\ i + 1 # 1
      /\ \A i, j \in 1..Len(sq') : i + 1 = j + 1 => i = j
  BY <1>1, Dequeued, SMTT(60)
<1>3. \A i \in 1..Len(sq') : Latest(sq[i])'
  BY <1>1, <1>2 DEF Latest, Open
<1>4. \A i, j \in 1..Len(sq') : sq'[i][1] = sq'[j][1] => i = j
  BY <1>1, <1>2
<1>5. UcaseTypes'
  BY SMTT(60) DEF UcaseInv, UcaseTypes
<1>6. \A c \in Clients_ucase : AnswerQueued(c)' /\ AnswersPrinted(c)'
  BY ZenonT(60) DEF UcaseInv, AnswerQueued, AnswersPrinted, Case, Open, Cut
<1>7. \A i \in 1..Len(sq') : sq'[i][1] # sq[1][1]
  BY <1>1, <1>2
<1> QED BY <1>1, <1>2, <1>3, <1>4, <1>5, <1>6, <1>7 DEF RequestsQueued

\* The server receives a datagram, and cuts it.
LEMMA UcaseReceiveInv ==
  ASSUME UcaseInv, Receive
  PROVE  UcaseInv'
<1>1. /\ sq # <<>> /\ sbuf' = Cut(Head(sq)) /\ sq' = Tail(sq)
      /\ UNCHANGED <<kind, len, cst, sent, cq, got>>
  BY DEF Receive
<1>2. /\ UcaseTypes' /\ RequestsQueued' /\ Latest(sq[1])
      /\ \A c \in Clients_ucase : AnswerQueued(c)' /\ AnswersPrinted(c)'
      /\ \A i \in 1..Len(sq') : sq'[i][1] # sq[1][1]
  BY <1>1, UcaseDequeue
<1>3. Head(sq) = sq[1]
  BY <1>1 DEF UcaseInv, RequestsQueued
<1>4. PICK c \in Clients_ucase :
        /\ sq[1] = <<c, sent[c], len[c], "lower">> /\ Open(c) /\ cq[c] = <<>>
        /\ \A i \in 1..Len(sq') : sq'[i][1] # c
  BY <1>2, SMTT(60) DEF Latest
<1>5. RequestHeld'
  BY <1>1, <1>3, <1>4, Zenon DEF RequestHeld, Open, Cut
<1> QED BY <1>2, <1>5 DEF UcaseInv

\* The server answers.
LEMMA UcaseAnswerInv ==
  ASSUME UcaseConstants, UcaseInv, Answer(Case)
  PROVE  UcaseInv'
<1>1. /\ sbuf # None /\ sbuf' = None /\ UNCHANGED <<kind, sq, len, cst, sent, got>>
      /\ \/ cq' = [cq EXCEPT ![sbuf[1]] = Append(cq[sbuf[1]], [sbuf EXCEPT ![4] = Case])]
         \/ cq' = cq
  BY DEF Answer, AnswerTo
<1>2. PICK c \in Clients_ucase :
        /\ sbuf = Cut(<<c, sent[c], len[c], "lower">>) /\ Open(c) /\ cq[c] = <<>>
        /\ \A i \in 1..Len(sq) : sq[i][1] # c
  BY <1>1 DEF UcaseInv, RequestHeld
<1>3. Case \in {"lower", "upper"} /\ Case' = Case /\ sent[c] \in Nat /\ len[c] \in Lens_ucase
  BY <1>1 DEF Case, UcaseInv, UcaseTypes
<1>4. PICK m \in Datagrams :
        /\ m = Cut(<<c, sent[c], len[c], Case>>) /\ [sbuf EXCEPT ![4] = Case] = m /\ sbuf[1] = c
  <2>1. PICK n \in Nat, l \in Lens_ucase, h \in {"lower", "upper"} :
          n = sent[c] /\ l = len[c] /\ h = Case
    BY <1>3
  <2>2. PICK m, b : m = Cut(<<c, n, l, h>>) /\ b = sbuf /\ b = Cut(<<c, n, l, "lower">>)
    BY <1>2, <2>1
  <2>3. m \in Datagrams
    BY <2>2, CutTwice, Zenon
  <2>5. b[1] = c
    BY <2>2, CutClient, Zenon
  <2>4. [b EXCEPT ![4] = h] = m
    BY <2>2, CutCase
  <2> QED BY <2>1, <2>2, <2>3, <2>4, <2>5
<1>5. /\ cq' \in [Clients_ucase -> Seq(Datagrams)] /\ (cq'[c] = <<m>> \/ cq'[c] = <<>>)
      /\ \A x \in Clients_ucase \ {c} : cq'[x] = cq[x]
  <2>1. Append(<<>>, m) = <<m>>
    BY AppendWord
  <2>2. <<m>> \in Seq(Datagrams)
    OBVIOUS
  <2>3. cq' = [cq EXCEPT ![c] = <<m>>] \/ cq' = cq
    BY <1>1, <1>2, <1>4, <2>1, ZenonT(60)
  <2> QED BY <1>2, <2>2, <2>3, Zenon DEF UcaseInv, UcaseTypes
<1>6. UcaseTypes' /\ RequestHeld'
  BY <1>1, <1>5, Zenon DEF UcaseInv, UcaseTypes, RequestHeld
<1>7. RequestsQueued'
  <2>1. \A i \in 1..Len(sq) : sq[i][1] \in Clients_ucase \ {c}
    BY <1>2, SMTT(60) DEF UcaseInv, RequestsQueued, Latest
  <2>2. \A i \in 1..Len(sq) : Latest(sq[i])'
    BY <1>1, <1>5, <2>1, ZenonT(60) DEF UcaseInv, RequestsQueued, Latest, Open
  <2> QED BY <1>1, <2>2, SMTT(60) DEF UcaseInv, RequestsQueued
<1>8. \A x \in Clients_ucase : AnswersPrinted(x)'
  BY <1>1, <1>3, SMTT(60) DEF UcaseInv, AnswersPrinted, Open, Cut
<1>9. \A x \in Clients_ucase \ {c} : AnswerQueued(x)'
  BY <1>1, <1>3, <1>5, ZenonT(30) DEF UcaseInv, AnswerQueued, Open, Cut
<1>10. AnswerQueued(c)'
  BY <1>1, <1>2, <1>3, <1>4, <1>5 DEF AnswerQueued, Open, Cut
<1> QED BY <1>6, <1>7, <1>8, <1>9, <1>10 DEF UcaseInv

\* A datagram is lost.
LEMMA UcaseLoseInv ==
  ASSUME UcaseInv, Lose
  PROVE  UcaseInv'
<1>1. UNCHANGED <<kind, sbuf, len, cst, sent, got>>
  BY DEF Lose
<1>2. CASE sq # <<>> /\ sq' = Tail(sq) /\ cq' = cq
  <2>1. /\ UcaseTypes' /\ RequestsQueued' /\ \A c \in Clients_ucase : AnswerQueued(c)' /\ AnswersPrinted(c)'
        /\ \A i \in 1..Len(sq') : \E j \in 1..Len(sq) : j # 1 /\ sq'[i] = sq[j]
    <3>1. UNCHANGED <<kind, len, cst, sent, cq, got>>
      BY <1>1, <1>2, SMTT(60)
    <3> QED BY <1>2, <3>1, UcaseDequeue, Zenon
  <2>2. RequestHeld'
    <3> SUFFICES ASSUME sbuf # None PROVE RequestHeld'
      BY <1>1, Zenon DEF RequestHeld
    <3>1. PICK c \in Clients_ucase :
            /\ sbuf = Cut(<<c, sent[c], len[c], "lower">>) /\ Open(c) /\ cq[c] = <<>>
            /\ \A i \in 1..Len(sq) : sq[i][1] # c
      BY Zenon DEF UcaseInv, RequestHeld
    <3>2. \A i \in 1..Len(sq') : sq'[i][1] # c
      BY <2>1, <3>1, Zenon
    <3>3. /\ sbuf' = sbuf /\ sent' = sent /\ len' = len /\ cq' = cq
          /\ (Open(c)' <=> Open(c))
      BY <1>1, <1>2 DEF Open
    <3> QED BY <3>1, <3>2, <3>3, Zenon DEF RequestHeld, Cut
  <2> QED BY <2>1, <2>2 DEF UcaseInv
<1>3. ASSUME NEW c \in Clients_ucase, cq[c] # <<>>, cq' = [cq EXCEPT ![c] = Tail(@)], sq' = sq
      PROVE  UcaseInv'
  <2>1. Tail(cq[c]) = <<>> /\ <<>> \in Seq(Datagrams)
    <3>1. \E m : cq[c] = <<m>>
      BY <1>3, Zenon DEF UcaseInv, AnswerQueued
    <3>2. \A m : Tail(<<m>>) = <<>>
      OBVIOUS
    <3> QED BY <3>1, <3>2
  <2>2. cq' = [cq EXCEPT ![c] = <<>>]
    BY <1>3, <2>1, Zenon
  <2>3. /\ cq' \in [Clients_ucase -> Seq(Datagrams)] /\ cq'[c] = <<>>
        /\ \A x \in Clients_ucase \ {c} : cq'[x] = cq[x]
    BY <2>1, <2>2 DEF UcaseInv, UcaseTypes
  <2>4. UcaseTypes'
    BY <1>1, <2>3, SMTT(60) DEF UcaseInv, UcaseTypes
  <2>5. RequestsQueued'
    <3>1. \A i \in 1..Len(sq) : Latest(sq[i])'
      BY <1>1, <1>3, <2>3, ZenonT(60) DEF UcaseInv, RequestsQueued, Latest, Open
    <3> QED BY <1>3, <3>1, SMTT(60) DEF UcaseInv, RequestsQueued
  <2>6. RequestHeld'
    BY <1>1, <1>3, <2>3, Zenon DEF UcaseInv, RequestHeld, Open, Cut
  <2>7. Case' = Case /\ \A x \in Clients_ucase : Open(x)' <=> Open(x)
    BY <1>1 DEF Case, Open
  <2>8. \A x \in Clients_ucase : AnswerQueued(x)'
    BY <1>1, <2>3, <2>7, ZenonT(30) DEF UcaseInv, AnswerQueued, Cut
  <2>9. \A x \in Clients_ucase : AnswersPrinted(x)'
    BY <1>1, <2>7 DEF UcaseInv, AnswersPrinted, Cut
  <2> QED BY <2>4, <2>5, <2>6, <2>8, <2>9 DEF UcaseInv
<1> QED BY <1>2, <1>3 DEF Lose

\* ud_ucase, i6d_ucase, id_echo: every answer that a client prints is the one
\* to its own message, in the order it sent them, for any number of clients,
\* messages, deaths and lost datagrams: since a client waits for each answer,
\* its loss never lets a later answer take its place.
THEOREM AnswersAlwaysOwn == UcaseConstants => (Spec_ucase => []OwnAnswers)
<1> SUFFICES ASSUME UcaseConstants PROVE Spec_ucase => []OwnAnswers
  OBVIOUS
<1>1. Init_ucase => UcaseInv
  <2> SUFFICES ASSUME Init_ucase PROVE UcaseInv
    OBVIOUS
  <2>1. <<>> \in Seq(Datagrams)
    OBVIOUS
  <2>2. UcaseTypes
    BY <2>1 DEF Init_ucase, UcaseTypes
  <2>3. RequestsQueued /\ RequestHeld
    BY <2>1 DEF Init_ucase, RequestsQueued, RequestHeld
  <2>4. \A c \in Clients_ucase : AnswerQueued(c) /\ AnswersPrinted(c)
    BY DEF Init_ucase, AnswerQueued, AnswersPrinted, Open
  <2> QED BY <2>2, <2>3, <2>4 DEF UcaseInv
<1>2. UcaseInv /\ [Next_ucase]_vars_ucase => UcaseInv'
  <2> SUFFICES ASSUME UcaseInv, [Next_ucase]_vars_ucase PROVE UcaseInv'
    OBVIOUS
  <2>1. CASE UNCHANGED vars_ucase
    BY <2>1, UcaseSame DEF vars_ucase, UcaseInv, UcaseTypes, Open
  <2>2. ASSUME NEW c \in Clients_ucase, Client_ucase(c) \/ Kill_ucase(c) PROVE UcaseInv'
    <3>1. CASE sendto(c) \/ recvfrom(c)
      BY <3>1, UcaseSendInv, UcaseRecvInv
    <3>2. CASE exit_ucase(c) \/ sendtoFails(c) \/ Kill_ucase(c)
      <4>1. PICK st \in {"done", "failed", "killed"} :
              /\ cst' = [cst EXCEPT ![c] = st] /\ (st = "killed" <=> cst[c] = "recv")
              /\ cst[c] \in {"send", "recv"} /\ UNCHANGED <<kind, sbuf, sq, len, sent, cq, got>>
        BY <3>2 DEF exit_ucase, sendtoFails, Kill_ucase
      <4>2. cst' \in [Clients_ucase -> {"send", "recv", "done", "failed", "killed"}]
        BY <4>1 DEF UcaseInv, UcaseTypes
      <4>3. \A x \in Clients_ucase : Open(x)' <=> Open(x)
        BY <4>1 DEF Open, UcaseInv, UcaseTypes
      <4> QED BY <4>1, <4>2, <4>3, UcaseSame
    <3> QED BY <2>2, <3>1, <3>2
            DEF Client_ucase, ud_ucase_cl, i6d_ucase_cl, id_echo_cl, Loop
  <2>3. CASE Server_ucase
    <3>1. Receive \/ Answer(Case)
      BY <2>3 DEF Server_ucase, ud_ucase_sv, i6d_ucase_sv, id_echo_sv, Case
    <3> QED BY <3>1, UcaseReceiveInv, UcaseAnswerInv
  <2>4. CASE Lose
    BY <2>4, UcaseLoseInv, SMTT(60)
  <2> QED BY <2>1, <2>2, <2>3, <2>4 DEF Next_ucase
<1>3. UcaseInv => OwnAnswers
  <2> SUFFICES ASSUME UcaseInv PROVE OwnAnswers
    OBVIOUS
  <2>1. \A c \in Clients_ucase : got[c] \in Seq(Datagrams) /\ DOMAIN got[c] = 1..Len(got[c])
    BY DEF UcaseInv, UcaseTypes
  <2> QED BY <2>1 DEF UcaseInv, AnswersPrinted, Case, OwnAnswers
<1> QED BY <1>1, <1>2, <1>3, PTL DEF Spec_ucase

=============================================================================
