------------------------ MODULE RequestServersProofs ------------------------
(***************************************************************************)
(* The sequence-number servers on POSIX message queues (52-02) and on      *)
(* FIFOs (chapter 44) never give a number out twice, for any clients, any  *)
(* size of the server's queue, any lengths asked for and any number of     *)
(* kills and crashes.  The file server on System V queues sends every      *)
(* client the parts of its own file in order, whatever the sizes of files  *)
(* and queues and whichever clients and forks fail.                        *)
(***************************************************************************)
EXTENDS RequestServers, TLAPS

-----------------------------------------------------------------------------
(* svmsg_file_server: n is the size of a file, g what its client received, *)
(* q what is in the client's queue, and k how much was sent                *)

Answers == {END, FAILURE} \cup {DATA(i) : i \in Nat}
Letter(n, i) == IF n = Missing THEN FAILURE ELSE IF i > n THEN END ELSE DATA(i)
Total(n) == IF n = Missing THEN 1 ELSE n + 1
Begins(n, g) ==
  g \in Seq(Answers) /\ Len(g) <= Total(n) /\ \A i \in 1..Len(g) : g[i] = Letter(n, i)
Flow(n, g, q, k) ==
  /\ Begins(n, g) /\ q \in Seq(Answers) /\ k \in Nat /\ k <= Total(n)
  /\ Len(g) + Len(q) = k
  /\ \A i \in 1..Len(q) : q[i] = Letter(n, Len(g) + i)

\* The state of one client and of its child, where its queue still exists:
\* nothing was sent before the child has opened the file, what was sent before
\* its next part while it sends, and everything when it has ended.
Served1(n, st, ch, p, g, q) ==
  /\ Begins(n, g)
  /\ st = "start" => ch = "none"
  /\ st = "done" => Len(g) = Total(n)
  /\ st \in {"start", "sent", "killed"} =>
       /\ ch \in {"none", "open"} => Flow(n, g, q, 0)
       /\ ch = "send" => Flow(n, g, q, p - 1)
       /\ ch \in {"zombie", "reaped"} => Flow(n, g, q, Total(n))
  /\ ch \in {"none", "open"} => p = 1
  /\ ch = "send" => n # Missing /\ p \in 1..(n + 1)

\* No client has two requests or, with one, a child.
RequestsOK ==
  /\ reqs \in Seq(Clients_svmsg)
  /\ \A i, j \in 1..Len(reqs) : reqs[i] = reqs[j] => i = j
  /\ \A i \in 1..Len(reqs) : child[reqs[i]] = "none" /\ cst[reqs[i]] # "start"
  /\ spc = "fork" => /\ req \in Clients_svmsg /\ child[req] = "none" /\ cst[req] # "start"
                     /\ \A i \in 1..Len(reqs) : reqs[i] # req

\* The inductive invariant of the server.
FileInv ==
  /\ size \in [Clients_svmsg -> Nat] /\ part \in [Clients_svmsg -> Nat]
  /\ cst \in [Clients_svmsg -> {"start", "sent", "done", "failed", "killed"}]
  /\ child \in [Clients_svmsg -> {"none", "open", "send", "zombie", "reaped"}]
  /\ queue \in [Clients_svmsg -> Seq(Answers)] /\ got \in [Clients_svmsg -> Seq(Answers)]
  /\ RequestsOK
  /\ \A c \in Clients_svmsg : Served1(size[c], cst[c], child[c], part[c], got[c], queue[c])

\* What the child sends is an answer.
LEMMA LetterAnswers ==
  ASSUME NEW n \in Nat
  PROVE  Total(n) \in Nat /\ \A i \in Nat : Letter(n, i) \in Answers
BY DEF Letter, Answers, Total, Missing

\* The next message of the file is sent.
LEMMA FlowAdd ==
  ASSUME NEW n \in Nat, NEW g, NEW q, NEW k, Flow(n, g, q, k), k < Total(n),
         NEW m, m = Letter(n, k + 1)
  PROVE  Flow(n, g, Append(q, m), k + 1)
<1>1. Len(g) \in Nat /\ Len(q) \in Nat /\ k \in Nat /\ Total(n) \in Nat /\ m \in Answers
  <2>1. g \in Seq(Answers) /\ q \in Seq(Answers) /\ k \in Nat
    BY DEF Flow, Begins
  <2>2. k + 1 \in Nat
    BY <2>1
  <2>3. Total(n) \in Nat /\ m \in Answers
    BY <2>2, LetterAnswers
  <2>4. \A t \in Seq(Answers) : Len(t) \in Nat
    OBVIOUS
  <2> QED BY <2>1, <2>3, <2>4
<1>2. /\ Append(q, m) \in Seq(Answers) /\ Len(Append(q, m)) = Len(q) + 1
      /\ Append(q, m)[Len(q) + 1] = m /\ \A i \in 1..Len(q) : Append(q, m)[i] = q[i]
  BY <1>1 DEF Flow
<1>3. /\ \A i \in 1..(Len(q) + 1) : i \in 1..Len(q) \/ i = Len(q) + 1
      /\ k + 1 \in Nat /\ k + 1 <= Total(n)
  BY <1>1
<1>4. Len(g) + Len(q) = k
  BY DEF Flow
<1>5. Len(g) + (Len(q) + 1) = k + 1
  BY <1>1, <1>4
<1>6. \A i \in 1..(Len(q) + 1) : Append(q, m)[i] = Letter(n, Len(g) + i)
  BY <1>2, <1>3, <1>5 DEF Flow
<1> QED BY <1>2, <1>3, <1>5, <1>6 DEF Flow

\* The first message is received; one that is not data is the last.
LEMMA FlowTake ==
  ASSUME NEW n \in Nat, NEW g, NEW q, NEW k, Flow(n, g, q, k), q # <<>>
  PROVE  /\ Flow(n, Append(g, Head(q)), Tail(q), k)
         /\ Head(q)[1] # "DATA" => Len(Append(g, Head(q))) = Total(n)
<1>1. Len(g) \in Nat /\ Len(q) \in Nat /\ k \in Nat /\ Total(n) \in Nat /\ q \in Seq(Answers)
      /\ g \in Seq(Answers) /\ Len(g) + Len(q) = k /\ k <= Total(n)
  <2>1. /\ g \in Seq(Answers) /\ q \in Seq(Answers) /\ k \in Nat
        /\ Len(g) + Len(q) = k /\ k <= Total(n)
    BY DEF Flow, Begins
  <2>2. Total(n) \in Nat
    BY LetterAnswers
  <2>3. \A t \in Seq(Answers) : Len(t) \in Nat
    OBVIOUS
  <2> QED BY <2>1, <2>2, <2>3
<1>2. /\ Len(q) >= 1 /\ Tail(q) \in Seq(Answers) /\ Len(Tail(q)) = Len(q) - 1
      /\ Head(q) = q[1] /\ Head(q) \in Answers
      /\ \A i \in 1..(Len(q) - 1) : Tail(q)[i] = q[i + 1]
  BY <1>1
<1>3. PICK m \in Answers : m = Head(q)
  BY <1>2
<1> DEFINE h == Append(g, m)
<1>4. /\ h \in Seq(Answers) /\ Len(h) = Len(g) + 1
      /\ h[Len(g) + 1] = m /\ \A i \in 1..Len(g) : h[i] = g[i]
  BY <1>1
<1>5. 1 \in 1..Len(q)
  BY <1>1, <1>2
<1>6. m = Letter(n, Len(g) + 1)
  BY <1>2, <1>3, <1>5 DEF Flow
<1> HIDE DEF h
<1>7. /\ \A i \in 1..(Len(g) + 1) : i \in 1..Len(g) \/ i = Len(g) + 1
      /\ Len(g) + 1 <= Total(n) /\ Len(g) + 1 + (Len(q) - 1) = k
      /\ \A i \in 1..(Len(q) - 1) : i + 1 \in 1..Len(q) /\ Len(g) + (i + 1) = Len(g) + 1 + i
  BY <1>1, <1>2
<1>8. Begins(n, h)
  BY <1>4, <1>6, <1>7, SMTT(60) DEF Begins, Flow
<1>9. \A i \in 1..(Len(q) - 1) : Tail(q)[i] = Letter(n, Len(g) + 1 + i)
  BY <1>2, <1>7 DEF Flow
<1>10. Flow(n, h, Tail(q), k)
  BY <1>1, <1>2, <1>4, <1>7, <1>8, <1>9 DEF Flow
<1>11. ASSUME m[1] # "DATA" PROVE Len(g) + 1 = Total(n)
  <2>1. n = Missing \/ Len(g) + 1 > n
    BY <1>6, <1>11 DEF Letter, DATA
  <2> QED BY <1>1, <1>7, <2>1, SMTT(60) DEF Total
<1> QED BY <1>3, <1>4, <1>10, <1>11 DEF h

\* A step that leaves the other clients alone.
LEMMA OneClient ==
  ASSUME FileInv, NEW c \in Clients_svmsg, UNCHANGED size,
         \A x \in Clients_svmsg \ {c} :
           /\ cst'[x] = cst[x] /\ child'[x] = child[x] /\ part'[x] = part[x]
           /\ got'[x] = got[x] /\ queue'[x] = queue[x],
         Served1(size[c], cst'[c], child'[c], part'[c], got'[c], queue'[c])
  PROVE  \A x \in Clients_svmsg :
           Served1(size'[x], cst'[x], child'[x], part'[x], got'[x], queue'[x])
BY Zenon DEF FileInv

\* A step that leaves the requests alone and gives no child to a client that
\* has none.
LEMMA SameRequests ==
  ASSUME FileInv, UNCHANGED <<reqs, req>>, spc' = spc,
         NEW c \in Clients_svmsg, cst[c] # "start" => cst'[c] # "start",
         child[c] = "none" => child'[c] = "none",
         \A x \in Clients_svmsg \ {c} : cst'[x] = cst[x] /\ child'[x] = child[x]
  PROVE  RequestsOK'
<1>1. RequestsOK /\ \A i \in 1..Len(reqs) : reqs[i] \in Clients_svmsg
  BY DEF FileInv, RequestsOK
<1>2. \A x \in Clients_svmsg : /\ cst[x] # "start" => cst'[x] # "start"
                               /\ child[x] = "none" => child'[x] = "none"
  OBVIOUS
<1> QED BY <1>1, <1>2 DEF RequestsOK

\* The client sends its request.
LEMMA SvSendInv ==
  ASSUME FileInv, NEW c \in Clients_svmsg, Send(c)
  PROVE  FileInv'
<1>1. /\ UNCHANGED <<size, spc, req, child, part, queue, got>> /\ cst[c] = "start"
      /\ \/ cst' = [cst EXCEPT ![c] = "failed"] /\ reqs' = reqs
         \/ cst' = [cst EXCEPT ![c] = "sent"] /\ reqs' = Append(reqs, c)
  BY DEF Send
<1>2. /\ cst' \in [Clients_svmsg -> {"start", "sent", "done", "failed", "killed"}]
      /\ cst'[c] \in {"failed", "sent"} /\ \A x \in Clients_svmsg \ {c} : cst'[x] = cst[x]
  BY <1>1, ZenonT(30) DEF FileInv
<1>3. Served1(size[c], cst'[c], child'[c], part'[c], got'[c], queue'[c])
  <2>1. Served1(size[c], cst[c], child[c], part[c], got[c], queue[c])
    BY SMTT(30) DEF FileInv
  <2> QED BY <1>1, <1>2, <2>1 DEF Served1
<1>4. \A x \in Clients_svmsg :
        Served1(size'[x], cst'[x], child'[x], part'[x], got'[x], queue'[x])
  BY <1>1, <1>2, <1>3, OneClient
<1>5. RequestsOK'
  <2>1. CASE reqs' = reqs
    BY <1>1, <1>2, <2>1, SameRequests
  <2>2. CASE reqs' = Append(reqs, c)
    <3>1. /\ RequestsOK /\ reqs \in Seq(Clients_svmsg) /\ Len(reqs) \in Nat
          /\ \A i \in 1..Len(reqs) : reqs[i] \in Clients_svmsg /\ reqs[i] # c
      BY <1>1, SMTT(60) DEF FileInv, RequestsOK
    <3>2. /\ reqs' \in Seq(Clients_svmsg) /\ Len(reqs') = Len(reqs) + 1
          /\ reqs'[Len(reqs) + 1] = c /\ \A i \in 1..Len(reqs) : reqs'[i] = reqs[i]
      BY <2>2, <3>1
    <3>3. \A i \in 1..(Len(reqs) + 1) : i \in 1..Len(reqs) \/ i = Len(reqs) + 1
      BY <3>1
    <3>4. child[c] = "none" /\ cst'[c] # "start"
      BY <1>1, <1>2 DEF FileInv, Served1
    <3>5. \A i, j \in 1..Len(reqs') : reqs'[i] = reqs'[j] => i = j
      BY <3>1, <3>2, <3>3 DEF RequestsOK
    <3>6. \A i \in 1..Len(reqs') : child'[reqs'[i]] = "none" /\ cst'[reqs'[i]] # "start"
      BY <1>1, <1>2, <3>1, <3>2, <3>3, <3>4 DEF RequestsOK
    <3>7. spc' = "fork" => /\ req' \in Clients_svmsg /\ child'[req'] = "none" /\ cst'[req'] # "start"
                           /\ \A i \in 1..Len(reqs') : reqs'[i] # req'
      BY <1>1, <1>2, <3>1, <3>2, <3>3, SMTT(60) DEF RequestsOK
    <3> QED BY <3>2, <3>5, <3>6, <3>7, SMTT(60) DEF RequestsOK
  <2> QED BY <1>1, <2>1, <2>2
<1> QED BY <1>1, <1>2, <1>4, <1>5 DEF FileInv

\* The client receives a message.
LEMMA SvReceiveInv ==
  ASSUME FileInv, NEW c \in Clients_svmsg, Receive_svmsg(c)
  PROVE  FileInv'
<1> DEFINE n == size[c]
           q == queue[c]
           g == got[c]
<1>1. /\ UNCHANGED <<size, spc, reqs, req, child, part>> /\ cst[c] = "sent" /\ q # <<>>
      /\ got' = [got EXCEPT ![c] = Append(g, Head(q))]
      /\ \/ /\ Head(q)[1] = "DATA"
            /\ queue' = [queue EXCEPT ![c] = Tail(q)] /\ UNCHANGED cst
         \/ /\ Head(q)[1] # "DATA"
            /\ queue' = [queue EXCEPT ![c] = <<>>] /\ cst' = [cst EXCEPT ![c] = "done"]
  BY DEF Receive_svmsg
<1>2. /\ n \in Nat /\ q \in Seq(Answers) /\ g \in Seq(Answers)
      /\ Head(q) \in Answers /\ Tail(q) \in Seq(Answers)
      /\ Served1(n, cst[c], child[c], part[c], g, q) /\ child[c] \in {"none", "open", "send", "zombie", "reaped"}
  BY <1>1 DEF FileInv
<1>3. Append(g, Head(q)) \in Seq(Answers)
  BY <1>2
<1>4. /\ cst' \in [Clients_svmsg -> {"start", "sent", "done", "failed", "killed"}]
      /\ got' \in [Clients_svmsg -> Seq(Answers)] /\ queue' \in [Clients_svmsg -> Seq(Answers)]
      /\ got'[c] = Append(g, Head(q))
      /\ \/ Head(q)[1] = "DATA" /\ queue'[c] = Tail(q) /\ cst'[c] = "sent"
         \/ Head(q)[1] # "DATA" /\ cst'[c] = "done"
      /\ \A x \in Clients_svmsg \ {c} : cst'[x] = cst[x] /\ got'[x] = got[x] /\ queue'[x] = queue[x]
  <2>1. got' \in [Clients_svmsg -> Seq(Answers)] /\ got'[c] = Append(g, Head(q))
        /\ \A x \in Clients_svmsg \ {c} : got'[x] = got[x]
    BY <1>1, <1>3 DEF FileInv
  <2>2. queue' \in [Clients_svmsg -> Seq(Answers)]
        /\ \A x \in Clients_svmsg \ {c} : queue'[x] = queue[x]
    <3>1. CASE queue' = [queue EXCEPT ![c] = Tail(q)]
      BY <1>2, <3>1 DEF FileInv
    <3>2. CASE queue' = [queue EXCEPT ![c] = <<>>]
      <4>1. <<>> \in Seq(Answers)
        OBVIOUS
      <4> QED BY <3>2, <4>1 DEF FileInv
    <3> QED BY <1>1, <3>1, <3>2
  <2>3. /\ \/ Head(q)[1] = "DATA" /\ queue'[c] = Tail(q)
           \/ Head(q)[1] # "DATA" /\ cst'[c] = "done"
        /\ Head(q)[1] = "DATA" => cst' = cst
    BY <1>1 DEF FileInv
  <2>4. cst' \in [Clients_svmsg -> {"start", "sent", "done", "failed", "killed"}]
        /\ \A x \in Clients_svmsg \ {c} : cst'[x] = cst[x]
    BY <1>1, ZenonT(30) DEF FileInv
  <2> QED BY <1>1, <2>1, <2>2, <2>3, <2>4
<1>5. PICK k : Flow(n, g, q, k) /\ k = IF child[c] \in {"none", "open"} THEN 0
                                        ELSE IF child[c] = "send" THEN part[c] - 1 ELSE Total(n)
  BY <1>1, <1>2, ZenonT(30) DEF Served1
<1>6. /\ Flow(n, Append(g, Head(q)), Tail(q), k)
      /\ Head(q)[1] # "DATA" => Len(Append(g, Head(q))) = Total(n)
  BY <1>1, <1>2, <1>5, FlowTake, SMTT(60)
<1>7. Served1(n, cst'[c], child'[c], part'[c], got'[c], queue'[c])
  <2>1. Begins(n, got'[c])
    BY <1>4, <1>6, SMTT(60) DEF Flow
  <2>2. CASE Head(q)[1] = "DATA"
    <3>1. Flow(n, got'[c], queue'[c], k) /\ cst'[c] = "sent"
      BY <1>4, <1>6, <2>2, ZenonT(60)
    <3> QED BY <1>1, <1>2, <1>5, <2>1, <3>1, ZenonT(60) DEF Served1
  <2>3. CASE Head(q)[1] # "DATA"
    <3>1. Len(got'[c]) = Total(n) /\ cst'[c] = "done"
      BY <1>4, <1>6, <2>3, SMTT(60)
    <3> QED BY <1>1, <1>2, <2>1, <3>1, ZenonT(60) DEF Served1
  <2> QED BY <2>2, <2>3, SMTT(60)
<1>8. \A x \in Clients_svmsg :
        Served1(size'[x], cst'[x], child'[x], part'[x], got'[x], queue'[x])
  BY <1>1, <1>4, <1>7, OneClient, ZenonT(60)
<1>9. RequestsOK'
  BY <1>1, <1>4, SameRequests, Zenon
<1> QED BY <1>1, <1>4, <1>8, <1>9, SMTT(30) DEF FileInv

\* The client fails or is killed.
LEMMA SvLeaveInv ==
  ASSUME FileInv, NEW c \in Clients_svmsg, Leave(c)
  PROVE  FileInv'
<1>1. /\ UNCHANGED <<size, spc, reqs, req, child, part, got>> /\ cst[c] = "sent"
      /\ \/ cst' = [cst EXCEPT ![c] = "failed"] /\ queue' = [queue EXCEPT ![c] = <<>>]
         \/ cst' = [cst EXCEPT ![c] = "killed"] /\ UNCHANGED queue
  BY DEF Leave
<1>2. /\ cst' \in [Clients_svmsg -> {"start", "sent", "done", "failed", "killed"}]
      /\ queue' \in [Clients_svmsg -> Seq(Answers)]
      /\ cst'[c] = "failed" \/ (cst'[c] = "killed" /\ queue' = queue)
      /\ \A x \in Clients_svmsg \ {c} : cst'[x] = cst[x] /\ queue'[x] = queue[x]
  <2>1. <<>> \in Seq(Answers)
    OBVIOUS
  <2>2. CASE queue' = queue
    BY <1>1, <2>2, ZenonT(60) DEF FileInv
  <2>3. CASE cst' = [cst EXCEPT ![c] = "failed"] /\ queue' = [queue EXCEPT ![c] = <<>>]
    BY <2>1, <2>3 DEF FileInv
  <2> QED BY <1>1, <2>2, <2>3
<1>3. Served1(size[c], cst'[c], child'[c], part'[c], got'[c], queue'[c])
  <2>1. Served1(size[c], cst[c], child[c], part[c], got[c], queue[c])
    BY DEF FileInv
  <2> QED BY <1>1, <1>2, <2>1, Zenon DEF Served1
<1>4. \A x \in Clients_svmsg :
        Served1(size'[x], cst'[x], child'[x], part'[x], got'[x], queue'[x])
  BY <1>1, <1>2, <1>3, OneClient, Zenon
<1>5. RequestsOK'
  BY <1>1, <1>2, SameRequests
<1> QED BY <1>1, <1>2, <1>4, <1>5 DEF FileInv

\* The server takes a request, gives it to a child, or ends when fork() fails.
LEMMA SvServerInv ==
  ASSUME FileInv, ReadRequest_svmsg \/ Fork
  PROVE  FileInv'
<1>1. UNCHANGED <<size, part, queue, cst, got>> /\ RequestsOK
  BY DEF ReadRequest_svmsg, Fork, FileInv
<1>2. CASE ReadRequest_svmsg
  <2>1. /\ UNCHANGED child /\ reqs # <<>> /\ req' = Head(reqs) /\ reqs' = Tail(reqs)
        /\ reqs \in Seq(Clients_svmsg)
    BY <1>1, <1>2 DEF ReadRequest_svmsg, RequestsOK
  <2>2. /\ Len(reqs) \in Nat /\ Len(reqs) >= 1 /\ req' = reqs[1] /\ req' \in Clients_svmsg
        /\ reqs' \in Seq(Clients_svmsg) /\ Len(reqs') = Len(reqs) - 1
        /\ \A i \in 1..(Len(reqs) - 1) : reqs'[i] = reqs[i + 1]
    BY <2>1
  <2>3. /\ \A i \in 1..(Len(reqs) - 1) : i + 1 \in 1..Len(reqs) /\ i + 1 # 1
        /\ \A i, j \in 1..(Len(reqs) - 1) : i + 1 = j + 1 => i = j
        /\ 1 \in 1..Len(reqs)
    BY <2>2
  <2>4. \A i, j \in 1..Len(reqs') : reqs'[i] = reqs'[j] => i = j
    BY <1>1, <2>2, <2>3 DEF RequestsOK
  <2>5. \A i \in 1..Len(reqs') : child'[reqs'[i]] = "none" /\ cst'[reqs'[i]] # "start"
    BY <1>1, <2>1, <2>2, <2>3 DEF RequestsOK
  <2>6. /\ child'[req'] = "none" /\ cst'[req'] # "start"
        /\ \A i \in 1..Len(reqs') : reqs'[i] # req'
    BY <1>1, <2>1, <2>2, <2>3 DEF RequestsOK
  <2>7. RequestsOK'
    BY <2>2, <2>4, <2>5, <2>6 DEF RequestsOK
  <2> QED BY <1>1, <2>1, <2>7, SMTT(60) DEF FileInv
<1>3. CASE Fork
  <2>1. PICK c \in Clients_svmsg : c = req /\ child[c] = "none" /\ cst[c] # "start"
                                   /\ \A i \in 1..Len(reqs) : reqs[i] # c
    BY <1>1, <1>3 DEF Fork, RequestsOK
  <2>2. CASE child' = [child EXCEPT ![c] = "open"] /\ spc' = "msgrcv" /\ UNCHANGED reqs
    <3>1. /\ child' \in [Clients_svmsg -> {"none", "open", "send", "zombie", "reaped"}]
          /\ child'[c] = "open" /\ \A x \in Clients_svmsg \ {c} : child'[x] = child[x]
      BY <2>2, SMTT(60) DEF FileInv
    <3>2. Served1(size[c], cst'[c], child'[c], part'[c], got'[c], queue'[c])
      <4>1. Served1(size[c], cst[c], child[c], part[c], got[c], queue[c])
        BY SMTT(60) DEF FileInv
      <4> QED BY <1>1, <2>1, <3>1, <4>1, Zenon DEF Served1
    <3>3. \A x \in Clients_svmsg :
            Served1(size'[x], cst'[x], child'[x], part'[x], got'[x], queue'[x])
      BY <1>1, <3>1, <3>2, OneClient, ZenonT(60)
    <3>4. \A i \in 1..Len(reqs) : reqs[i] \in Clients_svmsg \ {c}
      BY <1>1, <2>1, SMTT(60) DEF RequestsOK
    <3>5. RequestsOK'
      BY <1>1, <2>2, <3>1, <3>4 DEF RequestsOK
    <3> QED BY <1>1, <3>1, <3>3, <3>5 DEF FileInv
  <2>3. CASE spc' = "exit" /\ reqs' = <<>> /\ UNCHANGED child
    <3>1. RequestsOK'
      BY <2>3 DEF RequestsOK
    <3> QED BY <1>1, <2>3, <3>1 DEF FileInv
  <2> QED BY <1>3, <2>1, <2>2, <2>3, SMTT(60) DEF Fork
<1> QED BY <1>2, <1>3

\* The children that have ended are waited for.
LEMMA SvReapInv ==
  ASSUME FileInv, grimReaper
  PROVE  FileInv'
<1>1. /\ UNCHANGED <<size, spc, reqs, req, part, queue, cst, got>>
      /\ child' = [c \in Clients_svmsg |-> IF child[c] = "zombie" THEN "reaped" ELSE child[c]]
  BY DEF grimReaper
<1>2. child' \in [Clients_svmsg -> {"none", "open", "send", "zombie", "reaped"}]
  BY <1>1 DEF FileInv
<1>3. \A x \in Clients_svmsg :
        child'[x] = child[x] \/ (child[x] = "zombie" /\ child'[x] = "reaped")
  BY <1>1, SMTT(60)
<1>4. \A x \in Clients_svmsg :
        Served1(size'[x], cst'[x], child'[x], part'[x], got'[x], queue'[x])
  BY <1>1, <1>3, SMTT(60) DEF FileInv, Served1
<1>5. RequestsOK'
  <2>1. RequestsOK /\ \A i \in 1..Len(reqs) : reqs[i] \in Clients_svmsg
    BY DEF FileInv, RequestsOK
  <2>2. \A x \in Clients_svmsg : child[x] = "none" => child'[x] = "none"
    BY <1>3
  <2> QED BY <1>1, <2>1, <2>2, SMTT(60) DEF RequestsOK
<1> QED BY <1>1, <1>2, <1>4, <1>5 DEF FileInv

\* The child of c is then in state ch with part p, and its queue is t.
Sets(c, ch, p, t) ==
  /\ child' = [child EXCEPT ![c] = ch] /\ part' = [part EXCEPT ![c] = p]
  /\ queue' = [queue EXCEPT ![c] = t]

\* A step of the child.
LEMMA ChildStep ==
  ASSUME FileInv, NEW c \in Clients_svmsg, UNCHANGED <<size, spc, reqs, req, cst, got>>,
         child[c] # "none", NEW ch \in {"none", "open", "send", "zombie", "reaped"},
         NEW p \in Nat, NEW t \in Seq(Answers), Sets(c, ch, p, t),
         Served1(size[c], cst[c], ch, p, got[c], t)
  PROVE  FileInv'
<1>1. /\ child' \in [Clients_svmsg -> {"none", "open", "send", "zombie", "reaped"}]
      /\ part' \in [Clients_svmsg -> Nat] /\ queue' \in [Clients_svmsg -> Seq(Answers)]
  BY DEF Sets, FileInv
<1>2. /\ child'[c] = ch /\ part'[c] = p /\ queue'[c] = t
      /\ \A x \in Clients_svmsg \ {c} :
           child'[x] = child[x] /\ part'[x] = part[x] /\ queue'[x] = queue[x]
  BY SMTT(60) DEF Sets, FileInv
<1>3. \A x \in Clients_svmsg :
        Served1(size'[x], cst'[x], child'[x], part'[x], got'[x], queue'[x])
  BY <1>2, OneClient, ZenonT(60)
<1>4. RequestsOK'
  BY <1>2, SameRequests, ZenonT(30)
<1> QED BY <1>1, <1>3, <1>4 DEF FileInv

\* The child opens the file, refuses it, or sends a part or the end.
LEMMA SvChildInv ==
  ASSUME FileInv, NEW c \in Clients_svmsg, serveRequest(c)
  PROVE  FileInv'
<1> DEFINE n == size[c]
           q == queue[c]
           g == got[c]
           p == part[c]
<1>1. /\ UNCHANGED <<size, spc, reqs, req, cst, got>> /\ child[c] \in {"open", "send"}
      /\ Refuse(c) \/ OpenFile(c) \/ SendPart(c) \/ SendEnd(c)
  BY DEF serveRequest, Refuse, OpenFile, SendPart, SendEnd
<1>2. /\ n \in Nat /\ q \in Seq(Answers) /\ g \in Seq(Answers) /\ p \in Nat
      /\ Served1(n, cst[c], child[c], p, g, q)
      /\ Total(n) \in Nat
  BY LetterAnswers, SMTT(60) DEF FileInv
<1>3. /\ child[c] = "open" => p = 1
      /\ child[c] = "send" => n # Missing /\ p \in 1..(n + 1)
      /\ Begins(n, g) /\ cst[c] # "start" /\ (cst[c] = "done" => Len(g) = Total(n))
      /\ Exists(c) /\ child[c] = "open" => Flow(n, g, q, 0)
      /\ Exists(c) /\ child[c] = "send" => Flow(n, g, q, p - 1)
  BY <1>1, <1>2, Zenon DEF Served1, Exists
<1>3a. /\ n \in Nat /\ p \in Nat /\ (child[c] = "open" => p = 1)
       /\ child[c] = "send" => n # Missing /\ p \in 1..(n + 1)
  BY <1>2, <1>3, Zenon
<1>4. queue = [queue EXCEPT ![c] = q] /\ part = [part EXCEPT ![c] = p]
  BY SMTT(60) DEF FileInv
<1>5. \A m \in Answers : Append(q, m) \in Seq(Answers)
  BY <1>2
<1>6. CASE Refuse(c)
  <2>1. child[c] = "open" /\ n = Missing /\ FAILURE = Letter(n, 0 + 1) /\ Total(n) = 1
        /\ FAILURE \in Answers
    BY <1>6, SMTT(60) DEF Refuse, Letter, Total, Answers
  <2>2. CASE Deliver(c, FAILURE)
    <3>1. Exists(c) /\ Sets(c, "zombie", p, Append(q, FAILURE))
      BY <1>4, <1>6, <2>2, SMTT(60) DEF Refuse, Deliver, Ends, Sets
    <3>2. Flow(n, g, q, 0) /\ 0 < Total(n)
      BY <1>3, <2>1, <3>1, SMTT(60)
    <3>3. Flow(n, g, Append(q, FAILURE), 0 + 1)
      BY <1>2, <2>1, <3>2, FlowAdd, ZenonT(60)
    <3>4. Served1(n, cst[c], "zombie", p, g, Append(q, FAILURE))
      BY <1>3, <2>1, <3>3, SMTT(60) DEF Served1
    <3> QED BY <1>1, <1>2, <1>5, <2>1, <3>1, <3>4, ChildStep, Zenon
  <2>3. CASE Undelivered(c)
    <3>1. ~Exists(c) /\ Sets(c, "zombie", p, q)
      BY <1>4, <1>6, <2>3, SMTT(60) DEF Refuse, Undelivered, Ends, Sets
    <3>2. Served1(n, cst[c], "zombie", p, g, q)
      BY <1>3, <3>1, ZenonT(60) DEF Served1, Exists
    <3> QED BY <1>1, <1>2, <3>1, <3>2, ChildStep, Zenon
  <2> QED BY <1>6, <2>2, <2>3 DEF Refuse
<1>7. CASE OpenFile(c)
  <2>1. child[c] = "open" /\ n # Missing /\ Sets(c, "send", p, q)
    BY <1>4, <1>7, SMTT(60) DEF OpenFile, Sets
  <2>2. p = 1 /\ p - 1 = 0 /\ p \in 1..(n + 1)
    <3>1. p = 1 /\ n \in Nat
      BY <1>3a, <2>1, Zenon
    <3> HIDE DEF n, p
    <3> QED BY <3>1
  <2>3. Served1(n, cst[c], "send", p, g, q)
    BY <1>3, <2>1, <2>2, ZenonT(60) DEF Served1, Exists
  <2> QED BY <1>1, <1>2, <2>1, <2>3, ChildStep, Zenon
<1>8. CASE SendPart(c)
  <2>1. child[c] = "send" /\ n # Missing /\ p \in 1..n
    <3>1. child[c] = "send" /\ p <= n
      BY <1>8 DEF SendPart
    <3>2. n \in Nat /\ p \in Nat /\ n # Missing /\ p \in 1..(n + 1)
      BY <1>3a, <3>1, Zenon
    <3> HIDE DEF n, p
    <3> QED BY <3>1, <3>2
  <2>2. /\ DATA(p) = Letter(n, (p - 1) + 1) /\ p - 1 < Total(n) /\ DATA(p) \in Answers
        /\ (p - 1) + 1 = (p + 1) - 1 /\ p + 1 \in 1..(n + 1) /\ n + 1 \in 1..(n + 1)
    BY <1>2, <2>1, SMTT(30) DEF Letter, Total, Answers
  <2>3. CASE Deliver(c, DATA(p)) /\ part' = [part EXCEPT ![c] = p + 1]
    <3>1. Exists(c) /\ Sets(c, "send", p + 1, Append(q, DATA(p)))
      BY <1>8, <2>1, <2>3, SMTT(60) DEF SendPart, Deliver, Sets, FileInv
    <3>2. Flow(n, g, Append(q, DATA(p)), (p - 1) + 1)
      BY <1>2, <1>3, <2>1, <2>2, <3>1, FlowAdd, ZenonT(60)
    <3>3. Served1(n, cst[c], "send", p + 1, g, Append(q, DATA(p)))
      BY <1>3, <2>1, <2>2, <3>2, Zenon DEF Served1
    <3>4. PICK t \in Seq(Answers), r \in Nat : t = Append(q, DATA(p)) /\ r = p + 1
      <4>1. Append(q, DATA(p)) \in Seq(Answers)
        BY <1>5, <2>2
      <4>2. p + 1 \in Nat
        BY <1>2, SMTT(60)
      <4> QED BY <4>1, <4>2, ZenonT(60)
    <3>5. Sets(c, "send", r, t) /\ Served1(n, cst[c], "send", r, g, t)
      BY <3>1, <3>3, <3>4, ZenonT(60)
    <3> QED BY <1>1, <3>5, ChildStep, Zenon
  <2>4. CASE Undelivered(c) /\ part' = [part EXCEPT ![c] = n + 1]
    <3>1. ~Exists(c) /\ Sets(c, "send", n + 1, q)
      BY <1>4, <1>8, <2>1, <2>4, SMTT(60) DEF SendPart, Undelivered, Sets, FileInv
    <3>2. Served1(n, cst[c], "send", n + 1, g, q)
      BY <1>3, <2>1, <2>2, <3>1, ZenonT(60) DEF Served1, Exists
    <3>3. PICK r \in Nat : r = n + 1
      BY <1>3a
    <3>4. Sets(c, "send", r, q) /\ Served1(n, cst[c], "send", r, g, q)
      BY <3>1, <3>2, <3>3, Zenon
    <3> QED BY <1>1, <1>2, <3>4, ChildStep, Zenon
  <2> QED BY <1>8, <2>3, <2>4, SMTT(60) DEF SendPart
<1>9. CASE SendEnd(c)
  <2>1. child[c] = "send" /\ n # Missing /\ p = n + 1
    <3>1. child[c] = "send" /\ p > n
      BY <1>9 DEF SendEnd
    <3>2. n \in Nat /\ p \in Nat /\ n # Missing /\ p \in 1..(n + 1)
      BY <1>3a, <3>1, Zenon
    <3> HIDE DEF n, p
    <3> QED BY <3>1, <3>2
  <2>2. /\ END = Letter(n, (p - 1) + 1) /\ p - 1 < Total(n) /\ END \in Answers
        /\ (p - 1) + 1 = Total(n)
    BY <1>2, <2>1, SMTT(60) DEF Letter, Total, Answers
  <2>3. CASE Deliver(c, END)
    <3>1. Exists(c) /\ Sets(c, "zombie", p, Append(q, END))
      BY <1>4, <1>9, <2>3, SMTT(60) DEF SendEnd, Deliver, Ends, Sets
    <3>2. Flow(n, g, Append(q, END), (p - 1) + 1)
      BY <1>2, <1>3, <2>1, <2>2, <3>1, FlowAdd, ZenonT(60)
    <3>3. Served1(n, cst[c], "zombie", p, g, Append(q, END))
      BY <1>3, <2>2, <3>2, ZenonT(60) DEF Served1
    <3> QED BY <1>1, <1>2, <1>5, <2>2, <3>1, <3>3, ChildStep, Zenon
  <2>4. CASE Undelivered(c)
    <3>1. ~Exists(c) /\ Sets(c, "zombie", p, q)
      BY <1>4, <1>9, <2>4, SMTT(60) DEF SendEnd, Undelivered, Ends, Sets
    <3>2. Served1(n, cst[c], "zombie", p, g, q)
      BY <1>3, <3>1, ZenonT(30) DEF Served1, Exists
    <3> QED BY <1>1, <1>2, <3>1, <3>2, ChildStep, Zenon
  <2> QED BY <1>9, <2>3, <2>4, SMTT(60) DEF SendEnd
<1> QED BY <1>1, <1>6, <1>7, <1>8, <1>9, SMTT(60)

-----------------------------------------------------------------------------
(* The server on FIFOs                                                     *)

\* A request, and the record of an answer
Requests == [from : Clients_fifo, len : Lens]
Grants == [first : Nat, len : Nat, to : Clients_fifo]
Ended(g, n) == g.first + g.len <= n

\* Every number given, but for those that a crash kept from the file, is
\* below seqNum while the server runs, and below the number in the file while
\* it is down: only the answer that the server of 44-3 is about to back up
\* lies beyond the file.
IInv_fifo ==
  /\ seqNum \in Nat /\ bak \in Nat
  /\ fifo \in Seq(Requests) /\ (spc \in {"client", "backup"} => req \in Requests)
  /\ Kept \subseteq Grants /\ NumbersDisjoint
  /\ spc = "open" => (\A g \in Kept : Ended(g, bak)) /\ (kind # "44-3" => Kept = {})
  /\ spc # "open" => \A g \in Kept : Ended(g, seqNum)
  /\ kind = "44-3" /\ spc \in {"read", "client"} => bak = seqNum
  /\ kind = "44-3" /\ spc = "backup" => \A g \in Kept : g.to # req.from => Ended(g, bak)

\* Nothing has been given at the start.
LEMMA InitInv_fifo == Init_fifo => IInv_fifo
BY DEF Init_fifo, IInv_fifo, NumbersDisjoint, Kept

\* The steps that give no number and keep the server where it is.
LEMMA ClientInv_fifo ==
  ASSUME Lens \subseteq Nat, IInv_fifo,
         UNCHANGED <<kind, server_fifo>>, fifo' \in Seq(Requests)
  PROVE  IInv_fifo'
BY DEF IInv_fifo, server_fifo, NumbersDisjoint, Ended, Kept

\* The write() of an answer gives the numbers from seqNum on.
LEMMA AnswerInv_fifo ==
  ASSUME Lens \subseteq Nat, IInv_fifo, spc = "client", Answer,
         seqNum' = seqNum + req.len, spc' = "backup", UNCHANGED <<req, kind, bak, fifo, lost>>
  PROVE  IInv_fifo'
<1> DEFINE n == [first |-> seqNum, len |-> req.len, to |-> req.from]
<1>1. req \in Requests /\ req.len \in Nat /\ seqNum \in Nat /\ seqNum' \in Nat
  <2>1. req \in Requests /\ seqNum \in Nat
    BY DEF IInv_fifo
  <2>2. req.len \in Nat
    BY <2>1, Zenon DEF Requests
  <2> QED BY <2>1, <2>2
<1>2. n \in Grants /\ n.first = seqNum /\ n.len = req.len /\ n.to = req.from
  BY <1>1 DEF Grants, Requests
<1>3. Kept' \subseteq Kept \cup {n}
  BY DEF Answer, Kept
<1> HIDE DEF n
<1>4. Kept' \subseteq Grants
  BY <1>2, <1>3 DEF IInv_fifo
<1>5. \A g \in Kept : g.first \in Nat /\ g.len \in Nat /\ Ended(g, seqNum)
  BY DEF IInv_fifo, Grants
<1>6. \A g \in Kept' : Ended(g, seqNum')
  BY <1>1, <1>2, <1>3, <1>5 DEF Ended
<1>7. NumbersDisjoint'
  <2>1. \A g \in Kept : g.first + g.len <= n.first
    BY <1>2, <1>5 DEF Ended
  <2> QED BY <1>3, <2>1 DEF NumbersDisjoint, IInv_fifo, Apart
<1>8. kind = "44-3" => \A g \in Kept' : g.to # req.from => Ended(g, bak)
  BY <1>2, <1>3, <1>5 DEF IInv_fifo
<1> QED BY <1>1, <1>4, <1>6, <1>7, <1>8 DEF IInv_fifo, Ended

\* Every step of a client or of the server, kills and crashes included, keeps
\* the invariant.
LEMMA NextInv_fifo == Lens \subseteq Nat /\ IInv_fifo /\ [Next_fifo]_vars_fifo => IInv_fifo'
<1> SUFFICES ASSUME Lens \subseteq Nat, IInv_fifo, [Next_fifo]_vars_fifo PROVE IInv_fifo'
  OBVIOUS
<1>1. ASSUME NEW c \in Clients_fifo, Mkfifo(c) \/ OpenFifo(c) \/ Read(c) \/ Kill_fifo(c)
      PROVE  IInv_fifo'
  <2>1. UNCHANGED <<kind, server_fifo, fifo>>
    BY <1>1 DEF Mkfifo, OpenFifo, Read, Kill_fifo
  <2> QED BY <2>1, ClientInv_fifo DEF IInv_fifo
<1>2. ASSUME NEW c \in Clients_fifo, Request_fifo(c) PROVE IInv_fifo'
  <2>1. PICK n \in Lens : fifo' = Append(fifo, [from |-> c, len |-> n])
    BY <1>2 DEF Request_fifo
  <2>2. fifo' \in Seq(Requests)
    BY <2>1 DEF IInv_fifo, Requests
  <2> QED BY <1>2, <2>2, ClientInv_fifo DEF Request_fifo
<1>3. CASE OpenServer
  BY <1>3 DEF OpenServer, IInv_fifo, NumbersDisjoint, Ended, Kept
<1>4. CASE ReadRequest_fifo
  BY <1>4 DEF ReadRequest_fifo, IInv_fifo, NumbersDisjoint, Ended, Kept
<1>5. CASE fifo_seqnum_server \/ fifo_seqnum_server_44_4 \/ fifo_seqnum_server_44_6
  <2>1. spc = "client" /\ UNCHANGED <<kind, bak, fifo, lost>>
    BY <1>5 DEF fifo_seqnum_server, fifo_seqnum_server_44_4, fifo_seqnum_server_44_6, Serve
  <2>2. \/ Answer /\ seqNum' = seqNum + req.len /\ spc' = "backup" /\ UNCHANGED req
        \/ Passed /\ UNCHANGED <<seqNum, given>>
    BY <1>5 DEF fifo_seqnum_server, fifo_seqnum_server_44_4, fifo_seqnum_server_44_6, Serve,
                OpenBlocking, OpenNonblock
  <2>3. CASE Passed /\ UNCHANGED <<seqNum, given>>
    BY <2>1, <2>3 DEF Passed, IInv_fifo, NumbersDisjoint, Ended, Kept
  <2> QED BY <2>1, <2>2, <2>3, AnswerInv_fifo
<1>6. CASE Backup
  BY <1>6 DEF Backup, BackupAs, Passed, IInv_fifo, NumbersDisjoint, Ended, Kept
<1>7. CASE Crash
  <2>1. /\ kind = "44-3" /\ spc' = "open" /\ fifo' = <<>> /\ UNCHANGED <<kind, seqNum, bak>>
        /\ Kept' \subseteq Kept /\ (spc = "backup" => \A g \in Kept' : g.to # req.from)
    BY <1>7 DEF Crash, Kept
  <2>2. \A g \in Kept' : Ended(g, bak)
    BY <1>7, <2>1 DEF Crash, IInv_fifo
  <2>3. NumbersDisjoint' /\ Kept' \subseteq Grants
    BY <2>1 DEF NumbersDisjoint, IInv_fifo, Apart
  <2> QED BY <2>1, <2>2, <2>3 DEF IInv_fifo, Ended
<1>8. CASE sig_handler
  BY <1>8 DEF sig_handler, IInv_fifo, NumbersDisjoint, Ended, Kept
<1>9. CASE UNCHANGED vars_fifo
  BY <1>9 DEF vars_fifo, IInv_fifo, NumbersDisjoint, Ended, Kept
<1> QED BY <1>1, <1>2, <1>3, <1>4, <1>5, <1>6, <1>7, <1>8, <1>9
        DEF Next_fifo, Server_fifo, Clientele, Client_fifo

-----------------------------------------------------------------------------
(* The sequence numbers of 52-02                                           *)

INSTANCE SequenceTheorems

\* The queue that handle_req() sends to is a client's, and what was handed out
\* is unique and has been counted.
IInv ==
  /\ TypeOK_52_02
  /\ spc = "send" => peer \in Clients_52_02
  /\ NumbersUnique

\* A queue for one message is empty or holds one.
LEMMA AtMostOne == ASSUME NEW s \in Seq(Nat), Len(s) <= 1, s # <<>>
                   PROVE  /\ Len(s) = 1 /\ Head(s) = s[1] /\ Head(s) \in Nat
                          /\ Tail(s) \in Seq(Nat) /\ Len(Tail(s)) = 0
<1>1. Len(s) # 0
  BY EmptySeq
<1>2. Len(s) = 1
  <2>1. Len(s) \in Nat
    BY LenProperties
  <2>2. \A n \in Nat : n <= 1 /\ n # 0 => n = 1
    OBVIOUS
  <2> QED BY <1>1, <2>1, <2>2, Zenon
<1>3. Head(s) \in Nat /\ Tail(s) \in Seq(Nat) /\ Len(Tail(s)) = Len(s) - 1
  BY HeadTailProperties
<1>4. Head(s) = s[1]
  OBVIOUS
<1> QED BY <1>2, <1>3, <1>4

\* Moving the message of a full queue to what was received leaves the numbers
\* of the client as they were.
LEMMA MoveKeepsNumbers ==
  ASSUME NEW g \in Seq(Nat), NEW m \in Seq(Nat), Len(m) <= 1, m # <<>>
  PROVE  Append(g, Head(m)) \o Tail(m) = g \o m
<1>1. Len(m) = 1 /\ Head(m) = m[1] /\ Head(m) \in Nat /\ Tail(m) \in Seq(Nat) /\ Len(Tail(m)) = 0
  BY AtMostOne
<1> DEFINE a == Append(g, Head(m)) \o Tail(m)
           b == g \o m
           h == Append(g, Head(m))
<1>2. h \in Seq(Nat) /\ Len(h) = Len(g) + 1 /\ (\A i \in 1..Len(g) : h[i] = g[i]) /\ h[Len(g) + 1] = m[1]
  BY <1>1
<1>3. Len(g) \in Nat
  BY LenProperties
<1>4. /\ a \in Seq(Nat) /\ Len(a) = Len(g) + 1
      /\ \A i \in 1..Len(g) + 1 : a[i] = h[i]
  <2>1. /\ h \o Tail(m) \in Seq(Nat) /\ Len(h \o Tail(m)) = Len(h) + Len(Tail(m))
        /\ \A i \in 1..Len(h) + Len(Tail(m)) :
             (h \o Tail(m))[i] = IF i <= Len(h) THEN h[i] ELSE Tail(m)[i - Len(h)]
    BY <1>1, <1>2, ConcatProperties
  <2>2. Len(h) + Len(Tail(m)) = Len(g) + 1
    <3> HIDE DEF h
    <3>1. \A n \in Nat : n + 1 + 0 = n + 1
      OBVIOUS
    <3> QED BY <1>1, <1>2, <1>3, <3>1, Zenon
  <2>3. ASSUME NEW i \in 1..Len(g) + 1 PROVE (h \o Tail(m))[i] = h[i]
    <3> HIDE DEF h
    <3>1. i \in 1..Len(h) + Len(Tail(m)) /\ i <= Len(h)
      BY <1>2, <1>3, <2>2
    <3> QED BY <2>1, <3>1
  <2> QED BY <2>1, <2>2, <2>3
<1>5. /\ b \in Seq(Nat) /\ Len(b) = Len(g) + 1
      /\ \A i \in 1..Len(g) + 1 : b[i] = h[i]
  <2>1. /\ g \o m \in Seq(Nat) /\ Len(g \o m) = Len(g) + Len(m)
        /\ \A i \in 1..Len(g) + Len(m) : (g \o m)[i] = IF i <= Len(g) THEN g[i] ELSE m[i - Len(g)]
    BY ConcatProperties
  <2>2. g \o m \in Seq(Nat) /\ Len(g \o m) = Len(g) + 1
    BY <1>1, <2>1
  <2>3. ASSUME NEW i \in 1..Len(g) + 1 PROVE (g \o m)[i] = h[i]
    <3> HIDE DEF h
    <3>1. CASE i \in 1..Len(g)
      BY <1>1, <1>2, <1>3, <2>1, <3>1
    <3>2. CASE i = Len(g) + 1
      BY <1>1, <1>2, <1>3, <2>1, <3>2
    <3> QED BY <1>3, <3>1, <3>2
  <2> QED BY <2>2, <2>3
<1> HIDE DEF a, b, h
<1>6. a = b
  BY <1>4, <1>5, SeqEqual, Zenon
<1> QED BY <1>6 DEF a, b, h

\* Nothing has been handed out at the start.
LEMMA InitInv == Init_52_02 /\ MaxMsg \in Nat => IInv
<1> SUFFICES ASSUME Init_52_02, MaxMsg \in Nat PROVE IInv
  OBVIOUS
<1>1. TypeOK_52_02 /\ spc # "send"
  BY DEF Init_52_02, TypeOK_52_02, Stopped
<1>2. \A c \in Clients_52_02 : Len(Numbers(c)) = 0
  BY DEF Init_52_02, Numbers
<1>3. NumbersUnique
  BY <1>2 DEF NumbersUnique
<1> QED BY <1>1, <1>3 DEF IInv

\* The steps that hand nothing out: all but mq_receive() of a client and
\* mq_send() of the server.
Elsewhere ==
  \/ \E c \in Clients_52_02 :
       Create(c) \/ OpenServerFails(c) \/ Request_52_02(c) \/ Unlink_52_02(c) \/ Kill_52_02(c)
  \/ Sweep \/ Start \/ Take \/ OpenClient \/ Term
  \/ UNCHANGED vars_52_02

\* They leave the numbers alone, and open a queue only after finding its client.
LEMMA ElsewhereInv == ASSUME MaxMsg \in Nat, IInv, Elsewhere PROVE IInv'
<1>1. UNCHANGED <<got, mailbox, seq_num>>
  BY DEF Elsewhere, Create, OpenServerFails, Request_52_02, Unlink_52_02, Kill_52_02,
         Sweep, Start, Take, OpenClient, Term, vars_52_02, client, server_52_02
<1>2. NumbersUnique'
  <2>1. \A c \in Clients_52_02 : Numbers(c)' = Numbers(c)
    BY <1>1 DEF Numbers
  <2> QED BY <1>1, <2>1 DEF IInv, NumbersUnique
<1>3. TypeOK_52_02' /\ (spc' = "send" => peer' \in Clients_52_02)
  <2> USE DEF IInv, TypeOK_52_02, Stopped, client, server_52_02
  <2>1. ASSUME NEW c \in Clients_52_02, Create(c) PROVE <1>3!:
    BY <2>1, Zenon DEF Create
  <2>2. ASSUME NEW c \in Clients_52_02, OpenServerFails(c) \/ Unlink_52_02(c) \/ Kill_52_02(c) PROVE <1>3!:
    BY <2>2, Zenon DEF OpenServerFails, Unlink_52_02, Kill_52_02
  <2>3. ASSUME NEW c \in Clients_52_02, Request_52_02(c) PROVE <1>3!:
    BY <2>3 DEF Request_52_02
  <2>4. CASE Sweep \/ Start \/ Term
    BY <2>4 DEF Sweep, Start, Term
  <2>5. CASE Take
    BY <2>5 DEF Take
  <2>6. CASE OpenClient
    BY <2>6 DEF OpenClient
  <2>7. CASE UNCHANGED vars_52_02
    BY <2>7 DEF vars_52_02
  <2> QED BY <2>1, <2>2, <2>3, <2>4, <2>5, <2>6, <2>7, Zenon DEF Elsewhere
<1> QED BY <1>2, <1>3 DEF IInv

\* A client takes the number from its queue.
LEMMA ReceiveInv == ASSUME NEW c \in Clients_52_02, IInv, Receive_52_02(c) PROVE IInv'
<1>1. /\ got[c] \in Seq(Nat) /\ mailbox[c] \in Seq(Nat) /\ Len(mailbox[c]) <= 1 /\ mailbox[c] # <<>>
      /\ got' = [got EXCEPT ![c] = Append(got[c], Head(mailbox[c]))]
      /\ mailbox' = [mailbox EXCEPT ![c] = Tail(mailbox[c])]
      /\ UNCHANGED <<spc, reqs, peer, seq_num>>
  BY DEF IInv, TypeOK_52_02, Receive_52_02, server_52_02
<1>2. Head(mailbox[c]) \in Nat /\ Tail(mailbox[c]) \in Seq(Nat) /\ Len(Tail(mailbox[c])) = 0
  BY <1>1, AtMostOne
<1>3. Append(got[c], Head(mailbox[c])) \in Seq(Nat)
  BY <1>1, <1>2, AppendProperties
<1>4. TypeOK_52_02' /\ (spc' = "send" => peer' \in Clients_52_02)
  BY <1>1, <1>2, <1>3 DEF IInv, TypeOK_52_02, Receive_52_02, Stopped
<1>5. Append(got[c], Head(mailbox[c])) \o Tail(mailbox[c]) = got[c] \o mailbox[c]
  BY <1>1, MoveKeepsNumbers, Zenon
<1>6. \A d \in Clients_52_02 : Numbers(d)' = Numbers(d)
  BY <1>1, <1>5, Zenon DEF Numbers, IInv, TypeOK_52_02
<1>7. NumbersUnique'
  BY <1>1, <1>6 DEF IInv, NumbersUnique
<1> QED BY <1>4, <1>7 DEF IInv

\* The server puts the next number into an empty queue and counts it.
LEMMA RespondInv == ASSUME IInv, Respond PROVE IInv'
<1> PICK p \in Clients_52_02 : p = peer
  BY DEF IInv, Respond, RespondWith
<1>1. /\ mailbox[p] = <<>> /\ got[p] \in Seq(Nat) /\ seq_num \in Nat
      /\ mailbox' = [mailbox EXCEPT ![p] = <<seq_num>>]
      /\ seq_num' = seq_num + 1 /\ peer' = NoClient /\ spc' = "receive"
      /\ UNCHANGED <<cpc, got, linked, reqs>>
  BY DEF IInv, TypeOK_52_02, Respond, RespondWith, client
<1>2. TypeOK_52_02' /\ spc' # "send"
  BY <1>1 DEF IInv, TypeOK_52_02, Stopped
<1>3. \A d \in Clients_52_02 : Numbers(d) \in Seq(Nat)
  BY ConcatProperties DEF IInv, TypeOK_52_02, Numbers
<1>4. \A d \in Clients_52_02 \ {p} : Numbers(d)' = Numbers(d)
  BY <1>1 DEF Numbers, IInv, TypeOK_52_02
<1>5. /\ Len(Numbers(p)') = Len(Numbers(p)) + 1
      /\ \A i \in 1..Len(Numbers(p)) : Numbers(p)'[i] = Numbers(p)[i]
      /\ Numbers(p)'[Len(Numbers(p)) + 1] = seq_num
  <2>1. Numbers(p) = got[p] \o <<>> /\ Numbers(p)' = got[p] \o <<seq_num>>
    BY <1>1, SMTT(60) DEF Numbers, IInv, TypeOK_52_02
  <2>2. Numbers(p) = got[p]
    BY <1>1, <2>1, ConcatEmptySeq
  <2> QED BY <1>1, <2>1, <2>2
<1>6. \A d \in Clients_52_02 : \A i \in 1..Len(Numbers(d)) : Numbers(d)[i] \in Nat /\ Numbers(d)[i] < seq_num
  BY <1>3, ElementOfSeq DEF IInv, NumbersUnique
<1>7. NumbersUnique'
  <2> SUFFICES ASSUME NEW c \in Clients_52_02, NEW d \in Clients_52_02,
                      NEW i \in 1..Len(Numbers(c)'), NEW j \in 1..Len(Numbers(d)')
               PROVE  /\ Numbers(c)'[i] < seq_num'
                      /\ Numbers(c)'[i] = Numbers(d)'[j] => c = d /\ i = j
    BY Zenon DEF NumbersUnique
  <2>1. \A e \in Clients_52_02 : \A k \in 1..Len(Numbers(e)') :
           \/ k \in 1..Len(Numbers(e)) /\ Numbers(e)'[k] = Numbers(e)[k]
           \/ e = p /\ k = Len(Numbers(p)) + 1 /\ Numbers(e)'[k] = seq_num
    <3> TAKE e \in Clients_52_02
    <3>1. CASE e # p
      BY <1>4, <3>1
    <3>2. CASE e = p
      <4>1. \A n \in Nat : \A k \in 1..n + 1 : k \in 1..n \/ k = n + 1
        OBVIOUS
      <4>2. Len(Numbers(p)) \in Nat
        BY <1>3, LenProperties
      <4> QED BY <1>5, <3>2, <4>1, <4>2
    <3> QED BY <3>1, <3>2
  <2>2. \A n \in Nat : n < seq_num => n < seq_num' /\ n # seq_num
    BY <1>1
  <2>3. seq_num < seq_num'
    BY <1>1
  <2>4. CASE i \in 1..Len(Numbers(c)) /\ Numbers(c)'[i] = Numbers(c)[i]
    <3>1. CASE j \in 1..Len(Numbers(d)) /\ Numbers(d)'[j] = Numbers(d)[j]
      <4>1. Numbers(c)[i] = Numbers(d)[j] => c = d /\ i = j
        BY <2>4, <3>1 DEF IInv, NumbersUnique
      <4> QED BY <1>6, <2>2, <2>4, <3>1, <4>1
    <3>2. CASE Numbers(d)'[j] = seq_num
      BY <1>6, <2>2, <2>4, <3>2
    <3> QED BY <2>1, <3>1, <3>2
  <2>5. CASE c = p /\ i = Len(Numbers(p)) + 1 /\ Numbers(c)'[i] = seq_num
    <3>1. CASE j \in 1..Len(Numbers(d)) /\ Numbers(d)'[j] = Numbers(d)[j]
      BY <1>6, <2>2, <2>3, <2>5, <3>1
    <3>2. CASE d = p /\ j = Len(Numbers(p)) + 1
      BY <2>3, <2>5, <3>2
    <3> QED BY <2>1, <3>1, <3>2
  <2> QED BY <2>1, <2>4, <2>5
<1> QED BY <1>2, <1>7 DEF IInv

\* The inductive invariant of 52-02 holds in every state.
LEMMA Invariance_52_02 == MaxMsg \in Nat => (Spec_52_02 => []IInv)
<1> SUFFICES ASSUME MaxMsg \in Nat PROVE Spec_52_02 => []IInv
  OBVIOUS
<1>1. Init_52_02 => IInv
  BY InitInv
<1>2. IInv /\ [Next_52_02]_vars_52_02 => IInv'
  <2> SUFFICES ASSUME IInv, [Next_52_02]_vars_52_02 PROVE IInv'
    OBVIOUS
  <2>1. CASE Elsewhere
    BY <2>1, ElsewhereInv
  <2>2. ASSUME NEW c \in Clients_52_02, Receive_52_02(c) PROVE IInv'
    BY <2>2, ReceiveInv
  <2>3. CASE Respond
    BY <2>3, RespondInv
  <2> QED BY <2>1, <2>2, <2>3 DEF Next_52_02, Client_52_02, Server_52_02, Elsewhere
<1> QED BY <1>1, <1>2, PTL DEF Spec_52_02

\* Exercise 52-02: over all clients, dead or alive, every number received or
\* waiting in a queue was given out once and is below seq_num, whatever the
\* order of mq_send(), mq_receive(), kills and the removal of left-over queues.
\* Chapter 44: no number is given to two clients, over any number of crashes
\* of 44-3, but for the numbers of an answer that was sent and not yet written
\* to the file when the server was killed.
THEOREM NumbersAlwaysUnique ==
  /\ MaxMsg \in Nat => (Spec_52_02 => []NumbersUnique)
  /\ Lens \subseteq Nat => (Spec_fifo => []NumbersDisjoint)
<1>1. ASSUME MaxMsg \in Nat PROVE Spec_52_02 => []NumbersUnique
  <2>1. IInv => NumbersUnique
    BY DEF IInv
  <2> QED BY <1>1, <2>1, Invariance_52_02, PTL
<1>2. ASSUME Lens \subseteq Nat PROVE Spec_fifo => []NumbersDisjoint
  <2>1. IInv_fifo => NumbersDisjoint
    BY DEF IInv_fifo
  <2> QED BY <1>2, <2>1, InitInv_fifo, NextInv_fifo, PTL DEF Spec_fifo
<1> QED BY <1>1, <1>2

\* The file server on System V queues, for any clients, any sizes of files and
\* queues and any number of clients and forks that fail: a client receives the
\* messages of its own file in order, and all of them when it is done.
THEOREM FilesAlwaysIntact ==
  Parts \subseteq Nat => (Spec_svmsg => []FilesIntact)
<1> SUFFICES ASSUME Parts \subseteq Nat
             PROVE  Spec_svmsg => []FilesIntact
  OBVIOUS
<1>1. Init_svmsg => FileInv
  <2> SUFFICES ASSUME Init_svmsg PROVE FileInv
    OBVIOUS
  <2>1. size \in [Clients_svmsg -> Nat]
    <3>1. Parts \cup {Missing} \subseteq Nat
      BY DEF Missing
    <3> QED BY <3>1 DEF Init_svmsg
  <2>2. /\ part \in [Clients_svmsg -> Nat]
        /\ cst \in [Clients_svmsg -> {"start", "sent", "done", "failed", "killed"}]
        /\ child \in [Clients_svmsg -> {"none", "open", "send", "zombie", "reaped"}]
        /\ queue \in [Clients_svmsg -> Seq(Answers)] /\ got \in [Clients_svmsg -> Seq(Answers)]
    BY DEF Init_svmsg
  <2>3. RequestsOK
    BY DEF Init_svmsg, RequestsOK
  <2>4. ASSUME NEW n \in Nat PROVE Flow(n, <<>>, <<>>, 0) /\ Begins(n, <<>>)
    <3>1. Total(n) \in Nat
      BY LetterAnswers
    <3> QED BY <3>1 DEF Flow, Begins
  <2>5. \A c \in Clients_svmsg : Served1(size[c], cst[c], child[c], part[c], got[c], queue[c])
    BY <2>1, <2>4 DEF Init_svmsg, Served1
  <2> QED BY <2>1, <2>2, <2>3, <2>5 DEF FileInv
<1>2. FileInv /\ [Next_svmsg]_vars_svmsg => FileInv'
  <2> SUFFICES ASSUME FileInv, [Next_svmsg]_vars_svmsg
               PROVE  FileInv'
    BY SMTT(60)
  <2>1. CASE UNCHANGED vars_svmsg
    BY <2>1, Zenon DEF vars_svmsg, FileInv, RequestsOK
  <2>2. CASE Server_svmsg
    BY <2>2, SvServerInv, SvReapInv DEF Server_svmsg
  <2>3. CASE Others
    BY <2>3, SvSendInv, SvReceiveInv, SvChildInv DEF Others
  <2>4. CASE \E c \in Clients_svmsg : Leave(c)
    BY <2>4, SvLeaveInv, SMTT(60)
  <2> QED BY <2>1, <2>2, <2>3, <2>4 DEF Next_svmsg
<1>3. FileInv => FilesIntact
  <2> SUFFICES ASSUME FileInv, NEW c \in Clients_svmsg
               PROVE  /\ got[c] = SubSeq(File(c), 1, Len(got[c]))
                      /\ cst[c] = "done" => got[c] = File(c)
    BY SMTT(60) DEF FilesIntact
  <2> DEFINE n == size[c]
             g == got[c]
  <2>1. /\ n \in Nat /\ Begins(n, g) /\ Total(n) \in Nat
        /\ cst[c] = "done" => Len(g) = Total(n)
    BY LetterAnswers DEF FileInv, Served1
  <2>2. /\ File(c) \in Seq(Answers) /\ Len(File(c)) = Total(n)
        /\ \A i \in 1..Total(n) : File(c)[i] = Letter(n, i)
    <3>1. CASE n = Missing
      BY <3>1 DEF File, Total, Letter, Answers
    <3>2. CASE n # Missing
      <4>1. File(c) = [i \in 1..(n + 1) |-> Letter(n, i)] /\ Total(n) = n + 1 /\ n + 1 \in Nat
        BY <2>1, <3>2 DEF File, Total, Letter
      <4>2. \A i \in 1..(n + 1) : Letter(n, i) \in Answers
        <5>1. \A i \in 1..(n + 1) : i \in Nat
          OBVIOUS
        <5> QED BY <2>1, <5>1, LetterAnswers, SMTT(60)
      <4> QED BY <4>1, <4>2, SMTT(60)
    <3> QED BY <3>1, <3>2
  <2>3. /\ g \in Seq(Answers) /\ Len(g) \in Nat /\ Len(g) <= Total(n)
        /\ \A i \in 1..Len(g) : i \in 1..Total(n) /\ g[i] = Letter(n, i)
    <3>1. g \in Seq(Answers) /\ Len(g) \in Nat /\ Len(g) <= Total(n)
      BY <2>1 DEF Begins
    <3> QED BY <2>1, <3>1 DEF Begins
  <2>4. g = SubSeq(File(c), 1, Len(g))
    <3> DEFINE t == SubSeq(File(c), 1, Len(g))
    <3>1. /\ t \in Seq(Answers) /\ Len(t) = Len(g)
          /\ \A i \in 1..Len(g) : t[i] = File(c)[i]
      BY <2>1, <2>2, <2>3, SubSeqProperties, SMTT(60)
    <3> HIDE DEF t
    <3>2. \A i \in 1..Len(g) : t[i] = g[i]
      BY <2>2, <2>3, <3>1, SMTT(60)
    <3>3. t = g
      BY <2>3, <3>1, <3>2, SeqEqual, SMTT(60)
    <3> QED BY <3>3 DEF t
  <2>5. Len(g) = Total(n) => g = File(c)
    BY <2>2, <2>3, SeqEqual
  <2> QED BY <2>1, <2>4, <2>5, SMTT(60)
<1> QED BY <1>1, <1>2, <1>3, PTL DEF Spec_svmsg
=============================================================================
