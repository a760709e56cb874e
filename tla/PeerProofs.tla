----------------------------- MODULE PeerProofs -----------------------------
(***************************************************************************)
(* Safety of two exercises in which equals exchange data: the chat of      *)
(* 52-04 on POSIX message queues, for any users, and the transfer of       *)
(* 54-01 through shared memory, for every set of blocks, every input and   *)
(* every combination of faults.                                            *)
(***************************************************************************)
EXTENDS ChatMq, ShmTransfer, TLAPS

-----------------------------------------------------------------------------
(* The chat of 52-04                                                       *)

Starts == 1..MaxStarts
States == {"off"} \cup Running
\* where a process knows its peer, and where it has opened its peer's queue
Knowing == {"open", "accept", "invoke", "start", "wait", "chat"}
Opened == {"accept", "start", "wait", "chat"}
Msgs == {"START", "ACCEPTED", "MSG"} \X Users \X Nat
\* the messages in queue n of user u
In(b, u, n) == {b[u][n][i] : i \in 1..Len(b[u][n])}

\* Nobody sends to itself, and what a process finds in its queue was sent
\* after it was started.
Fresh(m, u, n) == m[2] # u /\ (n = inst[u] => m[3] = n)
BoxOK(b) ==
  /\ b \in [Users -> [Starts -> Seq(Msgs)]]
  /\ \A u \in Users, n \in Starts : \A m \in In(b, u, n) : Fresh(m, u, n)

\* The types, and what every process keeps to: it sends to queues that were
\* created, never to its own, and a message in the queue that a process reads
\* was sent after the process was started.
ChatInv ==
  /\ inst \in [Users -> Nat] /\ \A u \in Users : inst[u] <= MaxStarts
  /\ ust \in [Users -> States]
  /\ linked \in [Users -> 0..Orphan]
  /\ BoxOK(box)
  /\ peer \in [Users -> Users \cup {NoUser}] /\ pq \in [Users -> Nat]
  /\ heard \in [Users -> SUBSET Msgs]
  /\ \A u \in Users :
       /\ ust[u] # "off" => inst[u] \in Starts
       /\ ust[u] \in Knowing => peer[u] \in Users \ {u}
       /\ ust[u] \in Opened => pq[u] \in Starts \cup {Orphan}
       /\ ust[u] # "chat" => heard[u] = {}
       /\ \A m \in heard[u] : m[2] # u /\ m[3] = inst[u]

\* b and c differ in queue n of user p only.
Differ(b, c, p, n) ==
  /\ c \in [Users -> [Starts -> Seq(Msgs)]]
  /\ \A u \in Users, k \in Starts : ~(u = p /\ k = n) => c[u][k] = b[u][k]

\* mq_send() adds a message to one queue.
Added(b, c, p, n, m) == Differ(b, c, p, n) /\ c[p][n] = Append(b[p][n], m)

\* The messages of the queue are then those before and the new one.
LEMMA PutBox ==
  ASSUME NEW b \in [Users -> [Starts -> Seq(Msgs)]], NEW p \in Users, NEW n \in Starts,
         NEW m \in Msgs, NEW c, Added(b, c, p, n, m)
  PROVE  /\ In(c, p, n) = In(b, p, n) \cup {m}
         /\ \A u \in Users, k \in Starts : ~(u = p /\ k = n) => In(c, u, k) = In(b, u, k)
<1> USE DEF Added
<1>1. In(c, p, n) = In(b, p, n) \cup {m}
  <2> DEFINE s == b[p][n]
  <2>1. s \in Seq(Msgs) /\ Len(s) \in Nat
    OBVIOUS
  <2> HIDE DEF s
  <2>2. /\ Len(Append(s, m)) = Len(s) + 1 /\ Append(s, m)[Len(s) + 1] = m
        /\ \A i \in 1..Len(s) : Append(s, m)[i] = s[i]
    BY <2>1
  <2>3. {Append(s, m)[i] : i \in 1..Len(Append(s, m))} = {s[i] : i \in 1..Len(s)} \cup {m}
    <3>1. \A i \in 1..(Len(s) + 1) : i \in 1..Len(s) \/ i = Len(s) + 1
      BY <2>1
    <3>2. \A i \in 1..Len(s) : i \in 1..(Len(s) + 1)
      BY <2>1
    <3>3. Len(s) + 1 \in 1..(Len(s) + 1)
      BY <2>1
    <3> QED BY <2>2, <3>1, <3>2, <3>3
  <2> QED BY <2>3, Zenon DEF In, s
<1>2. \A u \in Users, k \in Starts : ~(u = p /\ k = n) => In(c, u, k) = In(b, u, k)
  BY DEF In, Differ
<1> QED BY <1>1, <1>2

\* mq_receive() takes the first message of one queue.
Taken(b, c, p, n) == b[p][n] # <<>> /\ Differ(b, c, p, n) /\ c[p][n] = Tail(b[p][n])

\* The queues then hold no message that they did not hold before.
LEMMA PopBox ==
  ASSUME NEW b \in [Users -> [Starts -> Seq(Msgs)]], NEW p \in Users, NEW n \in Starts,
         NEW c, Taken(b, c, p, n)
  PROVE  /\ \A u \in Users, k \in Starts : In(c, u, k) \subseteq In(b, u, k)
         /\ Head(b[p][n]) \in In(b, p, n) /\ Head(b[p][n]) \in Msgs
<1> USE DEF Taken
<1> DEFINE s == b[p][n]
<1>1. s \in Seq(Msgs) /\ Len(s) \in Nat /\ Len(s) > 0 /\ s # <<>>
  OBVIOUS
<1> HIDE DEF s
<1>2. Head(s) = s[1] /\ Head(s) \in Msgs /\ 1 \in 1..Len(s)
  BY <1>1
<1>3. /\ Len(Tail(s)) = Len(s) - 1
      /\ \A i \in 1..Len(Tail(s)) : Tail(s)[i] = s[i + 1] /\ i + 1 \in 1..Len(s)
  BY <1>1
<1>4. In(c, p, n) \subseteq In(b, p, n)
  BY <1>3 DEF In, s
<1>5. Head(s) \in In(b, p, n)
  BY <1>2 DEF In, s
<1>6. \A u \in Users, k \in Starts : ~(u = p /\ k = n) => In(c, u, k) = In(b, u, k)
  BY DEF In, Differ
<1> QED BY <1>2, <1>4, <1>5, <1>6 DEF s

\* Both keep the queues as they should be.
LEMMA PutOK ==
  ASSUME NEW b, BoxOK(b), NEW p \in Users, NEW n \in Starts, NEW u \in Users \ {p},
         inst[p] \in Nat, NEW t \in {"START", "ACCEPTED", "MSG"}
  PROVE  BoxOK([b EXCEPT ![p][n] = Append(@, <<t, u, inst[p]>>)])
<1> DEFINE m == <<t, u, inst[p]>>
           c == [b EXCEPT ![p][n] = Append(@, m)]
<1>1. m \in Msgs /\ m[2] = u /\ m[3] = inst[p]
  BY DEF Msgs
<1> HIDE DEF m
<1>2. b \in [Users -> [Starts -> Seq(Msgs)]]
  BY DEF BoxOK
<1>3. Added(b, c, p, n, m)
  BY <1>1, <1>2 DEF Differ, Added
<1> HIDE DEF c
<1>4. /\ In(c, p, n) = In(b, p, n) \cup {m}
      /\ \A v \in Users, k \in Starts : ~(v = p /\ k = n) => In(c, v, k) = In(b, v, k)
  BY <1>1, <1>2, <1>3, PutBox
<1>5. ASSUME NEW v \in Users, NEW k \in Starts, NEW x \in In(c, v, k)
      PROVE  Fresh(x, v, k)
  <2>1. x \in In(b, v, k) \/ (x = m /\ v = p)
    BY <1>4, <1>5
  <2>2. CASE x \in In(b, v, k)
    BY <2>2 DEF BoxOK
  <2>3. CASE x = m /\ v = p
    BY <1>1, <2>3 DEF Fresh
  <2> QED BY <2>1, <2>2, <2>3
<1>6. BoxOK(c)
  BY <1>3, <1>5 DEF BoxOK, Differ, Added
<1> QED BY <1>6 DEF c, m

\* The same for a queue that may be an orphan.
LEMMA PutAnyOK ==
  ASSUME NEW b, BoxOK(b), NEW p \in Users, NEW n \in Starts \cup {Orphan}, NEW u \in Users \ {p},
         inst[p] \in Nat, NEW t \in {"START", "ACCEPTED", "MSG"}
  PROVE  BoxOK(Put(b, t, u, p, n))
<1>1. CASE n = Orphan
  BY <1>1 DEF Put
<1>2. CASE n # Orphan
  <2>1. Put(b, t, u, p, n) = [b EXCEPT ![p][n] = Append(@, <<t, u, inst[p]>>)]
    BY <1>2, Zenon DEF Put
  <2>2. BoxOK([b EXCEPT ![p][n] = Append(@, <<t, u, inst[p]>>)])
    BY <1>2, PutOK
  <2> QED BY <2>1, <2>2
<1> QED BY <1>1, <1>2

\* Receiving keeps the contents right, and what is received was meant for
\* the process that reads.
LEMMA PopOK ==
  ASSUME NEW b, BoxOK(b), NEW p \in Users, NEW n \in Starts, b[p][n] # <<>>
  PROVE  /\ BoxOK([b EXCEPT ![p][n] = Tail(@)])
         /\ Head(b[p][n]) \in Msgs /\ Fresh(Head(b[p][n]), p, n)
<1> DEFINE c == [b EXCEPT ![p][n] = Tail(@)]
<1>1. b \in [Users -> [Starts -> Seq(Msgs)]]
  BY DEF BoxOK
<1>2. Taken(b, c, p, n)
  BY <1>1 DEF Taken, Differ
<1> HIDE DEF c
<1>3. /\ \A u \in Users, k \in Starts : In(c, u, k) \subseteq In(b, u, k)
      /\ Head(b[p][n]) \in In(b, p, n) /\ Head(b[p][n]) \in Msgs
  BY <1>1, <1>2, PopBox
<1>4. BoxOK(c)
  BY <1>2, <1>3 DEF BoxOK, Taken, Differ
<1>5. Fresh(Head(b[p][n]), p, n)
  BY <1>3 DEF BoxOK
<1> QED BY <1>3, <1>4, <1>5 DEF c

\* The queues are empty at first, and nobody has heard anything.
LEMMA ChatInitInv == MaxStarts \in Nat /\ Init_52_04 => ChatInv
<1> SUFFICES ASSUME MaxStarts \in Nat, Init_52_04 PROVE ChatInv
  OBVIOUS
<1>1. box \in [Users -> [Starts -> Seq(Msgs)]]
  BY DEF Init_52_04, Starts
<1>2. \A u \in Users, n \in Starts : In(box, u, n) = {}
  BY DEF Init_52_04, Starts, In
<1>3. BoxOK(box)
  BY <1>1, <1>2 DEF BoxOK
<1> QED BY <1>3 DEF Init_52_04, ChatInv, Starts, States, Knowing, Opened, Orphan

\* mq_open() of a new listen-queue, or the failure to do so.
LEMMA ChatStartInv ==
  ASSUME MaxStarts \in Nat, ChatInv, NEW u \in Users, Start(u)
  PROVE  ChatInv'
<1> USE DEF ChatInv
<1>1. CASE linked' = [linked EXCEPT ![u] = 0] /\ UNCHANGED <<ust, inst, peer, box, pq, heard>>
  <2>1. linked' \in [Users -> 0..Orphan]
    BY <1>1 DEF Orphan
  <2>2. BoxOK(box)'
    <3>1. BoxOK(box) /\ box' = box /\ inst' = inst
      BY <1>1
    <3> HIDE DEF ChatInv
    <3> QED BY <3>1 DEF BoxOK, In, Fresh
  <2> QED BY <1>1, <2>1, <2>2, Zenon
<1>2. CASE /\ ust[u] = "off" /\ inst[u] < MaxStarts
           /\ inst' = [inst EXCEPT ![u] = @ + 1]
           /\ box' = [box EXCEPT ![u][inst[u] + 1] = <<>>]
           /\ linked' = [linked EXCEPT ![u] = inst[u] + 1]
           /\ \/ ust' = [ust EXCEPT ![u] = "listen"] /\ peer' = peer
              \/ \E p \in Users \ {u} :
                   ust' = [ust EXCEPT ![u] = "invoke"] /\ peer' = [peer EXCEPT ![u] = p]
           /\ UNCHANGED <<pq, heard>>
  <2> DEFINE k == inst[u] + 1
  <2>1. k \in Starts /\ k \in Nat /\ k <= MaxStarts
    BY <1>2 DEF Starts
  <2>2. inst' \in [Users -> Nat] /\ inst'[u] = k /\ linked' \in [Users -> 0..Orphan]
    BY <1>2, <2>1 DEF Orphan
  <2>3. \A v \in Users \ {u} : inst'[v] = inst[v] /\ ust'[v] = ust[v] /\ peer'[v] = peer[v]
    BY <1>2
  <2>4. /\ ust' \in [Users -> States]
        /\ peer' \in [Users -> Users \cup {NoUser}]
        /\ ust'[u] \in {"listen", "invoke"}
        /\ ust'[u] = "invoke" => peer'[u] \in Users \ {u}
    <3>1. CASE ust' = [ust EXCEPT ![u] = "listen"] /\ peer' = peer
      BY <3>1 DEF States, Running
    <3>2. CASE \E p \in Users \ {u} :
                 ust' = [ust EXCEPT ![u] = "invoke"] /\ peer' = [peer EXCEPT ![u] = p]
      BY <3>2 DEF States, Running
    <3> QED BY <1>2, <3>1, <3>2
  <2>5. /\ box' \in [Users -> [Starts -> Seq(Msgs)]] /\ box'[u][k] = <<>>
        /\ \A v \in Users, n \in Starts : ~(v = u /\ n = k) => box'[v][n] = box[v][n]
    BY <1>2, <2>1 DEF BoxOK
  <2> HIDE DEF k
  <2>6. In(box', u, k) = {}
    BY <2>5 DEF In
  <2>7. \A v \in Users, n \in Starts : ~(v = u /\ n = k) => In(box', v, n) = In(box, v, n)
    BY <2>5, SMTT(60) DEF In
  <2>8. BoxOK(box)'
    <3>1. ASSUME NEW v \in Users, NEW n \in Starts, NEW m \in In(box', v, n)
          PROVE  m[2] # v /\ (n = inst'[v] => m[3] = n)
      <4>1. ~(v = u /\ n = k) /\ m \in In(box, v, n)
        BY <2>6, <2>7, <3>1
      <4>2. m[2] # v /\ (n = inst[v] => m[3] = n)
        BY <4>1 DEF BoxOK, Fresh
      <4>3. n = inst'[v] => n = inst[v]
        BY <2>2, <2>3, <4>1
      <4> QED BY <4>2, <4>3
    <3> QED BY <2>5, <3>1, Zenon DEF BoxOK, In, Fresh
  <2>9. heard[u] = {} /\ heard' = heard /\ pq' = pq
    <3>1. ust[u] # "chat" => heard[u] = {}
      OBVIOUS
    <3> HIDE DEF ChatInv
    <3> QED BY <1>2, <3>1
  <2> QED BY <1>2, <2>1, <2>2, <2>3, <2>4, <2>8, <2>9 DEF Knowing, Opened
<1> QED BY <1>1, <1>2, Zenon DEF Start, StartOn

\* No process starts in the step.
LEMMA SameStarts ==
  ASSUME BoxOK(box'), inst' = inst
  PROVE  BoxOK(box)'
BY DEF BoxOK, In, Fresh

\* The process ends, by exit_err() or by a signal.
LEMMA ChatLeaveInv ==
  ASSUME MaxStarts \in Nat, ChatInv, NEW u \in Users, Leave(u),
         Unlink_52_04(u) \/ UNCHANGED linked, BoxOK(box'), inst' = inst
  PROVE  ChatInv'
<1> USE DEF ChatInv
<1>1. linked' \in [Users -> 0..Orphan]
  <2>1. 0 \in 0..Orphan /\ Orphan \in 0..Orphan
    BY DEF Orphan
  <2>2. CASE UNCHANGED linked
    BY <2>2
  <2>3. CASE Unlink_52_04(u)
    <3>1. PICK l \in {0, Orphan} : linked' = [linked EXCEPT ![u] = l]
      BY <2>3, Zenon DEF Unlink_52_04
    <3> QED BY <2>1, <3>1
  <2> QED BY <2>2, <2>3
<1>2. /\ ust' = [ust EXCEPT ![u] = "off"] /\ peer' = [peer EXCEPT ![u] = NoUser]
      /\ pq' = [pq EXCEPT ![u] = 0] /\ heard' = [heard EXCEPT ![u] = {}]
  BY DEF Leave
<1>3. BoxOK(box)'
  BY SameStarts
<1> QED BY <1>1, <1>2, <1>3 DEF States, Knowing, Opened

\* listen_user(): what is received.
LEMMA ChatListenInv ==
  ASSUME MaxStarts \in Nat, ChatInv, NEW u \in Users, Listen(u)
  PROVE  ChatInv'
<1> USE DEF ChatInv
<1> DEFINE m == Head(box[u][inst[u]])
<1>1. /\ ust[u] = "listen" /\ inst[u] \in Starts /\ box[u][inst[u]] # <<>>
      /\ box' = [box EXCEPT ![u][inst[u]] = Tail(@)]
      /\ UNCHANGED <<inst, linked, pq, heard>>
  BY DEF Listen, Box, Pop
<1>2. BoxOK(box') /\ m \in Msgs /\ Fresh(m, u, inst[u])
  <2>1. BoxOK(box)
    OBVIOUS
  <2> HIDE DEF ChatInv
  <2> QED BY <1>1, <2>1, PopOK, Zenon
<1>3. m[2] \in Users \ {u}
  BY <1>2 DEF Msgs, Fresh
<1>4. \/ ust' = [ust EXCEPT ![u] = "open"] /\ peer' = [peer EXCEPT ![u] = m[2]]
      \/ UNCHANGED <<ust, peer>>
  BY DEF Listen, Box
<1> HIDE DEF m
<1>5. BoxOK(box)'
  BY <1>1, <1>2, SameStarts
<1>6. CASE UNCHANGED <<ust, peer>>
  BY <1>1, <1>5, <1>6
<1>7. CASE ust' = [ust EXCEPT ![u] = "open"] /\ peer' = [peer EXCEPT ![u] = m[2]]
  BY <1>1, <1>3, <1>5, <1>7, SMTT(60) DEF States, Running, Knowing, Opened
<1> QED BY <1>4, <1>6, <1>7

\* listen_user() and invoke_peer(): the queue of the peer is opened, or not.
LEMMA ChatOpenInv ==
  ASSUME MaxStarts \in Nat, ChatInv, NEW u \in Users, ListenOpen(u) \/ Invoke(u)
  PROVE  ChatInv'
<1> USE DEF ChatInv
<1>1. /\ ust[u] \in {"open", "invoke"} /\ UNCHANGED <<inst, box>>
      /\ peer[u] \in Users \ {u}
  BY DEF ListenOpen, Invoke, Knowing
<1>2. BoxOK(box') /\ BoxOK(box)'
  <2>1. BoxOK(box')
    BY <1>1
  <2> QED BY <1>1, <2>1, SameStarts
<1>3. CASE ExitErr(u)
  BY <1>1, <1>2, <1>3, ChatLeaveInv DEF ExitErr
<1>4. CASE /\ OpenPeer(u, peer[u]) /\ UNCHANGED <<linked, peer, heard>>
           /\ \E x \in {"accept", "start"} : ust' = [ust EXCEPT ![u] = x]
  <2>1. linked[peer[u]] \in Starts \cup {Orphan} /\ pq' = [pq EXCEPT ![u] = linked[peer[u]]]
    BY <1>1, <1>4 DEF OpenPeer, Starts, Orphan
  <2>2. linked[peer[u]] \in Nat
    BY <2>1 DEF Starts, Orphan
  <2> QED BY <1>1, <1>2, <1>4, <2>1, <2>2, SMTT(60) DEF States, Running, Knowing, Opened
<1>5. CASE ust' = [ust EXCEPT ![u] = "listen"] /\ UNCHANGED <<linked, peer, pq, heard>>
  BY <1>1, <1>2, <1>5, SMTT(60) DEF States, Running, Knowing, Opened
<1> QED BY <1>3, <1>4, <1>5, Zenon DEF ListenOpen, Invoke

\* invoke_peer(): the answer.
LEMMA ChatAnswerInv ==
  ASSUME MaxStarts \in Nat, ChatInv, NEW u \in Users, Answer(u)
  PROVE  ChatInv'
<1> USE DEF ChatInv
<1>1. /\ ust[u] = "wait" /\ inst[u] \in Starts /\ box[u][inst[u]] # <<>> /\ inst' = inst
      /\ box' = [box EXCEPT ![u][inst[u]] = Tail(@)]
  BY DEF Answer, Box, Pop
<1>2. BoxOK(box')
  <2>1. BoxOK(box)
    OBVIOUS
  <2> HIDE DEF ChatInv
  <2> QED BY <1>1, <2>1, PopOK, Zenon
<1>3. CASE ust' = [ust EXCEPT ![u] = "chat"] /\ UNCHANGED <<linked, peer, pq, lines, heard>>
  <2>1. BoxOK(box)'
    BY <1>1, <1>2, SameStarts
  <2> QED BY <1>1, <1>3, <2>1, SMTT(30) DEF States, Running, Knowing, Opened
<1>4. CASE ExitErr(u)
  BY <1>1, <1>2, <1>4, ChatLeaveInv, Zenon DEF ExitErr
<1> QED BY <1>3, <1>4 DEF Answer

\* mq_send() of START, ACCEPTED or a line.
Sending(u) ==
  \/ SendTo(u, "START", "start", "wait")
  \/ SendTo(u, "ACCEPTED", "accept", "chat")
  \/ SendTo(u, "MSG", "chat", "chat")

LEMMA ChatSendInv ==
  ASSUME MaxStarts \in Nat, ChatInv, NEW u \in Users, Sending(u)
  PROVE  ChatInv'
<1> USE DEF ChatInv
<1>1. PICK t \in {"START", "ACCEPTED", "MSG"}, to \in {"wait", "chat"} :
        /\ ust[u] \in Opened /\ (ust[u] = "chat" => to = "chat")
        /\ box' = Put(box, t, u, peer[u], pq[u])
        /\ ust' = [ust EXCEPT ![u] = to]
        /\ UNCHANGED <<inst, linked, peer, pq, heard>>
  BY SMTT(60) DEF Sending, SendTo, Opened
<1>2. peer[u] \in Users \ {u} /\ pq[u] \in Starts \cup {Orphan} /\ ust[u] # "off"
  BY <1>1 DEF Knowing, Opened
<1>3. BoxOK(box')
  BY <1>1, <1>2, PutAnyOK, Zenon
<1>4. BoxOK(box)'
  BY <1>1, <1>3, SameStarts
<1>5. ust'[u] = to /\ \A v \in Users \ {u} : ust'[v] = ust[v]
  BY <1>1
<1>6. ust' \in [Users -> States]
  BY <1>1 DEF States, Running
<1> QED BY <1>1, <1>2, <1>4, <1>5, <1>6, SMTT(60) DEF Opened, Knowing

\* receive_msg_entry() prints a message or passes it over.
LEMMA ChatReceiveInv ==
  ASSUME MaxStarts \in Nat, ChatInv, NEW u \in Users, Receive_52_04(u)
  PROVE  ChatInv'
<1> USE DEF ChatInv
<1> DEFINE m == Head(box[u][inst[u]])
<1>1. /\ ust[u] = "chat" /\ inst[u] \in Starts /\ box[u][inst[u]] # <<>>
      /\ box' = [box EXCEPT ![u][inst[u]] = Tail(@)]
      /\ UNCHANGED <<ust, inst, linked, peer, pq>>
      /\ heard' = heard \/ heard' = [heard EXCEPT ![u] = @ \cup {m}]
  BY DEF Receive_52_04, ReceiveIf, Box, Pop
<1>2. BoxOK(box') /\ m \in Msgs /\ Fresh(m, u, inst[u])
  <2>1. BoxOK(box)
    OBVIOUS
  <2> HIDE DEF ChatInv
  <2> QED BY <1>1, <2>1, PopOK, Zenon
<1> HIDE DEF m
<1>3. BoxOK(box)'
  BY <1>1, <1>2, SameStarts
<1>4. CASE heard' = heard
  BY <1>1, <1>3, <1>4
<1>5. CASE heard' = [heard EXCEPT ![u] = @ \cup {m}]
  <2>1. /\ heard' \in [Users -> SUBSET Msgs] /\ heard'[u] = heard[u] \cup {m}
        /\ \A v \in Users \ {u} : heard'[v] = heard[v]
    BY <1>2, <1>5
  <2>2. m[2] # u /\ m[3] = inst[u]
    BY <1>2 DEF Fresh
  <2>3. \A x \in heard'[u] : x[2] # u /\ x[3] = inst'[u]
    BY <1>1, <2>1, <2>2
  <2> QED BY <1>1, <1>3, <2>1, <2>3, ZenonT(60)
<1> QED BY <1>1, <1>4, <1>5, SMTT(30)

\* Every step keeps the invariant.
LEMMA ChatNextInv ==
  ASSUME MaxStarts \in Nat, ChatInv, [Next_52_04]_vars_52_04
  PROVE  ChatInv'
<1>1. CASE Next_52_04
  <2>1. PICK u \in Users : Start(u) \/ Process(u) \/ Receive_52_04(u) \/ Quit(u)
    BY <1>1 DEF Next_52_04
  <2>2. CASE Quit(u)
    <3>1. inst' = inst /\ box' = box /\ Leave(u) /\ (Unlink_52_04(u) \/ UNCHANGED linked)
      BY <2>2 DEF Quit, ExitErr
    <3>2. BoxOK(box')
      BY <3>1 DEF ChatInv
    <3> QED BY <3>1, <3>2, ChatLeaveInv
  <2> QED BY <2>1, <2>2, ChatStartInv, ChatListenInv, ChatOpenInv, ChatAnswerInv, ChatSendInv,
             ChatReceiveInv DEF Process, Accept, SendStart, Send, Sending
<1>2. CASE UNCHANGED vars_52_04
  BY <1>2 DEF vars_52_04, ChatInv, BoxOK, In, Fresh
<1> QED BY <1>1, <1>2

\* Where every user starts the program once, a message ties two users: the
\* one it is about talks, or is about to talk, to the other or is gone for
\* good.
Gone(u) == ust[u] = "off" /\ inst[u] = 1
Tied(u, v) == Gone(u) \/ (ust[u] \in {"wait", "chat"} /\ peer[u] = v)
\* about to accept a peer, or talking to it
Bound == {"open", "accept", "chat"}
Talks(u, v) == Gone(u) \/ (ust[u] = "chat" /\ peer[u] = v)
LetterOK(m, u) ==
  /\ m[1] = "START" => Tied(m[2], u)
  /\ m[1] = "ACCEPTED" => Tied(u, m[2]) /\ Talks(m[2], u)
  /\ m[1] = "MSG" => Tied(u, m[2])
OnceInv ==
  /\ \A u \in Users : \A m \in In(box, u, 1) : LetterOK(m, u)
  /\ \A u \in Users : ust[u] \in Bound => Tied(peer[u], u)
  /\ \A u \in Users : \A m \in heard[u] : m[2] = peer[u]

\* No step unties two users.
LEMMA TiesStay ==
  ASSUME MaxStarts = 1, ChatInv, NEW w \in Users,
         Start(w) \/ Process(w) \/ Receive_52_04(w) \/ Quit(w)
  PROVE  /\ \A u, v \in Users : (Tied(u, v) => Tied(u, v)') /\ (Talks(u, v) => Talks(u, v)')
         /\ \A m \in Msgs, u \in Users : LetterOK(m, u) => LetterOK(m, u)'
<1>1. /\ \A u \in Users \ {w} : ust'[u] = ust[u] /\ inst'[u] = inst[u] /\ peer'[u] = peer[u]
      /\ \/ inst[w] = 0
         \/ inst'[w] = inst[w] /\ ust[w] \in {"listen", "open", "accept", "invoke", "start"}
         \/ inst'[w] = inst[w] /\ ust'[w] = "off" /\ ust[w] # "off"
         \/ inst'[w] = inst[w] /\ ust'[w] = ust[w] /\ peer'[w] = peer[w]
         \/ inst'[w] = inst[w] /\ ust[w] = "wait" /\ ust'[w] = "chat" /\ peer'[w] = peer[w]
  <2> USE DEF ChatInv
  <2>1. CASE Start(w)
    <3>1. inst[w] = 0
      BY <2>1 DEF Start, StartOn
    <3>2. \A u \in Users \ {w} : ust'[u] = ust[u] /\ inst'[u] = inst[u] /\ peer'[u] = peer[u]
      BY <2>1, SMTT(30) DEF Start, StartOn
    <3> QED BY <3>1, <3>2
  <2>2. CASE Listen(w) \/ ListenOpen(w)
    BY <2>2, SMTT(30) DEF Listen, ListenOpen
  <2>3. CASE Invoke(w)
    BY <2>3, SMTT(30) DEF Invoke, ExitErr, Leave
  <2>4. CASE Answer(w)
    BY <2>4 DEF Answer, ExitErr, Leave
  <2>5. CASE Sending(w) \/ Receive_52_04(w)
    BY <2>5, SMTT(30) DEF Sending, SendTo, Receive_52_04, ReceiveIf
  <2>6. CASE Quit(w)
    BY <2>6 DEF Quit, ExitErr, Leave, Running
  <2> QED BY <2>1, <2>2, <2>3, <2>4, <2>5, <2>6 DEF Process, Accept, SendStart, Send, Sending
<1>2. ust[w] # "off" => inst[w] = 1
  BY DEF ChatInv, Starts
<1>3. ust[w] # "off" => inst[w] # 0
  BY <1>2
<1>4. Gone(w) => inst'[w] = inst[w] /\ ust'[w] = ust[w]
  BY <1>1 DEF Gone
<1>5. ust[w] \in {"wait", "chat"} =>
        \/ ust'[w] = "off" /\ inst'[w] = 1
        \/ /\ ust'[w] \in {"wait", "chat"} /\ peer'[w] = peer[w]
           /\ ust[w] = "chat" => ust'[w] = "chat"
  BY <1>1, <1>2, <1>3
<1>6. \A u, v \in Users : (Tied(u, v) => Tied(u, v)') /\ (Talks(u, v) => Talks(u, v)')
  BY <1>1, <1>4, <1>5, SMTT(30) DEF Tied, Talks, Gone
<1> QED BY <1>6, SMTT(30) DEF LetterOK, Msgs

\* What a step must do to keep the invariant, given that no tie is lost.
Kept ==
  /\ \A u \in Users : \A m \in In(box', u, 1) : m \in In(box, u, 1) \/ LetterOK(m, u)'
  /\ \A u \in Users : ust'[u] \in Bound =>
       (ust[u] \in Bound /\ peer'[u] = peer[u]) \/ Tied(peer[u], u)'
  /\ \A u \in Users : \A m \in heard'[u] :
       (m \in heard[u] /\ peer'[u] = peer[u]) \/ m[2] = peer'[u]

\* Nobody can start again, so that no tie is lost.
LEMMA KeptInv ==
  ASSUME MaxStarts = 1, ChatInv, OnceInv, Kept, NEW w \in Users,
         Start(w) \/ Process(w) \/ Receive_52_04(w) \/ Quit(w)
  PROVE  OnceInv'
<1>1. ASSUME NEW u \in Users, NEW m \in In(box', u, 1)
      PROVE  LetterOK(m, u)'
  <2>1. CASE m \in In(box, u, 1)
    <3>1. m \in Msgs
      BY <2>1, SMTT(30) DEF ChatInv, BoxOK, In, Starts
    <3> QED BY <2>1, <3>1, TiesStay DEF OnceInv
  <2> QED BY <1>1, <2>1 DEF Kept
<1>2. ASSUME NEW u \in Users, ust'[u] \in Bound
      PROVE  Tied(peer[u], u)'
  <2>1. CASE ust[u] \in Bound /\ peer'[u] = peer[u]
    <3>1. PICK v \in Users : v = peer[u]
      BY <2>1 DEF ChatInv, Bound, Knowing
    <3>2. Tied(v, u)
      BY <2>1, <3>1 DEF OnceInv
    <3>3. Tied(v, u)'
      BY <3>2, TiesStay
    <3> QED BY <2>1, <3>1, <3>3 DEF Tied, Gone
  <2> QED BY <1>2, <2>1 DEF Kept
<1>3. \A u \in Users : \A m \in heard'[u] : m[2] = peer'[u]
  BY DEF Kept, OnceInv
<1> QED BY <1>1, <1>2, <1>3 DEF OnceInv, In

\* What mq_receive() and mq_send() do to the only queue of a user.
LEMMA PopOnce ==
  ASSUME MaxStarts = 1, NEW b, BoxOK(b), NEW w \in Users, NEW c, Taken(b, c, w, 1)
  PROVE  /\ \A u \in Users : In(c, u, 1) \subseteq In(b, u, 1)
         /\ Head(b[w][1]) \in In(b, w, 1) /\ Head(b[w][1]) \in Msgs
<1>1. 1 \in Starts /\ b \in [Users -> [Starts -> Seq(Msgs)]]
  BY DEF BoxOK, Starts
<1>2. /\ \A u \in Users, k \in Starts : In(c, u, k) \subseteq In(b, u, k)
      /\ Head(b[w][1]) \in In(b, w, 1) /\ Head(b[w][1]) \in Msgs
  BY <1>1, PopBox
<1> QED BY <1>1, <1>2

\* The same for a message that is sent.
LEMMA PutOnce ==
  ASSUME MaxStarts = 1, NEW b \in [Users -> [Starts -> Seq(Msgs)]], NEW p \in Users,
         NEW m \in Msgs, NEW c, Added(b, c, p, 1, m)
  PROVE  /\ In(c, p, 1) = In(b, p, 1) \cup {m}
         /\ \A u \in Users : u # p => In(c, u, 1) = In(b, u, 1)
<1>1. 1 \in Starts
  BY DEF Starts
<1>2. /\ In(c, p, 1) = In(b, p, 1) \cup {m}
      /\ \A u \in Users, k \in Starts : ~(u = p /\ k = 1) => In(c, u, k) = In(b, u, k)
  BY <1>1, PutBox
<1> QED BY <1>1, <1>2

\* Every step keeps the ties.
LEMMA OnceNextInv ==
  ASSUME MaxStarts = 1, ChatInv, ChatInv', OnceInv, [Next_52_04]_vars_52_04
  PROVE  OnceInv'
<1>1. CASE UNCHANGED vars_52_04
  BY <1>1 DEF vars_52_04, OnceInv, In, LetterOK, Tied, Talks, Gone
<1>2. CASE Next_52_04
  <2>1. PICK w \in Users : Start(w) \/ Process(w) \/ Receive_52_04(w) \/ Quit(w)
    BY <1>2 DEF Next_52_04
  <2>b. BoxOK(box) /\ box \in [Users -> [Starts -> Seq(Msgs)]] /\ Starts = {1}
    BY DEF ChatInv, BoxOK, Starts
  <2>s. \A u \in Users \ {w} : ust'[u] = ust[u] /\ peer'[u] = peer[u] /\ heard'[u] = heard[u]
    <3> USE DEF ChatInv
    <3>1. CASE Start(w)
      BY <3>1, SMTT(30) DEF Start, StartOn
    <3>2. CASE Listen(w) \/ ListenOpen(w)
      BY <3>2, SMTT(30) DEF Listen, ListenOpen
    <3>3. CASE Invoke(w)
      BY <3>3, SMTT(30) DEF Invoke, ExitErr, Leave
    <3>4. CASE Answer(w)
      BY <3>4, SMTT(60) DEF Answer, ExitErr, Leave
    <3>5. CASE Sending(w) \/ Receive_52_04(w)
      BY <3>5 DEF Sending, SendTo, Receive_52_04, ReceiveIf
    <3>6. CASE Quit(w)
      BY <3>6 DEF Quit, ExitErr, Leave
    <3> QED BY <2>1, <3>1, <3>2, <3>3, <3>4, <3>5, <3>6 DEF Process, Accept, SendStart, Send, Sending
  <2>2. CASE Start(w)
    <3>1. \A u \in Users : In(box', u, 1) \subseteq In(box, u, 1)
      <4>1. \A u \in Users : box'[u][1] = <<>> \/ box'[u][1] = box[u][1]
        BY <2>2, <2>b, SMTT(60) DEF Start, StartOn, ChatInv
      <4> QED BY <4>1 DEF In
    <3>2. ust'[w] \in Bound => ust[w] \in Bound /\ peer'[w] = peer[w]
      BY <2>2 DEF Start, StartOn, ChatInv, Bound
    <3>3. heard' = heard /\ (heard[w] = {} \/ peer'[w] = peer[w])
      BY <2>2 DEF Start, StartOn, ChatInv
    <3>4. Kept
      BY <2>s, <3>1, <3>2, <3>3 DEF Kept
    <3> QED BY <2>1, <3>4, KeptInv
  <2>3. CASE Leave(w) /\ box' = box
    <3>1. /\ ust' = [ust EXCEPT ![w] = "off"] /\ heard' = [heard EXCEPT ![w] = {}]
      BY <2>3 DEF Leave
    <3>2. ust'[w] = "off" /\ heard'[w] = {}
      BY <3>1, SMTT(30) DEF ChatInv
    <3>3. Kept
      BY <2>s, <2>3, <3>2, SMTT(30) DEF Kept, Bound
    <3> QED BY <2>1, <3>3, KeptInv
  <2>4. CASE Listen(w)
    <3> DEFINE m == Head(box[w][inst[w]])
    <3>1. /\ ust[w] = "listen" /\ inst[w] \in Starts /\ box[w][inst[w]] # <<>> /\ heard' = heard
          /\ box' = [box EXCEPT ![w][inst[w]] = Tail(@)]
      BY <2>4 DEF Listen, Box, Pop, ChatInv
    <3>2. /\ \A u \in Users : In(box', u, 1) \subseteq In(box, u, 1)
          /\ m \in In(box, w, 1) /\ m \in Msgs
      <4>1. inst[w] = 1 /\ Taken(box, box', w, 1)
        BY <2>b, <3>1, SMTT(30) DEF Taken, Differ
      <4> QED BY <2>b, <4>1, PopOnce
    <3>3. \/ m[1] = "START" /\ peer'[w] = m[2]
          \/ ust'[w] = "listen" /\ peer' = peer
      BY <2>4, SMTT(60) DEF Listen, Box, ChatInv
    <3> HIDE DEF m
    <3>4. ust'[w] \in Bound => Tied(peer[w], w)'
      <4>1. CASE m[1] = "START" /\ peer'[w] = m[2]
        <5>1. PICK v \in Users : v = m[2]
          BY <3>2 DEF Msgs
        <5>2. Tied(v, w)
          BY <3>2, <4>1, <5>1 DEF OnceInv, LetterOK
        <5>3. Tied(v, w)'
          BY <2>1, <5>2, TiesStay
        <5> QED BY <4>1, <5>1, <5>3
      <4>2. CASE ust'[w] = "listen"
        BY <4>2 DEF Bound
      <4> QED BY <3>3, <4>1, <4>2
    <3>5. heard[w] = {}
      BY <3>1, Zenon DEF ChatInv
    <3>6. Kept
      <4>1. \A u \in Users : \A x \in In(box', u, 1) : x \in In(box, u, 1)
        BY <3>2
      <4>2. \A u \in Users : \A x \in heard'[u] : x \in heard[u] /\ peer'[u] = peer[u]
        BY <2>s, <3>1, <3>5
      <4>3. \A u \in Users : ust'[u] \in Bound =>
              (ust[u] \in Bound /\ peer'[u] = peer[u]) \/ Tied(peer[u], u)'
        BY <2>s, <3>4, ZenonT(30)
      <4> QED BY <4>1, <4>2, <4>3, Zenon DEF Kept
    <3> QED BY <2>1, <3>6, KeptInv
  <2>5. CASE (ListenOpen(w) \/ Invoke(w)) /\ ~(Leave(w) /\ box' = box)
    <3>1. /\ peer' = peer /\ heard' = heard /\ box' = box
          /\ ust'[w] \in Bound => ust[w] \in Bound
      BY <2>5, SMTT(30) DEF ListenOpen, Invoke, ExitErr, ChatInv, Bound
    <3>2. Kept
      BY <2>s, <3>1, Zenon DEF Kept
    <3> QED BY <2>1, <3>2, KeptInv
  <2>6. CASE Answer(w)
    <3> DEFINE m == Head(box[w][inst[w]])
    <3>1. /\ ust[w] = "wait" /\ inst[w] \in Starts /\ box[w][inst[w]] # <<>>
          /\ box' = [box EXCEPT ![w][inst[w]] = Tail(@)]
      BY <2>6 DEF Answer, Box, Pop, ChatInv
    <3>2. /\ \A u \in Users : In(box', u, 1) \subseteq In(box, u, 1)
          /\ m \in In(box, w, 1) /\ m \in Msgs
      <4>1. inst[w] = 1 /\ Taken(box, box', w, 1)
        BY <2>b, <3>1, SMTT(30) DEF Taken, Differ
      <4> QED BY <2>b, <4>1, PopOnce
    <3>3. \/ m[1] = "ACCEPTED" /\ ust'[w] = "chat" /\ UNCHANGED <<peer, heard>>
          \/ ust'[w] = "off" /\ heard'[w] = {}
      BY <2>6, SMTT(60) DEF Answer, Box, ExitErr, Leave, ChatInv
    <3> HIDE DEF m
    <3>4. CASE ust'[w] = "off" /\ heard'[w] = {}
      <4>1. Kept
        BY <2>s, <3>2, <3>4 DEF Kept, Bound
      <4> QED BY <2>1, <4>1, KeptInv
    <3>5. CASE m[1] = "ACCEPTED" /\ ust'[w] = "chat" /\ UNCHANGED <<peer, heard>>
      <4>1. PICK v \in Users : v = m[2]
        BY <3>2, SMTT(30) DEF Msgs
      <4>2. Tied(w, v) /\ Talks(v, w)
        BY <3>2, <3>5, <4>1, ZenonT(30) DEF OnceInv, LetterOK
      <4>3. peer[w] = v
        BY <3>1, <4>2 DEF Tied, Gone
      <4>4. Talks(v, w)'
        BY <2>1, <4>2, TiesStay
      <4>5. Tied(peer[w], w)'
        BY <3>5, <4>3, <4>4 DEF Tied, Talks, Gone
      <4>6. Kept
        BY <2>s, <3>2, <3>5, <4>5 DEF Kept
      <4> QED BY <2>1, <4>6, KeptInv, SMTT(30)
    <3> QED BY <3>3, <3>4, <3>5
  <2>7. CASE Sending(w)
    <3>1. PICK t \in {"START", "ACCEPTED", "MSG"} :
            /\ box' = Put(box, t, w, peer[w], pq[w])
            /\ UNCHANGED <<peer, heard>>
            /\ \/ t = "START" /\ ust[w] = "start" /\ ust'[w] = "wait"
               \/ t = "ACCEPTED" /\ ust[w] = "accept" /\ ust'[w] = "chat"
               \/ t = "MSG" /\ ust[w] = "chat" /\ ust'[w] = "chat"
      BY <2>7, SMTT(30) DEF Sending, SendTo, ChatInv
    <3>2. PICK v \in Users \ {w} : v = peer[w]
      BY <3>1 DEF ChatInv, Knowing
    <3>3. PICK a \in Msgs : a = <<t, w, inst[v]>>
      BY ZenonT(60) DEF Msgs, ChatInv
    <3>4. LetterOK(a, v)'
      <4>1. a[1] = t /\ a[2] = w
        BY <3>3
      <4>2. CASE t = "START"
        <5>1. Tied(w, v)'
          BY <3>1, <3>2, <4>2 DEF Tied
        <5> QED BY <4>1, <4>2, <5>1 DEF LetterOK
      <4>3. CASE t # "START"
        <5>1. ust[w] \in Bound /\ ust'[w] = "chat"
          BY <3>1, <4>3 DEF Bound
        <5>2. Tied(v, w)
          BY <3>2, <5>1 DEF OnceInv
        <5>3. Tied(v, w)'
          BY <2>1, <5>2, TiesStay
        <5>4. Talks(w, v)'
          BY <3>1, <3>2, <5>1 DEF Talks
        <5> QED BY <4>1, <4>3, <5>3, <5>4 DEF LetterOK
      <4> QED BY <4>2, <4>3
    <3>5. \A u \in Users : \A x \in In(box', u, 1) : x \in In(box, u, 1) \/ LetterOK(x, u)'
      <4>1. CASE pq[w] = Orphan
        <5>1. box' = box
          BY <3>1, <4>1, Zenon DEF Put
        <5> QED BY <5>1
      <4>2. CASE pq[w] # Orphan
        <5>0. pq[w] = 1
          BY <2>b, <3>1, <4>2 DEF ChatInv, Opened
        <5>1. box' = [box EXCEPT ![v][1] = Append(@, a)]
          BY <3>1, <3>2, <3>3, <4>2, <5>0, Zenon DEF Put
        <5>2. Added(box, box', v, 1, a)
          BY <2>b, <5>1 DEF Added, Differ
        <5>3. PICK b \in [Users -> [Starts -> Seq(Msgs)]] : b = box
          BY <2>b
        <5>4. PICK c : c = box'
          OBVIOUS
        <5>5. Added(b, c, v, 1, a)
          BY <5>2, <5>3, <5>4
        <5>6. /\ In(c, v, 1) = In(b, v, 1) \cup {a}
              /\ \A u \in Users : u # v => In(c, u, 1) = In(b, u, 1)
          BY <5>5, PutOnce
        <5> QED BY <3>4, <5>3, <5>4, <5>6
      <4> QED BY <4>1, <4>2
    <3>6. ust'[w] \in Bound => ust[w] \in Bound
      BY <3>1 DEF Bound
    <3>7. Kept
      BY <2>s, <3>1, <3>5, <3>6, ZenonT(30) DEF Kept
    <3> QED BY <2>1, <3>7, KeptInv
  <2>8. CASE Receive_52_04(w)
    <3> DEFINE m == Head(box[w][inst[w]])
    <3>1. /\ ust[w] = "chat" /\ inst[w] \in Starts /\ box[w][inst[w]] # <<>>
          /\ box' = [box EXCEPT ![w][inst[w]] = Tail(@)] /\ UNCHANGED <<ust, peer>>
          /\ heard' = heard \/ (m[1] = "MSG" /\ heard' = [heard EXCEPT ![w] = @ \cup {m}])
      BY <2>8 DEF Receive_52_04, ReceiveIf, Box, Pop, ChatInv
    <3>2. /\ \A u \in Users : In(box', u, 1) \subseteq In(box, u, 1)
          /\ m \in In(box, w, 1) /\ m \in Msgs
      <4>1. inst[w] = 1 /\ Taken(box, box', w, 1)
        BY <2>b, <3>1 DEF Taken, Differ
      <4> QED BY <2>b, <4>1, PopOnce
    <3> HIDE DEF m
    <3>3. \A x \in heard'[w] : x \in heard[w] \/ x[2] = peer'[w]
      <4>1. CASE heard' = heard
        BY <4>1
      <4>2. CASE m[1] = "MSG" /\ heard' = [heard EXCEPT ![w] = @ \cup {m}]
        <5>1. Tied(w, m[2])
          BY <3>2, <4>2 DEF OnceInv, LetterOK
        <5>2. m[2] = peer[w]
          BY <3>1, <5>1 DEF Tied, Gone
        <5>3. heard'[w] = heard[w] \cup {m}
          BY <4>2 DEF ChatInv
        <5> QED BY <3>1, <5>2, <5>3
      <4> QED BY <3>1, <4>1, <4>2
    <3>4. Kept
      BY <2>s, <3>1, <3>2, <3>3, Zenon DEF Kept
    <3> QED BY <2>1, <3>4, KeptInv
  <2>9. CASE Quit(w)
    BY <2>3, <2>9 DEF Quit, ExitErr
  <2> QED BY <2>1, <2>2, <2>3, <2>4, <2>5, <2>6, <2>7, <2>8, <2>9
          DEF Process, Accept, SendStart, Send, Sending
<1> QED BY <1>1, <1>2

\* 52-04, for any users, queue sizes and numbers of starts and lines: what a
\* process prints was written after the process was started; and it was
\* written by the peer of its conversation where no user starts the program
\* twice, or where there are only two users.  (With three users and restarts
\* it need not be.)
THEOREM ChatHeardRight ==
  /\ MaxStarts \in Nat => (Spec_52_04 => []NoStaleMessages)
  /\ MaxStarts = 1 => (Spec_52_04 => []OnlyPeerHeard)
  /\ MaxStarts \in Nat /\ (\E a, b : Users = {a, b}) => (Spec_52_04 => []OnlyPeerHeard)
<1>1. ASSUME MaxStarts \in Nat
      PROVE  Spec_52_04 => []ChatInv
  <2>1. Init_52_04 => ChatInv
    BY <1>1, ChatInitInv
  <2>2. ChatInv /\ [Next_52_04]_vars_52_04 => ChatInv'
    BY <1>1, ChatNextInv
  <2> QED BY <2>1, <2>2, PTL DEF Spec_52_04
<1>2. ASSUME MaxStarts \in Nat
      PROVE  Spec_52_04 => []NoStaleMessages
  <2>1. ChatInv => NoStaleMessages
    BY DEF ChatInv, NoStaleMessages
  <2>2. Spec_52_04 => []ChatInv
    BY <1>1, <1>2
  <2> QED BY <2>1, <2>2, PTL
<1>3. ASSUME MaxStarts = 1
      PROVE  Spec_52_04 => []OnlyPeerHeard
  <2>1. Spec_52_04 => []ChatInv
    BY <1>1, <1>3
  <2>2. Init_52_04 => OnceInv
    BY <1>3 DEF Init_52_04, OnceInv, In, Bound
  <2>3. ChatInv /\ ChatInv' /\ OnceInv /\ [Next_52_04]_vars_52_04 => OnceInv'
    BY <1>3, OnceNextInv, SMTT(30)
  <2>4. OnceInv => OnlyPeerHeard
    BY DEF OnceInv, OnlyPeerHeard
  <2> QED BY <2>1, <2>2, <2>3, <2>4, PTL DEF Spec_52_04
<1>4. ASSUME MaxStarts \in Nat, \E a, b : Users = {a, b}
      PROVE  Spec_52_04 => []OnlyPeerHeard
  <2>1. ChatInv => OnlyPeerHeard
    <3>1. SUFFICES ASSUME ChatInv, NEW u \in Users, NEW m \in heard[u]
                   PROVE  m[2] = peer[u]
      BY DEF OnlyPeerHeard
    <3>2. m[2] \in Users \ {u} /\ peer[u] \in Users \ {u}
      BY <3>1 DEF ChatInv, Msgs, Knowing
    <3> QED BY <1>4, <3>2
  <2>2. Spec_52_04 => []ChatInv
    BY <1>1, <1>4
  <2> QED BY <2>1, <2>2, PTL
<1> QED BY <1>2, <1>3, <1>4

-----------------------------------------------------------------------------
(* The transfer through shared memory of exercise 54-01.                   *)

\* The inputs are sequences of blocks.
LEMMA InputBlocks == Inputs \subseteq Seq(Block)
BY DataAssumption DEF Inputs

\* Both programs start with an empty buffer and the one token in sem_read.
LEMMA InitInv == Init => IInv
BY DataAssumption, InputBlocks, SMTT(60) DEF Init, InitTokens, IInv, TypeOK, WriterPc, ReaderPc, WriterStop, ReaderStop,
   TokenCount, DataInv, ToCopy, Drained, CopyIsPrefix, ExitComplete

\* Every step of the writer, the reader or the environment keeps the
\* invariant, one case per action.
LEMMA NextInv == IInv /\ [Next]_vars => IInv'
<1> SUFFICES ASSUME IInv, [Next]_vars PROVE IInv'
  OBVIOUS
<1> USE DataAssumption DEF IInv, TypeOK, WriterPc, ReaderPc, WriterStop, ReaderStop,
    TokenCount, DataInv, ToCopy, Drained, CopyIsPrefix, ExitComplete
<1>1. CASE WriterWait
  BY <1>1 DEF WriterWait
<1>2. CASE WriterRead
  BY <1>2 DEF WriterRead
<1>3. CASE WriterReadError
  BY <1>3 DEF WriterReadError
<1>4. CASE WriterPost
  BY <1>4 DEF WriterPost
<1>5. CASE WriterTest
  BY <1>5 DEF WriterTest
<1>6. CASE WriterLast
  BY <1>6 DEF WriterLast
<1>7. CASE WriterKilled
  BY <1>7 DEF WriterKilled
<1>8. CASE ReaderWait
  BY <1>8 DEF ReaderWait
<1>9. CASE ReaderWrite
  <2>1. CASE shm = Empty
    BY <1>9, <2>1 DEF ReaderWrite
  <2>2. ASSUME NEW x \in {shm, Short}, shm # Empty,
               x = Short => "short_write" \in Faults,
               out' = Append(out, x)
        PROVE  IInv'
    <3>1. /\ wdone \in Nat /\ wdone > 0 /\ wdone <= Len(input)
          /\ Len(out) = wdone - 1 /\ shm = input[wdone]
      BY <1>9, <2>2 DEF ReaderWrite
    <3>2. /\ out' \in Seq(Block \cup {Short})
          /\ Len(out') = wdone
          /\ out'[wdone] = x
          /\ \A k \in 1..Len(out) : out'[k] = out[k]
      BY <2>2, <3>1
    <3>3. CopyIsPrefix'
      BY <1>9, <2>2, <3>1, <3>2 DEF ReaderWrite
    <3>4. QED
      BY <1>9, <2>2, <3>1, <3>2, <3>3 DEF ReaderWrite
  <2>3. QED
    BY <1>9, <2>1, <2>2 DEF ReaderWrite
<1>10. CASE ReaderWriteError
  BY <1>10 DEF ReaderWriteError
<1>11. CASE ReaderPost
  BY <1>11 DEF ReaderPost
<1>12. CASE ReaderTest
  BY <1>12 DEF ReaderTest
<1>13. CASE ReaderKilled
  BY <1>13 DEF ReaderKilled
<1>14. CASE UNCHANGED vars
  BY <1>14 DEF vars
<1>15. QED
  BY <1>1, <1>2, <1>3, <1>4, <1>5, <1>6, <1>7, <1>8, <1>9, <1>10, <1>11, <1>12,
     <1>13, <1>14, Zenon DEF Next, WriterStep, ReaderStep

\* The inductive invariant holds in every state.
LEMMA Invariance == Spec => []IInv
BY InitInv, NextInv, PTL DEF Spec

\* The semaphores never fall below zero, the writer never passes the end of
\* its input, and the buffer and the output only ever hold blocks.
THEOREM TransferTypes == Spec => []TypeOK
<1>1. IInv => TypeOK
  BY DEF IInv
<1>2. QED
  BY <1>1, Invariance, PTL

\* sem_read and sem_write hand the buffer from one loop to the other: the two
\* are never both past their sem_wait().
THEOREM BufferIsExclusive == Spec => []BufferExclusive
<1>1. IInv => BufferExclusive
  BY DEF IInv, TypeOK, TokenCount, BufferExclusive
<1>2. QED
  BY <1>1, Invariance, PTL

\* Whatever the faults, the reader's output is a prefix of the writer's input,
\* up to blocks cut short by write().
THEOREM CopyCorrect == Spec => []CopyIsPrefix
<1>1. IInv => CopyIsPrefix
  BY DEF IInv
<1>2. QED
  BY <1>1, Invariance, PTL

\* Either program leaves its loop normally only when every block was copied.
THEOREM ExitIsComplete == Spec => []ExitComplete
<1>1. IInv => ExitComplete
  BY DEF IInv
<1>2. QED
  BY <1>1, Invariance, PTL
=============================================================================
